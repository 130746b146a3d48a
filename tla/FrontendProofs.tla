--------------------------- MODULE FrontendProofs ---------------------------
(***************************************************************************)
(* What the front ends keep, for any number of models, switches, reports   *)
(* and faults.  The argument for the tray: while the menu is held, the     *)
(* latest switch is one it knows of and a timer will end the wait; its     *)
(* model is the one wanted, and another than the one in use.  For the      *)
(* window: the last thing it hears of the note, from the queue, a thread   *)
(* or a response, is what the note is; a note saved and not yet shown is   *)
(* brought by an event or a request; else either will be asked for, or is  *)
(* astray.  The outcome of a note follows its end, unless it came early.   *)
(***************************************************************************)
EXTENDS Frontends, FiniteSetTheorems, TLAPS

-----------------------------------------------------------------------------
(* The Linux tray                                                            *)

Kinds == {"tick", "lock", "abort", "clear", "engine"}
JobType == [model : Models, worker : {"running", "loaded", "broken", "done"}]

Named == /\ used \in Models /\ shown \in Models /\ checked \in Models
         /\ mode \in {"idle", "switching", "background"}
         /\ status \in Told /\ wanted \in Models \union {None}
         /\ record \in [prepared : SUBSET Models, failed : SUBSET Models]
         /\ faults \in 0 .. MaxFaults /\ lingered \in BOOLEAN
JobsOK == \A i \in DOMAIN jobs : i \in 0 .. latest /\ jobs[i] \in JobType
\* Each switch may be followed by the id of its abort, which its timer owes.
Owed == IF <<"abort", latest>> \in timers THEN 1 ELSE 0
CountOK == /\ latest \in Nat /\ choices \in 0 .. MaxChoices
           /\ latest + Owed <= 2 * (MaxChoices - choices)
TimersOK == /\ timers \subseteq Kinds \X (Ids \union 1 .. MaxSays)
            /\ \A i \in Nat : <<"abort", i>> \in timers => i <= latest
SaysOK == /\ says \in Seq({"engine", None}) /\ saysShown \in Nat /\ messages \in Nat
          /\ saysShown + Len(says) + messages <= MaxSays
DialogsOK == /\ dialogs \in Seq(Nat)
             /\ \A k \in 1 .. Len(dialogs) :
                  dialogs[k] \in DOMAIN jobs /\ jobs[dialogs[k]].worker = "done"
MenuHeld == mode # "idle" => /\ latest \in DOMAIN jobs
                             /\ <<"abort", latest>> \in timers \/ faults > 0
Pending == /\ latest \in DOMAIN jobs /\ faults = 0
           /\ jobs[latest].worker # "done" \/ mode # "idle"
           => jobs[latest].model # used
Goes == latest \in DOMAIN jobs /\ jobs[latest].worker # "done" => jobs[latest].model = wanted
Announced == mode # "idle" /\ jobs[latest].worker = "done" /\ status \in Under => lingered

TrayI == /\ Named /\ JobsOK /\ CountOK /\ TimersOK /\ SaysOK /\ DialogsOK
         /\ MenuHeld /\ Pending /\ Goes /\ Announced
         /\ CheckedIsUsed /\ SwitchTracked /\ UsedNotFailed /\ StatusTold /\ SwitchEnds

LEMMA TrayStart ==
  ASSUME NEW n \in 0 .. MaxChoices, NEW s \in 0 .. MaxSays, TrayInit(n, s)
  PROVE  TrayI
<1>1. Named
  <2>1. First \in Models /\ MaxFaults \in Nat
    BY TrayAssumption
  <2>2. record \in [prepared : SUBSET Models, failed : SUBSET Models]
    BY DEF TrayInit
  <2>3. faults \in 0 .. MaxFaults
    BY <2>1 DEF TrayInit
  <2>4. status \in Told
    BY DEF TrayInit, Told
  <2>5. QED
    BY <2>1, <2>2, <2>3, <2>4 DEF TrayInit, Named
<1>2. JobsOK /\ DialogsOK
  BY DEF TrayInit, JobsOK, DialogsOK
<1>3. CountOK /\ TimersOK
  BY TrayAssumption DEF TrayInit, CountOK, TimersOK, Owed
<1>4. SaysOK
  BY TrayAssumption DEF TrayInit, SaysOK
<1>5. MenuHeld /\ Pending /\ Goes /\ Announced
  BY DEF TrayInit, MenuHeld, Pending, Goes, Announced
<1>6. CheckedIsUsed /\ SwitchTracked /\ UsedNotFailed /\ StatusTold /\ SwitchEnds
  BY DEF TrayInit, CheckedIsUsed, SwitchTracked, UsedNotFailed, StatusTold, SwitchEnds, None, Under
<1>7. QED
  BY <1>1, <1>2, <1>3, <1>4, <1>5, <1>6 DEF TrayI

LEMMA TrayRests == TrayI /\ UNCHANGED trayVars => TrayI'
<1> SUFFICES ASSUME TrayI, UNCHANGED trayVars PROVE TrayI'
  OBVIOUS
<1>1. (Named /\ JobsOK /\ CountOK /\ TimersOK /\ SaysOK /\ DialogsOK)'
  BY DEF TrayI, trayVars, Named, JobsOK, CountOK, Owed, TimersOK, SaysOK, DialogsOK
<1>2. (MenuHeld /\ Pending /\ Goes /\ Announced)'
  BY DEF TrayI, trayVars, MenuHeld, Pending, Goes, Announced
<1>3. (CheckedIsUsed /\ SwitchTracked /\ UsedNotFailed /\ StatusTold /\ SwitchEnds)'
  BY DEF TrayI, trayVars, CheckedIsUsed, SwitchTracked, UsedNotFailed, StatusTold, SwitchEnds
<1>4. QED
  BY <1>1, <1>2, <1>3 DEF TrayI

LEMMA ChooseKeeps == ASSUME TrayI, NEW m \in Models, Choose(m) PROVE TrayI'
<1>0. /\ Named /\ JobsOK /\ CountOK /\ TimersOK /\ SaysOK /\ DialogsOK
      /\ MenuHeld /\ Pending /\ Goes /\ Announced
      /\ CheckedIsUsed /\ SwitchTracked /\ UsedNotFailed /\ StatusTold /\ SwitchEnds
  BY DEF TrayI
<1>1. UNCHANGED <<used, shown, dialogs, says, saysShown, record, messages, faults, lingered>>
  BY DEF Choose
<1>2. CASE /\ m = shown /\ checked' = m
           /\ UNCHANGED <<latest, mode, wanted, status, jobs, timers, choices>>
  <2>1. (Named /\ JobsOK /\ CountOK /\ TimersOK /\ SaysOK /\ DialogsOK)'
    BY <1>0, <1>1, <1>2 DEF Named, JobsOK, CountOK, Owed, TimersOK, SaysOK, DialogsOK
  <2>2. (MenuHeld /\ Pending /\ Goes /\ Announced)'
    BY <1>0, <1>1, <1>2 DEF MenuHeld, Pending, Goes, Announced
  <2>3. (CheckedIsUsed /\ SwitchTracked /\ UsedNotFailed /\ StatusTold /\ SwitchEnds)'
    BY <1>0, <1>1, <1>2 DEF CheckedIsUsed, SwitchTracked, UsedNotFailed, StatusTold, SwitchEnds
  <2>4. QED
    BY <2>1, <2>2, <2>3 DEF TrayI
<1>3. CASE /\ m # shown /\ choices > 0 /\ choices' = choices - 1
           /\ latest' = latest + 1 /\ mode' = "switching" /\ wanted' = m
           /\ checked' = shown /\ status' = "switching"
           /\ jobs' = [i \in DOMAIN jobs \union {latest'} |->
                         IF i = latest' THEN [model |-> m, worker |-> "running"] ELSE jobs[i]]
           /\ timers' = timers \union ({"tick", "lock", "abort"} \X {latest'})
  <2>1. Named'
    BY <1>0, <1>1, <1>3 DEF Named, Told, Under
  <2>2. JobsOK'
    <3>1. [model |-> m, worker |-> "running"] \in JobType
      BY DEF JobType
    <3>2. QED
      BY <1>0, <1>3, <3>1 DEF JobsOK, CountOK
  <2>3. CountOK'
    <3>1. Owed \in {0, 1} /\ Owed' \in {0, 1}
      BY DEF Owed
    <3>2. QED
      BY <1>0, <1>3, <3>1, TrayAssumption DEF CountOK
  <2>4. TimersOK'
    <3>1. latest' \in Ids
      BY <1>0, <1>3, <2>3, TrayAssumption DEF CountOK, Owed, Ids
    <3>2. {"tick", "lock", "abort"} \X {latest'} \subseteq Kinds \X (Ids \union 1 .. MaxSays)
      BY <3>1 DEF Kinds
    <3>3. \A i \in Nat : <<"abort", i>> \in timers' => <<"abort", i>> \in timers \/ i = latest'
      BY <1>3
    <3>4. QED
      BY <1>0, <1>3, <3>2, <3>3 DEF TimersOK, CountOK
  <2>5. SaysOK'
    BY <1>0, <1>1 DEF SaysOK
  <2>6. DialogsOK'
    BY <1>0, <1>1, <1>3 DEF DialogsOK, JobsOK, CountOK
  <2>7. latest' \in DOMAIN jobs' /\ jobs'[latest'] = [model |-> m, worker |-> "running"]
    BY <1>3
  <2>8. {<<"abort", latest'>>, <<"lock", latest'>>} \subseteq timers'
    BY <1>3
  <2>9. (MenuHeld /\ Pending /\ Goes /\ Announced)'
    BY <1>0, <1>1, <1>3, <2>7, <2>8 DEF MenuHeld, Pending, Goes, Announced, CheckedIsUsed
  <2>10. (CheckedIsUsed /\ SwitchTracked /\ UsedNotFailed /\ StatusTold /\ SwitchEnds)'
    BY <1>0, <1>1, <1>3, <2>8 DEF CheckedIsUsed, SwitchTracked, UsedNotFailed, StatusTold, SwitchEnds
  <2>11. QED
    BY <2>1, <2>2, <2>3, <2>4, <2>5, <2>6, <2>9, <2>10 DEF TrayI
<1>4. QED
  BY <1>2, <1>3 DEF Choose

LEMMA DialogKeeps == ASSUME TrayI, CloseDialog PROVE TrayI'
<1>0. /\ Named /\ JobsOK /\ CountOK /\ TimersOK /\ SaysOK /\ DialogsOK
      /\ MenuHeld /\ Pending /\ Goes /\ Announced
      /\ CheckedIsUsed /\ SwitchTracked /\ UsedNotFailed /\ StatusTold /\ SwitchEnds
  BY DEF TrayI
<1>1. UNCHANGED <<used, shown, checked, latest, jobs, timers, status, says, saysShown,
                  record, choices, messages, wanted, faults>>
  BY DEF CloseDialog
<1>2. PICK i \in DOMAIN jobs : /\ jobs[i].worker = "done"
                               /\ lingered' = (lingered \/ (mode # "idle" /\ i # latest))
  BY <1>0 DEF CloseDialog, DialogsOK
<1>3. mode' = "idle"
  BY DEF CloseDialog, Release
<1>4. DialogsOK'
  <2>1. dialogs' \in Seq(Nat) /\ Len(dialogs') <= Len(dialogs) /\ \A k \in 1 .. Len(dialogs') : dialogs'[k] = dialogs[k]
    BY <1>0 DEF CloseDialog, DialogsOK
  <2>2. ASSUME NEW k \in 1 .. Len(dialogs') PROVE dialogs'[k] \in DOMAIN jobs /\ jobs[dialogs'[k]].worker = "done"
    <3>1. k \in 1 .. Len(dialogs)
      BY <1>0, <2>1 DEF DialogsOK
    <3>2. QED
      BY <1>0, <2>1, <3>1 DEF DialogsOK
  <2>3. QED
    BY <1>1, <2>1, <2>2 DEF DialogsOK
<1>5. (Named /\ JobsOK /\ CountOK /\ TimersOK /\ SaysOK)'
  BY <1>0, <1>1, <1>2, <1>3 DEF Named, JobsOK, CountOK, Owed, TimersOK, SaysOK
<1>6. (MenuHeld /\ Pending /\ Goes /\ Announced)'
  BY <1>0, <1>1, <1>2, <1>3 DEF MenuHeld, Pending, Goes, Announced
<1>7. (CheckedIsUsed /\ SwitchTracked /\ UsedNotFailed /\ StatusTold /\ SwitchEnds)'
  BY <1>0, <1>1, <1>2, <1>3 DEF CheckedIsUsed, SwitchTracked, UsedNotFailed, StatusTold, SwitchEnds, Announced, Named
<1>8. QED
  BY <1>4, <1>5, <1>6, <1>7 DEF TrayI

LEMMA WorkerKeeps == ASSUME TrayI, NEW i \in Ids, WorkerEnds(i) PROVE TrayI'
<1>0. /\ Named /\ JobsOK /\ CountOK /\ TimersOK /\ SaysOK /\ DialogsOK
      /\ MenuHeld /\ Pending /\ Goes /\ Announced
      /\ CheckedIsUsed /\ SwitchTracked /\ UsedNotFailed /\ StatusTold /\ SwitchEnds
  BY DEF TrayI
<1>1. UNCHANGED <<used, shown, checked, latest, mode, timers, dialogs, status, says,
                  saysShown, record, choices, messages, wanted, faults, lingered>>
  BY DEF WorkerEnds
<1>2. /\ i \in DOMAIN jobs /\ jobs[i].worker = "running" /\ DOMAIN jobs' = DOMAIN jobs
      /\ jobs'[i].model = jobs[i].model /\ jobs'[i] \in JobType /\ jobs'[i].worker # "done"
      /\ \A j \in DOMAIN jobs : j # i => jobs'[j] = jobs[j]
  BY <1>0 DEF WorkerEnds, JobsOK, JobType
<1>3. (Named /\ CountOK /\ TimersOK /\ SaysOK)'
  BY <1>0, <1>1 DEF Named, CountOK, Owed, TimersOK, SaysOK
<1>4. (JobsOK /\ DialogsOK)'
  BY <1>0, <1>1, <1>2 DEF JobsOK, DialogsOK
<1>5. (MenuHeld /\ Pending /\ Goes /\ Announced)'
  BY <1>0, <1>1, <1>2 DEF MenuHeld, Pending, Goes, Announced
<1>6. (CheckedIsUsed /\ SwitchTracked /\ UsedNotFailed /\ StatusTold /\ SwitchEnds)'
  BY <1>0, <1>1, <1>2 DEF CheckedIsUsed, SwitchTracked, UsedNotFailed, StatusTold, SwitchEnds
<1>7. QED
  BY <1>3, <1>4, <1>5, <1>6 DEF TrayI

\* An answer ends its switch; only that of the latest one does more.
LEMMA FinalizeKeeps == ASSUME TrayI, NEW i \in Ids, Finalize(i) PROVE TrayI'
<1>0. /\ Named /\ JobsOK /\ CountOK /\ TimersOK /\ SaysOK /\ DialogsOK
      /\ MenuHeld /\ Pending /\ Goes /\ Announced
      /\ CheckedIsUsed /\ SwitchTracked /\ UsedNotFailed /\ StatusTold /\ SwitchEnds
  BY DEF TrayI
<1>1. UNCHANGED <<latest, says, saysShown, choices, messages>>
  BY DEF Finalize
<1>2. /\ i \in DOMAIN jobs /\ jobs[i].worker # "done" /\ DOMAIN jobs' = DOMAIN jobs
      /\ jobs'[i].model = jobs[i].model /\ jobs'[i] \in JobType /\ jobs'[i].worker = "done"
      /\ \A j \in DOMAIN jobs : j # i => jobs'[j] = jobs[j]
  BY <1>0 DEF Finalize, Ended, JobsOK, JobType
<1>3. (JobsOK /\ SaysOK)'
  BY <1>0, <1>1, <1>2 DEF JobsOK, SaysOK
<1>4. jobs[i].model \in Models /\ i \in Nat
  BY <1>0, <1>2, TrayAssumption DEF JobsOK, JobType, CountOK
<1>5. CASE TooLate(i)
  <2>1. /\ i # latest
        /\ UNCHANGED <<used, shown, checked, mode, timers, dialogs, status, record, wanted, faults, lingered>>
    BY <1>5 DEF TooLate
  <2>2. (Named /\ CountOK /\ TimersOK /\ DialogsOK)'
    BY <1>0, <1>1, <1>2, <2>1 DEF Named, CountOK, Owed, TimersOK, DialogsOK
  <2>3. (MenuHeld /\ Pending /\ Goes /\ Announced)'
    BY <1>0, <1>1, <1>2, <2>1 DEF MenuHeld, Pending, Goes, Announced
  <2>4. (CheckedIsUsed /\ SwitchTracked /\ UsedNotFailed /\ StatusTold /\ SwitchEnds)'
    BY <1>0, <1>1, <1>2, <2>1 DEF CheckedIsUsed, SwitchTracked, UsedNotFailed, StatusTold, SwitchEnds
  <2>5. QED
    BY <1>3, <2>2, <2>3, <2>4 DEF TrayI
<1>6. CASE Loaded(i)
  <2>1. /\ i = latest /\ used' = jobs[i].model /\ mode' = "idle" /\ UNCHANGED <<dialogs, wanted>>
        /\ timers' \in {timers, timers \union {<<"clear", i>>}}
    BY <1>6 DEF Loaded, Release
  <2>2. \/ /\ faults' = faults + 1 /\ faults < MaxFaults /\ lingered' = TRUE
           /\ shown' \in {shown, jobs[i].model} /\ UNCHANGED <<checked, status, record>>
        \/ /\ shown' = jobs[i].model /\ checked' = jobs[i].model /\ status' = "switched"
           /\ record' = [prepared |-> record.prepared \union {jobs[i].model},
                         failed |-> record.failed \ {jobs[i].model}]
           /\ UNCHANGED <<faults, lingered>>
    BY <1>6 DEF Loaded, Raises, MarkPrepared
  <2>3. Named'
    <3>1. record' \in [prepared : SUBSET Models, failed : SUBSET Models]
      BY <1>0, <1>4, <2>2 DEF Named
    <3>2. faults' \in 0 .. MaxFaults
      BY <1>0, <2>2, TrayAssumption DEF Named
    <3>3. status' \in Told
      BY <1>0, <2>2 DEF Named, Told
    <3>4. QED
      BY <1>0, <1>4, <2>1, <2>2, <3>1, <3>2, <3>3 DEF Named
  <2>4. /\ Owed' = Owed /\ (<<"abort", latest>> \in timers' <=> <<"abort", latest>> \in timers)
        /\ \A j : <<"abort", j>> \in timers' => <<"abort", j>> \in timers
    BY <1>1, <2>1 DEF Owed
  <2>5. (CountOK /\ TimersOK)'
    <3>1. <<"clear", i>> \in Kinds \X (Ids \union 1 .. MaxSays)
      BY DEF Kinds
    <3>2. QED
      <4>1. CountOK'
        BY <1>0, <1>1, <2>4 DEF CountOK
      <4>2. TimersOK'
        BY <1>0, <1>1, <2>1, <2>4, <3>1 DEF TimersOK
      <4>3. QED
        BY <4>1, <4>2
  <2>6. DialogsOK'
    BY <1>0, <1>2, <2>1 DEF DialogsOK
  <2>7. (MenuHeld /\ Pending /\ Goes /\ Announced)'
    BY <1>0, <1>1, <1>2, <2>1 DEF MenuHeld, Pending, Goes, Announced
  <2>8. (CheckedIsUsed /\ SwitchTracked /\ UsedNotFailed /\ StatusTold /\ SwitchEnds)'
    <3>1. faults \in Nat /\ (faults' # 0 \/ UNCHANGED faults)
      BY <1>0, <2>2, TrayAssumption DEF Named
    <3>2. QED
      BY <1>0, <1>1, <1>2, <2>1, <2>2, <3>1 DEF CheckedIsUsed, SwitchTracked, UsedNotFailed, StatusTold, SwitchEnds, Under, Named
  <2>9. QED
    BY <1>3, <2>3, <2>5, <2>6, <2>7, <2>8 DEF TrayI
<1>7. CASE Broken(i)
  <2>1. i = latest /\ wanted' = None /\ UNCHANGED <<used, shown>>
    BY <1>7 DEF Broken
  <2>2. \/ /\ faults' = faults + 1 /\ faults < MaxFaults /\ lingered' = TRUE
           /\ mode' = "idle" /\ UNCHANGED <<checked, status, timers, dialogs, record>>
        \/ /\ checked' = shown /\ status' = "failed"
           /\ record' = [prepared |-> record.prepared \ {jobs[i].model},
                         failed |-> record.failed \union {jobs[i].model}]
           /\ timers' = timers \union {<<"clear", i>>}
           /\ dialogs' = Append(dialogs, i)
           /\ UNCHANGED <<mode, faults, lingered>>
    BY <1>7 DEF Broken, Raises, MarkFailed, Release
  <2>3. Named'
    <3>1. record' \in [prepared : SUBSET Models, failed : SUBSET Models]
      BY <1>0, <1>4, <2>2 DEF Named
    <3>2. faults' \in 0 .. MaxFaults
      BY <1>0, <2>2, TrayAssumption DEF Named
    <3>3. status' \in Told
      BY <1>0, <2>2 DEF Named, Told
    <3>4. QED
      BY <1>0, <1>4, <2>1, <2>2, <3>1, <3>2, <3>3 DEF Named
  <2>4. /\ Owed' = Owed /\ (<<"abort", latest>> \in timers' <=> <<"abort", latest>> \in timers)
        /\ \A j : <<"abort", j>> \in timers' => <<"abort", j>> \in timers
        /\ timers \subseteq timers'
    BY <1>1, <2>2 DEF Owed
  <2>5. (CountOK /\ TimersOK)'
    <3>1. <<"clear", i>> \in Kinds \X (Ids \union 1 .. MaxSays)
      BY DEF Kinds
    <3>2. QED
      <4>1. CountOK'
        BY <1>0, <1>1, <2>4 DEF CountOK
      <4>2. TimersOK'
        BY <1>0, <1>1, <2>2, <2>4, <3>1 DEF TimersOK
      <4>3. QED
        BY <4>1, <4>2
  <2>6. DialogsOK'
    <3>1. CASE UNCHANGED dialogs
      BY <1>0, <1>2, <3>1 DEF DialogsOK
    <3>2. CASE dialogs' = Append(dialogs, i)
      <4>1. /\ dialogs' \in Seq(Nat) /\ Len(dialogs') = Len(dialogs) + 1
            /\ \A k \in 1 .. Len(dialogs') : dialogs'[k] = IF k = Len(dialogs) + 1 THEN i ELSE dialogs[k]
        BY <1>0, <1>4, <3>2 DEF DialogsOK
      <4>2. ASSUME NEW k \in 1 .. Len(dialogs') PROVE dialogs'[k] \in DOMAIN jobs' /\ jobs'[dialogs'[k]].worker = "done"
        <5>1. CASE k = Len(dialogs) + 1
          BY <1>2, <4>1, <5>1
        <5>2. CASE k # Len(dialogs) + 1
          <6>1. k \in 1 .. Len(dialogs) /\ dialogs'[k] = dialogs[k]
            BY <1>0, <4>1, <5>2 DEF DialogsOK
          <6>2. QED
            BY <1>0, <1>2, <6>1 DEF DialogsOK
        <5>3. QED
          BY <5>1, <5>2
      <4>3. QED
        BY <4>1, <4>2 DEF DialogsOK
    <3>3. QED
      BY <2>2, <3>1, <3>2
  <2>7. faults \in Nat /\ faults' \in Nat /\ (faults' # 0 \/ UNCHANGED faults)
    BY <1>0, <2>2, TrayAssumption DEF Named
  <2>8. (MenuHeld /\ Pending /\ Goes /\ Announced)'
    <3>1. MenuHeld'
      BY <1>0, <1>1, <1>2, <2>2, <2>4 DEF MenuHeld
    <3>2. Pending'
      BY <1>0, <1>1, <1>2, <2>1, <2>2, <2>7 DEF Pending
    <3>3. Goes' /\ Announced'
      BY <1>0, <1>1, <1>2, <2>1, <2>2 DEF Goes, Announced, Under
    <3>4. QED
      BY <3>1, <3>2, <3>3
  <2>9. (CheckedIsUsed /\ SwitchTracked /\ UsedNotFailed /\ StatusTold /\ SwitchEnds)'
    <3>1. CheckedIsUsed' /\ UsedNotFailed'
      BY <1>0, <1>2, <2>1, <2>2, <2>7 DEF CheckedIsUsed, UsedNotFailed, Pending, Named
    <3>2. SwitchTracked' /\ StatusTold'
      BY <1>0, <1>1, <1>2, <2>1, <2>2 DEF SwitchTracked, StatusTold, Under
    <3>3. SwitchEnds'
      BY <1>0, <1>1, <2>2, <2>4, <2>7 DEF SwitchEnds
    <3>4. QED
      BY <3>1, <3>2, <3>3
  <2>10. QED
    BY <1>3, <2>3, <2>5, <2>6, <2>8, <2>9 DEF TrayI
<1>8. QED
  BY <1>5, <1>6, <1>7 DEF Finalize

LEMMA LockKeeps == ASSUME TrayI, NEW i \in Ids, SwitchTimeout(i) PROVE TrayI'
<1>0. /\ Named /\ JobsOK /\ CountOK /\ TimersOK /\ SaysOK /\ DialogsOK
      /\ MenuHeld /\ Pending /\ Goes /\ Announced
      /\ CheckedIsUsed /\ SwitchTracked /\ UsedNotFailed /\ StatusTold /\ SwitchEnds
  BY DEF TrayI
<1>1. /\ UNCHANGED <<used, shown, checked, latest, jobs, dialogs, says, saysShown, record,
                     choices, messages, wanted, faults>>
      /\ timers' = timers \ {<<"lock", i>>}
  BY DEF SwitchTimeout, Fired
<1>2. \/ /\ i = latest /\ mode = "switching" /\ mode' = "background" /\ status' = "unlocked"
         /\ lingered' = (lingered \/ jobs[i].worker = "done")
      \/ /\ ~(i = latest /\ mode = "switching") /\ UNCHANGED <<mode, status, lingered>>
  BY DEF SwitchTimeout
<1>3. Named'
  BY <1>0, <1>1, <1>2 DEF Named, Told, Under
<1>4. /\ Owed' = Owed
      /\ \A j : <<"abort", j>> \in timers' <=> <<"abort", j>> \in timers
  BY <1>1 DEF Owed
<1>5. (JobsOK /\ CountOK /\ SaysOK /\ DialogsOK)'
  BY <1>0, <1>1, <1>4 DEF JobsOK, CountOK, SaysOK, DialogsOK
<1>6. TimersOK'
  BY <1>0, <1>1, <1>4 DEF TimersOK
<1>7. MenuHeld' /\ Pending' /\ Goes' /\ Announced'
  BY <1>0, <1>1, <1>2, <1>4 DEF MenuHeld, Pending, Goes, Announced, Named
<1>8. (CheckedIsUsed /\ SwitchTracked /\ UsedNotFailed /\ StatusTold)'
  BY <1>0, <1>1, <1>2 DEF CheckedIsUsed, SwitchTracked, UsedNotFailed, StatusTold
<1>9. SwitchEnds'
  BY <1>0, <1>1, <1>2, <1>4 DEF SwitchEnds, MenuHeld
<1>10. QED
  BY <1>3, <1>5, <1>6, <1>7, <1>8, <1>9 DEF TrayI

LEMMA AbortKeeps == ASSUME TrayI, NEW i \in Ids, AbortTimeout(i) PROVE TrayI'
<1>0. /\ Named /\ JobsOK /\ CountOK /\ TimersOK /\ SaysOK /\ DialogsOK
      /\ MenuHeld /\ Pending /\ Goes /\ Announced
      /\ CheckedIsUsed /\ SwitchTracked /\ UsedNotFailed /\ StatusTold /\ SwitchEnds
  BY DEF TrayI
<1>1. /\ UNCHANGED <<used, shown, jobs, dialogs, says, saysShown, choices, messages>>
      /\ <<"abort", i>> \in timers /\ <<"lock", i>> \notin timers
  BY DEF AbortTimeout, Due
<1>2. (JobsOK /\ DialogsOK)' /\ SaysOK'
  <2>1. latest \in Nat /\ latest' \in {latest, latest + 1}
    BY <1>0 DEF AbortTimeout, CountOK
  <2>2. QED
    BY <1>0, <1>1, <2>1 DEF JobsOK, DialogsOK, SaysOK
<1>3. CASE i = latest /\ mode # "idle" /\ latest' = latest + 1
  <2>1. /\ record' = [prepared |-> record.prepared \ {jobs[i].model},
                      failed |-> record.failed \union {jobs[i].model}]
        /\ mode' = "idle" /\ wanted' = None /\ checked' = shown /\ status' = "timed out"
        /\ timers' = (timers \ {<<"abort", i>>}) \union {<<"clear", latest + 1>>}
        /\ UNCHANGED <<faults, lingered>>
    <3>1. latest' # latest
      BY <1>0, <1>3 DEF CountOK
    <3>2. QED
      BY <1>3, <3>1 DEF AbortTimeout, MarkFailed, Release
  <2>2. latest \in DOMAIN jobs /\ jobs[i].model \in Models
    BY <1>0, <1>3 DEF MenuHeld, JobsOK, JobType
  <2>3. Named'
    <3>1. record' \in [prepared : SUBSET Models, failed : SUBSET Models]
      BY <1>0, <2>1, <2>2 DEF Named
    <3>2. status' \in Told
      BY <2>1 DEF Told
    <3>3. QED
      BY <1>0, <1>1, <2>1, <3>1, <3>2 DEF Named
  <2>4. latest + 1 \notin DOMAIN jobs /\ <<"abort", latest + 1>> \notin timers
    BY <1>0 DEF JobsOK, CountOK, TimersOK
  <2>5. CountOK'
    <3>1. Owed = 1 /\ Owed' = 0
      BY <1>1, <1>3, <2>1, <2>4 DEF Owed
    <3>2. QED
      BY <1>0, <1>1, <1>3, <3>1 DEF CountOK
  <2>6. TimersOK'
    <3>1. latest + 1 \in Ids
      BY <1>0, <1>3, <2>5, TrayAssumption DEF CountOK, Owed, Ids
    <3>2. timers' \subseteq Kinds \X (Ids \union 1 .. MaxSays)
      <4>1. <<"clear", latest + 1>> \in Kinds \X (Ids \union 1 .. MaxSays)
        BY <3>1 DEF Kinds
      <4>2. QED
        BY <1>0, <2>1, <4>1 DEF TimersOK
    <3>3. \A j \in Nat : <<"abort", j>> \in timers' => j <= latest
      BY <1>0, <2>1 DEF TimersOK
    <3>4. QED
      BY <1>0, <1>3, <3>2, <3>3 DEF TimersOK, CountOK
  <2>7. (MenuHeld /\ Pending /\ Goes /\ Announced)'
    BY <1>1, <1>3, <2>1, <2>4 DEF MenuHeld, Pending, Goes, Announced
  <2>8. (CheckedIsUsed /\ SwitchTracked /\ UsedNotFailed /\ StatusTold /\ SwitchEnds)'
    BY <1>0, <1>1, <1>3, <2>1, <2>2, <2>4 DEF CheckedIsUsed, SwitchTracked, UsedNotFailed, StatusTold, SwitchEnds,
       Pending, Under, Named
  <2>9. QED
    BY <1>2, <2>3, <2>5, <2>6, <2>7, <2>8 DEF TrayI
<1>4. CASE /\ timers' = timers \ {<<"abort", i>>}
           /\ UNCHANGED <<latest, mode, wanted, checked, status, record>>
           /\ \/ faults < MaxFaults /\ faults' = faults + 1 /\ lingered' = TRUE
              \/ ~(i = latest /\ mode # "idle") /\ UNCHANGED <<faults, lingered>>
  <2>1. Named'
    <3>1. faults' \in 0 .. MaxFaults
      BY <1>0, <1>4, TrayAssumption DEF Named
    <3>2. QED
      BY <1>0, <1>1, <1>4, <3>1 DEF Named
  <2>2. faults \in Nat /\ faults' \in Nat /\ (faults' # 0 \/ UNCHANGED <<faults, lingered>>)
    BY <1>0, <1>4, TrayAssumption DEF Named
  <2>3. CountOK'
    <3>1. Owed \in {0, 1} /\ Owed' \in {0, 1} /\ Owed' <= Owed
      BY <1>4 DEF Owed
    <3>2. QED
      BY <1>0, <1>1, <1>4, <3>1, TrayAssumption DEF CountOK
  <2>4. TimersOK'
    BY <1>0, <1>4 DEF TimersOK
  <2>5. MenuHeld'
    <3>1. CASE faults' # 0
      BY <1>0, <1>1, <1>4, <2>2, <3>1 DEF MenuHeld
    <3>2. CASE UNCHANGED faults
      <4>1. ~(i = latest /\ mode # "idle")
        BY <1>0, <1>4, <3>2 DEF Named
      <4>2. QED
        BY <1>0, <1>1, <1>4, <3>2, <4>1 DEF MenuHeld
    <3>3. QED
      BY <2>2, <3>1, <3>2
  <2>6. (Pending /\ Goes /\ Announced)'
    BY <1>0, <1>1, <1>4, <2>2 DEF Pending, Goes, Announced
  <2>7. (CheckedIsUsed /\ SwitchTracked /\ UsedNotFailed /\ StatusTold)'
    BY <1>0, <1>1, <1>4, <2>2 DEF CheckedIsUsed, SwitchTracked, UsedNotFailed, StatusTold
  <2>8. SwitchEnds'
    <3>1. <<"lock", latest>> \in timers' <=> <<"lock", latest>> \in timers
      BY <1>4
    <3>2. mode' = "background" => <<"abort", latest>> \in timers' \/ faults' > 0
      BY <1>1, <1>4, <2>5 DEF MenuHeld
    <3>3. QED
      BY <1>0, <1>4, <3>1, <3>2 DEF SwitchEnds
  <2>9. QED
    BY <1>2, <2>1, <2>3, <2>4, <2>5, <2>6, <2>7, <2>8 DEF TrayI
<1>5. QED
  BY <1>0, <1>3, <1>4 DEF AbortTimeout, Raises, Fired, CountOK

\* The second hand and the end of a message on the status line.
LEMMA StatusKeeps ==
  ASSUME TrayI, UNCHANGED <<used, shown, checked, latest, mode, jobs, dialogs, record, choices, wanted, faults>>,
         SaysOK', lingered' \in {lingered, TRUE}, status' \in Told,
         timers' \subseteq timers \union ({"engine"} \X (1 .. MaxSays)),
         \A k \in {"abort", "lock"}, i \in Nat : <<k, i>> \in timers => <<k, i>> \in timers',
         \/ status' = status
         \/ status' \notin Under
         \/ mode # "idle" /\ (jobs[latest].worker = "done" => lingered')
  PROVE  TrayI'
<1>0. /\ Named /\ JobsOK /\ CountOK /\ TimersOK /\ SaysOK /\ DialogsOK
      /\ MenuHeld /\ Pending /\ Goes /\ Announced
      /\ CheckedIsUsed /\ SwitchTracked /\ UsedNotFailed /\ StatusTold /\ SwitchEnds
  BY DEF TrayI
<1>1. Named'
  BY <1>0 DEF Named
<1>2. /\ \A k \in {"abort", "lock"} : <<k, latest>> \in timers' <=> <<k, latest>> \in timers
      /\ \A i \in Nat : <<"abort", i>> \in timers' => <<"abort", i>> \in timers
  <2>1. \A k \in {"abort", "lock"}, i \in Nat : <<k, i>> \in timers' => <<k, i>> \in timers
    OBVIOUS
  <2>2. latest \in Nat
    BY <1>0 DEF CountOK
  <2>3. QED
    BY <2>1, <2>2
<1>3. (JobsOK /\ DialogsOK)'
  BY <1>0 DEF JobsOK, DialogsOK
<1>4. CountOK'
  BY <1>0, <1>2 DEF CountOK, Owed
<1>5. TimersOK'
  <2>1. {"engine"} \X (1 .. MaxSays) \subseteq Kinds \X (Ids \union 1 .. MaxSays)
    BY DEF Kinds
  <2>2. QED
    BY <1>0, <1>2, <2>1 DEF TimersOK
<1>6. (MenuHeld /\ Pending /\ Goes /\ Announced)'
  BY <1>0, <1>2 DEF MenuHeld, Pending, Goes, Announced
<1>7. (CheckedIsUsed /\ SwitchTracked /\ UsedNotFailed /\ StatusTold /\ SwitchEnds)'
  BY <1>0, <1>2 DEF CheckedIsUsed, SwitchTracked, UsedNotFailed, StatusTold, SwitchEnds
<1>8. QED
  BY <1>1, <1>3, <1>4, <1>5, <1>6, <1>7 DEF TrayI

LEMMA SpokenKeeps ==
  ASSUME TrayI, \/ NewShortcut \/ ShowSaid \/ (\E i \in Ids : Tick(i) \/ ClearStatus("clear", i, latest))
                \/ (\E i \in 1 .. MaxSays : ClearStatus("engine", i, saysShown))
                \/ (\E text \in {"engine", None} : EngineSays(text))
  PROVE  TrayI'
<1>0. SaysOK /\ Named /\ None \notin Under /\ None \in Told /\ "engine" \in Told /\ "hotkey" \in Told
  BY DEF TrayI, None, Under, Told
<1>1. CASE NewShortcut
  <2>1. /\ UNCHANGED <<used, shown, checked, latest, mode, jobs, timers, dialogs, says,
                       saysShown, record, choices, wanted, faults, lingered>>
        /\ messages > 0 /\ messages' = messages - 1 /\ status' = "hotkey"
    BY <1>1 DEF NewShortcut
  <2>2. SaysOK'
    <3>1. Len(says) \in Nat /\ messages - 1 \in Nat
      BY <1>0, <2>1 DEF SaysOK
    <3>2. QED
      BY <1>0, <2>1, <3>1, TrayAssumption DEF SaysOK
  <2>3. QED
    BY <1>0, <2>1, <2>2, StatusKeeps DEF Under
<1>2. CASE ShowSaid
  <2>1. /\ UNCHANGED <<used, shown, checked, latest, mode, jobs, dialogs, record, choices,
                       messages, wanted, faults, lingered>>
        /\ says # << >> /\ says' = Tail(says) /\ saysShown' = saysShown + 1 /\ status' = Head(says)
        /\ timers' \in {timers, timers \union {<<"engine", saysShown + 1>>}}
    BY <1>2 DEF ShowSaid
  <2>2. /\ Head(says) \in {"engine", None} /\ Tail(says) \in Seq({"engine", None})
        /\ Len(says) \in Nat \ {0} /\ Len(Tail(says)) = Len(says) - 1
    BY <1>0, <2>1 DEF SaysOK
  <2>3. SaysOK' /\ saysShown + 1 \in 1 .. MaxSays
    BY <1>0, <2>1, <2>2, TrayAssumption DEF SaysOK
  <2>4. status' \in Told /\ status' \notin Under
    BY <1>0, <2>1, <2>2 DEF Under
  <2>5. timers' \subseteq timers \union ({"engine"} \X (1 .. MaxSays)) /\ timers \subseteq timers'
    BY <2>1, <2>3
  <2>6. QED
    BY <2>1, <2>3, <2>4, <2>5, StatusKeeps
<1>3. ASSUME NEW i \in Ids, Tick(i) PROVE TrayI'
  <2>1. /\ UNCHANGED <<used, shown, checked, latest, mode, jobs, dialogs, says, saysShown,
                       record, choices, messages, wanted, faults>>
        /\ \/ /\ mode # "idle" /\ status' = mode /\ lingered' = (lingered \/ jobs[latest].worker = "done")
              /\ UNCHANGED timers
           \/ timers' = timers \ {<<"tick", i>>} /\ UNCHANGED <<status, lingered>>
    BY <1>3 DEF Tick, Fired
  <2>2. SaysOK'
    BY <1>0, <2>1 DEF SaysOK
  <2>3. lingered' \in {lingered, TRUE} /\ status' \in Told
    BY <1>0, <2>1 DEF Named, Told, Under
  <2>4. /\ timers' \subseteq timers
        /\ \A k \in {"abort", "lock"}, j \in Nat : <<k, j>> \in timers => <<k, j>> \in timers'
    BY <2>1
  <2>5. QED
    BY <2>1, <2>2, <2>3, <2>4, StatusKeeps
<1>4. ASSUME NEW kind \in {"clear", "engine"}, NEW i, NEW last, ClearStatus(kind, i, last) PROVE TrayI'
  <2>1. /\ UNCHANGED <<used, shown, checked, latest, mode, jobs, dialogs, says, saysShown,
                       record, choices, messages, wanted, faults, lingered>>
        /\ timers' = timers \ {<<kind, i>>} /\ status' \in {status, None}
    BY <1>4 DEF ClearStatus, Fired
  <2>2. SaysOK'
    BY <1>0, <2>1 DEF SaysOK
  <2>3. status' \in Told
    BY <1>0, <2>1 DEF Named
  <2>4. /\ timers' \subseteq timers
        /\ \A k \in {"abort", "lock"}, j \in Nat : <<k, j>> \in timers => <<k, j>> \in timers'
    BY <2>1
  <2>5. QED
    BY <1>0, <2>1, <2>2, <2>3, <2>4, StatusKeeps
<1>5. ASSUME NEW text \in {"engine", None}, EngineSays(text) PROVE TrayI'
  <2>1. /\ UNCHANGED <<used, shown, checked, latest, mode, jobs, timers, dialogs, status,
                       saysShown, record, choices, wanted, faults, lingered>>
        /\ messages > 0 /\ messages' = messages - 1 /\ says' = Append(says, text)
    BY <1>5 DEF EngineSays
  <2>2. SaysOK'
    BY <1>0, <2>1 DEF SaysOK
  <2>3. QED
    BY <1>0, <2>1, <2>2, StatusKeeps DEF Named
<1>6. QED
  BY <1>1, <1>2, <1>3, <1>4, <1>5

LEMMA TrayStep == TrayI /\ TrayNext => TrayI'
  BY ChooseKeeps, DialogKeeps, WorkerKeeps, FinalizeKeeps, LockKeeps, AbortKeeps, SpokenKeeps DEF TrayNext

LEMMA TrayTypes == TrayI => TrayTypeOK
<1> SUFFICES ASSUME TrayI PROVE TrayTypeOK
  OBVIOUS
<1>0. Named /\ JobsOK /\ CountOK /\ TimersOK /\ SaysOK /\ DialogsOK
  BY DEF TrayI
<1>1. latest \in Ids /\ DOMAIN jobs \subseteq Ids
  BY <1>0, TrayAssumption DEF CountOK, Owed, JobsOK, Ids
<1>2. Len(says) \in Nat /\ \A k \in DOMAIN says : says[k] \in {"engine", None}
  BY <1>0 DEF SaysOK
<1>3. saysShown \in 0 .. MaxSays /\ messages \in 0 .. MaxSays
  BY <1>0, <1>2, TrayAssumption DEF SaysOK
<1>4. \A k \in DOMAIN dialogs : dialogs[k] \in DOMAIN jobs
  BY <1>0 DEF DialogsOK
<1>5. \A i \in DOMAIN jobs : jobs[i] \in JobType
  BY <1>0 DEF JobsOK
<1>6. QED
  BY <1>0, <1>1, <1>2, <1>3, <1>4, <1>5 DEF TrayTypeOK, Named, CountOK, TimersOK, JobType, Kinds

LEMMA Played ==
  ASSUME [Next]_vars
  PROVE  /\ TrayNext \/ UNCHANGED trayVars
         /\ WinNext \/ UNCHANGED winVars
         /\ StreamNext \/ UNCHANGED streamVars
  BY DEF Next, PlayTray, PlayWindows, PlayWindow, InTray, InWindows, InWindow, vars

LEMMA TrayHolds == FairSpec => []TrayI
<1>1. Init => TrayI
  BY TrayStart, ScenesAssumption DEF Init
<1>2. TrayI /\ [Next]_vars => TrayI'
  BY Played, TrayStep, TrayRests
<1>3. QED
  BY <1>1, <1>2, PTL DEF FairSpec

\* The menu of the tray names the model the engine uses, through switches that
\* hang, fail, time out, overtake one another or leave a dialog open: a switch
\* that is not over is held by the menu, a timer ends each wait, and the model
\* in use is not recorded as one that failed (unless a write failed).
THEOREM TrayTold == FairSpec => []TrayInv
<1>1. TrayI => TrayInv
  BY TrayTypes DEF TrayI, TrayInv
<1>2. QED
  BY <1>1, TrayHolds, PTL

\* The engine only takes the model of the last switch that was started, and
\* none once that switch was given up, however late other answers come.
THEOREM LateAnswers == FairSpec => NoLateSwitch
<1>1. TrayI /\ [Next]_vars => [used' # used => used' = wanted]_trayVars
  <2> SUFFICES ASSUME TrayI, [Next]_vars, used' # used PROVE used' = wanted \/ UNCHANGED trayVars
    OBVIOUS
  <2>1. CASE TrayNext
    <3>1. PICK i \in Ids : Finalize(i)
      BY <2>1 DEF TrayNext, Choose, CloseDialog, NewShortcut, WorkerEnds, SwitchTimeout, AbortTimeout, Tick, ClearStatus,
         EngineSays, ShowSaid
    <3>2. i = latest /\ i \in DOMAIN jobs /\ jobs[i].worker = "loaded" /\ used' = jobs[i].model
      BY <3>1 DEF Finalize, TooLate, Loaded, Broken
    <3>3. QED
      BY <3>2 DEF TrayI, Goes
  <2>2. QED
    BY <2>1, Played
<1>2. QED
  BY <1>1, TrayHolds, PTL DEF FairSpec, NoLateSwitch

-----------------------------------------------------------------------------
(* The Windows tray                                                          *)

Pend(r) == reporting[r] # NoReport
Says(on) == IF on THEN "on" ELSE "off"

\* What the engine last reported is on its way, or the flag has it.
Fresh == IF posted # << >> THEN posted[Len(posted)] = Says(reported) ELSE flag = reported
Arrives == /\ \A r \in Reporters : Pend(r) => reporting[r] = Says(reported)
           /\ (\A r \in Reporters : ~Pend(r)) => Fresh
           /\ ~hwnd => posted = << >> /\ flag = reported
\* The icon shows the flag, or will be drawn again.
Shows == hwnd /\ icon.shown /\ ~modifying /\ posted = << >> /\ (\A r \in Reporters : ~Pend(r))
         => icon.listening = flag

WinTypes == /\ hwnd \in BOOLEAN /\ flag \in BOOLEAN /\ active \in BOOLEAN /\ modifying \in BOOLEAN
            /\ reported \in BOOLEAN /\ overlapped \in BOOLEAN
            /\ icon \in [shown : BOOLEAN, listening : BOOLEAN, active : BOOLEAN]
            /\ posted \in Seq({"on", "off"})
            /\ reporting \in [Reporters -> {NoReport, "on", "off"}]
            /\ reports \in 0 .. MaxReports /\ commands \in 0 .. MaxCommands
Follows == (hwnd \/ ~icon.shown) /\ ~overlapped => Arrives
WinI == WinTypes /\ Shows /\ Follows

LEMMA WinStart == WinInit => WinI
<1> SUFFICES ASSUME WinInit PROVE WinI
  OBVIOUS
<1>1. WinTypes
  <2>1. posted \in Seq({"on", "off"}) /\ reports \in 0 .. MaxReports /\ commands \in 0 .. MaxCommands
    BY WindowsAssumption DEF WinInit
  <2>2. icon \in [shown : BOOLEAN, listening : BOOLEAN, active : BOOLEAN]
    BY DEF WinInit, Absent
  <2>3. reporting \in [Reporters -> {NoReport, "on", "off"}]
    BY DEF WinInit
  <2>4. QED
    BY <2>1, <2>2, <2>3 DEF WinInit, WinTypes
<1>2. Shows /\ Follows
  BY DEF WinInit, Shows, Follows, Arrives, Fresh, Pend
<1>3. QED
  BY <1>1, <1>2 DEF WinI

LEMMA WinTypesStep == ASSUME WinTypes, WinNext PROVE WinTypes'
<1>1. Icon \in [shown : BOOLEAN, listening : BOOLEAN, active : BOOLEAN]
  BY DEF WinTypes, Icon
<1>2. ASSUME NEW r \in Reporters, Report(r) PROVE WinTypes'
  BY <1>2, WindowsAssumption DEF Report, WinTypes
<1>3. ASSUME NEW r \in Reporters, Post(r) PROVE WinTypes'
  <2>1. posted' \in Seq({"on", "off"})
    BY <1>3 DEF Post, WinTypes, NoReport
  <2>2. QED
    BY <1>3, <2>1 DEF Post, WinTypes
<1>4. CASE CreateWindow \/ AddIcon \/ ModifyIcon
  BY <1>1, <1>4 DEF CreateWindow, AddIcon, ModifyIcon, WinTypes
<1>5. CASE RecordingMessage
  <2>1. posted' \in Seq({"on", "off"})
    BY <1>5 DEF RecordingMessage, WinTypes
  <2>2. QED
    BY <1>5, <2>1 DEF RecordingMessage, WinTypes
<1>6. CASE ToggleActive
  <2>1. posted' \in Seq({"on", "off"})
    BY <1>6 DEF ToggleActive, WinTypes
  <2>2. commands' \in 0 .. MaxCommands
    BY <1>6, WindowsAssumption DEF ToggleActive, WinTypes
  <2>3. QED
    BY <1>6, <2>1, <2>2 DEF ToggleActive, WinTypes
<1>7. CASE Quit
  <2>1. posted' \in Seq({"on", "off"})
    BY <1>7 DEF Quit
  <2>2. icon' \in [shown : BOOLEAN, listening : BOOLEAN, active : BOOLEAN]
    <3>1. icon' = [icon EXCEPT !.listening = FALSE]
      BY <1>7 DEF Quit
    <3>2. QED
      BY <3>1 DEF WinTypes
  <2>3. commands' \in 0 .. MaxCommands /\ reports' \in 0 .. MaxReports
    BY <1>7, WindowsAssumption DEF Quit, WinTypes
  <2>4. QED
    BY <1>7, <2>1, <2>2, <2>3 DEF Quit, WinTypes
<1>8. QED
  BY <1>2, <1>3, <1>4, <1>5, <1>6, <1>7 DEF WinNext

LEMMA LastOfTail ==
  ASSUME NEW S, NEW s \in Seq(S), s # << >>
  PROVE  IF Tail(s) = << >> THEN Head(s) = s[Len(s)] ELSE Tail(s)[Len(Tail(s))] = s[Len(s)]
<1>0. Tail(s) \in Seq(S)
  OBVIOUS
<1>1. PICK t \in Seq(S) : t = Tail(s)
  BY <1>0, Zenon
<1>2. PICK n \in Nat : n = Len(s) /\ n > 0
  OBVIOUS
<1>3. /\ Head(s) = s[1] /\ Len(t) = n - 1
      /\ \A k \in 1 .. n - 1 : t[k] = s[k + 1]
  BY <1>1, <1>2
<1>4. CASE t = << >>
  <2>1. Len(t) = 0
    BY <1>4
  <2>2. n = 1
    BY <1>3, <2>1
  <2>3. QED
    BY <1>1, <1>2, <1>3, <1>4, <2>2
<1>5. CASE t # << >>
  <2>1. n - 1 \in 1 .. n - 1
    BY <1>2, <1>3, <1>5
  <2>2. t[n - 1] = s[n]
    BY <1>2, <1>3, <2>1
  <2>3. QED
    BY <1>1, <1>2, <1>3, <1>5, <2>2
<1>6. QED
  BY <1>4, <1>5

LEMMA WinStep == ASSUME WinI, WinNext PROVE WinI'
<1>0. WinTypes /\ Shows /\ Follows /\ WinTypes'
  BY WinTypesStep DEF WinI
<1>1. ASSUME NEW r \in Reporters, Report(r) PROVE Shows' /\ Follows'
  <2>1. PICK on \in BOOLEAN : /\ flag' = on /\ reported' = on
                              /\ reporting' = [reporting EXCEPT ![r] = Says(on)]
    BY <1>1 DEF Report, Says
  <2>2. /\ UNCHANGED <<hwnd, icon, posted, modifying>> /\ ~Pend(r)
        /\ overlapped' = (overlapped \/ \E q \in Reporters : Pend(q))
    BY <1>1 DEF Report, Pend
  <2>3. Pend(r)' /\ reporting'[r] = Says(on) /\ \A q \in Reporters : q # r => reporting'[q] = reporting[q]
    BY <1>0, <2>1 DEF Pend, WinTypes, Says, NoReport
  <2>4. Shows'
    BY <2>3 DEF Shows
  <2>5. Follows'
    <3>1. overlapped' = FALSE => \A q \in Reporters : ~Pend(q)
      BY <2>2
    <3>2. ~hwnd /\ (hwnd \/ ~icon.shown) /\ ~overlapped => posted = << >>
      BY <1>0 DEF Follows, Arrives
    <3>3. QED
      BY <1>0, <2>1, <2>2, <2>3, <3>1, <3>2 DEF Follows, Arrives, Fresh, Pend
  <2>6. QED
    BY <2>4, <2>5
<1>2. ASSUME NEW r \in Reporters, Post(r) PROVE Shows' /\ Follows'
  <2>1. /\ UNCHANGED <<hwnd, flag, icon, modifying, reported, overlapped>> /\ Pend(r)
        /\ reporting' = [reporting EXCEPT ![r] = NoReport]
        /\ posted' = IF hwnd THEN Append(posted, reporting[r]) ELSE posted
    BY <1>2 DEF Post, Pend
  <2>2. ~Pend(r)' /\ \A q \in Reporters : q # r => reporting'[q] = reporting[q]
    BY <1>0, <2>1 DEF Pend, WinTypes
  <2>3. hwnd => posted' # << >> /\ posted'[Len(posted')] = reporting[r]
    BY <1>0, <2>1 DEF WinTypes, NoReport
  <2>4. Shows'
    BY <2>1, <2>3 DEF Shows
  <2>5. Follows'
    BY <1>0, <2>1, <2>2, <2>3 DEF Follows, Arrives, Fresh, Pend
  <2>6. QED
    BY <2>4, <2>5
<1>3. CASE CreateWindow \/ AddIcon \/ ModifyIcon
  <2>1. UNCHANGED <<flag, posted, reporting, reported, overlapped>>
    BY <1>3 DEF CreateWindow, AddIcon, ModifyIcon
  <2>2. CASE CreateWindow
    <3>1. ~icon.shown /\ ~hwnd /\ UNCHANGED icon
      BY <2>2 DEF CreateWindow
    <3>2. Fresh' <=> Fresh
      BY <2>1 DEF Fresh
    <3>3. \A r \in Reporters : Pend(r)' <=> Pend(r)
      BY <2>1 DEF Pend
    <3>4. Shows'
      BY <3>1 DEF Shows
    <3>5. Follows'
      BY <1>0, <2>1, <3>1, <3>2, <3>3 DEF Follows, Arrives
    <3>6. QED
      BY <1>0, <3>4, <3>5 DEF WinI
  <2>3. CASE AddIcon \/ ModifyIcon
    <3>1. icon'.listening = flag /\ icon'.shown /\ hwnd' = hwnd
      BY <2>3 DEF AddIcon, ModifyIcon, Icon
    <3>2. Fresh' <=> Fresh
      BY <2>1 DEF Fresh
    <3>3. \A r \in Reporters : Pend(r)' <=> Pend(r)
      BY <2>1 DEF Pend
    <3>4. Shows'
      BY <2>1, <3>1 DEF Shows
    <3>5. Follows'
      BY <1>0, <2>1, <3>1, <3>2, <3>3 DEF Follows, Arrives
    <3>6. QED
      BY <1>0, <3>4, <3>5 DEF WinI
  <2>4. QED
    BY <1>3, <2>2, <2>3
<1>4. CASE RecordingMessage
  <2>1. /\ hwnd /\ icon.shown /\ posted # << >> /\ posted' = Tail(posted) /\ flag' = (Head(posted) = "on")
        /\ modifying' = TRUE /\ UNCHANGED <<hwnd, icon, reporting, reported, overlapped>>
    BY <1>4 DEF RecordingMessage, Looping
  <2>2. IF Tail(posted) = << >> THEN Head(posted) = posted[Len(posted)]
        ELSE Tail(posted)[Len(Tail(posted))] = posted[Len(posted)]
    BY <1>0, <2>1, LastOfTail DEF WinTypes
  <2>3. Fresh => Fresh'
    BY <1>0, <2>1, <2>2 DEF Fresh, Says, WinTypes
  <2>4. \A r \in Reporters : Pend(r)' <=> Pend(r)
    BY <2>1 DEF Pend
  <2>5. Shows'
    BY <2>1 DEF Shows
  <2>6. Follows'
    BY <1>0, <2>1, <2>3, <2>4 DEF Follows, Arrives
  <2>7. QED
    BY <1>0, <2>5, <2>6 DEF WinI
<1>5. CASE ToggleActive
  <2>1. /\ hwnd /\ modifying' = TRUE /\ UNCHANGED <<hwnd, icon, reporting>>
        /\ \/ /\ flag' = FALSE /\ reported' = FALSE /\ posted' = Append(posted, "off")
              /\ overlapped' = (overlapped \/ \E q \in Reporters : Pend(q))
           \/ UNCHANGED <<flag, reported, posted, overlapped>>
    BY <1>5 DEF ToggleActive, Looping, Pend
  <2>2. posted' = Append(posted, "off") => posted' # << >> /\ posted'[Len(posted')] = "off"
    BY <1>0 DEF WinTypes
  <2>3. \A r \in Reporters : Pend(r)' <=> Pend(r)
    BY <2>1 DEF Pend
  <2>4. Shows'
    BY <2>1 DEF Shows
  <2>5. CASE UNCHANGED <<flag, reported, posted, overlapped>>
    <3>1. Fresh' <=> Fresh
      BY <2>5 DEF Fresh
    <3>2. Follows'
      BY <1>0, <2>1, <2>3, <2>5, <3>1 DEF Follows, Arrives
    <3>3. QED
      BY <1>0, <2>4, <3>2 DEF WinI
  <2>6. CASE /\ flag' = FALSE /\ reported' = FALSE /\ posted' = Append(posted, "off")
             /\ overlapped' = (overlapped \/ \E q \in Reporters : Pend(q))
    <3>1. Fresh'
      BY <2>2, <2>6 DEF Fresh, Says
    <3>2. Follows'
      BY <1>0, <2>1, <2>3, <2>6, <3>1 DEF Follows, Arrives
    <3>3. QED
      BY <1>0, <2>4, <3>2 DEF WinI
  <2>7. QED
    BY <2>1, <2>4, <2>5, <2>6
<1>6. CASE Quit
  <2>1. hwnd' = FALSE /\ icon' = [icon EXCEPT !.listening = FALSE] /\ icon.shown
    BY <1>6 DEF Quit, Looping
  <2>2. icon'.shown
    BY <1>0, <2>1 DEF WinTypes
  <2>3. QED
    BY <1>0, <2>1, <2>2 DEF WinI, Shows, Follows
<1>7. QED
  BY <1>0, <1>1, <1>2, <1>3, <1>4, <1>5, <1>6 DEF WinNext, WinI

LEMMA WinRests == WinI /\ UNCHANGED winVars => WinI'
  BY DEF WinI, WinTypes, Shows, Follows, Arrives, Fresh, Pend, winVars

\* Once the queue of the window is empty and no report is under way, the icon
\* of the Windows tray shows the last report, whenever it came: before there was
\* a window, before there was an icon, or between a message and its redraw.
THEOREM IconTold == FairSpec => []WinInv
<1>1. Init => WinI
  BY WinStart DEF Init
<1>2. WinI /\ [Next]_vars => WinI'
  BY Played, WinStep, WinRests
<1>3. WinI => WinInv
  <2>1. WinI => WinTypeOK
    BY DEF WinI, WinTypes, WinTypeOK
  <2>2. WinI => IconFollows
    BY DEF WinI, WinTypes, Shows, Follows, Arrives, Fresh, Pend, IconFollows
  <2>3. QED
    BY <2>1, <2>2 DEF WinInv
<1>4. QED
  BY <1>1, <1>2, <1>3, PTL DEF FairSpec

-----------------------------------------------------------------------------
(* The event stream: shapes                                                  *)

Tellable == {"note", "history"}
Noted == {"on", "paused", "off", "discarded"}
Events ==
  [type : {"note-recording"}, value : Noted, n : Notes]
    \cup [type : {"note"}, value : {"ok", "empty", "failed"}, n : Notes]
    \cup [type : {"history-changed"}, value : {""}, n : Notes]
    \cup [type : {"transcript"}, value : {"stale"}, n : Notes]
    \cup [type : {"model"}, value : {"ready", "failed"}, n : {0}]
    \cup [type : {"audio-level"}, value : {""}, n : {0}]
Screens == [phase : {"loading", "ready", "failed"}, note : {"off", "on", "paused"}, saved : SUBSET Notes,
            view : {"none", "processing", "expanded"}, of : 0 .. MaxOps + 1, watchdog : BOOLEAN,
            discarding : BOOLEAN]
Snaps == [phase : {"none", "loading", "ready", "failed"}, note : {"none", "off", "on", "paused"},
          saved : SUBSET Notes]

Shapes ==
  /\ phase \in {"loading", "ready", "failed"} /\ note \in {"off", "on", "paused"}
  /\ saved \subseteq Notes /\ unanswered \subseteq Notes
  /\ up \in BOOLEAN /\ wired \in BOOLEAN /\ opened \in BOOLEAN /\ (wired => up)
  /\ mic \in BOOLEAN /\ clearing \in BOOLEAN
  /\ todo \in [Threads -> Seq(Events)] /\ queue \in Seq(Events)
  /\ asked \subseteq Conns /\ streams \subseteq subs /\ subs \subseteq Conns
  /\ link \in {"waiting", "opening", "open", "down"}
  /\ requests \subseteq Requests
  /\ ui \in Screens
  /\ astray \subseteq Facts /\ leaked \subseteq Conns
  /\ early \subseteq Notes /\ crossed \subseteq Notes /\ told \in Nat

\* What is left of the bounds bounds what there is.
Counts ==
  /\ notes \in Nat /\ opsLeft \in Nat /\ notes + opsLeft <= MaxOps + 1
  /\ note # "off" \/ mic => notes >= 1
  /\ conn \in Nat /\ levelsLeft \in Nat /\ breaksLeft \in Nat /\ restartsLeft \in Nat
  /\ conn + breaksLeft + restartsLeft + (IF link \in {"waiting", "down"} THEN 1 ELSE 0)
       <= 1 + MaxBreaks + MaxRestarts

\* The room the threads and the queue need, from the lengths of their events.
Room(q, o, w, ld, ops, open, p) ==
  /\ q <= Cap /\ o + 3 * ops <= 3 * MaxOps /\ w + 3 * (ops + open) <= 3 * MaxOps
  /\ ld <= (IF p = "loading" THEN 0 ELSE 1)

Lengths == Room(Len(queue), Len(todo["op"]), Len(todo["worker"]), Len(todo["loader"]),
                opsLeft, Cardinality(unanswered), phase)

LEMMA MadeEvents ==
  /\ \A v \in Noted, n \in Notes : Recording(v, n) \in Events
  /\ \A v \in {"ok", "empty", "failed"}, n \in Notes : Outcome(v, n) \in Events
  /\ \A n \in Notes : Changed(n) \in Events /\ Stale(n) \in Events
  /\ \A v \in {"ready", "failed"} : Event("model", v, 0) \in Events
  /\ Event("audio-level", "", 0) \in Events
  BY DEF Recording, Outcome, Changed, Stale, Event, Events

LEMMA EventFields ==
  ASSUME NEW e \in Events
  PROVE  /\ e.n \in 0 .. MaxOps + 1
         /\ e.type \in {"note-recording", "note", "history-changed", "transcript", "model", "audio-level"}
         /\ e.type = "note-recording" => e.value \in Noted /\ e.n \in Notes
         /\ e.type = "note" => e.value \in {"ok", "empty", "failed"} /\ e.n \in Notes
         /\ e.type = "model" => e.value \in {"ready", "failed"}
<1>1. Notes \subseteq 0 .. MaxOps + 1 /\ 0 \in 0 .. MaxOps + 1
  BY StreamAssumption DEF Notes
<1>. QED  BY <1>1 DEF Events

LEMMA EventSeqs ==
  /\ \A e \in Events : <<e>> \in Seq(Events)
  /\ \A e, f \in Events : <<e, f>> \in Seq(Events)
  /\ \A e, f, g \in Events : <<e, f, g>> \in Seq(Events)
  OBVIOUS

LEMMA FactOfEvent ==
  ASSUME NEW e
  PROVE  Fact(e) \in SUBSET Tellable
  BY DEF Fact, Tellable

LEMMA AgedShape ==
  ASSUME requests \subseteq Requests, NEW facts \in SUBSET Tellable
  PROVE  Aged(facts) \subseteq Requests
  BY DEF Aged, Requests, Tellable

LEMMA RequestShape ==
  ASSUME NEW for \in {"state", "poll", "history", "op", "discard"}
  PROVE  Request(for) \subseteq Requests
  BY DEF Request, Requests, NoSnap

LEMMA TellShape ==
  ASSUME Shapes, NEW t \in Threads, NEW facts \in SUBSET Tellable, NEW events \in Seq(Events),
         NEW request \in SUBSET Requests, Tell(t, facts, events, request)
  PROVE  todo' \in [Threads -> Seq(Events)] /\ astray' \subseteq Facts /\ requests' \subseteq Requests
<1>1. Aged(facts) \subseteq Requests
  BY AgedShape DEF Shapes
<1>2. todo' \in [Threads -> Seq(Events)]
  BY DEF Tell, Shapes
<1>. QED  BY <1>1, <1>2 DEF Tell, Shapes, Facts, Tellable

LEMMA BroadcastShape ==
  ASSUME Shapes, NEW e \in Events, NEW late \in SUBSET Facts, Broadcast(e, late)
  PROVE  queue' \in Seq(Events) /\ astray' \subseteq Facts /\ requests' \subseteq Requests
<1>1. Aged(Fact(e)) \subseteq Requests /\ Fact(e) \subseteq Facts
  BY AgedShape, FactOfEvent DEF Shapes, Facts, Tellable
<1>. QED  BY <1>1 DEF Broadcast, Shapes

LEMMA HeadTail ==
  ASSUME NEW s \in Seq(Events), s # << >>
  PROVE  Head(s) \in Events /\ Tail(s) \in Seq(Events) /\ Len(Tail(s)) = Len(s) - 1 /\ Len(s) \in Nat
  OBVIOUS

LEMMA NoteShape ==
  ASSUME Shapes, Counts, NEW v \in {"on", "paused", "off"}, NEW n, n \in Notes,
         NEW by \in {"window", "silence"}, Op(by, v, n),
         notes' \in Nat, unanswered' \subseteq Notes
  PROVE  Shapes'
<1>1. <<Recording(v, n)>> \in Seq(Events)
  BY MadeEvents, EventSeqs DEF Noted
<1>2. Asks(by) \subseteq Requests
  BY RequestShape DEF Asks
<1>3. todo' \in [Threads -> Seq(Events)] /\ astray' \subseteq Facts /\ requests' \subseteq Requests
  BY <1>1, <1>2, TellShape DEF Op, Threads, Tellable
<1>. QED  BY <1>3 DEF Op, Shapes, brokerVars

LEMMA NoteNumber ==
  ASSUME Shapes, Counts
  PROVE  /\ note # "off" \/ mic => notes \in Notes
         /\ opsLeft > 0 => notes + 1 \in Notes
         /\ opsLeft - 1 \in Int
  BY StreamAssumption DEF Counts, Notes

NoteAction == \/ StartNote("window") \/ ResumeNote("window") \/ StopNote("window") \/ StopFailed("window")
              \/ \E by \in {"window", "silence"} : PauseNote(by)

LEMMA NoteActionIsOp ==
  ASSUME Shapes, Counts, NoteAction
  PROVE  \E by \in {"window", "silence"}, v \in {"on", "paused", "off"} :
           /\ Op(by, v, notes') /\ notes' \in Notes /\ opsLeft > 0
           /\ notes' = notes \/ (notes' = notes + 1 /\ note = "off")
           /\ unanswered' = unanswered \/ (unanswered' = unanswered \union {notes} /\ v = "off" /\ note # "off" /\ notes' = notes)
           /\ \/ v # "off"
              \/ note # "off" /\ notes' = notes /\ unanswered' = unanswered \union {notes}
              \/ note = "off" /\ mic /\ notes' = notes /\ unanswered' = unanswered
<1>1. opsLeft > 0
  BY DEF NoteAction, StartNote, ResumeNote, StopNote, StopFailed, PauseNote, Op
<1>2. CASE StartNote("window")
  BY <1>1, <1>2, NoteNumber DEF StartNote
<1>3. CASE ResumeNote("window")
  BY <1>1, <1>3, NoteNumber DEF ResumeNote
<1>4. CASE StopNote("window")
  BY <1>1, <1>4, NoteNumber DEF StopNote
<1>6. CASE StopFailed("window")
  BY <1>1, <1>6, NoteNumber DEF StopFailed
<1>5. ASSUME NEW by \in {"window", "silence"}, PauseNote(by)
      PROVE  \E b \in {"window", "silence"}, v \in {"on", "paused", "off"} :
           /\ Op(b, v, notes') /\ notes' \in Notes /\ opsLeft > 0
           /\ notes' = notes \/ (notes' = notes + 1 /\ note = "off")
           /\ unanswered' = unanswered \/ (unanswered' = unanswered \union {notes} /\ v = "off" /\ note # "off" /\ notes' = notes)
           /\ \/ v # "off"
              \/ note # "off" /\ notes' = notes /\ unanswered' = unanswered \union {notes}
              \/ note = "off" /\ mic /\ notes' = notes /\ unanswered' = unanswered
  BY <1>1, <1>5, NoteNumber DEF PauseNote
<1>. QED  BY <1>2, <1>3, <1>4, <1>5, <1>6 DEF NoteAction

\* The end of a failure: the microphone is closed, or the flag of a pause cleared.
Cleaning == MicEnds \/ ClearPause

LEMMA CleaningMeans ==
  ASSUME Cleaning
  PROVE  /\ UNCHANGED <<phase, saved, notes, unanswered, up, wired, todo, asked, subs, streams, queue, link, conn,
                         opened, ui, opsLeft, levelsLeft, breaksLeft, restartsLeft, leaked, early, told>>
         /\ mic' = mic \/ mic' = FALSE
         /\ clearing' = clearing \/ clearing' = FALSE
         /\ \/ UNCHANGED <<note, crossed, astray, requests>>
            \/ /\ note = "paused" /\ note' = "on" /\ crossed' = crossed \union {notes} /\ mic' = mic
               /\ astray' = astray \union {"note"} /\ requests' = Aged({"note"})
  BY DEF Cleaning, MicEnds, ClearPause, brokerVars, windowVars, bounds, history

LEMMA CleaningCloses == ASSUME Cleaning, mic' PROVE mic
<1>1. mic' = mic \/ mic' = FALSE
  BY CleaningMeans
<1>. QED  BY <1>1

LEMMA CleaningShape ==
  ASSUME Shapes, Counts, Cleaning
  PROVE  Shapes'
<1>1. Aged({"note"}) \subseteq Requests
  BY AgedShape DEF Shapes, Tellable
<1>2. note # "off" => notes \in Notes
  BY NoteNumber
<1>3. \/ UNCHANGED <<note, crossed, astray, requests>>
      \/ /\ note = "paused" /\ note' = "on" /\ crossed' = crossed \union {notes}
         /\ astray' = astray \union {"note"} /\ requests' = Aged({"note"})
  BY CleaningMeans
<1>4. /\ note' \in {"off", "on", "paused"} /\ crossed' \subseteq Notes
      /\ astray' \subseteq Facts /\ requests' \subseteq Requests
  BY <1>1, <1>2, <1>3 DEF Shapes, Facts
<1>5. mic' \in BOOLEAN /\ clearing' \in BOOLEAN
  <2>1. mic \in BOOLEAN /\ clearing \in BOOLEAN
    BY DEF Shapes
  <2>2. mic' = mic \/ mic' = FALSE
    BY CleaningMeans
  <2>3. clearing' = clearing \/ clearing' = FALSE
    BY CleaningMeans
  <2>. QED  BY <2>1, <2>2, <2>3
<1>6. UNCHANGED <<phase, saved, unanswered, up, wired, todo, asked, subs, streams, queue, link, opened, ui, leaked,
                  early, told>>
  BY CleaningMeans
<1>. QED  BY <1>4, <1>5, <1>6 DEF Shapes

LEMMA NoTellShape ==
  ASSUME Shapes, NEW t \in Threads, NEW facts \in SUBSET Tellable, NEW events \in Seq(Events),
         Tell(t, facts, events, {})
  PROVE  todo' \in [Threads -> Seq(Events)] /\ astray' \subseteq Facts /\ requests' \subseteq Requests
<1>1. {} \in SUBSET Requests
  OBVIOUS
<1>. QED  BY <1>1, TellShape

LEMMA EngineShape ==
  ASSUME Shapes, Counts,
         NoteAction \/ DiscardNote \/ FailNote \/ LoadEnds \/ \E n \in Notes : Answer(n)
  PROVE  Shapes'
<1>1. CASE NoteAction
  <2>1. PICK by \in {"window", "silence"}, v \in {"on", "paused", "off"} :
           /\ Op(by, v, notes') /\ notes' \in Notes
           /\ unanswered' = unanswered \/ (unanswered' = unanswered \union {notes} /\ note # "off")
    BY <1>1, NoteActionIsOp
  <2>2. note # "off" => notes \in Notes
    BY NoteNumber
  <2>3. unanswered' \subseteq Notes
    BY <2>1, <2>2 DEF Shapes
  <2>4. notes' \in Nat
    BY <2>1, StreamAssumption DEF Notes
  <2>. QED  BY <2>1, <2>3, <2>4, NoteShape
<1>2. CASE DiscardNote
  <2>1. notes \in Notes
    BY <1>2, NoteNumber DEF DiscardNote
  <2>2. <<Recording("discarded", notes), Stale(notes)>> \in Seq(Events)
    BY <2>1, MadeEvents, EventSeqs DEF Noted
  <2>3. Request("discard") \subseteq Requests
    BY RequestShape
  <2>4. todo' \in [Threads -> Seq(Events)] /\ astray' \subseteq Facts /\ requests' \subseteq Requests
    BY <1>2, <2>2, <2>3, TellShape DEF DiscardNote, Threads, Tellable
  <2>5. ui' \in Screens
    BY <1>2 DEF DiscardNote, Shapes, Screens
  <2>. QED  BY <1>2, <2>4, <2>5 DEF DiscardNote, Shapes, brokerVars
<1>3. CASE FailNote
  <2>1. notes \in Notes
    BY <1>3, NoteNumber DEF FailNote
  <2>2. <<Stale(notes), Outcome("failed", notes), Recording("off", notes)>> \in Seq(Events)
    BY <2>1, MadeEvents, EventSeqs DEF Noted
  <2>3. todo' \in [Threads -> Seq(Events)] /\ astray' \subseteq Facts /\ requests' \subseteq Requests
    BY <1>3, <2>2, NoTellShape DEF FailNote, Threads, Tellable
  <2>. QED  BY <1>3, <2>1, <2>3 DEF FailNote, Shapes, brokerVars
<1>4. CASE LoadEnds
  <2>1. <<Event("model", phase', 0)>> \in Seq(Events)
    BY <1>4, MadeEvents, EventSeqs DEF LoadEnds
  <2>2. todo' \in [Threads -> Seq(Events)] /\ astray' \subseteq Facts /\ requests' \subseteq Requests
    BY <1>4, <2>1, NoTellShape DEF LoadEnds, Threads
  <2>. QED  BY <1>4, <2>2 DEF LoadEnds, Shapes, brokerVars
<1>5. ASSUME NEW n \in Notes, Answer(n)
      PROVE  Shapes'
  <2>1. /\ <<Changed(n), Outcome("ok", n)>> \in Seq(Events)
        /\ <<Outcome("empty", n)>> \in Seq(Events)
        /\ <<Stale(n), Outcome("failed", n)>> \in Seq(Events)
    BY MadeEvents, EventSeqs
  <2>2. \E facts \in SUBSET Tellable, events \in Seq(Events) : Tell("worker", facts, events, {})
    BY <1>5, <2>1 DEF Answer, Tellable
  <2>3. todo' \in [Threads -> Seq(Events)] /\ astray' \subseteq Facts /\ requests' \subseteq Requests
    BY <2>2, NoTellShape DEF Threads
  <2>4. saved' \subseteq Notes /\ early' \subseteq Notes
    BY <1>5 DEF Answer, Shapes
  <2>. QED  BY <1>5, <2>3, <2>4 DEF Answer, Shapes, brokerVars
<1>. QED  BY <1>1, <1>2, <1>3, <1>4, <1>5

LEMMA BrokerShape ==
  ASSUME Shapes, Level \/ \E t \in Threads : Publish(t)
  PROVE  Shapes'
<1>1. CASE Level
  <2>1. {} \in SUBSET Facts
    OBVIOUS
  <2>2. queue' \in Seq(Events) /\ astray' \subseteq Facts /\ requests' \subseteq Requests
    BY <1>1, <2>1, BroadcastShape, MadeEvents DEF Level
  <2>. QED  BY <1>1, <2>2 DEF Level, Shapes, engineVars
<1>2. ASSUME NEW t \in Threads, Publish(t)
      PROVE  Shapes'
  <2>1. todo[t] \in Seq(Events) /\ todo[t] # << >>
    BY <1>2 DEF Publish, Shapes
  <2>2. Head(todo[t]) \in Events /\ Tail(todo[t]) \in Seq(Events)
    BY <2>1, HeadTail
  <2>3. todo' \in [Threads -> Seq(Events)]
    BY <1>2, <2>2 DEF Publish, Shapes
  <2>4. queue' \in Seq(Events) /\ astray' \subseteq Facts /\ requests' \subseteq Requests
    <3>1. \E late \in SUBSET Facts : Broadcast(Head(todo[t]), late)
      BY <1>2 DEF Publish, Facts
    <3>. QED  BY <2>2, <3>1, BroadcastShape
  <2>. QED  BY <1>2, <2>3, <2>4 DEF Publish, Shapes, engineVars
<1>. QED  BY <1>1, <1>2

LEMMA Deliverable ==
  ASSUME Shapes, Deliver
  PROVE  /\ Head(queue) \in Events /\ Tail(queue) \in Seq(Events) /\ queue # << >>
         /\ queue' = Tail(queue)
  BY HeadTail DEF Shapes, Deliver

LEMMA ScreenShape ==
  ASSUME NEW w \in Screens, NEW e \in Events
  PROVE  /\ e.type = "note-recording" => OnRecording(w, e) \in Screens
         /\ e.type = "note" => OnOutcome(w, e) \in Screens
         /\ OnStale(w) \in Screens
         /\ e.type = "model" => [w EXCEPT !.phase = e.value] \in Screens
<1>1. e.n \in 0 .. MaxOps + 1
  BY EventFields
<1>2. Unwatched(w) \in Screens
  BY DEF Unwatched, Screens
<1>3. ASSUME e.type = "note-recording" PROVE OnRecording(w, e) \in Screens
  <2>1. CASE e.value = "paused"
    BY <2>1 DEF OnRecording, Screens
  <2>2. CASE e.value = "on"
    BY <1>2, <2>2 DEF OnRecording, Screens
  <2>3. CASE e.value = "discarded" \/ (e.value = "off" /\ w.discarding)
    BY <1>2, <2>3 DEF OnRecording, Screens
  <2>4. CASE e.value = "off" /\ ~w.discarding
    BY <1>1, <2>4 DEF OnRecording, Screens
  <2>5. e.value \in Noted
    BY <1>3, EventFields
  <2>. QED  BY <2>1, <2>2, <2>3, <2>4, <2>5 DEF Noted
<1>4. ASSUME e.type = "note" PROVE OnOutcome(w, e) \in Screens
  <2>1. e.n \in Notes
    BY <1>4, EventFields
  <2>. QED  BY <2>1 DEF OnOutcome, Screens
<1>5. OnStale(w) \in Screens
  BY <1>2 DEF OnStale
<1>6. e.type = "model" => [w EXCEPT !.phase = e.value] \in Screens
  BY EventFields DEF Screens
<1>. QED  BY <1>3, <1>4, <1>5, <1>6

\* What a delivery makes of the window and its requests.
LEMMA Delivers ==
  ASSUME Shapes, Deliver, NEW e, e = Head(queue)
  PROVE  /\ e.type = "note-recording" => ui' = OnRecording(ui, e)
         /\ e.type = "note" => ui' = OnOutcome(ui, e) /\ told' = e.n
         /\ e.type = "transcript" => ui' = OnStale(ui)
         /\ e.type = "model" => ui' = [ui EXCEPT !.phase = e.value]
         /\ e.type \in {"history-changed", "audio-level"} => ui' = ui
         /\ e.type # "note" => told' = told
         /\ requests' = Kept(Aged(Fact(e)), ui'.phase) \union
                        (IF e.type = "history-changed" THEN Request("history") ELSE {})
<1>1. requests' = Kept(Aged(Fact(e)), ui'.phase) \union
                        (IF e.type = "history-changed" THEN Request("history") ELSE {})
  BY DEF Deliver
<1>2. e.type # "note" => told' = told
  BY DEF Deliver
<1>3. e.type = "note-recording" => ui' = OnRecording(ui, e)
  BY DEF Deliver
<1>4. e.type = "note" => ui' = OnOutcome(ui, e) /\ told' = e.n
  BY DEF Deliver
<1>5. e.type = "transcript" => ui' = OnStale(ui)
  BY DEF Deliver
<1>6. e.type = "model" => ui' = [ui EXCEPT !.phase = e.value]
  BY DEF Deliver
<1>7. e.type \in {"history-changed", "audio-level"} => ui' = ui
  BY DEF Deliver
<1>. QED  BY <1>1, <1>2, <1>3, <1>4, <1>5, <1>6, <1>7

LEMMA DeliverShape ==
  ASSUME Shapes, Deliver
  PROVE  Shapes'
<1>. DEFINE e == Head(queue)
<1>1. e \in Events /\ queue' \in Seq(Events)
  BY Deliverable
<1>2. ui' \in Screens
  BY <1>1, Delivers, ScreenShape, EventFields DEF Shapes
<1>3. Aged(Fact(e)) \subseteq Requests /\ Request("history") \subseteq Requests
  BY FactOfEvent, AgedShape, RequestShape DEF Shapes
<1>4. requests' \subseteq Requests
  BY <1>3, Delivers DEF Kept
<1>5. told' \in Nat
  <2>1. e.n \in Nat
    BY <1>1, EventFields, StreamAssumption
  <2>. QED  BY <2>1, Delivers DEF Shapes
<1>. QED  BY <1>1, <1>2, <1>4, <1>5 DEF Deliver, Shapes, engineVars

\* What the window makes of a response.
LEMMA Applies ==
  ASSUME NEW r \in requests, Apply(r)
  PROVE  /\ r.snap # NoSnap
         /\ requests' = Kept(requests \ {r}, ui'.phase)
         /\ r.for = "state" => ui' = [ui EXCEPT !.phase = r.snap.phase, !.note = r.snap.note, !.saved = r.snap.saved]
         /\ r.for = "op" => ui' = [ui EXCEPT !.note = r.snap.note]
         /\ r.for = "discard" => ui' = [Unwatched(ui) EXCEPT !.note = "off"]
         /\ r.for = "poll" => ui' = [ui EXCEPT !.phase = r.snap.phase]
         /\ r.for = "history" => ui' = FromHistory(ui, r.snap.saved)
<1>1. requests' = Kept(requests \ {r}, ui'.phase) /\ r.snap # NoSnap
  BY DEF Apply
<1>2. r.for = "state" => ui' = [ui EXCEPT !.phase = r.snap.phase, !.note = r.snap.note, !.saved = r.snap.saved]
  BY DEF Apply
<1>3. r.for = "op" => ui' = [ui EXCEPT !.note = r.snap.note]
  BY DEF Apply
<1>4. r.for = "discard" => ui' = [Unwatched(ui) EXCEPT !.note = "off"]
  BY DEF Apply
<1>5. r.for = "poll" => ui' = [ui EXCEPT !.phase = r.snap.phase]
  BY DEF Apply
<1>6. r.for = "history" => ui' = FromHistory(ui, r.snap.saved)
  BY DEF Apply
<1>. QED  BY <1>1, <1>2, <1>3, <1>4, <1>5, <1>6

Responses == \A r \in requests : r.snap # NoSnap => r.snap.phase # "none" /\ r.snap.note # "none"

LEMMA AppliedShape ==
  ASSUME Shapes, Responses, NEW r \in requests, Apply(r)
  PROVE  Shapes'
<1>1. /\ r \in Requests /\ r.snap # NoSnap /\ ui \in Screens
      /\ r.snap.phase \in {"loading", "ready", "failed"} /\ r.snap.note \in {"off", "on", "paused"}
      /\ r.snap.saved \in SUBSET Notes
  BY Applies DEF Shapes, Responses, Requests
<1>2. Unwatched(ui) \in Screens
  BY <1>1 DEF Unwatched, Screens
<1>3. FromHistory(ui, r.snap.saved) \in Screens
  BY <1>1 DEF FromHistory, Screens
<1>4. [ui EXCEPT !.phase = r.snap.phase] \in Screens
  BY <1>1 DEF Screens
<1>5. [ui EXCEPT !.note = r.snap.note] \in Screens
  BY <1>1 DEF Screens
<1>6. [ui EXCEPT !.phase = r.snap.phase, !.note = r.snap.note, !.saved = r.snap.saved] \in Screens
  BY <1>1 DEF Screens
<1>7. [Unwatched(ui) EXCEPT !.note = "off"] \in Screens
  BY <1>2 DEF Screens
<1>8. r.for \in {"state", "poll", "history", "op", "discard"}
  BY <1>1 DEF Requests
<1>9. ui' \in Screens
  BY <1>3, <1>4, <1>5, <1>6, <1>7, <1>8, Applies
<1>10. requests' \subseteq Requests
  BY Applies DEF Kept, Shapes
<1>11. astray' \subseteq Facts
  <2>1. r.old \subseteq Facts
    BY <1>1 DEF Requests, Facts
  <2>. QED  BY <2>1 DEF Apply, Shapes, Facts
<1>. QED  BY <1>9, <1>10, <1>11 DEF Apply, Shapes, engineVars, brokerVars

LEMMA RespondShape ==
  ASSUME Shapes, NEW r \in requests, Respond(r)
  PROVE  Shapes'
<1>1. [phase |-> phase, note |-> note, saved |-> saved] \in Snaps
  BY DEF Shapes, Snaps
<1>2. r \in Requests
  BY DEF Shapes
<1>3. [r EXCEPT !.snap = [phase |-> phase, note |-> note, saved |-> saved]] \in Requests
  BY <1>1, <1>2 DEF Requests, Snaps
<1>4. requests' \subseteq Requests
  BY <1>3 DEF Respond, Shapes
<1>. QED  BY <1>4 DEF Respond, Shapes, engineVars, brokerVars, history

LEMMA StreamNumber ==
  ASSUME Counts, link \in {"waiting", "down"}
  PROVE  conn + 1 \in Conns
  BY StreamAssumption DEF Counts, Conns

LEMMA LinkShape ==
  ASSUME Shapes, Counts,
         Connect \/ Break \/ Reconnect \/ Poll \/ Watchdog \/ Serve \/ Wire \/ Restart
         \/ \E c \in Conns : Accept(c) \/ Headers(c) \/ StreamEnds(c)
  PROVE  Shapes'
<1>0. << >> \in Seq(Events)
  OBVIOUS
<1>1. CASE Connect
  <2>1. Request("state") \subseteq Requests
    BY RequestShape
  <2>. QED  BY <1>1, <2>1, StreamNumber DEF Connect, Shapes, engineVars, history
<1>2. CASE Break
  <2>1. Aged({"note", "history"}) \subseteq Requests
    BY AgedShape DEF Shapes, Tellable
  <2>. QED  BY <1>0, <1>2, <2>1 DEF Break, Shapes, engineVars, Facts
<1>3. CASE Reconnect
  BY <1>0, <1>3, StreamNumber DEF Reconnect, Shapes, engineVars, history
<1>4. CASE Poll
  <2>1. Request("poll") \subseteq Requests
    BY RequestShape
  <2>. QED  BY <1>4, <2>1 DEF Poll, Shapes, engineVars, brokerVars, history
<1>5. CASE Watchdog
  <2>1. ui' \in Screens
    BY <1>5 DEF Watchdog, Shapes, Screens
  <2>. QED  BY <1>5, <2>1 DEF Watchdog, Shapes, engineVars, brokerVars, history
<1>6. CASE Serve \/ Wire
  BY <1>6 DEF Serve, Wire, Shapes, brokerVars, windowVars, history
<1>7. CASE Restart
  <2>1. ui' \in Screens
    BY <1>7 DEF Restart, Shapes, Screens
  <2>2. todo' \in [Threads -> Seq(Events)]
    BY <1>0, <1>7 DEF Restart
  <2>. QED  BY <1>0, <1>7, <2>1, <2>2 DEF Restart, Shapes, Facts
<1>8. ASSUME NEW c \in Conns, Accept(c) \/ StreamEnds(c)
      PROVE  Shapes'
  BY <1>8 DEF Accept, StreamEnds, Gone, Shapes, engineVars, windowVars, history
<1>9. ASSUME NEW c \in Conns, Headers(c)
      PROVE  Shapes'
  <2>1. Request("state") \subseteq Requests
    BY RequestShape
  <2>2. requests' \subseteq Requests /\ link' \in {link, "open"} /\ opened' \in BOOLEAN
    BY <1>9, <2>1 DEF Headers, Opens, Shapes
  <2>3. streams' \subseteq subs /\ leaked' \subseteq Conns
    BY <1>9 DEF Headers, Opens, Shapes
  <2>. QED  BY <1>9, <2>2, <2>3 DEF Headers, Shapes, engineVars
<1>. QED  BY <1>1, <1>2, <1>3, <1>4, <1>5, <1>6, <1>7, <1>8, <1>9

LEMMA ShapeStep ==
  ASSUME Shapes, Counts, Responses, StreamNext
  PROVE  Shapes'
  BY EngineShape, CleaningShape, BrokerShape, DeliverShape, AppliedShape, RespondShape, LinkShape
     DEF StreamNext, NoteAction, Cleaning

\* Requests are asked, become older, or are answered and end; a poll may be cancelled.
Succeeds(R, Q) ==
  /\ \A q \in Q : q.snap = NoSnap \/ \E r \in R : r.for = q.for /\ r.snap = q.snap /\ r.old \subseteq q.old
  /\ \A r \in R : r.for # "poll" => \E q \in Q : q.for = r.for

LEMMA SucceedsItself == ASSUME NEW R PROVE Succeeds(R, R)
  BY DEF Succeeds

LEMMA AgedSucceeds ==
  ASSUME requests \subseteq Requests, NEW facts
  PROVE  /\ Succeeds(requests, Aged(facts))
         /\ \A q \in Aged(facts) : q.snap # NoSnap => facts \subseteq q.old
<1>1. ASSUME NEW r \in requests, NEW q, q = IF r.snap = NoSnap THEN r ELSE [r EXCEPT !.old = @ \union facts]
      PROVE  /\ q.for = r.for /\ q.snap = r.snap /\ r.old \subseteq q.old
             /\ q.snap # NoSnap => facts \subseteq q.old
  <2>1. r \in Requests
    OBVIOUS
  <2>2. CASE r.snap = NoSnap
    BY <1>1, <2>2
  <2>3. CASE r.snap # NoSnap
    BY <1>1, <2>1, <2>3 DEF Requests
  <2>. QED  BY <2>2, <2>3
<1>2. \A q \in Aged(facts) : \E r \in requests : q = IF r.snap = NoSnap THEN r ELSE [r EXCEPT !.old = @ \union facts]
  BY DEF Aged
<1>3. \A r \in requests : (IF r.snap = NoSnap THEN r ELSE [r EXCEPT !.old = @ \union facts]) \in Aged(facts)
  BY DEF Aged
<1>. QED  BY <1>1, <1>2, <1>3 DEF Succeeds

LEMMA AskedSucceeds ==
  ASSUME NEW R, NEW Q, Succeeds(R, Q), NEW for
  PROVE  Succeeds(R, Q \union Request(for)) /\ \E q \in Q \union Request(for) : q.for = for
<1>1. \A q \in Request(for) : q.for = for /\ q.snap = NoSnap
  BY DEF Request
<1>2. Request(for) # {}
  BY DEF Request
<1>. QED  BY <1>1, <1>2 DEF Succeeds

LEMMA KeptSucceeds ==
  ASSUME NEW R, NEW Q, Succeeds(R, Q), NEW p
  PROVE  Succeeds(R, Kept(Q, p))
<1>1. \A q \in Q : q.for # "poll" => q \in Kept(Q, p)
  BY DEF Kept
<1>2. Kept(Q, p) \subseteq Q
  BY DEF Kept
<1>. QED  BY <1>1, <1>2 DEF Succeeds

LEMMA TellSucceeds ==
  ASSUME requests \subseteq Requests, NEW t, NEW facts, NEW events, NEW for,
         Tell(t, facts, events, {}) \/ Tell(t, facts, events, Request(for))
  PROVE  /\ Succeeds(requests, requests')
         /\ ~wired => \A q \in requests' : q.snap # NoSnap => facts \subseteq q.old
<1>1. \A q \in Request(for) : q.snap = NoSnap
  BY DEF Request
<1>2. requests' \subseteq Request(for) \union (IF wired THEN requests ELSE Aged(facts))
  BY DEF Tell
<1>3. (IF wired THEN requests ELSE Aged(facts)) \subseteq requests'
  BY DEF Tell
<1>4. Succeeds(requests, IF wired THEN requests ELSE Aged(facts))
  BY SucceedsItself, AgedSucceeds
<1>5. Succeeds(requests, requests')
  BY <1>1, <1>2, <1>3, <1>4 DEF Succeeds
<1>. QED  BY <1>1, <1>2, <1>5, AgedSucceeds

LEMMA BroadcastSucceeds ==
  ASSUME requests \subseteq Requests, NEW e, NEW late, Broadcast(e, late)
  PROVE  /\ Succeeds(requests, requests')
         /\ \/ Held /\ queue' = Append(queue, e) /\ astray' = astray \union late /\ Len(queue) < Cap
            \/ /\ queue' = queue
               /\ \A q \in requests' : q.snap # NoSnap => Fact(e) \subseteq q.old
               /\ astray' = astray \union Fact(e) \/ (astray' = astray /\ ~Held /\ opened)
<1>1. CASE Held /\ Len(queue) < Cap
  BY <1>1, SucceedsItself DEF Broadcast
<1>2. CASE ~(Held /\ Len(queue) < Cap)
  BY <1>2, AgedSucceeds DEF Broadcast
<1>. QED  BY <1>1, <1>2

LEMMA OpSucceeds ==
  ASSUME requests \subseteq Requests, NEW by, NEW v, NEW n, Op(by, v, n)
  PROVE  /\ Succeeds(requests, requests')
         /\ ~wired => \A q \in requests' : q.snap # NoSnap => "note" \in q.old
<1>1. Asks(by) = {} \/ Asks(by) = Request("op")
  BY DEF Asks
<1>2. Tell("op", {"note"}, <<Recording(v, n)>>, {}) \/ Tell("op", {"note"}, <<Recording(v, n)>>, Request("op"))
  BY <1>1 DEF Op
<1>. QED  BY <1>2, TellSucceeds

\* Every step but an answer, its use and a restart.
LEMMA StepSucceeds ==
  ASSUME Shapes, Counts, StreamNext, ~Restart, \A r \in requests : ~Respond(r) /\ ~Apply(r)
  PROVE  Succeeds(requests, requests')
<1>0. requests \subseteq Requests
  BY DEF Shapes
<1>1. CASE NoteAction
  <2>1. PICK by \in {"window", "silence"}, v \in {"on", "paused", "off"} : Op(by, v, notes')
    BY <1>1, NoteActionIsOp
  <2>. QED  BY <1>0, <2>1, OpSucceeds
<1>2. CASE DiscardNote \/ FailNote \/ LoadEnds \/ \E n \in Notes : Answer(n)
  <2>1. \E t, facts, events, for : Tell(t, facts, events, {}) \/ Tell(t, facts, events, Request(for))
    BY <1>2 DEF DiscardNote, FailNote, LoadEnds, Answer
  <2>. QED  BY <1>0, <2>1, TellSucceeds
<1>3. CASE Level \/ \E t \in Threads : Publish(t)
  <2>1. \E e, late : Broadcast(e, late)
    BY <1>3 DEF Level, Publish
  <2>. QED  BY <1>0, <2>1, BroadcastSucceeds
<1>4. CASE Deliver
  <2>1. Succeeds(requests, Kept(Aged(Fact(Head(queue))), ui'.phase))
    BY <1>0, AgedSucceeds, KeptSucceeds
  <2>2. \/ requests' = Kept(Aged(Fact(Head(queue))), ui'.phase)
        \/ requests' = Kept(Aged(Fact(Head(queue))), ui'.phase) \union Request("history")
    BY <1>4, Delivers
  <2>. QED  BY <2>1, <2>2, AskedSucceeds
<1>5. CASE UNCHANGED requests \/ \E for : requests' = requests \union Request(for)
  BY <1>5, SucceedsItself, AskedSucceeds
<1>6. CASE Break
  BY <1>0, <1>6, AgedSucceeds DEF Break
<1>8. CASE Cleaning
  BY <1>0, <1>8, CleaningMeans, AgedSucceeds, SucceedsItself
<1>7. UNCHANGED requests \/ \E for : requests' = requests \union Request(for)
      \/ Cleaning \/ NoteAction \/ DiscardNote \/ FailNote \/ LoadEnds \/ (\E n \in Notes : Answer(n))
      \/ Level \/ (\E t \in Threads : Publish(t)) \/ Deliver \/ Break
  BY DEF StreamNext, NoteAction, Cleaning, Serve, Wire, Connect, Reconnect, Poll, Watchdog, Accept, Headers, Opens,
     StreamEnds, windowVars
<1>. QED  BY <1>1, <1>2, <1>3, <1>4, <1>5, <1>6, <1>7, <1>8

LEMMA ResponsesSucceed ==
  ASSUME Responses, Succeeds(requests, requests')
  PROVE  Responses'
  BY DEF Responses, Succeeds

LEMMA ResponsesStep ==
  ASSUME Shapes, Counts, Responses, StreamNext
  PROVE  Responses'
<1>1. CASE Restart
  BY <1>1 DEF Restart, Responses
<1>2. ASSUME NEW r \in requests, Respond(r)
      PROVE  Responses'
  <2>1. r \in Requests
    BY DEF Shapes
  <2>2. [r EXCEPT !.snap = [phase |-> phase, note |-> note, saved |-> saved]].snap
          = [phase |-> phase, note |-> note, saved |-> saved]
    BY <2>1 DEF Requests
  <2>3. phase # "none" /\ note # "none"
    BY DEF Shapes
  <2>4. \A q \in requests' : q \in requests
          \/ q.snap = [phase |-> phase, note |-> note, saved |-> saved]
    BY <1>2, <2>2 DEF Respond
  <2>. QED  BY <2>3, <2>4 DEF Responses
<1>3. ASSUME NEW r \in requests, Apply(r)
      PROVE  Responses'
  BY <1>3, Applies DEF Responses, Kept
<1>. QED  BY <1>1, <1>2, <1>3, StepSucceeds, ResponsesSucceed

LEMMA CountsStep ==
  ASSUME Shapes, Counts, StreamNext
  PROVE  Counts'
<1>0. opsLeft > 0 => opsLeft - 1 \in Nat
  BY DEF Counts
<1>1. CASE NoteAction
  <2>1. PICK by \in {"window", "silence"}, v \in {"on", "paused", "off"} :
           Op(by, v, notes') /\ notes' \in Notes /\ opsLeft > 0 /\ (notes' = notes \/ notes' = notes + 1)
    BY <1>1, NoteActionIsOp
  <2>2. UNCHANGED <<conn, levelsLeft, breaksLeft, restartsLeft, link>> /\ opsLeft' = opsLeft - 1
    BY <2>1 DEF Op
  <2>3. notes' \in Nat /\ notes' >= 1 /\ opsLeft' \in Nat /\ notes' + opsLeft' <= MaxOps + 1
    BY <1>0, <2>1, <2>2, StreamAssumption DEF Counts, Notes
  <2>. QED  BY <2>2, <2>3 DEF Counts
<1>2. CASE DiscardNote \/ FailNote
  <2>1. /\ UNCHANGED <<conn, levelsLeft, breaksLeft, restartsLeft, link, notes>>
        /\ opsLeft' = opsLeft - 1 /\ opsLeft > 0 /\ note' = "off" /\ (mic' => mic)
    BY <1>2 DEF DiscardNote, FailNote
  <2>. QED  BY <1>0, <2>1, StreamAssumption DEF Counts
<1>3. CASE Level
  <2>1. /\ UNCHANGED <<note, mic, notes, opsLeft, conn, breaksLeft, restartsLeft, link>>
        /\ levelsLeft > 0 /\ levelsLeft' = levelsLeft - 1
    BY <1>3 DEF Level, engineVars
  <2>. QED  BY <2>1 DEF Counts
<1>4. ASSUME NEW c \in Conns, Headers(c)
      PROVE  Counts'
  <2>1. /\ UNCHANGED <<note, mic, notes, opsLeft, conn, levelsLeft, breaksLeft, restartsLeft>>
        /\ link' = link \/ link' = "open"
    BY <1>4 DEF Headers, Opens, engineVars, bounds
  <2>. QED  BY <2>1, StreamAssumption DEF Counts
<1>5. CASE Connect \/ Reconnect
  <2>1. /\ UNCHANGED <<note, mic, notes, opsLeft, levelsLeft, breaksLeft, restartsLeft>>
        /\ link \in {"waiting", "down"} /\ link' = "opening" /\ conn' = conn + 1
    BY <1>5 DEF Connect, Reconnect, engineVars, bounds
  <2>. QED  BY <2>1, StreamAssumption DEF Counts
<1>6. CASE Break
  <2>1. /\ UNCHANGED <<note, mic, notes, opsLeft, levelsLeft, conn, restartsLeft>>
        /\ link \in {"opening", "open"} /\ link' = "down" /\ breaksLeft > 0 /\ breaksLeft' = breaksLeft - 1
    BY <1>6 DEF Break, engineVars
  <2>. QED  BY <2>1, StreamAssumption DEF Counts
<1>7. CASE Restart
  <2>1. /\ UNCHANGED <<notes, opsLeft, levelsLeft, conn, breaksLeft>> /\ note' = "off" /\ mic' = FALSE
        /\ link' = (IF link = "waiting" THEN link ELSE "down")
        /\ restartsLeft > 0 /\ restartsLeft' = restartsLeft - 1
    BY <1>7 DEF Restart
  <2>2. /\ restartsLeft' \in Nat
        /\ conn + breaksLeft + restartsLeft' + 1 <= 1 + MaxBreaks + MaxRestarts
    BY <2>1, StreamAssumption DEF Counts
  <2>3. link' \in {"waiting", "down"}
    BY <2>1
  <2>. QED  BY <2>1, <2>2, <2>3 DEF Counts
<1>8. CASE UNCHANGED <<note, mic, notes, opsLeft, levelsLeft, breaksLeft, restartsLeft, conn, link>>
  BY <1>8 DEF Counts
<1>10. CASE Cleaning
  <2>1. UNCHANGED <<notes, opsLeft, levelsLeft, breaksLeft, restartsLeft, conn, link>>
    BY <1>10, CleaningMeans
  <2>2. mic' => mic
    BY <1>10, CleaningCloses
  <2>3. note' # "off" => note # "off"
    BY <1>10, CleaningMeans
  <2>. QED  BY <2>1, <2>2, <2>3 DEF Counts
<1>9. \/ UNCHANGED <<note, mic, notes, opsLeft, levelsLeft, breaksLeft, restartsLeft, conn, link>>
      \/ NoteAction \/ DiscardNote \/ FailNote \/ Level \/ (\E c \in Conns : Headers(c))
      \/ Connect \/ Reconnect \/ Break \/ Restart \/ Cleaning
  BY DEF StreamNext, NoteAction, Cleaning, LoadEnds, Answer, Publish, Deliver, Watchdog, Poll, Serve, Wire, Respond, Apply,
     Accept, StreamEnds, bounds, engineVars, windowVars
<1>. QED  BY <1>1, <1>2, <1>3, <1>4, <1>5, <1>6, <1>7, <1>8, <1>9, <1>10

LEMMA Unanswered ==
  ASSUME Shapes
  PROVE  /\ IsFiniteSet(unanswered) /\ Cardinality(unanswered) \in Nat
         /\ \A n \in unanswered : /\ Cardinality(unanswered \ {n}) = Cardinality(unanswered) - 1
                                  /\ Cardinality(unanswered \ {n}) \in Nat
         /\ \A n : /\ Cardinality(unanswered \union {n}) <= Cardinality(unanswered) + 1
                   /\ Cardinality(unanswered \union {n}) \in Nat
<1>1. IsFiniteSet(Notes)
  BY FS_Interval, StreamAssumption DEF Notes
<1>2. IsFiniteSet(unanswered)
  BY <1>1, FS_Subset DEF Shapes
<1>3. Cardinality(unanswered) \in Nat
  BY <1>2, FS_CardinalityType
<1>4. ASSUME NEW n \in unanswered
      PROVE  Cardinality(unanswered \ {n}) = Cardinality(unanswered) - 1 /\ Cardinality(unanswered \ {n}) \in Nat
  BY <1>2, FS_RemoveElement, FS_CardinalityType
<1>5. ASSUME NEW n
      PROVE  /\ Cardinality(unanswered \union {n}) <= Cardinality(unanswered) + 1
             /\ Cardinality(unanswered \union {n}) \in Nat
  <2>1. /\ IsFiniteSet(unanswered \union {n})
        /\ Cardinality(unanswered \union {n}) = IF n \in unanswered THEN Cardinality(unanswered) ELSE Cardinality(unanswered) + 1
    BY <1>2, FS_AddElement
  <2>. QED  BY <1>3, <2>1
<1>. QED  BY <1>2, <1>3, <1>4, <1>5

LEMMA TellLengths ==
  ASSUME Shapes, NEW t \in Threads, NEW facts, NEW events \in Seq(Events), NEW request,
         Tell(t, facts, events, request)
  PROVE  /\ Len(todo'[t]) <= Len(todo[t]) + Len(events)
         /\ \A u \in Threads : u # t => todo'[u] = todo[u]
  BY DEF Tell, Shapes

LEMMA EventLengths ==
  /\ \A e : Len(<<e>>) = 1
  /\ \A e, f : Len(<<e, f>>) = 2
  /\ \A e, f, g : Len(<<e, f, g>>) = 3
  OBVIOUS

\* An operation makes room for what it tells.
LEMMA RoomForOps ==
  ASSUME NEW o \in Nat, NEW ops \in Nat, o + 3 * ops <= 3 * MaxOps,
         NEW o2 \in Nat, NEW ops2 \in Nat,
         \/ ops2 = ops - 1 /\ o2 <= o + 2
         \/ ops2 <= ops /\ o2 <= o
  PROVE  o2 + 3 * ops2 <= 3 * MaxOps
  BY StreamAssumption

LEMMA RoomForAnswers ==
  ASSUME NEW w \in Nat, NEW ops \in Nat, NEW open \in Nat, w + 3 * (ops + open) <= 3 * MaxOps,
         NEW w2 \in Nat, NEW ops2 \in Nat, NEW open2 \in Nat,
         \/ ops2 = ops - 1 /\ w2 = w /\ open2 <= open + 1
         \/ ops2 = ops - 1 /\ w2 <= w + 3 /\ open2 = open
         \/ ops2 = ops /\ w2 <= w + 2 /\ open2 = open - 1
         \/ ops2 = ops /\ w2 <= w /\ open2 <= open
  PROVE  w2 + 3 * (ops2 + open2) <= 3 * MaxOps
  BY StreamAssumption

LEMMA RoomKept ==
  ASSUME NEW q, NEW o \in Nat, NEW w \in Nat, NEW ld \in Nat, NEW ops \in Nat, NEW open \in Nat, NEW p,
         Room(q, o, w, ld, ops, open, p),
         NEW q2, NEW o2 \in Nat, NEW w2 \in Nat, NEW ld2 \in Nat, NEW ops2 \in Nat, NEW open2 \in Nat, NEW p2,
         q2 <= Cap,
         \/ ops2 = ops - 1 /\ o2 <= o + 2 /\ w2 = w /\ open2 <= open + 1
         \/ ops2 = ops - 1 /\ o2 <= o /\ w2 <= w + 3 /\ open2 = open
         \/ ops2 = ops /\ o2 <= o /\ w2 <= w + 2 /\ open2 = open - 1
         \/ ops2 = ops /\ o2 <= o /\ w2 <= w /\ open2 <= open,
         \/ ld2 <= ld /\ p2 = p
         \/ p = "loading" /\ p2 # "loading" /\ ld2 <= ld + 1
         \/ ld2 = 0
  PROVE  Room(q2, o2, w2, ld2, ops2, open2, p2)
<1>0. o + 3 * ops <= 3 * MaxOps /\ w + 3 * (ops + open) <= 3 * MaxOps /\ ld <= (IF p = "loading" THEN 0 ELSE 1)
  BY DEF Room
<1>1. o2 + 3 * ops2 <= 3 * MaxOps
  <2>1. \/ ops2 = ops - 1 /\ o2 <= o + 2
        \/ ops2 <= ops /\ o2 <= o
    OBVIOUS
  <2>. QED  BY <1>0, <2>1, RoomForOps
<1>2. w2 + 3 * (ops2 + open2) <= 3 * MaxOps
  <2>1. \/ ops2 = ops - 1 /\ w2 = w /\ open2 <= open + 1
        \/ ops2 = ops - 1 /\ w2 <= w + 3 /\ open2 = open
        \/ ops2 = ops /\ w2 <= w + 2 /\ open2 = open - 1
        \/ ops2 = ops /\ w2 <= w /\ open2 <= open
    OBVIOUS
  <2>. QED  BY <1>0, <2>1, RoomForAnswers
<1>3. ld2 <= (IF p2 = "loading" THEN 0 ELSE 1)
  BY <1>0
<1>. QED  BY <1>1, <1>2, <1>3 DEF Room

\* The same of the variables, in numbers.
LEMMA RoomStep ==
  ASSUME Shapes, Counts, Shapes', Counts', Lengths, Len(queue') <= Cap, Cardinality(unanswered') \in Nat,
         \/ /\ opsLeft' = opsLeft - 1 /\ Len(todo'["op"]) <= Len(todo["op"]) + 2
            /\ todo'["worker"] = todo["worker"] /\ Cardinality(unanswered') <= Cardinality(unanswered) + 1
         \/ /\ opsLeft' = opsLeft - 1 /\ todo'["op"] = todo["op"]
            /\ Len(todo'["worker"]) <= Len(todo["worker"]) + 3 /\ unanswered' = unanswered
         \/ /\ opsLeft' = opsLeft /\ todo'["op"] = todo["op"]
            /\ Len(todo'["worker"]) <= Len(todo["worker"]) + 2
            /\ Cardinality(unanswered') = Cardinality(unanswered) - 1
         \/ /\ opsLeft' = opsLeft /\ Len(todo'["op"]) <= Len(todo["op"])
            /\ Len(todo'["worker"]) <= Len(todo["worker"]) /\ Cardinality(unanswered') <= Cardinality(unanswered),
         \/ Len(todo'["loader"]) <= Len(todo["loader"]) /\ phase' = phase
         \/ phase = "loading" /\ phase' # "loading" /\ Len(todo'["loader"]) <= Len(todo["loader"]) + 1
         \/ Len(todo'["loader"]) = 0
  PROVE  Lengths'
<1>. DEFINE o == Len(todo["op"])         o2 == Len(todo'["op"])
            w == Len(todo["worker"])     w2 == Len(todo'["worker"])
            ld == Len(todo["loader"])    ld2 == Len(todo'["loader"])
            open == Cardinality(unanswered)  open2 == Cardinality(unanswered')
            q == Len(queue)              q2 == Len(queue')
            ops == opsLeft               ops2 == opsLeft'
<1>1. /\ o \in Nat /\ w \in Nat /\ ld \in Nat /\ open \in Nat /\ ops \in Nat
      /\ o2 \in Nat /\ w2 \in Nat /\ ld2 \in Nat /\ open2 \in Nat /\ ops2 \in Nat
  <2>1. \A s \in Seq(Events) : Len(s) \in Nat
    OBVIOUS
  <2>. QED  BY <2>1, Unanswered DEF Shapes, Counts, Threads
<1>2. \/ ops2 = ops - 1 /\ o2 <= o + 2 /\ w2 = w /\ open2 <= open + 1
      \/ ops2 = ops - 1 /\ o2 <= o /\ w2 <= w + 3 /\ open2 = open
      \/ ops2 = ops /\ o2 <= o /\ w2 <= w + 2 /\ open2 = open - 1
      \/ ops2 = ops /\ o2 <= o /\ w2 <= w /\ open2 <= open
  BY <1>1
<1>3. \/ ld2 <= ld /\ phase' = phase
      \/ phase = "loading" /\ phase' # "loading" /\ ld2 <= ld + 1
      \/ ld2 = 0
  OBVIOUS
<1>4. Room(q, o, w, ld, ops, open, phase) /\ q2 <= Cap
  BY DEF Lengths
<1>5. Room(q2, o2, w2, ld2, ops2, open2, phase')
  <2>. HIDE DEF o, w, ld, open, q, ops, o2, w2, ld2, open2, q2, ops2
  <2>. QED  BY <1>1, <1>2, <1>3, <1>4, RoomKept
<1>. QED  BY <1>5 DEF Lengths

LEMMA LengthNumbers ==
  ASSUME Shapes, Counts
  PROVE  /\ \A t \in Threads : todo[t] \in Seq(Events) /\ Len(todo[t]) \in Nat
         /\ Len(queue) \in Nat /\ opsLeft \in Nat /\ Cardinality(unanswered) \in Nat
         /\ "op" \in Threads /\ "worker" \in Threads /\ "loader" \in Threads
<1>1. \A s \in Seq(Events) : Len(s) \in Nat
  OBVIOUS
<1>. QED  BY <1>1, Unanswered DEF Shapes, Counts, Threads

LEMMA EngineLengths ==
  ASSUME Shapes, Counts, Lengths, Shapes', Counts',
         NoteAction \/ DiscardNote \/ FailNote \/ LoadEnds \/ \E n \in Notes : Answer(n)
  PROVE  Lengths'
<1>0. /\ Len(todo["op"]) \in Nat /\ Len(todo["worker"]) \in Nat /\ Len(todo["loader"]) \in Nat
      /\ opsLeft \in Nat /\ Cardinality(unanswered) \in Nat
      /\ Len(todo'["op"]) \in Nat /\ Len(todo'["worker"]) \in Nat /\ Len(todo'["loader"]) \in Nat
      /\ "op" \in Threads /\ "worker" \in Threads /\ "loader" \in Threads
  <2>1. Len(todo'["op"]) \in Nat /\ Len(todo'["worker"]) \in Nat /\ Len(todo'["loader"]) \in Nat
    <3>1. \A s \in Seq(Events) : Len(s) \in Nat
      OBVIOUS
    <3>. QED  BY <3>1 DEF Shapes, Threads
  <2>. QED  BY <2>1, LengthNumbers
<1>1. Len(queue') <= Cap
  <2>1. queue' = queue
    BY DEF NoteAction, StartNote, PauseNote, ResumeNote, StopNote, StopFailed, Op, DiscardNote, FailNote, LoadEnds, Answer, brokerVars
  <2>. QED  BY <2>1 DEF Lengths, Room
<1>2. CASE NoteAction
  <2>1. PICK by \in {"window", "silence"}, v \in {"on", "paused", "off"} :
           /\ Op(by, v, notes') /\ notes' \in Notes /\ opsLeft > 0
           /\ unanswered' = unanswered \/ unanswered' = unanswered \union {notes}
    BY <1>2, NoteActionIsOp
  <2>2. <<Recording(v, notes')>> \in Seq(Events) /\ Len(<<Recording(v, notes')>>) = 1
    BY <2>1, MadeEvents, EventSeqs, EventLengths DEF Noted
  <2>3. /\ Len(todo'["op"]) <= Len(todo["op"]) + 1
        /\ todo'["worker"] = todo["worker"] /\ todo'["loader"] = todo["loader"]
    BY <1>0, <2>1, <2>2, TellLengths DEF Op
  <2>4. Cardinality(unanswered') <= Cardinality(unanswered) + 1 /\ Cardinality(unanswered') \in Nat
    <3>1. CASE unanswered' = unanswered
      BY <1>0, <3>1
    <3>2. CASE unanswered' = unanswered \union {notes}
      BY <3>2, Unanswered
    <3>. QED  BY <2>1, <3>1, <3>2
  <2>5. phase' = phase /\ opsLeft' = opsLeft - 1
    BY <2>1 DEF Op
  <2>6. Len(todo'["op"]) <= Len(todo["op"]) + 2
    BY <1>0, <2>3
  <2>7. Len(todo'["loader"]) <= Len(todo["loader"])
    BY <1>0, <2>3
  <2>8. opsLeft' = opsLeft - 1 /\ opsLeft > 0 /\ Len(todo'["worker"]) = Len(todo["worker"])
    BY <2>1, <2>3, <2>5
  <2>. QED  BY <1>0, <1>1, <2>3, <2>4, <2>5, <2>6, <2>7, <2>8, RoomStep
<1>3. CASE DiscardNote
  <2>1. notes \in Notes
    BY <1>3, NoteNumber DEF DiscardNote
  <2>2. /\ <<Recording("discarded", notes), Stale(notes)>> \in Seq(Events)
        /\ Len(<<Recording("discarded", notes), Stale(notes)>>) = 2
    BY <2>1, MadeEvents, EventSeqs, EventLengths DEF Noted
  <2>3. /\ Len(todo'["op"]) <= Len(todo["op"]) + 2
        /\ todo'["worker"] = todo["worker"] /\ todo'["loader"] = todo["loader"]
    BY <1>0, <1>3, <2>2, TellLengths DEF DiscardNote
  <2>4. phase' = phase /\ opsLeft' = opsLeft - 1 /\ opsLeft > 0 /\ unanswered' = unanswered
    BY <1>3 DEF DiscardNote
  <2>. QED  BY <1>0, <1>1, <2>3, <2>4, RoomStep
<1>4. CASE FailNote
  <2>1. notes \in Notes
    BY <1>4, NoteNumber DEF FailNote
  <2>2. /\ <<Stale(notes), Outcome("failed", notes), Recording("off", notes)>> \in Seq(Events)
        /\ Len(<<Stale(notes), Outcome("failed", notes), Recording("off", notes)>>) = 3
    BY <2>1, MadeEvents, EventSeqs, EventLengths DEF Noted
  <2>3. /\ Len(todo'["worker"]) <= Len(todo["worker"]) + 3
        /\ todo'["op"] = todo["op"] /\ todo'["loader"] = todo["loader"]
    BY <1>0, <1>4, <2>2, TellLengths DEF FailNote
  <2>4. phase' = phase /\ opsLeft' = opsLeft - 1 /\ opsLeft > 0 /\ unanswered' = unanswered
    BY <1>4 DEF FailNote
  <2>. QED  BY <1>0, <1>1, <2>3, <2>4, RoomStep
<1>5. ASSUME NEW n \in Notes, Answer(n)
      PROVE  Lengths'
  <2>1. /\ <<Changed(n), Outcome("ok", n)>> \in Seq(Events) /\ Len(<<Changed(n), Outcome("ok", n)>>) <= 2
        /\ <<Outcome("empty", n)>> \in Seq(Events) /\ Len(<<Outcome("empty", n)>>) <= 2
        /\ <<Stale(n), Outcome("failed", n)>> \in Seq(Events) /\ Len(<<Stale(n), Outcome("failed", n)>>) <= 2
    <3>1. 1 <= 2 /\ 2 <= 2
      OBVIOUS
    <3>. QED  BY <3>1, MadeEvents, EventSeqs, EventLengths
  <2>2. \/ Tell("worker", {"history"}, <<Changed(n), Outcome("ok", n)>>, {})
        \/ Tell("worker", {}, <<Outcome("empty", n)>>, {})
        \/ Tell("worker", {}, <<Stale(n), Outcome("failed", n)>>, {})
    BY <1>5 DEF Answer
  <2>3. \E facts \in SUBSET Tellable, events \in Seq(Events) :
          Len(events) <= 2 /\ Tell("worker", facts, events, {})
    <3>1. {"history"} \in SUBSET Tellable /\ {} \in SUBSET Tellable
      BY DEF Tellable
    <3>. QED  BY <2>1, <2>2, <3>1
  <2>9. PICK facts \in SUBSET Tellable, events \in Seq(Events) :
          Len(events) <= 2 /\ Tell("worker", facts, events, {})
    BY <2>3
  <2>4. /\ Len(todo'["worker"]) <= Len(todo["worker"]) + Len(events)
        /\ todo'["op"] = todo["op"] /\ todo'["loader"] = todo["loader"]
    BY <1>0, <2>9, TellLengths
  <2>5. Len(todo'["worker"]) <= Len(todo["worker"]) + 2
    <3>1. Len(events) \in Nat
      OBVIOUS
    <3>. QED  BY <1>0, <2>9, <2>4, <3>1
  <2>6. phase' = phase /\ opsLeft' = opsLeft /\ unanswered' = unanswered \ {n} /\ n \in unanswered
    BY <1>5 DEF Answer, bounds
  <2>7. Cardinality(unanswered') = Cardinality(unanswered) - 1 /\ Cardinality(unanswered') \in Nat
    BY <2>6, Unanswered
  <2>10. Len(todo'["op"]) = Len(todo["op"]) /\ Len(todo'["loader"]) <= Len(todo["loader"])
    BY <1>0, <2>4
  <2>. QED  BY <1>0, <1>1, <2>4, <2>5, <2>6, <2>7, <2>10, RoomStep
<1>6. CASE LoadEnds
  <2>1. <<Event("model", phase', 0)>> \in Seq(Events) /\ Len(<<Event("model", phase', 0)>>) = 1
    BY <1>6, MadeEvents, EventSeqs, EventLengths DEF LoadEnds
  <2>2. /\ Len(todo'["loader"]) <= Len(todo["loader"]) + 1
        /\ todo'["op"] = todo["op"] /\ todo'["worker"] = todo["worker"]
    BY <1>0, <1>6, <2>1, TellLengths DEF LoadEnds
  <2>3. phase = "loading" /\ phase' # "loading" /\ opsLeft' = opsLeft /\ unanswered' = unanswered
    BY <1>6 DEF LoadEnds, bounds
  <2>. QED  BY <1>0, <1>1, <2>2, <2>3, RoomStep
<1>. QED  BY <1>2, <1>3, <1>4, <1>5, <1>6

LEMMA LengthsStep ==
  ASSUME Shapes, Counts, Lengths, StreamNext, Shapes', Counts'
  PROVE  Lengths'
<1>0. /\ Len(queue) \in Nat /\ Cap \in Nat
      /\ Len(todo["op"]) \in Nat /\ Len(todo["worker"]) \in Nat /\ Len(todo["loader"]) \in Nat
      /\ opsLeft \in Nat /\ Cardinality(unanswered) \in Nat
      /\ Len(todo'["op"]) \in Nat /\ Len(todo'["worker"]) \in Nat /\ Len(todo'["loader"]) \in Nat
      /\ "op" \in Threads /\ "worker" \in Threads /\ "loader" \in Threads
  <2>1. Len(todo'["op"]) \in Nat /\ Len(todo'["worker"]) \in Nat /\ Len(todo'["loader"]) \in Nat
    <3>1. \A s \in Seq(Events) : Len(s) \in Nat
      OBVIOUS
    <3>. QED  BY <3>1 DEF Shapes, Threads
  <2>. QED  BY <2>1, LengthNumbers, StreamAssumption
<1>a. Len(queue) <= Cap
  BY DEF Lengths, Room
<1>b. Len(<< >>) = 0
  OBVIOUS
<1>1. ASSUME NEW e, NEW late, Broadcast(e, late)
      PROVE  Len(queue') <= Cap
  <2>1. CASE queue' = Append(queue, e) /\ Len(queue) < Cap
    <3>1. Len(queue') = Len(queue) + 1
      BY <2>1 DEF Shapes
    <3>. QED  BY <1>0, <2>1, <3>1
  <2>2. CASE queue' = queue
    BY <1>a, <2>2
  <2>. QED  BY <1>1, <2>1, <2>2 DEF Broadcast
<1>2. CASE Level
  <2>1. UNCHANGED <<todo, phase, opsLeft, unanswered>> /\ Len(queue') <= Cap
    BY <1>1, <1>2 DEF Level, engineVars
  <2>. QED  BY <1>0, <2>1, RoomStep
<1>3. ASSUME NEW t \in Threads, Publish(t)
      PROVE  Lengths'
  <2>1. todo[t] \in Seq(Events) /\ todo[t] # << >>
    BY <1>3 DEF Publish, Shapes
  <2>2. Len(todo'[t]) = Len(todo[t]) - 1 /\ \A u \in Threads : u # t => todo'[u] = todo[u]
    BY <1>3, <2>1, HeadTail DEF Publish, Shapes
  <2>3. UNCHANGED <<phase, opsLeft, unanswered>> /\ Len(queue') <= Cap
    BY <1>1, <1>3 DEF Publish, engineVars, bounds
  <2>4. \A u \in Threads : Len(todo[u]) \in Nat
    BY LengthNumbers
  <2>5. \A u \in Threads : Len(todo'[u]) <= Len(todo[u])
    BY <2>2, <2>4
  <2>6. /\ Len(todo'["op"]) <= Len(todo["op"]) /\ Len(todo'["worker"]) <= Len(todo["worker"])
        /\ Len(todo'["loader"]) <= Len(todo["loader"])
    BY <1>0, <2>5
  <2>. QED  BY <1>0, <2>3, <2>6, RoomStep
<1>4. CASE Deliver \/ Break \/ Reconnect
  <2>1. UNCHANGED <<todo, phase, opsLeft, unanswered>>
    BY <1>4 DEF Deliver, Break, Reconnect, engineVars, bounds
  <2>2. Len(queue') <= Cap
    <3>1. CASE Deliver
      <4>1. Len(queue') = Len(queue) - 1
        BY <3>1, HeadTail DEF Deliver, Shapes
      <4>. QED  BY <1>0, <1>a, <4>1
    <3>2. CASE Break \/ Reconnect
      <4>1. queue' = << >>
        BY <3>2 DEF Break, Reconnect
      <4>. QED  BY <1>0, <1>b, <4>1
    <3>. QED  BY <1>4, <3>1, <3>2
  <2>. QED  BY <1>0, <2>1, <2>2, RoomStep
<1>5. CASE Restart
  <2>1. /\ queue' = << >> /\ todo'["op"] = << >> /\ todo'["worker"] = << >> /\ todo'["loader"] = << >>
        /\ opsLeft' = opsLeft /\ unanswered' = {}
    BY <1>0, <1>5 DEF Restart
  <2>2. Cardinality(unanswered') = 0
    BY <2>1, FS_EmptySet
  <2>3. /\ Len(queue') <= Cap /\ Len(todo'["op"]) <= Len(todo["op"]) /\ Len(todo'["worker"]) <= Len(todo["worker"])
        /\ Len(todo'["loader"]) = 0
    BY <1>0, <1>b, <2>1
  <2>4. Cardinality(unanswered') <= Cardinality(unanswered) /\ Cardinality(unanswered') \in Nat
    BY <1>0, <2>2
  <2>. QED  BY <1>0, <2>1, <2>3, <2>4, RoomStep
<1>6. CASE UNCHANGED <<queue, todo, phase, opsLeft, unanswered>>
  BY <1>6 DEF Lengths
<1>7. CASE NoteAction \/ DiscardNote \/ FailNote \/ LoadEnds \/ \E n \in Notes : Answer(n)
  BY <1>7, EngineLengths
<1>8. \/ UNCHANGED <<queue, todo, phase, opsLeft, unanswered>>
      \/ NoteAction \/ DiscardNote \/ FailNote \/ (\E n \in Notes : Answer(n)) \/ LoadEnds \/ Level
      \/ (\E t \in Threads : Publish(t)) \/ Deliver \/ Break \/ Reconnect \/ Restart \/ Cleaning
  BY DEF StreamNext, NoteAction, Cleaning, Serve, Wire, Connect, Poll, Watchdog, Accept, Headers, StreamEnds, Respond,
     Apply, engineVars, brokerVars, bounds
<1>9. CASE Cleaning
  BY <1>6, <1>9, CleaningMeans
<1>. QED  BY <1>2, <1>3, <1>4, <1>5, <1>6, <1>7, <1>8, <1>9

LEMMA StreamTypes ==
  ASSUME Shapes, Counts, Lengths
  PROVE  StreamTypeOK
<1>1. notes \in 0 .. MaxOps + 1
  BY StreamAssumption DEF Counts
<1>2. conn \in 0 .. Cardinality(Conns)
  <2>1. Cardinality(Conns) = 1 + MaxBreaks + MaxRestarts
    BY FS_Interval, StreamAssumption DEF Conns
  <2>. QED  BY <2>1, StreamAssumption DEF Counts
<1>3. ASSUME NEW q, NEW o \in Nat, NEW w \in Nat, NEW ld \in Nat, NEW ops \in Nat, NEW open \in Nat, NEW p,
             Room(q, o, w, ld, ops, open, p)
      PROVE  q <= Cap /\ o <= 1 + 3 * MaxOps /\ w <= 1 + 3 * MaxOps /\ ld <= 1 + 3 * MaxOps
  <2>1. MaxOps \in Nat
    BY StreamAssumption
  <2>2. o <= 1 + 3 * MaxOps
    BY <1>3, <2>1 DEF Room
  <2>3. w <= 1 + 3 * MaxOps
    BY <1>3, <2>1 DEF Room
  <2>4. ld <= 1 + 3 * MaxOps
    BY <1>3, <2>1 DEF Room
  <2>. QED  BY <1>3, <2>2, <2>3, <2>4 DEF Room
<1>4. /\ Len(queue) <= Cap /\ Len(todo["op"]) <= 1 + 3 * MaxOps /\ Len(todo["worker"]) <= 1 + 3 * MaxOps
      /\ Len(todo["loader"]) <= 1 + 3 * MaxOps
  BY <1>3, LengthNumbers DEF Lengths
<1>5. \A t \in Threads : Len(todo[t]) <= 1 + 3 * MaxOps
  BY <1>4 DEF Threads
<1>6. ui.note \in {"off", "on", "paused"} /\ ui.saved \subseteq Notes /\ ui.view \in {"none", "processing", "expanded"}
  BY DEF Shapes, Screens
<1>. QED  BY <1>1, <1>2, <1>4, <1>5, <1>6 DEF StreamTypeOK, Shapes

-----------------------------------------------------------------------------
(* What is on its way to the window                                          *)

Has(s) == {s[k] : k \in DOMAIN s}
Rec(e) == e.type = "note-recording"
Ok(e, n) == e.type = "note" /\ e.value = "ok" /\ e.n = n
IsOutcome(e, n) == e.type = "note" /\ e.n = n
IsEnd(e, n) == Rec(e) /\ e.value = "off" /\ e.n = n

Mentions(s) == \E e \in Has(s) : Rec(e)
\* The last recording event of s has the value v.
LastIs(s, v) == \E k \in DOMAIN s : /\ Rec(s[k]) /\ Value(s[k]) = v
                                    /\ \A j \in DOMAIN s : j > k => ~Rec(s[j])
\* No end of the note n after its outcome.
Ordered(s, n) == \A k, j \in DOMAIN s : k < j /\ IsOutcome(s[k], n) => ~IsEnd(s[j], n)

LEMMA Appended ==
  ASSUME NEW s \in Seq(Events), NEW e \in Events
  PROVE  /\ Has(Append(s, e)) = Has(s) \union {e}
         /\ \A v : Rec(e) /\ Value(e) = v => LastIs(Append(s, e), v)
         /\ \A v : ~Rec(e) /\ LastIs(s, v) => LastIs(Append(s, e), v)
         /\ \A n : Ordered(s, n) /\ (IsEnd(e, n) => \A f \in Has(s) : ~IsOutcome(f, n)) => Ordered(Append(s, e), n)
<1>. DEFINE a == Append(s, e)
<1>1. /\ Len(s) \in Nat /\ DOMAIN s = 1 .. Len(s) /\ DOMAIN a = 1 .. Len(s) + 1
      /\ a[Len(s) + 1] = e /\ \A k \in DOMAIN s : a[k] = s[k]
  OBVIOUS
<1>. HIDE DEF a
<1>2. \A k \in DOMAIN a : k \in DOMAIN s \/ k = Len(s) + 1
  BY <1>1
<1>3. Len(s) + 1 \in DOMAIN a /\ \A k \in DOMAIN s : k \in DOMAIN a /\ k < Len(s) + 1 /\ ~(Len(s) + 1 < k)
  BY <1>1
<1>4. Has(a) = Has(s) \union {e}
  BY <1>1, <1>2, <1>3 DEF Has
<1>5. ASSUME NEW v, Rec(e), Value(e) = v PROVE LastIs(a, v)
  <2>1. \A j \in DOMAIN a : ~(j > Len(s) + 1)
    BY <1>1
  <2>. QED  BY <1>1, <1>3, <1>5, <2>1 DEF LastIs
<1>6. ASSUME NEW v, ~Rec(e), LastIs(s, v) PROVE LastIs(a, v)
  <2>1. PICK k \in DOMAIN s : Rec(s[k]) /\ Value(s[k]) = v /\ \A j \in DOMAIN s : j > k => ~Rec(s[j])
    BY <1>6 DEF LastIs
  <2>2. k \in DOMAIN a /\ a[k] = s[k] /\ \A j \in DOMAIN a : j > k => ~Rec(a[j])
    BY <1>1, <1>2, <1>3, <1>6, <2>1
  <2>. QED  BY <2>1, <2>2 DEF LastIs
<1>7. ASSUME NEW n, Ordered(s, n), IsEnd(e, n) => \A f \in Has(s) : ~IsOutcome(f, n) PROVE Ordered(a, n)
  <2>1. SUFFICES ASSUME NEW k \in DOMAIN a, NEW j \in DOMAIN a, k < j, IsOutcome(a[k], n) PROVE ~IsEnd(a[j], n)
    BY DEF Ordered
  <2>2. k \in DOMAIN s
    BY <1>1, <2>1
  <2>3. CASE j \in DOMAIN s
    BY <1>1, <1>7, <2>1, <2>2, <2>3 DEF Ordered
  <2>4. CASE j = Len(s) + 1
    BY <1>1, <1>7, <2>1, <2>2, <2>4 DEF Has
  <2>. QED  BY <1>2, <2>3, <2>4
<1>8. a = Append(s, e)
  BY DEF a
<1>. QED  BY <1>4, <1>5, <1>6, <1>7, <1>8

LEMMA Taken ==
  ASSUME NEW s \in Seq(Events), s # << >>
  PROVE  /\ Has(s) = Has(Tail(s)) \union {Head(s)}
         /\ \A v : LastIs(s, v) => \/ LastIs(Tail(s), v)
                                   \/ Rec(Head(s)) /\ Value(Head(s)) = v /\ ~Mentions(Tail(s))
         /\ \A n : Ordered(s, n) => /\ Ordered(Tail(s), n)
                                    /\ IsOutcome(Head(s), n) => \A e \in Has(Tail(s)) : ~IsEnd(e, n)
<1>. DEFINE a == Tail(s)
<1>1. /\ Len(s) \in Nat /\ Len(s) >= 1 /\ DOMAIN s = 1 .. Len(s) /\ DOMAIN a = 1 .. Len(s) - 1
      /\ Head(s) = s[1] /\ \A k \in DOMAIN a : a[k] = s[k + 1]
  OBVIOUS
<1>. HIDE DEF a
<1>2. \A k \in DOMAIN a : k + 1 \in DOMAIN s /\ k + 1 > 1
  BY <1>1
<1>3. 1 \in DOMAIN s /\ \A k \in DOMAIN s : k = 1 \/ (k - 1 \in DOMAIN a /\ a[k - 1] = s[k])
  BY <1>1
<1>4. Has(s) = Has(a) \union {Head(s)}
  <2>1. \A k \in DOMAIN s : s[k] = Head(s) \/ s[k] \in Has(a)
    BY <1>1, <1>3 DEF Has
  <2>2. \A k \in DOMAIN a : a[k] \in Has(s)
    BY <1>1, <1>2 DEF Has
  <2>3. Head(s) \in Has(s)
    BY <1>1, <1>3 DEF Has
  <2>. QED  BY <2>1, <2>2, <2>3 DEF Has
<1>5. ASSUME NEW v, LastIs(s, v) PROVE LastIs(a, v) \/ (Rec(Head(s)) /\ Value(Head(s)) = v /\ ~Mentions(a))
  <2>1. PICK k \in DOMAIN s : Rec(s[k]) /\ Value(s[k]) = v /\ \A j \in DOMAIN s : j > k => ~Rec(s[j])
    BY <1>5 DEF LastIs
  <2>2. CASE k = 1
    BY <1>1, <1>2, <2>1, <2>2 DEF Mentions, Has
  <2>3. CASE k - 1 \in DOMAIN a /\ a[k - 1] = s[k]
    <3>1. \A j \in DOMAIN a : j > k - 1 => ~Rec(a[j])
      BY <1>1, <1>2, <2>1
    <3>. QED  BY <2>1, <2>3, <3>1 DEF LastIs
  <2>. QED  BY <1>3, <2>2, <2>3
<1>6. ASSUME NEW n, Ordered(s, n) PROVE Ordered(a, n) /\ (IsOutcome(Head(s), n) => \A e \in Has(a) : ~IsEnd(e, n))
  <2>1. \A k, j \in DOMAIN a : k < j => k + 1 < j + 1
    BY <1>1
  <2>2. Ordered(a, n)
    BY <1>1, <1>2, <1>6, <2>1 DEF Ordered
  <2>3. ASSUME IsOutcome(Head(s), n), NEW j \in DOMAIN a PROVE ~IsEnd(a[j], n)
    <3>1. 1 < j + 1 /\ j + 1 \in DOMAIN s /\ a[j] = s[j + 1]
      BY <1>1, <1>2
    <3>. QED  BY <1>1, <1>3, <1>6, <2>3, <3>1 DEF Ordered
  <2>. QED  BY <2>2, <2>3 DEF Has
<1>7. a = Tail(s)
  BY DEF a
<1>. QED  BY <1>4, <1>5, <1>6, <1>7

LEMMA Joined ==
  ASSUME NEW s \in Seq(Events), NEW t \in Seq(Events)
  PROVE  Has(s \o t) = Has(s) \union Has(t)
<1>. DEFINE a == s \o t
<1>1. /\ Len(s) \in Nat /\ Len(t) \in Nat /\ DOMAIN s = 1 .. Len(s) /\ DOMAIN t = 1 .. Len(t)
      /\ DOMAIN a = 1 .. Len(s) + Len(t)
      /\ \A k \in DOMAIN a : a[k] = IF k <= Len(s) THEN s[k] ELSE t[k - Len(s)]
  OBVIOUS
<1>. HIDE DEF a
<1>2. \A k \in DOMAIN a : a[k] \in Has(s) \union Has(t)
  <2>1. SUFFICES ASSUME NEW k \in DOMAIN a PROVE a[k] \in Has(s) \union Has(t)
    OBVIOUS
  <2>2. CASE k <= Len(s)
    BY <1>1, <2>2 DEF Has
  <2>3. CASE ~(k <= Len(s))
    <3>1. k - Len(s) \in DOMAIN t /\ a[k] = t[k - Len(s)]
      BY <1>1, <2>3
    <3>. QED  BY <3>1 DEF Has
  <2>. QED  BY <2>2, <2>3
<1>3. \A k \in DOMAIN s : k \in DOMAIN a /\ a[k] = s[k]
  BY <1>1
<1>4. \A k \in DOMAIN t : k + Len(s) \in DOMAIN a /\ a[k + Len(s)] = t[k]
  <2>1. SUFFICES ASSUME NEW k \in DOMAIN t PROVE k + Len(s) \in DOMAIN a /\ a[k + Len(s)] = t[k]
    OBVIOUS
  <2>2. k + Len(s) \in DOMAIN a /\ ~(k + Len(s) <= Len(s)) /\ k + Len(s) - Len(s) = k
    BY <1>1
  <2>. QED  BY <1>1, <2>2
<1>5. Has(a) = Has(s) \union Has(t)
  BY <1>2, <1>3, <1>4 DEF Has
<1>. QED  BY <1>5 DEF a

LEMMA HasNone ==
  /\ Has(<< >>) = {} /\ \A v : ~LastIs(<< >>, v) /\ \A n : Ordered(<< >>, n)
<1>1. DOMAIN << >> = {}
  OBVIOUS
<1>. QED  BY <1>1 DEF Has, LastIs, Ordered

LEMMA HasMade ==
  /\ \A e : Has(<<e>>) = {e}
  /\ \A e, f : Has(<<e, f>>) = {e, f}
  /\ \A e, f, g : Has(<<e, f, g>>) = {e, f, g}
<1>1. ASSUME NEW e PROVE Has(<<e>>) = {e}
  <2>1. DOMAIN <<e>> = {1} /\ <<e>>[1] = e
    OBVIOUS
  <2>. QED  BY <2>1 DEF Has
<1>2. ASSUME NEW e, NEW f PROVE Has(<<e, f>>) = {e, f}
  <2>1. DOMAIN <<e, f>> = {1, 2} /\ <<e, f>>[1] = e /\ <<e, f>>[2] = f
    OBVIOUS
  <2>. QED  BY <2>1 DEF Has
<1>3. ASSUME NEW e, NEW f, NEW g PROVE Has(<<e, f, g>>) = {e, f, g}
  <2>1. DOMAIN <<e, f, g>> = {1, 2, 3} /\ <<e, f, g>>[1] = e /\ <<e, f, g>>[2] = f /\ <<e, f, g>>[3] = g
    OBVIOUS
  <2>. QED  BY <2>1 DEF Has
<1>. QED  BY <1>1, <1>2, <1>3

\* The events of the threads after they are told of others, and after one of
\* them publishes its first.
LEMMA TellAdds ==
  ASSUME Shapes, NEW t \in Threads, NEW facts, NEW events \in Seq(Events), NEW request,
         Tell(t, facts, events, request)
  PROVE  /\ ~wired => todo' = todo
         /\ wired => \A u \in Threads : Has(todo'[u]) = Has(todo[u]) \union (IF u = t THEN Has(events) ELSE {})
<1>1. todo[t] \in Seq(Events)
  BY DEF Shapes
<1>2. Has(todo[t] \o events) = Has(todo[t]) \union Has(events)
  BY <1>1, Joined
<1>3. ~wired => todo' = todo
  BY DEF Tell, Shapes
<1>. QED  BY <1>2, <1>3 DEF Tell, Shapes

LEMMA PublishTakes ==
  ASSUME Shapes, NEW t \in Threads, Publish(t), NEW e, e = Head(todo[t])
  PROVE  /\ e \in Events /\ todo[t] # << >>
         /\ \E late \in {{}, {"note"}} : Broadcast(e, late) /\ (Late(e) => late = {"note"})
         /\ Has(todo[t]) = Has(todo'[t]) \union {e}
         /\ \A u \in Threads : u # t => todo'[u] = todo[u]
<1>1. todo[t] \in Seq(Events) /\ todo[t] # << >> /\ todo'[t] = Tail(todo[t])
  BY DEF Shapes, Publish
<1>2. e \in Events
  BY <1>1, HeadTail
<1>3. Has(todo[t]) = Has(todo'[t]) \union {e}
  BY <1>1, Taken
<1>4. Broadcast(e, IF Late(e) THEN {"note"} ELSE {})
  BY DEF Publish
<1>. QED  BY <1>1, <1>2, <1>3, <1>4 DEF Publish, Shapes

LEMMA SettledMeans ==
  Settled <=> ~Mentions(todo["op"])
  BY DEF Settled, Telling, Mentions, Has, Rec

LEMMA UntoldMeans ==
  /\ Untold <=> \E t \in Threads : Mentions(todo[t])
  /\ Untold' <=> \E t \in Threads : Mentions(todo'[t])
  BY DEF Untold, Telling, Mentions, Has, Rec

-----------------------------------------------------------------------------
(* What failures tell beside the operations                                  *)

\* An operation tells of the note as it is, unless a failure crossed it; only
\* failures tell beside the operations; a microphone left open is of a note that
\* failed.
Failures ==
  /\ \A e \in Has(todo["op"]) : Rec(e) => (Value(e) = note /\ e.n = notes) \/ e.n \in crossed
  /\ \A t \in Threads : t # "op" => \A e \in Has(todo[t]) : Rec(e) => e.n \in crossed /\ e.n \in early
  /\ mic /\ note = "off" => notes \in early

LEMMA FailuresFrame ==
  ASSUME Failures, notes' = notes, crossed \subseteq crossed', early \subseteq early', (mic' => mic),
         note' = note \/ (notes \in crossed' /\ note' # "off"),
         \A t \in Threads : \A e \in Has(todo'[t]) : Rec(e) => e \in Has(todo[t])
  PROVE  Failures'
<1>1. "op" \in Threads
  BY DEF Threads
<1>. QED  BY <1>1 DEF Failures

\* An operation, from a settled state.
LEMMA FailuresOp ==
  ASSUME Shapes, Failures, Settled, NEW events \in Seq(Events), NEW facts, NEW request,
         Tell("op", facts, events, request), UNCHANGED <<crossed, early>>, mic' = (note' = "on"),
         \A e \in Has(events) : Rec(e) => Value(e) = note' /\ e.n = notes'
  PROVE  Failures'
<1>1. "op" \in Threads
  BY DEF Threads
<1>2. /\ ~wired => todo' = todo
      /\ wired => \A u \in Threads : Has(todo'[u]) = Has(todo[u]) \union (IF u = "op" THEN Has(events) ELSE {})
  BY <1>1, TellAdds
<1>3. \A e \in Has(todo["op"]) : ~Rec(e)
  BY SettledMeans DEF Mentions
<1>4. \A e \in Has(todo'["op"]) : Rec(e) => Value(e) = note' /\ e.n = notes'
  BY <1>1, <1>2, <1>3
<1>5. \A t \in Threads : t # "op" => Has(todo'[t]) = Has(todo[t])
  BY <1>2
<1>. QED  BY <1>4, <1>5 DEF Failures

\* A thread is told of events that do not concern the recording.
LEMMA FailuresTell ==
  ASSUME Shapes, Failures, NEW t \in Threads, NEW events \in Seq(Events), NEW facts, NEW request,
         Tell(t, facts, events, request), UNCHANGED <<note, notes, mic, crossed>>, early \subseteq early',
         \A e \in Has(events) : ~Rec(e)
  PROVE  Failures'
<1>1. /\ ~wired => todo' = todo
      /\ wired => \A u \in Threads : Has(todo'[u]) = Has(todo[u]) \union (IF u = t THEN Has(events) ELSE {})
  BY TellAdds
<1>2. \A u \in Threads : \A e \in Has(todo'[u]) : Rec(e) => e \in Has(todo[u])
  BY <1>1
<1>. QED  BY <1>2, FailuresFrame

LEMMA FailuresStep ==
  ASSUME Shapes, Counts, Failures, StreamNext
  PROVE  Failures'
<1>0. "op" \in Threads /\ "worker" \in Threads /\ "loader" \in Threads
  BY DEF Threads
<1>1. CASE NoteAction
  <2>1. PICK by \in {"window", "silence"}, v \in {"on", "paused", "off"} : Op(by, v, notes') /\ notes' \in Notes
    BY <1>1, NoteActionIsOp
  <2>. DEFINE e == Recording(v, notes')
  <2>2. <<e>> \in Seq(Events) /\ Has(<<e>>) = {e}
    BY <2>1, MadeEvents, EventSeqs, HasMade DEF Noted
  <2>3. Value(e) = note' /\ e.n = notes'
    BY <2>1 DEF Value, Recording, Event, Op
  <2>4. /\ Settled /\ Tell("op", {"note"}, <<e>>, Asks(by)) /\ UNCHANGED <<crossed, early>>
        /\ mic' = (note' = "on")
    BY <2>1 DEF Op
  <2>. HIDE DEF e
  <2>. QED  BY <2>2, <2>3, <2>4, FailuresOp
<1>2. CASE DiscardNote
  <2>. DEFINE es == <<Recording("discarded", notes), Stale(notes)>>
  <2>1. notes \in Notes
    BY <1>2, NoteNumber DEF DiscardNote
  <2>2. es \in Seq(Events) /\ Has(es) = {Recording("discarded", notes), Stale(notes)}
    BY <2>1, MadeEvents, EventSeqs, HasMade DEF Noted
  <2>3. Value(Recording("discarded", notes)) = "off" /\ Recording("discarded", notes).n = notes /\ ~Rec(Stale(notes))
    BY DEF Rec, Value, Recording, Stale, Event
  <2>4. /\ Settled /\ Tell("op", {"note"}, es, Request("discard")) /\ UNCHANGED <<notes, crossed, early>>
        /\ note' = "off" /\ mic' = (note' = "on")
    BY <1>2 DEF DiscardNote
  <2>. HIDE DEF es
  <2>5. \A e \in Has(es) : Rec(e) => Value(e) = note' /\ e.n = notes'
    BY <2>2, <2>3, <2>4
  <2>. QED  BY <2>2, <2>4, <2>5, FailuresOp
<1>3. CASE FailNote
  <2>. DEFINE es == <<Stale(notes), Outcome("failed", notes), Recording("off", notes)>>
  <2>1. notes \in Notes
    BY <1>3, NoteNumber DEF FailNote
  <2>2. es \in Seq(Events) /\ Has(es) = {Stale(notes), Outcome("failed", notes), Recording("off", notes)}
    BY <2>1, MadeEvents, EventSeqs, HasMade DEF Noted
  <2>3. Recording("off", notes).n = notes /\ ~Rec(Stale(notes)) /\ ~Rec(Outcome("failed", notes))
    BY DEF Rec, Recording, Outcome, Stale, Event
  <2>4. /\ Tell("worker", {"note"}, es, {}) /\ notes' = notes /\ mic' = mic
        /\ early' = early \union {notes} /\ crossed' = crossed \union {notes}
    BY <1>3 DEF FailNote
  <2>. HIDE DEF es
  <2>5. /\ ~wired => todo' = todo
        /\ wired => \A u \in Threads : Has(todo'[u]) = Has(todo[u]) \union (IF u = "worker" THEN Has(es) ELSE {})
    BY <1>0, <2>2, <2>4, TellAdds
  <2>6. \A e \in Has(es) : Rec(e) => e.n = notes
    BY <2>2, <2>3
  <2>7. \A u \in Threads : \A e \in Has(todo'[u]) : e \in Has(todo[u]) \/ (u = "worker" /\ e \in Has(es))
    BY <2>5
  <2>8. \A e \in Has(todo'["op"]) : Rec(e) => e.n \in crossed'
    BY <1>0, <2>4, <2>7 DEF Failures
  <2>9. \A t \in Threads : t # "op" => \A e \in Has(todo'[t]) : Rec(e) => e.n \in crossed' /\ e.n \in early'
    BY <2>4, <2>6, <2>7 DEF Failures
  <2>. QED  BY <2>4, <2>8, <2>9 DEF Failures
<1>4. CASE LoadEnds
  <2>. DEFINE es == <<Event("model", phase', 0)>>
  <2>1. es \in Seq(Events) /\ Has(es) = {Event("model", phase', 0)}
    BY <1>4, MadeEvents, EventSeqs, HasMade DEF LoadEnds
  <2>2. ~Rec(Event("model", phase', 0))
    BY DEF Rec, Event
  <2>3. Tell("loader", {}, es, {}) /\ UNCHANGED <<note, notes, mic, crossed, early>>
    BY <1>4 DEF LoadEnds
  <2>. HIDE DEF es
  <2>. QED  BY <1>0, <2>1, <2>2, <2>3, FailuresTell
<1>5. ASSUME NEW n \in Notes, Answer(n)
      PROVE  Failures'
  <2>1. UNCHANGED <<note, notes, mic, crossed>> /\ early \subseteq early'
    BY <1>5 DEF Answer
  <2>2. ~Rec(Changed(n)) /\ ~Rec(Stale(n)) /\ \A v : ~Rec(Outcome(v, n))
    BY DEF Rec, Changed, Stale, Outcome, Event
  <2>3. /\ <<Changed(n), Outcome("ok", n)>> \in Seq(Events)
        /\ <<Outcome("empty", n)>> \in Seq(Events)
        /\ <<Stale(n), Outcome("failed", n)>> \in Seq(Events)
    BY MadeEvents, EventSeqs
  <2>4. /\ \A e \in Has(<<Changed(n), Outcome("ok", n)>>) : ~Rec(e)
        /\ \A e \in Has(<<Outcome("empty", n)>>) : ~Rec(e)
        /\ \A e \in Has(<<Stale(n), Outcome("failed", n)>>) : ~Rec(e)
    BY <2>2, HasMade
  <2>5. ASSUME NEW facts, NEW events \in Seq(Events), Tell("worker", facts, events, {}),
               \A e \in Has(events) : ~Rec(e)
        PROVE  Failures'
    BY <1>0, <2>1, <2>5, FailuresTell
  <2>6. \/ Tell("worker", {"history"}, <<Changed(n), Outcome("ok", n)>>, {})
        \/ Tell("worker", {}, <<Outcome("empty", n)>>, {})
        \/ Tell("worker", {}, <<Stale(n), Outcome("failed", n)>>, {})
    BY <1>5 DEF Answer
  <2>7. CASE Tell("worker", {"history"}, <<Changed(n), Outcome("ok", n)>>, {})
    BY <2>3, <2>4, <2>5, <2>7
  <2>8. CASE Tell("worker", {}, <<Outcome("empty", n)>>, {})
    BY <2>3, <2>4, <2>5, <2>8
  <2>9. CASE Tell("worker", {}, <<Stale(n), Outcome("failed", n)>>, {})
    BY <2>3, <2>4, <2>5, <2>9
  <2>. QED  BY <2>6, <2>7, <2>8, <2>9
<1>6. ASSUME NEW t \in Threads, Publish(t)
      PROVE  Failures'
  <2>1. UNCHANGED <<note, notes, mic, crossed, early>>
    BY <1>6 DEF Publish, engineVars
  <2>2. \A u \in Threads : Has(todo'[u]) \subseteq Has(todo[u])
    BY <1>6, PublishTakes
  <2>. QED  BY <2>1, <2>2, FailuresFrame
<1>7. CASE Restart
  <2>1. (\A t \in Threads : todo'[t] = << >>) /\ mic' = FALSE
    BY <1>7 DEF Restart
  <2>2. \A t \in Threads : Has(todo'[t]) = {}
    BY <2>1, HasNone
  <2>. QED  BY <1>0, <2>1, <2>2 DEF Failures
<1>8. CASE Cleaning
  <2>1. UNCHANGED <<notes, todo, early>>
    BY <1>8, CleaningMeans
  <2>2. mic' => mic
    BY <1>8, CleaningCloses
  <2>3. \/ UNCHANGED <<note, crossed>>
        \/ note' = "on" /\ crossed' = crossed \union {notes}
    BY <1>8, CleaningMeans
  <2>4. crossed \subseteq crossed' /\ (note' = note \/ (notes \in crossed' /\ note' # "off"))
    BY <2>3
  <2>. QED  BY <2>1, <2>2, <2>4, FailuresFrame
<1>9. CASE UNCHANGED <<note, notes, mic, crossed, early, todo>>
  BY <1>9, FailuresFrame
<1>10. \/ UNCHANGED <<note, notes, mic, crossed, early, todo>>
       \/ NoteAction \/ DiscardNote \/ FailNote \/ (\E n \in Notes : Answer(n)) \/ LoadEnds
       \/ (\E t \in Threads : Publish(t)) \/ Restart \/ Cleaning
  BY DEF StreamNext, NoteAction, Cleaning, Serve, Wire, Level, Connect, Break, Reconnect, Poll, Watchdog, Deliver, Accept,
         Headers, StreamEnds, Respond, Apply, engineVars, history
<1>. QED  BY <1>1, <1>2, <1>3, <1>4, <1>5, <1>6, <1>7, <1>8, <1>9, <1>10

-----------------------------------------------------------------------------
(* How the stream of the window hangs together                               *)

Wiring ==
  /\ queue # << >> => Held
  /\ ~wired => queue = << >> /\ \A t \in Threads : todo[t] = << >>
  /\ link = "open" => conn \in subs /\ opened
  /\ link = "waiting" => conn = 0

LEMMA WiringStep ==
  ASSUME Shapes, Counts, Wiring, StreamNext
  PROVE  Wiring'
<1>1. CASE NoteAction
  <2>1. PICK by \in {"window", "silence"}, v \in {"on", "paused", "off"} : Op(by, v, notes')
    BY <1>1, NoteActionIsOp
  <2>2. UNCHANGED <<queue, link, conn, subs, opened, wired>> /\ (~wired => todo' = todo)
    BY <2>1 DEF Op, Tell, Shapes, brokerVars
  <2>. QED  BY <2>2 DEF Wiring, Held
<1>2. CASE DiscardNote \/ FailNote \/ LoadEnds \/ \E n \in Notes : Answer(n)
  <2>1. UNCHANGED <<queue, link, conn, subs, opened, wired>>
    BY <1>2 DEF DiscardNote, FailNote, LoadEnds, Answer, brokerVars
  <2>2. \E t, facts, events, r : Tell(t, facts, events, r)
    BY <1>2 DEF DiscardNote, FailNote, LoadEnds, Answer
  <2>3. ~wired => todo' = todo
    BY <2>2 DEF Tell, Shapes
  <2>. QED  BY <2>1, <2>3 DEF Wiring, Held
<1>3. ASSUME NEW e, NEW late, Broadcast(e, late), UNCHANGED <<link, conn, subs, opened, wired>>, wired
      PROVE  Wiring'
  BY <1>3 DEF Broadcast, Wiring, Held
<1>4. CASE Level
  BY <1>3, <1>4 DEF Level, engineVars
<1>5. ASSUME NEW t \in Threads, Publish(t)
      PROVE  Wiring'
  <2>1. wired
    BY <1>5 DEF Publish, Wiring
  <2>. QED  BY <1>3, <1>5, <2>1 DEF Publish, engineVars
<1>6. CASE Deliver
  <2>1. UNCHANGED <<link, conn, subs, opened, wired>> /\ Held /\ queue # << >>
    BY <1>6 DEF Deliver, engineVars
  <2>2. wired
    BY <2>1 DEF Wiring
  <2>. QED  BY <2>1, <2>2 DEF Wiring, Held
<1>7. CASE Wire
  BY <1>7 DEF Wire, Wiring, Held, brokerVars, windowVars
<1>8. CASE Restart
  BY <1>8 DEF Restart, Wiring, Held
<1>9. ASSUME NEW c \in Conns, Accept(c) \/ StreamEnds(c)
      PROVE  Wiring'
  BY <1>9 DEF Accept, StreamEnds, Gone, Wiring, Held, engineVars, windowVars
<1>10. ASSUME NEW c \in Conns, Headers(c)
      PROVE  Wiring'
  <2>1. UNCHANGED <<queue, todo, subs, conn, wired>> /\ c \in subs
    BY <1>10 DEF Headers, engineVars
  <2>2. c # 0
    BY StreamAssumption DEF Conns
  <2>3. \/ UNCHANGED <<link, opened>>
        \/ link' = "open" /\ opened' = TRUE /\ c = conn /\ link # "down"
    BY <1>10 DEF Headers, Opens, Gone
  <2>. QED  BY <2>1, <2>2, <2>3 DEF Wiring, Held
<1>11. CASE Break \/ Reconnect
  BY <1>11 DEF Break, Reconnect, Wiring, Held, engineVars
<1>12. CASE Connect
  <2>1. queue = << >>
    BY <1>12 DEF Connect, Wiring, Held
  <2>. QED  BY <1>12, <2>1 DEF Connect, Wiring, Held, engineVars
<1>13. CASE UNCHANGED <<queue, todo, wired, link, conn, subs, opened>>
  BY <1>13 DEF Wiring, Held
<1>14. \/ UNCHANGED <<queue, todo, wired, link, conn, subs, opened>>
       \/ NoteAction \/ DiscardNote \/ FailNote \/ (\E n \in Notes : Answer(n)) \/ LoadEnds \/ Level
       \/ (\E t \in Threads : Publish(t)) \/ Deliver \/ Break \/ Reconnect \/ Restart \/ Wire \/ Connect
       \/ Cleaning \/ \E c \in Conns : Accept(c) \/ Headers(c) \/ StreamEnds(c)
  BY DEF StreamNext, NoteAction, Cleaning, Serve, Poll, Watchdog, Respond, Apply, engineVars, brokerVars, bounds,
         windowVars
<1>15. CASE Cleaning
  BY <1>13, <1>15, CleaningMeans
<1>. QED  BY <1>1, <1>2, <1>4, <1>5, <1>6, <1>7, <1>8, <1>9, <1>10, <1>11, <1>12, <1>13, <1>14, <1>15

-----------------------------------------------------------------------------
(* The note the window shows                                                 *)

ForNote == {"state", "op", "discard"}
\* The window asks for the state when it first connects and after a break.
WillAsk == link = "waiting" \/ (opened /\ link # "open")
AsksNote == \E r \in requests : r.for \in ForNote
NoteComes == Untold \/ LastIs(queue, note)

NoteQueued == "note" \in astray \/ NoteComes \/ ~Mentions(queue)
NoteFollowed == "note" \in astray \/ WillAsk \/ AsksNote \/ NoteComes \/ (~Mentions(queue) /\ ui.note = note)
NoteAnswered == \A r \in requests : r.snap # NoSnap /\ r.for \in ForNote /\ "note" \notin r.old =>
                  r.snap.note = note \/ Untold \/ Mentions(queue)
NoteI == NoteQueued /\ NoteFollowed /\ NoteAnswered

LEMMA NoteFrame ==
  ASSUME NoteI, note' = note, ui'.note = ui.note, Untold => Untold',
         LastIs(queue, note) => LastIs(queue', note), Mentions(queue') <=> Mentions(queue),
         "note" \in astray => "note" \in astray', Succeeds(requests, requests'),
         WillAsk => WillAsk' \/ AsksNote'
  PROVE  NoteI'
<1>1. NoteComes => NoteComes'
  BY DEF NoteComes
<1>2. NoteQueued'
  BY <1>1 DEF NoteI, NoteQueued
<1>3. AsksNote => AsksNote'
  BY DEF Succeeds, AsksNote, ForNote
<1>4. NoteFollowed'
  BY <1>1, <1>3 DEF NoteI, NoteFollowed
<1>5. ASSUME NEW q \in requests', q.snap # NoSnap, q.for \in ForNote, "note" \notin q.old
      PROVE  q.snap.note = note' \/ Untold' \/ Mentions(queue')
  <2>1. PICK r \in requests : r.for = q.for /\ r.snap = q.snap /\ r.old \subseteq q.old
    BY <1>5 DEF Succeeds
  <2>2. r.snap.note = note \/ Untold \/ Mentions(queue)
    BY <1>5, <2>1 DEF NoteI, NoteAnswered
  <2>. QED  BY <2>1, <2>2
<1>6. NoteAnswered'
  BY <1>5 DEF NoteAnswered
<1>. QED  BY <1>2, <1>4, <1>6 DEF NoteI

\* The note changed, and the window is to be told of it or was never to be.
LEMMA NoteChanged ==
  ASSUME Shapes, NoteI, NEW t \in Threads, NEW events \in Seq(Events), NEW for,
         Tell(t, {"note"}, events, {}) \/ Tell(t, {"note"}, events, Request(for)),
         Mentions(events)
  PROVE  NoteI'
<1>2. PICK request : Tell(t, {"note"}, events, request)
  OBVIOUS
<1>3. /\ ~wired => todo' = todo
      /\ wired => \A u \in Threads : Has(todo'[u]) = Has(todo[u]) \union (IF u = t THEN Has(events) ELSE {})
  BY <1>2, TellAdds
<1>5. CASE wired
  <2>1. Mentions(todo'[t])
    BY <1>3, <1>5 DEF Mentions
  <2>2. Untold'
    BY <2>1, UntoldMeans
  <2>. QED  BY <2>2 DEF NoteI, NoteComes, NoteQueued, NoteFollowed, NoteAnswered
<1>6. CASE ~wired
  <2>1. "note" \in astray'
    BY <1>2, <1>6 DEF Tell
  <2>2. \A q \in requests' : q.snap # NoSnap => "note" \in q.old
    BY <1>6, TellSucceeds DEF Shapes
  <2>. QED  BY <2>1, <2>2 DEF NoteI, NoteQueued, NoteFollowed, NoteAnswered
<1>. QED  BY <1>5, <1>6

\* Nothing of the note changed, nobody was told of it.
LEMMA NoteUntold ==
  ASSUME Shapes, NoteI, note' = note, NEW t \in Threads, NEW facts, NEW events \in Seq(Events),
         Tell(t, facts, events, {}), ~Mentions(events), UNCHANGED <<queue, ui, link, opened>>
  PROVE  NoteI'
<1>1. /\ ~wired => todo' = todo
      /\ wired => \A u \in Threads : Has(todo'[u]) = Has(todo[u]) \union (IF u = t THEN Has(events) ELSE {})
  BY TellAdds
<1>3. Untold => Untold'
  <2>1. ASSUME NEW u \in Threads, Mentions(todo[u]) PROVE Mentions(todo'[u])
    BY <1>1, <2>1 DEF Mentions
  <2>. QED  BY <2>1, UntoldMeans
<1>4. Succeeds(requests, requests') /\ ("note" \in astray => "note" \in astray')
  BY TellSucceeds DEF Tell, Shapes
<1>5. WillAsk => WillAsk'
  BY DEF WillAsk
<1>. QED  BY <1>3, <1>4, <1>5, NoteFrame

LEMMA NoteEngine ==
  ASSUME Shapes, Counts, NoteI,
         NoteAction \/ DiscardNote \/ FailNote \/ LoadEnds \/ \E n \in Notes : Answer(n)
  PROVE  NoteI'
<1>0. "op" \in Threads /\ "worker" \in Threads /\ "loader" \in Threads
  BY DEF Threads
<1>1. CASE NoteAction
  <2>1. PICK by \in {"window", "silence"}, v \in {"on", "paused", "off"} : Op(by, v, notes') /\ notes' \in Notes
    BY <1>1, NoteActionIsOp
  <2>2. <<Recording(v, notes')>> \in Seq(Events) /\ Has(<<Recording(v, notes')>>) = {Recording(v, notes')}
    BY <2>1, MadeEvents, EventSeqs, HasMade DEF Noted
  <2>3. Rec(Recording(v, notes'))
    BY DEF Rec, Recording, Event
  <2>4. Tell("op", {"note"}, <<Recording(v, notes')>>, {}) \/ Tell("op", {"note"}, <<Recording(v, notes')>>, Request("op"))
    BY <2>1 DEF Op, Asks
  <2>5. Mentions(<<Recording(v, notes')>>)
    BY <2>2, <2>3 DEF Mentions
  <2>. QED  BY <1>0, <2>2, <2>4, <2>5, NoteChanged
<1>2. CASE DiscardNote
  <2>. DEFINE es == <<Recording("discarded", notes), Stale(notes)>>
  <2>1. notes \in Notes
    BY <1>2, NoteNumber DEF DiscardNote
  <2>2. es \in Seq(Events) /\ Has(es) = {Recording("discarded", notes), Stale(notes)}
    BY <2>1, MadeEvents, EventSeqs, HasMade DEF Noted
  <2>3. Rec(Recording("discarded", notes))
    BY DEF Rec, Recording, Event
  <2>4. Tell("op", {"note"}, es, Request("discard"))
    BY <1>2 DEF DiscardNote
  <2>. HIDE DEF es
  <2>5. Mentions(es)
    BY <2>2, <2>3 DEF Mentions
  <2>. QED  BY <1>0, <2>2, <2>4, <2>5, NoteChanged
<1>3. CASE FailNote
  <2>. DEFINE es == <<Stale(notes), Outcome("failed", notes), Recording("off", notes)>>
  <2>1. notes \in Notes
    BY <1>3, NoteNumber DEF FailNote
  <2>2. es \in Seq(Events) /\ Has(es) = {Stale(notes), Outcome("failed", notes), Recording("off", notes)}
    BY <2>1, MadeEvents, EventSeqs, HasMade DEF Noted
  <2>3. Rec(Recording("off", notes))
    BY DEF Rec, Recording, Event
  <2>4. Tell("worker", {"note"}, es, {})
    BY <1>3 DEF FailNote
  <2>. HIDE DEF es
  <2>5. Mentions(es)
    BY <2>2, <2>3 DEF Mentions
  <2>. QED  BY <1>0, <2>2, <2>4, <2>5, NoteChanged
<1>4. CASE LoadEnds
  <2>. DEFINE es == <<Event("model", phase', 0)>>
  <2>1. es \in Seq(Events) /\ Has(es) = {Event("model", phase', 0)}
    BY <1>4, MadeEvents, EventSeqs, HasMade DEF LoadEnds
  <2>2. ~Rec(Event("model", phase', 0))
    BY DEF Rec, Event
  <2>3. Tell("loader", {}, es, {}) /\ UNCHANGED <<note, queue, ui, link, opened>>
    BY <1>4 DEF LoadEnds, brokerVars
  <2>. HIDE DEF es
  <2>4. ~Mentions(es)
    BY <2>1, <2>2 DEF Mentions
  <2>. QED  BY <1>0, <2>1, <2>3, <2>4, NoteUntold
<1>5. ASSUME NEW n \in Notes, Answer(n)
      PROVE  NoteI'
  <2>1. UNCHANGED <<note, queue, ui, link, opened>>
    BY <1>5 DEF Answer, brokerVars
  <2>2. ~Rec(Changed(n)) /\ ~Rec(Stale(n)) /\ \A v : ~Rec(Outcome(v, n))
    BY DEF Rec, Changed, Stale, Outcome, Event
  <2>3. CASE Tell("worker", {"history"}, <<Changed(n), Outcome("ok", n)>>, {})
    <3>1. <<Changed(n), Outcome("ok", n)>> \in Seq(Events) /\ Has(<<Changed(n), Outcome("ok", n)>>) = {Changed(n), Outcome("ok", n)}
      BY MadeEvents, EventSeqs, HasMade
    <3>2. ~Mentions(<<Changed(n), Outcome("ok", n)>>)
      BY <2>2, <3>1 DEF Mentions
    <3>. QED  BY <1>0, <2>1, <2>3, <3>1, <3>2, NoteUntold
  <2>4. CASE Tell("worker", {}, <<Outcome("empty", n)>>, {})
    <3>1. <<Outcome("empty", n)>> \in Seq(Events) /\ Has(<<Outcome("empty", n)>>) = {Outcome("empty", n)}
      BY MadeEvents, EventSeqs, HasMade
    <3>2. ~Mentions(<<Outcome("empty", n)>>)
      BY <2>2, <3>1 DEF Mentions
    <3>. QED  BY <1>0, <2>1, <2>4, <3>1, <3>2, NoteUntold
  <2>5. CASE Tell("worker", {}, <<Stale(n), Outcome("failed", n)>>, {})
    <3>1. <<Stale(n), Outcome("failed", n)>> \in Seq(Events) /\ Has(<<Stale(n), Outcome("failed", n)>>) = {Stale(n), Outcome("failed", n)}
      BY MadeEvents, EventSeqs, HasMade
    <3>2. ~Mentions(<<Stale(n), Outcome("failed", n)>>)
      BY <2>2, <3>1 DEF Mentions
    <3>. QED  BY <1>0, <2>1, <2>5, <3>1, <3>2, NoteUntold
  <2>. QED  BY <1>5, <2>3, <2>4, <2>5 DEF Answer
<1>. QED  BY <1>1, <1>2, <1>3, <1>4, <1>5

LEMMA FactMeans ==
  ASSUME NEW e
  PROVE  ("note" \in Fact(e) <=> Rec(e)) /\ ("history" \in Fact(e) <=> Saves(e))
  BY DEF Fact, Rec

\* An event of a thread, or a level, goes to the stream of the window.
LEMMA NoteBroadcast ==
  ASSUME Shapes, Wiring, NoteI, NEW e \in Events, NEW late, Broadcast(e, late),
         UNCHANGED <<note, ui, link, conn, subs, opened>>,
         Rec(e) => Untold' \/ Value(e) = note \/ "note" \in late, Untold => Untold' \/ Rec(e)
  PROVE  NoteI'
<1>1. requests \subseteq Requests /\ queue \in Seq(Events)
  BY DEF Shapes
<1>2. Succeeds(requests, requests')
  BY <1>1, BroadcastSucceeds
<1>3. CASE Held /\ queue' = Append(queue, e) /\ astray' = astray \union late
  <2>1. CASE Rec(e)
    <3>1. Mentions(queue')
      BY <1>1, <1>3, <2>1, Appended DEF Mentions
    <3>2. NoteAnswered'
      BY <3>1 DEF NoteAnswered
    <3>3. Value(e) = note => LastIs(queue', note')
      BY <1>1, <1>3, <2>1, Appended
    <3>4. "note" \in astray' \/ NoteComes'
      BY <1>3, <2>1, <3>3 DEF NoteComes
    <3>. QED  BY <3>2, <3>4 DEF NoteI, NoteQueued, NoteFollowed
  <2>2. CASE ~Rec(e)
    <3>1. (LastIs(queue, note) => LastIs(queue', note)) /\ (Mentions(queue') <=> Mentions(queue))
      BY <1>1, <1>3, <2>2, Appended DEF Mentions
    <3>2. "note" \in astray => "note" \in astray'
      BY <1>3
    <3>3. WillAsk => WillAsk'
      BY DEF WillAsk
    <3>. QED  BY <1>2, <2>2, <3>1, <3>2, <3>3, NoteFrame
  <2>. QED  BY <2>1, <2>2
<1>4. CASE /\ queue' = queue
           /\ \A q \in requests' : q.snap # NoSnap => Fact(e) \subseteq q.old
           /\ astray' = astray \union Fact(e) \/ (astray' = astray /\ ~Held /\ opened)
  <2>1. CASE Rec(e)
    <3>1. "note" \in Fact(e)
      BY <2>1, FactMeans
    <3>2. NoteAnswered'
      BY <1>4, <3>1 DEF NoteAnswered
    <3>3. CASE "note" \in astray'
      BY <3>2, <3>3 DEF NoteI, NoteQueued, NoteFollowed
    <3>4. CASE ~Held /\ opened
      <4>1. queue' = << >> /\ WillAsk'
        BY <1>4, <3>4 DEF Wiring, WillAsk, Held
      <4>2. ~Mentions(queue')
        BY <4>1, HasNone DEF Mentions
      <4>. QED  BY <3>2, <4>1, <4>2 DEF NoteI, NoteQueued, NoteFollowed
    <3>. QED  BY <1>4, <3>1, <3>3, <3>4
  <2>2. CASE ~Rec(e)
    <3>1. "note" \in astray => "note" \in astray'
      BY <1>4
    <3>. QED  BY <1>2, <1>4, <2>2, <3>1, NoteFrame DEF WillAsk
  <2>. QED  BY <2>1, <2>2
<1>. QED  BY <1>1, <1>3, <1>4, BroadcastSucceeds

LEMMA NoteBroker ==
  ASSUME Shapes, Wiring, Failures, NoteI, Level \/ \E t \in Threads : Publish(t)
  PROVE  NoteI'
<1>1. CASE Level
  <2>1. UNCHANGED <<note, ui, link, conn, subs, opened, todo>> /\ Broadcast(Event("audio-level", "", 0), {})
    BY <1>1 DEF Level, engineVars
  <2>2. ~Rec(Event("audio-level", "", 0))
    BY DEF Rec, Event
  <2>3. Untold' <=> Untold
    BY <2>1, UntoldMeans
  <2>. QED  BY <2>1, <2>2, <2>3, MadeEvents, NoteBroadcast
<1>2. ASSUME NEW t \in Threads, Publish(t)
      PROVE  NoteI'
  <2>. DEFINE e == Head(todo[t])
  <2>1. UNCHANGED <<note, ui, link, conn, subs, opened>>
    BY <1>2 DEF Publish, engineVars
  <2>2. PICK late \in {{}, {"note"}} : Broadcast(e, late) /\ (Late(e) => late = {"note"})
    BY <1>2, PublishTakes
  <2>3. /\ e \in Events /\ Has(todo[t]) = Has(todo'[t]) \union {e}
        /\ \A u \in Threads : u # t => todo'[u] = todo[u]
    BY <1>2, PublishTakes
  <2>. HIDE DEF e
  <2>4. Rec(e) => Value(e) = note \/ e.n \in crossed
    BY <2>3 DEF Failures
  <2>5. Rec(e) => Untold' \/ Value(e) = note \/ "note" \in late
    BY <2>2, <2>4 DEF Late, Rec
  <2>6. Untold => Untold' \/ Rec(e)
    <3>1. ASSUME NEW u \in Threads, Mentions(todo[u]), ~Rec(e) PROVE Mentions(todo'[u])
      BY <2>3, <3>1 DEF Mentions
    <3>. QED  BY <3>1, UntoldMeans
  <2>. QED  BY <2>1, <2>2, <2>3, <2>5, <2>6, NoteBroadcast
<1>. QED  BY <1>1, <1>2

LEMMA ShownNote ==
  ASSUME NEW w \in Screens, NEW e \in Events
  PROVE  /\ Rec(e) => OnRecording(w, e).note = Value(e)
         /\ OnOutcome(w, e).note = w.note /\ OnStale(w).note = w.note
         /\ [w EXCEPT !.phase = e.value].note = w.note
<1>1. ASSUME Rec(e) PROVE OnRecording(w, e).note = Value(e)
  <2>0. e.value \in Noted
    BY <1>1, EventFields DEF Rec
  <2>1. Unwatched(w) \in Screens
    BY DEF Unwatched, Screens
  <2>2. CASE e.value = "paused"
    BY <2>2 DEF OnRecording, Screens, Value
  <2>3. CASE e.value = "on"
    BY <2>1, <2>3 DEF OnRecording, Screens, Value
  <2>4. CASE e.value = "discarded" \/ (e.value = "off" /\ w.discarding)
    BY <2>1, <2>4 DEF OnRecording, Screens, Value
  <2>5. CASE e.value = "off" /\ ~w.discarding
    BY <2>5 DEF OnRecording, Screens, Value
  <2>. QED  BY <2>0, <2>2, <2>3, <2>4, <2>5 DEF Noted
<1>2. OnOutcome(w, e).note = w.note
  BY DEF OnOutcome, Screens
<1>3. OnStale(w).note = w.note
  BY DEF OnStale, Unwatched, Screens
<1>4. [w EXCEPT !.phase = e.value].note = w.note
  BY DEF Screens
<1>. QED  BY <1>1, <1>2, <1>3, <1>4

\* What the window asks for as it takes an event.
LEMMA DeliverAsks ==
  ASSUME Shapes, Deliver, NEW e, e = Head(queue)
  PROVE  /\ Succeeds(requests, requests')
         /\ \A q \in requests' : q.snap # NoSnap => Fact(e) \subseteq q.old
         /\ e.type = "history-changed" => \E q \in requests' : q.for = "history"
<1>1. Succeeds(requests, Kept(Aged(Fact(e)), ui'.phase))
  BY AgedSucceeds, KeptSucceeds DEF Shapes
<1>2. \/ requests' = Kept(Aged(Fact(e)), ui'.phase) /\ e.type # "history-changed"
      \/ requests' = Kept(Aged(Fact(e)), ui'.phase) \union Request("history")
  BY Delivers
<1>3. Succeeds(requests, requests') /\ (e.type = "history-changed" => \E q \in requests' : q.for = "history")
  BY <1>1, <1>2, AskedSucceeds
<1>4. \A q \in Kept(Aged(Fact(e)), ui'.phase) : q.snap # NoSnap => Fact(e) \subseteq q.old
  BY AgedSucceeds DEF Kept, Shapes
<1>5. \A q \in Request("history") : q.snap = NoSnap
  BY DEF Request
<1>. QED  BY <1>2, <1>3, <1>4, <1>5

LEMMA NoteDeliver ==
  ASSUME Shapes, NoteI, Deliver
  PROVE  NoteI'
<1>. DEFINE e == Head(queue)
<1>1. e \in Events /\ queue' = Tail(queue) /\ queue \in Seq(Events) /\ queue # << >> /\ ui \in Screens
  BY Deliverable DEF Shapes
<1>2. UNCHANGED <<note, todo, link, opened, astray>>
  BY DEF Deliver, engineVars
<1>3. /\ Has(queue) = Has(queue') \union {e}
      /\ LastIs(queue, note) => LastIs(queue', note) \/ (Rec(e) /\ Value(e) = note /\ ~Mentions(queue'))
  BY <1>1, Taken
<1>4. /\ Succeeds(requests, requests')
      /\ \A q \in requests' : q.snap # NoSnap => Fact(e) \subseteq q.old
  BY DeliverAsks
<1>. HIDE DEF e
<1>5. Untold' <=> Untold
  BY <1>2, UntoldMeans
<1>6. CASE Rec(e)
  <2>1. ui'.note = Value(e)
    BY <1>1, <1>6, Delivers, ShownNote DEF Rec, e
  <2>2. Mentions(queue)
    BY <1>3, <1>6 DEF Mentions
  <2>3. "note" \in astray \/ NoteComes
    BY <2>2 DEF NoteI, NoteQueued
  <2>4. "note" \in astray' \/ NoteComes' \/ (~Mentions(queue') /\ ui'.note = note')
    BY <1>2, <1>3, <1>5, <2>1, <2>3 DEF NoteComes
  <2>5. "note" \in Fact(e)
    BY <1>6, FactMeans
  <2>. QED  BY <1>4, <1>5, <2>4, <2>5 DEF NoteI, NoteQueued, NoteFollowed, NoteAnswered
<1>7. CASE ~Rec(e)
  <2>1. ui'.note = ui.note
    BY <1>1, <1>7, Delivers, ShownNote, EventFields DEF Rec, e
  <2>2. (LastIs(queue, note) => LastIs(queue', note)) /\ (Mentions(queue') <=> Mentions(queue))
    BY <1>3, <1>7 DEF Mentions
  <2>3. WillAsk => WillAsk'
    BY <1>2 DEF WillAsk
  <2>. QED  BY <1>2, <1>4, <1>5, <2>1, <2>2, <2>3, NoteFrame
<1>. QED  BY <1>6, <1>7

\* The answer of the engine to a request.
LEMMA Answered ==
  ASSUME Shapes, NEW r \in requests, Respond(r)
  PROVE  /\ \A q \in requests' : q \in requests \/ q.snap = [phase |-> phase, note |-> note, saved |-> saved]
         /\ \A q \in requests : \E p \in requests' : p.for = q.for
<1>1. r \in Requests
  BY DEF Shapes
<1>. DEFINE a == [r EXCEPT !.snap = [phase |-> phase, note |-> note, saved |-> saved]]
<1>2. a.snap = [phase |-> phase, note |-> note, saved |-> saved] /\ a.for = r.for
  BY <1>1 DEF Requests
<1>3. requests' = (requests \ {r}) \union {a}
  BY DEF Respond
<1>. QED  BY <1>2, <1>3

LEMMA NoteRespond ==
  ASSUME Shapes, NoteI, NEW r \in requests, Respond(r)
  PROVE  NoteI'
<1>1. UNCHANGED <<note, todo, queue, link, opened, ui, astray>>
  BY DEF Respond, engineVars, brokerVars, history
<1>2. /\ \A q \in requests' : q \in requests \/ q.snap = [phase |-> phase, note |-> note, saved |-> saved]
      /\ \A q \in requests : \E p \in requests' : p.for = q.for
  BY Answered
<1>6. Untold' <=> Untold
  BY <1>1, UntoldMeans
<1>3. (NoteComes' <=> NoteComes) /\ NoteQueued'
  BY <1>1, <1>6 DEF NoteI, NoteComes, NoteQueued
<1>4. NoteFollowed'
  BY <1>1, <1>2, <1>3 DEF NoteI, NoteFollowed, WillAsk, AsksNote
<1>5. NoteAnswered'
  BY <1>1, <1>2, <1>6 DEF NoteI, NoteAnswered
<1>. QED  BY <1>3, <1>4, <1>5 DEF NoteI

LEMMA AppliedNote ==
  ASSUME NEW w \in Screens, NEW s \in Snaps
  PROVE  /\ FromHistory(w, s.saved).note = w.note
         /\ [w EXCEPT !.phase = s.phase].note = w.note
         /\ [w EXCEPT !.note = s.note].note = s.note
         /\ [w EXCEPT !.phase = s.phase, !.note = s.note, !.saved = s.saved].note = s.note
         /\ [Unwatched(w) EXCEPT !.note = "off"].note = "off"
<1>1. FromHistory(w, s.saved).note = w.note
  BY DEF FromHistory, Screens
<1>2. Unwatched(w) \in Screens
  BY DEF Unwatched, Screens
<1>3. [w EXCEPT !.phase = s.phase].note = w.note /\ [w EXCEPT !.note = s.note].note = s.note
  BY DEF Screens
<1>4. [w EXCEPT !.phase = s.phase, !.note = s.note, !.saved = s.saved].note = s.note
  BY DEF Screens
<1>5. [Unwatched(w) EXCEPT !.note = "off"].note = "off"
  BY <1>2 DEF Screens
<1>. QED  BY <1>1, <1>3, <1>4, <1>5

\* What a response says of the facts the window may have missed.
LEMMA AppliedFacts ==
  ASSUME Shapes, NEW r \in requests, Apply(r)
  PROVE  /\ "note" \in astray /\ "note" \notin astray' => r.for \in ForNote /\ ~Mentions(queue)
         /\ r.for \in ForNote /\ "note" \notin astray' =>
              "note" \notin r.old /\ (r.for = "discard" => r.snap.note = "off")
         /\ "history" \in astray /\ "history" \notin astray' => r.for \in {"state", "history"}
         /\ r.for \in {"state", "history"} /\ "history" \notin astray' => "history" \notin r.old
<1>1. PICK facts :
        /\ facts = CASE r.for = "state" -> Facts
                     [] r.for \in {"op", "discard"} -> {"note"}
                     [] r.for = "poll" -> {"model"}
                     [] r.for = "history" -> {"history"}
        /\ astray' = (astray \ {f \in facts : \A k \in DOMAIN queue : f \notin Fact(queue[k])})
                \union (facts \intersect r.old)
                \union (IF r.for = "discard" /\ r.snap.note # "off" THEN {"note"} ELSE {})
  BY DEF Apply
<1>2. r.for \in {"state", "op", "discard", "poll", "history"}
  BY DEF Shapes, Requests
<1>3. /\ "note" \in facts <=> r.for \in ForNote
      /\ "history" \in facts <=> r.for \in {"state", "history"}
  BY <1>1, <1>2 DEF ForNote, Facts
<1>4. (\A k \in DOMAIN queue : "note" \notin Fact(queue[k])) => ~Mentions(queue)
  BY FactMeans DEF Mentions, Has
<1>5. "note" \in astray /\ "note" \notin astray' => r.for \in ForNote /\ ~Mentions(queue)
  BY <1>1, <1>3, <1>4
<1>6. r.for \in ForNote /\ "note" \notin astray' =>
              "note" \notin r.old /\ (r.for = "discard" => r.snap.note = "off")
  BY <1>1, <1>3
<1>7. "history" \in astray /\ "history" \notin astray' => r.for \in {"state", "history"}
  BY <1>1, <1>3
<1>8. r.for \in {"state", "history"} /\ "history" \notin astray' => "history" \notin r.old
  BY <1>1, <1>3
<1>. QED  BY <1>5, <1>6, <1>7, <1>8

LEMMA NoteApply ==
  ASSUME Shapes, NoteI, NEW r \in requests, Apply(r)
  PROVE  NoteI'
<1>1. UNCHANGED <<note, todo, queue, link, opened>>
  BY DEF Apply, engineVars, brokerVars
<1>2. requests' \subseteq requests /\ \A q \in requests : q # r /\ q.for # "poll" => q \in requests'
  BY Applies DEF Kept
<1>9. Untold' <=> Untold
  BY <1>1, UntoldMeans
<1>3. NoteComes' <=> NoteComes
  BY <1>1, <1>9 DEF NoteComes
<1>4. NoteAnswered'
  BY <1>1, <1>2, <1>9 DEF NoteI, NoteAnswered
<1>5. NoteQueued'
  BY <1>1, <1>3, AppliedFacts DEF NoteI, NoteQueued
<1>6. r \in Requests /\ r.snap \in Snaps /\ ui \in Screens /\ r.snap # NoSnap
  BY Applies DEF Shapes, Requests, Snaps
<1>8. /\ r.for = "state" => ui'.note = r.snap.note
      /\ r.for = "op" => ui'.note = r.snap.note
      /\ r.for = "discard" => ui'.note = "off"
      /\ r.for = "poll" => ui'.note = ui.note
      /\ r.for = "history" => ui'.note = ui.note
  <2>1. /\ FromHistory(ui, r.snap.saved).note = ui.note
        /\ [ui EXCEPT !.phase = r.snap.phase].note = ui.note
        /\ [ui EXCEPT !.note = r.snap.note].note = r.snap.note
        /\ [ui EXCEPT !.phase = r.snap.phase, !.note = r.snap.note, !.saved = r.snap.saved].note = r.snap.note
        /\ [Unwatched(ui) EXCEPT !.note = "off"].note = "off"
    BY <1>6, AppliedNote
  <2>. QED  BY <2>1, Applies
<1>7. NoteFollowed'
  <2>1. CASE r.for \in ForNote
    <3>1. SUFFICES ASSUME "note" \notin astray', ~NoteComes PROVE ~Mentions(queue) /\ ui'.note = note
      BY <1>1, <1>3 DEF NoteFollowed
    <3>2. "note" \notin r.old /\ (r.for = "discard" => r.snap.note = "off")
      BY <2>1, <3>1, AppliedFacts
    <3>3. ~Mentions(queue)
      BY <3>1, AppliedFacts DEF NoteI, NoteQueued
    <3>4. r.snap.note = note
      BY <1>6, <2>1, <3>1, <3>2, <3>3 DEF NoteI, NoteAnswered, NoteComes
    <3>5. ui'.note = note
      BY <1>8, <2>1, <3>2, <3>4 DEF ForNote
    <3>. QED  BY <3>3, <3>5
  <2>2. CASE r.for \notin ForNote
    <3>1. r.for \in {"poll", "history"}
      BY <1>6, <2>2 DEF Requests, ForNote
    <3>2. ui'.note = ui.note
      BY <1>8, <3>1
    <3>3. AsksNote => AsksNote'
      BY <1>2, <2>2 DEF AsksNote, ForNote
    <3>4. "note" \in astray => "note" \in astray'
      BY <2>2, AppliedFacts
    <3>. QED  BY <1>1, <1>3, <3>2, <3>3, <3>4 DEF NoteI, NoteFollowed, WillAsk
  <2>. QED  BY <2>1, <2>2
<1>. QED  BY <1>4, <1>5, <1>7 DEF NoteI

\* The stream is opened, opens, breaks or ends with the engine.
LEMMA NoteLink ==
  ASSUME Shapes, Counts, Wiring, NoteI,
         Connect \/ Break \/ Reconnect \/ Restart \/ \E c \in Conns : Headers(c)
  PROVE  NoteI'
<1>0. ~Mentions(<< >>)
  BY HasNone DEF Mentions
<1>1. CASE Connect
  <2>1. UNCHANGED <<note, todo, queue, ui, astray>> /\ requests' = requests \union Request("state")
    BY <1>1 DEF Connect, engineVars, history
  <2>2. Succeeds(requests, requests') /\ AsksNote'
    BY <2>1, SucceedsItself, AskedSucceeds DEF AsksNote, ForNote
  <2>3. Untold' <=> Untold
    BY <2>1, UntoldMeans
  <2>. QED  BY <2>1, <2>2, <2>3, NoteFrame
<1>2. CASE Break
  <2>1. /\ UNCHANGED <<note, todo, ui, opened>> /\ queue' = << >> /\ requests' = Aged({"note", "history"})
        /\ link' = "down" /\ (~opened => astray' = Facts)
    BY <1>2 DEF Break, engineVars
  <2>2. \A q \in requests' : q.snap # NoSnap => "note" \in q.old
    BY <2>1, AgedSucceeds DEF Shapes
  <2>3. NoteQueued' /\ NoteAnswered'
    BY <1>0, <2>1, <2>2 DEF NoteQueued, NoteAnswered
  <2>4. NoteFollowed'
    BY <2>1 DEF NoteFollowed, WillAsk, Facts
  <2>. QED  BY <2>3, <2>4 DEF NoteI
<1>3. CASE Reconnect
  <2>1. /\ UNCHANGED <<note, todo, ui, opened, astray, requests>> /\ queue' = << >> /\ queue = << >>
        /\ link = "down" /\ link' = "opening"
    BY <1>3 DEF Reconnect, engineVars, history, Wiring, Held
  <2>2. Untold' <=> Untold
    BY <2>1, UntoldMeans
  <2>3. WillAsk => WillAsk'
    BY <2>1 DEF WillAsk
  <2>4. Succeeds(requests, requests')
    BY <2>1, SucceedsItself
  <2>. QED  BY <2>1, <2>2, <2>3, <2>4, NoteFrame
<1>4. CASE Restart
  <2>1. /\ queue' = << >> /\ requests' = {} /\ (\A t \in Threads : todo'[t] = << >>) /\ opened' = opened
        /\ link' = (IF link = "waiting" THEN link ELSE "down")
        /\ (~opened /\ link # "waiting" => astray' = Facts)
    BY <1>4 DEF Restart
  <2>3. NoteQueued' /\ NoteAnswered'
    BY <1>0, <2>1 DEF NoteQueued, NoteAnswered
  <2>4. NoteFollowed'
    BY <2>1 DEF NoteFollowed, WillAsk, Facts
  <2>. QED  BY <2>3, <2>4 DEF NoteI
<1>5. ASSUME NEW c \in Conns, Headers(c)
      PROVE  NoteI'
  <2>1. UNCHANGED <<note, todo, queue, ui, astray>>
    BY <1>5 DEF Headers, engineVars
  <2>2. \/ UNCHANGED <<link, opened, requests>>
        \/ /\ c = conn /\ link' = "open" /\ opened' = TRUE
           /\ requests' = (IF opened THEN requests \union Request("state") ELSE requests)
    BY <1>5 DEF Headers, Opens, Gone
  <2>3. Succeeds(requests, requests')
    BY <2>2, SucceedsItself, AskedSucceeds
  <2>4. c # 0
    BY StreamAssumption DEF Conns
  <2>5. WillAsk => WillAsk' \/ AsksNote'
    <3>1. CASE UNCHANGED <<link, opened, requests>>
      BY <3>1 DEF WillAsk
    <3>2. CASE c = conn /\ opened /\ requests' = requests \union Request("state")
      <4>1. \E q \in requests \union Request("state") : q.for = "state"
        BY SucceedsItself, AskedSucceeds
      <4>. QED  BY <3>2, <4>1 DEF AsksNote, ForNote
    <3>3. CASE c = conn /\ ~opened
      BY <2>4, <3>3 DEF WillAsk, Wiring
    <3>. QED  BY <2>2, <3>1, <3>2, <3>3
  <2>6. Untold' <=> Untold
    BY <2>1, UntoldMeans
  <2>. QED  BY <2>1, <2>3, <2>5, <2>6, NoteFrame
<1>. QED  BY <1>1, <1>2, <1>3, <1>4, <1>5

LEMMA NoteOther ==
  ASSUME Shapes, NoteI, Serve \/ Wire \/ Poll \/ Watchdog \/ \E c \in Conns : Accept(c) \/ StreamEnds(c)
  PROVE  NoteI'
<1>1. /\ UNCHANGED <<note, todo, queue, astray, link, opened>> /\ ui'.note = ui.note
      /\ requests' = requests \/ requests' = requests \union Request("poll")
  BY DEF Serve, Wire, Poll, Watchdog, Accept, StreamEnds, engineVars, brokerVars, windowVars, history, Shapes, Screens
<1>2. Succeeds(requests, requests')
  BY <1>1, SucceedsItself, AskedSucceeds
<1>3. Untold' <=> Untold
  BY <1>1, UntoldMeans
<1>4. WillAsk => WillAsk'
  BY <1>1 DEF WillAsk
<1>. QED  BY <1>1, <1>2, <1>3, <1>4, NoteFrame

\* A failure is cleaned up after: the note of a pause goes on and nobody is told.
LEMMA NoteCleaning ==
  ASSUME Shapes, NoteI, Cleaning
  PROVE  NoteI'
<1>1. UNCHANGED <<todo, queue, ui, link, opened>>
  BY CleaningMeans
<1>2. Untold' <=> Untold
  BY <1>1, UntoldMeans
<1>3. WillAsk => WillAsk'
  BY <1>1 DEF WillAsk
<1>4. CASE UNCHANGED <<note, astray, requests>>
  <2>1. Succeeds(requests, requests')
    BY <1>4, SucceedsItself
  <2>. QED  BY <1>1, <1>2, <1>3, <1>4, <2>1, NoteFrame
<1>5. CASE astray' = astray \union {"note"} /\ requests' = Aged({"note"})
  <2>1. \A q \in requests' : q.snap # NoSnap => "note" \in q.old
    BY <1>5, AgedSucceeds DEF Shapes
  <2>. QED  BY <1>5, <2>1 DEF NoteI, NoteQueued, NoteFollowed, NoteAnswered
<1>. QED  BY <1>4, <1>5, CleaningMeans

LEMMA NoteStep ==
  ASSUME Shapes, Counts, Wiring, Failures, NoteI, StreamNext
  PROVE  NoteI'
  BY NoteEngine, NoteBroker, NoteDeliver, NoteRespond, NoteApply, NoteLink, NoteOther, NoteCleaning
     DEF StreamNext, NoteAction, Cleaning

-----------------------------------------------------------------------------
(* The notes the window lists                                                *)

ForHistory == {"state", "history"}
AsksHistory == \E r \in requests : r.for \in ForHistory
Brings(s, n) == \E e \in Has(s) : Ok(e, n)
Comes(n) == Brings(todo["worker"], n) \/ Brings(queue, n)

\* Nobody knows of a note that is not saved.
OnlySaved ==
  /\ ui.saved \subseteq saved
  /\ \A r \in requests : r.snap.saved \subseteq saved
  /\ \A t \in Threads : \A n : Brings(todo[t], n) => n \in saved
  /\ \A n : Brings(queue, n) => n \in saved
HistoryFollowed == "history" \in astray \/ WillAsk \/ AsksHistory \/ \A n \in saved : n \in ui.saved \/ Comes(n)
HistoryAnswered == \A r \in requests : r.snap # NoSnap /\ r.for \in ForHistory /\ "history" \notin r.old =>
                     \A n \in saved : n \in r.snap.saved \/ Comes(n)
HistoryI == OnlySaved /\ HistoryFollowed /\ HistoryAnswered

LEMMA HistoryFrame ==
  ASSUME HistoryI, saved' = saved, ui'.saved = ui.saved, \A n : Comes(n) => Comes(n)',
         "history" \in astray => "history" \in astray', Succeeds(requests, requests'),
         WillAsk => WillAsk' \/ AsksHistory'
  PROVE  HistoryFollowed' /\ HistoryAnswered'
<1>1. AsksHistory => AsksHistory'
  BY DEF Succeeds, AsksHistory, ForHistory
<1>2. HistoryFollowed'
  BY <1>1 DEF HistoryI, HistoryFollowed
<1>3. ASSUME NEW q \in requests', q.snap # NoSnap, q.for \in ForHistory, "history" \notin q.old, NEW n \in saved
      PROVE  n \in q.snap.saved \/ Comes(n)'
  <2>1. PICK r \in requests : r.for = q.for /\ r.snap = q.snap /\ r.old \subseteq q.old
    BY <1>3 DEF Succeeds
  <2>2. n \in r.snap.saved \/ Comes(n)
    BY <1>3, <2>1 DEF HistoryI, HistoryAnswered
  <2>. QED  BY <2>1, <2>2
<1>4. HistoryAnswered'
  BY <1>3 DEF HistoryAnswered
<1>. QED  BY <1>2, <1>4

LEMMA SavedFrame ==
  ASSUME OnlySaved, saved \subseteq saved', ui'.saved = ui.saved, Succeeds(requests, requests'),
         \A t \in Threads : \A n : Brings(todo'[t], n) => Brings(todo[t], n) \/ n \in saved',
         \A n : Brings(queue', n) => Brings(queue, n) \/ n \in saved'
  PROVE  OnlySaved'
<1>1. ASSUME NEW q \in requests' PROVE q.snap.saved \subseteq saved'
  <2>1. CASE q.snap = NoSnap
    BY <2>1 DEF NoSnap
  <2>2. CASE q.snap # NoSnap
    BY <1>1, <2>2 DEF Succeeds, OnlySaved
  <2>. QED  BY <2>1, <2>2
<1>. QED  BY <1>1 DEF OnlySaved

LEMMA HistoryUntold ==
  ASSUME Shapes, HistoryI, saved' = saved, NEW t \in Threads, NEW facts, NEW events \in Seq(Events), NEW for,
         Tell(t, facts, events, {}) \/ Tell(t, facts, events, Request(for)),
         \A n : ~Brings(events, n), UNCHANGED <<queue, link, opened>>, ui'.saved = ui.saved
  PROVE  HistoryI'
<1>0. PICK request : Tell(t, facts, events, request)
  OBVIOUS
<1>1. /\ ~wired => todo' = todo
      /\ wired => \A u \in Threads : Has(todo'[u]) = Has(todo[u]) \union (IF u = t THEN Has(events) ELSE {})
  BY <1>0, TellAdds
<1>2. \A u \in Threads : \A n : Brings(todo'[u], n) <=> Brings(todo[u], n)
  BY <1>1 DEF Brings
<1>3. \A n : Comes(n) => Comes(n)'
  BY <1>2 DEF Comes, Threads
<1>4. Succeeds(requests, requests') /\ ("history" \in astray => "history" \in astray')
  BY TellSucceeds DEF Tell, Shapes
<1>5. WillAsk => WillAsk'
  BY DEF WillAsk
<1>6. HistoryFollowed' /\ HistoryAnswered'
  BY <1>3, <1>4, <1>5, HistoryFrame
<1>7. OnlySaved'
  BY <1>2, <1>4, SavedFrame DEF HistoryI
<1>. QED  BY <1>6, <1>7 DEF HistoryI

LEMMA NotOk ==
  ASSUME NEW n
  PROVE  /\ \A v, m : ~Ok(Recording(v, m), n)
         /\ \A m : ~Ok(Stale(m), n) /\ ~Ok(Changed(m), n) /\ ~Ok(Outcome("failed", m), n) /\ ~Ok(Outcome("empty", m), n)
         /\ \A v, m : ~Ok(Event("model", v, m), n) /\ ~Ok(Event("audio-level", v, m), n)
         /\ \A m : Ok(Outcome("ok", m), n) <=> m = n
  BY DEF Ok, Recording, Stale, Changed, Outcome, Event

LEMMA HistoryEngine ==
  ASSUME Shapes, Counts, HistoryI,
         NoteAction \/ DiscardNote \/ FailNote \/ LoadEnds \/ \E n \in Notes : Answer(n)
  PROVE  HistoryI'
<1>0. "op" \in Threads /\ "worker" \in Threads /\ "loader" \in Threads
  BY DEF Threads
<1>1. CASE NoteAction
  <2>1. PICK by \in {"window", "silence"}, v \in {"on", "paused", "off"} : Op(by, v, notes') /\ notes' \in Notes
    BY <1>1, NoteActionIsOp
  <2>. DEFINE es == <<Recording(v, notes')>>
  <2>2. es \in Seq(Events) /\ Has(es) = {Recording(v, notes')}
    BY <2>1, MadeEvents, EventSeqs, HasMade DEF Noted
  <2>3. Tell("op", {"note"}, es, {}) \/ Tell("op", {"note"}, es, Request("op"))
    BY <2>1 DEF Op, Asks
  <2>4. UNCHANGED <<saved, queue, link, opened, ui>>
    BY <2>1 DEF Op, brokerVars
  <2>. HIDE DEF es
  <2>5. \A n : ~Brings(es, n)
    BY <2>2, NotOk DEF Brings
  <2>. QED  BY <1>0, <2>2, <2>3, <2>4, <2>5, HistoryUntold
<1>2. CASE DiscardNote
  <2>. DEFINE es == <<Recording("discarded", notes), Stale(notes)>>
  <2>1. notes \in Notes
    BY <1>2, NoteNumber DEF DiscardNote
  <2>2. es \in Seq(Events) /\ Has(es) = {Recording("discarded", notes), Stale(notes)}
    BY <2>1, MadeEvents, EventSeqs, HasMade DEF Noted
  <2>3. Tell("op", {"note"}, es, Request("discard")) /\ UNCHANGED <<saved, queue, link, opened>>
    BY <1>2 DEF DiscardNote, brokerVars
  <2>4. ui'.saved = ui.saved
    BY <1>2 DEF DiscardNote, Shapes, Screens
  <2>. HIDE DEF es
  <2>5. \A n : ~Brings(es, n)
    BY <2>2, NotOk DEF Brings
  <2>. QED  BY <1>0, <2>2, <2>3, <2>4, <2>5, HistoryUntold
<1>3. CASE FailNote
  <2>. DEFINE es == <<Stale(notes), Outcome("failed", notes), Recording("off", notes)>>
  <2>1. notes \in Notes
    BY <1>3, NoteNumber DEF FailNote
  <2>2. es \in Seq(Events) /\ Has(es) = {Stale(notes), Outcome("failed", notes), Recording("off", notes)}
    BY <2>1, MadeEvents, EventSeqs, HasMade DEF Noted
  <2>3. Tell("worker", {"note"}, es, {}) /\ UNCHANGED <<saved, queue, link, opened, ui>>
    BY <1>3 DEF FailNote, brokerVars
  <2>. HIDE DEF es
  <2>4. \A n : ~Brings(es, n)
    BY <2>2, NotOk DEF Brings
  <2>. QED  BY <1>0, <2>2, <2>3, <2>4, HistoryUntold
<1>4. CASE LoadEnds
  <2>. DEFINE es == <<Event("model", phase', 0)>>
  <2>1. es \in Seq(Events) /\ Has(es) = {Event("model", phase', 0)}
    BY <1>4, MadeEvents, EventSeqs, HasMade DEF LoadEnds
  <2>2. Tell("loader", {}, es, {}) /\ UNCHANGED <<saved, queue, ui, link, opened>>
    BY <1>4 DEF LoadEnds, brokerVars
  <2>. HIDE DEF es
  <2>3. \A n : ~Brings(es, n)
    BY <2>1, NotOk DEF Brings
  <2>. QED  BY <1>0, <2>1, <2>2, <2>3, HistoryUntold
<1>5. ASSUME NEW n \in Notes, Answer(n)
      PROVE  HistoryI'
  <2>1. UNCHANGED <<queue, ui, link, opened>>
    BY <1>5 DEF Answer, brokerVars
  <2>2. CASE saved' = saved \union {n} /\ Tell("worker", {"history"}, <<Changed(n), Outcome("ok", n)>>, {})
    <3>. DEFINE es == <<Changed(n), Outcome("ok", n)>>
    <3>1. es \in Seq(Events) /\ Has(es) = {Changed(n), Outcome("ok", n)}
      BY MadeEvents, EventSeqs, HasMade
    <3>2. Tell("worker", {"history"}, es, {})
      BY <2>2
    <3>. HIDE DEF es
    <3>3. /\ ~wired => todo' = todo
          /\ wired => \A u \in Threads : Has(todo'[u]) = Has(todo[u]) \union (IF u = "worker" THEN Has(es) ELSE {})
      BY <1>0, <3>1, <3>2, TellAdds
    <3>4. \A m : Brings(es, m) <=> m = n
      BY <3>1, NotOk DEF Brings
    <3>5. Succeeds(requests, requests') /\ (~wired => \A q \in requests' : q.snap # NoSnap => "history" \in q.old)
      BY <3>2, TellSucceeds DEF Shapes
    <3>6. OnlySaved'
      <4>1. \A u \in Threads : \A m : Brings(todo'[u], m) => Brings(todo[u], m) \/ m = n
        BY <3>3, <3>4 DEF Brings
      <4>. QED  BY <2>1, <2>2, <3>5, <4>1, SavedFrame DEF HistoryI
    <3>7. CASE ~wired
      <4>1. "history" \in astray'
        BY <3>2, <3>7 DEF Tell
      <4>. QED  BY <3>5, <3>6, <3>7, <4>1 DEF HistoryI, HistoryFollowed, HistoryAnswered
    <3>8. CASE wired
      <4>1. \A m : Comes(m) => Comes(m)'
        BY <1>0, <2>1, <3>3, <3>8 DEF Comes, Brings
      <4>2. Comes(n)'
        BY <1>0, <3>3, <3>4, <3>8 DEF Comes, Brings
      <4>3. requests' = requests /\ astray' = astray
        BY <3>2, <3>8 DEF Tell
      <4>4. HistoryFollowed'
        BY <2>1, <2>2, <4>1, <4>2, <4>3 DEF HistoryI, HistoryFollowed, WillAsk, AsksHistory
      <4>5. HistoryAnswered'
        BY <2>2, <4>1, <4>2, <4>3 DEF HistoryI, HistoryAnswered
      <4>. QED  BY <3>6, <4>4, <4>5 DEF HistoryI
    <3>. QED  BY <3>7, <3>8
  <2>3. CASE saved' = saved /\ Tell("worker", {}, <<Outcome("empty", n)>>, {})
    <3>1. <<Outcome("empty", n)>> \in Seq(Events) /\ Has(<<Outcome("empty", n)>>) = {Outcome("empty", n)}
      BY MadeEvents, EventSeqs, HasMade
    <3>2. \A m : ~Brings(<<Outcome("empty", n)>>, m)
      BY <3>1, NotOk DEF Brings
    <3>. QED  BY <1>0, <2>1, <2>3, <3>1, <3>2, HistoryUntold
  <2>4. CASE saved' = saved /\ Tell("worker", {}, <<Stale(n), Outcome("failed", n)>>, {})
    <3>1. <<Stale(n), Outcome("failed", n)>> \in Seq(Events) /\ Has(<<Stale(n), Outcome("failed", n)>>) = {Stale(n), Outcome("failed", n)}
      BY MadeEvents, EventSeqs, HasMade
    <3>2. \A m : ~Brings(<<Stale(n), Outcome("failed", n)>>, m)
      BY <3>1, NotOk DEF Brings
    <3>. QED  BY <1>0, <2>1, <2>4, <3>1, <3>2, HistoryUntold
  <2>. QED  BY <1>5, <2>2, <2>3, <2>4 DEF Answer
<1>. QED  BY <1>1, <1>2, <1>3, <1>4, <1>5

LEMMA OkSaves ==
  ASSUME NEW e, NEW n, Ok(e, n)
  PROVE  "history" \in Fact(e) /\ ~Rec(e)
  BY FactMeans DEF Ok, Saves, Rec

LEMMA HistoryBroadcast ==
  ASSUME Shapes, Wiring, HistoryI, NEW e \in Events, NEW late, Broadcast(e, late), "history" \notin late,
         UNCHANGED <<saved, ui, link, conn, subs, opened>>,
         \A n : Ok(e, n) => n \in saved,
         \A t \in Threads : \A n : Brings(todo'[t], n) => Brings(todo[t], n),
         \A n : Brings(todo["worker"], n) => Brings(todo'["worker"], n) \/ Ok(e, n)
  PROVE  HistoryI'
<1>1. requests \subseteq Requests /\ queue \in Seq(Events)
  BY DEF Shapes
<1>2. Succeeds(requests, requests')
  BY <1>1, BroadcastSucceeds
<1>3. CASE Held /\ queue' = Append(queue, e) /\ astray' = astray \union late
  <2>1. Has(queue') = Has(queue) \union {e}
    BY <1>1, <1>3, Appended
  <2>2. \A n : Brings(queue', n) <=> Brings(queue, n) \/ Ok(e, n)
    BY <2>1 DEF Brings
  <2>3. \A n : Comes(n) => Comes(n)'
    BY <2>2 DEF Comes
  <2>4. OnlySaved'
    BY <1>2, <2>2, SavedFrame DEF HistoryI
  <2>5. WillAsk => WillAsk'
    BY DEF WillAsk
  <2>6. HistoryFollowed' /\ HistoryAnswered'
    BY <1>2, <1>3, <2>3, <2>5, HistoryFrame
  <2>. QED  BY <2>4, <2>6 DEF HistoryI
<1>4. CASE /\ queue' = queue
           /\ \A q \in requests' : q.snap # NoSnap => Fact(e) \subseteq q.old
           /\ astray' = astray \union Fact(e) \/ (astray' = astray /\ ~Held /\ opened)
  <2>1. OnlySaved'
    BY <1>2, <1>4, SavedFrame DEF HistoryI
  <2>2. CASE "history" \in Fact(e)
    <3>1. HistoryAnswered'
      BY <1>4, <2>2 DEF HistoryAnswered
    <3>2. HistoryFollowed'
      BY <1>4, <2>2 DEF HistoryFollowed, WillAsk, Wiring, Held
    <3>. QED  BY <2>1, <3>1, <3>2 DEF HistoryI
  <2>3. CASE "history" \notin Fact(e)
    <3>1. \A n : Comes(n) => Comes(n)'
      BY <1>4, <2>3, OkSaves DEF Comes
    <3>2. "history" \in astray => "history" \in astray'
      BY <1>4
    <3>3. WillAsk => WillAsk'
      BY DEF WillAsk
    <3>4. HistoryFollowed' /\ HistoryAnswered'
      BY <1>2, <3>1, <3>2, <3>3, HistoryFrame
    <3>. QED  BY <2>1, <3>4 DEF HistoryI
  <2>. QED  BY <2>2, <2>3
<1>. QED  BY <1>1, <1>3, <1>4, BroadcastSucceeds

LEMMA HistoryBroker ==
  ASSUME Shapes, Wiring, HistoryI, Level \/ \E t \in Threads : Publish(t)
  PROVE  HistoryI'
<1>1. CASE Level
  <2>1. UNCHANGED <<saved, ui, link, conn, subs, opened, todo>> /\ Broadcast(Event("audio-level", "", 0), {})
    BY <1>1 DEF Level, engineVars
  <2>2. \A n : ~Ok(Event("audio-level", "", 0), n)
    BY NotOk
  <2>. QED  BY <2>1, <2>2, MadeEvents, HistoryBroadcast
<1>2. ASSUME NEW t \in Threads, Publish(t)
      PROVE  HistoryI'
  <2>. DEFINE e == Head(todo[t])
  <2>1. UNCHANGED <<saved, ui, link, conn, subs, opened>>
    BY <1>2 DEF Publish, engineVars
  <2>2. /\ e \in Events /\ Has(todo[t]) = Has(todo'[t]) \union {e}
        /\ \A u \in Threads : u # t => todo'[u] = todo[u]
    BY <1>2, PublishTakes
  <2>6. PICK late \in {{}, {"note"}} : Broadcast(e, late)
    BY <1>2, PublishTakes
  <2>. HIDE DEF e
  <2>3. \A u \in Threads : \A n : Brings(todo'[u], n) => Brings(todo[u], n)
    BY <2>2 DEF Brings
  <2>4. \A n : Ok(e, n) => n \in saved
    <3>1. ASSUME NEW n, Ok(e, n) PROVE Brings(todo[t], n)
      BY <2>2, <3>1 DEF Brings
    <3>. QED  BY <3>1 DEF HistoryI, OnlySaved
  <2>5. \A n : Brings(todo["worker"], n) => Brings(todo'["worker"], n) \/ Ok(e, n)
    BY <2>2 DEF Brings, Threads
  <2>. QED  BY <2>1, <2>2, <2>3, <2>4, <2>5, <2>6, HistoryBroadcast
<1>. QED  BY <1>1, <1>2

LEMMA ListedNotes ==
  ASSUME NEW w \in Screens, NEW e \in Events
  PROVE  /\ Rec(e) => OnRecording(w, e).saved = w.saved
         /\ e.type = "note" => OnOutcome(w, e).saved = IF e.value = "ok" THEN w.saved \union {e.n} ELSE w.saved
         /\ OnStale(w).saved = w.saved
         /\ [w EXCEPT !.phase = e.value].saved = w.saved
<1>0. Unwatched(w) \in Screens /\ Unwatched(w).saved = w.saved
  BY DEF Unwatched, Screens
<1>1. ASSUME Rec(e) PROVE OnRecording(w, e).saved = w.saved
  <2>0. e.value \in Noted
    BY <1>1, EventFields DEF Rec
  <2>1. CASE e.value = "paused"
    BY <2>1 DEF OnRecording, Screens
  <2>2. CASE e.value = "on"
    BY <1>0, <2>2 DEF OnRecording, Screens
  <2>3. CASE e.value = "discarded" \/ (e.value = "off" /\ w.discarding)
    BY <1>0, <2>3 DEF OnRecording, Screens
  <2>4. CASE e.value = "off" /\ ~w.discarding
    BY <2>4 DEF OnRecording, Screens
  <2>. QED  BY <2>0, <2>1, <2>2, <2>3, <2>4 DEF Noted
<1>2. OnOutcome(w, e).saved = IF e.value = "ok" THEN w.saved \union {e.n} ELSE w.saved
  BY DEF OnOutcome, Screens
<1>3. OnStale(w).saved = w.saved
  BY <1>0 DEF OnStale
<1>4. [w EXCEPT !.phase = e.value].saved = w.saved
  BY DEF Screens
<1>. QED  BY <1>1, <1>2, <1>3, <1>4

LEMMA HistoryDeliver ==
  ASSUME Shapes, HistoryI, Deliver
  PROVE  HistoryI'
<1>. DEFINE e == Head(queue)
<1>1. e \in Events /\ queue' = Tail(queue) /\ queue \in Seq(Events) /\ queue # << >> /\ ui \in Screens
  BY Deliverable DEF Shapes
<1>2. UNCHANGED <<saved, todo, link, opened, astray>>
  BY DEF Deliver, engineVars
<1>3. Has(queue) = Has(queue') \union {e}
  BY <1>1, Taken
<1>4. /\ Succeeds(requests, requests')
      /\ \A q \in requests' : q.snap # NoSnap => Fact(e) \subseteq q.old
      /\ e.type = "history-changed" => \E q \in requests' : q.for = "history"
  BY DeliverAsks
<1>5. ui'.saved = IF e.type = "note" /\ e.value = "ok" THEN ui.saved \union {e.n} ELSE ui.saved
  BY <1>1, Delivers, ListedNotes, EventFields DEF Rec
<1>. HIDE DEF e
<1>6. \A n : Brings(queue, n) <=> Brings(queue', n) \/ Ok(e, n)
  BY <1>3 DEF Brings
<1>7. OnlySaved'
  <2>1. ui'.saved \subseteq saved'
    <3>1. e.type = "note" /\ e.value = "ok" => Brings(queue, e.n)
      BY <1>6 DEF Ok
    <3>. QED  BY <1>2, <1>5, <3>1 DEF HistoryI, OnlySaved
  <2>2. ASSUME NEW q \in requests' PROVE q.snap.saved \subseteq saved'
    <3>1. CASE q.snap = NoSnap
      BY <3>1 DEF NoSnap
    <3>2. CASE q.snap # NoSnap
      BY <1>2, <1>4, <3>2 DEF Succeeds, HistoryI, OnlySaved
    <3>. QED  BY <3>1, <3>2
  <2>. QED  BY <1>2, <1>6, <2>1, <2>2 DEF HistoryI, OnlySaved
<1>8. CASE "history" \in Fact(e)
  <2>1. HistoryAnswered'
    BY <1>4, <1>8 DEF HistoryAnswered
  <2>2. HistoryFollowed'
    <3>1. CASE e.type = "history-changed"
      BY <1>4, <3>1 DEF HistoryFollowed, AsksHistory, ForHistory
    <3>2. CASE e.type = "note" /\ e.value = "ok"
      <4>1. \A n : n \in ui.saved \/ Comes(n) => n \in ui'.saved \/ Comes(n)'
        BY <1>2, <1>5, <1>6, <3>2 DEF Comes, Ok
      <4>2. AsksHistory => AsksHistory'
        BY <1>4 DEF Succeeds, AsksHistory, ForHistory
      <4>. QED  BY <1>2, <4>1, <4>2 DEF HistoryI, HistoryFollowed, WillAsk
    <3>. QED  BY <1>8, <3>1, <3>2, FactMeans DEF Saves
  <2>. QED  BY <1>7, <2>1, <2>2 DEF HistoryI
<1>9. CASE "history" \notin Fact(e)
  <2>1. ~(e.type = "note" /\ e.value = "ok")
    BY <1>9, FactMeans DEF Saves
  <2>2. \A n : Comes(n) => Comes(n)'
    BY <1>2, <1>6, <2>1 DEF Comes, Ok
  <2>3. WillAsk => WillAsk'
    BY <1>2 DEF WillAsk
  <2>4. HistoryFollowed' /\ HistoryAnswered'
    BY <1>2, <1>4, <1>5, <2>1, <2>2, <2>3, HistoryFrame
  <2>. QED  BY <1>7, <2>4 DEF HistoryI
<1>. QED  BY <1>8, <1>9

LEMMA HistoryRespond ==
  ASSUME Shapes, HistoryI, NEW r \in requests, Respond(r)
  PROVE  HistoryI'
<1>1. UNCHANGED <<saved, todo, queue, link, opened, ui, astray>>
  BY DEF Respond, engineVars, brokerVars, history
<1>2. /\ \A q \in requests' : q \in requests \/ q.snap = [phase |-> phase, note |-> note, saved |-> saved]
      /\ \A q \in requests : \E p \in requests' : p.for = q.for
  BY Answered
<1>3. \A n : Comes(n)' <=> Comes(n)
  BY <1>1 DEF Comes
<1>4. OnlySaved'
  BY <1>1, <1>2 DEF HistoryI, OnlySaved
<1>5. HistoryFollowed'
  BY <1>1, <1>2, <1>3 DEF HistoryI, HistoryFollowed, WillAsk, AsksHistory
<1>6. HistoryAnswered'
  BY <1>1, <1>2, <1>3 DEF HistoryI, HistoryAnswered
<1>. QED  BY <1>4, <1>5, <1>6 DEF HistoryI

LEMMA AppliedList ==
  ASSUME NEW w \in Screens, NEW s \in Snaps
  PROVE  /\ FromHistory(w, s.saved).saved = s.saved
         /\ [w EXCEPT !.phase = s.phase].saved = w.saved
         /\ [w EXCEPT !.note = s.note].saved = w.saved
         /\ [w EXCEPT !.phase = s.phase, !.note = s.note, !.saved = s.saved].saved = s.saved
         /\ [Unwatched(w) EXCEPT !.note = "off"].saved = w.saved
<1>1. FromHistory(w, s.saved).saved = s.saved
  BY DEF FromHistory, Screens
<1>2. Unwatched(w) \in Screens /\ Unwatched(w).saved = w.saved
  BY DEF Unwatched, Screens
<1>3. [w EXCEPT !.phase = s.phase].saved = w.saved /\ [w EXCEPT !.note = s.note].saved = w.saved
  BY DEF Screens
<1>4. [w EXCEPT !.phase = s.phase, !.note = s.note, !.saved = s.saved].saved = s.saved
  BY DEF Screens
<1>5. [Unwatched(w) EXCEPT !.note = "off"].saved = w.saved
  BY <1>2 DEF Screens
<1>. QED  BY <1>1, <1>3, <1>4, <1>5

LEMMA HistoryApply ==
  ASSUME Shapes, HistoryI, NEW r \in requests, Apply(r)
  PROVE  HistoryI'
<1>1. UNCHANGED <<saved, todo, queue, link, opened>>
  BY DEF Apply, engineVars, brokerVars
<1>2. requests' \subseteq requests /\ \A q \in requests : q # r /\ q.for # "poll" => q \in requests'
  BY Applies DEF Kept
<1>3. \A n : Comes(n)' <=> Comes(n)
  BY <1>1 DEF Comes
<1>4. r \in Requests /\ r.snap \in Snaps /\ ui \in Screens /\ r.snap # NoSnap
  BY Applies DEF Shapes, Requests, Snaps
<1>5. /\ r.for \in ForHistory => ui'.saved = r.snap.saved
      /\ r.for \notin ForHistory => ui'.saved = ui.saved
  <2>1. /\ FromHistory(ui, r.snap.saved).saved = r.snap.saved
        /\ [ui EXCEPT !.phase = r.snap.phase].saved = ui.saved
        /\ [ui EXCEPT !.note = r.snap.note].saved = ui.saved
        /\ [ui EXCEPT !.phase = r.snap.phase, !.note = r.snap.note, !.saved = r.snap.saved].saved = r.snap.saved
        /\ [Unwatched(ui) EXCEPT !.note = "off"].saved = ui.saved
    BY <1>4, AppliedList
  <2>2. r.for \in {"state", "op", "discard", "poll", "history"}
    BY <1>4 DEF Requests
  <2>. QED  BY <2>1, <2>2, Applies DEF ForHistory
<1>6. OnlySaved'
  BY <1>1, <1>2, <1>5 DEF HistoryI, OnlySaved
<1>7. HistoryAnswered'
  BY <1>1, <1>2, <1>3 DEF HistoryI, HistoryAnswered
<1>8. HistoryFollowed'
  <2>1. CASE r.for \in ForHistory
    <3>1. SUFFICES ASSUME "history" \notin astray' PROVE \A n \in saved : n \in ui'.saved \/ Comes(n)
      BY <1>1, <1>3 DEF HistoryFollowed
    <3>2. "history" \notin r.old
      BY <2>1, <3>1, AppliedFacts DEF ForHistory
    <3>. QED  BY <1>4, <1>5, <2>1, <3>2 DEF HistoryI, HistoryAnswered
  <2>2. CASE r.for \notin ForHistory
    <3>1. AsksHistory => AsksHistory'
      BY <1>2, <2>2 DEF AsksHistory, ForHistory
    <3>2. "history" \in astray => "history" \in astray'
      BY <2>2, AppliedFacts DEF ForHistory
    <3>. QED  BY <1>1, <1>3, <1>5, <2>2, <3>1, <3>2 DEF HistoryI, HistoryFollowed, WillAsk
  <2>. QED  BY <2>1, <2>2
<1>. QED  BY <1>6, <1>7, <1>8 DEF HistoryI

LEMMA HistoryLink ==
  ASSUME Shapes, Counts, Wiring, HistoryI,
         Connect \/ Break \/ Reconnect \/ Restart \/ \E c \in Conns : Headers(c)
  PROVE  HistoryI'
<1>0. \A n : ~Brings(<< >>, n)
  BY HasNone DEF Brings
<1>1. CASE Connect
  <2>1. UNCHANGED <<saved, todo, queue, ui, astray>> /\ requests' = requests \union Request("state")
    BY <1>1 DEF Connect, engineVars, history
  <2>2. Succeeds(requests, requests') /\ AsksHistory'
    BY <2>1, SucceedsItself, AskedSucceeds DEF AsksHistory, ForHistory
  <2>3. \A n : Comes(n) => Comes(n)'
    BY <2>1 DEF Comes
  <2>4. HistoryFollowed' /\ HistoryAnswered'
    BY <2>1, <2>2, <2>3, HistoryFrame
  <2>5. OnlySaved'
    BY <2>1, <2>2, SavedFrame DEF HistoryI
  <2>. QED  BY <2>4, <2>5 DEF HistoryI
<1>2. CASE Break
  <2>1. /\ UNCHANGED <<saved, todo, ui, opened>> /\ queue' = << >> /\ requests' = Aged({"note", "history"})
        /\ link' = "down" /\ (~opened => astray' = Facts)
    BY <1>2 DEF Break, engineVars
  <2>2. Succeeds(requests, requests') /\ \A q \in requests' : q.snap # NoSnap => "history" \in q.old
    BY <2>1, AgedSucceeds DEF Shapes
  <2>3. OnlySaved'
    BY <1>0, <2>1, <2>2, SavedFrame DEF HistoryI
  <2>4. HistoryAnswered'
    BY <2>2 DEF HistoryAnswered
  <2>5. HistoryFollowed'
    BY <2>1 DEF HistoryFollowed, WillAsk, Facts
  <2>. QED  BY <2>3, <2>4, <2>5 DEF HistoryI
<1>3. CASE Reconnect
  <2>1. /\ UNCHANGED <<saved, todo, ui, opened, astray, requests>> /\ queue' = queue
        /\ link = "down" /\ link' = "opening"
    BY <1>3 DEF Reconnect, engineVars, history, Wiring, Held
  <2>2. \A n : Comes(n) => Comes(n)'
    BY <2>1 DEF Comes
  <2>3. WillAsk => WillAsk'
    BY <2>1 DEF WillAsk
  <2>4. Succeeds(requests, requests')
    BY <2>1, SucceedsItself
  <2>5. HistoryFollowed' /\ HistoryAnswered'
    BY <2>1, <2>2, <2>3, <2>4, HistoryFrame
  <2>6. OnlySaved'
    BY <2>1 DEF HistoryI, OnlySaved
  <2>. QED  BY <2>5, <2>6 DEF HistoryI
<1>4. CASE Restart
  <2>1. /\ queue' = << >> /\ requests' = {} /\ (\A t \in Threads : todo'[t] = << >>) /\ opened' = opened
        /\ link' = (IF link = "waiting" THEN link ELSE "down") /\ saved' = saved
        /\ (~opened /\ link # "waiting" => astray' = Facts)
    BY <1>4 DEF Restart
  <2>2. ui'.saved = ui.saved
    BY <1>4 DEF Restart, Shapes, Screens
  <2>3. OnlySaved'
    BY <1>0, <2>1, <2>2 DEF HistoryI, OnlySaved
  <2>4. HistoryAnswered'
    BY <2>1 DEF HistoryAnswered
  <2>5. HistoryFollowed'
    BY <2>1 DEF HistoryFollowed, WillAsk, Facts
  <2>. QED  BY <2>3, <2>4, <2>5 DEF HistoryI
<1>5. ASSUME NEW c \in Conns, Headers(c)
      PROVE  HistoryI'
  <2>1. UNCHANGED <<saved, todo, queue, ui, astray>>
    BY <1>5 DEF Headers, engineVars
  <2>2. \/ UNCHANGED <<link, opened, requests>>
        \/ /\ c = conn /\ link' = "open" /\ opened' = TRUE
           /\ requests' = (IF opened THEN requests \union Request("state") ELSE requests)
    BY <1>5 DEF Headers, Opens, Gone
  <2>3. Succeeds(requests, requests')
    BY <2>2, SucceedsItself, AskedSucceeds
  <2>4. c # 0
    BY StreamAssumption DEF Conns
  <2>5. WillAsk => WillAsk' \/ AsksHistory'
    <3>1. CASE UNCHANGED <<link, opened, requests>>
      BY <3>1 DEF WillAsk
    <3>2. CASE c = conn /\ opened /\ requests' = requests \union Request("state")
      <4>1. \E q \in requests \union Request("state") : q.for = "state"
        BY SucceedsItself, AskedSucceeds
      <4>. QED  BY <3>2, <4>1 DEF AsksHistory, ForHistory
    <3>3. CASE c = conn /\ ~opened
      BY <2>4, <3>3 DEF WillAsk, Wiring
    <3>. QED  BY <2>2, <3>1, <3>2, <3>3
  <2>6. \A n : Comes(n) => Comes(n)'
    BY <2>1 DEF Comes
  <2>7. HistoryFollowed' /\ HistoryAnswered'
    BY <2>1, <2>3, <2>5, <2>6, HistoryFrame
  <2>8. OnlySaved'
    BY <2>1, <2>3, SavedFrame DEF HistoryI
  <2>. QED  BY <2>7, <2>8 DEF HistoryI
<1>. QED  BY <1>1, <1>2, <1>3, <1>4, <1>5

LEMMA HistoryOther ==
  ASSUME Shapes, HistoryI, Serve \/ Wire \/ Poll \/ Watchdog \/ \E c \in Conns : Accept(c) \/ StreamEnds(c)
  PROVE  HistoryI'
<1>1. /\ UNCHANGED <<saved, todo, queue, astray, link, opened>> /\ ui'.saved = ui.saved
      /\ requests' = requests \/ requests' = requests \union Request("poll")
  BY DEF Serve, Wire, Poll, Watchdog, Accept, StreamEnds, engineVars, brokerVars, windowVars, history, Shapes, Screens
<1>2. Succeeds(requests, requests')
  BY <1>1, SucceedsItself, AskedSucceeds
<1>3. \A n : Comes(n) => Comes(n)'
  BY <1>1 DEF Comes
<1>4. WillAsk => WillAsk'
  BY <1>1 DEF WillAsk
<1>5. HistoryFollowed' /\ HistoryAnswered'
  BY <1>1, <1>2, <1>3, <1>4, HistoryFrame
<1>6. OnlySaved'
  BY <1>1, <1>2, SavedFrame DEF HistoryI
<1>. QED  BY <1>5, <1>6 DEF HistoryI

LEMMA HistoryCleaning ==
  ASSUME Shapes, HistoryI, Cleaning
  PROVE  HistoryI'
<1>1. UNCHANGED <<saved, todo, queue, ui, link, opened>>
  BY CleaningMeans
<1>2. Succeeds(requests, requests') /\ ("history" \in astray => "history" \in astray')
  <2>1. Succeeds(requests, requests)
    BY SucceedsItself
  <2>2. Succeeds(requests, Aged({"note"}))
    BY AgedSucceeds DEF Shapes
  <2>. QED  BY <2>1, <2>2, CleaningMeans
<1>3. \A n : Comes(n) => Comes(n)'
  BY <1>1 DEF Comes
<1>4. WillAsk => WillAsk'
  BY <1>1 DEF WillAsk
<1>5. HistoryFollowed' /\ HistoryAnswered'
  BY <1>1, <1>2, <1>3, <1>4, HistoryFrame
<1>6. OnlySaved'
  BY <1>1, <1>2, SavedFrame DEF HistoryI
<1>. QED  BY <1>5, <1>6 DEF HistoryI

LEMMA HistoryStep ==
  ASSUME Shapes, Counts, Wiring, HistoryI, StreamNext
  PROVE  HistoryI'
  BY HistoryEngine, HistoryBroker, HistoryDeliver, HistoryRespond, HistoryApply, HistoryLink, HistoryOther,
     HistoryCleaning DEF StreamNext, NoteAction, Cleaning

-----------------------------------------------------------------------------
(* The outcome of a note, and its end                                        *)

NoEnd(s, n) == \A e \in Has(s) : ~IsEnd(e, n)
HasOutcome(s, n) == \E e \in Has(s) : IsOutcome(e, n)
\* The note is not recorded any more.
Over(n) == n <= notes /\ (n = notes => note = "off")
Done(n) == told = n \/ HasOutcome(queue, n) \/ \E t \in Threads : HasOutcome(todo[t], n)

DoneIsOver == \A n \in Notes \ early : Done(n) => Over(n) /\ \A t \in Threads : NoEnd(todo[t], n)
ToldIsShown == \A n \in Notes \ early : told = n => NoEnd(queue, n) /\ ~(ui.view = "processing" /\ ui.of = n)
InOrder == \A n \in Notes \ early : Ordered(queue, n)
UnansweredOver == \A n \in unanswered : Over(n)
ShownNumber == ui.view = "processing" => ui.of \in Notes
OutcomeI == DoneIsOver /\ ToldIsShown /\ InOrder /\ UnansweredOver /\ ShownNumber

\* The window shows a note as being transcribed that it showed before, or none.
Lingers == ui'.view = "processing" => ui.view = "processing" /\ ui'.of = ui.of

\* A step that ends no note and tells of no outcome.
LEMMA OutcomeFrame ==
  ASSUME OutcomeI, early \subseteq early', Lingers, told' = told,
         \A n : Over(n) => Over(n)', unanswered' \subseteq unanswered,
         \A t \in Threads : Has(todo'[t]) \subseteq Has(todo[t]),
         queue' = queue \/ queue' = << >>
  PROVE  OutcomeI'
<1>0. Has(queue') \subseteq Has(queue) /\ \A n : Ordered(queue, n) => Ordered(queue', n)
  BY HasNone
<1>1. \A n : Done(n)' => Done(n)
  BY <1>0 DEF Done, HasOutcome
<1>2. \A t \in Threads : \A n : NoEnd(todo[t], n) => NoEnd(todo'[t], n)
  BY DEF NoEnd
<1>3. DoneIsOver'
  BY <1>1, <1>2 DEF OutcomeI, DoneIsOver
<1>4. ToldIsShown'
  BY <1>0 DEF OutcomeI, ToldIsShown, Lingers, NoEnd
<1>5. InOrder'
  BY <1>0 DEF OutcomeI, InOrder
<1>6. UnansweredOver' /\ ShownNumber'
  BY DEF OutcomeI, UnansweredOver, ShownNumber, Lingers
<1>. QED  BY <1>3, <1>4, <1>5, <1>6 DEF OutcomeI

\* A thread is told of events about no outcome; they end no note that is done.
LEMMA OutcomeTell ==
  ASSUME Shapes, OutcomeI, NEW t \in Threads, NEW facts, NEW events \in Seq(Events), NEW request,
         Tell(t, facts, events, request), early \subseteq early', Lingers, UNCHANGED <<told, queue>>,
         \A n \in Notes \ early' : Over(n) => Over(n)' /\ NoEnd(events, n),
         \A n \in Notes \ early' : HasOutcome(events, n) => Over(n)' /\ \A u \in Threads : NoEnd(todo[u], n) /\ NoEnd(events, n),
         UnansweredOver'
  PROVE  OutcomeI'
<1>1. \A u \in Threads : Has(todo'[u]) \subseteq Has(todo[u]) \union (IF u = t THEN Has(events) ELSE {})
  BY TellAdds
<1>2. ASSUME NEW n \in Notes \ early', Done(n)' PROVE Over(n)' /\ \A u \in Threads : NoEnd(todo'[u], n)
  <2>0. n \in Notes \ early
    OBVIOUS
  <2>1. Done(n) \/ HasOutcome(events, n)
    BY <1>1, <1>2 DEF Done, HasOutcome
  <2>2. CASE HasOutcome(events, n)
    BY <1>1, <2>2 DEF NoEnd
  <2>3. CASE Done(n)
    <3>1. Over(n) /\ \A u \in Threads : NoEnd(todo[u], n)
      BY <2>0, <2>3 DEF OutcomeI, DoneIsOver
    <3>2. Over(n)' /\ NoEnd(events, n)
      BY <3>1
    <3>. QED  BY <1>1, <3>1, <3>2 DEF NoEnd
  <2>. QED  BY <2>1, <2>2, <2>3
<1>3. DoneIsOver'
  BY <1>2 DEF DoneIsOver
<1>4. ToldIsShown' /\ InOrder' /\ ShownNumber'
  BY DEF OutcomeI, ToldIsShown, InOrder, ShownNumber, Lingers
<1>. QED  BY <1>3, <1>4 DEF OutcomeI

LEMMA Made ==
  /\ \A v, m, n : IsEnd(Recording(v, m), n) => v = "off" /\ m = n
  /\ \A v, m, n : ~IsOutcome(Recording(v, m), n)
  /\ \A m, n : ~IsEnd(Stale(m), n)
  /\ \A m, n : ~IsOutcome(Stale(m), n)
  /\ \A m, n : ~IsEnd(Changed(m), n)
  /\ \A m, n : ~IsOutcome(Changed(m), n)
  /\ \A v, m, n : ~IsEnd(Outcome(v, m), n)
  /\ \A v, m, n : IsOutcome(Outcome(v, m), n) => m = n
  /\ \A v, m, n : ~IsEnd(Event("model", v, m), n)
  /\ \A v, m, n : ~IsOutcome(Event("model", v, m), n)
  /\ \A v, m, n : ~IsEnd(Event("audio-level", v, m), n)
  /\ \A v, m, n : ~IsOutcome(Event("audio-level", v, m), n)
  BY DEF IsEnd, IsOutcome, Rec, Recording, Stale, Changed, Outcome, Event

LEMMA OutcomeEngine ==
  ASSUME Shapes, Counts, Failures, OutcomeI,
         NoteAction \/ DiscardNote \/ FailNote \/ LoadEnds \/ \E n \in Notes : Answer(n)
  PROVE  OutcomeI'
<1>0. /\ "op" \in Threads /\ "worker" \in Threads /\ "loader" \in Threads /\ notes \in Nat
      /\ \A n \in Notes : n \in Nat /\ unanswered \subseteq Notes
  BY DEF Threads, Counts, Notes, Shapes
<1>1. CASE NoteAction
  <2>1. PICK by \in {"window", "silence"}, v \in {"on", "paused", "off"} :
           /\ Op(by, v, notes') /\ notes' \in Notes
           /\ notes' = notes \/ (notes' = notes + 1 /\ note = "off")
           /\ unanswered' = unanswered \/ (unanswered' = unanswered \union {notes} /\ v = "off" /\ note # "off" /\ notes' = notes)
           /\ \/ v # "off"
              \/ note # "off" /\ notes' = notes /\ unanswered' = unanswered \union {notes}
              \/ note = "off" /\ mic /\ notes' = notes /\ unanswered' = unanswered
    BY <1>1, NoteActionIsOp
  <2>. DEFINE es == <<Recording(v, notes')>>
  <2>2. es \in Seq(Events) /\ Has(es) = {Recording(v, notes')}
    BY <2>1, MadeEvents, EventSeqs, HasMade DEF Noted
  <2>3. PICK request : Tell("op", {"note"}, es, request)
    BY <2>1 DEF Op
  <2>4. UNCHANGED <<early, told, queue, ui>> /\ note' = v
    BY <2>1 DEF Op, brokerVars
  <2>5. note # "off" \/ notes' = notes + 1 \/ note' = "off"
    BY <1>1 DEF NoteAction, StartNote, ResumeNote, StopNote, StopFailed, PauseNote, Op
  <2>. HIDE DEF es
  <2>6. \A n \in Notes : Over(n) => Over(n)'
    BY <1>0, <2>1, <2>4, <2>5 DEF Over
  <2>7. \A n \in Notes \ early : Over(n) => NoEnd(es, n)
    <3>1. \A n \in Notes \ early : Over(n) /\ v = "off" => notes' # n
      BY <1>0, <2>1 DEF Over, Failures
    <3>. QED  BY <2>2, <3>1, Made DEF NoEnd
  <2>8. \A n : ~HasOutcome(es, n)
    BY <2>2, Made DEF HasOutcome
  <2>9. UnansweredOver'
    <3>1. notes \in Notes /\ v = "off" /\ notes' = notes => Over(notes)'
      BY <1>0, <2>4 DEF Over
    <3>2. note # "off" => notes \in Notes
      BY NoteNumber
    <3>. QED  BY <1>0, <2>1, <2>6, <3>1, <3>2 DEF OutcomeI, UnansweredOver
  <2>. QED  BY <1>0, <2>2, <2>3, <2>4, <2>6, <2>7, <2>8, <2>9, OutcomeTell DEF Lingers
<1>2. CASE DiscardNote
  <2>. DEFINE es == <<Recording("discarded", notes), Stale(notes)>>
  <2>1. notes \in Notes
    BY <1>2, NoteNumber DEF DiscardNote
  <2>2. es \in Seq(Events) /\ Has(es) = {Recording("discarded", notes), Stale(notes)}
    BY <2>1, MadeEvents, EventSeqs, HasMade DEF Noted
  <2>3. Tell("op", {"note"}, es, Request("discard")) /\ UNCHANGED <<early, told, queue, notes, unanswered>>
    BY <1>2 DEF DiscardNote, brokerVars
  <2>4. note' = "off"
    BY <1>2 DEF DiscardNote
  <2>5. Lingers
    BY <1>2 DEF DiscardNote, Shapes, Screens, Lingers
  <2>. HIDE DEF es
  <2>6. \A n : Over(n) => Over(n)'
    BY <2>3, <2>4 DEF Over
  <2>7. \A n : NoEnd(es, n) /\ ~HasOutcome(es, n)
    BY <2>2, Made DEF NoEnd, HasOutcome
  <2>8. UnansweredOver'
    BY <2>3, <2>6 DEF OutcomeI, UnansweredOver
  <2>. QED  BY <1>0, <2>2, <2>3, <2>5, <2>6, <2>7, <2>8, OutcomeTell
<1>3. CASE FailNote
  <2>. DEFINE es == <<Stale(notes), Outcome("failed", notes), Recording("off", notes)>>
  <2>1. notes \in Notes
    BY <1>3, NoteNumber DEF FailNote
  <2>2. es \in Seq(Events) /\ Has(es) = {Stale(notes), Outcome("failed", notes), Recording("off", notes)}
    BY <2>1, MadeEvents, EventSeqs, HasMade DEF Noted
  <2>3. /\ Tell("worker", {"note"}, es, {}) /\ UNCHANGED <<told, queue, notes, unanswered, ui>>
        /\ early' = early \union {notes} /\ note' = "off"
    BY <1>3 DEF FailNote, brokerVars
  <2>. HIDE DEF es
  <2>4. \A n : Over(n) => Over(n)'
    BY <2>3 DEF Over
  <2>5. \A n : n # notes => NoEnd(es, n) /\ ~HasOutcome(es, n)
    BY <2>2, Made DEF NoEnd, HasOutcome
  <2>6. UnansweredOver' /\ \A n \in Notes \ early' : n # notes
    BY <2>3, <2>4 DEF OutcomeI, UnansweredOver
  <2>7. \A n \in Notes \ early' : (Over(n) => Over(n)' /\ NoEnd(es, n)) /\ ~HasOutcome(es, n)
    BY <2>4, <2>5, <2>6
  <2>. QED  BY <1>0, <2>2, <2>3, <2>6, <2>7, OutcomeTell DEF Lingers
<1>4. CASE LoadEnds
  <2>. DEFINE es == <<Event("model", phase', 0)>>
  <2>1. es \in Seq(Events) /\ Has(es) = {Event("model", phase', 0)}
    BY <1>4, MadeEvents, EventSeqs, HasMade DEF LoadEnds
  <2>2. Tell("loader", {}, es, {}) /\ UNCHANGED <<early, told, queue, note, notes, unanswered, ui>>
    BY <1>4 DEF LoadEnds, brokerVars
  <2>. HIDE DEF es
  <2>3. \A n : NoEnd(es, n) /\ ~HasOutcome(es, n)
    BY <2>1, Made DEF NoEnd, HasOutcome
  <2>4. \A n : Over(n) => Over(n)'
    BY <2>2 DEF Over
  <2>5. UnansweredOver'
    BY <2>2, <2>4 DEF OutcomeI, UnansweredOver
  <2>. QED  BY <1>0, <2>1, <2>2, <2>3, <2>4, <2>5, OutcomeTell DEF Lingers
<1>5. ASSUME NEW n \in Notes, Answer(n)
      PROVE  OutcomeI'
  <2>1. /\ UNCHANGED <<queue, ui, note, notes, told>> /\ n \in unanswered /\ unanswered' = unanswered \ {n}
        /\ early' = (IF Settled THEN early ELSE early \union {n})
    BY <1>5 DEF Answer, brokerVars
  <2>2. (\A m : Over(m) => Over(m)') /\ Over(n)'
    BY <2>1 DEF Over, OutcomeI, UnansweredOver
  <2>3. UnansweredOver'
    BY <2>1, <2>2 DEF OutcomeI, UnansweredOver
  <2>4. n \notin early' => \A u \in Threads : NoEnd(todo[u], n)
    <3>1. ASSUME n \notin early' PROVE n \notin early /\ ~Mentions(todo["op"])
      BY <2>1, <3>1, SettledMeans
    <3>2. \A u \in Threads : u # "op" => \A e \in Has(todo[u]) : Rec(e) => e.n \in early
      BY DEF Failures
    <3>. QED  BY <3>1, <3>2 DEF NoEnd, Mentions, IsEnd
  <2>5. ASSUME NEW facts, NEW events \in Seq(Events), Tell("worker", facts, events, {}),
               \A m : NoEnd(events, m) /\ (HasOutcome(events, m) => m = n)
        PROVE  OutcomeI'
    <3>1. \A m \in Notes \ early' : HasOutcome(events, m) =>
            Over(m)' /\ \A u \in Threads : NoEnd(todo[u], m) /\ NoEnd(events, m)
      BY <2>2, <2>4, <2>5
    <3>2. early \subseteq early' /\ Lingers
      BY <2>1 DEF Lingers
    <3>. QED  BY <1>0, <2>1, <2>2, <2>3, <2>5, <3>1, <3>2, OutcomeTell
  <2>6. CASE Tell("worker", {"history"}, <<Changed(n), Outcome("ok", n)>>, {})
    <3>1. <<Changed(n), Outcome("ok", n)>> \in Seq(Events) /\ Has(<<Changed(n), Outcome("ok", n)>>) = {Changed(n), Outcome("ok", n)}
      BY MadeEvents, EventSeqs, HasMade
    <3>2. \A m : NoEnd(<<Changed(n), Outcome("ok", n)>>, m) /\ (HasOutcome(<<Changed(n), Outcome("ok", n)>>, m) => m = n)
      BY <3>1, Made DEF NoEnd, HasOutcome
    <3>. QED  BY <2>5, <2>6, <3>1, <3>2
  <2>7. CASE Tell("worker", {}, <<Outcome("empty", n)>>, {})
    <3>1. <<Outcome("empty", n)>> \in Seq(Events) /\ Has(<<Outcome("empty", n)>>) = {Outcome("empty", n)}
      BY MadeEvents, EventSeqs, HasMade
    <3>2. \A m : NoEnd(<<Outcome("empty", n)>>, m) /\ (HasOutcome(<<Outcome("empty", n)>>, m) => m = n)
      BY <3>1, Made DEF NoEnd, HasOutcome
    <3>. QED  BY <2>5, <2>7, <3>1, <3>2
  <2>8. CASE Tell("worker", {}, <<Stale(n), Outcome("failed", n)>>, {})
    <3>1. <<Stale(n), Outcome("failed", n)>> \in Seq(Events) /\ Has(<<Stale(n), Outcome("failed", n)>>) = {Stale(n), Outcome("failed", n)}
      BY MadeEvents, EventSeqs, HasMade
    <3>2. \A m : NoEnd(<<Stale(n), Outcome("failed", n)>>, m) /\ (HasOutcome(<<Stale(n), Outcome("failed", n)>>, m) => m = n)
      BY <3>1, Made DEF NoEnd, HasOutcome
    <3>. QED  BY <2>5, <2>8, <3>1, <3>2
  <2>. QED  BY <1>5, <2>6, <2>7, <2>8 DEF Answer
<1>. QED  BY <1>1, <1>2, <1>3, <1>4, <1>5

LEMMA OutcomeBroadcast ==
  ASSUME Shapes, OutcomeI, NEW e \in Events, NEW late, Broadcast(e, late),
         UNCHANGED <<note, notes, ui, told, early, unanswered>>,
         \A t \in Threads : Has(todo'[t]) \subseteq Has(todo[t]),
         \A n : IsEnd(e, n) => \E t \in Threads : ~NoEnd(todo[t], n),
         \A n : IsOutcome(e, n) => \E t \in Threads : HasOutcome(todo[t], n)
  PROVE  OutcomeI'
<1>0. queue \in Seq(Events)
  BY DEF Shapes
<1>1. CASE queue' = Append(queue, e)
  <2>1. /\ Has(queue') = Has(queue) \union {e}
        /\ \A n : Ordered(queue, n) /\ (IsEnd(e, n) => \A f \in Has(queue) : ~IsOutcome(f, n)) => Ordered(queue', n)
    BY <1>0, <1>1, Appended
  <2>2. \A n : Over(n)' <=> Over(n)
    BY DEF Over
  <2>3. \A n : Done(n)' => Done(n)
    BY <2>1 DEF Done, HasOutcome
  <2>4. DoneIsOver'
    BY <2>2, <2>3 DEF OutcomeI, DoneIsOver, NoEnd
  <2>5. ASSUME NEW n \in Notes \ early, Done(n) PROVE ~IsEnd(e, n)
    BY <2>5 DEF OutcomeI, DoneIsOver
  <2>6. ToldIsShown'
    BY <2>1, <2>5 DEF OutcomeI, ToldIsShown, NoEnd, Done
  <2>7. InOrder'
    <3>1. ASSUME NEW n \in Notes \ early PROVE IsEnd(e, n) => \A f \in Has(queue) : ~IsOutcome(f, n)
      BY <2>5 DEF Done, HasOutcome
    <3>. QED  BY <2>1, <3>1 DEF OutcomeI, InOrder
  <2>8. UnansweredOver' /\ ShownNumber'
    BY <2>2 DEF OutcomeI, UnansweredOver, ShownNumber
  <2>. QED  BY <2>4, <2>6, <2>7, <2>8 DEF OutcomeI
<1>2. CASE queue' = queue
  BY <1>2, OutcomeFrame DEF Lingers, Over
<1>. QED  BY <1>1, <1>2 DEF Broadcast

LEMMA OutcomeBroker ==
  ASSUME Shapes, OutcomeI, Level \/ \E t \in Threads : Publish(t)
  PROVE  OutcomeI'
<1>1. CASE Level
  <2>1. UNCHANGED <<note, notes, ui, told, early, unanswered, todo>> /\ Broadcast(Event("audio-level", "", 0), {})
    BY <1>1 DEF Level, engineVars
  <2>2. \A n : ~IsEnd(Event("audio-level", "", 0), n) /\ ~IsOutcome(Event("audio-level", "", 0), n)
    BY Made
  <2>. QED  BY <2>1, <2>2, MadeEvents, OutcomeBroadcast
<1>2. ASSUME NEW t \in Threads, Publish(t)
      PROVE  OutcomeI'
  <2>. DEFINE e == Head(todo[t])
  <2>1. UNCHANGED <<note, notes, ui, told, early, unanswered>>
    BY <1>2 DEF Publish, engineVars
  <2>2. /\ e \in Events /\ Has(todo[t]) = Has(todo'[t]) \union {e}
        /\ \A u \in Threads : u # t => todo'[u] = todo[u]
    BY <1>2, PublishTakes
  <2>6. PICK late \in {{}, {"note"}} : Broadcast(e, late)
    BY <1>2, PublishTakes
  <2>. HIDE DEF e
  <2>3. \A u \in Threads : Has(todo'[u]) \subseteq Has(todo[u])
    BY <2>2
  <2>4. \A n : IsEnd(e, n) => ~NoEnd(todo[t], n)
    BY <2>2 DEF NoEnd
  <2>5. \A n : IsOutcome(e, n) => HasOutcome(todo[t], n)
    BY <2>2 DEF HasOutcome
  <2>. QED  BY <2>1, <2>2, <2>3, <2>4, <2>5, <2>6, OutcomeBroadcast
<1>. QED  BY <1>1, <1>2

LEMMA ShownView ==
  ASSUME NEW w \in Screens, NEW e \in Events, NEW z,
         \/ Rec(e) /\ z = OnRecording(w, e)
         \/ e.type = "note" /\ z = OnOutcome(w, e)
         \/ e.type = "transcript" /\ z = OnStale(w)
         \/ e.type = "model" /\ z = [w EXCEPT !.phase = e.value]
         \/ e.type \in {"history-changed", "audio-level"} /\ z = w,
         z.view = "processing"
  PROVE  /\ e.type # "note"
         /\ \/ w.view = "processing" /\ z.of = w.of
            \/ IsEnd(e, z.of) /\ z.of \in Notes
<1>0. Unwatched(w) \in Screens /\ Unwatched(w).view = "none"
  BY DEF Unwatched, Screens
<1>1. CASE Rec(e) /\ z = OnRecording(w, e)
  <2>0. e.value \in Noted /\ e.n \in Notes /\ e.type # "note"
    BY <1>1, EventFields DEF Rec
  <2>1. CASE e.value = "paused"
    BY <1>1, <2>0, <2>1 DEF OnRecording, Screens
  <2>2. CASE e.value = "on"
    BY <1>0, <1>1, <2>2 DEF OnRecording, Screens
  <2>3. CASE e.value = "discarded" \/ (e.value = "off" /\ w.discarding)
    BY <1>0, <1>1, <2>3 DEF OnRecording, Screens
  <2>4. CASE e.value = "off" /\ ~w.discarding
    <3>1. z.of = e.n
      BY <1>1, <2>4 DEF OnRecording, Screens
    <3>. QED  BY <1>1, <2>0, <2>4, <3>1 DEF IsEnd
  <2>. QED  BY <2>0, <2>1, <2>2, <2>3, <2>4 DEF Noted
<1>2. CASE e.type = "note" /\ z = OnOutcome(w, e)
  BY <1>2 DEF OnOutcome, Screens
<1>3. CASE e.type = "transcript" /\ z = OnStale(w)
  BY <1>0, <1>3 DEF OnStale
<1>4. CASE e.type = "model" /\ z = [w EXCEPT !.phase = e.value]
  BY <1>4 DEF Screens
<1>5. CASE e.type \in {"history-changed", "audio-level"} /\ z = w
  BY <1>5
<1>. QED  BY <1>1, <1>2, <1>3, <1>4, <1>5

LEMMA OutcomeDeliver ==
  ASSUME Shapes, OutcomeI, Deliver
  PROVE  OutcomeI'
<1>. DEFINE e == Head(queue)
<1>1. e \in Events /\ queue' = Tail(queue) /\ queue \in Seq(Events) /\ queue # << >> /\ ui \in Screens
  BY Deliverable DEF Shapes
<1>2. UNCHANGED <<note, notes, unanswered, todo, early>>
  BY DEF Deliver, engineVars
<1>3. /\ Has(queue) = Has(queue') \union {e}
      /\ \A n : Ordered(queue, n) => Ordered(queue', n) /\ (IsOutcome(e, n) => \A f \in Has(queue') : ~IsEnd(f, n))
  BY <1>1, Taken
<1>4. told' = IF e.type = "note" THEN e.n ELSE told
  BY Delivers
<1>5. ui'.view = "processing" => /\ e.type # "note"
                                 /\ \/ ui.view = "processing" /\ ui'.of = ui.of
                                    \/ IsEnd(e, ui'.of) /\ ui'.of \in Notes
  <2>1. \/ Rec(e) /\ ui' = OnRecording(ui, e)
        \/ e.type = "note" /\ ui' = OnOutcome(ui, e)
        \/ e.type = "transcript" /\ ui' = OnStale(ui)
        \/ e.type = "model" /\ ui' = [ui EXCEPT !.phase = e.value]
        \/ e.type \in {"history-changed", "audio-level"} /\ ui' = ui
    BY <1>1, Delivers, EventFields DEF Rec
  <2>. HIDE DEF e
  <2>. QED  BY <1>1, <2>1, ShownView
<1>. HIDE DEF e
<1>6. \A n : Over(n)' <=> Over(n)
  BY <1>2 DEF Over
<1>7. \A n : Done(n)' => Done(n)
  BY <1>2, <1>3, <1>4 DEF Done, HasOutcome, IsOutcome
<1>8. DoneIsOver'
  BY <1>2, <1>6, <1>7 DEF OutcomeI, DoneIsOver
<1>9. ASSUME NEW n \in Notes \ early, told' = n
      PROVE  NoEnd(queue', n) /\ ~(ui'.view = "processing" /\ ui'.of = n)
  <2>1. CASE e.type = "note"
    <3>1. IsOutcome(e, n)
      BY <1>4, <1>9, <2>1 DEF IsOutcome
    <3>. QED  BY <1>3, <1>5, <2>1, <3>1 DEF OutcomeI, InOrder, NoEnd
  <2>2. CASE e.type # "note"
    <3>1. told = n
      BY <1>4, <1>9, <2>2
    <3>2. NoEnd(queue, n) /\ ~(ui.view = "processing" /\ ui.of = n)
      BY <3>1 DEF OutcomeI, ToldIsShown
    <3>. QED  BY <1>3, <1>5, <3>2 DEF NoEnd
  <2>. QED  BY <2>1, <2>2
<1>10. ToldIsShown'
  BY <1>2, <1>9 DEF ToldIsShown
<1>11. InOrder' /\ UnansweredOver' /\ ShownNumber'
  BY <1>2, <1>3, <1>5, <1>6 DEF OutcomeI, InOrder, UnansweredOver, ShownNumber
<1>. QED  BY <1>8, <1>10, <1>11 DEF OutcomeI

Still(w, z) == z.view = "processing" => w.view = "processing" /\ z.of = w.of

LEMMA AppliedView ==
  ASSUME NEW w \in Screens, NEW s \in Snaps
  PROVE  /\ Still(w, FromHistory(w, s.saved))
         /\ Still(w, [w EXCEPT !.phase = s.phase])
         /\ Still(w, [w EXCEPT !.note = s.note])
         /\ Still(w, [w EXCEPT !.phase = s.phase, !.note = s.note, !.saved = s.saved])
         /\ Still(w, [Unwatched(w) EXCEPT !.note = "off"])
<1>1. Still(w, FromHistory(w, s.saved))
  BY DEF FromHistory, Screens, Still
<1>2. Still(w, [w EXCEPT !.phase = s.phase]) /\ Still(w, [w EXCEPT !.note = s.note])
  BY DEF Screens, Still
<1>3. Still(w, [w EXCEPT !.phase = s.phase, !.note = s.note, !.saved = s.saved])
  BY DEF Screens, Still
<1>4. Still(w, [Unwatched(w) EXCEPT !.note = "off"])
  <2>1. Unwatched(w) \in Screens /\ Unwatched(w).view = "none"
    BY DEF Unwatched, Screens
  <2>. QED  BY <2>1 DEF Screens, Still
<1>. QED  BY <1>1, <1>2, <1>3, <1>4

LEMMA OutcomeOther ==
  ASSUME Shapes, Counts, OutcomeI,
         \/ Connect \/ Break \/ Reconnect \/ Restart \/ Serve \/ Wire \/ Poll \/ Watchdog
         \/ (\E c \in Conns : Accept(c) \/ StreamEnds(c) \/ Headers(c))
         \/ \E r \in requests : Respond(r) \/ Apply(r)
  PROVE  OutcomeI'
<1>1. UNCHANGED <<early, told, notes>> /\ (note' = note \/ note' = "off") /\ unanswered' \subseteq unanswered
  BY DEF Connect, Break, Reconnect, Restart, Serve, Wire, Poll, Watchdog, Accept, StreamEnds, Headers, Respond, Apply,
         engineVars, history
<1>2. todo' = todo \/ todo' = [t \in Threads |-> << >>]
  BY DEF Connect, Break, Reconnect, Restart, Serve, Wire, Poll, Watchdog, Accept, StreamEnds, Headers, Respond, Apply
<1>3. queue' = queue \/ queue' = << >>
  BY DEF Connect, Break, Reconnect, Restart, Serve, Wire, Poll, Watchdog, Accept, StreamEnds, Headers, Respond, Apply,
         brokerVars
<1>4. Lingers
  <2>1. CASE UNCHANGED ui
    BY <2>1 DEF Lingers
  <2>2. CASE Restart \/ Watchdog
    BY <2>2 DEF Restart, Watchdog, Lingers, Shapes, Screens
  <2>3. ASSUME NEW r \in requests, Apply(r) PROVE Lingers
    <3>1. r \in Requests /\ r.snap \in Snaps /\ ui \in Screens
      BY DEF Shapes, Requests, Snaps
    <3>2. /\ Still(ui, FromHistory(ui, r.snap.saved))
          /\ Still(ui, [ui EXCEPT !.phase = r.snap.phase])
          /\ Still(ui, [ui EXCEPT !.note = r.snap.note])
          /\ Still(ui, [ui EXCEPT !.phase = r.snap.phase, !.note = r.snap.note, !.saved = r.snap.saved])
          /\ Still(ui, [Unwatched(ui) EXCEPT !.note = "off"])
      BY <3>1, AppliedView
    <3>3. r.for \in {"state", "op", "discard", "poll", "history"}
      BY <3>1 DEF Requests
    <3>4. Still(ui, ui')
      BY <2>3, <3>2, <3>3, Applies
    <3>. QED  BY <3>4 DEF Lingers, Still
  <2>4. UNCHANGED ui \/ Restart \/ Watchdog \/ \E r \in requests : Apply(r)
    BY DEF Connect, Break, Reconnect, Serve, Wire, Poll, Accept, StreamEnds, Headers, Respond, windowVars
  <2>. QED  BY <2>1, <2>2, <2>3, <2>4
<1>5. \A n : Over(n) => Over(n)'
  BY <1>1 DEF Over
<1>6. \A t \in Threads : Has(todo'[t]) \subseteq Has(todo[t])
  BY <1>2, HasNone
<1>. QED  BY <1>1, <1>3, <1>4, <1>5, <1>6, OutcomeFrame

LEMMA OutcomeCleaning ==
  ASSUME OutcomeI, Cleaning
  PROVE  OutcomeI'
<1>1. /\ UNCHANGED <<early, told, ui, notes, unanswered, todo, queue>>
      /\ note' = note \/ note = "paused"
  BY CleaningMeans
<1>2. \A n : Over(n) => Over(n)'
  BY <1>1 DEF Over
<1>3. Lingers
  BY <1>1 DEF Lingers
<1>. QED  BY <1>1, <1>2, <1>3, OutcomeFrame

LEMMA OutcomeStep ==
  ASSUME Shapes, Counts, Failures, OutcomeI, StreamNext
  PROVE  OutcomeI'
  BY OutcomeEngine, OutcomeBroker, OutcomeDeliver, OutcomeOther, OutcomeCleaning DEF StreamNext, NoteAction, Cleaning

-----------------------------------------------------------------------------
(* What the window shows                                                     *)

StreamI == Shapes /\ Counts /\ Lengths /\ Responses /\ Wiring /\ Failures /\ NoteI /\ HistoryI /\ OutcomeI

LEMMA StreamStart ==
  ASSUME NEW served \in BOOLEAN, NEW recorded \in {"off", "on", "paused", "failed"}, NEW ops \in 0 .. MaxOps,
         NEW levels \in 0 .. MaxLevels, NEW breaks \in 0 .. MaxBreaks, NEW restarts \in 0 .. MaxRestarts,
         StreamInit(served, recorded, ops, levels, breaks, restarts)
  PROVE  StreamI
<1>0. MaxOps \in Nat /\ MaxLevels \in Nat /\ MaxBreaks \in Nat /\ MaxRestarts \in Nat /\ Cap \in Nat \ {0}
  BY StreamAssumption
<1>a. << >> \in Seq(Events) /\ Len(<< >>) = 0
  OBVIOUS
<1>b. /\ todo = [t \in Threads |-> << >>] /\ queue = << >> /\ requests = {} /\ unanswered = {} /\ saved = {}
      /\ astray = {} /\ link = "waiting" /\ conn = 0 /\ opened = FALSE /\ told = 0 /\ early = {}
      /\ note = (IF recorded = "failed" THEN "off" ELSE recorded) /\ opsLeft = ops
      /\ (mic <=> recorded = "on") /\ notes = (IF recorded = "off" THEN 0 ELSE 1)
  BY DEF StreamInit
<1>c. /\ ui.saved = {} /\ ui.view = "none" /\ ui.note = "off"
  BY DEF StreamInit
<1>1. Shapes
  <2>1. ui \in Screens
    BY <1>0 DEF StreamInit, Screens
  <2>2. todo \in [Threads -> Seq(Events)]
    BY <1>a, <1>b
  <2>. QED  BY <1>a, <2>1, <2>2 DEF StreamInit, Shapes
<1>2. Counts
  <2>1. notes \in Nat /\ (recorded # "off" => notes = 1) /\ notes <= 1
    BY <1>b
  <2>3. note # "off" \/ mic => recorded # "off"
    BY <1>b
  <2>2. opsLeft \in Nat /\ opsLeft <= MaxOps /\ levelsLeft \in Nat /\ breaksLeft \in Nat /\ breaksLeft <= MaxBreaks
        /\ restartsLeft \in Nat /\ restartsLeft <= MaxRestarts
    BY <1>0 DEF StreamInit
  <2>. QED  BY <1>0, <1>b, <2>1, <2>2, <2>3 DEF Counts
<1>3. Lengths
  <2>1. Cardinality(unanswered) = 0
    BY <1>b, FS_EmptySet
  <2>2. Len(queue) = 0 /\ Len(todo["op"]) = 0 /\ Len(todo["worker"]) = 0 /\ Len(todo["loader"]) = 0
    BY <1>a, <1>b DEF Threads
  <2>3. \A p : Room(0, 0, 0, 0, ops, 0, p)
    BY <1>0 DEF Room
  <2>. QED  BY <1>b, <2>1, <2>2, <2>3 DEF Lengths
<1>4. Responses
  BY <1>b DEF Responses
<1>5. Wiring
  BY <1>b DEF Wiring
<1>6. NoteI
  <2>1. ~Mentions(queue)
    BY <1>b, HasNone DEF Mentions
  <2>. QED  BY <1>b, <2>1 DEF NoteI, NoteQueued, NoteFollowed, NoteAnswered, WillAsk
<1>7. HistoryI
  <2>1. (\A t \in Threads : Has(todo[t]) = {}) /\ Has(queue) = {}
    BY <1>b, HasNone
  <2>. QED  BY <1>b, <1>c, <2>1 DEF HistoryI, OnlySaved, HistoryFollowed, HistoryAnswered, WillAsk, Brings
<1>8. OutcomeI
  <2>1. (\A t \in Threads : Has(todo[t]) = {}) /\ Has(queue) = {} /\ \A n : Ordered(queue, n)
    BY <1>b, HasNone
  <2>2. \A n \in Notes : told # n
    BY <1>b DEF Notes
  <2>. QED  BY <1>b, <1>c, <2>1, <2>2
            DEF OutcomeI, DoneIsOver, ToldIsShown, InOrder, UnansweredOver, ShownNumber, Done, HasOutcome
<1>9. Failures
  <2>1. "op" \in Threads /\ \A t \in Threads : Has(todo[t]) = {}
    BY <1>b, HasNone DEF Threads
  <2>. QED  BY <1>b, <2>1 DEF Failures
<1>. QED  BY <1>1, <1>2, <1>3, <1>4, <1>5, <1>6, <1>7, <1>8, <1>9 DEF StreamI

LEMMA StreamStep ==
  ASSUME StreamI, StreamNext
  PROVE  StreamI'
<1>0. Shapes /\ Counts /\ Lengths /\ Responses /\ Wiring /\ Failures /\ NoteI /\ HistoryI /\ OutcomeI
  BY DEF StreamI
<1>1. Shapes' /\ Counts'
  BY <1>0, ShapeStep, CountsStep
<1>2. Lengths'
  BY <1>0, <1>1, LengthsStep
<1>3. Responses' /\ Wiring' /\ Failures'
  BY <1>0, ResponsesStep, WiringStep, FailuresStep
<1>4. NoteI' /\ HistoryI' /\ OutcomeI'
  BY <1>0, NoteStep, HistoryStep, OutcomeStep
<1>. QED  BY <1>1, <1>2, <1>3, <1>4 DEF StreamI

LEMMA StreamRests == StreamI /\ UNCHANGED streamVars => StreamI'
<1>. SUFFICES ASSUME StreamI, UNCHANGED streamVars PROVE StreamI'
  OBVIOUS
<1>0. UNCHANGED <<phase, note, saved, notes, unanswered, mic, clearing, up, wired, todo, asked, subs, streams, queue,
                  link, conn, opened, requests, ui, opsLeft, levelsLeft, breaksLeft, restartsLeft, astray, leaked,
                  early, crossed, told>>
  BY DEF streamVars, engineVars, brokerVars, windowVars, bounds, history
<1>1. Shapes' /\ Counts' /\ Lengths' /\ Responses' /\ Wiring' /\ Failures'
  BY <1>0 DEF StreamI, Shapes, Counts, Lengths, Responses, Wiring, Held, Failures
<1>5. Untold' <=> Untold
  BY <1>0, UntoldMeans
<1>2. NoteI'
  BY <1>0, <1>5 DEF StreamI, NoteI, NoteQueued, NoteFollowed, NoteAnswered, NoteComes, WillAsk, AsksNote
<1>3. HistoryI'
  BY <1>0 DEF StreamI, HistoryI, OnlySaved, HistoryFollowed, HistoryAnswered, Comes, WillAsk, AsksHistory
<1>4. OutcomeI'
  BY <1>0 DEF StreamI, OutcomeI, DoneIsOver, ToldIsShown, InOrder, UnansweredOver, ShownNumber, Done, Over
<1>. QED  BY <1>1, <1>2, <1>3, <1>4 DEF StreamI

LEMMA StreamShows == StreamI => StreamInv
<1>. SUFFICES ASSUME StreamI PROVE StreamInv
  OBVIOUS
<1>1. StreamTypeOK
  BY StreamTypes DEF StreamI
<1>2. InSync
  <2>1. SUFFICES ASSUME Quiet
        PROVE  /\ "note" \notin astray => ui.note = note
               /\ "history" \notin astray => ui.saved = saved
    BY DEF InSync
  <2>2. link = "open" /\ queue = << >> /\ requests = {} /\ (\A t \in Threads : todo[t] = << >>) /\ opened
    BY <2>1 DEF Quiet, StreamI, Wiring
  <2>3. (\A t \in Threads : Has(todo[t]) = {}) /\ Has(queue) = {} /\ ~LastIs(queue, note)
    BY <2>2, HasNone
  <2>4. ~Untold
    BY <2>3, UntoldMeans DEF Mentions
  <2>5. "note" \notin astray => ui.note = note
    BY <2>2, <2>3, <2>4 DEF StreamI, NoteI, NoteFollowed, WillAsk, AsksNote, NoteComes
  <2>6. \A n : ~Comes(n)
    BY <2>3 DEF Comes, Brings, Threads
  <2>7. "history" \notin astray => ui.saved = saved
    BY <2>2, <2>6 DEF StreamI, HistoryI, HistoryFollowed, OnlySaved, WillAsk, AsksHistory
  <2>. QED  BY <2>5, <2>7
<1>3. OutcomeShown
  BY DEF OutcomeShown, StreamI, OutcomeI, ToldIsShown, ShownNumber
<1>. QED  BY <1>1, <1>2, <1>3 DEF StreamInv

\* Once nothing is on its way, the settings window shows the note and the notes
\* saved as the engine has them, but for what went astray; and a note whose
\* outcome reached the window is not shown as being transcribed, unless that
\* outcome was published before the end of the recording.
THEOREM StreamTold == FairSpec => []StreamInv
<1>1. Init => StreamI
  BY StreamStart, ScenesAssumption DEF Init
<1>2. StreamI /\ [Next]_vars => StreamI'
  BY Played, StreamStep, StreamRests
<1>3. QED
  BY <1>1, <1>2, StreamShows, PTL DEF FairSpec

=============================================================================
