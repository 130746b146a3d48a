--------------------------- MODULE SettingsProofs ---------------------------
(***************************************************************************)
(* What the settings files keep, for any number of request threads,        *)
(* commands, changes and faults.  The argument: unless two changes of one  *)
(* file have met, nobody writes it and every change under way started from *)
(* what it holds, or one actor writes it and will write what was chosen.   *)
(***************************************************************************)
EXTENDS Settings, FiniteSetTheorems, TLAPS

OpType == [op : {"set", "load", "load ui", "startup", "integrate"}, f : Files,
           k : {"stt", "hotwords", "theme"}, to : Values]
Ops == {o \in OpType : /\ o.f = "config" => o.k \in {"stt", "hotwords"}
                       /\ o.f = "prefs" => o.k = "theme" /\ o.op = "set"}

FileOK == /\ file = [f \in Files |-> file[f]] /\ want = [f \in Files |-> want[f]]
          /\ \A f \in Files : file[f] \in Contents(f) /\ want[f] \in Contents(f)
EntryOK == /\ entry \in Entries /\ marker \in BOOLEAN /\ (entry.on => entry.there)
           /\ seen \in Entries /\ (seen.on => seen.there)
           /\ wish \in {"any", "on", "off"} /\ entryExcused \in BOOLEAN
           /\ open \subseteq Actors
Open(a) == pc[a] \in {"save", "write"}
Points == {"idle", "save", "write", "install", "mark", "repair", "mend"}
JobOK == /\ pc \in [Actors -> Points]
         /\ todo \in [Actors -> Seq(Ops)]
         /\ data = [a \in Actors |-> data[a]]
         /\ \A a \in Actors : pc[a] # "idle" => todo[a] # <<>>
         /\ \A a \in Actors : Open(a) => /\ data[a] \in Contents(Now(a).f)
                                         /\ Now(a).op \in {"set", "load", "load ui"}
CountOK == sets \in Nat /\ faults \in Nat
UpOK == /\ up \in BOOLEAN
        /\ up \/ \A a \in Engine : todo[a] = <<>>
GhostOK == late \subseteq Actors /\ excused \subseteq Files
Types == FileOK /\ EntryOK /\ JobOK /\ CountOK /\ UpOK /\ GhostOK

-----------------------------------------------------------------------------
(* Contents and operations                                                   *)

LEMMA KeysOf ==
  /\ Keys["config"] = {"stt", "hotwords", "device"} /\ Keys["prefs"] = {"theme"}
  /\ \A o \in Ops : o.f \in Files /\ o.k \in Keys[o.f] /\ o.to \in Values
<1>1. Keys["config"] = {"stt", "hotwords", "device"} /\ Keys["prefs"] = {"theme"}
  BY DEF Keys
<1>2. ASSUME NEW o \in Ops PROVE o.f \in Files /\ o.k \in Keys[o.f] /\ o.to \in Values
  BY <1>1 DEF Ops, OpType, Files
<1>3. QED
  BY <1>1, <1>2

LEMMA ContentsType ==
  ASSUME NEW f \in Files, NEW c \in Contents(f)
  PROVE  /\ Migrated(f, c) \in Contents(f)
         /\ \A k \in Keys[f], v \in Values : [c EXCEPT ![k] = v] \in Contents(f)
         /\ Nothing(f) \in Contents(f)
  BY KeysOf, BoundsAssumption DEF Contents, Migrated, Nothing, Values, Files

LEMMA SetKnown ==
  ASSUME NEW v \in Values
  PROVE  Set("config", "stt", v) \in Ops /\ Set("config", "hotwords", v) \in Ops /\ Set("prefs", "theme", v) \in Ops
  BY DEF Set, Ops, OpType, Files

LEMMA OpsKnown ==
  /\ Load \in Ops /\ LoadUi \in Ops /\ Rewrite \in Ops /\ Integrate \in Ops
  /\ \A on \in {0, 1} : Startup(on) \in Ops
<1>1. 0 \in Values /\ 1 \in Values
  BY BoundsAssumption DEF Values
<1>2. Rewrite \in Ops
  BY <1>1, SetKnown DEF Rewrite
<1>3. Load \in Ops /\ LoadUi \in Ops /\ Integrate \in Ops
  BY <1>1 DEF Load, LoadUi, Integrate, Rewrite, Set, Ops, OpType, Files
<1>4. \A on \in {0, 1} : Startup(on) \in Ops
  BY <1>1 DEF Startup, Rewrite, Set, Ops, OpType, Files
<1>5. QED
  BY <1>2, <1>3, <1>4

\* A job with something to set counts at least one change.
LEMMA ChangesCount ==
  ASSUME NEW S, NEW ops \in Seq(S)
  PROVE  /\ Changes(ops) \in Nat
         /\ \A i \in 1..Len(ops) : ops[i].op \in {"set", "startup"} => Changes(ops) # 0
<1> DEFINE C == {j \in DOMAIN ops : ops[j].op \in {"set", "startup"}}
<1>1. IsFiniteSet(1..Len(ops)) /\ DOMAIN ops = 1..Len(ops)
  BY FS_Interval
<1>2. IsFiniteSet(C)
  BY <1>1, FS_Subset
<1>3. Cardinality(C) \in Nat /\ (C # {} => Cardinality(C) # 0)
  BY <1>2, FS_CardinalityType, FS_EmptySet
<1>4. QED
  BY <1>1, <1>3 DEF Changes

LEMMA Tuples ==
  ASSUME NEW S, NEW x \in S, NEW y \in S
  PROVE  /\ <<x>> \in Seq(S) /\ Len(<<x>>) = 1 /\ <<x>>[1] = x
         /\ <<x, y>> \in Seq(S) /\ Len(<<x, y>>) = 2 /\ <<x, y>>[1] = x /\ <<x, y>>[2] = y
         /\ <<>> \in Seq(S) /\ <<>> \o <<x>> = <<x>>
  OBVIOUS

LEMMA Longer ==
  ASSUME NEW S, NEW p \in Seq(S), NEW x \in S
  PROVE  /\ p \o <<x>> \in Seq(S) /\ Len(p \o <<x>>) = Len(p) + 1
         /\ Len(p) > 0 => (p \o <<x>>)[1] = p[1]
  OBVIOUS

\* Who asks for more than the bound allows gets no job.
LEMMA AskedOps ==
  ASSUME sets \in Nat, NEW ops \in Commands(sets + 2) \cup TrayWork(sets + 2) \cup Requests(sets + 2),
         sets + Changes(ops) <= MaxSets
  PROVE  ops \in Seq(Ops) /\ sets + Changes(ops) \in Nat
<1> DEFINE v == sets + 2
           stt == Set("config", "stt", v)
           hot == Set("config", "hotwords", v)
           theme == Set("prefs", "theme", v)
           S == {stt, hot, theme, Load, LoadUi, Startup(0), Startup(1)}
           Does(o) == o.op \in {"set", "startup"}
<1>1. Does(stt) /\ Does(hot) /\ Does(theme) /\ \A on \in {0, 1} : Does(Startup(on))
  BY DEF Set, Rewrite, Startup
<1>2. v \in Values => S \subseteq Ops
  BY SetKnown, OpsKnown
<1>3. LoadUi \in Ops /\ {Startup(0), Startup(1)} \subseteq Ops
  BY OpsKnown
<1> HIDE DEF stt, hot, theme
<1>4. ASSUME NEW p \in Parts(v)
      PROVE  p = <<>> \/ (p \in Seq(S) /\ Len(p) > 0 /\ Does(p[1]))
  <2>1. \/ p \in {<<>>, <<stt>>, <<theme>>, <<stt, theme>>}
        \/ \E q \in {<<>>, <<stt>>, <<theme>>}, on \in {0, 1} : p = q \o <<Startup(on)>>
    BY <1>4 DEF Parts, stt, theme
  <2>2. ASSUME NEW x \in {stt, theme, Startup(0), Startup(1)} PROVE <<x>> \in Seq(S) /\ Len(<<x>>) > 0 /\ Does(<<x>>[1])
    BY <1>1, Tuples
  <2>3. <<stt, theme>> \in Seq(S) /\ Len(<<stt, theme>>) > 0 /\ Does(<<stt, theme>>[1])
    BY <1>1, Tuples
  <2>4. CASE p \in {<<>>, <<stt>>, <<theme>>, <<stt, theme>>}
    BY <2>2, <2>3, <2>4
  <2>5. ASSUME NEW q \in {<<>>, <<stt>>, <<theme>>}, NEW on \in {0, 1}, p = q \o <<Startup(on)>>
        PROVE  p \in Seq(S) /\ Len(p) > 0 /\ Does(p[1])
    <3>1. Startup(on) \in S
      OBVIOUS
    <3>2. CASE q = <<>>
      BY <2>2, <2>5, <3>1, <3>2, Tuples
    <3>3. CASE q # <<>>
      <4>1. q \in Seq(S) /\ Len(q) > 0 /\ Does(q[1])
        BY <2>2, <3>3
      <4>2. QED
        BY <2>5, <3>1, <4>1, Longer
    <3>4. QED
      BY <3>2, <3>3
  <2>6. QED
    BY <2>1, <2>4, <2>5
<1>5. ops \in Seq(S) /\ (ops = <<LoadUi>> \/ \E i \in 1..Len(ops) : Does(ops[i]))
  <2>1. CASE ops \in Patches(v)
    <3>1. PICK p \in Parts(v) : ops = p \o <<LoadUi>>
      BY <2>1 DEF Patches
    <3>2. LoadUi \in S
      OBVIOUS
    <3>3. CASE p = <<>>
      BY <3>1, <3>2, <3>3, Tuples
    <3>4. CASE p # <<>>
      <4>1. p \in Seq(S) /\ Len(p) > 0 /\ Does(p[1])
        BY <1>4, <3>4
      <4>2. ops \in Seq(S) /\ Len(ops) = Len(p) + 1 /\ Does(ops[1])
        BY <3>1, <3>2, <4>1, Longer
      <4>3. QED
        BY <4>1, <4>2
    <3>5. QED
      BY <3>3, <3>4
  <2>2. CASE ops \notin Patches(v)
    <3>1. \/ ops \in {<<stt>>, <<hot>>, <<theme>>, <<Startup(0)>>, <<Startup(1)>>}
          \/ ops \in {<<hot, Load>>, <<Load, hot>>, <<Load, stt>>}
      BY <2>2 DEF Commands, Subcommands, Switches, TrayWork, Requests, stt, hot, theme
    <3>2. CASE ops \in {<<stt>>, <<hot>>, <<theme>>, <<Startup(0)>>, <<Startup(1)>>}
      <4>1. PICK x \in {stt, hot, theme, Startup(0), Startup(1)} : ops = <<x>>
        BY <3>2
      <4>2. QED
        BY <1>1, <4>1, Tuples
    <3>3. CASE ops \in {<<hot, Load>>, <<Load, hot>>, <<Load, stt>>}
      <4>1. PICK x \in S, y \in S : ops = <<x, y>> /\ (Does(x) \/ Does(y))
        BY <1>1, <3>3
      <4>2. QED
        BY <4>1, Tuples
    <3>4. QED
      BY <3>1, <3>2, <3>3
  <2>3. QED
    BY <2>1, <2>2
<1>6. Changes(ops) \in Nat /\ (ops = <<LoadUi>> \/ Changes(ops) # 0)
  BY <1>5, ChangesCount
<1>7. Changes(ops) # 0 => v \in Values
  BY <1>6, BoundsAssumption DEF Values
<1>8. CASE ops = <<LoadUi>>
  BY <1>3, <1>6, <1>8, Tuples
<1>9. CASE Changes(ops) # 0
  <2>1. S \subseteq Ops
    BY <1>2, <1>7, <1>9
  <2>2. QED
    BY <1>5, <1>6, <2>1
<1>10. QED
  BY <1>6, <1>8, <1>9

LEMMA NoOps == <<>> \in Seq(Ops)
  OBVIOUS

LEMMA NowType ==
  ASSUME JobOK, NEW a \in Actors, todo[a] # <<>>
  PROVE  Now(a) \in Ops /\ Tail(todo[a]) \in Seq(Ops)
<1>1. todo[a] \in Seq(Ops)
  BY DEF JobOK
<1>2. \A s \in Seq(Ops) : s # <<>> => Head(s) \in Ops /\ Tail(s) \in Seq(Ops)
  OBVIOUS
<1>3. QED
  BY <1>1, <1>2 DEF Now

LEMMA AfterType ==
  ASSUME JobOK, NEW a \in Actors, todo[a] # <<>>, NEW c, After(a, c)
  PROVE  /\ todo' \in [Actors -> Seq(Ops)]
         /\ \A b \in Actors : b # a => todo'[b] = todo[b]
<1>1. Tail(todo[a]) \in Seq(Ops)
  BY NowType
<1>2. <<>> \in Seq(Ops) /\ <<Rewrite, Load>> \in Seq(Ops)
  BY OpsKnown, Tuples
<1>3. \A x \in Seq(Ops), y \in Seq(Ops) : x \o y \in Seq(Ops)
  OBVIOUS
<1>4. PICK x \in Seq(Ops) : todo' = [todo EXCEPT ![a] = x \o Tail(todo[a])]
  BY <1>2 DEF After
<1>5. todo \in [Actors -> Seq(Ops)]
  BY DEF JobOK
<1>6. QED
  BY <1>1, <1>3, <1>4, <1>5

-----------------------------------------------------------------------------
(* Types                                                                     *)

LEMMA CountType ==
  ASSUME Types, [Next]_vars
  PROVE  CountOK'
<1>0. CountOK
  BY DEF Types
<1>1. ASSUME NEW a \in Actors, Ask(a) PROVE CountOK'
  <2>1. PICK ops \in Commands(sets + 2) \cup TrayWork(sets + 2) \cup Requests(sets + 2) :
          sets + Changes(ops) <= MaxSets /\ sets' = sets + Changes(ops)
    BY <1>1 DEF Ask
  <2>2. sets' \in Nat
    BY <1>0, <2>1, AskedOps DEF CountOK
  <2>3. faults' = faults
    BY <1>1 DEF Ask
  <2>4. QED
    BY <1>0, <2>2, <2>3 DEF CountOK
<1>2. CASE ~\E a \in Actors : Ask(a)
  <2>1. (sets' = sets \/ sets' = sets + 1) /\ (faults' = faults \/ faults' = faults + 1)
    BY <1>2 DEF Next, Start, Exit, Crash, Die, Kill, Hide, IntegrateFirst, IntegrateFails, RepairRead, RepairOpen, Mark,
       Refuse, ReadToSet, ReadFails, NothingToSet, ReadToLoad, Truncate, Fill, WriteFails, SetStartup, EntryWrite, EntryFails, Fault, vars
  <2>2. QED
    BY <1>0, <2>1 DEF CountOK
<1>3. QED
  BY <1>1, <1>2

LEMMA JobType ==
  ASSUME Types, [Next]_vars
  PROVE  JobOK'
<1>0. JobOK /\ CountOK /\ FileOK /\ UpOK /\ Tray \in Actors /\ Engine \subseteq Actors /\ Clis \subseteq Actors /\ Https \subseteq Actors
  BY DEF Types, Actors, Engine
<1>1. ASSUME NEW a \in Actors, Ask(a) PROVE JobOK'
  <2>1. PICK ops \in Commands(sets + 2) \cup TrayWork(sets + 2) \cup Requests(sets + 2) :
          sets + Changes(ops) <= MaxSets /\ sets' = sets + Changes(ops) /\ todo' = [todo EXCEPT ![a] = ops]
    BY <1>1 DEF Ask
  <2>2. ops \in Seq(Ops)
    BY <1>0, <2>1, AskedOps DEF CountOK
  <2>3. UNCHANGED <<pc, data>> /\ pc[a] = "idle"
    BY <1>1 DEF Ask
  <2>4. QED
    BY <1>0, <2>1, <2>2, <2>3 DEF JobOK, Open, Now
<1>2. CASE Start
  <2>1. <<Load, Integrate>> \in Seq(Ops)
    BY OpsKnown, Tuples
  <2>2. pc[Tray] = "idle"
    BY <1>0, <1>2 DEF Start, UpOK, JobOK, Engine
  <2>3. QED
    BY <1>0, <1>2, <2>1, <2>2 DEF Start, JobOK, Open, Now
<1>3. ASSUME NEW a \in Actors, Refuse(a) PROVE JobOK'
  BY <1>0, <1>3, NoOps DEF Refuse, JobOK, Open, Now
<1>4. ASSUME NEW a \in Actors, ReadToSet(a) PROVE JobOK'
  <2>1. pc[a] = "idle" /\ todo[a] # <<>> /\ Now(a).op = "set" /\ Now(a) \in Ops
    BY <1>0, <1>4, NowType DEF ReadToSet, Ready
  <2>2. PICK f \in Files : f = Now(a).f
    BY <2>1, KeysOf
  <2>3. Changed(a, Raw(f, file[f])) \in Contents(f)
    BY <1>0, <2>1, <2>2, KeysOf, ContentsType DEF Changed, Raw, FileOK
  <2>4. /\ UNCHANGED <<todo, sets, faults>> /\ pc' = [pc EXCEPT ![a] = "save"]
        /\ data' = [data EXCEPT ![a] = Changed(a, Raw(f, file[f]))]
    BY <1>4, <2>2 DEF ReadToSet, Go
  <2>5. QED
    BY <1>0, <2>1, <2>2, <2>3, <2>4 DEF JobOK, Open, Now, Points
<1>4a. ASSUME NEW a \in Actors, ReadFails(a) PROVE JobOK'
  <2>1. pc[a] = "idle" /\ todo[a] # <<>> /\ Now(a) \in Ops
    BY <1>0, <1>4a, NowType DEF ReadFails, Ready
  <2>2. PICK f \in Files : f = Now(a).f
    BY <2>1, KeysOf
  <2>2a. PICK k \in Keys[f], v \in Values : k = Now(a).k /\ v = Now(a).to
    BY <2>1, <2>2, KeysOf
  <2>3. CASE Next1(a) /\ UNCHANGED <<pc, data>>
    BY <1>0, <2>1, <2>3, NowType DEF Next1, JobOK, Open, Now
  <2>4. CASE /\ Now(a).op = "set" /\ Go(a, "save") /\ UNCHANGED todo
             /\ data' = [data EXCEPT ![a] = Changed(a, Nothing(f))]
    <3>1. Nothing(f) \in Contents(f) /\ \A c \in Contents(f) : [c EXCEPT ![k] = v] \in Contents(f)
      BY <1>0, ContentsType DEF FileOK
    <3>2. Changed(a, Nothing(f)) \in Contents(f)
      BY <2>2a, <3>1 DEF Changed
    <3>3. QED
      BY <1>0, <2>1, <2>2, <2>4, <3>2 DEF JobOK, Open, Now, Go, Points
  <2>5. QED
    BY <1>4a, <2>2, <2>3, <2>4 DEF ReadFails, Ready
<1>5. ASSUME NEW a \in Actors, NothingToSet(a) PROVE JobOK'
  BY <1>0, <1>5, NowType DEF NothingToSet, Ready, Next1, JobOK, Open, Now
<1>6. ASSUME NEW a \in Actors, ReadToLoad(a) PROVE JobOK'
  <2>1. pc[a] = "idle" /\ todo[a] # <<>> /\ Now(a).op \in {"load", "load ui"} /\ UNCHANGED <<sets, faults>>
    BY <1>6 DEF ReadToLoad, Ready
  <2>2. CASE After(a, file["config"]) /\ UNCHANGED <<pc, data>>
    <3>1. todo' \in [Actors -> Seq(Ops)] /\ \A b \in Actors : b # a => todo'[b] = todo[b]
      BY <1>0, <2>1, <2>2, AfterType
    <3>2. QED
      BY <1>0, <2>1, <2>2, <3>1 DEF JobOK, Open, Now
  <2>3. CASE /\ data' = [data EXCEPT ![a] = Migrated("config", file["config"])]
             /\ Go(a, "save") /\ UNCHANGED todo
    <3>1. Migrated("config", file["config"]) \in Contents("config")
      BY <1>0, ContentsType DEF FileOK, Files
    <3>2. Now(a).f = "config"
      BY <1>0, <2>1, NowType DEF Ops, OpType, Files
    <3>3. QED
      BY <1>0, <2>1, <2>3, <3>1, <3>2 DEF JobOK, Open, Now, Go, Points
  <2>4. QED
    BY <1>6, <2>2, <2>3 DEF ReadToLoad
<1>7. ASSUME NEW a \in Actors, Truncate(a) PROVE JobOK'
  BY <1>0, <1>7 DEF Truncate, Go, JobOK, Open, Now, Points
<1>8. ASSUME NEW a \in Actors, Fill(a) \/ WriteFails(a) PROVE JobOK'
  <2>1. pc[a] = "write" /\ todo[a] # <<>>
    BY <1>0, <1>8 DEF Fill, WriteFails, JobOK
  <2>2. pc' = [pc EXCEPT ![a] = "idle"] /\ data' = [data EXCEPT ![a] = Nothing("config")]
    BY <1>8 DEF Fill, WriteFails, Go
  <2>3. todo' = [todo EXCEPT ![a] = <<>>] \/ After(a, data[a])
    BY <1>8 DEF Fill, WriteFails
  <2>4. todo' \in [Actors -> Seq(Ops)] /\ \A b \in Actors : b # a => todo'[b] = todo[b]
    <3>1. CASE todo' = [todo EXCEPT ![a] = <<>>]
      BY <1>0, <3>1, NoOps DEF JobOK
    <3>2. CASE After(a, data[a])
      BY <1>0, <2>1, <3>2, AfterType
    <3>3. QED
      BY <2>3, <3>1, <3>2
  <2>5. QED
    BY <1>0, <2>2, <2>4 DEF JobOK, Open, Now, Points
<1>9. ASSUME NEW a \in Actors, SetStartup(a) PROVE JobOK'
  <2>1. pc[a] = "idle" /\ todo[a] # <<>> /\ UNCHANGED data
    BY <1>9 DEF SetStartup, Ready
  <2>2. (UNCHANGED pc /\ Next1(a)) \/ (Go(a, "install") /\ UNCHANGED todo)
    BY <1>9 DEF SetStartup
  <2>3. Tail(todo[a]) \in Seq(Ops)
    BY <1>0, <2>1, NowType
  <2>4. CASE UNCHANGED pc /\ Next1(a)
    BY <1>0, <2>1, <2>3, <2>4 DEF Next1, JobOK, Open, Now
  <2>5. CASE Go(a, "install") /\ UNCHANGED todo
    BY <1>0, <2>1, <2>5 DEF Go, JobOK, Open, Now, Points
  <2>6. QED
    BY <2>2, <2>4, <2>5
<1>9a. ASSUME NEW a \in Actors, EntryWrite(a) \/ EntryFails(a) PROVE JobOK'
  <2>1. pc[a] \notin {"idle", "save", "write"} /\ UNCHANGED data
    BY <1>9a DEF EntryWrite, EntryFails
  <2>2. todo[a] # <<>>
    BY <1>0, <2>1 DEF JobOK
  <2>3. Tail(todo[a]) \in Seq(Ops) /\ <<>> \in Seq(Ops)
    BY <1>0, <2>2, NowType, NoOps
  <2>4. \/ Go(a, "mark") /\ UNCHANGED todo
        \/ Go(a, "idle") /\ \E t \in Seq(Ops) : todo' = [todo EXCEPT ![a] = t]
    BY <1>9a, <2>3 DEF EntryWrite, EntryFails, Next1
  <2>5. CASE Go(a, "mark") /\ UNCHANGED todo
    BY <1>0, <2>1, <2>2, <2>5 DEF Go, JobOK, Open, Now, Points
  <2>6. ASSUME NEW t \in Seq(Ops), Go(a, "idle"), todo' = [todo EXCEPT ![a] = t] PROVE JobOK'
    BY <1>0, <2>1, <2>6 DEF Go, JobOK, Open, Now, Points
  <2>7. QED
    BY <2>4, <2>5, <2>6
<1>10. CASE Hide \/ Exit
  <2>1. UNCHANGED <<pc, todo, data>>
    BY <1>10 DEF Hide, Exit, job
  <2>2. QED
    BY <1>0, <2>1 DEF JobOK, Open, Now
<1>11. CASE IntegrateFirst \/ IntegrateFails \/ RepairRead
  <2>1. pc[Tray] = "idle" /\ todo[Tray] # <<>> /\ UNCHANGED data
    BY <1>11 DEF IntegrateFirst, IntegrateFails, RepairRead, Ready
  <2>2. \/ UNCHANGED pc /\ Next1(Tray)
        \/ \E l \in {"install", "repair"} : Go(Tray, l) /\ UNCHANGED todo
    BY <1>11 DEF IntegrateFirst, IntegrateFails, RepairRead
  <2>3. Tail(todo[Tray]) \in Seq(Ops)
    BY <1>0, <2>1, NowType
  <2>4. CASE UNCHANGED pc /\ Next1(Tray)
    BY <1>0, <2>1, <2>3, <2>4 DEF Next1, JobOK, Open, Now
  <2>5. ASSUME NEW l \in {"install", "repair"}, Go(Tray, l) /\ UNCHANGED todo PROVE JobOK'
    BY <1>0, <2>1, <2>5 DEF Go, JobOK, Open, Now, Points
  <2>6. QED
    BY <2>2, <2>4, <2>5
<1>12a. CASE RepairOpen
  <2>1. pc[Tray] = "repair" /\ Go(Tray, "mend") /\ UNCHANGED <<todo, data>>
    BY <1>12a DEF RepairOpen
  <2>2. QED
    BY <1>0, <2>1 DEF Go, JobOK, Open, Now, Points
<1>12. CASE \E ok \in BOOLEAN : Mark(ok)
  <2>1. pc[Tray] # "idle" /\ Go(Tray, "idle") /\ Next1(Tray) /\ UNCHANGED data
    BY <1>12 DEF Mark
  <2>3. todo[Tray] # <<>>
    BY <1>0, <2>1 DEF JobOK
  <2>2. QED
    BY <1>0, <2>1, <2>3, NowType DEF Next1, Go, JobOK, Open, Now, Points
<1>13. CASE Crash \/ \E a \in Clis : Kill(a)
  <2>1. PICK dead \in SUBSET Actors : Die(dead)
    BY <1>0, <1>13 DEF Crash, Kill
  <2>3. \A a \in Actors : IF a \in dead THEN pc'[a] = "idle" /\ todo'[a] = <<>>
                           ELSE pc'[a] = pc[a] /\ todo'[a] = todo[a] /\ data'[a] = data[a]
    BY <2>1 DEF Die
  <2>4. /\ pc' \in [Actors -> Points] /\ todo' \in [Actors -> Seq(Ops)]
        /\ data' = [a \in Actors |-> data'[a]]
    BY <1>0, <2>1, NoOps DEF Die, JobOK, Points
  <2>5. QED
    BY <1>0, <2>3, <2>4 DEF JobOK, Open, Now
<1>14. CASE UNCHANGED vars
  BY <1>0, <1>14 DEF vars, job, JobOK, Open, Now
<1>15. QED
  BY <1>1, <1>2, <1>3, <1>4, <1>4a, <1>5, <1>6, <1>7, <1>8, <1>9, <1>9a, <1>10, <1>11, <1>12, <1>12a, <1>13, <1>14
  DEF Next

LEMMA FileType ==
  ASSUME Types, [Next]_vars
  PROVE  FileOK'
<1>0. JobOK /\ FileOK
  BY DEF Types
<1>1. ASSUME NEW a \in Actors, Truncate(a) PROVE FileOK'
  <2>1. PICK f \in Files : f = Now(a).f
    BY <1>0, <1>1, NowType, KeysOf DEF Truncate, JobOK
  <2>2. Nothing(f) \in Contents(f)
    BY <1>0, ContentsType DEF FileOK
  <2>3. file' = [file EXCEPT ![f] = Nothing(f)] /\ UNCHANGED want
    BY <1>1, <2>1 DEF Truncate
  <2>4. QED
    BY <1>0, <2>2, <2>3 DEF FileOK, Contents
<1>2. ASSUME NEW a \in Actors, Fill(a) PROVE FileOK'
  <2>1. Now(a) \in Ops /\ data[a] \in Contents(Now(a).f)
    BY <1>0, <1>2, NowType DEF Fill, JobOK, Open
  <2>2. PICK f \in Files : f = Now(a).f
    BY <2>1, KeysOf
  <2>7. PICK k \in Keys[f], v \in Values : k = Now(a).k /\ v = Now(a).to
    BY <2>1, <2>2, KeysOf
  <2>3. Migrated(f, want[f]) \in Contents(f)
    BY <1>0, ContentsType DEF FileOK
  <2>4. PICK c \in Contents(f) : want' = [want EXCEPT ![f] = c]
    <3>1. Migrated(f, want[f])[k] \in Values /\ \A u \in Values : [Migrated(f, want[f]) EXCEPT ![k] = u] \in Contents(f)
      BY <2>3, ContentsType DEF Contents
    <3>2. want' = [want EXCEPT ![f] = Chosen(a, want[f])]
      BY <1>2, <2>2 DEF Fill
    <3>3. Chosen(a, want[f]) \in Contents(f)
      BY <2>2, <2>7, <3>1 DEF Chosen
    <3>4. QED
      BY <3>2, <3>3
  <2>5. file' = [file EXCEPT ![f] = data[a]]
    BY <1>2, <2>2 DEF Fill
  <2>6. QED
    BY <1>0, <2>1, <2>2, <2>4, <2>5 DEF FileOK, Contents
<1>3. CASE ~\E a \in Actors : Truncate(a) \/ Fill(a)
  <2>1. UNCHANGED <<file, want>>
    BY <1>3 DEF Next, Start, Exit, Crash, Die, Kill, Hide, IntegrateFirst, IntegrateFails, RepairRead, RepairOpen, Mark,
       Ask, Refuse, ReadToSet, ReadFails, NothingToSet, ReadToLoad, WriteFails, SetStartup, EntryWrite, EntryFails,
       files, ghost, vars
  <2>2. QED
    BY <1>0, <2>1 DEF FileOK, Contents
<1>4. QED
  BY <1>1, <1>2, <1>3

LEMMA EntryType ==
  ASSUME EntryOK, [Next]_vars
  PROVE  EntryOK'
<1>0. /\ NoEntry \in Entries /\ Installed \in Entries /\ Emptied \in Entries /\ Tray \in Actors
      /\ NoEntry.on = FALSE /\ Installed.there = TRUE /\ Emptied.there = TRUE
  BY DEF Entries, NoEntry, Installed, Emptied, Actors, Engine
<1>1. ASSUME NEW a \in Actors, SetStartup(a) PROVE EntryOK'
  BY <1>0, <1>1 DEF SetStartup, EntryOK
<1>2. ASSUME NEW a \in Actors, EntryWrite(a) \/ EntryFails(a) PROVE EntryOK'
  <2>1. Repaired \in Entries /\ (Repaired.on => Repaired.there)
    BY DEF EntryOK, Entries, Repaired
  <2>2. entry' \in {entry, Repaired, Installed} /\ open' \subseteq open
        /\ UNCHANGED <<marker, seen, wish>>
    BY <1>2 DEF EntryWrite, EntryFails
  <2>3. entryExcused' \in BOOLEAN
    BY <1>2 DEF EntryWrite, EntryFails, EntryOK
  <2>4. QED
    BY <1>0, <2>1, <2>2, <2>3 DEF EntryOK
<1>3. CASE Hide
  BY <1>3 DEF Hide, EntryOK, Entries, job
<1>4. CASE IntegrateFirst \/ RepairRead \/ RepairOpen \/ \E ok \in BOOLEAN : Mark(ok)
  <2>1. CASE IntegrateFirst
    BY <1>0, <2>1 DEF IntegrateFirst, EntryOK
  <2>2. CASE RepairRead
    BY <2>2 DEF RepairRead, EntryOK, files, ghost
  <2>3. CASE RepairOpen
    BY <1>0, <2>3 DEF RepairOpen, EntryOK
  <2>4. CASE \E ok \in BOOLEAN : Mark(ok)
    BY <2>4 DEF Mark, EntryOK, ghost
  <2>5. QED
    BY <1>4, <2>1, <2>2, <2>3, <2>4
<1>5. CASE Crash \/ \E a \in Clis : Kill(a)
  <2>1. PICK dead : Die(dead)
    BY <1>5 DEF Crash, Kill
  <2>2. /\ UNCHANGED <<entry, marker, seen, wish>> /\ open' = open \ dead
        /\ entryExcused' = (entryExcused \/ (Tray \in dead /\ pc[Tray] = "mend"))
    BY <2>1 DEF Die
  <2>3. QED
    BY <2>2 DEF EntryOK
<1>6. CASE ~ \/ \E a \in Actors : SetStartup(a) \/ EntryWrite(a) \/ EntryFails(a)
             \/ Hide \/ IntegrateFirst \/ RepairRead \/ RepairOpen \/ \E ok \in BOOLEAN : Mark(ok)
             \/ Crash \/ \E a \in Clis : Kill(a)
  <2>1. UNCHANGED <<entry, open, marker, seen, wish, entryExcused>>
    BY <1>6 DEF Next, Start, Exit, IntegrateFails, Ask, Refuse, ReadToSet, ReadFails, NothingToSet, ReadToLoad,
       Truncate, Fill, WriteFails, files, job, ghost, vars
  <2>2. QED
    BY <2>1 DEF EntryOK
<1>7. QED
  BY <1>1, <1>2, <1>3, <1>4, <1>5, <1>6

LEMMA UpType ==
  ASSUME Types, [Next]_vars
  PROVE  UpOK'
<1>0. JobOK /\ UpOK /\ Tray \in Engine
  BY DEF Types, Engine
<1>1. CASE Start \/ Exit
  BY <1>0, <1>1 DEF Start, Exit, UpOK, job
<1>2. CASE Crash \/ \E a \in Clis : Kill(a)
  <2>1. PICK dead : Die(dead)
    BY <1>2 DEF Crash, Kill
  <2>2. \A a \in Engine : a \in Actors /\ (todo'[a] = todo[a] \/ todo'[a] = <<>>) /\ (a \in dead => todo'[a] = <<>>)
    BY <2>1 DEF Die, Actors
  <2>3. up' = (up /\ dead # Engine)
    BY <2>1 DEF Die
  <2>4. QED
    BY <1>0, <2>2, <2>3 DEF UpOK
<1>3. ASSUME NEW a \in Actors,
             \/ Ask(a) \/ Refuse(a) \/ ReadToSet(a) \/ ReadFails(a) \/ NothingToSet(a) \/ ReadToLoad(a)
             \/ Truncate(a) \/ Fill(a) \/ WriteFails(a) \/ SetStartup(a) \/ EntryWrite(a) \/ EntryFails(a)
      PROVE  UpOK'
  <2>1. up' = up
    BY <1>3 DEF Ask, Refuse, ReadToSet, ReadFails, files, NothingToSet, ReadToLoad, Truncate, Fill, WriteFails,
       SetStartup, EntryWrite, EntryFails
  <2>2. todo[a] # <<>> \/ (a \in Engine => up)
    BY <1>0, <1>3 DEF Ask, Refuse, ReadToSet, ReadFails, NothingToSet, ReadToLoad, Truncate, Fill, WriteFails,
       SetStartup, EntryWrite, EntryFails, Ready, JobOK
  <2>3. \A b \in Actors : b # a => todo'[b] = todo[b]
    BY <1>0, <1>3 DEF Ask, Refuse, ReadToSet, ReadFails, NothingToSet, ReadToLoad, Truncate, Fill, WriteFails,
       SetStartup, EntryWrite, EntryFails, After, Next1, JobOK
  <2>4. QED
    BY <1>0, <2>1, <2>2, <2>3 DEF UpOK, Actors
<1>4. CASE \/ Hide \/ IntegrateFirst \/ IntegrateFails \/ RepairRead \/ RepairOpen \/ \E ok \in BOOLEAN : Mark(ok)
           \/ UNCHANGED vars
  <2>1. up' = up /\ (UNCHANGED todo \/ (Next1(Tray) /\ todo[Tray] # <<>>))
    BY <1>0, <1>4 DEF Hide, IntegrateFirst, IntegrateFails, RepairRead, RepairOpen, Mark, Ready, Next1, JobOK, job, vars, Actors
  <2>2. QED
    BY <1>0, <2>1 DEF UpOK
<1>5. QED
  BY <1>1, <1>2, <1>3, <1>4 DEF Next

LEMMA GhostType ==
  ASSUME Types, [Next]_vars
  PROVE  GhostOK'
<1>0. JobOK /\ GhostOK
  BY DEF Types
<1>1. ASSUME NEW a \in Actors, Truncate(a) \/ Fill(a) \/ WriteFails(a) PROVE GhostOK'
  <2>1. todo[a] # <<>>
    BY <1>0, <1>1 DEF Truncate, Fill, WriteFails, JobOK
  <2>2. Now(a).f \in Files
    BY <1>0, <2>1, NowType, KeysOf
  <2>3. QED
    BY <1>0, <1>1, <2>2 DEF Truncate, Fill, WriteFails, Written, Relying, GhostOK
<1>2. CASE Crash \/ \E a \in Clis : Kill(a)
  <2>1. PICK dead \in SUBSET Actors : Die(dead)
    BY <1>2 DEF Crash, Kill, Actors
  <2>2. \A a \in dead : pc[a] = "write" => Now(a).f \in Files
    BY <1>0, NowType, KeysOf DEF JobOK
  <2>3. QED
    BY <1>0, <2>1, <2>2 DEF Die, GhostOK
<1>3. ASSUME NEW a \in Actors, ReadToSet(a) \/ ReadFails(a) \/ ReadToLoad(a) PROVE GhostOK'
  BY <1>0, <1>3 DEF ReadToSet, ReadFails, ReadToLoad, GhostOK
<1>4. CASE ~ \/ Crash \/ \E a \in Clis : Kill(a)
             \/ \E a \in Actors : \/ Truncate(a) \/ Fill(a) \/ WriteFails(a)
                                  \/ ReadToSet(a) \/ ReadFails(a) \/ ReadToLoad(a)
  <2>1. UNCHANGED <<late, excused>>
    BY <1>4 DEF Next, Start, Exit, Hide, IntegrateFirst, IntegrateFails, RepairRead, RepairOpen, Mark, Ask, Refuse,
       NothingToSet, SetStartup, EntryWrite, EntryFails, ghost, vars
  <2>2. QED
    BY <1>0, <2>1 DEF GhostOK
<1>5. QED
  BY <1>1, <1>2, <1>3, <1>4

LEMMA TypesStep == Types /\ [Next]_vars => Types'
  BY FileType, EntryType, JobType, CountType, UpType, GhostType DEF Types

-----------------------------------------------------------------------------
(* Who writes a file, and who will                                           *)

Writes(a, f) == pc[a] = "write" /\ Now(a).f = f
Saves(a, f)  == pc[a] = "save" /\ Now(a).f = f
Right(a, f)  == a \notin late /\ data[a] = Chosen(a, want[f])

\* A write that starts from an older reading is under way,
Doomed(f) == \E a \in Actors : Writes(a, f) /\ a \in late
\* or none at all, and the changes that will be saved start from the file,
Calm(f) == /\ file[f] = want[f]
           /\ \A a \in Actors : ~Writes(a, f) /\ (Saves(a, f) /\ a \notin late => Right(a, f))
\* or one, of what was chosen.
Busy(f) == \E a \in Actors : Writes(a, f) /\ Right(a, f) /\ \A b \in Actors : Writes(b, f) => b = a

Kept(f) == f \in excused \/ Doomed(f) \/ Calm(f) \/ Busy(f)

\* The steps of actors that have nothing to do with the file.
Same(a, f) == /\ pc'[a] = pc[a] /\ todo'[a] = todo[a] /\ data'[a] = data[a]
              /\ Writes(a, f) \/ Saves(a, f) => (a \in late' <=> a \in late)
Off(a, f) == \/ ~Writes(a, f) /\ pc'[a] \notin {"save", "write"}
             \/ todo'[a] = todo[a] /\ Now(a).f # f

LEMMA Untouched ==
  ASSUME NEW f \in Files, Kept(f),
         file'[f] = file[f], want'[f] = want[f], excused \subseteq excused',
         \A a \in Actors : Same(a, f) \/ Off(a, f)
  PROVE  Kept(f)'
<1>1. ASSUME NEW a \in Actors, Same(a, f)
      PROVE  /\ Writes(a, f)' <=> Writes(a, f)
             /\ Saves(a, f)' <=> Saves(a, f)
             /\ Writes(a, f) \/ Saves(a, f) => ((a \in late)' <=> a \in late) /\ (Right(a, f)' <=> Right(a, f))
  BY <1>1 DEF Same, Writes, Saves, Right, Chosen, Now
<1>2. ASSUME NEW a \in Actors, Off(a, f)
      PROVE  ~Writes(a, f) /\ ~Writes(a, f)' /\ ~Saves(a, f)'
  BY <1>2 DEF Off, Writes, Saves, Now
<1>3. CASE f \in excused
  BY <1>3 DEF Kept
<1>4. CASE Doomed(f)
  BY <1>1, <1>2, <1>4 DEF Kept, Doomed
<1>5. CASE Calm(f)
  BY <1>1, <1>2, <1>5 DEF Kept, Calm
<1>6. CASE Busy(f)
  <2>1. PICK a \in Actors : Writes(a, f) /\ Right(a, f) /\ \A b \in Actors : Writes(b, f) => b = a
    BY <1>6 DEF Busy
  <2>2. Writes(a, f)' /\ Right(a, f)' /\ \A b \in Actors : Writes(b, f)' => b = a
    BY <1>1, <1>2, <2>1
  <2>3. QED
    BY <2>2 DEF Kept, Busy
<1>7. QED
  BY <1>3, <1>4, <1>5, <1>6 DEF Kept

\* ... when it is the step of one actor.
LEMMA UntouchedBy ==
  ASSUME NEW f \in Files, Kept(f), NEW a \in Actors,
         file'[f] = file[f], want'[f] = want[f], excused \subseteq excused',
         \A b \in Actors : b # a => pc'[b] = pc[b] /\ todo'[b] = todo[b] /\ data'[b] = data[b],
         \A b \in Actors : b # a /\ (Writes(b, f) \/ Saves(b, f)) => (b \in late' <=> b \in late),
         \/ ~Writes(a, f) /\ pc'[a] \notin {"save", "write"}
         \/ todo'[a] = todo[a] /\ Now(a).f # f
  PROVE  Kept(f)'
<1>1. \A b \in Actors : b # a => Same(b, f)
  BY DEF Same
<1>2. Off(a, f)
  BY DEF Off
<1>3. QED
  BY <1>1, <1>2, Untouched

\* A file is opened: who relies on an older reading of it is late from now on.
LEMMA TruncateKeeps ==
  ASSUME Types, NEW f \in Files, Kept(f), NEW a \in Actors, Truncate(a)
  PROVE  Kept(f)'
<1>0. JobOK /\ FileOK /\ pc[a] = "save" /\ GhostOK
  BY DEF Truncate, Types
<1>1. /\ pc' = [pc EXCEPT ![a] = "write"] /\ UNCHANGED <<todo, data, want>> /\ late' = (late \cup Relying(Now(a).f)) \ {a}
      /\ excused' = IF a \in late THEN excused \cup {Now(a).f} ELSE excused
  BY DEF Truncate, Go, Written
<1>2. \A b \in Actors : b # a => (Writes(b, f)' <=> Writes(b, f)) /\ (Saves(b, f)' <=> Saves(b, f))
  BY <1>0, <1>1 DEF Writes, Saves, JobOK, Now
<1>3. CASE Now(a).f = f
  <2>1. \A b \in Actors : b # a /\ (Writes(b, f) \/ Saves(b, f)) => b \in late'
    BY <1>0, <1>1, <1>3 DEF Relying, Writes, Saves, JobOK
  <2>2. CASE a \in late \/ f \in excused
    BY <1>1, <1>3, <2>2 DEF Kept
  <2>3. CASE a \notin late /\ \E b \in Actors : b # a /\ Writes(b, f)
    BY <1>2, <2>1, <2>3 DEF Kept, Doomed
  <2>4. CASE a \notin late /\ f \notin excused /\ ~\E b \in Actors : b # a /\ Writes(b, f)
    <3>1. ~Writes(a, f) /\ Saves(a, f)
      BY <1>0, <1>3 DEF Writes, Saves
    <3>2. Right(a, f)
      BY <2>4, <3>1 DEF Kept, Doomed, Calm, Busy
    <3>3. Writes(a, f)' /\ Right(a, f)' /\ \A b \in Actors : Writes(b, f)' => b = a
      BY <1>0, <1>1, <1>2, <1>3, <2>4, <3>2 DEF Writes, Right, Chosen, Now, JobOK
    <3>4. QED
      BY <3>3 DEF Kept, Busy
  <2>5. QED
    BY <2>2, <2>3, <2>4
<1>4. CASE Now(a).f # f
  <2>1. file'[f] = file[f]
    BY <1>0, <1>4 DEF Truncate, FileOK
  <2>2. \A b \in Actors : b # a /\ (Writes(b, f) \/ Saves(b, f)) => (b \in late' <=> b \in late)
    BY <1>1, <1>4 DEF Relying, Writes, Saves
  <2>3. \A b \in Actors : b # a => pc'[b] = pc[b]
    BY <1>0, <1>1 DEF JobOK
  <2>4. QED
    BY <1>0, <1>1, <1>4, <2>1, <2>2, <2>3, UntouchedBy
<1>5. QED
  BY <1>3, <1>4

LEMMA FillKeeps ==
  ASSUME Types, NEW f \in Files, Kept(f), NEW a \in Actors, Fill(a)
  PROVE  Kept(f)'
<1>0. JobOK /\ FileOK /\ pc[a] = "write" /\ todo[a] # <<>>
  BY DEF Fill, Types, JobOK
<1>1. /\ pc' = [pc EXCEPT ![a] = "idle"] /\ late' = (late \cup Relying(Now(a).f)) \ {a}
      /\ data' = [data EXCEPT ![a] = Nothing("config")]
      /\ excused' = IF a \in late THEN excused \cup {Now(a).f} ELSE excused
  BY DEF Fill, Go, Written
<1>2. \A b \in Actors : b # a => pc'[b] = pc[b] /\ todo'[b] = todo[b] /\ data'[b] = data[b]
  <2>1. \A b \in Actors : b # a => todo'[b] = todo[b]
    BY <1>0, AfterType DEF Fill
  <2>2. QED
    BY <1>0, <1>1, <2>1 DEF JobOK
<1>3. CASE Now(a).f = f
  <2>1. \A b \in Actors : b # a /\ (Writes(b, f) \/ Saves(b, f)) => b \in late'
    BY <1>0, <1>1, <1>3 DEF Relying, Writes, Saves, JobOK
  <2>2. \A b \in Actors : b # a => (Writes(b, f)' <=> Writes(b, f)) /\ (Saves(b, f)' <=> Saves(b, f))
    BY <1>2 DEF Writes, Saves, Now
  <2>3. CASE a \in late \/ f \in excused
    BY <1>1, <1>3, <2>3 DEF Kept
  <2>4. CASE a \notin late /\ \E b \in Actors : b # a /\ Writes(b, f)
    BY <2>1, <2>2, <2>4 DEF Kept, Doomed
  <2>5. CASE a \notin late /\ f \notin excused /\ ~\E b \in Actors : b # a /\ Writes(b, f)
    <3>1. Writes(a, f)
      BY <1>0, <1>3 DEF Writes
    <3>2. data[a] = Chosen(a, want[f])
      BY <2>5, <3>1 DEF Kept, Doomed, Calm, Busy, Right
    <3>3. file'[f] = data[a] /\ want'[f] = Chosen(a, want[f])
      BY <1>0, <1>3 DEF Fill, FileOK
    <3>4. pc'[a] = "idle"
      BY <1>0, <1>1 DEF JobOK
    <3>5. Calm(f)'
      BY <2>1, <2>2, <2>5, <3>2, <3>3, <3>4 DEF Calm, Writes, Saves
    <3>6. QED
      BY <3>5 DEF Kept
  <2>6. QED
    BY <2>3, <2>4, <2>5
<1>4. CASE Now(a).f # f
  <2>1. file'[f] = file[f] /\ want'[f] = want[f]
    BY <1>0, <1>4 DEF Fill, FileOK
  <2>2. \A b \in Actors : b # a /\ (Writes(b, f) \/ Saves(b, f)) => (b \in late' <=> b \in late)
    BY <1>1, <1>4 DEF Relying, Writes, Saves
  <2>3. ~Writes(a, f) /\ pc'[a] \notin {"save", "write"}
    BY <1>0, <1>1, <1>4 DEF Writes, JobOK
  <2>4. excused \subseteq excused'
    BY <1>1
  <2>5. QED
    BY <1>2, <2>1, <2>2, <2>3, <2>4, UntouchedBy
<1>5. QED
  BY <1>3, <1>4

\* A reading that leads to a save starts from what the file holds.
LEMMA ReadKeeps ==
  ASSUME Types, NEW f \in Files, Kept(f), NEW a \in Actors, ReadToSet(a) \/ ReadToLoad(a)
  PROVE  Kept(f)'
<1>0. JobOK /\ FileOK /\ pc[a] = "idle" /\ todo[a] # <<>> /\ Now(a) \in Ops
  BY NowType DEF ReadToSet, ReadToLoad, Ready, Types
<1>1. UNCHANGED <<file, want, excused>> /\ \A b \in Actors : b # a => (b \in late' <=> b \in late)
  <2>1. CASE ReadToSet(a)
    BY <2>1 DEF ReadToSet, files
  <2>2. CASE ReadToLoad(a)
    BY <2>2 DEF ReadToLoad, files
  <2>3. QED
    BY <2>1, <2>2
<1>2. \A b \in Actors : b # a => pc'[b] = pc[b] /\ todo'[b] = todo[b] /\ data'[b] = data[b]
  <2>1. CASE ReadToSet(a)
    BY <1>0, <2>1 DEF ReadToSet, Go, JobOK
  <2>2. CASE ReadToLoad(a)
    BY <1>0, <2>2, AfterType DEF ReadToLoad, Go, JobOK
  <2>3. QED
    BY <2>1, <2>2
<1>3. /\ ~Writes(a, f)
      /\ \/ pc'[a] \notin {"save", "write"}
         \/ /\ pc'[a] = "save" /\ todo'[a] = todo[a]
            /\ file[f] = want[f] /\ Now(a).f = f => data'[a] = Chosen(a, want[f])
  <2>1. CASE ReadToSet(a)
    <3>1. data'[a] = Changed(a, Raw(Now(a).f, file[Now(a).f])) /\ pc'[a] = "save" /\ todo'[a] = todo[a] /\ Now(a).op = "set"
      BY <1>0, <2>1 DEF ReadToSet, Go, Ready, JobOK
    <3>2. QED
      BY <1>0, <3>1 DEF Changed, Raw, Chosen, Writes
  <2>2. CASE ReadToLoad(a)
    <3>1. Now(a).op # "set" /\ Now(a).f = "config" /\ Now(a).k \in Keys["config"]
      BY <1>0, <2>2, KeysOf DEF ReadToLoad, Ready, Ops, OpType, Files
    <3>2. \/ pc'[a] = "idle"
          \/ data'[a] = Migrated("config", file["config"]) /\ pc'[a] = "save" /\ todo'[a] = todo[a]
      BY <1>0, <2>2 DEF ReadToLoad, Go, JobOK
    <3>3. Migrated("config", want["config"]) = Chosen(a, want["config"])
      <4>1. Migrated("config", want["config"]) \in Contents("config")
        BY <1>0, ContentsType DEF FileOK, Files
      <4>2. QED
        BY <3>1, <4>1 DEF Chosen, Contents
    <3>4. QED
      BY <1>0, <3>1, <3>2, <3>3 DEF Writes
  <2>3. QED
    BY <2>1, <2>2
<1>4. CASE pc'[a] \notin {"save", "write"} \/ (todo'[a] = todo[a] /\ Now(a).f # f)
  <2>1. file'[f] = file[f] /\ want'[f] = want[f] /\ excused \subseteq excused'
    BY <1>1
  <2>2. \A b \in Actors : b # a /\ (Writes(b, f) \/ Saves(b, f)) => (b \in late' <=> b \in late)
    BY <1>1
  <2>3. \/ ~Writes(a, f) /\ pc'[a] \notin {"save", "write"}
        \/ todo'[a] = todo[a] /\ Now(a).f # f
    BY <1>3, <1>4
  <2>4. QED
    BY <1>2, <2>1, <2>2, <2>3, UntouchedBy
<1>5. CASE pc'[a] = "save" /\ todo'[a] = todo[a] /\ Now(a).f = f
  <2>1. \A b \in Actors : b # a => /\ (Writes(b, f)' <=> Writes(b, f)) /\ (Saves(b, f)' <=> Saves(b, f))
                                  /\ (b \in late' <=> b \in late) /\ (Right(b, f)' <=> Right(b, f))
    BY <1>1, <1>2 DEF Writes, Saves, Right, Chosen, Now
  <2>2. ~Writes(a, f)' /\ ~Writes(a, f)
    BY <1>3, <1>5 DEF Writes
  <2>3. file[f] = want[f] /\ a \notin late' => Right(a, f)'
    <3>1. data'[a] = Chosen(a, want[f])' \/ file[f] # want[f]
      BY <1>1, <1>3, <1>5 DEF Chosen, Now
    <3>2. QED
      BY <3>1 DEF Right
  <2>4. CASE Calm(f)
    BY <1>1, <2>1, <2>2, <2>3, <2>4 DEF Kept, Calm
  <2>5. CASE Busy(f)
    BY <2>1, <2>2, <2>5 DEF Kept, Busy
  <2>6. CASE Doomed(f) \/ f \in excused
    BY <1>1, <2>1, <2>2, <2>6 DEF Kept, Doomed
  <2>7. QED
    BY <2>4, <2>5, <2>6 DEF Kept
<1>6. QED
  BY <1>3, <1>4, <1>5

\* Who could not read the file is late, and makes it no worse before it writes.
LEMMA ReadFailsKeeps ==
  ASSUME Types, NEW f \in Files, Kept(f), NEW a \in Actors, ReadFails(a)
  PROVE  Kept(f)'
<1>0. JobOK /\ pc[a] = "idle" /\ todo[a] # <<>>
  BY DEF ReadFails, Ready, Types
<1>1. UNCHANGED <<file, want, excused>> /\ \A b \in Actors : b # a => (b \in late' <=> b \in late)
  BY DEF ReadFails, files
<1>2. \A b \in Actors : b # a => pc'[b] = pc[b] /\ todo'[b] = todo[b] /\ data'[b] = data[b]
  BY <1>0 DEF ReadFails, Go, Next1, JobOK
<1>3. \/ pc'[a] = "idle"
      \/ pc'[a] = "save" /\ todo'[a] = todo[a] /\ a \in late'
  BY <1>0 DEF ReadFails, Go, JobOK
<1>4. ~Writes(a, f) /\ ~Writes(a, f)' /\ ~Saves(a, f)
  BY <1>0, <1>3 DEF Writes, Saves
<1>5. CASE pc'[a] = "idle"
  BY <1>1, <1>2, <1>4, <1>5, UntouchedBy
<1>6. CASE pc'[a] = "save" /\ a \in late'
  <2>1. \A b \in Actors : b # a => /\ (Writes(b, f)' <=> Writes(b, f)) /\ (Saves(b, f)' <=> Saves(b, f))
                                  /\ (b \in late' <=> b \in late) /\ (Right(b, f)' <=> Right(b, f))
    BY <1>1, <1>2 DEF Writes, Saves, Right, Chosen, Now
  <2>2. CASE Calm(f)
    BY <1>1, <1>4, <1>6, <2>1, <2>2 DEF Kept, Calm
  <2>3. CASE Busy(f)
    BY <1>4, <2>1, <2>3 DEF Kept, Busy
  <2>4. CASE Doomed(f) \/ f \in excused
    BY <1>1, <1>4, <2>1, <2>4 DEF Kept, Doomed
  <2>5. QED
    BY <2>2, <2>3, <2>4 DEF Kept
<1>7. QED
  BY <1>3, <1>5, <1>6

\* A write that fails, and one that is cut off, leaves an empty file.
LEMMA WriteFailsKeeps ==
  ASSUME Types, NEW f \in Files, Kept(f), NEW a \in Actors, WriteFails(a)
  PROVE  Kept(f)'
<1>0. JobOK /\ pc[a] = "write" /\ todo[a] # <<>>
  BY DEF WriteFails, Types, JobOK
<1>1. /\ pc' = [pc EXCEPT ![a] = "idle"] /\ UNCHANGED <<file, want>> /\ late' = late \ {a}
      /\ data' = [data EXCEPT ![a] = Nothing("config")] /\ excused' = excused \cup {Now(a).f}
  BY DEF WriteFails, Go, files
<1>2. \A b \in Actors : b # a => pc'[b] = pc[b] /\ todo'[b] = todo[b] /\ data'[b] = data[b]
  <2>1. \A b \in Actors : b # a => todo'[b] = todo[b]
    BY <1>0, AfterType DEF WriteFails, JobOK
  <2>2. QED
    BY <1>0, <1>1, <2>1 DEF JobOK
<1>3. CASE Now(a).f = f
  BY <1>1, <1>3 DEF Kept
<1>4. CASE Now(a).f # f
  <2>1. file'[f] = file[f] /\ want'[f] = want[f] /\ excused \subseteq excused'
    BY <1>1
  <2>2. \A b \in Actors : b # a /\ (Writes(b, f) \/ Saves(b, f)) => (b \in late' <=> b \in late)
    BY <1>1
  <2>3. ~Writes(a, f) /\ pc'[a] \notin {"save", "write"}
    BY <1>0, <1>1, <1>4 DEF Writes, JobOK
  <2>4. QED
    BY <1>2, <2>1, <2>2, <2>3, UntouchedBy
<1>5. QED
  BY <1>3, <1>4

LEMMA DieKeeps ==
  ASSUME Types, NEW f \in Files, Kept(f), NEW dead \in SUBSET Actors, Die(dead)
  PROVE  Kept(f)'
<1>1. /\ excused' = excused \cup {Now(a).f : a \in {b \in dead : pc[b] = "write"}}
      /\ UNCHANGED <<file, want>> /\ late' = late \ dead
  BY DEF Die, files
<1>2. \A a \in Actors : a \notin dead => pc'[a] = pc[a] /\ todo'[a] = todo[a] /\ data'[a] = data[a]
  BY DEF Die
<1>3. \A a \in Actors : a \in dead => pc'[a] = "idle"
  BY DEF Die
<1>4. CASE \E a \in dead : Writes(a, f)
  BY <1>1, <1>4 DEF Kept, Writes
<1>5. CASE ~\E a \in dead : Writes(a, f)
  <2>1. file'[f] = file[f] /\ want'[f] = want[f] /\ excused \subseteq excused'
    BY <1>1
  <2>2. \A a \in Actors : a \notin dead => Same(a, f)
    BY <1>1, <1>2 DEF Same
  <2>3. \A a \in Actors : a \in dead => Off(a, f)
    BY <1>3, <1>5 DEF Off
  <2>4. QED
    BY <2>1, <2>2, <2>3, Untouched
<1>6. QED
  BY <1>4, <1>5

\* Every other step leaves the two files and those at work on them alone.
Aside(a) == /\ pc[a] \notin {"save", "write"} /\ pc'[a] \notin {"save", "write"}
            /\ \A b \in Actors : b # a => pc'[b] = pc[b] /\ todo'[b] = todo[b] /\ data'[b] = data[b]
Elsewhere == /\ UNCHANGED <<file, want, late, excused>>
             /\ UNCHANGED <<pc, todo, data>> \/ \E a \in Actors : Aside(a)

LEMMA AsideSteps ==
  ASSUME Types, [Next]_vars,
         ~\E a \in Actors : \/ Truncate(a) \/ Fill(a) \/ WriteFails(a)
                            \/ ReadToSet(a) \/ ReadFails(a) \/ ReadToLoad(a),
         ~Crash, ~\E a \in Clis : Kill(a)
  PROVE  Elsewhere
<1>0. JobOK /\ UpOK /\ Tray \in Actors /\ Tray \in Engine
  BY DEF Types, Actors, Engine
<1>1. ASSUME NEW a \in Actors,
             \/ Ask(a) \/ Refuse(a) \/ NothingToSet(a)
             \/ SetStartup(a) \/ EntryWrite(a) \/ EntryFails(a)
      PROVE  Elsewhere
  <2>1. UNCHANGED <<file, want, late, excused>> /\ UNCHANGED data /\ pc[a] \notin {"save", "write"}
    BY <1>1 DEF Ask, Refuse, NothingToSet, SetStartup, EntryWrite, EntryFails, Ready, files, ghost
  <2>2. \A b \in Actors : b # a => todo'[b] = todo[b]
    BY <1>0, <1>1 DEF Ask, Refuse, NothingToSet, SetStartup, EntryWrite, EntryFails, Next1, JobOK
  <2>3. UNCHANGED pc \/ \E l \in {"idle", "install", "mark"} : Go(a, l)
    BY <1>1 DEF Ask, Refuse, NothingToSet, SetStartup, EntryWrite, EntryFails
  <2>4. pc'[a] \notin {"save", "write"} /\ \A b \in Actors : b # a => pc'[b] = pc[b]
    BY <1>0, <2>1, <2>3 DEF Go, JobOK
  <2>5. QED
    BY <2>1, <2>2, <2>4 DEF Elsewhere, Aside
<1>2. CASE Start
  <2>1. UNCHANGED <<file, want, late, excused>> /\ UNCHANGED <<pc, data>> /\ todo' = [todo EXCEPT ![Tray] = <<Load, Integrate>>]
    BY <1>2 DEF Start, files, ghost
  <2>2. pc[Tray] = "idle"
    BY <1>0, <1>2 DEF Start, UpOK, JobOK
  <2>3. \A b \in Actors : b # Tray => todo'[b] = todo[b]
    BY <1>0, <2>1 DEF JobOK
  <2>4. QED
    BY <1>0, <2>1, <2>2, <2>3 DEF Elsewhere, Aside
<1>3. CASE Hide \/ Exit \/ UNCHANGED vars
  BY <1>3 DEF Hide, Exit, vars, files, job, ghost, Elsewhere
<1>4. CASE IntegrateFirst \/ IntegrateFails \/ RepairRead \/ RepairOpen \/ \E ok \in BOOLEAN : Mark(ok)
  <2>1. UNCHANGED <<file, want, late, excused, data>>
    BY <1>4 DEF IntegrateFirst, IntegrateFails, RepairRead, RepairOpen, Mark, files, ghost
  <2>2. pc[Tray] \in {"idle", "mark", "repair"}
    BY <1>4 DEF IntegrateFirst, IntegrateFails, RepairRead, RepairOpen, Mark, Ready
  <2>3. UNCHANGED pc \/ \E l \in {"idle", "install", "repair", "mend"} : Go(Tray, l)
    BY <1>4 DEF IntegrateFirst, IntegrateFails, RepairRead, RepairOpen, Mark
  <2>4. UNCHANGED todo \/ Next1(Tray)
    BY <1>4 DEF IntegrateFirst, IntegrateFails, RepairRead, RepairOpen, Mark
  <2>5. Aside(Tray)
    BY <1>0, <2>1, <2>2, <2>3, <2>4 DEF Aside, Go, Next1, JobOK
  <2>6. QED
    BY <1>0, <2>1, <2>5 DEF Elsewhere
<1>5. QED
  BY <1>1, <1>2, <1>3, <1>4 DEF Next

LEMMA AsideKeeps ==
  ASSUME NEW f \in Files, Kept(f), Elsewhere
  PROVE  Kept(f)'
<1>1. file'[f] = file[f] /\ want'[f] = want[f] /\ excused \subseteq excused' /\ late' = late
  BY DEF Elsewhere
<1>2. CASE UNCHANGED <<pc, todo, data>>
  <2>1. \A a \in Actors : Same(a, f)
    BY <1>1, <1>2 DEF Same
  <2>2. QED
    BY <1>1, <2>1, Untouched
<1>3. ASSUME NEW a \in Actors, Aside(a) PROVE Kept(f)'
  <2>1. \A b \in Actors : b # a => pc'[b] = pc[b] /\ todo'[b] = todo[b] /\ data'[b] = data[b]
    BY <1>3 DEF Aside
  <2>2. \A b \in Actors : b # a /\ (Writes(b, f) \/ Saves(b, f)) => (b \in late' <=> b \in late)
    BY <1>1
  <2>3. ~Writes(a, f) /\ pc'[a] \notin {"save", "write"}
    BY <1>3 DEF Aside, Writes
  <2>4. QED
    BY <1>1, <2>1, <2>2, <2>3, UntouchedBy
<1>4. QED
  BY <1>2, <1>3 DEF Elsewhere

-----------------------------------------------------------------------------
(* The theorems                                                              *)

AllKept == \A f \in Files : Kept(f)
Sound == Types /\ AllKept

LEMMA SoundStep == Sound /\ [Next]_vars => Sound'
<1> SUFFICES ASSUME Sound, [Next]_vars PROVE Sound'
  OBVIOUS
<1>1. Types /\ Types'
  BY TypesStep DEF Sound
<1>2. ASSUME NEW f \in Files PROVE Kept(f)'
  <2>0. Kept(f)
    BY DEF Sound, AllKept
  <2>1. ASSUME NEW a \in Actors,
               \/ Truncate(a) \/ Fill(a) \/ WriteFails(a)
               \/ ReadToSet(a) \/ ReadFails(a) \/ ReadToLoad(a)
        PROVE  Kept(f)'
    BY <1>1, <2>0, <2>1, TruncateKeeps, FillKeeps, WriteFailsKeeps, ReadKeeps, ReadFailsKeeps
  <2>2. CASE Crash \/ \E a \in Clis : Kill(a)
    <3>1. PICK dead \in SUBSET Actors : Die(dead)
      BY <2>2 DEF Crash, Kill, Actors
    <3>2. QED
      BY <1>1, <2>0, <3>1, DieKeeps
  <2>3. CASE ~ \/ Crash \/ \E a \in Clis : Kill(a)
               \/ \E a \in Actors : \/ Truncate(a) \/ Fill(a) \/ WriteFails(a)
                                    \/ ReadToSet(a) \/ ReadFails(a) \/ ReadToLoad(a)
    BY <1>1, <2>0, <2>3, AsideSteps, AsideKeeps
  <2>4. QED
    BY <2>1, <2>2, <2>3
<1>3. QED
  BY <1>1, <1>2 DEF Sound, AllKept

LEMMA SoundInit == Init => Sound
<1> SUFFICES ASSUME Init PROVE Sound
  OBVIOUS
<1>1. PICK stt \in {1, Stale} : file = [f \in Files |-> [k \in Keys[f] |-> IF k = "stt" THEN stt ELSE 1]]
  BY DEF Init
<1>2. 1 \in Values /\ Stale \in Values
  BY BoundsAssumption DEF Values
<1>3. FileOK
  <2>1. \A f \in Files : file[f] \in Contents(f)
    BY <1>1, <1>2 DEF Contents
  <2>2. want = file
    BY DEF Init
  <2>3. QED
    BY <1>1, <2>1, <2>2 DEF FileOK
<1>4. EntryOK
  <2>1. NoEntry \in Entries /\ Installed \in Entries /\ NoEntry.on = FALSE /\ Installed.there = TRUE
    BY DEF Entries, NoEntry, Installed
  <2>2. [Installed EXCEPT !.icon = "old"] \in Entries /\ [Installed EXCEPT !.icon = "old"].there = TRUE
    BY DEF Entries, Installed
  <2>3. entry \in Entries /\ (entry.on => entry.there) /\ marker = entry.there
    BY <2>1, <2>2 DEF Init
  <2>4. marker \in BOOLEAN
    BY <2>3 DEF Entries
  <2>5. QED
    BY <2>1, <2>3, <2>4 DEF Init, EntryOK
<1>5. JobOK
  BY NoOps DEF Init, JobOK, Open, Points
<1>6. CountOK /\ UpOK /\ GhostOK
  BY DEF Init, CountOK, UpOK, GhostOK, Actors
<1>7. AllKept
  BY DEF Init, AllKept, Kept, Calm, Writes, Saves
<1>8. QED
  BY <1>3, <1>4, <1>5, <1>6, <1>7 DEF Sound, Types

\* The two files keep the shape their readers expect, and each setting has the
\* value that was chosen last, whatever the tray, the requests of the window
\* and `dictate config` write, and whenever the engine or a command dies: but
\* for changes of one file that met, writes that were cut off, and a setter
\* that could not read the file it then wrote.
THEOREM FilesKept == Spec => []FilesInv
<1>1. Sound => FilesInv
  <2>1. Types => TypeOK
    BY DEF Types, TypeOK, FileOK, EntryOK, JobOK, Points, UpOK, GhostOK
  <2>2. AllKept => SettingsKept
    BY DEF AllKept, SettingsKept, Kept, Doomed, Calm, Busy, Writing, Writes
  <2>3. QED
    BY <2>1, <2>2 DEF Sound, FilesInv
<1>2. QED
  BY <1>1, SoundInit, SoundStep, PTL DEF Spec

-----------------------------------------------------------------------------
(* The start entry                                                           *)

\* An entry with the icon of earlier releases has not been opened by anybody;
\* who has it open is at work on it; the repair has read such an icon.
Mending == Tray \in open /\ pc[Tray] = "mend"
Untold == wish = "off" /\ ~entryExcused
HoldsOpen == /\ open # {} => entry.icon # "old"
             /\ \A a \in open : pc[a] \in {"install", "mend"}
             /\ \A a \in Actors : pc[a] \in {"repair", "mend"} => a = Tray
             /\ pc[Tray] = "repair" => seen.icon = "old"
\* An entry that was switched off is enabled only while the repair writes it,
\* and the repair has seen it off; an installer finds it changed.
StaysOff == Untold => /\ Enabled => entry = Emptied /\ Mending
                      /\ entry = Emptied /\ Mending => ~seen.on
                      /\ (\E a \in open : pc[a] = "install") => ~entry.on
EntrySafe == Types /\ HoldsOpen /\ StaysOff

LEMMA EntryStep == EntrySafe /\ [Next]_vars => EntrySafe'
<1> SUFFICES ASSUME EntrySafe, [Next]_vars PROVE EntrySafe'
  OBVIOUS
<1>0. EntryOK /\ JobOK /\ HoldsOpen /\ StaysOff /\ Types' /\ Tray \in Actors
  BY TypesStep DEF EntrySafe, Types, Actors, Engine
<1>e. /\ Emptied.there = TRUE /\ Emptied.on = TRUE /\ Emptied.icon = "none"
      /\ Installed.icon = "new" /\ NoEntry.icon = "new" /\ NoEntry.there = FALSE /\ NoEntry.on = FALSE
      /\ Repaired.icon = "new" /\ Repaired.on = seen.on /\ Repaired.there = seen.there
  BY <1>0 DEF Emptied, Installed, NoEntry, Repaired, EntryOK, Entries
<1> SUFFICES HoldsOpen' /\ StaysOff'
  BY <1>0 DEF EntrySafe
<1>1. ASSUME NEW a \in Actors, SetStartup(a) PROVE HoldsOpen' /\ StaysOff'
  <2>1. pc[a] = "idle" /\ UNCHANGED seen /\ entryExcused' = FALSE
    BY <1>1 DEF SetStartup, Ready
  <2>2. CASE Now(a).to = 1
    <3>1. entry' = Emptied /\ open' = open \cup {a} /\ pc' = [pc EXCEPT ![a] = "install"] /\ wish' = "on"
      BY <1>1, <2>2 DEF SetStartup, Go
    <3>2. \A b \in Actors : pc'[b] = IF b = a THEN "install" ELSE pc[b]
      BY <1>0, <3>1 DEF JobOK
    <3>3. HoldsOpen'
      BY <1>0, <1>e, <2>1, <3>1, <3>2 DEF HoldsOpen, EntryOK
    <3>4. QED
      BY <3>1, <3>3 DEF StaysOff, Untold
  <2>3. CASE Now(a).to # 1
    <3>1. entry' = NoEntry /\ open' = {} /\ UNCHANGED pc /\ wish' = "off"
      BY <1>1, <2>3 DEF SetStartup
    <3>2. QED
      BY <1>0, <1>e, <2>1, <3>1 DEF HoldsOpen, StaysOff, Untold, Enabled, Mending
  <2>4. QED
    BY <2>2, <2>3
<1>2. CASE Hide
  <2>1. ~entry'.on /\ entry'.icon = entry.icon /\ entry' # Emptied
    BY <1>0, <1>2, <1>e DEF Hide, EntryOK, Entries
  <2>2. UNCHANGED <<open, pc, seen>>
    BY <1>2 DEF Hide, job
  <2>3. QED
    BY <1>0, <2>1, <2>2 DEF HoldsOpen, StaysOff, Enabled
<1>3. CASE IntegrateFirst
  <2>1. /\ entry' = Emptied /\ open' = open \cup {Tray} /\ pc' = [pc EXCEPT ![Tray] = "install"]
        /\ UNCHANGED <<seen, wish>> /\ entryExcused' = (entryExcused \/ (wish = "off" /\ ~marker)) /\ ~marker
    BY <1>3 DEF IntegrateFirst, Installs, Go
  <2>1a. \A b \in Actors : pc'[b] = IF b = Tray THEN "install" ELSE pc[b]
    BY <1>0, <2>1 DEF JobOK
  <2>2. HoldsOpen'
    BY <1>0, <1>e, <2>1, <2>1a DEF HoldsOpen, EntryOK
  <2>3. StaysOff'
    BY <2>1 DEF StaysOff, Untold
  <2>4. QED
    BY <2>2, <2>3
<1>4. CASE RepairRead
  <2>1. UNCHANGED <<entry, open, wish, entryExcused>> /\ pc[Tray] = "idle"
    BY <1>4 DEF RepairRead, Ready, files, ghost
  <2>2. \/ UNCHANGED <<pc, seen>>
        \/ seen' = entry /\ entry.icon = "old" /\ pc' = [pc EXCEPT ![Tray] = "repair"]
    BY <1>4 DEF RepairRead, Go
  <2>3. Tray \notin open
    BY <1>0, <2>1 DEF HoldsOpen
  <2>4. QED
    BY <1>0, <2>1, <2>2, <2>3 DEF HoldsOpen, StaysOff, Untold, Enabled, Mending, JobOK
<1>5. CASE RepairOpen
  <2>1. /\ entry' = Emptied /\ open' = open \cup {Tray} /\ pc' = [pc EXCEPT ![Tray] = "mend"]
        /\ UNCHANGED <<seen, wish>> /\ entryExcused' = (entryExcused \/ entry # seen) /\ pc[Tray] = "repair"
    BY <1>5 DEF RepairOpen, Go
  <2>1a. \A b \in Actors : pc'[b] = IF b = Tray THEN "mend" ELSE pc[b]
    BY <1>0, <2>1 DEF JobOK
  <2>2. HoldsOpen'
    BY <1>0, <1>e, <2>1, <2>1a DEF HoldsOpen, EntryOK
  <2>3. ASSUME Untold' PROVE /\ entry' = Emptied /\ Mending' /\ ~seen'.on
                             /\ \A a \in open' : pc'[a] # "install"
    <3>1. entry = seen /\ Untold /\ open = {}
      BY <1>0, <2>1, <2>3 DEF Untold, HoldsOpen
    <3>2. ~seen.on
      BY <1>0, <3>1 DEF StaysOff, Enabled, Mending, EntryOK
    <3>3. QED
      BY <1>0, <2>1, <3>1, <3>2 DEF Mending, JobOK
  <2>4. QED
    BY <2>2, <2>3 DEF StaysOff
<1>6. ASSUME NEW a \in Actors, EntryWrite(a) PROVE HoldsOpen' /\ StaysOff'
  <2>1. /\ pc[a] \in {"install", "mend"} /\ UNCHANGED <<seen, wish>> /\ open' = open \ {a}
        /\ entry' = (IF a \notin open THEN entry ELSE IF pc[a] = "mend" THEN Repaired ELSE Installed)
        /\ entryExcused' = (entryExcused \/ (a \in open /\ entry # Emptied))
        /\ \E l \in {"idle", "mark"} : pc' = [pc EXCEPT ![a] = l]
    BY <1>6 DEF EntryWrite, Go
  <2>2. pc'[a] \in {"idle", "mark"} /\ \A b \in Actors : b # a => pc'[b] = pc[b]
    BY <1>0, <2>1 DEF JobOK
  <2>3. \A b \in open' : b \in Actors /\ b \in open /\ b # a
    BY <1>0, <2>1 DEF EntryOK
  <2>4. HoldsOpen'
    BY <1>0, <1>e, <2>1, <2>2, <2>3 DEF HoldsOpen
  <2>5. CASE a \notin open
    <3>1. UNCHANGED <<entry, seen>> /\ open' = open /\ (Untold' => Untold)
      BY <2>1, <2>5 DEF Untold
    <3>2. (Mending' <=> Mending) /\ (Enabled' <=> Enabled) /\ \A b \in open' : pc'[b] = pc[b]
      BY <1>0, <2>2, <2>3, <3>1 DEF Mending, Enabled
    <3>3. StaysOff'
      BY <1>0, <3>1, <3>2 DEF StaysOff
    <3>4. QED
      BY <2>4, <3>3
  <2>6. ASSUME a \in open, Untold' PROVE ~entry'.on /\ entry' # Emptied
    <3>1. entry = Emptied /\ Untold
      BY <2>1, <2>6 DEF Untold
    <3>2. ~\E b \in open : pc[b] = "install"
      BY <1>0, <1>e, <3>1 DEF StaysOff
    <3>3. pc[a] = "mend" /\ a = Tray
      BY <1>0, <2>1, <2>6, <3>2 DEF HoldsOpen
    <3>4. ~seen.on
      BY <1>0, <2>6, <3>1, <3>3 DEF StaysOff, Mending
    <3>5. QED
      BY <1>e, <2>1, <2>6, <3>3, <3>4
  <2>7. QED
    BY <2>4, <2>5, <2>6 DEF StaysOff, Enabled
<1>7. ASSUME NEW a \in Actors, EntryFails(a) PROVE HoldsOpen' /\ StaysOff'
  <2>1. /\ pc[a] \in {"install", "repair", "mend"} /\ UNCHANGED <<entry, seen, wish>> /\ open' = open \ {a}
        /\ entryExcused' = (entryExcused \/ pc[a] = "mend") /\ pc' = [pc EXCEPT ![a] = "idle"]
    BY <1>7 DEF EntryFails, Go
  <2>2. pc'[a] = "idle" /\ \A b \in Actors : b # a => pc'[b] = pc[b]
    BY <1>0, <2>1 DEF JobOK
  <2>3. \A b \in open' : b \in Actors /\ b \in open /\ b # a
    BY <1>0, <2>1 DEF EntryOK
  <2>4. HoldsOpen'
    BY <1>0, <2>1, <2>2, <2>3 DEF HoldsOpen
  <2>5. ASSUME Untold' PROVE Untold /\ (Mending' <=> Mending)
    <3>1. Untold /\ pc[a] # "mend"
      BY <2>1, <2>5 DEF Untold
    <3>2. QED
      BY <1>0, <2>1, <2>2, <3>1 DEF Mending
  <2>5a. Enabled' <=> Enabled
    BY <2>1 DEF Enabled
  <2>6. QED
    BY <1>0, <2>1, <2>2, <2>3, <2>4, <2>5, <2>5a DEF StaysOff
<1>8. CASE Crash \/ \E a \in Clis : Kill(a)
  <2>1. PICK dead \in SUBSET Actors : Die(dead)
    BY <1>8 DEF Crash, Kill, Actors
  <2>2. /\ UNCHANGED <<entry, seen, wish>> /\ open' = open \ dead
        /\ entryExcused' = (entryExcused \/ (Tray \in dead /\ pc[Tray] = "mend"))
        /\ \A a \in Actors : pc'[a] = IF a \in dead THEN "idle" ELSE pc[a]
    BY <2>1 DEF Die
  <2>3. \A b \in open' : b \in Actors /\ b \in open /\ b \notin dead
    BY <1>0, <2>2 DEF EntryOK
  <2>4. HoldsOpen'
    BY <1>0, <2>2, <2>3 DEF HoldsOpen
  <2>5. ASSUME Untold' PROVE Untold /\ (Mending' <=> Mending)
    <3>1. Untold /\ ~(Tray \in dead /\ pc[Tray] = "mend")
      BY <2>2, <2>5 DEF Untold
    <3>2. QED
      BY <1>0, <2>2, <3>1 DEF Mending
  <2>5a. Enabled' <=> Enabled
    BY <2>2 DEF Enabled
  <2>6. QED
    BY <1>0, <2>2, <2>3, <2>4, <2>5, <2>5a DEF StaysOff
<1>9. CASE ~ \/ \E a \in Actors : SetStartup(a) \/ EntryWrite(a) \/ EntryFails(a)
             \/ Hide \/ IntegrateFirst \/ RepairRead \/ RepairOpen
             \/ Crash \/ \E a \in Clis : Kill(a)
  <2>1. UNCHANGED <<entry, open, seen, wish, entryExcused>>
    BY <1>9 DEF Next, Start, Exit, IntegrateFails, Mark, Ask, Refuse, ReadToSet, ReadFails, NothingToSet, ReadToLoad,
       Truncate, Fill, WriteFails, files, job, ghost, vars
  <2>2. \/ UNCHANGED pc
        \/ \E a \in Actors, l \in {"idle", "save", "write"} :
              Go(a, l) /\ pc[a] \in {"idle", "save", "write", "mark"}
    BY <1>0, <1>9 DEF Next, Start, Exit, IntegrateFails, Mark, Ask, Refuse, ReadToSet, ReadFails, NothingToSet, ReadToLoad,
       Truncate, Fill, WriteFails, Ready, job, vars
  <2>3. ASSUME NEW a \in Actors, pc'[a] # pc[a]
        PROVE  pc[a] \notin {"install", "repair", "mend"} /\ pc'[a] \notin {"install", "repair", "mend"}
    <3>1. pc \in [Actors -> Points]
      BY <1>0 DEF JobOK
    <3>2. PICK b \in Actors, l \in {"idle", "save", "write"} :
            pc' = [pc EXCEPT ![b] = l] /\ pc[b] \in {"idle", "save", "write", "mark"}
      BY <2>2, <2>3 DEF Go
    <3>3. QED
      BY <2>3, <3>1, <3>2
  <2>4. \A a \in open : a \in Actors
    BY <1>0 DEF EntryOK
  <2>5. HoldsOpen'
    BY <1>0, <2>1, <2>3, <2>4 DEF HoldsOpen
  <2>6. StaysOff'
    BY <1>0, <2>1, <2>3, <2>4 DEF StaysOff, Untold, Enabled, Mending
  <2>7. QED
    BY <2>5, <2>6
<1>10. QED
  BY <1>1, <1>2, <1>3, <1>4, <1>5, <1>6, <1>7, <1>8, <1>9

\* Who switched the start at sign-in off, in the settings or with the tools of
\* the desktop, stays without it through every start and crash of the engine.
\* Excused: a first start that never left its marker, and a repair of the icon
\* that met another change of the entry or was cut off between the two steps
\* of its write.
THEOREM DisabledSticks == Spec => []DisabledStaysDisabled
<1>1. Init => EntrySafe
  <2>1. Init => Types
    BY SoundInit DEF Sound
  <2>2. Init => HoldsOpen /\ StaysOff
    BY DEF Init, HoldsOpen, StaysOff, Untold, Actors, Engine
  <2>3. QED
    BY <2>1, <2>2 DEF EntrySafe
<1>2. EntrySafe => DisabledStaysDisabled
  BY DEF EntrySafe, StaysOff, Untold, Mending, DisabledStaysDisabled
<1>3. QED
  BY <1>1, <1>2, EntryStep, PTL DEF Spec

-----------------------------------------------------------------------------
(* Retired settings                                                          *)

\* Whatever is about to be saved to config.yaml was read without the retired
\* settings, and nobody asks for one.
SavesNone == \A a \in Actors : Open(a) /\ Now(a).f = "config" => data[a]["device"] = 0
Gone == want["config"]["device"] = 0 => file["config"]["device"] = 0

\* The steps that read, and those that write.
LEMMA SavesNoneStep ==
  ASSUME Types, SavesNone, [Next]_vars
  PROVE  SavesNone'
<1>0. JobOK /\ FileOK /\ JobOK'
  BY JobType DEF Types
<1>1. ASSUME NEW a \in Actors, ReadToSet(a) PROVE SavesNone'
  <2>1. todo[a] # <<>> /\ Now(a).op = "set"
    BY <1>1 DEF ReadToSet, Ready
  <2>2. Now(a).f = "config" => Now(a).k # "device"
    BY <1>0, <2>1, NowType DEF Ops, OpType
  <2>3. /\ pc' = [pc EXCEPT ![a] = "save"] /\ UNCHANGED todo
        /\ data' = [data EXCEPT ![a] = Changed(a, Raw(Now(a).f, file[Now(a).f]))]
    BY <1>1 DEF ReadToSet, Go
  <2>4. ASSUME Now(a).f = "config" PROVE data'[a]["device"] = 0
    <3>1. file["config"] \in Contents("config") /\ "device" \in Keys["config"]
      BY <1>0, KeysOf DEF FileOK, Files
    <3>2. data'[a] = [[file["config"] EXCEPT !["device"] = 0] EXCEPT ![Now(a).k] = Now(a).to]
      BY <1>0, <2>3, <2>4 DEF Changed, Raw, Migrated, JobOK
    <3>3. QED
      BY <2>2, <2>4, <3>1, <3>2 DEF Contents
  <2>5. QED
    BY <1>0, <2>3, <2>4 DEF SavesNone, Open, Now, JobOK
<1>1a. ASSUME NEW a \in Actors, ReadFails(a) PROVE SavesNone'
  <2>1. pc[a] = "idle" /\ todo[a] # <<>>
    BY <1>1a DEF ReadFails, Ready
  <2>2. Now(a) \in Ops
    BY <1>0, <2>1, NowType
  <2>3. CASE Next1(a) /\ UNCHANGED <<pc, data>>
    BY <1>0, <2>1, <2>3 DEF Next1, SavesNone, Open, Now, JobOK
  <2>4. CASE /\ Go(a, "save") /\ UNCHANGED todo
             /\ data' = [data EXCEPT ![a] = Changed(a, Nothing(Now(a).f))]
    <3>1. ASSUME Now(a).f = "config" PROVE data'[a]["device"] = 0
      <4>1. Now(a).k # "device" /\ "device" \in Keys["config"]
        BY <2>2, KeysOf DEF Ops, OpType
      <4>2. data'[a] = [Nothing("config") EXCEPT ![Now(a).k] = Now(a).to]
        BY <1>0, <2>4, <3>1 DEF Changed, JobOK
      <4>3. QED
        BY <4>1, <4>2 DEF Nothing
    <3>2. QED
      BY <1>0, <2>4, <3>1 DEF Go, SavesNone, Open, Now, JobOK
  <2>5. QED
    BY <1>1a, <2>3, <2>4 DEF ReadFails
<1>2. ASSUME NEW a \in Actors, ReadToLoad(a) PROVE SavesNone'
  <2>1. pc[a] = "idle" /\ todo[a] # <<>>
    BY <1>2 DEF ReadToLoad, Ready
  <2>2. CASE After(a, file["config"]) /\ UNCHANGED <<pc, data>>
    BY <1>0, <2>1, <2>2, AfterType DEF SavesNone, Open, Now
  <2>3. CASE /\ data' = [data EXCEPT ![a] = Migrated("config", file["config"])]
             /\ Go(a, "save") /\ UNCHANGED todo
    <3>1. file["config"] \in Contents("config") /\ "device" \in Keys["config"]
      BY <1>0, KeysOf DEF FileOK, Files
    <3>2. Migrated("config", file["config"])["device"] = 0
      BY <3>1 DEF Migrated, Contents
    <3>3. QED
      BY <1>0, <2>3, <3>2 DEF SavesNone, Open, Now, Go, JobOK
  <2>4. QED
    BY <1>2, <2>2, <2>3 DEF ReadToLoad
<1>3. ASSUME NEW a \in Actors, Truncate(a) PROVE SavesNone'
  BY <1>0, <1>3 DEF Truncate, Go, SavesNone, Open, Now, JobOK
<1>4. ASSUME NEW a \in Actors, Fill(a) \/ WriteFails(a) PROVE SavesNone'
  <2>1. todo[a] # <<>>
    BY <1>0, <1>4 DEF Fill, WriteFails, JobOK
  <2>2. \A b \in Actors : b # a => pc'[b] = pc[b] /\ todo'[b] = todo[b] /\ data'[b] = data[b]
    <3>1. todo' = [todo EXCEPT ![a] = <<>>] \/ After(a, data[a])
      BY <1>4 DEF Fill, WriteFails
    <3>2. \A b \in Actors : b # a => todo'[b] = todo[b]
      BY <1>0, <2>1, <3>1, AfterType DEF JobOK
    <3>3. pc' = [pc EXCEPT ![a] = "idle"] /\ data' = [data EXCEPT ![a] = Nothing("config")]
      BY <1>4 DEF Fill, WriteFails, Go
    <3>4. QED
      BY <1>0, <3>2, <3>3 DEF JobOK
  <2>3. pc'[a] = "idle"
    BY <1>0, <1>4 DEF Fill, WriteFails, Go, JobOK
  <2>4. QED
    BY <2>2, <2>3 DEF SavesNone, Open, Now
<1>5. CASE Crash \/ \E a \in Clis : Kill(a)
  <2>1. PICK dead : Die(dead)
    BY <1>5 DEF Crash, Kill
  <2>2. \A a \in Actors : pc'[a] = "idle" \/ (pc'[a] = pc[a] /\ todo'[a] = todo[a] /\ data'[a] = data[a])
    BY <2>1 DEF Die
  <2>3. QED
    BY <2>2 DEF SavesNone, Open, Now
<1>6. CASE Elsewhere
  <2>1. CASE UNCHANGED <<pc, todo, data>>
    BY <2>1 DEF SavesNone, Open, Now
  <2>2. ASSUME NEW a \in Actors, Aside(a) PROVE SavesNone'
    BY <2>2 DEF Aside, SavesNone, Open, Now
  <2>3. QED
    BY <1>6, <2>1, <2>2 DEF Elsewhere
<1>7. QED
  BY <1>1, <1>1a, <1>2, <1>3, <1>4, <1>5, <1>6, AsideSteps

LEMMA GoneStep ==
  ASSUME Types, SavesNone, Gone, [Next]_vars
  PROVE  Gone' /\ (want["config"]["device"] = 0 => file'["config"]["device"] = 0)
<1>0. JobOK /\ FileOK /\ "device" \in Keys["config"] /\ "config" \in Files
  BY KeysOf DEF Types, Files
<1>1. ASSUME NEW a \in Actors, Truncate(a)
      PROVE  /\ UNCHANGED want
             /\ file'["config"] = file["config"] \/ file'["config"]["device"] = 0
  BY <1>0, <1>1 DEF Truncate, FileOK, Nothing
<1>2. ASSUME NEW a \in Actors, Fill(a)
      PROVE  \/ file'["config"] = file["config"] /\ want'["config"] = want["config"]
             \/ file'["config"]["device"] = 0
  <2>1. CASE Now(a).f = "config"
    <3>1. data[a]["device"] = 0
      BY <1>2, <2>1 DEF SavesNone, Open, Fill
    <3>2. file'["config"] = data[a]
      BY <1>0, <1>2, <2>1 DEF Fill, FileOK
    <3>3. QED
      BY <3>1, <3>2
  <2>2. CASE Now(a).f # "config"
    BY <1>0, <1>2, <2>2 DEF Fill, FileOK
  <2>3. QED
    BY <2>1, <2>2
<1>3. CASE ~\E a \in Actors : Truncate(a) \/ Fill(a)
  <2>1. UNCHANGED <<file, want>>
    BY <1>3 DEF Next, Start, Exit, Crash, Die, Kill, Hide, IntegrateFirst, IntegrateFails, RepairRead, RepairOpen, Mark,
       Ask, Refuse, ReadToSet, ReadFails, NothingToSet, ReadToLoad, WriteFails, SetStartup, EntryWrite, EntryFails,
       files, ghost, vars
  <2>2. QED
    BY <2>1 DEF Gone
<1>4. QED
  BY <1>1, <1>2, <1>3 DEF Gone

\* A retired setting that has gone from config.yaml does not come back, from
\* whatever actor wrote the file last, one that had read it before included.
THEOREM RetiredGone == Spec => RetiredStaysAway
<1> DEFINE I == Types /\ SavesNone /\ Gone
<1>1. Init => I
  <2>1. Init => Types
    BY SoundInit DEF Sound
  <2>2. Init => SavesNone /\ Gone
    BY DEF Init, SavesNone, Gone, Open
  <2>3. QED
    BY <2>1, <2>2
<1>2. I /\ [Next]_vars => I' /\ [want["config"]["device"] = 0 => file'["config"]["device"] = 0]_vars
  BY TypesStep, SavesNoneStep, GoneStep
<1> HIDE DEF I
<1>3. QED
  BY <1>1, <1>2, PTL DEF Spec, RetiredStaysAway

=============================================================================
