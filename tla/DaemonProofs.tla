---------------------------- MODULE DaemonProofs ----------------------------
(***************************************************************************)
(* Theorems about Daemon, for every value of its constants: the state, the *)
(* queues and the locals keep the shape the next step expects; a lock is   *)
(* kept only where the code keeps it; the queues and the terminal cache    *)
(* keep their bounds; what is delivered is delivered once, never after it  *)
(* was reported as failed, and in the order it was spoken; the microphone  *)
(* runs only for a recording that can be ended.  The inductive invariants  *)
(* are those of DaemonInvariants.                                          *)
(***************************************************************************)
EXTENDS DaemonInvariants, TLAPS

-----------------------------------------------------------------------------
(* Types of the values the actions build *)

LEMMA IdsType == Ids \subseteq Nat /\ IdOrNone \subseteq Nat /\ NoId \notin Ids
  BY BoundsAssumption DEF Ids, IdOrNone, NoId

LEMMA WorkersAreThreads ==
  /\ "worker" \in Threads /\ "cleaner" \in Threads /\ "hotkey" \in Threads
  /\ "tray" \in Threads /\ "auto" \in Threads
  BY DEF Threads, Workers

LEMMA OneCapture == <<>> \in Seq(Nat) /\ (caps \in Nat => <<caps>> \in Seq(Nat))
  OBVIOUS

LEMMA ConcatType == \A a, b \in Seq(Nat) : a \o b \in Seq(Nat)
  OBVIOUS

LEMMA NoLocalsType == NoLocals \in Locals
  BY DEF NoLocals, Locals, IdOrNone, Modes, Returns

LEMMA NoSessionType == NoSession \in Sessions
  BY DEF NoSession, Sessions, Modes

LEMMA ModeOfType ==
  ASSUME SessionsOK, NEW id
  PROVE  ModeOf(id) \in Modes
  BY DEF SessionsOK, ModeOf, Sessions, Modes

LEMMA ClearedType ==
  ASSUME NEW s \in [Ids -> Sessions], NEW id
  PROVE  Cleared(s, id) \in [Ids -> Sessions]
  BY NoSessionType DEF Cleared

LEMMA RememberType ==
  ASSUME terminal \subseteq Ids, termOrder \in Seq(Ids), NEW id \in Ids, Remember(id)
  PROVE  terminal' \subseteq Ids /\ termOrder' \in Seq(Ids)
  BY DEF Remember

LEMMA SeeType ==
  ASSUME log \in [Ids -> [Events -> Nat]], NEW id, NEW events, See(id, events)
  PROVE  log' \in [Ids -> [Events -> Nat]]
<1>1. CASE id \in Ids
  <2>1. [e \in Events |-> log[id][e] + IF e \in events THEN 1 ELSE 0] \in [Events -> Nat]
    BY <1>1
  <2>2. QED
    BY <2>1, Zenon DEF See
<1>2. CASE id \notin Ids
  BY <1>2 DEF See
<1>3. QED
  BY <1>1, <1>2

LEMMA ShowType ==
  ASSUME ShownOK, NEW mode, ShowCapturing(mode) \/ ShowStopped(mode)
  PROVE  ShownOK'
  BY DEF ShownOK, ShowCapturing, ShowStopped

-----------------------------------------------------------------------------
(* Moving a thread *)

LEMMA MovesTo ==
  ASSUME TypeInv, NEW t \in Threads, NEW label \in PCs, Goto(t, label),
         NEW locals \in Locals, loc' = [loc EXCEPT ![t] = locals],
         label \in Bound => locals.id \in Ids
  PROVE  Moved
  BY DEF TypeInv, TypeOK, ThreadsOK, HasId, Goto, Moved

\* The locals stay.
LEMMA GotoMoves ==
  ASSUME TypeInv, NEW t \in Threads, NEW label \in PCs, Goto(t, label), UNCHANGED loc,
         label \in Bound => loc[t].id \in Ids
  PROVE  Moved
  BY DEF TypeInv, TypeOK, ThreadsOK, HasId, Goto, Moved

LEMMA StayMoves ==
  ASSUME TypeInv, UNCHANGED <<pc, loc>>
  PROVE  Moved
  BY DEF TypeInv, TypeOK, ThreadsOK, HasId, Moved

LEMMA ReturnMoves ==
  ASSUME TypeInv, NEW t \in Threads, Return(t)
  PROVE  Moved
<1>1. loc[t].back \in PCs \ Bound
  BY DEF TypeInv, TypeOK, ThreadsOK, Locals, PCs, Bound
<1>2. QED
  BY <1>1, NoLocalsType DEF TypeInv, TypeOK, ThreadsOK, HasId, Return, Goto, Moved

LEMMA LoopMoves ==
  ASSUME TypeInv, NEW t \in Threads, Loop(t)
  PROVE  Moved
  BY NoLocalsType DEF TypeInv, TypeOK, ThreadsOK, HasId, Loop, Goto, Moved, PCs, Bound

LEMMA LocalsOf == ASSUME TypeInv, NEW t \in Threads PROVE loc[t] \in Locals
  BY DEF TypeInv, TypeOK, ThreadsOK

LEMMA BeginMoves ==
  ASSUME TypeInv, NEW t \in Threads, NEW label \in PCs \ Bound, NEW mode \in Modes,
         Begin(t, label, mode)
  PROVE  Moved
<1> DEFINE next == [loc[t] EXCEPT !.mode = mode]
<1>1. next \in Locals
  BY LocalsOf DEF Locals
<1>2. loc' = [loc EXCEPT ![t] = next]
  BY DEF Begin
<1> HIDE DEF next
<1>3. QED
  BY <1>1, <1>2, MovesTo DEF Begin

LEMMA FailMoves ==
  ASSUME TypeInv, NEW t \in Threads, NEW id \in Ids, NEW hard \in BOOLEAN, NEW ret \in Returns,
         Fail(t, id, hard, ret)
  PROVE  Moved
<1> DEFINE next == [loc[t] EXCEPT !.id = id, !.hard = hard, !.ret = ret]
<1>1. next \in Locals /\ next.id = id
  BY LocalsOf DEF Locals, IdOrNone
<1>2. loc' = [loc EXCEPT ![t] = next]
  BY DEF Fail
<1> HIDE DEF next
<1>3. QED
  BY <1>1, <1>2, MovesTo DEF Fail, PCs

LEMMA FailReturnMoves ==
  ASSUME TypeInv, NEW t \in Threads, loc[t].id \in Ids, FailReturn(t)
  PROVE  Moved
<1> DEFINE kept == [loc[t] EXCEPT !.active = FALSE, !.running = FALSE, !.note = FALSE,
                            !.failMode = "dictation", !.hard = FALSE, !.ret = "idle"]
<1>1. kept \in Locals
  BY LocalsOf DEF Locals, Modes, Returns
<1>5. kept.id = loc[t].id
  BY LocalsOf DEF Locals
<1>2. loc[t].ret \in PCs /\ (loc[t].ret = "W0" => loc[t].ret \notin Bound)
  BY DEF TypeInv, TypeOK, ThreadsOK, Locals, PCs, Returns, Bound
<1> HIDE DEF kept
<1>3. loc' = [loc EXCEPT ![t] = IF loc[t].ret = "W0" THEN NoLocals ELSE kept]
  BY DEF FailReturn, kept
<1>4. QED
  BY <1>1, <1>2, <1>3, <1>5, NoLocalsType DEF TypeInv, TypeOK, ThreadsOK, HasId, FailReturn, Goto, Moved

-----------------------------------------------------------------------------
(* Every step keeps the types *)

\* The parts of the state a step leaves alone keep their types.
LEMMA Same ==
  ASSUME TypeInv
  PROVE  /\ UNCHANGED locks => LocksOK'
         /\ UNCHANGED capture => CaptureOK'
         /\ UNCHANGED sessions => SessionsOK'
         /\ UNCHANGED queues => QueuesOK'
         /\ UNCHANGED notes => NotesOK'
         /\ UNCHANGED outcome => OutcomeOK'
         /\ UNCHANGED shown => ShownOK'
         /\ UNCHANGED control => ControlOK'
  BY DEF TypeInv, TypeOK, LocksOK, CaptureOK, SessionsOK, QueuesOK, NotesOK, OutcomeOK,
     ShownOK, ControlOK, locks, capture, sessions, queues, notes, outcome, shown, control

LEMMA Parts ==
  ASSUME Moved, LocksOK', CaptureOK', SessionsOK', QueuesOK', NotesOK', OutcomeOK',
         ShownOK', ControlOK'
  PROVE  TypeInv'
  BY DEF Moved, TypeInv, TypeOK

\* Taking and giving back the locks.
LEMMA LocksMove ==
  ASSUME TypeInv, NEW t \in Threads,
         ctl' \in {ctl, t, Free}, rec' \in {rec, t, Free}, eng' \in {eng, t, Free}
  PROVE  LocksOK'
  BY DEF TypeInv, TypeOK, LocksOK

LEMMA AcquireType ==
  ASSUME TypeInv, NEW t \in Threads, NEW from, NEW to \in PCs \ Bound, Acquire(t, from, to)
  PROVE  TypeInv'
<1>1. Moved
  BY GotoMoves DEF Acquire
<1>2. LocksOK'
  BY LocksMove DEF Acquire
<1>3. QED
  BY <1>1, <1>2, Same, Parts DEF Acquire

LEMMA StartCheckType ==
  ASSUME TypeInv, NEW t \in Threads, StartCheck(t)
  PROVE  TypeInv'
<1>1. CASE recOn \/ ~accepting \/ paused \/ gen = MaxOps
  <2>1. Moved /\ LocksOK'
    BY <1>1, ReturnMoves, LocksMove DEF StartCheck, Leave
  <2>2. CaptureOK'
    BY <1>1 DEF StartCheck, TypeInv, TypeOK, CaptureOK
  <2>3. QED
    BY <2>1, <2>2, Same, Parts DEF StartCheck
<1>2. CASE ~(recOn \/ ~accepting \/ paused \/ gen = MaxOps)
  <2> DEFINE next == [loc[t] EXCEPT !.id = gen + 1]
  <2>1. gen + 1 \in Ids
    BY <1>2, BoundsAssumption DEF TypeInv, TypeOK, CaptureOK, Ids, IdOrNone, NoId
  <2>2. next \in Locals /\ next.id \in Ids
    BY <2>1, LocalsOf DEF Locals, IdOrNone
  <2>3. loc' = [loc EXCEPT ![t] = next]
    BY <1>2 DEF StartCheck
  <2> HIDE DEF next
  <2>4. Moved
    BY <1>2, <2>2, <2>3, MovesTo DEF StartCheck, PCs
  <2>5. LocksOK'
    BY <1>2, LocksMove DEF StartCheck
  <2>6. CaptureOK'
    BY <1>2, <2>1 DEF StartCheck, TypeInv, TypeOK, CaptureOK, IdOrNone
  <2>7. QED
    BY <2>4, <2>5, <2>6, Same, Parts DEF StartCheck
<1>3. QED
  BY <1>1, <1>2

LEMMA StartCaptureType ==
  ASSUME TypeInv, NEW t \in Threads, StartCapture(t)
  PROVE  TypeInv'
<1> DEFINE id == loc[t].id
           m  == loc[t].mode
           new == [mode |-> m, stt |-> stt, note |-> m = "note", open |-> TRUE, parts |-> <<>>]
<1>1. Moved /\ LocksOK'
  BY ReturnMoves, LocksMove DEF StartCapture, Leave
<1>2. SessionsOK'
  <2>1. new \in Sessions
    BY LocalsOf DEF TypeInv, TypeOK, ControlOK, Sessions, Locals
  <2>2. sess' \in {[sess EXCEPT ![id] = new], Cleared(sess, id)}
    BY DEF StartCapture
  <2> HIDE DEF new, id
  <2>3. sess' \in [Ids -> Sessions]
    BY <2>1, <2>2, ClearedType DEF TypeInv, TypeOK, SessionsOK
  <2>4. QED
    BY <2>3 DEF StartCapture, TypeInv, TypeOK, SessionsOK
<1>3. CaptureOK'
  <2>1. caps' \in {caps, caps + 1} /\ activeId' \in {activeId, NoId} /\ UNCHANGED <<gen, paused>>
    BY DEF StartCapture
  <2>2. recOn' \in BOOLEAN
    BY DEF StartCapture, TypeInv, TypeOK, CaptureOK
  <2>3. QED
    BY <2>1, <2>2 DEF TypeInv, TypeOK, CaptureOK, IdOrNone
<1>7. ShownOK'
  BY ShowType, Same DEF StartCapture, TypeInv, TypeOK
<1>4. NotesOK'
  BY DEF StartCapture, TypeInv, TypeOK, NotesOK
<1>5. OutcomeOK'
  BY SeeType DEF StartCapture, TypeInv, TypeOK, OutcomeOK
<1>6. QED
  BY <1>1, <1>2, <1>3, <1>7, <1>4, <1>5, Same, Parts DEF StartCapture

LEMMA FinalizeStopType ==
  ASSUME TypeInv, NEW t \in Threads, FinalizeStop(t)
  PROVE  TypeInv'
<1>1. CaptureOK'
  BY DEF FinalizeStop, TypeInv, TypeOK, CaptureOK
<1>2. LocksOK'
  BY LocksMove DEF FinalizeStop, Leave
<1>3. Moved
  <2>1. CASE activeId = NoId
    BY <2>1, ReturnMoves DEF FinalizeStop, Leave
  <2>2. CASE activeId # NoId
    <3>1. activeId \in Ids /\ ModeOf(activeId) \in Modes
      BY <2>2, ModeOfType DEF TypeInv, TypeOK, CaptureOK, IdOrNone
    <3>2. ASSUME NEW audio \in {<<>>} \cup (IF recOn THEN {<<caps>>} ELSE {}),
                 loc' = [loc EXCEPT ![t].id = activeId, ![t].mode = ModeOf(activeId), ![t].captures = audio],
                 Goto(t, "Z2")
          PROVE  Moved
      <4> DEFINE next == [loc[t] EXCEPT !.id = activeId, !.mode = ModeOf(activeId), !.captures = audio]
      <4>0. (audio = <<>> \/ audio = <<caps>>) /\ caps \in Nat
        BY <3>2 DEF TypeInv, TypeOK, CaptureOK
      <4>1. audio \in Seq(Nat)
        BY <4>0, OneCapture, Zenon
      <4>2. next \in Locals
        BY <3>1, <4>1, LocalsOf DEF Locals, IdOrNone
      <4>3. next.id \in Ids
        BY <3>1, LocalsOf DEF Locals
      <4>4. loc' = [loc EXCEPT ![t] = next]
        BY <3>2
      <4> HIDE DEF next
      <4>5. QED
        BY <3>2, <4>2, <4>3, <4>4, MovesTo DEF PCs
    <3>3. ASSUME loc' = [loc EXCEPT ![t].id = activeId, ![t].mode = ModeOf(activeId),
                                    ![t].hard = TRUE, ![t].ret = "Z4"],
                 Goto(t, "F1")
          PROVE  Moved
      <4> DEFINE next == [loc[t] EXCEPT !.id = activeId, !.mode = ModeOf(activeId),
                                        !.hard = TRUE, !.ret = "Z4"]
      <4>1. next \in Locals
        BY <3>1, LocalsOf DEF Locals, IdOrNone, Returns
      <4>2. next.id \in Ids
        BY <3>1, LocalsOf DEF Locals
      <4>3. loc' = [loc EXCEPT ![t] = next]
        BY <3>3
      <4> HIDE DEF next
      <4>4. QED
        BY <3>3, <4>1, <4>2, <4>3, MovesTo DEF PCs
    <3>4. QED
      BY <2>2, <3>2, <3>3 DEF FinalizeStop
  <2>3. QED
    BY <2>1, <2>2
<1>4. QED
  BY <1>1, <1>2, <1>3, Same, Parts DEF FinalizeStop

LEMMA FinalizeQueueType ==
  ASSUME TypeInv, NEW t \in Threads, FinalizeQueue(t)
  PROVE  TypeInv'
<1> DEFINE id == loc[t].id
           audio == loc[t].captures
<1>1. id \in Ids /\ audio \in Seq(Nat)
  BY LocalsOf DEF FinalizeQueue, TypeInv, HasId, Bound, Locals
<1>2. Moved
  <2>1. CASE Leave(t)
    BY <2>1, ReturnMoves DEF Leave
  <2>2. CASE Goto(t, "Z3") /\ UNCHANGED loc
    BY <2>2, GotoMoves DEF PCs, Bound
  <2>3. ASSUME NEW hard \in BOOLEAN, NEW ret \in {"Z3", "Z4"}, Fail(t, id, hard, ret) PROVE Moved
    BY <1>1, <2>3, FailMoves DEF Returns
  <2>4. QED
    BY <2>1, <2>2, <2>3 DEF FinalizeQueue
<1>3. LocksOK'
  BY LocksMove DEF FinalizeQueue, Leave
<1>4. CaptureOK' /\ ShownOK'
  BY ShowType DEF FinalizeQueue, TypeInv, TypeOK, CaptureOK, ShownOK, IdOrNone, shown
<1>5. SessionsOK'
  BY ClearedType DEF FinalizeQueue, TypeInv, TypeOK, SessionsOK
<1>6. QueuesOK'
  <2>1. [id |-> id, captures |-> audio] \in Chunks
    BY <1>1 DEF Chunks
  <2>2. UNCHANGED partialQ /\ finalQ' \in {finalQ, Append(finalQ, [id |-> id, captures |-> audio])}
    BY DEF FinalizeQueue
  <2>3. QED
    BY <2>1, <2>2 DEF TypeInv, TypeOK, QueuesOK, Items
<1>7. QED
  BY <1>2, <1>3, <1>4, <1>5, <1>6, Same, Parts DEF FinalizeQueue

LEMMA FinalizeEndType ==
  ASSUME TypeInv, NEW t \in Threads, FinalizeEnd(t) \/ FinalizeFailed(t)
  PROVE  TypeInv'
<1>1. Moved /\ LocksOK'
  BY ReturnMoves, LocksMove DEF FinalizeEnd, FinalizeFailed, Leave
<1>2. CaptureOK' /\ ShownOK'
  BY ShowType, Same DEF FinalizeEnd, FinalizeFailed, TypeInv, TypeOK, CaptureOK, ShownOK, IdOrNone, shown
<1>3. QED
  BY <1>1, <1>2, Same, Parts DEF FinalizeEnd, FinalizeFailed

LEMMA PauseStopType ==
  ASSUME TypeInv, NEW t \in Threads, PauseStop(t)
  PROVE  TypeInv'
<1>1. CaptureOK'
  BY DEF PauseStop, TypeInv, TypeOK, CaptureOK
<1>2. LocksOK'
  BY LocksMove DEF PauseStop, Leave
<1>3. Moved
  <2>1. CASE Leave(t)
    BY <2>1, ReturnMoves DEF Leave
  <2>2. ASSUME activeId # NoId, NEW audio \in {<<>>, <<caps>>},
               loc' = [loc EXCEPT ![t].id = activeId, ![t].captures = audio], Goto(t, "P2")
        PROVE  Moved
    <3> DEFINE next == [loc[t] EXCEPT !.id = activeId, !.captures = audio]
    <3>1. activeId \in Ids /\ caps \in Nat
      BY <2>2 DEF TypeInv, TypeOK, CaptureOK, IdOrNone
    <3>2. audio \in Seq(Nat)
      BY <3>1, OneCapture, Zenon
    <3>3. next \in Locals
      BY <3>1, <3>2, LocalsOf DEF Locals, IdOrNone
    <3>4. next.id \in Ids
      BY <3>1, LocalsOf DEF Locals
    <3>5. loc' = [loc EXCEPT ![t] = next]
      BY <2>2
    <3> HIDE DEF next
    <3>6. QED
      BY <2>2, <3>3, <3>4, <3>5, MovesTo DEF PCs
  <2>3. QED
    BY <2>1, <2>2 DEF PauseStop
<1>4. QED
  BY <1>1, <1>2, <1>3, Same, Parts DEF PauseStop

LEMMA PauseQueueType ==
  ASSUME TypeInv, NEW t \in Threads, PauseQueue(t)
  PROVE  TypeInv'
<1> DEFINE chunk == [id |-> loc[t].id, captures |-> loc[t].captures]
<1>1. Moved
  <2>1. CASE Leave(t)
    BY <2>1, ReturnMoves DEF Leave
  <2>2. CASE Goto(t, "P3") /\ UNCHANGED loc
    BY <2>2, GotoMoves DEF PCs, Bound
  <2>3. QED
    BY <2>1, <2>2 DEF PauseQueue
<1>2. LocksOK'
  BY LocksMove DEF PauseQueue, Leave
<1>3. QueuesOK'
  <2>1. chunk \in Chunks
    BY LocalsOf DEF PauseQueue, TypeInv, HasId, Bound, Locals, Chunks
  <2>2. UNCHANGED finalQ
    BY DEF PauseQueue
  <2>3. \/ partialQ' = partialQ
        \/ partialQ' = Append(IF Len(partialQ) < PartialCap THEN partialQ ELSE Tail(partialQ), chunk)
    BY Zenon DEF PauseQueue
  <2>4. partialQ \in Seq(Chunks) /\ (~(Len(partialQ) < PartialCap) => partialQ # <<>>)
    BY BoundsAssumption DEF TypeInv, TypeOK, QueuesOK
  <2> HIDE DEF chunk
  <2>5. partialQ' \in Seq(Chunks)
    BY <2>1, <2>3, <2>4
  <2>6. QED
    BY <2>2, <2>5 DEF TypeInv, TypeOK, QueuesOK
<1>4. QED
  BY <1>1, <1>2, <1>3, Same, Parts DEF PauseQueue

LEMMA PauseEndType ==
  ASSUME TypeInv, NEW t \in Threads, PauseEnd(t)
  PROVE  TypeInv'
<1>1. Moved /\ LocksOK'
  BY ReturnMoves, LocksMove DEF PauseEnd, Leave
<1>2. CaptureOK' /\ ShownOK'
  BY DEF PauseEnd, TypeInv, TypeOK, CaptureOK, ShownOK, shown
<1>3. QED
  BY <1>1, <1>2, Same, Parts DEF PauseEnd

LEMMA ResumeType ==
  ASSUME TypeInv, NEW t \in Threads, Resume(t)
  PROVE  TypeInv'
<1>1. Moved /\ LocksOK'
  BY ReturnMoves, LocksMove DEF Resume, Leave
<1>2. CaptureOK'
  <2>1. caps' \in {caps, caps + 1, caps + 0} /\ UNCHANGED <<gen, activeId>>
    BY DEF Resume
  <2>2. paused' \in BOOLEAN /\ recOn' \in BOOLEAN
    BY DEF Resume, TypeInv, TypeOK, CaptureOK
  <2>3. QED
    BY <2>1, <2>2 DEF TypeInv, TypeOK, CaptureOK
<1>3. ShownOK'
  BY ShowType, Same DEF Resume, TypeInv, TypeOK
<1>4. QED
  BY <1>1, <1>2, <1>3, Same, Parts DEF Resume

LEMMA StartNoteType ==
  ASSUME TypeInv, NEW t \in Threads, StartNote(t) \/ Toggle(t)
  PROVE  TypeInv'
<1>1. Moved
  <2>1. CASE Return(t)
    BY <2>1, ReturnMoves
  <2>2. CASE \E label \in {"R0", "S0", "Z0"} : Begin(t, label, "note")
    <3>1. {"R0", "S0", "Z0"} \subseteq PCs \ Bound /\ "note" \in Modes
      BY DEF PCs, Bound, Modes
    <3>2. QED
      BY <2>2, <3>1, BeginMoves
  <2>3. QED
    BY <2>1, <2>2 DEF StartNote, Toggle
<1>2. LocksOK'
  BY LocksMove DEF StartNote, Toggle, locks
<1>3. QED
  BY <1>1, <1>2, Same, Parts DEF StartNote, Toggle

LEMMA StopCheckType ==
  ASSUME TypeInv, NEW t \in Threads, StopCheck(t)
  PROVE  TypeInv'
<1>1. LocksOK'
  BY LocksMove DEF StopCheck
<1>2. CASE activeId = NoId \/ ModeOf(activeId) # "note"
  BY <1>1, <1>2, ReturnMoves, Same, Parts DEF StopCheck
<1>3. CASE activeId # NoId /\ ModeOf(activeId) = "note"
  <2> DEFINE next == [loc[t] EXCEPT !.id = activeId]
             label == IF paused THEN "T2" ELSE "Z0"
  <2>1. activeId \in Ids
    BY <1>3 DEF TypeInv, TypeOK, CaptureOK, IdOrNone
  <2>2. next \in Locals
    BY <2>1, LocalsOf DEF Locals, IdOrNone
  <2>3. next.id \in Ids
    BY <2>1, LocalsOf DEF Locals
  <2>4. loc' = [loc EXCEPT ![t] = next] /\ Goto(t, label) /\ label \in PCs
    BY <1>3 DEF StopCheck, PCs
  <2> HIDE DEF next, label
  <2>5. QED
    BY <1>1, <1>3, <2>2, <2>3, <2>4, MovesTo, Same, Parts DEF StopCheck
<1>4. QED
  BY <1>2, <1>3

LEMMA StopPausedType ==
  ASSUME TypeInv, NEW t \in Threads, StopPaused(t)
  PROVE  TypeInv'
<1>1. Moved
  <2>1. CASE Return(t)
    BY <2>1, ReturnMoves
  <2>2. CASE Goto(t, "T3") /\ UNCHANGED loc
    BY <2>2, GotoMoves DEF StopPaused, PCs, Bound, TypeInv, HasId
  <2>3. QED
    BY <2>1, <2>2 DEF StopPaused, StopOvertaken
<1>2. CaptureOK'
  BY DEF StopPaused, TypeInv, TypeOK, CaptureOK
<1>3. QED
  BY <1>1, <1>2, Same, Parts DEF StopPaused

LEMMA StopQueueType ==
  ASSUME TypeInv, NEW t \in Threads, StopQueue(t)
  PROVE  TypeInv'
<1> DEFINE chunk == [id |-> loc[t].id, captures |-> <<>>]
<1>1. loc[t].id \in Ids
  BY DEF StopQueue, TypeInv, HasId, Bound
<1>2. Moved
  <2>1. CASE Goto(t, "T4") /\ UNCHANGED loc
    BY <2>1, GotoMoves DEF PCs, Bound
  <2>2. CASE Fail(t, loc[t].id, FALSE, "T4")
    BY <1>1, <2>2, FailMoves DEF Returns
  <2>3. QED
    BY <2>1, <2>2 DEF StopQueue
<1>3. QueuesOK'
  <2>1. chunk \in Items
    BY <1>1, OneCapture DEF Chunks, Items
  <2>2. UNCHANGED partialQ /\ finalQ' \in {finalQ, Append(finalQ, chunk)}
    BY DEF StopQueue
  <2> HIDE DEF chunk
  <2>3. QED
    BY <2>1, <2>2 DEF TypeInv, TypeOK, QueuesOK
<1>4. QED
  BY <1>2, <1>3, Same, Parts DEF StopQueue

LEMMA StopEndType ==
  ASSUME TypeInv, NEW t \in Threads, StopEnd(t)
  PROVE  TypeInv'
<1>1. Moved
  BY ReturnMoves DEF StopEnd
<1>2. CaptureOK'
  BY DEF StopEnd, TypeInv, TypeOK, CaptureOK, IdOrNone
<1>3. ShownOK'
  BY ShowType, Same DEF StopEnd, TypeInv, TypeOK
<1>4. QED
  BY <1>1, <1>2, <1>3, Same, Parts DEF StopEnd

LEMMA CancelCheckType ==
  ASSUME TypeInv, NEW t \in Threads, CancelCheck(t)
  PROVE  TypeInv'
<1>1. LocksOK'
  BY LocksMove DEF CancelCheck, Leave
<1>2. CASE activeId = NoId \/ ModeOf(activeId) # "note"
  BY <1>1, <1>2, ReturnMoves, Same, Parts DEF CancelCheck, Leave
<1>3. CASE activeId # NoId /\ ModeOf(activeId) = "note"
  <2> DEFINE next == [loc[t] EXCEPT !.id = activeId, !.running = recOn, !.note = sess[activeId].note]
  <2>1. activeId \in Ids /\ recOn \in BOOLEAN
    BY <1>3 DEF TypeInv, TypeOK, CaptureOK, IdOrNone
  <2>2. sess[activeId].note \in BOOLEAN
    BY <2>1 DEF TypeInv, TypeOK, SessionsOK, Sessions
  <2>3. next \in Locals
    BY <2>1, <2>2, LocalsOf DEF Locals, IdOrNone
  <2>4. next.id \in Ids
    BY <2>1, LocalsOf DEF Locals
  <2>5. loc' = [loc EXCEPT ![t] = next] /\ Goto(t, "C2") /\ "C2" \in PCs
    BY <1>3 DEF CancelCheck, PCs
  <2> HIDE DEF next
  <2>6. QED
    BY <1>1, <1>3, <2>3, <2>4, <2>5, MovesTo, Same, Parts DEF CancelCheck
<1>4. QED
  BY <1>2, <1>3

LEMMA CancelDeleteType ==
  ASSUME TypeInv, NEW t \in Threads, CancelDelete(t)
  PROVE  TypeInv'
<1>1. Moved
  BY GotoMoves DEF CancelDelete, TypeInv, HasId, PCs, Bound
<1>2. NotesOK'
  <2>1. disk' \in [Ids -> {"absent", "recording", "ready", "failed"}]
    BY DEF CancelDelete, TypeInv, TypeOK, NotesOK, notes
  <2>2. segs' \in [Ids -> Seq(Nat)]
    BY OneCapture DEF CancelDelete, TypeInv, TypeOK, NotesOK, notes
  <2>3. QED
    BY <2>1, <2>2 DEF NotesOK
<1>3. QED
  BY <1>1, <1>2, Same, Parts DEF CancelDelete

LEMMA CancelMarkType ==
  ASSUME TypeInv, NEW t \in Threads, CancelMark(t)
  PROVE  TypeInv'
<1>1. Moved
  BY GotoMoves DEF CancelMark, PCs, Bound
<1>2. loc[t].id \in Ids
  BY DEF CancelMark, TypeInv, HasId, Bound
<1>3. SessionsOK'
  BY <1>2, RememberType DEF CancelMark, TypeInv, TypeOK, SessionsOK
<1>4. QED
  BY <1>1, <1>3, Same, Parts DEF CancelMark

\* One chunk more or less in the locals of the purge.
LEMMA KeptPartialsMove ==
  ASSUME TypeInv, NEW t \in Threads, NEW label \in PCs \ Bound, Goto(t, label),
         NEW kept \in Seq(Chunks), loc' = [loc EXCEPT ![t].keptPartials = kept]
  PROVE  Moved
<1> DEFINE next == [loc[t] EXCEPT !.keptPartials = kept]
<1>1. next \in Locals
  BY LocalsOf DEF Locals
<1>2. loc' = [loc EXCEPT ![t] = next]
  OBVIOUS
<1> HIDE DEF next
<1>3. QED
  BY <1>1, <1>2, MovesTo

LEMMA KeptFinalsMove ==
  ASSUME TypeInv, NEW t \in Threads, NEW label \in PCs \ Bound, Goto(t, label),
         NEW kept \in Seq(Items), loc' = [loc EXCEPT ![t].keptFinals = kept]
  PROVE  Moved
<1> DEFINE next == [loc[t] EXCEPT !.keptFinals = kept]
<1>1. next \in Locals
  BY LocalsOf DEF Locals
<1>2. loc' = [loc EXCEPT ![t] = next]
  OBVIOUS
<1> HIDE DEF next
<1>3. QED
  BY <1>1, <1>2, MovesTo

LEMMA KeepType ==
  ASSUME NEW S, NEW kept \in Seq(S), NEW item \in S, NEW id
  PROVE  Keep(kept, item, id) \in Seq(S)
  BY DEF Keep

\* A step that leaves the program counter alone goes to where it is.
LEMMA Stays ==
  ASSUME TypeInv, NEW t \in Threads, UNCHANGED pc
  PROVE  Goto(t, pc[t])
  BY DEF TypeInv, TypeOK, ThreadsOK, Goto

LEMMA CancelDrainPartialsType ==
  ASSUME TypeInv, NEW t \in Threads, CancelDrainPartials(t)
  PROVE  TypeInv'
<1>1. CASE partialQ = <<>>
  <2>1. Moved
    BY <1>1, GotoMoves DEF CancelDrainPartials, PCs, Bound
  <2>2. QED
    BY <1>1, <2>1, Same, Parts DEF CancelDrainPartials, queues
<1>2. CASE partialQ # <<>>
  <2> DEFINE kept == Keep(loc[t].keptPartials, Head(partialQ), loc[t].id)
  <2>1. partialQ \in Seq(Chunks) /\ finalQ \in Seq(Items) /\ loc[t].keptPartials \in Seq(Chunks)
    BY LocalsOf DEF TypeInv, TypeOK, QueuesOK, Locals
  <2>2. Head(partialQ) \in Chunks /\ Tail(partialQ) \in Seq(Chunks)
    BY <1>2, <2>1
  <2>3. kept \in Seq(Chunks)
    BY <2>1, <2>2, KeepType
  <2>4. /\ loc' = [loc EXCEPT ![t].keptPartials = kept]
        /\ UNCHANGED <<pc, finalQ>> /\ partialQ' = Tail(partialQ)
        /\ pc[t] \in PCs \ Bound
    BY <1>2 DEF CancelDrainPartials, PCs, Bound
  <2> HIDE DEF kept
  <2>5. Moved
    BY <2>3, <2>4, Stays, KeptPartialsMove
  <2>6. QueuesOK'
    BY <2>1, <2>2, <2>4 DEF QueuesOK
  <2>7. QED
    BY <2>5, <2>6, Same, Parts DEF CancelDrainPartials
<1>3. QED
  BY <1>1, <1>2

LEMMA CancelRestorePartialsType ==
  ASSUME TypeInv, NEW t \in Threads, CancelRestorePartials(t)
  PROVE  TypeInv'
<1>1. partialQ \in Seq(Chunks) /\ finalQ \in Seq(Items) /\ loc[t].keptPartials \in Seq(Chunks)
  BY LocalsOf DEF TypeInv, TypeOK, QueuesOK, Locals
<1>2. <<>> \in Seq(Chunks) /\ "C6" \in PCs \ Bound
  BY DEF PCs, Bound
<1>3. Moved
  BY <1>2, KeptPartialsMove DEF CancelRestorePartials
<1>4. QueuesOK'
  BY <1>1 DEF CancelRestorePartials, QueuesOK
<1>5. QED
  BY <1>3, <1>4, Same, Parts DEF CancelRestorePartials

LEMMA CancelDrainFinalsType ==
  ASSUME TypeInv, NEW t \in Threads, CancelDrainFinals(t)
  PROVE  TypeInv'
<1>1. CASE finalQ = <<>>
  <2>1. Moved
    BY <1>1, GotoMoves DEF CancelDrainFinals, PCs, Bound
  <2>2. QED
    BY <1>1, <2>1, Same, Parts DEF CancelDrainFinals, queues
<1>2. CASE finalQ # <<>>
  <2> DEFINE kept == Keep(loc[t].keptFinals, Head(finalQ), loc[t].id)
  <2>1. partialQ \in Seq(Chunks) /\ finalQ \in Seq(Items) /\ loc[t].keptFinals \in Seq(Items)
    BY LocalsOf DEF TypeInv, TypeOK, QueuesOK, Locals
  <2>2. Head(finalQ) \in Items /\ Tail(finalQ) \in Seq(Items)
    BY <1>2, <2>1
  <2>3. kept \in Seq(Items)
    BY <2>1, <2>2, KeepType
  <2>4. /\ loc' = [loc EXCEPT ![t].keptFinals = kept]
        /\ UNCHANGED <<pc, partialQ>> /\ finalQ' = Tail(finalQ)
        /\ pc[t] \in PCs \ Bound
    BY <1>2 DEF CancelDrainFinals, PCs, Bound
  <2> HIDE DEF kept
  <2>5. Moved
    BY <2>3, <2>4, Stays, KeptFinalsMove
  <2>6. QueuesOK'
    BY <2>1, <2>2, <2>4 DEF QueuesOK
  <2>7. QED
    BY <2>5, <2>6, Same, Parts DEF CancelDrainFinals
<1>3. QED
  BY <1>1, <1>2

LEMMA CancelRestoreFinalsType ==
  ASSUME TypeInv, NEW t \in Threads, CancelRestoreFinals(t)
  PROVE  TypeInv'
<1>1. CASE loc[t].keptFinals = <<>>
  <2>1. Moved
    BY <1>1, GotoMoves DEF CancelRestoreFinals, PCs, Bound
  <2>2. QED
    BY <1>1, <2>1, Same, Parts DEF CancelRestoreFinals, queues
<1>2. CASE loc[t].keptFinals # <<>>
  <2>1. partialQ \in Seq(Chunks) /\ finalQ \in Seq(Items) /\ loc[t].keptFinals \in Seq(Items)
    BY LocalsOf DEF TypeInv, TypeOK, QueuesOK, Locals
  <2>2. Head(loc[t].keptFinals) \in Items /\ Tail(loc[t].keptFinals) \in Seq(Items)
    BY <1>2, <2>1
  <2>3. /\ loc' = [loc EXCEPT ![t].keptFinals = Tail(loc[t].keptFinals)]
        /\ UNCHANGED <<pc, partialQ>>
        /\ finalQ' \in {finalQ, Append(finalQ, Head(loc[t].keptFinals))}
        /\ pc[t] \in PCs \ Bound
    BY <1>2 DEF CancelRestoreFinals, PCs, Bound
  <2>4. Moved
    BY <2>2, <2>3, Stays, KeptFinalsMove
  <2>5. QueuesOK'
    BY <2>1, <2>2, <2>3 DEF QueuesOK
  <2>6. QED
    BY <2>4, <2>5, Same, Parts DEF CancelRestoreFinals
<1>3. QED
  BY <1>1, <1>2

LEMMA CancelEndType ==
  ASSUME TypeInv, NEW t \in Threads, CancelEnd(t)
  PROVE  TypeInv'
<1>1. Moved /\ LocksOK'
  BY ReturnMoves, LocksMove DEF CancelEnd, Leave
<1>2. CaptureOK'
  BY DEF CancelEnd, CancelRecorder, TypeInv, TypeOK, CaptureOK, IdOrNone
<1>3. SessionsOK'
  BY ClearedType DEF CancelEnd, TypeInv, TypeOK, SessionsOK
<1>4. OutcomeOK'
  BY SeeType DEF CancelEnd, TypeInv, TypeOK, OutcomeOK
<1>5. ShownOK'
  BY ShowType DEF CancelEnd, TypeInv, TypeOK
<1>6. QED
  BY <1>1, <1>2, <1>3, <1>4, <1>5, Same, Parts DEF CancelEnd

LEMMA FailCheckType ==
  ASSUME TypeInv, NEW t \in Threads, FailCheck(t)
  PROVE  TypeInv'
<1> DEFINE id == loc[t].id
<1>1. id \in Ids
  BY DEF FailCheck, TypeInv, HasId, Bound
<1>2. CASE Failed(id)
  BY <1>1, <1>2, FailReturnMoves, Same, Parts DEF FailCheck, sessions
<1>3. CASE ~Failed(id)
  <2> DEFINE next == [loc[t] EXCEPT !.failMode = ModeOf(id), !.note = sess[id].note]
             forgets == [sess[id] EXCEPT !.note = FALSE]
  <2>1. sess[id] \in Sessions /\ ModeOf(id) \in Modes
    BY <1>1, ModeOfType DEF TypeInv, TypeOK, SessionsOK
  <2>2. sess[id].note \in BOOLEAN /\ forgets \in Sessions
    BY <2>1 DEF Sessions
  <2>3. next \in Locals
    BY <2>1, <2>2, LocalsOf DEF Locals
  <2>4. next.id \in Ids
    BY <1>1, LocalsOf DEF Locals
  <2>5. loc' = [loc EXCEPT ![t] = next] /\ Goto(t, "F2") /\ "F2" \in PCs
    BY <1>3 DEF FailCheck, PCs
  <2>6. sess' = [sess EXCEPT ![id] = forgets]
    BY <1>3 DEF FailCheck
  <2> HIDE DEF next, forgets
  <2>7. SessionsOK'
    BY <2>2, <2>6 DEF FailCheck, TypeInv, TypeOK, SessionsOK
  <2>8. Moved
    BY <2>3, <2>4, <2>5, MovesTo
  <2>9. QED
    BY <2>7, <2>8, Same, Parts DEF FailCheck
<1>4. QED
  BY <1>2, <1>3

LEMMA FailReadType ==
  ASSUME TypeInv, NEW t \in Threads, FailRead(t)
  PROVE  TypeInv'
<1> DEFINE mine == activeId = loc[t].id
           next == [loc[t] EXCEPT !.active = mine, !.running = recOn]
<1>1. recOn \in BOOLEAN /\ mine \in BOOLEAN
  BY DEF TypeInv, TypeOK, CaptureOK
<1>2. loc' = [loc EXCEPT ![t] = next] /\ Goto(t, "F3") /\ "F3" \in PCs
  BY DEF FailRead, PCs
<1>3. CaptureOK'
  BY DEF FailRead, TypeInv, TypeOK, CaptureOK
<1> HIDE DEF mine
<1>4. next \in Locals
  BY <1>1, LocalsOf DEF Locals
<1>5. next.id \in Ids
  BY LocalsOf DEF Locals, FailRead, TypeInv, HasId, Bound
<1> HIDE DEF next
<1>6. Moved
  BY <1>2, <1>4, <1>5, MovesTo
<1>7. QED
  BY <1>3, <1>6, Same, Parts DEF FailRead

\* What the second section of the failure handler leaves of a session.
LEMMA PoppedType ==
  ASSUME NEW s \in [Ids -> Sessions], NEW id \in Ids
  PROVE  [s EXCEPT ![id].open = FALSE, ![id].parts = <<>>] \in [Ids -> Sessions]
<1> DEFINE popped == [s[id] EXCEPT !.open = FALSE, !.parts = <<>>]
<1>1. popped \in Sessions
  BY OneCapture DEF Sessions
<1>2. [s EXCEPT ![id].open = FALSE, ![id].parts = <<>>] = [s EXCEPT ![id] = popped]
  OBVIOUS
<1> HIDE DEF popped
<1>3. QED
  BY <1>1, <1>2

LEMMA FailMarkType ==
  ASSUME TypeInv, NEW t \in Threads, FailMark(t)
  PROVE  TypeInv'
<1> DEFINE id == loc[t].id
<1>1. id \in Ids
  BY DEF FailMark, TypeInv, HasId, Bound
<1>2. Moved
  BY <1>1, GotoMoves DEF FailMark, PCs
<1>3. SessionsOK'
  <2>1. terminal' \subseteq Ids /\ termOrder' \in Seq(Ids)
    BY <1>1, RememberType DEF FailMark, TypeInv, TypeOK, SessionsOK
  <2>2. sess' \in {Cleared(sess, id), [sess EXCEPT ![id].open = FALSE, ![id].parts = <<>>]}
    BY DEF FailMark
  <2>3. QED
    BY <1>1, <2>1, <2>2, ClearedType, PoppedType DEF TypeInv, TypeOK, SessionsOK
<1>4. NotesOK'
  BY DEF FailMark, TypeInv, TypeOK, NotesOK
<1>5. OutcomeOK'
  BY SeeType DEF FailMark, TypeInv, TypeOK, OutcomeOK
<1>6. QED
  BY <1>2, <1>3, <1>4, <1>5, Same, Parts DEF FailMark

LEMMA FailEndType ==
  ASSUME TypeInv, NEW t \in Threads, FailEnd(t)
  PROVE  TypeInv'
<1> DEFINE id == loc[t].id
<1>1. id \in Ids
  BY DEF FailEnd, TypeInv, HasId, Bound
<1>2. Moved
  BY <1>1, FailReturnMoves DEF FailEnd
<1>3. CaptureOK'
  BY DEF FailEnd, TypeInv, TypeOK, CaptureOK, IdOrNone
<1>4. SessionsOK'
  BY ClearedType DEF FailEnd, TypeInv, TypeOK, SessionsOK
<1>5. OutcomeOK'
  BY SeeType DEF FailEnd, TypeInv, TypeOK, OutcomeOK
<1>6. ShownOK'
  BY ShowType, Same DEF FailEnd, TypeInv, TypeOK
<1>7. ControlOK'
  BY <1>1 DEF FailEnd, TypeInv, TypeOK, ControlOK
<1>8. QED
  BY <1>2, <1>3, <1>4, <1>5, <1>6, <1>7, Same, Parts DEF FailEnd

LEMMA CleanupType ==
  ASSUME TypeInv, CleanupSteps
  PROVE  TypeInv'
<1>1. CASE CleanupLock
  <2>1. PICK id \in failing :
          failing' = failing \ {id} /\ loc' = [loc EXCEPT !["cleaner"].id = id]
    BY <1>1 DEF CleanupLock
  <2> DEFINE next == [loc["cleaner"] EXCEPT !.id = id]
  <2>2. id \in Ids
    BY DEF TypeInv, TypeOK, ControlOK
  <2>3. next \in Locals /\ next.id \in Ids
    BY <2>2, LocalsOf, WorkersAreThreads DEF Locals, IdOrNone
  <2>4. loc' = [loc EXCEPT !["cleaner"] = next]
    BY <2>1
  <2> HIDE DEF next
  <2>9. "cleaner" \in Threads /\ "X1" \in PCs /\ Goto("cleaner", "X1")
    BY <1>1, WorkersAreThreads DEF CleanupLock, PCs
  <2>5. Moved
    BY <2>3, <2>4, <2>9, MovesTo
  <2>6. LocksOK'
    BY <1>1, LocksMove, WorkersAreThreads DEF CleanupLock
  <2>7. ControlOK'
    BY <1>1, <2>1 DEF CleanupLock, TypeInv, TypeOK, ControlOK
  <2>8. QED
    BY <1>1, <2>5, <2>6, <2>7, Same, Parts DEF CleanupLock
<1>2. CASE CleanupStop
  <2>1. LocksOK'
    BY <1>2, LocksMove, WorkersAreThreads DEF CleanupStop, Leave
  <2>2. Moved
    <3>1. CASE Leave("cleaner")
      BY <3>1, ReturnMoves, WorkersAreThreads DEF Leave
    <3>2. CASE Goto("cleaner", "X2") /\ UNCHANGED loc
      BY <1>2, <3>2, GotoMoves, WorkersAreThreads DEF CleanupStop, TypeInv, HasId, PCs, Bound
    <3>3. QED
      BY <1>2, <3>1, <3>2 DEF CleanupStop
  <2>3. CaptureOK'
    BY <1>2 DEF CleanupStop, TypeInv, TypeOK, CaptureOK
  <2>4. SessionsOK'
    BY <1>2, ClearedType DEF CleanupStop, TypeInv, TypeOK, SessionsOK
  <2>5. QED
    BY <1>2, <2>1, <2>2, <2>3, <2>4, Same, Parts DEF CleanupStop
<1>3. CASE CleanupEnd
  <2>1. Moved /\ LocksOK'
    BY <1>3, ReturnMoves, LocksMove, WorkersAreThreads DEF CleanupEnd, Leave
  <2>2. CaptureOK'
    BY <1>3 DEF CleanupEnd, TypeInv, TypeOK, CaptureOK, IdOrNone
  <2>3. SessionsOK'
    BY <1>3, ClearedType DEF CleanupEnd, TypeInv, TypeOK, SessionsOK
  <2>4. QED
    BY <1>3, <2>1, <2>2, <2>3, Same, Parts DEF CleanupEnd
<1>4. QED
  BY <1>1, <1>2, <1>3 DEF CleanupSteps

-----------------------------------------------------------------------------
(* The steps of the worker *)

LEMMA TakeMoves ==
  ASSUME TypeInv, NEW chunk \in Chunks, NEW final \in BOOLEAN,
         TakeChunk(final, chunk), Goto("worker", "H1")
  PROVE  Moved
<1> DEFINE next == [loc["worker"] EXCEPT !.id = chunk.id, !.captures = chunk.captures, !.final = final]
<1>1. chunk.id \in Ids /\ chunk.captures \in Seq(Nat)
  BY DEF Chunks
<1>2. next \in Locals
  BY <1>1, LocalsOf, WorkersAreThreads DEF Locals, IdOrNone
<1>3. next.id \in Ids
  BY <1>1, LocalsOf, WorkersAreThreads DEF Locals
<1>4. loc' = [loc EXCEPT !["worker"] = next]
  BY DEF TakeChunk
<1> HIDE DEF next
<1>5. "worker" \in Threads /\ "H1" \in PCs
  BY WorkersAreThreads DEF PCs
<1>6. QED
  BY <1>2, <1>3, <1>4, <1>5, MovesTo

LEMMA TakePartialType ==
  ASSUME TypeInv, TakePartial
  PROVE  TypeInv'
<1>1. CASE \E label \in {"exited", "W1"} : Goto("worker", label) /\ UNCHANGED <<loc, partialQ>>
  <2>1. {"exited", "W1"} \subseteq PCs \ Bound
    BY DEF PCs, Bound
  <2>2. Moved
    BY <1>1, <2>1, GotoMoves, WorkersAreThreads
  <2>3. QED
    BY <1>1, <2>2, Same, Parts DEF TakePartial, queues
<1>2. CASE /\ partialQ # <<>> /\ TakeChunk(FALSE, Head(partialQ))
           /\ partialQ' = Tail(partialQ) /\ Goto("worker", "H1")
  <2>1. /\ Head(partialQ) \in Chunks /\ Tail(partialQ) \in Seq(Chunks)
        /\ finalQ \in Seq(Items)
    BY <1>2 DEF TypeInv, TypeOK, QueuesOK
  <2>2. Moved
    BY <1>2, <2>1, TakeMoves
  <2>3. QueuesOK'
    BY <1>2, <2>1 DEF TakePartial, QueuesOK
  <2>4. QED
    BY <2>2, <2>3, Same, Parts DEF TakePartial
<1>3. QED
  BY <1>1, <1>2 DEF TakePartial

LEMMA TakeFinalType ==
  ASSUME TypeInv, TakeFinal
  PROVE  TypeInv'
<1>1. partialQ \in Seq(Chunks) /\ finalQ \in Seq(Items)
  BY DEF TypeInv, TypeOK, QueuesOK
<1>2. CASE /\ \E label \in {"exited", "W0"} : Goto("worker", label) /\ UNCHANGED loc
           /\ finalQ' = finalQ \/ (finalQ # <<>> /\ finalQ' = Tail(finalQ))
  <2>1. {"exited", "W0"} \subseteq PCs \ Bound
    BY DEF PCs, Bound
  <2>2. finalQ' \in Seq(Items)
    BY <1>1, <1>2
  <2>3. Moved
    BY <1>2, <2>1, GotoMoves, WorkersAreThreads
  <2>4. QueuesOK'
    BY <1>1, <2>2 DEF TakeFinal, QueuesOK
  <2>5. QED
    BY <2>3, <2>4, Same, Parts DEF TakeFinal
<1>3. CASE /\ finalQ # <<>> /\ Head(finalQ) # StopSignal /\ TakeChunk(TRUE, Head(finalQ))
           /\ finalQ' = Tail(finalQ) /\ Goto("worker", "H1")
  <2>1. Head(finalQ) \in Chunks /\ Tail(finalQ) \in Seq(Items)
    BY <1>1, <1>3 DEF Items
  <2>2. Moved
    BY <1>3, <2>1, TakeMoves
  <2>3. QueuesOK'
    BY <1>1, <1>3, <2>1 DEF TakeFinal, QueuesOK
  <2>4. QED
    BY <2>2, <2>3, Same, Parts DEF TakeFinal
<1>4. QED
  BY <1>2, <1>3 DEF TakeFinal

\* The worker goes on with the recording it has, gives it up, or it failed.
LEMMA WorkerMoves ==
  ASSUME TypeInv, loc["worker"].id \in Ids,
         \/ Loop("worker")
         \/ \E label \in {"H2", "H3", "H4", "H5", "H6", "E1"} : Goto("worker", label) /\ UNCHANGED loc
         \/ \E ret \in {"W0", "E1"} : Fail("worker", loc["worker"].id, FALSE, ret)
  PROVE  Moved
<1>1. CASE Loop("worker")
  BY <1>1, LoopMoves, WorkersAreThreads
<1>2. CASE \E label \in {"H2", "H3", "H4", "H5", "H6", "E1"} : Goto("worker", label) /\ UNCHANGED loc
  <2>1. {"H2", "H3", "H4", "H5", "H6", "E1"} \subseteq PCs
    BY DEF PCs
  <2>2. QED
    BY <1>2, <2>1, GotoMoves, WorkersAreThreads
<1>3. CASE \E ret \in {"W0", "E1"} : Fail("worker", loc["worker"].id, FALSE, ret)
  BY <1>3, FailMoves, WorkersAreThreads DEF Returns
<1>4. QED
  BY <1>1, <1>2, <1>3

LEMMA DecodeType ==
  ASSUME TypeInv, Handle \/ DecodeStart \/ DecodeEnd \/ RecordGuard
  PROVE  TypeInv'
<1>1. loc["worker"].id \in Ids
  BY WorkersAreThreads DEF TypeInv, HasId, Bound, Handle, DecodeStart, DecodeEnd, RecordGuard
<1>2. CASE Handle
  BY <1>1, <1>2, WorkerMoves, Same, Parts DEF Handle, HandleEmpty
<1>3. CASE DecodeStart
  <2>1. Moved
    BY <1>1, <1>3, WorkerMoves DEF DecodeStart
  <2>2. LocksOK'
    BY <1>3, LocksMove, WorkersAreThreads DEF DecodeStart
  <2>3. QED
    BY <1>3, <2>1, <2>2, Same, Parts DEF DecodeStart
<1>4. CASE DecodeEnd
  <2>1. Moved
    BY <1>1, <1>4, WorkerMoves DEF DecodeEnd
  <2>2. LocksOK'
    BY <1>4, LocksMove, WorkersAreThreads DEF DecodeEnd
  <2>3. QED
    BY <1>4, <2>1, <2>2, Same, Parts DEF DecodeEnd
<1>5. CASE RecordGuard
  BY <1>1, <1>5, WorkerMoves, Same, Parts DEF RecordGuard
<1>6. QED
  BY <1>2, <1>3, <1>4, <1>5

LEMMA WorkerLocals ==
  ASSUME TypeInv
  PROVE  /\ loc["worker"].captures \in Seq(Nat) /\ loc["worker"].said \in Seq(Nat)
         /\ loc["worker"].final \in BOOLEAN
  BY LocalsOf, WorkersAreThreads DEF Locals

LEMMA RecordSegmentType ==
  ASSUME TypeInv, RecordSegment
  PROVE  TypeInv'
<1>1. loc["worker"].id \in Ids
  BY WorkersAreThreads DEF TypeInv, HasId, Bound, RecordSegment
<1>2. Moved
  BY <1>1, WorkerMoves DEF RecordSegment
<1>3. NotesOK'
  <2>1. segs' = segs \/ segs' = [segs EXCEPT ![loc["worker"].id] = @ \o loc["worker"].captures]
    BY DEF RecordSegment
  <2>2. segs[loc["worker"].id] \o loc["worker"].captures \in Seq(Nat)
    BY <1>1, WorkerLocals, ConcatType DEF TypeInv, TypeOK, NotesOK
  <2>3. segs' \in [Ids -> Seq(Nat)]
    BY <2>1, <2>2 DEF TypeInv, TypeOK, NotesOK
  <2>4. QED
    BY <2>3 DEF RecordSegment, TypeInv, TypeOK, NotesOK
<1>4. QED
  BY <1>2, <1>3, Same, Parts DEF RecordSegment

LEMMA RecordPartType ==
  ASSUME TypeInv, RecordPart
  PROVE  TypeInv'
<1> DEFINE id == loc["worker"].id
           more == [sess[id] EXCEPT !.parts = @ \o loc["worker"].captures]
<1>1. id \in Ids
  BY WorkersAreThreads DEF TypeInv, HasId, Bound, RecordPart
<1>2. Moved
  BY <1>1, WorkerMoves DEF RecordPart
<1>3. SessionsOK'
  <2>1. sess' = sess \/ sess' = [sess EXCEPT ![id] = more]
    BY DEF RecordPart
  <2>2. sess[id] \in Sessions
    BY <1>1 DEF TypeInv, TypeOK, SessionsOK
  <2>5. sess[id].parts \o loc["worker"].captures \in Seq(Nat)
    BY <2>2, WorkerLocals, ConcatType DEF Sessions
  <2>3. more \in Sessions
    BY <2>2, <2>5 DEF Sessions
  <2> HIDE DEF more
  <2>4. QED
    BY <2>1, <2>3 DEF RecordPart, TypeInv, TypeOK, SessionsOK
<1>4. QED
  BY <1>2, <1>3, Same, Parts DEF RecordPart

LEMMA SessionCheckType ==
  ASSUME TypeInv, SessionCheck
  PROVE  TypeInv'
<1> DEFINE id == loc["worker"].id
<1>1. id \in Ids
  BY WorkersAreThreads DEF TypeInv, HasId, Bound, SessionCheck
<1>2. CASE Failed(id) /\ sess' = Cleared(sess, id) /\ Loop("worker")
  <2>1. Moved
    BY <1>2, LoopMoves, WorkersAreThreads
  <2>2. SessionsOK'
    BY <1>2, ClearedType DEF SessionCheck, TypeInv, TypeOK, SessionsOK
  <2>3. QED
    BY <2>1, <2>2, Same, Parts DEF SessionCheck
<1>3. CASE /\ loc' = [loc EXCEPT !["worker"].said = sess[id].parts]
           /\ Goto("worker", IF sess[id].parts = <<>> THEN "E2" ELSE "E3")
           /\ UNCHANGED sess
  <2> DEFINE next  == [loc["worker"] EXCEPT !.said = sess[id].parts]
             label == IF sess[id].parts = <<>> THEN "E2" ELSE "E3"
  <2>1. sess[id].parts \in Seq(Nat)
    BY <1>1 DEF TypeInv, TypeOK, SessionsOK, Sessions
  <2>2. next \in Locals
    BY <2>1, LocalsOf, WorkersAreThreads DEF Locals
  <2>3. next.id \in Ids
    BY <1>1, LocalsOf, WorkersAreThreads DEF Locals
  <2>4. loc' = [loc EXCEPT !["worker"] = next] /\ Goto("worker", label) /\ label \in PCs
    BY <1>3 DEF PCs
  <2> HIDE DEF next, label
  <2>5. Moved
    BY <2>2, <2>3, <2>4, MovesTo, WorkersAreThreads
  <2>6. SessionsOK'
    BY <1>3 DEF SessionCheck, TypeInv, TypeOK, SessionsOK
  <2>7. QED
    BY <2>5, <2>6, Same, Parts DEF SessionCheck
<1>4. QED
  BY <1>2, <1>3 DEF SessionCheck

LEMMA SessionEmptyType ==
  ASSUME TypeInv, SessionEmpty
  PROVE  TypeInv'
<1>1. Moved
  BY LoopMoves, WorkersAreThreads DEF SessionEmpty
<1>2. SessionsOK'
  BY ClearedType DEF SessionEmpty, TypeInv, TypeOK, SessionsOK
<1>3. NotesOK'
  BY DEF SessionEmpty, TypeInv, TypeOK, NotesOK
<1>4. OutcomeOK'
  BY SeeType DEF SessionEmpty, TypeInv, TypeOK, OutcomeOK
<1>5. QED
  BY <1>1, <1>2, <1>3, <1>4, Same, Parts DEF SessionEmpty

LEMMA SessionCompleteType ==
  ASSUME TypeInv, SessionComplete
  PROVE  TypeInv'
<1> DEFINE id == loc["worker"].id
           next == [loc["worker"] EXCEPT !.mode = ModeOf(id)]
<1>1. id \in Ids
  BY WorkersAreThreads DEF TypeInv, HasId, Bound, SessionComplete
<1>2. ModeOf(id) \in Modes
  BY ModeOfType DEF TypeInv, TypeOK
<1>3. next \in Locals
  BY <1>2, LocalsOf, WorkersAreThreads DEF Locals
<1>4. next.id \in Ids
  BY <1>1, LocalsOf, WorkersAreThreads DEF Locals
<1>5. loc' = [loc EXCEPT !["worker"] = next] /\ Goto("worker", "E4") /\ "E4" \in PCs
  BY DEF SessionComplete, PCs
<1>6. SessionsOK'
  <2>1. terminal' \subseteq Ids /\ termOrder' \in Seq(Ids)
    BY <1>1, RememberType DEF SessionComplete, TypeInv, TypeOK, SessionsOK
  <2>2. QED
    BY <2>1, ClearedType DEF SessionComplete, TypeInv, TypeOK, SessionsOK
<1> HIDE DEF next
<1>7. Moved
  BY <1>3, <1>4, <1>5, MovesTo, WorkersAreThreads
<1>8. QED
  BY <1>6, <1>7, Same, Parts DEF SessionComplete

LEMMA SessionTypeType ==
  ASSUME TypeInv, SessionType
  PROVE  TypeInv'
<1>1. Moved
  BY LoopMoves, WorkersAreThreads DEF SessionType, GiveUp
<1>2. log' \in [Ids -> [Events -> Nat]]
  BY SeeType DEF SessionType, TypeInv, TypeOK, OutcomeOK
<1>3. text' \in [Ids -> Seq(Nat)]
  BY WorkerLocals DEF SessionType, TypeInv, TypeOK, OutcomeOK
<1>4. QED
  BY <1>1, <1>2, <1>3, Same, Parts DEF SessionType, OutcomeOK

LEMMA SessionSaveType ==
  ASSUME TypeInv, SessionSave
  PROVE  TypeInv'
<1> DEFINE id == loc["worker"].id
<1>1. id \in Ids
  BY WorkersAreThreads DEF TypeInv, HasId, Bound, SessionSave
<1>2. Moved
  BY LoopMoves, WorkersAreThreads DEF SessionSave, GiveUp
<1>3. log' \in [Ids -> [Events -> Nat]]
  BY SeeType DEF SessionSave, TypeInv, TypeOK, OutcomeOK
<1>4. text' \in [Ids -> Seq(Nat)]
  <2>1. NoteText(id, loc["worker"].said) \in Seq(Nat)
    BY <1>1, WorkerLocals DEF NoteText, TypeInv, TypeOK, NotesOK
  <2>2. QED
    BY <2>1 DEF SessionSave, TypeInv, TypeOK, OutcomeOK
<1>5. SessionsOK'
  BY ClearedType DEF SessionSave, TypeInv, TypeOK, SessionsOK
<1>6. NotesOK'
  BY DEF SessionSave, TypeInv, TypeOK, NotesOK
<1>7. QED
  BY <1>2, <1>3, <1>4, <1>5, <1>6, Same, Parts DEF SessionSave, OutcomeOK

LEMMA WorkerType ==
  ASSUME TypeInv, WorkerSteps
  PROVE  TypeInv'
  BY TakePartialType, TakeFinalType, DecodeType, RecordSegmentType, RecordPartType,
     SessionCheckType, SessionEmptyType, SessionCompleteType, SessionTypeType, SessionSaveType
     DEF WorkerSteps

-----------------------------------------------------------------------------
(* What the user does *)

LEMMA OpsType ==
  ASSUME TypeInv, NEW t, NEW name, Operation(t, name)
  PROVE  ops' \in 0..MaxOps
  BY BoundsAssumption DEF Operation, TypeInv, TypeOK, ControlOK

LEMMA KeyType ==
  ASSUME TypeInv, Press \/ Release \/ Silence \/ \E t \in UIs : NoteRequest(t)
  PROVE  TypeInv'
<1>1. CASE Press
  <2>1. Moved
    BY <1>1, BeginMoves, WorkersAreThreads DEF Press, PCs, Bound, Modes
  <2>2. ControlOK'
    BY <1>1, OpsType DEF Press, Rest, TypeInv, TypeOK, ControlOK
  <2>3. QED
    BY <1>1, <2>1, <2>2, Same, Parts DEF Press
<1>2. CASE Release
  <2>1. Moved
    BY <1>2, BeginMoves, WorkersAreThreads DEF Release, OnRelease, PCs, Bound, Modes
  <2>2. ControlOK'
    BY <1>2 DEF Release, Rest, TypeInv, TypeOK, ControlOK
  <2>3. QED
    BY <1>2, <2>1, <2>2, Same, Parts DEF Release
<1>3. CASE Silence
  <2>1. Moved
    BY <1>3, BeginMoves, WorkersAreThreads DEF Silence, PCs, Bound, Modes
  <2>2. QED
    BY <1>3, <2>1, Same, Parts DEF Silence
<1>4. ASSUME NEW t \in UIs, NoteRequest(t) PROVE TypeInv'
  <2>1. PICK name \in DOMAIN Entry : Operation(t, name) /\ Begin(t, Entry[name], "note")
    BY <1>4 DEF NoteRequest
  <2>2. Entry[name] \in PCs \ Bound /\ "note" \in Modes /\ t \in Threads
    BY DEF Entry, PCs, Bound, Modes, Threads
  <2>3. Moved
    BY <2>1, <2>2, BeginMoves
  <2>4. ControlOK'
    BY <1>4, <2>1, OpsType DEF NoteRequest, Rest, TypeInv, TypeOK, ControlOK
  <2>5. QED
    BY <1>4, <2>3, <2>4, Same, Parts DEF NoteRequest
<1>5. QED
  BY <1>1, <1>2, <1>3, <1>4

LEMMA TrayType ==
  ASSUME TypeInv, Deactivate \/ Activate \/ SetCombo \/ SwitchModel
  PROVE  TypeInv'
<1>1. ControlOK'
  <2>1. ops' \in 0..MaxOps
    BY OpsType DEF Deactivate, Activate, SetCombo, SwitchModel
  <2>2. stt' \in Nat /\ failing' \subseteq Ids
    BY DEF Deactivate, Activate, SetCombo, SwitchModel, Rest, TypeInv, TypeOK, ControlOK
  <2>3. accepting' \in BOOLEAN /\ pressed' \in BOOLEAN /\ UNCHANGED <<stopped, listening>>
    BY DEF Deactivate, Activate, SetCombo, SwitchModel, TypeInv, TypeOK, ControlOK
  <2>4. QED
    BY <2>1, <2>2, <2>3 DEF TypeInv, TypeOK, ControlOK
<1>2. CASE Deactivate \/ SetCombo
  <2>1. Moved
    BY <1>2, GotoMoves, WorkersAreThreads DEF Deactivate, SetCombo, FinalizeIfRecording, PCs, Bound
  <2>2. QED
    BY <1>1, <1>2, <2>1, Same, Parts DEF Deactivate, SetCombo
<1>3. CASE Activate \/ SwitchModel
  <2>1. Moved
    BY <1>3, StayMoves DEF Activate, SwitchModel, threads
  <2>2. QED
    BY <1>1, <1>3, <2>1, Same, Parts DEF Activate, SwitchModel
<1>4. QED
  BY <1>2, <1>3

LEMMA ShutdownType ==
  ASSUME TypeInv, Shutdown \/ ShutdownSteps
  PROVE  TypeInv'
<1>1. CASE Shutdown
  <2> DEFINE next  == [loc["tray"] EXCEPT !.back = "D1"]
             label == IF recOn THEN "Z0" ELSE "D1"
  <2>1. next \in Locals
    BY LocalsOf, WorkersAreThreads DEF Locals
  <2>2. /\ loc' = [loc EXCEPT !["tray"] = next] /\ Goto("tray", label)
        /\ label \in PCs \ Bound
    BY <1>1 DEF Shutdown, PCs, Bound
  <2> HIDE DEF next, label
  <2>3. Moved
    BY <2>1, <2>2, MovesTo, WorkersAreThreads
  <2>4. ControlOK'
    BY <1>1, OpsType DEF Shutdown, Rest, TypeInv, TypeOK, ControlOK
  <2>5. QED
    BY <1>1, <2>3, <2>4, Same, Parts DEF Shutdown
<1>2. CASE ShutdownHotkey
  <2>1. Moved
    BY <1>2, GotoMoves, WorkersAreThreads DEF ShutdownHotkey, PCs, Bound
  <2>2. ControlOK'
    BY <1>2 DEF ShutdownHotkey, Rest, TypeInv, TypeOK, ControlOK
  <2>3. QED
    BY <1>2, <2>1, <2>2, Same, Parts DEF ShutdownHotkey
<1>3. CASE ShutdownQueue
  <2>1. "tray" \in Threads /\ "idle" \in PCs \ Bound
    BY WorkersAreThreads DEF PCs, Bound
  <2>2. Moved
    BY <1>3, <2>1, MovesTo, NoLocalsType DEF ShutdownQueue
  <2>3. finalQ' = Append(finalQ, StopSignal) \/ finalQ' = Append(<<>>, StopSignal)
    BY <1>3 DEF ShutdownQueue
  <2>4. StopSignal \in Items /\ finalQ \in Seq(Items)
    BY DEF Items, TypeInv, TypeOK, QueuesOK
  <2>8. <<>> \in Seq(Items) /\ <<>> \in Seq(Chunks)
    OBVIOUS
  <2>9. \A q \in Seq(Items), item \in Items : Append(q, item) \in Seq(Items)
    OBVIOUS
  <2>5. finalQ' \in Seq(Items) /\ <<>> \in Seq(Chunks)
    BY <2>3, <2>4, <2>8, <2>9, Zenon
  <2>6. QueuesOK'
    BY <1>3, <2>5 DEF ShutdownQueue, QueuesOK
  <2>7. QED
    BY <1>3, <2>2, <2>6, Same, Parts DEF ShutdownQueue
<1>4. QED
  BY <1>1, <1>2, <1>3 DEF ShutdownSteps

-----------------------------------------------------------------------------

LEMMA InitType == Init => TypeInv
<1> SUFFICES ASSUME Init PROVE TypeInv
  OBVIOUS
<1>1. <<>> \in Seq(Nat) /\ <<>> \in Seq(Ids) /\ <<>> \in Seq(Chunks) /\ <<>> \in Seq(Items)
  OBVIOUS
<1>2. LocksOK /\ ThreadsOK /\ HasId
  BY NoLocalsType DEF Init, LocksOK, ThreadsOK, HasId, PCs, Bound
<1>3. CaptureOK
  BY DEF Init, CaptureOK, IdOrNone, NoId
<1>7. SessionsOK /\ QueuesOK
  BY <1>1, NoSessionType, Zenon DEF Init, SessionsOK, QueuesOK
<1>4. NotesOK /\ OutcomeOK
  BY <1>1 DEF Init, NotesOK, OutcomeOK
<1>5. ops \in 0..MaxOps /\ stt \in Nat
  BY BoundsAssumption DEF Init
<1>8. ShownOK /\ ControlOK
  BY <1>5, Zenon DEF Init, ShownOK, ControlOK
<1>6. QED
  BY <1>2, <1>3, <1>4, <1>7, <1>8 DEF TypeInv, TypeOK

LEMMA NextType == TypeInv /\ [Next]_vars => TypeInv'
<1> SUFFICES ASSUME TypeInv, [Next]_vars PROVE TypeInv'
  OBVIOUS
<1>1. ASSUME NEW t \in Threads, Step(t) PROVE TypeInv'
  <2>1. CASE StartSteps(t)
    <3>1. "S1" \in PCs \ Bound
      BY DEF PCs, Bound
    <3>2. QED
      BY <2>1, <3>1, AcquireType, StartCheckType, StartCaptureType DEF StartSteps, StartLock
  <2>2. CASE FinalizeSteps(t)
    <3>1. "Z1" \in PCs \ Bound
      BY DEF PCs, Bound
    <3>2. QED
      BY <2>2, <3>1, AcquireType, FinalizeStopType, FinalizeQueueType, FinalizeEndType
         DEF FinalizeSteps, FinalizeLock
  <2>3. CASE PauseSteps(t)
    <3>1. "P1" \in PCs \ Bound
      BY DEF PCs, Bound
    <3>2. QED
      BY <2>3, <3>1, AcquireType, PauseStopType, PauseQueueType, PauseEndType
         DEF PauseSteps, PauseLock
  <2>4. CASE ResumeSteps(t)
    <3>1. "R1" \in PCs \ Bound
      BY DEF PCs, Bound
    <3>2. QED
      BY <2>4, <3>1, AcquireType, ResumeType DEF ResumeSteps, ResumeLock
  <2>5. CASE StopSteps(t)
    <3>1. "T1" \in PCs \ Bound
      BY DEF PCs, Bound
    <3>2. QED
      BY <2>5, <3>1, AcquireType, StopCheckType, StopPausedType, StopQueueType, StopEndType
         DEF StopSteps, StopLock
  <2>6. CASE CancelSteps(t)
    <3>1. "C1" \in PCs \ Bound
      BY DEF PCs, Bound
    <3>2. QED
      BY <2>6, <3>1, AcquireType, CancelCheckType, CancelDeleteType, CancelMarkType,
         CancelDrainPartialsType, CancelRestorePartialsType, CancelDrainFinalsType,
         CancelRestoreFinalsType, CancelEndType DEF CancelSteps, CancelLock
  <2>7. CASE FailSteps(t)
    BY <2>7, FailCheckType, FailReadType, FailMarkType, FailEndType DEF FailSteps
  <2>8. QED
    BY <1>1, <2>1, <2>2, <2>3, <2>4, <2>5, <2>6, <2>7, StartNoteType, CleanupType,
       WorkerType, ShutdownType DEF Step
<1>2. CASE User
  BY <1>2, KeyType, TrayType, ShutdownType DEF User
<1>3. CASE UNCHANGED vars
  BY <1>3, StayMoves, Same, Parts DEF vars, threads
<1>4. QED
  BY <1>1, <1>2, <1>3 DEF Next, Resting

\* The state of the daemon keeps its shape for any number of clients, any
\* queue sizes and any faults: no queue ever holds a chunk of no recording, and
\* no thread ever works on a recording that was not started.
THEOREM TypeSafety == Spec => []TypeOK
<1>1. TypeInv => TypeOK
  BY DEF TypeInv
<1>2. QED
  BY <1>1, InitType, NextType, PTL DEF Spec

-----------------------------------------------------------------------------
(* Who holds which lock *)

LEMMA FreeIsNoThread == Free \notin Threads
  BY ThreadsAssumption DEF Threads, Workers, Free

LEMMA LockStepKeeps ==
  ASSUME TypeInv, LocksOwned, NEW t \in Threads, LockStep(t)
  PROVE  LocksOwned'
<1>1. \A u \in Threads \ {t} : (Holds(u)' <=> Holds(u)) /\ pc'[u] = pc[u]
  BY DEF LockStep, OnlyMoves, Holds
<1>2. CtlOwned'
  BY <1>1, FreeIsNoThread DEF LocksOwned, CtlOwned, LockStep, CtlStep
<1>3. RecOwned'
  BY <1>1, FreeIsNoThread DEF LocksOwned, RecOwned, LockStep, RecStep, RecFree
<1>4. EngOwned'
  BY <1>1, FreeIsNoThread DEF LocksOwned, EngOwned, LockStep, EngStep
<1>5. QED
  BY <1>2, <1>3, <1>4 DEF LocksOwned

LEMMA Idle == LocksOwned /\ UNCHANGED <<locks, threads>> => LocksOwned'
  BY DEF LocksOwned, CtlOwned, RecOwned, EngOwned, Holds, locks, threads

\* A thread goes to a label and changes no locals but its own.
LEMMA GotoOnly ==
  ASSUME TypeInv, NEW t \in Threads, NEW label, Goto(t, label),
         UNCHANGED loc \/ \E next : loc' = [loc EXCEPT ![t] = next]
  PROVE  OnlyMoves(t) /\ pc'[t] = label
  BY DEF Goto, OnlyMoves, TypeInv, TypeOK, ThreadsOK

LEMMA ReturnOnly ==
  ASSUME TypeInv, NEW t \in Threads, Return(t)
  PROVE  OnlyMoves(t) /\ pc'[t] \in {"idle", "D1"} /\ loc'[t] = NoLocals
  BY LocalsOf DEF Return, Goto, Locals, OnlyMoves, TypeInv, TypeOK, ThreadsOK

LEMMA AcquireLocks ==
  ASSUME TypeInv, LocksOwned, NEW t \in Threads, NEW from \in Outside, NEW to \in Inside \ {"S2"},
         Acquire(t, from, to), from = "R0" => to = "R1"
  PROVE  LockStep(t)
<1>1. OnlyMoves(t) /\ pc'[t] = to /\ pc[t] = from
  BY GotoOnly DEF Acquire
<1>2. CtlStep(t)
  BY <1>1 DEF Acquire, CtlStep, Holds
<1>3. RecStep(t)
  BY <1>1 DEF Acquire, RecStep, LocksOwned, RecOwned, Outside, Inside
<1>4. EngStep(t)
  BY <1>1 DEF Acquire, EngStep, Outside, Inside
<1>5. QED
  BY <1>1, <1>2, <1>3, <1>4 DEF LockStep

\* A thread that holds the control lock leaves its operation.
LEMMA LeaveLocks ==
  ASSUME TypeInv, LocksOwned, NEW t \in Threads, Leave(t), pc[t] \in Inside \ {"S2", "R1"}, UNCHANGED <<rec, eng>>
  PROVE  LockStep(t)
<1>1. OnlyMoves(t) /\ pc'[t] \in {"idle", "D1"}
  BY ReturnOnly DEF Leave
<1>2. CtlStep(t)
  BY <1>1 DEF Leave, CtlStep, Holds, Inside, Handler
<1>3. RecStep(t)
  BY <1>1 DEF RecStep, LocksOwned, RecOwned, Inside
<1>4. EngStep(t)
  BY <1>1 DEF EngStep, Inside
<1>5. QED
  BY <1>1, <1>2, <1>3, <1>4 DEF LockStep

\* A thread goes on inside its operation.
LEMMA InsideLocks ==
  ASSUME TypeInv, LocksOwned, NEW t \in Threads, pc[t] \in Inside \ {"S2", "R1"}, UNCHANGED locks,
         OnlyMoves(t),
         pc'[t] \in Inside \ {"S2"} \/ (pc'[t] \in Handler /\ loc'[t].ret \in {"Z3", "Z4"})
  PROVE  LockStep(t)
<1>1. CtlStep(t)
  BY DEF CtlStep, Holds, locks
<1>2. RecStep(t)
  BY DEF RecStep, LocksOwned, RecOwned, Inside, Handler, locks
<1>3. EngStep(t)
  BY DEF EngStep, Inside, Handler, locks
<1>4. QED
  BY <1>1, <1>2, <1>3 DEF LockStep

\* A thread that holds no lock goes on without one.
LEMMA OutsideLocks ==
  ASSUME TypeInv, LocksOwned, NEW t \in Threads, ~Holds(t), pc[t] \notin {"R0", "H3"},
         UNCHANGED locks, OnlyMoves(t), ~Holds(t)', pc'[t] # "H3"
  PROVE  LockStep(t)
<1>1. CtlStep(t)
  BY DEF CtlStep, locks
<1>2. RecStep(t)
  BY DEF RecStep, LocksOwned, RecOwned, Holds, Inside, locks
<1>3. EngStep(t)
  BY DEF EngStep, locks
<1>4. QED
  BY <1>1, <1>2, <1>3 DEF LockStep

\* Fail keeps what it is given.
LEMMA FailOnly ==
  ASSUME TypeInv, NEW t \in Threads, NEW id, NEW hard, NEW ret, Fail(t, id, hard, ret)
  PROVE  OnlyMoves(t) /\ pc'[t] = "F1" /\ loc'[t].ret = ret /\ loc'[t].id = id
  BY LocalsOf DEF Fail, Goto, OnlyMoves, Locals, TypeInv, TypeOK, ThreadsOK

LEMMA FailReturnOnly ==
  ASSUME TypeInv, NEW t \in Threads, FailReturn(t)
  PROVE  OnlyMoves(t) /\ pc'[t] = loc[t].ret
  BY DEF FailReturn, Goto, OnlyMoves, TypeInv, TypeOK, ThreadsOK

-----------------------------------------------------------------------------

LEMMA StartLocks ==
  ASSUME TypeInv, LocksOwned, NEW t \in Threads, StartSteps(t)
  PROVE  LockStep(t)
<1>1. CASE StartLock(t)
  BY <1>1, AcquireLocks DEF StartLock, Outside, Inside
<1>2. CASE StartCheck(t)
  <2>1. CASE Leave(t) /\ UNCHANGED <<rec, eng>>
    BY <1>2, <2>1, LeaveLocks DEF StartCheck, Inside
  <2>2. CASE rec' = t /\ UNCHANGED <<ctl, eng>> /\ Goto(t, "S2") /\ loc' = [loc EXCEPT ![t].id = gen + 1]
    <3>1. OnlyMoves(t) /\ pc'[t] = "S2" /\ pc[t] = "S1"
      BY <1>2, <2>2, GotoOnly DEF StartCheck
    <3>2. CtlStep(t) /\ RecStep(t) /\ EngStep(t)
      BY <1>2, <2>2, <3>1 DEF StartCheck, CtlStep, RecStep, EngStep, Holds, Inside, Handler
    <3>3. QED
      BY <3>1, <3>2 DEF LockStep
  <2>3. QED
    BY <1>2, <2>1, <2>2 DEF StartCheck
<1>3. CASE StartCapture(t)
  <2>1. OnlyMoves(t) /\ pc'[t] \in {"idle", "D1"} /\ pc[t] = "S2"
    BY <1>3, ReturnOnly DEF StartCapture, Leave
  <2>2. rec = t
    BY <2>1 DEF LocksOwned, RecOwned
  <2>3. CtlStep(t) /\ RecStep(t) /\ EngStep(t)
    BY <1>3, <2>1, <2>2 DEF StartCapture, Leave, CtlStep, RecStep, RecFree, EngStep, Holds, Inside, Handler
  <2>4. QED
    BY <2>1, <2>3 DEF LockStep
<1>4. QED
  BY <1>1, <1>2, <1>3 DEF StartSteps

LEMMA FinalizeLocks ==
  ASSUME TypeInv, LocksOwned, NEW t \in Threads, FinalizeSteps(t)
  PROVE  LockStep(t)
<1>1. CASE FinalizeLock(t)
  BY <1>1, AcquireLocks DEF FinalizeLock, Outside, Inside
<1>2. CASE FinalizeStop(t)
  <2>1. CASE Leave(t)
    BY <1>2, <2>1, LeaveLocks DEF FinalizeStop, Inside
  <2>2. CASE UNCHANGED locks /\ OnlyMoves(t) /\ (pc'[t] = "Z2" \/ (pc'[t] = "F1" /\ loc'[t].ret = "Z4"))
    BY <1>2, <2>2, InsideLocks DEF FinalizeStop, Inside, Handler
  <2>3. CASE activeId # NoId
    <3>1. UNCHANGED locks /\ \A u \in Threads \ {t} : loc'[u] = loc[u]
      BY <1>2, <2>3 DEF FinalizeStop, TypeInv, TypeOK, ThreadsOK, locks
    <3>2. Goto(t, "Z2") \/ (Goto(t, "F1") /\ loc'[t].ret = "Z4")
      <4>1. ASSUME loc' = [loc EXCEPT ![t].id = activeId, ![t].mode = ModeOf(activeId),
                                      ![t].hard = TRUE, ![t].ret = "Z4"]
            PROVE  loc'[t].ret = "Z4"
        BY <4>1, LocalsOf DEF TypeInv, TypeOK, ThreadsOK, Locals
      <4>2. QED
        BY <1>2, <2>3, <4>1, Zenon DEF FinalizeStop
    <3>3. QED
      BY <2>2, <3>1, <3>2 DEF Goto, OnlyMoves, TypeInv, TypeOK, ThreadsOK
  <2>4. QED
    BY <1>2, <2>1, <2>3 DEF FinalizeStop
<1>3. CASE FinalizeQueue(t)
  <2>1. CASE Leave(t)
    BY <1>3, <2>1, LeaveLocks DEF FinalizeQueue, Inside
  <2>2. CASE UNCHANGED ctl /\ Goto(t, "Z3") /\ UNCHANGED loc
    <3>1. OnlyMoves(t) /\ pc'[t] = "Z3"
      BY <2>2, GotoOnly
    <3>2. QED
      BY <1>3, <2>2, <3>1, InsideLocks DEF FinalizeQueue, Inside, locks
  <2>3. ASSUME UNCHANGED ctl, NEW hard, NEW ret \in {"Z3", "Z4"}, Fail(t, loc[t].id, hard, ret)
        PROVE  LockStep(t)
    BY <1>3, <2>3, FailOnly, InsideLocks DEF FinalizeQueue, Inside, Handler, locks
  <2>4. QED
    BY <1>3, <2>1, <2>2, <2>3 DEF FinalizeQueue
<1>4. CASE FinalizeEnd(t) \/ FinalizeFailed(t)
  BY <1>4, LeaveLocks DEF FinalizeEnd, FinalizeFailed, Inside
<1>5. QED
  BY <1>1, <1>2, <1>3, <1>4 DEF FinalizeSteps

LEMMA PauseLocks ==
  ASSUME TypeInv, LocksOwned, NEW t \in Threads, PauseSteps(t)
  PROVE  LockStep(t)
<1>1. CASE PauseLock(t)
  BY <1>1, AcquireLocks DEF PauseLock, Outside, Inside
<1>2. CASE PauseStop(t) \/ PauseQueue(t) \/ PauseEnd(t)
  <2>1. CASE Leave(t)
    BY <1>2, <2>1, LeaveLocks DEF PauseStop, PauseQueue, PauseEnd, Inside
  <2>2. CASE UNCHANGED ctl /\ (\E label \in {"P2", "P3"} : Goto(t, label))
             /\ \A u \in Threads \ {t} : loc'[u] = loc[u]
    <3>1. OnlyMoves(t) /\ pc'[t] \in {"P2", "P3"}
      BY <2>2 DEF Goto, OnlyMoves, TypeInv, TypeOK, ThreadsOK
    <3>2. QED
      BY <1>2, <2>2, <3>1, InsideLocks DEF PauseStop, PauseQueue, PauseEnd, Inside, locks
  <2>3. QED
    BY <1>2, <2>1, <2>2 DEF PauseStop, PauseQueue, PauseEnd, TypeInv, TypeOK, ThreadsOK
<1>3. QED
  BY <1>1, <1>2 DEF PauseSteps

LEMMA ResumeLocks ==
  ASSUME TypeInv, LocksOwned, NEW t \in Threads, ResumeSteps(t) \/ StartNote(t) \/ Toggle(t)
  PROVE  LockStep(t)
<1>1. CASE ResumeLock(t)
  BY <1>1, AcquireLocks DEF ResumeLock, Outside, Inside
<1>2. CASE Resume(t)
  <2>1. OnlyMoves(t) /\ pc'[t] \in {"idle", "D1"}
    BY <1>2, ReturnOnly DEF Resume, Leave
  <2>2. CtlStep(t) /\ RecStep(t) /\ EngStep(t)
    BY <1>2, <2>1 DEF Resume, Leave, CtlStep, RecStep, EngStep, Holds, Inside, Handler
  <2>3. QED
    BY <2>1, <2>2 DEF LockStep
<1>3. CASE StartNote(t) /\ paused
  <2>1. OnlyMoves(t) /\ pc'[t] = "R0"
    BY <1>3 DEF StartNote, Begin, Goto, OnlyMoves, TypeInv, TypeOK, ThreadsOK
  <2>2. CtlStep(t) /\ RecStep(t) /\ EngStep(t)
    BY <1>3, <2>1 DEF StartNote, CtlStep, RecStep, EngStep, Holds, Inside, Handler
  <2>3. QED
    BY <2>1, <2>2 DEF LockStep
<1>4. CASE (StartNote(t) /\ ~paused) \/ Toggle(t)
  <2>1. Return(t) \/ \E label \in {"R0", "S0", "Z0"} : Begin(t, label, "note")
    BY <1>4 DEF StartNote, Toggle
  <2>2. OnlyMoves(t) /\ pc'[t] \in {"idle", "D1", "R0", "S0", "Z0"}
    BY <2>1, ReturnOnly DEF Begin, Goto, OnlyMoves, TypeInv, TypeOK, ThreadsOK
  <2>3. UNCHANGED locks /\ pc[t] \in {"N0", "G0"}
    BY <1>4 DEF StartNote, Toggle, locks
  <2>4. QED
    BY <2>2, <2>3, OutsideLocks DEF Holds, Inside, Handler
<1>5. QED
  BY <1>1, <1>2, <1>3, <1>4 DEF ResumeSteps

LEMMA StopLocks ==
  ASSUME TypeInv, LocksOwned, NEW t \in Threads, StopSteps(t)
  PROVE  LockStep(t)
<1>1. CASE StopLock(t)
  BY <1>1, AcquireLocks DEF StopLock, Outside, Inside
<1>2. CASE StopCheck(t)
  <2>1. CASE Return(t)
    BY <1>2, <2>1, LeaveLocks DEF StopCheck, Inside, Leave
  <2>2. CASE (\E label \in {"T2", "Z0"} : Goto(t, label)) /\ \A u \in Threads \ {t} : loc'[u] = loc[u]
    <3>1. OnlyMoves(t) /\ pc'[t] \in {"T2", "Z0"}
      BY <2>2 DEF Goto, OnlyMoves, TypeInv, TypeOK, ThreadsOK
    <3>2. CtlStep(t) /\ RecStep(t) /\ EngStep(t)
      BY <1>2, <3>1 DEF StopCheck, CtlStep, RecStep, EngStep, Holds, Inside, Handler, LocksOwned, RecOwned
    <3>3. QED
      BY <3>1, <3>2 DEF LockStep
  <2>3. QED
    BY <1>2, <2>1, <2>2 DEF StopCheck, TypeInv, TypeOK, ThreadsOK
<1>3. CASE StopPaused(t) \/ StopQueue(t) \/ StopEnd(t)
  <2>1. \/ Return(t)
        \/ (\E label \in {"T3", "T4"} : Goto(t, label)) /\ UNCHANGED loc
        \/ Fail(t, loc[t].id, FALSE, "T4")
    BY <1>3 DEF StopPaused, StopOvertaken, StopQueue, StopEnd
  <2>2. OnlyMoves(t) /\ (pc'[t] \in {"idle", "D1", "T3", "T4"} \/ (pc'[t] = "F1" /\ loc'[t].ret = "T4"))
    BY <2>1, ReturnOnly, GotoOnly, FailOnly
  <2>3. UNCHANGED locks /\ pc[t] \in {"T2", "T3", "T4"}
    BY <1>3 DEF StopPaused, StopQueue, StopEnd, locks
  <2>4. QED
    BY <2>2, <2>3, OutsideLocks DEF Holds, Inside, Handler
<1>4. QED
  BY <1>1, <1>2, <1>3 DEF StopSteps

LEMMA CancelLocks ==
  ASSUME TypeInv, LocksOwned, NEW t \in Threads, CancelSteps(t)
  PROVE  LockStep(t)
<1>1. CASE CancelLock(t)
  BY <1>1, AcquireLocks DEF CancelLock, Outside, Inside
<1>2. CASE CancelCheck(t) \/ CancelDelete(t) \/ CancelMark(t)
  <2>1. \/ Leave(t)
        \/ /\ \E label \in {"C2", "C3", "C4"} : Goto(t, label)
           /\ \A u \in Threads \ {t} : loc'[u] = loc[u]
           /\ UNCHANGED ctl
    BY <1>2 DEF CancelCheck, CancelDelete, CancelMark, TypeInv, TypeOK, ThreadsOK, locks
  <2>2. pc[t] \in {"C1", "C2", "C3"} /\ UNCHANGED <<rec, eng>>
    BY <1>2 DEF CancelCheck, CancelDelete, CancelMark, locks
  <2>3. CASE Leave(t)
    BY <2>2, <2>3, LeaveLocks DEF Inside
  <2>4. CASE ~Leave(t)
    <3>1. OnlyMoves(t) /\ pc'[t] \in {"C2", "C3", "C4"} /\ UNCHANGED locks
      BY <2>1, <2>2, <2>4 DEF Goto, OnlyMoves, TypeInv, TypeOK, ThreadsOK, locks
    <3>2. QED
      BY <2>2, <3>1, InsideLocks DEF Inside
  <2>5. QED
    BY <2>3, <2>4
<1>3. CASE CancelDrainPartials(t) \/ CancelRestorePartials(t)
             \/ CancelDrainFinals(t) \/ CancelRestoreFinals(t)
  <2>1. pc[t] \in {"C4", "C5", "C6", "C7"} /\ UNCHANGED locks
    BY <1>3 DEF CancelDrainPartials, CancelRestorePartials, CancelDrainFinals, CancelRestoreFinals
  <2>2. \E label \in {pc[t], "C5", "C6", "C7", "C8"} : Goto(t, label)
    BY <1>3, Stays DEF CancelDrainPartials, CancelRestorePartials,
       CancelDrainFinals, CancelRestoreFinals
  <2>3. \A u \in Threads \ {t} : loc'[u] = loc[u]
    BY <1>3 DEF CancelDrainPartials, CancelRestorePartials,
       CancelDrainFinals, CancelRestoreFinals, TypeInv, TypeOK, ThreadsOK
  <2>4. OnlyMoves(t) /\ pc'[t] \in {"C4", "C5", "C6", "C7", "C8"}
    BY <2>1, <2>2, <2>3 DEF Goto, OnlyMoves, TypeInv, TypeOK, ThreadsOK
  <2>5. QED
    BY <2>1, <2>4, InsideLocks DEF Inside
<1>4. CASE CancelEnd(t)
  BY <1>4, LeaveLocks DEF CancelEnd, Inside
<1>5. QED
  BY <1>1, <1>2, <1>3, <1>4 DEF CancelSteps

LEMMA FailLocks ==
  ASSUME TypeInv, LocksOwned, NEW t \in Threads, FailSteps(t)
  PROVE  LockStep(t)
<1>1. UNCHANGED locks /\ pc[t] \in Handler
  BY DEF FailSteps, FailCheck, FailRead, FailMark, FailEnd, Handler
<1>2. loc[t].ret \in Returns
  BY LocalsOf DEF Locals
<1>3. OnlyMoves(t) /\ \/ pc'[t] = loc[t].ret
                      \/ pc'[t] \in Handler /\ loc'[t].ret = loc[t].ret
  <2>1. CASE FailReturn(t)
    BY <2>1, FailReturnOnly
  <2>2. CASE FailCheck(t) /\ ~FailReturn(t)
    BY <2>2, LocalsOf DEF FailCheck, Goto, OnlyMoves, TypeInv, TypeOK, ThreadsOK, Locals, Handler
  <2>3. CASE FailRead(t) \/ FailMark(t)
    BY <2>3, LocalsOf DEF FailRead, FailMark, Goto, OnlyMoves, TypeInv, TypeOK, ThreadsOK, Locals, Handler
  <2>4. QED
    BY <2>1, <2>2, <2>3 DEF FailSteps, FailEnd
<1>4. CASE Holds(t)
  <2>1. Holds(t)' /\ pc'[t] # "S2" /\ pc'[t] # "H3" /\ pc[t] # "H3"
    BY <1>1, <1>2, <1>3, <1>4 DEF Holds, Inside, Handler, Returns
  <2>2. CtlStep(t) /\ RecStep(t) /\ EngStep(t)
    BY <1>1, <1>4, <2>1 DEF CtlStep, RecStep, EngStep, LocksOwned, RecOwned, Handler, locks
  <2>3. QED
    BY <1>3, <2>2 DEF LockStep
<1>5. CASE ~Holds(t)
  <2>1. ~Holds(t)' /\ pc'[t] # "H3" /\ pc[t] \notin {"R0", "H3"}
    BY <1>1, <1>2, <1>3, <1>5 DEF Holds, Inside, Handler, Returns
  <2>2. QED
    BY <1>1, <1>3, <1>5, <2>1, OutsideLocks
<1>6. QED
  BY <1>4, <1>5

LEMMA CleanupLocks ==
  ASSUME TypeInv, LocksOwned, CleanupSteps
  PROVE  LockStep("cleaner")
<1> DEFINE t == "cleaner"
<1>0. t \in Threads
  BY WorkersAreThreads
<1>1. CASE CleanupLock
  <2>1. OnlyMoves(t) /\ pc'[t] = "X1" /\ pc[t] = "idle"
    BY <1>1, <1>0 DEF CleanupLock, Goto, OnlyMoves, TypeInv, TypeOK, ThreadsOK
  <2>2. CtlStep(t) /\ RecStep(t) /\ EngStep(t)
    BY <1>1, <1>0, <2>1 DEF CleanupLock, CtlStep, RecStep, EngStep, Holds, Inside, Handler, LocksOwned, RecOwned
  <2>3. QED
    BY <2>1, <2>2 DEF LockStep
<1>2. CASE CleanupStop \/ CleanupEnd
  <2>1. CASE Leave(t)
    BY <1>0, <1>2, <2>1, LeaveLocks DEF CleanupStop, CleanupEnd, Inside
  <2>2. CASE ~Leave(t)
    <3>1. OnlyMoves(t) /\ pc'[t] = "X2" /\ pc[t] = "X1" /\ UNCHANGED locks
      BY <1>0, <1>2, <2>2, GotoOnly DEF CleanupStop, CleanupEnd, locks
    <3>2. QED
      BY <1>0, <3>1, InsideLocks DEF Inside
  <2>3. QED
    BY <2>1, <2>2
<1>3. QED
  BY <1>1, <1>2 DEF CleanupSteps

LEMMA LoopOnly ==
  ASSUME TypeInv, NEW t \in Threads, Loop(t)
  PROVE  OnlyMoves(t) /\ pc'[t] = "W0" /\ loc'[t] = NoLocals
  BY DEF Loop, Goto, OnlyMoves, TypeInv, TypeOK, ThreadsOK

LEMMA WorkerOnly ==
  ASSUME TypeInv, WorkerSteps
  PROVE  /\ OnlyMoves("worker") /\ pc["worker"] \in Looping
         /\ \/ pc'["worker"] \in Looping
            \/ pc'["worker"] = "F1" /\ loc'["worker"].ret \in {"W0", "E1"}
<1> DEFINE w == "worker"
<1>0. w \in Threads
  BY WorkersAreThreads
<1>1. pc[w] \in Looping
  BY DEF WorkerSteps, TakePartial, TakeFinal, Handle, DecodeStart, DecodeEnd, RecordGuard,
     RecordSegment, RecordPart, SessionCheck, SessionEmpty, SessionComplete, SessionType,
     SessionSave, Looping
<1>2. \A u \in Threads \ {w} : loc'[u] = loc[u]
  BY <1>0 DEF WorkerSteps, TakePartial, TakeFinal, TakeChunk, Handle, HandleEmpty, DecodeStart,
     DecodeEnd, RecordGuard, RecordSegment, RecordPart, SessionCheck, SessionEmpty,
     SessionComplete, SessionType, SessionSave, GiveUp, Loop, Fail, TypeInv, TypeOK, ThreadsOK
<1>3. \/ \E label \in Looping : Goto(w, label)
      \/ \E id, hard : \E ret \in {"W0", "E1"} : Fail(w, id, hard, ret)
  BY DEF WorkerSteps, TakePartial, TakeFinal, Handle, HandleEmpty, DecodeStart,
     DecodeEnd, RecordGuard, RecordSegment, RecordPart, SessionCheck, SessionEmpty,
     SessionComplete, SessionType, SessionSave, GiveUp, Loop, Looping
<1>4. CASE \E label \in Looping : Goto(w, label)
  BY <1>0, <1>1, <1>2, <1>4 DEF Goto, OnlyMoves, TypeInv, TypeOK, ThreadsOK
<1>5. CASE \E id, hard : \E ret \in {"W0", "E1"} : Fail(w, id, hard, ret)
  BY <1>0, <1>1, <1>5, FailOnly
<1>6. QED
  BY <1>3, <1>4, <1>5

LEMMA WorkerLocks ==
  ASSUME TypeInv, LocksOwned, WorkerSteps
  PROVE  LockStep("worker")
<1> DEFINE w == "worker"
<1>0. w \in Threads
  BY WorkersAreThreads
<1>1. ~Holds(w) /\ ~Holds(w)' /\ OnlyMoves(w) /\ pc[w] \in Looping /\ pc'[w] # "S2"
  BY WorkerOnly DEF Holds, Inside, Handler, Looping
<1>2. CASE DecodeStart \/ DecodeEnd
  <2>1. EngStep(w)
    BY <1>0, <1>2 DEF DecodeStart, DecodeEnd, EngStep, Goto, Loop, Fail, LocksOwned, EngOwned,
       TypeInv, TypeOK, ThreadsOK
  <2>2. CtlStep(w) /\ RecStep(w)
    BY <1>0, <1>1, <1>2 DEF DecodeStart, DecodeEnd, CtlStep, RecStep, LocksOwned, RecOwned, Looping
  <2>3. QED
    BY <1>1, <2>1, <2>2 DEF LockStep
<1>3. CASE ~(DecodeStart \/ DecodeEnd)
  <2>1. UNCHANGED locks /\ pc[w] # "H3"
    BY <1>3 DEF WorkerSteps, TakePartial, TakeFinal, Handle, RecordGuard, RecordSegment,
       RecordPart, SessionCheck, SessionEmpty, SessionComplete, SessionType, SessionSave
  <2>2. pc'[w] # "H3"
    <3>1. \/ \E label \in Looping \ {"H3"} : Goto(w, label)
          \/ \E id, hard, ret : Fail(w, id, hard, ret)
      BY <1>3 DEF WorkerSteps, TakePartial, TakeFinal, Handle, HandleEmpty, RecordGuard,
         RecordSegment, RecordPart, SessionCheck, SessionEmpty, SessionComplete, SessionType,
         SessionSave, GiveUp, Loop, Looping
    <3>2. QED
      BY <1>0, <3>1, FailOnly DEF Goto, TypeInv, TypeOK, ThreadsOK
  <2>3. QED
    BY <1>0, <1>1, <2>1, <2>2, OutsideLocks DEF Looping
<1>4. QED
  BY <1>2, <1>3

\* A thread that was idle begins an operation.
LEMMA BeginLocks ==
  ASSUME TypeInv, LocksOwned, NEW t \in Threads, pc[t] = "idle", UNCHANGED locks, OnlyMoves(t),
         pc'[t] \in Outside
  PROVE  LockStep(t)
  BY OutsideLocks DEF Holds, Inside, Handler, Outside

\* What the user does moves at most one thread, one that was idle.
LEMMA UserOnly ==
  ASSUME TypeInv, User
  PROVE  /\ UNCHANGED locks
         /\ \/ UNCHANGED threads
            \/ \E t \in Threads : pc[t] = "idle" /\ OnlyMoves(t) /\ pc'[t] \in Outside
<1>1. ASSUME NEW t \in Threads, NEW label \in Outside, pc[t] = "idle", Goto(t, label),
             UNCHANGED loc \/ \E next : loc' = [loc EXCEPT ![t] = next]
      PROVE  \E u \in Threads : pc[u] = "idle" /\ OnlyMoves(u) /\ pc'[u] \in Outside
  BY <1>1, GotoOnly
<1>2. CASE Press \/ Release \/ Silence \/ \E t \in UIs : NoteRequest(t)
  <2>1. PICK t \in Threads : /\ pc[t] = "idle"
                             /\ \E label \in Outside : \E mode : Begin(t, label, mode)
    <3>1. \A t \in UIs : t \in Threads
      BY DEF Threads
    <3>2. QED
      BY <1>2, <3>1, WorkersAreThreads DEF Press, Release, OnRelease, Silence, NoteRequest,
         Operation, Entry, Outside
  <2>2. UNCHANGED locks
    BY <1>2 DEF Press, Release, Silence, NoteRequest
  <2>3. QED
    BY <1>1, <2>1, <2>2 DEF Begin
<1>3. CASE Deactivate \/ SetCombo \/ Shutdown
  <2>1. /\ pc["tray"] = "idle" /\ \E label \in Outside : Goto("tray", label)
        /\ UNCHANGED loc \/ loc' = [loc EXCEPT !["tray"].back = "D1"]
    BY <1>3 DEF Deactivate, SetCombo, Shutdown, FinalizeIfRecording, Operation, Outside
  <2>2. UNCHANGED locks
    BY <1>3 DEF Deactivate, SetCombo, Shutdown
  <2>3. QED
    BY <1>1, <2>1, <2>2, WorkersAreThreads
<1>4. CASE Activate \/ SwitchModel
  BY <1>4 DEF Activate, SwitchModel
<1>5. QED
  BY <1>2, <1>3, <1>4 DEF User

LEMMA ShutdownLocks ==
  ASSUME TypeInv, LocksOwned, ShutdownSteps
  PROVE  LockStep("tray")
<1>0. "tray" \in Threads
  BY WorkersAreThreads
<1>1. /\ UNCHANGED locks /\ pc["tray"] \in {"D1", "D2"}
      /\ OnlyMoves("tray") /\ pc'["tray"] \in {"D2", "idle"}
  BY <1>0, GotoOnly DEF ShutdownSteps, ShutdownHotkey, ShutdownQueue
<1>2. QED
  BY <1>0, <1>1, OutsideLocks DEF Holds, Inside, Handler

LEMMA StepLocks ==
  ASSUME TypeInv, LocksOwned, NEW t \in Threads, Step(t)
  PROVE  LockStep(t)
  BY StartLocks, FinalizeLocks, PauseLocks, ResumeLocks, StopLocks, CancelLocks, FailLocks,
     CleanupLocks, WorkerLocks, ShutdownLocks DEF Step

LEMMA InitLocks == Init => LocksOwned
<1> SUFFICES ASSUME Init PROVE LocksOwned
  OBVIOUS
<1>1. \A t \in Threads : pc[t] \in {"W0", "idle"} /\ ctl # t /\ rec # t /\ eng # t
  BY FreeIsNoThread DEF Init
<1>2. QED
  BY <1>1 DEF LocksOwned, CtlOwned, RecOwned, EngOwned, Holds, Inside, Handler

LEMMA NextLocks == TypeInv /\ LocksOwned /\ [Next]_vars => LocksOwned'
<1> SUFFICES ASSUME TypeInv, LocksOwned, [Next]_vars PROVE LocksOwned'
  OBVIOUS
<1>1. ASSUME NEW t \in Threads, Step(t) PROVE LocksOwned'
  BY <1>1, StepLocks, LockStepKeeps
<1>2. CASE User
  BY <1>2, UserOnly, BeginLocks, LockStepKeeps, Idle
<1>3. CASE UNCHANGED vars
  BY <1>3, Idle DEF vars
<1>4. QED
  BY <1>1, <1>2, <1>3 DEF Next, Resting

-----------------------------------------------------------------------------
(* Where a step leads, but for the few that need care *)

LEMMA BackLabel ==
  ASSUME TypeInv, NEW t \in Threads
  PROVE  loc[t].back \in {"idle", "D1"} /\ loc[t].ret \notin {"N0", "S2", "C4", "C5"}
  BY LocalsOf DEF Locals, Returns

\* Only a request goes to the start of a note, only _start_recording to the
\* point where it has an id.
LEMMA StepGoes ==
  ASSUME TypeInv, NEW t \in Threads, Step(t),
         ~StartCheck(t), ~CancelMark(t), ~CancelDrainPartials(t)
  PROVE  \E label : label \notin {"N0", "S2", "C4", "C5"} /\ Goto(t, label)
<1>1. CASE StartLock(t) \/ StartCapture(t) \/ FinalizeSteps(t)
  BY <1>1, BackLabel DEF StartLock, StartCapture, FinalizeSteps, FinalizeLock,
     FinalizeStop, FinalizeQueue, FinalizeEnd, FinalizeFailed, Acquire, Leave, Return, Fail
<1>2. CASE PauseSteps(t) \/ ResumeSteps(t) \/ StartNote(t) \/ Toggle(t)
  BY <1>2, BackLabel DEF PauseSteps, PauseLock, PauseStop, PauseQueue, PauseEnd, ResumeSteps, ResumeLock,
     Resume, StartNote, Toggle, Begin, Acquire, Leave, Return
<1>3. CASE StopSteps(t)
  BY <1>3, BackLabel DEF StopSteps, StopLock, StopCheck, StopPaused, StopOvertaken, StopQueue,
     StopEnd, Acquire, Leave, Return, Fail
<1>4. CASE CancelSteps(t)
  <2>1. CASE CancelDrainFinals(t) \/ CancelRestoreFinals(t)
    <3>1. \E label \in {pc[t], "C7", "C8"} : Goto(t, label)
      BY <2>1, Stays DEF CancelDrainFinals, CancelRestoreFinals
    <3>2. pc[t] \notin {"N0", "S2", "C4", "C5"}
      BY <2>1 DEF CancelDrainFinals, CancelRestoreFinals
    <3>3. QED
      BY <3>1, <3>2
  <2>2. QED
    BY <1>4, <2>1, BackLabel DEF CancelSteps, CancelLock, CancelCheck, CancelDelete,
       CancelRestorePartials, CancelEnd, Acquire, Leave, Return
<1>5. CASE FailSteps(t) \/ (t = "cleaner" /\ CleanupSteps) \/ (t = "tray" /\ ShutdownSteps)
  BY <1>5, BackLabel DEF FailSteps, FailCheck, FailRead, FailMark, FailEnd, FailReturn,
     CleanupSteps, CleanupLock, CleanupStop, CleanupEnd, Leave, Return,
     ShutdownSteps, ShutdownHotkey, ShutdownQueue
<1>6. CASE t = "worker" /\ WorkerSteps
  BY <1>6 DEF WorkerSteps, TakePartial, TakeFinal, Handle, HandleEmpty, DecodeStart,
     DecodeEnd, RecordGuard, RecordSegment, RecordPart, SessionCheck, SessionEmpty,
     SessionComplete, SessionType, SessionSave, GiveUp, Loop, Fail
<1>7. QED
  BY <1>1, <1>2, <1>3, <1>4, <1>5, <1>6 DEF Step, StartSteps

LEMMA StepLabels ==
  ASSUME TypeInv, NEW t \in Threads, Step(t)
  PROVE  /\ pc'[t] # "N0"
         /\ pc'[t] = "S2" => StartCheck(t)
         /\ pc'[t] \in {"C4", "C5"} => CancelMark(t) \/ CancelDrainPartials(t)
<1>1. CASE StartCheck(t)
  BY <1>1, BackLabel DEF StartCheck, Leave, Return, Goto, TypeInv, TypeOK, ThreadsOK
<1>2. CASE CancelMark(t) \/ CancelDrainPartials(t)
  BY <1>2 DEF CancelMark, CancelDrainPartials, Goto, TypeInv, TypeOK, ThreadsOK
<1>3. CASE ~StartCheck(t) /\ ~CancelMark(t) /\ ~CancelDrainPartials(t)
  <2>1. \E label : label \notin {"N0", "S2", "C4", "C5"} /\ Goto(t, label)
    BY <1>3, StepGoes, Zenon
  <2>2. QED
    BY <2>1 DEF Goto, TypeInv, TypeOK, ThreadsOK
<1>4. QED
  BY <1>1, <1>2, <1>3

-----------------------------------------------------------------------------
(* Ids that can be met were given out by a start that is through *)

LEMMA AllPastSeq ==
  ASSUME NEW b \in Nat
  PROVE  /\ AllPast(<<>>, b)
         /\ \A q \in Seq(Items) : AllPast(q, b) =>
              /\ q # <<>> => Head(q).id <= b /\ AllPast(Tail(q), b)
              /\ \A item \in Items : item.id <= b => AllPast(Append(q, item), b)
              /\ \A r \in Seq(Items) : AllPast(r, b) => AllPast(q \o r, b)
<1>1. AllPast(<<>>, b)
  BY DEF AllPast
<1>2. ASSUME NEW q \in Seq(Items), AllPast(q, b)
      PROVE  /\ q # <<>> => Head(q).id <= b /\ AllPast(Tail(q), b)
             /\ \A item \in Items : item.id <= b => AllPast(Append(q, item), b)
             /\ \A r \in Seq(Items) : AllPast(r, b) => AllPast(q \o r, b)
  <2>1. q # <<>> => Head(q).id <= b /\ AllPast(Tail(q), b)
    BY <1>2 DEF AllPast
  <2>2. \A item \in Items : item.id <= b => AllPast(Append(q, item), b)
    BY <1>2 DEF AllPast
  <2>3. ASSUME NEW r \in Seq(Items), AllPast(r, b) PROVE AllPast(q \o r, b)
    <3>1. SUFFICES ASSUME NEW i \in DOMAIN (q \o r) PROVE (q \o r)[i].id <= b
      BY DEF AllPast
    <3>2. CASE i <= Len(q)
      BY <1>2, <3>1, <3>2 DEF AllPast
    <3>3. CASE i > Len(q)
      <4>1. i - Len(q) \in DOMAIN r /\ (q \o r)[i] = r[i - Len(q)]
        BY <3>1, <3>3
      <4>2. QED
        BY <2>3, <4>1 DEF AllPast
    <3>4. QED
      BY <3>1, <3>2, <3>3
  <2>4. QED
    BY <2>1, <2>2, <2>3
<1>3. QED
  BY <1>1, <1>2

LEMMA QueueTypes ==
  ASSUME TypeInv
  PROVE  /\ partialQ \in Seq(Items) /\ finalQ \in Seq(Items)
         /\ \A t \in Threads : loc[t].keptPartials \in Seq(Items) /\ loc[t].keptFinals \in Seq(Items)
<1>1. Seq(Chunks) \subseteq Seq(Items)
  BY DEF Items
<1>2. QED
  BY <1>1, LocalsOf DEF TypeInv, TypeOK, QueuesOK, Locals

LEMMA PastGrows ==
  ASSUME TypeInv, NEW b \in Nat, NEW c \in Nat, b <= c, PastAt(b)
  PROVE  PastAt(c)
<1>1. \A q \in Seq(Items) : AllPast(q, b) => AllPast(q, c)
  <2>1. \A q \in Seq(Items) : \A i \in DOMAIN q : q[i].id \in Int
    <3>1. \A item \in Items : item.id \in Int
      <4>0. \A item \in Chunks : item.id \in Ids
        BY DEF Chunks
      <4>1. \A item \in Chunks : item.id \in Int
        BY <4>0 DEF Ids
      <4>2. StopSignal.id \in Int
        BY DEF StopSignal, NoId
      <4>3. QED
        BY <4>1, <4>2 DEF Items
    <3>2. QED
      BY <3>1
  <2>2. QED
    BY <2>1 DEF AllPast
<1>2. \A t \in Threads : loc[t].id \in Nat
  BY LocalsOf, IdsType DEF Locals
<1>3. \A id \in terminal \cup failing : id \in Nat
  BY IdsType DEF TypeInv, TypeOK, SessionsOK, ControlOK
<1>4. QED
  BY <1>1, <1>2, <1>3, QueueTypes DEF PastAt

LEMMA PastParts ==
  ASSUME NEW b \in Nat, PastAt(b), NEW t \in Threads, OnlyMoves(t), PastIn(t, b),
         AllPast(partialQ, b)', AllPast(finalQ, b)', \A id \in terminal' \cup failing' : id <= b
  PROVE  PastAt(b)'
<1>1. \A u \in Threads : pc'[u] # "S2" => loc'[u].id <= b
  BY DEF PastAt, OnlyMoves, PastIn
<1>2. \A u \in Threads : AllPast(loc'[u].keptPartials, b) /\ AllPast(loc'[u].keptFinals, b)
  BY DEF PastAt, OnlyMoves, PastIn
<1>3. QED
  BY <1>1, <1>2 DEF PastAt, AllPast

LEMMA SamePast ==
  ASSUME NEW b \in Nat, PastAt(b)
  PROVE  /\ UNCHANGED partialQ => AllPast(partialQ, b)'
         /\ UNCHANGED finalQ => AllPast(finalQ, b)'
         /\ UNCHANGED <<terminal, failing>> => \A id \in terminal' \cup failing' : id <= b
  BY DEF PastAt, AllPast

LEMMA RememberPast ==
  ASSUME NEW b \in Nat, PastAt(b), NEW id \in Ids, id <= b, Remember(id)
  PROVE  \A i \in terminal' : i <= b
  BY DEF PastAt, Remember

\* How the locals of the acting thread come about.
LEMMA ReturnPast ==
  ASSUME TypeInv, NEW b \in Nat, NEW t \in Threads, loc'[t] = NoLocals
  PROVE  PastIn(t, b)
  BY DEF PastIn, AllPast, NoLocals, NoId

LEMMA SameLocalsPast ==
  ASSUME TypeInv, NEW b \in Nat, PastAt(b), NEW t \in Threads, loc'[t] = loc[t],
         pc[t] # "S2" \/ pc'[t] = "S2"
  PROVE  PastIn(t, b)
  BY DEF PastIn, PastAt

LEMMA SameIdsPast ==
  ASSUME TypeInv, NEW b \in Nat, PastAt(b), NEW t \in Threads, SameIds(t), pc[t] # "S2"
  PROVE  PastIn(t, b)
  BY AllPastSeq DEF PastIn, PastAt, SameIds, NoId

\* The active recording is past for a thread that has the recording lock.
LEMMA ActivePast ==
  ASSUME TypeInv, LocksOwned, Newest, NEW t \in Threads, RecFree(t), pc[t] # "S2"
  PROVE  activeId <= Begun /\ Begun = gen
<1>1. \A u \in Threads : pc[u] # "S2"
  BY FreeIsNoThread DEF LocksOwned, RecOwned, RecFree
<1>2. QED
  BY <1>1 DEF Begun, Newest

LEMMA BegunType == ASSUME TypeInv, Newest PROVE Begun \in Nat /\ Begun <= gen
  BY IdsType, BoundsAssumption DEF Begun, Newest, TypeInv, HasId, Bound, TypeOK, CaptureOK, Ids, IdOrNone, NoId

LEMMA BegunNat == TypeInv /\ Newest => Begun \in Nat
  BY BegunType

LEMMA PastGrowsOn == \A c, d \in Nat : TypeInv /\ c <= d /\ PastAt(c) => PastAt(d)
  BY PastGrows

LEMMA ActiveInPast ==
  ASSUME TypeInv, NEW b \in Nat, PastAt(b), NEW t \in Threads, NEW id, ActiveIn(t, id), id <= b
  PROVE  PastIn(t, b)
  BY DEF PastIn, PastAt, ActiveIn

LEMMA QuietPast ==
  ASSUME TypeInv, NEW b \in Nat, PastAt(b), NEW t \in Threads, OnlyMoves(t), SameIds(t), pc[t] # "S2",
         UNCHANGED <<partialQ, finalQ, terminal, failing>>
  PROVE  PastAt(b)'
  BY SameIdsPast, SamePast, PastParts

\* What returning, failing and going on do to the ids.
LEMMA MovesIds ==
  ASSUME TypeInv, NEW t \in Threads
  PROVE  /\ Return(t) => SameIds(t) /\ OnlyMoves(t)
         /\ UNCHANGED loc => SameIds(t)
         /\ Loop(t) => SameIds(t) /\ OnlyMoves(t)
         /\ \A hard, ret : Fail(t, loc[t].id, hard, ret) => SameIds(t) /\ OnlyMoves(t)
         /\ FailReturn(t) => SameIds(t) /\ OnlyMoves(t)
         /\ \A label, mode : Begin(t, label, mode) => SameIds(t) /\ OnlyMoves(t)
<1>1. loc'[t] = NoLocals => SameIds(t)
  BY DEF SameIds, NoLocals
<1>2. Return(t) => SameIds(t) /\ OnlyMoves(t)
  BY <1>1, ReturnOnly
<1>3. Loop(t) => SameIds(t) /\ OnlyMoves(t)
  BY <1>1, LoopOnly
<1>4. UNCHANGED loc => SameIds(t)
  BY DEF SameIds
<1>5. ASSUME NEW hard, NEW ret, Fail(t, loc[t].id, hard, ret) PROVE SameIds(t) /\ OnlyMoves(t)
  <2> DEFINE next == [loc[t] EXCEPT !.id = loc[t].id, !.hard = hard, !.ret = ret]
  <2>1. loc'[t] = next
    BY <1>5 DEF Fail, TypeInv, TypeOK, ThreadsOK
  <2>2. /\ next.id = loc[t].id /\ next.keptPartials = loc[t].keptPartials
        /\ next.keptFinals = loc[t].keptFinals
    BY LocalsOf DEF Locals
  <2> HIDE DEF next
  <2>3. QED
    BY <1>5, <2>1, <2>2, FailOnly DEF SameIds
<1>6. FailReturn(t) => SameIds(t) /\ OnlyMoves(t)
  <2>1. SUFFICES ASSUME FailReturn(t) PROVE SameIds(t)
    BY FailReturnOnly
  <2>2. CASE loc[t].ret = "W0"
    BY <1>1, <2>1, <2>2 DEF FailReturn, TypeInv, TypeOK, ThreadsOK
  <2>3. CASE loc[t].ret # "W0"
    BY <2>1, <2>3, LocalsOf DEF FailReturn, SameIds, Locals, TypeInv, TypeOK, ThreadsOK
  <2>4. QED
    BY <2>2, <2>3
<1>7. ASSUME NEW label, NEW mode, Begin(t, label, mode) PROVE SameIds(t) /\ OnlyMoves(t)
  BY <1>7, LocalsOf DEF Begin, Goto, OnlyMoves, SameIds, Locals, TypeInv, TypeOK, ThreadsOK
<1>8. QED
  BY <1>2, <1>3, <1>4, <1>5, <1>6, <1>7

LEMMA AcquirePast ==
  ASSUME TypeInv, NEW b \in Nat, PastAt(b), NEW t \in Threads, NEW from, NEW to, from # "S2", Acquire(t, from, to)
  PROVE  PastAt(b)'
<1>1. OnlyMoves(t) /\ SameIds(t) /\ pc[t] # "S2"
  BY GotoOnly, MovesIds DEF Acquire
<1>2. QED
  BY <1>1, QuietPast DEF Acquire, sessions, queues, control

LEMMA StartPast ==
  ASSUME TypeInv, LocksOwned, Newest, NEW b \in Nat, b = Begun, PastAt(b), NEW t \in Threads, StartSteps(t)
  PROVE  PastAt(b)'
<1>1. CASE StartLock(t)
  BY <1>1, AcquirePast DEF StartLock
<1>2. CASE StartCheck(t)
  <2>1. UNCHANGED <<partialQ, finalQ, terminal, failing>> /\ pc[t] # "S2"
    BY <1>2 DEF StartCheck, sessions, queues, control
  <2>2. CASE Leave(t)
    BY <2>1, <2>2, MovesIds, QuietPast DEF Leave
  <2>3. CASE loc' = [loc EXCEPT ![t].id = gen + 1] /\ Goto(t, "S2")
    <3>1. OnlyMoves(t) /\ pc'[t] = "S2"
      BY <2>3, GotoOnly
    <3>2. loc'[t].keptPartials = loc[t].keptPartials /\ loc'[t].keptFinals = loc[t].keptFinals
      BY <2>3, LocalsOf DEF TypeInv, TypeOK, ThreadsOK, Locals
    <3>3. PastIn(t, b)
      BY <3>1, <3>2 DEF PastIn, PastAt
    <3>4. QED
      BY <2>1, <3>1, <3>3, SamePast, PastParts
  <2>4. QED
    BY <1>2, <2>2, <2>3 DEF StartCheck
<1>3. CASE StartCapture(t)
  <2>1. OnlyMoves(t) /\ PastIn(t, b)
    BY <1>3, ReturnOnly, ReturnPast DEF StartCapture, Leave
  <2>2. UNCHANGED <<partialQ, finalQ, failing>> /\ terminal' \subseteq terminal
    BY <1>3 DEF StartCapture, queues, control
  <2>3. \A id \in terminal' \cup failing' : id <= b
    BY <2>2 DEF PastAt
  <2>4. QED
    BY <2>1, <2>2, <2>3, SamePast, PastParts
<1>4. QED
  BY <1>1, <1>2, <1>3 DEF StartSteps

LEMMA FinalizePast ==
  ASSUME TypeInv, LocksOwned, Newest, NEW b \in Nat, b = Begun, PastAt(b), NEW t \in Threads, FinalizeSteps(t)
  PROVE  PastAt(b)'
<1>1. CASE FinalizeLock(t)
  BY <1>1, AcquirePast DEF FinalizeLock
<1>2. CASE FinalizeStop(t)
  <2>1. UNCHANGED <<partialQ, finalQ, terminal, failing>> /\ pc[t] # "S2" /\ activeId <= b
    BY <1>2, ActivePast DEF FinalizeStop, sessions, queues, control
  <2>2. CASE activeId = NoId
    BY <1>2, <2>1, <2>2, MovesIds, QuietPast DEF Leave, FinalizeStop
  <2>3. CASE activeId # NoId
    <3>1. ActiveIn(t, activeId)
      <4>1. ASSUME NEW audio, loc' = [loc EXCEPT ![t].id = activeId, ![t].mode = ModeOf(activeId), ![t].captures = audio]
            PROVE  ActiveIn(t, activeId)
        BY <4>1, LocalsOf DEF ActiveIn, TypeInv, TypeOK, ThreadsOK, Locals
      <4>2. ASSUME loc' = [loc EXCEPT ![t].id = activeId, ![t].mode = ModeOf(activeId),
                                      ![t].hard = TRUE, ![t].ret = "Z4"]
            PROVE  ActiveIn(t, activeId)
        BY <4>2, LocalsOf DEF ActiveIn, TypeInv, TypeOK, ThreadsOK, Locals
      <4>3. QED
        BY <1>2, <2>3, <4>1, <4>2 DEF FinalizeStop
    <3>2. OnlyMoves(t)
      <4>1. FinalizeSteps(t)
        OBVIOUS
      <4>2. QED
        BY <4>1, FinalizeLocks DEF LockStep
    <3>3. QED
      BY <2>1, <3>1, <3>2, ActiveInPast, SamePast, PastParts
  <2>4. QED
    BY <2>2, <2>3
<1>3. CASE FinalizeQueue(t)
  <2>1. UNCHANGED <<partialQ, terminal, failing>> /\ pc[t] = "Z2"
    BY <1>3 DEF FinalizeQueue, control
  <2>2. OnlyMoves(t)
    BY FinalizeLocks DEF LockStep
  <2>3. SameIds(t)
    BY <1>3, MovesIds DEF FinalizeQueue, Leave
  <2>4. AllPast(finalQ, b)'
    <3>1. CASE UNCHANGED finalQ
      BY <3>1, SamePast
    <3>2. CASE finalQ' = Append(finalQ, [id |-> loc[t].id, captures |-> loc[t].captures])
      <4>1. [id |-> loc[t].id, captures |-> loc[t].captures] \in Items
        BY <2>1, LocalsOf DEF TypeInv, HasId, Bound, Locals, Items, Chunks
      <4>2. loc[t].id <= b /\ AllPast(finalQ, b)
        BY <2>1 DEF PastAt
      <4>3. QED
        BY <3>2, <4>1, <4>2, AllPastSeq, QueueTypes
    <3>3. QED
      BY <1>3, <3>1, <3>2 DEF FinalizeQueue
  <2>5. QED
    BY <2>1, <2>2, <2>3, <2>4, SameIdsPast, SamePast, PastParts
<1>4. CASE FinalizeEnd(t) \/ FinalizeFailed(t)
  BY <1>4, MovesIds, QuietPast DEF FinalizeEnd, FinalizeFailed, Leave, sessions, queues, control
<1>5. QED
  BY <1>1, <1>2, <1>3, <1>4 DEF FinalizeSteps

LEMMA PausePast ==
  ASSUME TypeInv, LocksOwned, Newest, NEW b \in Nat, b = Begun, PastAt(b), NEW t \in Threads, PauseSteps(t)
  PROVE  PastAt(b)'
<1>0. OnlyMoves(t)
  BY PauseLocks DEF LockStep
<1>1. CASE PauseLock(t)
  BY <1>1, AcquirePast DEF PauseLock
<1>2. CASE PauseStop(t)
  <2>1. UNCHANGED <<partialQ, finalQ, terminal, failing>> /\ pc[t] # "S2" /\ activeId <= b
    BY <1>2, ActivePast DEF PauseStop, sessions, queues, control
  <2>2. CASE Leave(t)
    BY <2>1, <2>2, MovesIds, QuietPast DEF Leave
  <2>3. CASE ~Leave(t)
    <3>1. PICK audio : loc' = [loc EXCEPT ![t].id = activeId, ![t].captures = audio]
      BY <1>2, <2>3 DEF PauseStop
    <3>2. ActiveIn(t, activeId)
      BY <3>1, LocalsOf DEF ActiveIn, TypeInv, TypeOK, ThreadsOK, Locals
    <3>3. QED
      BY <1>0, <2>1, <3>2, ActiveInPast, SamePast, PastParts
  <2>4. QED
    BY <2>2, <2>3
<1>3. CASE PauseQueue(t)
  <2>1. UNCHANGED <<finalQ, terminal, failing>> /\ pc[t] = "P2" /\ SameIds(t)
    BY <1>3, MovesIds DEF PauseQueue, Leave, sessions, control
  <2>2. AllPast(partialQ, b)'
    <3> DEFINE chunk == [id |-> loc[t].id, captures |-> loc[t].captures]
               kept  == IF Len(partialQ) < PartialCap THEN partialQ ELSE Tail(partialQ)
    <3>1. CASE UNCHANGED partialQ
      BY <3>1, SamePast
    <3>2. CASE partialQ' = Append(kept, chunk)
      <4>1. chunk \in Items /\ chunk.id <= b
        BY <2>1, LocalsOf DEF TypeInv, HasId, Bound, Locals, Items, Chunks, PastAt
      <4>2. kept \in Seq(Items) /\ AllPast(kept, b)
        <5>1. partialQ \in Seq(Items) /\ AllPast(partialQ, b)
          BY QueueTypes DEF PastAt
        <5>2. ~(Len(partialQ) < PartialCap) => partialQ # <<>>
          BY <5>1, BoundsAssumption
        <5>3. partialQ # <<>> => Tail(partialQ) \in Seq(Items) /\ AllPast(Tail(partialQ), b)
          BY <5>1, AllPastSeq
        <5>4. QED
          BY <5>1, <5>2, <5>3
      <4> HIDE DEF chunk, kept
      <4>3. QED
        BY <3>2, <4>1, <4>2, AllPastSeq
    <3>3. QED
      BY <1>3, <3>1, <3>2 DEF PauseQueue
  <2>3. QED
    BY <1>0, <2>1, <2>2, SameIdsPast, SamePast, PastParts
<1>4. CASE PauseEnd(t)
  BY <1>4, MovesIds, QuietPast DEF PauseEnd, Leave, sessions, queues, control
<1>5. QED
  BY <1>1, <1>2, <1>3, <1>4 DEF PauseSteps

LEMMA ResumePast ==
  ASSUME TypeInv, LocksOwned, Newest, NEW b \in Nat, b = Begun, PastAt(b), NEW t \in Threads,
         ResumeSteps(t) \/ StartNote(t) \/ Toggle(t)
  PROVE  PastAt(b)'
<1>1. CASE ResumeLock(t)
  BY <1>1, AcquirePast DEF ResumeLock
<1>2. CASE Resume(t)
  BY <1>2, MovesIds, QuietPast DEF Resume, Leave, sessions, queues, control
<1>3. CASE StartNote(t) \/ Toggle(t)
  <2>1. Return(t) \/ \E label : Begin(t, label, "note")
    BY <1>3 DEF StartNote, Toggle
  <2>2. SameIds(t) /\ OnlyMoves(t)
    BY <2>1, MovesIds
  <2>3. QED
    BY <1>3, <2>2, QuietPast DEF StartNote, Toggle, sessions, queues, control
<1>4. QED
  BY <1>1, <1>2, <1>3 DEF ResumeSteps

LEMMA StopPast ==
  ASSUME TypeInv, LocksOwned, Newest, NEW b \in Nat, b = Begun, PastAt(b), NEW t \in Threads, StopSteps(t)
  PROVE  PastAt(b)'
<1>0. OnlyMoves(t)
  BY StopLocks DEF LockStep
<1>1. CASE StopLock(t)
  BY <1>1, AcquirePast DEF StopLock
<1>2. CASE StopCheck(t)
  <2>1. UNCHANGED <<partialQ, finalQ, terminal, failing>> /\ pc[t] # "S2" /\ activeId <= b
    BY <1>2, ActivePast DEF StopCheck, sessions, queues, control
  <2>2. CASE Return(t)
    BY <2>1, <2>2, MovesIds, QuietPast
  <2>3. CASE ~Return(t)
    <3>1. loc' = [loc EXCEPT ![t].id = activeId]
      BY <1>2, <2>3 DEF StopCheck
    <3>2. ActiveIn(t, activeId)
      BY <3>1, LocalsOf DEF ActiveIn, TypeInv, TypeOK, ThreadsOK, Locals
    <3>3. QED
      BY <1>0, <2>1, <3>2, ActiveInPast, SamePast, PastParts
  <2>4. QED
    BY <2>2, <2>3
<1>3. CASE StopPaused(t) \/ StopEnd(t)
  <2>1. SameIds(t)
    BY <1>3, MovesIds DEF StopPaused, StopOvertaken, StopEnd
  <2>2. QED
    BY <1>0, <1>3, <2>1, QuietPast DEF StopPaused, StopEnd, sessions, queues, control
<1>4. CASE StopQueue(t)
  <2>1. UNCHANGED <<partialQ, terminal, failing>> /\ pc[t] = "T3" /\ SameIds(t)
    BY <1>4, MovesIds DEF StopQueue, sessions, control
  <2>2. AllPast(finalQ, b)'
    <3>1. CASE UNCHANGED finalQ
      BY <3>1, SamePast
    <3>2. CASE finalQ' = Append(finalQ, [id |-> loc[t].id, captures |-> <<>>])
      <4>1. [id |-> loc[t].id, captures |-> <<>>] \in Items
        BY <2>1, OneCapture DEF TypeInv, HasId, Bound, Items, Chunks
      <4>2. loc[t].id <= b /\ AllPast(finalQ, b)
        BY <2>1 DEF PastAt
      <4>3. QED
        BY <3>2, <4>1, <4>2, AllPastSeq, QueueTypes
    <3>3. QED
      BY <1>4, <3>1, <3>2 DEF StopQueue
  <2>3. QED
    BY <1>0, <2>1, <2>2, SameIdsPast, SamePast, PastParts
<1>5. QED
  BY <1>1, <1>2, <1>3, <1>4 DEF StopSteps

\* What _purge_queued_chunks_for_recording keeps.
LEMMA KeepPast ==
  ASSUME NEW b \in Nat, NEW q \in Seq(Items), NEW kept \in Seq(Items), AllPast(q, b), AllPast(kept, b),
         q # <<>>, NEW id
  PROVE  Keep(kept, Head(q), id) \in Seq(Items) /\ AllPast(Keep(kept, Head(q), id), b)
<1>1. Head(q) \in Items /\ Head(q).id <= b
  BY AllPastSeq
<1>2. QED
  BY <1>1, AllPastSeq DEF Keep

LEMMA CancelPast ==
  ASSUME TypeInv, LocksOwned, Newest, NEW b \in Nat, b = Begun, PastAt(b), NEW t \in Threads, CancelSteps(t)
  PROVE  PastAt(b)'
<1>0. OnlyMoves(t)
  BY CancelLocks DEF LockStep
<1>9. AllPast(loc[t].keptPartials, b) /\ AllPast(loc[t].keptFinals, b) /\ AllPast(partialQ, b) /\ AllPast(finalQ, b)
  BY DEF PastAt
<1>1. CASE CancelLock(t)
  BY <1>1, AcquirePast DEF CancelLock
<1>2. CASE CancelCheck(t)
  <2>1. UNCHANGED <<partialQ, finalQ, terminal, failing>> /\ pc[t] # "S2" /\ activeId <= b
    BY <1>2, ActivePast DEF CancelCheck, sessions, queues, control
  <2>2. CASE Leave(t)
    BY <2>1, <2>2, MovesIds, QuietPast DEF Leave
  <2>3. CASE ~Leave(t)
    <3>1. loc' = [loc EXCEPT ![t].id = activeId, ![t].running = recOn, ![t].note = sess[activeId].note]
      BY <1>2, <2>3 DEF CancelCheck
    <3>2. ActiveIn(t, activeId)
      BY <3>1, LocalsOf DEF ActiveIn, TypeInv, TypeOK, ThreadsOK, Locals
    <3>3. QED
      BY <1>0, <2>1, <3>2, ActiveInPast, SamePast, PastParts
  <2>4. QED
    BY <2>2, <2>3
<1>3. CASE CancelDelete(t) \/ CancelEnd(t)
  <2>1. SameIds(t)
    BY <1>3, MovesIds DEF CancelDelete, CancelEnd, Leave
  <2>2. QED
    BY <1>0, <1>3, <2>1, QuietPast DEF CancelDelete, CancelEnd, sessions, queues, control
<1>4. CASE CancelMark(t)
  <2>1. UNCHANGED <<partialQ, finalQ, failing>> /\ pc[t] = "C3" /\ SameIds(t)
    BY <1>4, MovesIds DEF CancelMark, queues, control
  <2>2. loc[t].id \in Ids /\ loc[t].id <= b
    BY <2>1 DEF TypeInv, HasId, Bound, PastAt
  <2>3. \A id \in terminal' \cup failing' : id <= b
    BY <1>4, <2>1, <2>2, RememberPast DEF CancelMark, PastAt
  <2>4. QED
    BY <1>0, <2>1, <2>3, SameIdsPast, SamePast, PastParts
<1>5. CASE CancelDrainPartials(t)
  <2>1. UNCHANGED <<finalQ, terminal, failing>> /\ pc[t] = "C4"
    BY <1>5 DEF CancelDrainPartials, sessions, control
  <2>2. CASE partialQ = <<>>
    BY <1>0, <1>5, <2>1, <2>2, MovesIds, QuietPast DEF CancelDrainPartials
  <2>3. CASE partialQ # <<>>
    <3> DEFINE kept == Keep(loc[t].keptPartials, Head(partialQ), loc[t].id)
    <3>1. AllPast(kept, b)
      BY <1>9, <2>3, KeepPast, QueueTypes
    <3>2. loc' = [loc EXCEPT ![t].keptPartials = kept] /\ partialQ' = Tail(partialQ)
      BY <1>5, <2>3 DEF CancelDrainPartials
    <3> HIDE DEF kept
    <3>3. PastIn(t, b)
      BY <2>1, <3>1, <3>2, LocalsOf DEF PastIn, PastAt, TypeInv, TypeOK, ThreadsOK, Locals
    <3>4. AllPast(partialQ, b)'
      BY <1>9, <2>3, <3>2, AllPastSeq, QueueTypes
    <3>5. QED
      BY <1>0, <2>1, <3>3, <3>4, SamePast, PastParts
  <2>4. QED
    BY <2>2, <2>3
<1>6. CASE CancelRestorePartials(t)
  <2>1. /\ UNCHANGED <<finalQ, terminal, failing>> /\ pc[t] = "C5"
        /\ partialQ' = partialQ \o loc[t].keptPartials
        /\ loc' = [loc EXCEPT ![t].keptPartials = <<>>]
    BY <1>6 DEF CancelRestorePartials, sessions, control
  <2>2. SameIds(t)
    BY <2>1, LocalsOf DEF SameIds, TypeInv, TypeOK, ThreadsOK, Locals
  <2>3. AllPast(partialQ, b)'
    BY <1>9, <2>1, AllPastSeq, QueueTypes
  <2>4. QED
    BY <1>0, <2>1, <2>2, <2>3, SameIdsPast, SamePast, PastParts
<1>7. CASE CancelDrainFinals(t)
  <2>1. UNCHANGED <<partialQ, terminal, failing>> /\ pc[t] = "C6"
    BY <1>7 DEF CancelDrainFinals, sessions, control
  <2>2. CASE finalQ = <<>>
    BY <1>0, <1>7, <2>1, <2>2, MovesIds, QuietPast DEF CancelDrainFinals
  <2>3. CASE finalQ # <<>>
    <3> DEFINE kept == Keep(loc[t].keptFinals, Head(finalQ), loc[t].id)
    <3>1. AllPast(kept, b)
      BY <1>9, <2>3, KeepPast, QueueTypes
    <3>2. loc' = [loc EXCEPT ![t].keptFinals = kept] /\ finalQ' = Tail(finalQ)
      BY <1>7, <2>3 DEF CancelDrainFinals
    <3> HIDE DEF kept
    <3>3. PastIn(t, b)
      BY <2>1, <3>1, <3>2, LocalsOf DEF PastIn, PastAt, TypeInv, TypeOK, ThreadsOK, Locals
    <3>4. AllPast(finalQ, b)'
      BY <1>9, <2>3, <3>2, AllPastSeq, QueueTypes
    <3>5. QED
      BY <1>0, <2>1, <3>3, <3>4, SamePast, PastParts
  <2>4. QED
    BY <2>2, <2>3
<1>8. CASE CancelRestoreFinals(t)
  <2>1. UNCHANGED <<partialQ, terminal, failing>> /\ pc[t] = "C7"
    BY <1>8 DEF CancelRestoreFinals, sessions, control
  <2>2. CASE loc[t].keptFinals = <<>>
    BY <1>0, <1>8, <2>1, <2>2, MovesIds, QuietPast DEF CancelRestoreFinals
  <2>3. CASE loc[t].keptFinals # <<>>
    <3> DEFINE kept == Tail(loc[t].keptFinals)
               head == Head(loc[t].keptFinals)
    <3>1. AllPast(kept, b) /\ head \in Items /\ head.id <= b
      BY <1>9, <2>3, AllPastSeq, QueueTypes
    <3>2. /\ loc' = [loc EXCEPT ![t].keptFinals = kept]
          /\ finalQ' = finalQ \/ finalQ' = Append(finalQ, head)
      BY <1>8, <2>3 DEF CancelRestoreFinals
    <3> HIDE DEF kept, head
    <3>3. PastIn(t, b)
      BY <2>1, <3>1, <3>2, LocalsOf DEF PastIn, PastAt, TypeInv, TypeOK, ThreadsOK, Locals
    <3>4. AllPast(finalQ, b)'
      <4>1. finalQ' = finalQ => AllPast(finalQ, b)'
        BY SamePast
      <4>2. finalQ' = Append(finalQ, head) => AllPast(finalQ, b)'
        BY <1>9, <3>1, AllPastSeq, QueueTypes
      <4>3. QED
        BY <3>2, <4>1, <4>2
    <3>5. QED
      BY <1>0, <2>1, <3>3, <3>4, SamePast, PastParts
  <2>4. QED
    BY <2>2, <2>3
<1>10. QED
  BY <1>1, <1>2, <1>3, <1>4, <1>5, <1>6, <1>7, <1>8 DEF CancelSteps

LEMMA FailPast ==
  ASSUME TypeInv, LocksOwned, Newest, NEW b \in Nat, b = Begun, PastAt(b), NEW t \in Threads, FailSteps(t)
  PROVE  PastAt(b)'
<1>0. OnlyMoves(t) /\ pc[t] # "S2" /\ loc[t].id \in Ids /\ loc[t].id <= b
  BY FailLocks DEF LockStep, FailSteps, FailCheck, FailRead, FailMark, FailEnd, TypeInv, HasId, Bound, PastAt
<1>1. SameIds(t)
  <2>1. CASE FailReturn(t) \/ UNCHANGED loc
    BY <2>1, MovesIds
  <2>2. CASE loc' = [loc EXCEPT ![t].failMode = ModeOf(loc[t].id), ![t].note = sess[loc[t].id].note]
    BY <2>2, LocalsOf DEF SameIds, TypeInv, TypeOK, ThreadsOK, Locals
  <2>3. CASE loc' = [loc EXCEPT ![t].active = (activeId = loc[t].id), ![t].running = recOn]
    BY <2>3, LocalsOf DEF SameIds, TypeInv, TypeOK, ThreadsOK, Locals
  <2>4. QED
    BY <2>1, <2>2, <2>3 DEF FailSteps, FailCheck, FailRead, FailMark, FailEnd
<1>2. UNCHANGED queues
  BY DEF FailSteps, FailCheck, FailRead, FailMark, FailEnd
<1>3. (\A id \in terminal' : id <= b) /\ failing' \subseteq failing \cup {loc[t].id}
  <2>1. CASE FailMark(t)
    BY <1>0, <2>1, RememberPast DEF FailMark, control
  <2>2. CASE ~FailMark(t)
    <3>1. UNCHANGED terminal /\ failing' \subseteq failing \cup {loc[t].id}
      BY <2>2 DEF FailSteps, FailCheck, FailRead, FailEnd, sessions, control
    <3>2. QED
      BY <3>1 DEF PastAt
  <2>3. QED
    BY <2>1, <2>2
<1>4. \A id \in terminal' \cup failing' : id <= b
  BY <1>0, <1>3 DEF PastAt
<1>5. QED
  BY <1>0, <1>1, <1>2, <1>4, SameIdsPast, SamePast, PastParts DEF queues

LEMMA CleanupPast ==
  ASSUME TypeInv, LocksOwned, Newest, NEW b \in Nat, b = Begun, PastAt(b), CleanupSteps
  PROVE  PastAt(b)'
<1> DEFINE t == "cleaner"
<1>0. t \in Threads /\ OnlyMoves(t) /\ pc[t] # "S2"
  BY CleanupLocks, WorkersAreThreads DEF LockStep, CleanupSteps, CleanupLock, CleanupStop, CleanupEnd
<1>1. CASE CleanupLock
  <2>1. UNCHANGED <<partialQ, finalQ, terminal>> /\ failing' \subseteq failing
    BY <1>1 DEF CleanupLock, sessions, queues
  <2>2. PICK id \in failing : loc' = [loc EXCEPT !["cleaner"].id = id]
    BY <1>1 DEF CleanupLock
  <2>3. ActiveIn(t, id) /\ id <= b
    BY <1>0, <2>2, LocalsOf DEF ActiveIn, TypeInv, TypeOK, ThreadsOK, Locals, PastAt
  <2>4. \A i \in terminal' \cup failing' : i <= b
    BY <2>1 DEF PastAt
  <2>5. QED
    BY <1>0, <2>1, <2>3, <2>4, ActiveInPast, SamePast, PastParts
<1>2. CASE CleanupStop \/ CleanupEnd
  <2>1. SameIds(t) /\ UNCHANGED <<partialQ, finalQ, terminal, failing>>
    BY <1>0, <1>2, MovesIds DEF CleanupStop, CleanupEnd, Leave, queues, control
  <2>2. QED
    BY <1>0, <2>1, QuietPast
<1>3. QED
  BY <1>1, <1>2 DEF CleanupSteps

LEMMA WorkerPast ==
  ASSUME TypeInv, LocksOwned, Newest, NEW b \in Nat, b = Begun, PastAt(b), WorkerSteps
  PROVE  PastAt(b)'
<1> DEFINE t == "worker"
<1>0. t \in Threads /\ OnlyMoves(t) /\ pc[t] # "S2"
  BY WorkerOnly, WorkersAreThreads DEF Looping
<1>9. AllPast(partialQ, b) /\ AllPast(finalQ, b)
  BY DEF PastAt
<1>1. ASSUME NEW final, NEW q \in Seq(Items), q # <<>>, AllPast(q, b), TakeChunk(final, Head(q))
      PROVE  PastIn(t, b) /\ AllPast(Tail(q), b)
  <2>1. Head(q).id <= b /\ AllPast(Tail(q), b)
    BY <1>1, AllPastSeq
  <2>2. ActiveIn(t, Head(q).id)
    BY <1>0, <1>1, LocalsOf DEF TakeChunk, ActiveIn, TypeInv, TypeOK, ThreadsOK, Locals
  <2>3. QED
    BY <1>0, <2>1, <2>2, ActiveInPast
<1>2. CASE TakePartial
  <2>1. UNCHANGED <<finalQ, terminal, failing>>
    BY <1>2 DEF TakePartial, sessions, control
  <2>2. CASE UNCHANGED <<loc, partialQ>>
    BY <1>0, <2>1, <2>2, MovesIds, QuietPast
  <2>3. CASE partialQ # <<>> /\ TakeChunk(FALSE, Head(partialQ)) /\ partialQ' = Tail(partialQ)
    <3>1. PastIn(t, b) /\ AllPast(partialQ, b)'
      BY <1>1, <1>9, <2>3, QueueTypes DEF AllPast
    <3>2. QED
      BY <1>0, <2>1, <3>1, SamePast, PastParts
  <2>4. QED
    BY <1>2, <2>2, <2>3 DEF TakePartial
<1>3. CASE TakeFinal
  <2>1. UNCHANGED <<partialQ, terminal, failing>>
    BY <1>3 DEF TakeFinal, sessions, control
  <2>2. CASE UNCHANGED <<loc, finalQ>>
    BY <1>0, <2>1, <2>2, MovesIds, QuietPast
  <2>3. CASE finalQ # <<>> /\ TakeChunk(TRUE, Head(finalQ)) /\ finalQ' = Tail(finalQ)
    <3>1. PastIn(t, b) /\ AllPast(finalQ, b)'
      BY <1>1, <1>9, <2>3, QueueTypes DEF AllPast
    <3>2. QED
      BY <1>0, <2>1, <3>1, SamePast, PastParts
  <2>4. CASE finalQ # <<>> /\ UNCHANGED loc /\ finalQ' = Tail(finalQ)
    <3>1. AllPast(finalQ, b)' /\ SameIds(t)
      BY <1>0, <1>9, <2>4, QueueTypes, AllPastSeq, MovesIds
    <3>2. QED
      BY <1>0, <2>1, <3>1, SameIdsPast, SamePast, PastParts
  <2>5. QED
    BY <1>3, <2>2, <2>3, <2>4 DEF TakeFinal
<1>4. CASE SessionComplete
  <2>1. UNCHANGED <<partialQ, finalQ, failing>> /\ pc[t] = "E3"
    BY <1>4 DEF SessionComplete, queues, control
  <2>2. SameIds(t)
    BY <1>0, <1>4, LocalsOf DEF SessionComplete, SameIds, TypeInv, TypeOK, ThreadsOK, Locals
  <2>3. loc[t].id \in Ids /\ loc[t].id <= b
    BY <1>0, <2>1 DEF TypeInv, HasId, Bound, PastAt
  <2>4. \A id \in terminal' \cup failing' : id <= b
    BY <1>4, <2>1, <2>3, RememberPast DEF SessionComplete, PastAt
  <2>5. QED
    BY <1>0, <2>1, <2>2, <2>4, SameIdsPast, SamePast, PastParts
<1>5. CASE Handle \/ DecodeStart \/ DecodeEnd \/ RecordGuard \/ RecordSegment \/ RecordPart
             \/ SessionEmpty \/ SessionType \/ SessionSave
  <2>1. UNCHANGED <<partialQ, finalQ, terminal, failing>>
    BY <1>5 DEF Handle, DecodeStart, DecodeEnd, RecordGuard, RecordSegment, RecordPart,
       SessionEmpty, SessionType, SessionSave, sessions, queues, control
  <2>2. UNCHANGED loc \/ Loop(t) \/ \E hard, ret : Fail(t, loc[t].id, hard, ret)
    BY <1>5 DEF Handle, HandleEmpty, DecodeStart, DecodeEnd, RecordGuard, RecordSegment, RecordPart,
       SessionEmpty, SessionType, SessionSave, GiveUp
  <2>3. SameIds(t)
    BY <1>0, <2>2, MovesIds
  <2>4. QED
    BY <1>0, <2>1, <2>3, QuietPast
<1>6. CASE SessionCheck
  <2>1. UNCHANGED <<partialQ, finalQ, terminal, failing>>
    BY <1>6 DEF SessionCheck, queues, control
  <2>2. SameIds(t)
    <3>1. CASE Loop(t)
      BY <1>0, <3>1, MovesIds
    <3>2. CASE ~Loop(t)
      BY <1>0, <1>6, <3>2, LocalsOf DEF SessionCheck, SameIds, TypeInv, TypeOK, ThreadsOK, Locals
    <3>3. QED
      BY <3>1, <3>2
  <2>3. QED
    BY <1>0, <2>1, <2>2, QuietPast
<1>7. QED
  BY <1>2, <1>3, <1>4, <1>5, <1>6 DEF WorkerSteps

LEMMA ShutdownPast ==
  ASSUME TypeInv, LocksOwned, Newest, NEW b \in Nat, b = Begun, PastAt(b), ShutdownSteps
  PROVE  PastAt(b)'
<1> DEFINE t == "tray"
<1>0. t \in Threads /\ OnlyMoves(t) /\ pc[t] # "S2"
  BY ShutdownLocks, WorkersAreThreads DEF LockStep, ShutdownSteps, ShutdownHotkey, ShutdownQueue
<1>1. CASE ShutdownHotkey
  BY <1>0, <1>1, MovesIds, QuietPast DEF ShutdownHotkey, sessions, queues, Rest
<1>2. CASE ShutdownQueue
  <2>1. UNCHANGED <<terminal, failing>> /\ partialQ' = <<>> /\ loc'[t] = NoLocals
    BY <1>0, <1>2 DEF ShutdownQueue, sessions, control, TypeInv, TypeOK, ThreadsOK
  <2>2. AllPast(partialQ, b)'
    BY <2>1 DEF AllPast
  <2>3. AllPast(finalQ, b)'
    <3>1. StopSignal \in Items /\ StopSignal.id <= b
      BY DEF Items, StopSignal, NoId
    <3>2. finalQ' = Append(finalQ, StopSignal) \/ finalQ' = Append(<<>>, StopSignal)
      BY <1>2 DEF ShutdownQueue
    <3>3. finalQ \in Seq(Items) /\ AllPast(finalQ, b) /\ <<>> \in Seq(Items) /\ AllPast(<<>>, b)
      BY QueueTypes, AllPastSeq DEF PastAt
    <3>4. finalQ' = Append(finalQ, StopSignal) => AllPast(finalQ, b)'
      BY <3>1, <3>3, AllPastSeq
    <3>5. finalQ' = Append(<<>>, StopSignal) => AllPast(finalQ, b)'
      BY <3>1 DEF AllPast
    <3>6. QED
      BY <3>2, <3>4, <3>5
  <2>4. QED
    BY <1>0, <2>1, <2>2, <2>3, ReturnPast, SamePast, PastParts
<1>3. QED
  BY <1>1, <1>2 DEF ShutdownSteps

LEMMA UserPast ==
  ASSUME TypeInv, LocksOwned, Newest, NEW b \in Nat, b = Begun, PastAt(b), User
  PROVE  PastAt(b)'
<1>1. UNCHANGED <<partialQ, finalQ, terminal, failing>>
  BY DEF User, Press, Release, NoteRequest, Silence, Deactivate, Activate, SetCombo, SwitchModel,
     Shutdown, Rest, sessions, queues, control
<1>2. CASE UNCHANGED threads
  BY <1>1, <1>2 DEF PastAt, AllPast, threads
<1>3. CASE ~UNCHANGED threads
  <2>1. PICK t \in Threads : pc[t] = "idle" /\ OnlyMoves(t) /\ pc'[t] \in Outside
    BY <1>3, UserOnly
  <2>2. SameIds(t)
    <3>1. \/ UNCHANGED loc
          \/ \E u, mode : loc' = [loc EXCEPT ![u].mode = mode]
          \/ loc' = [loc EXCEPT !["tray"].back = "D1"]
      BY DEF User, Press, Release, OnRelease, NoteRequest, Silence, Deactivate, Activate, SetCombo,
         SwitchModel, Shutdown, Begin, threads
    <3>2. ASSUME NEW u, NEW mode, loc' = [loc EXCEPT ![u].mode = mode] PROVE SameIds(t)
      BY <3>2, LocalsOf DEF SameIds, TypeInv, TypeOK, ThreadsOK, Locals
    <3>3. CASE loc' = [loc EXCEPT !["tray"].back = "D1"]
      BY <3>3, LocalsOf DEF SameIds, TypeInv, TypeOK, ThreadsOK, Locals
    <3>4. QED
      BY <3>1, <3>2, <3>3 DEF SameIds
  <2>3. QED
    BY <1>1, <2>1, <2>2, QuietPast
<1>4. QED
  BY <1>2, <1>3

LEMMA StepPast ==
  ASSUME TypeInv, LocksOwned, Newest, NEW b \in Nat, b = Begun, PastAt(b), NEW t \in Threads, Step(t)
  PROVE  PastAt(b)'
  BY StartPast, FinalizePast, PausePast, ResumePast, StopPast, CancelPast, FailPast, CleanupPast,
     WorkerPast, ShutdownPast DEF Step

\* What a step does to the capture, but for the starts: the microphone is only
\* switched off, the pause only ended, and the active recording only taken away,
\* by a thread that works on it.
LEMMA CaptureFrame ==
  ASSUME TypeInv, NEW t \in Threads, Step(t), ~StartCheck(t), ~StartCapture(t), ~Resume(t)
  PROVE  /\ gen' = gen /\ caps' = caps /\ recOn' \in {recOn, FALSE}
         /\ PauseEnd(t) \/ paused' \in {paused, FALSE}
         /\ \/ activeId' = activeId
            \/ activeId' = NoId /\ loc[t].id = activeId /\ pc[t] \in {"Z2", "Z3", "T4", "C8", "F4", "X2"}
<1>1. CASE StartSteps(t)
  BY <1>1 DEF StartSteps, StartLock, Acquire, capture
<1>2. CASE FinalizeSteps(t)
  <2>1. CASE FinalizeStop(t)
    BY <2>1 DEF FinalizeStop
  <2>2. QED
    BY <1>2, <2>1 DEF FinalizeSteps, FinalizeLock, FinalizeQueue, FinalizeEnd, FinalizeFailed, Acquire, capture,
       Current
<1>3. CASE PauseSteps(t) \/ ResumeSteps(t) \/ StartNote(t) \/ Toggle(t)
  BY <1>3 DEF PauseSteps, PauseLock, PauseStop, PauseQueue, PauseEnd, ResumeSteps, ResumeLock,
     StartNote, Toggle, Acquire, capture
<1>4. CASE StopSteps(t)
  BY <1>4 DEF StopSteps, StopLock, StopCheck, StopPaused, StopQueue, StopEnd, Acquire, capture
<1>5. CASE CancelSteps(t)
  BY <1>5 DEF CancelSteps, CancelLock, CancelCheck, CancelDelete, CancelMark, CancelDrainPartials,
     CancelRestorePartials, CancelDrainFinals, CancelRestoreFinals, CancelEnd, CancelRecorder, Acquire, capture
<1>6. CASE FailSteps(t)
  BY <1>6 DEF FailSteps, FailCheck, FailRead, FailMark, FailEnd, capture
<1>7. CASE (t = "cleaner" /\ CleanupSteps) \/ (t = "tray" /\ ShutdownSteps)
  BY <1>7 DEF CleanupSteps, CleanupLock, CleanupStop, CleanupEnd, ShutdownSteps, ShutdownHotkey,
     ShutdownQueue, capture
<1>8. CASE t = "worker" /\ WorkerSteps
  BY <1>8 DEF WorkerSteps, TakePartial, TakeFinal, Handle, DecodeStart,
     DecodeEnd, RecordGuard, RecordSegment, RecordPart, SessionCheck, SessionEmpty,
     SessionComplete, SessionType, SessionSave, capture
<1>9. QED
  BY <1>1, <1>2, <1>3, <1>4, <1>5, <1>6, <1>7, <1>8 DEF Step

\* What a step does to a session, but for its start: its fields are kept or reset,
\* and only the worker adds a part.
LEMMA SessionFrame ==
  ASSUME TypeInv, NEW t \in Threads, Step(t), NEW id \in Ids, ~(StartCapture(t) /\ loc[t].id = id)
  PROVE  /\ sess'[id].mode \in {sess[id].mode, "none"} /\ sess'[id].stt \in {sess[id].stt, 0}
         /\ (sess'[id].open => sess[id].open) /\ (sess'[id].note => sess[id].note)
         /\ ~(t = "worker" /\ RecordPart) =>
              \/ sess'[id].open = sess[id].open /\ sess'[id].parts = sess[id].parts
              \/ ~sess'[id].open /\ sess'[id].parts = <<>>
<1> DEFINE Kept == /\ sess'[id].mode \in {sess[id].mode, "none"} /\ sess'[id].stt \in {sess[id].stt, 0}
                   /\ (sess'[id].open => sess[id].open) /\ (sess'[id].note => sess[id].note)
           Held == \/ sess'[id].open = sess[id].open /\ sess'[id].parts = sess[id].parts
                   \/ ~sess'[id].open /\ sess'[id].parts = <<>>
<1>0. sess \in [Ids -> Sessions] /\ sess[id] \in Sessions
  BY DEF TypeInv, TypeOK, SessionsOK
<1>1. (\E gone : sess' = Cleared(sess, gone)) \/ UNCHANGED sess => Kept /\ Held
  BY <1>0 DEF Cleared, NoSession
<1>2. CASE StartSteps(t)
  <2>1. CASE StartCapture(t)
    <3>1. \/ \E session : sess' = [sess EXCEPT ![loc[t].id] = session]
          \/ sess' = Cleared(sess, loc[t].id)
      BY <2>1 DEF StartCapture
    <3>2. QED
      BY <1>0, <1>1, <2>1, <3>1
  <2>2. QED
    BY <1>1, <1>2, <2>1 DEF StartSteps, StartLock, StartCheck, Acquire, sessions
<1>3. CASE FinalizeSteps(t) \/ PauseSteps(t) \/ ResumeSteps(t) \/ StartNote(t) \/ Toggle(t) \/ StopSteps(t)
  BY <1>1, <1>3 DEF FinalizeSteps, FinalizeLock, FinalizeStop, FinalizeQueue, FinalizeEnd, FinalizeFailed,
     PauseSteps, PauseLock, PauseStop, PauseQueue, PauseEnd, ResumeSteps, ResumeLock,
     Resume, StartNote, Toggle, StopSteps, StopLock, StopCheck, StopPaused, StopQueue, StopEnd, Acquire, sessions
<1>4. CASE CancelSteps(t)
  BY <1>1, <1>4 DEF CancelSteps, CancelLock, CancelCheck, CancelDelete, CancelMark, CancelDrainPartials,
     CancelRestorePartials, CancelDrainFinals, CancelRestoreFinals, CancelEnd, Acquire, sessions
<1>5. CASE FailSteps(t)
  <2>1. CASE FailCheck(t)
    <3>1. UNCHANGED sess \/ sess' = [sess EXCEPT ![loc[t].id].note = FALSE]
      BY <2>1 DEF FailCheck
    <3>2. sess'[id] \in {sess[id], [sess[id] EXCEPT !.note = FALSE]}
      BY <1>0, <3>1
    <3>3. QED
      BY <1>0, <3>2 DEF Sessions
  <2>2. CASE FailMark(t)
    <3>1. CASE loc[t].active
      BY <1>0, <2>2, <3>1 DEF FailMark, Sessions
    <3>2. CASE ~loc[t].active
      BY <1>1, <2>2, <3>2 DEF FailMark
    <3>3. QED
      BY <3>1, <3>2
  <2>3. CASE FailRead(t) \/ FailEnd(t)
    BY <1>1, <2>3 DEF FailRead, FailEnd, sessions
  <2>4. QED
    BY <1>5, <2>1, <2>2, <2>3 DEF FailSteps
<1>6. CASE (t = "cleaner" /\ CleanupSteps) \/ (t = "tray" /\ ShutdownSteps)
  BY <1>1, <1>6 DEF CleanupSteps, CleanupLock, CleanupStop, CleanupEnd, ShutdownSteps,
     ShutdownHotkey, ShutdownQueue, sessions
<1>7. CASE t = "worker" /\ WorkerSteps
  <2>1. CASE RecordPart
    BY <1>0, <1>7, <2>1 DEF RecordPart, Sessions
  <2>2. CASE ~RecordPart
    BY <1>1, <1>7, <2>2 DEF WorkerSteps, TakePartial, TakeFinal, Handle, DecodeStart,
       DecodeEnd, RecordGuard, RecordSegment, SessionCheck, SessionEmpty,
       SessionComplete, SessionType, SessionSave, sessions
  <2>3. QED
    BY <2>1, <2>2
<1>8. QED
  BY <1>2, <1>3, <1>4, <1>5, <1>6, <1>7 DEF Step

\* The id counter and the active recording, but for a start.
LEMMA StepActive ==
  ASSUME TypeInv, NEW t \in Threads, Step(t), ~StartCheck(t)
  PROVE  gen' = gen /\ activeId' \in {activeId, NoId}
  BY CaptureFrame DEF StartCapture, Resume

\* Who is at the start of a recording, and the last id.
LEMMA NewestKept ==
  ASSUME TypeInv, LocksOwned, Newest, NEW t \in Threads, Step(t)
  PROVE  Newest' /\ Begun' >= Begun
<1>0. OnlyMoves(t) /\ gen \in Nat /\ activeId \in Nat
  BY StepLocks, IdsType DEF LockStep, TypeInv, TypeOK, CaptureOK
<1> DEFINE label == pc'[t]
<1>3. label = "S2" => StartCheck(t)
  BY StepLabels
<1>4. pc'[t] = label
  OBVIOUS
<1>1. CASE label = "S2"
  <2>1. pc[t] = "S1" /\ RecFree(t) /\ StartCheck(t)
    BY <1>1, <1>3 DEF StartCheck
  <2>2. \A u \in Threads : pc[u] # "S2"
    BY <2>1, FreeIsNoThread DEF LocksOwned, RecOwned, RecFree
  <2>3. ~Leave(t)
    BY <1>1, <1>4, ReturnOnly DEF Leave
  <2>4. gen' = gen + 1 /\ activeId' = gen + 1 /\ loc' = [loc EXCEPT ![t].id = gen + 1]
    BY <2>1, <2>3 DEF StartCheck
  <2>5. loc'[t].id = gen + 1
    BY <2>4, LocalsOf DEF TypeInv, TypeOK, ThreadsOK, Locals
  <2>6. Newest'
    BY <1>0, <1>4, <2>2, <2>4, <2>5 DEF Newest, OnlyMoves
  <2>7. Begun = gen /\ Begun' = gen' - 1
    BY <1>1, <1>4, <2>2 DEF Begun
  <2>8. QED
    BY <1>0, <2>4, <2>6, <2>7
<1>2. CASE label # "S2"
  <2>1. gen' = gen /\ activeId' \in {activeId, NoId}
    <3>1. CASE StartCheck(t)
      BY <1>2, <1>3, <1>4, <3>1 DEF StartCheck, Goto, TypeInv, TypeOK, ThreadsOK
    <3>2. QED
      BY <3>1, StepActive
  <2>2. Newest'
    BY <1>0, <1>2, <1>4, <2>1 DEF Newest, OnlyMoves, NoId
  <2>3. (\E u \in Threads : pc'[u] = "S2") => \E u \in Threads : pc[u] = "S2"
    BY <1>0, <1>2, <1>4 DEF OnlyMoves
  <2>4. QED
    BY <1>0, <2>1, <2>2, <2>3 DEF Begun
<1>5. QED
  BY <1>1, <1>2

LEMMA InitPast == Init => PastInv
<1> SUFFICES ASSUME Init PROVE PastInv
  OBVIOUS
<1>1. /\ gen = 0 /\ activeId = 0 /\ partialQ = <<>> /\ finalQ = <<>> /\ terminal \cup failing = {}
      /\ \A t \in Threads : pc[t] # "S2" /\ loc[t] = NoLocals
  BY DEF Init, NoId
<1>2. Begun = 0
  BY <1>1 DEF Begun
<1>3. \A t \in Threads : /\ loc[t].id <= 0
                         /\ AllPast(loc[t].keptPartials, 0) /\ AllPast(loc[t].keptFinals, 0)
  BY <1>1 DEF NoLocals, NoId, AllPast
<1>4. QED
  BY <1>1, <1>2, <1>3 DEF PastInv, Newest, PastAt, AllPast

LEMMA NextPast == TypeInv /\ LocksOwned /\ PastInv /\ [Next]_vars => PastInv'
<1> SUFFICES ASSUME TypeInv, LocksOwned, PastInv, [Next]_vars PROVE PastInv'
  OBVIOUS
<1>0. TypeInv' /\ Newest
  BY NextType DEF PastInv
<1>1. PICK b \in Nat : b = Begun
  BY <1>0, BegunType
<1>2. PastAt(b)
  BY <1>1 DEF PastInv
<1>3. ASSUME NEW t \in Threads, Step(t) PROVE PastInv'
  <2>1. PastAt(b)'
    BY <1>0, <1>1, <1>2, <1>3, StepPast
  <2>2. Newest' /\ Begun' >= b
    BY <1>0, <1>1, <1>3, NewestKept
  <2>3. Begun' \in Nat
    <3>1. (TypeInv /\ Newest => Begun \in Nat)'
      BY BegunNat, PTL
    <3>2. QED
      BY <1>0, <2>2, <3>1
  <2>4. PastAt(Begun)'
    <3>1. (\A c, d \in Nat : TypeInv /\ c <= d /\ PastAt(c) => PastAt(d))'
      BY PastGrowsOn, PTL
    <3>2. QED
      BY <1>0, <2>1, <2>2, <2>3, <3>1
  <2>5. QED
    BY <2>2, <2>4 DEF PastInv
<1>4. CASE User
  <2>1. PastAt(b)' /\ UNCHANGED <<gen, activeId>>
    BY <1>0, <1>1, <1>2, <1>4, UserPast DEF User, Press, Release, NoteRequest, Silence, Deactivate,
       Activate, SetCombo, SwitchModel, Shutdown, capture
  <2>2. \A u \in Threads : pc'[u] = "S2" => pc[u] = "S2" /\ loc'[u] = loc[u]
    BY <1>4, UserOnly DEF OnlyMoves, Outside, threads
  <2>3. \A u \in Threads : pc[u] = "S2" => pc'[u] = "S2"
    BY <1>4, UserOnly DEF OnlyMoves, Outside, threads
  <2>4. Begun' = Begun
    BY <2>1, <2>2, <2>3 DEF Begun
  <2>5. Newest'
    BY <1>0, <2>1, <2>2 DEF Newest
  <2>6. QED
    BY <1>1, <2>1, <2>4, <2>5 DEF PastInv
<1>5. CASE UNCHANGED vars
  <2>1. UNCHANGED <<pc, loc, gen, activeId, partialQ, finalQ, terminal, failing>>
    BY <1>5 DEF vars, threads, capture, queues, sessions, control
  <2>2. QED
    BY <2>1 DEF PastInv, Newest, PastAt, Begun, AllPast
<1>6. QED
  BY <1>3, <1>4, <1>5 DEF Next, Resting

-----------------------------------------------------------------------------
(* The bounds of the queues and of the terminal cache *)

LEMMA LenTypes ==
  ASSUME TypeInv
  PROVE  /\ Len(partialQ) \in Nat /\ Len(finalQ) \in Nat /\ Len(termOrder) \in Nat
         /\ \A t \in Threads : Len(loc[t].keptPartials) \in Nat
  BY QueueTypes DEF TypeInv, TypeOK, SessionsOK

LEMMA MemStepKeeps ==
  ASSUME TypeInv, TypeInv', LocksOwned, MemInv, NEW t \in Threads, OnlyMoves(t), MemStep(t)
  PROVE  MemInv'
<1>1. ASSUME NEW u \in Threads PROVE KeptOK(u)'
  <2>1. CASE u = t
    BY <2>1 DEF MemStep
  <2>2. CASE u # t
    <3>1. pc'[u] = pc[u] /\ loc'[u] = loc[u] /\ KeptOK(u)
      BY <2>2 DEF OnlyMoves, MemInv, KeptFits, KeptOK
    <3>2. pc[u] \in Purging => Len(partialQ') <= Len(partialQ)
      BY <2>2, FreeIsNoThread DEF MemStep, LocksOwned, CtlOwned, Holds, Inside, Purging
    <3>3. Len(partialQ) \in Nat /\ Len(loc[u].keptPartials) \in Nat /\ Len(partialQ') \in Nat
      BY LenTypes DEF TypeInv, TypeOK, QueuesOK
    <3>4. PartialCap \in Nat
      BY BoundsAssumption
    <3>5. QED
      BY <3>1, <3>2, <3>3, <3>4 DEF KeptOK
  <2>3. QED
    BY <2>1, <2>2
<1>2. KeptFits'
  BY <1>1 DEF KeptFits, KeptOK
<1>3. BoundedMemory'
  BY DEF BoundedMemory, MemStep, CacheOK
<1>4. QED
  BY <1>2, <1>3 DEF MemInv

\* The cache drops its oldest entry, and the id with its last entry.
LEMMA RememberCache ==
  ASSUME TypeInv, CacheOK, NEW id \in Ids, Remember(id)
  PROVE  CacheOK'
<1> DEFINE order == Append(termOrder, id)
           full  == Len(order) > TerminalCap
           kept  == IF full THEN Tail(order) ELSE order
           gone  == IF full /\ \A i \in DOMAIN kept : kept[i] # Head(order)
                    THEN {Head(order)} ELSE {}
<1>1. termOrder' = kept /\ terminal' = (terminal \cup {id}) \ gone
  BY DEF Remember
<1>2. termOrder \in Seq(Ids) /\ Len(termOrder) <= TerminalCap /\ TerminalCap \in Nat
  BY BoundsAssumption DEF TypeInv, TypeOK, SessionsOK, CacheOK, TerminalCap
<1>3. order \in Seq(Ids) /\ Len(order) = Len(termOrder) + 1 /\ Len(order) >= 1
  BY <1>2
<1>4. {order[i] : i \in DOMAIN order} = terminal \cup {id}
  <2>1. \A i \in 1..Len(termOrder) : order[i] = termOrder[i]
    BY <1>2
  <2>2. order[Len(termOrder) + 1] = id
    BY <1>2
  <2>3. DOMAIN order = 1..(Len(termOrder) + 1) /\ DOMAIN termOrder = 1..Len(termOrder)
    BY <1>2
  <2> HIDE DEF order
  <2>4. \A i \in DOMAIN order : order[i] \in terminal \cup {id}
    BY <1>2, <2>1, <2>2, <2>3 DEF CacheOK
  <2>5. \A x \in terminal \cup {id} : \E i \in DOMAIN order : order[i] = x
    BY <1>2, <2>1, <2>2, <2>3 DEF CacheOK
  <2>6. QED
    BY <2>4, <2>5
<1> HIDE DEF order
<1>5. CASE ~full
  BY <1>1, <1>2, <1>3, <1>4, <1>5 DEF CacheOK
<1>6. CASE full
  <2>1. kept = Tail(order) /\ Len(kept) = Len(order) - 1 /\ Len(kept) <= TerminalCap
    BY <1>2, <1>3, <1>6
  <2>2. DOMAIN kept = 1..(Len(order) - 1) /\ \A i \in DOMAIN kept : kept[i] = order[i + 1]
    BY <1>3, <2>1
  <2>3. DOMAIN order = 1..Len(order) /\ Head(order) = order[1]
    BY <1>3
  <2>4. gone = IF \A i \in DOMAIN kept : kept[i] # order[1] THEN {order[1]} ELSE {}
    BY <1>6, <2>3
  <2> HIDE DEF kept, gone
  <2>5. \A i \in DOMAIN kept : kept[i] \in (terminal \cup {id}) \ gone
    BY <1>3, <1>4, <2>2, <2>3, <2>4
  <2>6. \A x \in (terminal \cup {id}) \ gone : \E i \in DOMAIN kept : kept[i] = x
    <3>1. SUFFICES ASSUME NEW x \in (terminal \cup {id}) \ gone
                   PROVE  \E i \in DOMAIN kept : kept[i] = x
      OBVIOUS
    <3>2. PICK j \in DOMAIN order : order[j] = x
      BY <1>4, <3>1
    <3>3. CASE j = 1
      BY <2>4, <3>1, <3>2, <3>3
    <3>4. CASE j # 1
      <4>1. j - 1 \in DOMAIN kept /\ kept[j - 1] = x
        BY <1>3, <2>2, <2>3, <3>2, <3>4
      <4>2. QED
        BY <4>1
    <3>5. QED
      BY <3>3, <3>4
  <2>7. QED
    BY <1>1, <2>1, <2>5, <2>6 DEF CacheOK
<1>7. QED
  BY <1>5, <1>6

\* Only the purge keeps chunks of the partial queue.
LEMMA KeptStays ==
  ASSUME TypeInv, NEW t \in Threads, Step(t), ~CancelDrainPartials(t)
  PROVE  /\ loc'[t].keptPartials \in {loc[t].keptPartials, <<>>}
         /\ \/ CancelDrainFinals(t) \/ CancelRestoreFinals(t)
            \/ loc'[t].keptFinals \in {loc[t].keptFinals, <<>>}
<1> DEFINE Stays1 == /\ loc'[t].keptPartials \in {loc[t].keptPartials, <<>>}
                     /\ \/ CancelDrainFinals(t) \/ CancelRestoreFinals(t)
                        \/ loc'[t].keptFinals \in {loc[t].keptFinals, <<>>}
<1>2. SameIds(t) => Stays1
  BY DEF SameIds
<1>3. CASE StartSteps(t)
  <2>1. CASE UNCHANGED loc \/ Return(t)
    BY <1>2, <2>1, MovesIds
  <2>2. CASE loc' = [loc EXCEPT ![t].id = gen + 1]
    BY <2>2, LocalsOf DEF TypeInv, TypeOK, ThreadsOK, Locals
  <2>3. QED
    BY <1>3, <2>1, <2>2 DEF StartSteps, StartLock, StartCheck, StartCapture, Acquire, Leave
<1>4. CASE FinalizeSteps(t)
  <2>1. CASE UNCHANGED loc \/ Return(t)
    BY <1>2, <2>1, MovesIds
  <2>2. ASSUME NEW audio, loc' = [loc EXCEPT ![t].id = activeId, ![t].mode = ModeOf(activeId), ![t].captures = audio]
        PROVE  Stays1
    BY <2>2, LocalsOf DEF TypeInv, TypeOK, ThreadsOK, Locals
  <2>3. CASE loc' = [loc EXCEPT ![t].id = activeId, ![t].mode = ModeOf(activeId),
                                ![t].hard = TRUE, ![t].ret = "Z4"]
    BY <2>3, LocalsOf DEF TypeInv, TypeOK, ThreadsOK, Locals
  <2>4. ASSUME NEW hard, NEW ret, Fail(t, loc[t].id, hard, ret) PROVE Stays1
    BY <1>2, <2>4, MovesIds
  <2>5. QED
    BY <1>4, <2>1, <2>2, <2>3, <2>4 DEF FinalizeSteps, FinalizeLock, FinalizeStop, FinalizeQueue,
       FinalizeEnd, FinalizeFailed, Acquire, Leave
<1>5. CASE PauseSteps(t) \/ ResumeSteps(t) \/ StartNote(t) \/ Toggle(t)
  <2>1. CASE UNCHANGED loc \/ Return(t) \/ \E label, mode : Begin(t, label, mode)
    BY <1>2, <2>1, MovesIds
  <2>2. ASSUME NEW audio, loc' = [loc EXCEPT ![t].id = activeId, ![t].captures = audio] PROVE Stays1
    BY <2>2, LocalsOf DEF TypeInv, TypeOK, ThreadsOK, Locals
  <2>3. QED
    BY <1>5, <2>1, <2>2 DEF PauseSteps, PauseLock, PauseStop, PauseQueue, PauseEnd, ResumeSteps,
       ResumeLock, Resume, StartNote, Toggle, Acquire, Leave
<1>6. CASE StopSteps(t)
  <2>1. CASE UNCHANGED loc \/ Return(t) \/ \E hard, ret : Fail(t, loc[t].id, hard, ret)
    BY <1>2, <2>1, MovesIds
  <2>2. CASE loc' = [loc EXCEPT ![t].id = activeId]
    BY <2>2, LocalsOf DEF TypeInv, TypeOK, ThreadsOK, Locals
  <2>3. QED
    BY <1>6, <2>1, <2>2 DEF StopSteps, StopLock, StopCheck, StopPaused, StopOvertaken, StopQueue,
       StopEnd, Acquire
<1>7. CASE CancelSteps(t)
  <2>1. CASE UNCHANGED loc \/ Return(t)
    BY <1>2, <2>1, MovesIds
  <2>2. CASE loc' = [loc EXCEPT ![t].id = activeId, ![t].running = recOn, ![t].note = sess[activeId].note]
    BY <2>2, LocalsOf DEF TypeInv, TypeOK, ThreadsOK, Locals
  <2>3. CASE loc' = [loc EXCEPT ![t].keptPartials = <<>>]
    BY <2>3, LocalsOf DEF TypeInv, TypeOK, ThreadsOK, Locals
  <2>4. ASSUME NEW kept, loc' = [loc EXCEPT ![t].keptFinals = kept]
        PROVE  loc'[t].keptPartials = loc[t].keptPartials
    BY <2>4, LocalsOf DEF TypeInv, TypeOK, ThreadsOK, Locals
  <2>5. CASE CancelDrainFinals(t) \/ CancelRestoreFinals(t)
    <3>1. UNCHANGED loc \/ \E kept : loc' = [loc EXCEPT ![t].keptFinals = kept]
      BY <2>5 DEF CancelDrainFinals, CancelRestoreFinals
    <3>2. QED
      BY <2>4, <2>5, <3>1
  <2>6. QED
    BY <1>7, <2>1, <2>2, <2>3, <2>5 DEF CancelSteps, CancelLock, CancelCheck, CancelDelete, CancelMark,
       CancelRestorePartials, CancelEnd, Acquire, Leave
<1>8. CASE FailSteps(t)
  <2>1. CASE FailReturn(t) \/ UNCHANGED loc
    BY <1>2, <2>1, MovesIds
  <2>2. CASE loc' = [loc EXCEPT ![t].failMode = ModeOf(loc[t].id), ![t].note = sess[loc[t].id].note]
    BY <2>2, LocalsOf DEF TypeInv, TypeOK, ThreadsOK, Locals
  <2>3. CASE loc' = [loc EXCEPT ![t].active = (activeId = loc[t].id), ![t].running = recOn]
    BY <2>3, LocalsOf DEF TypeInv, TypeOK, ThreadsOK, Locals
  <2>4. QED
    BY <1>8, <2>1, <2>2, <2>3 DEF FailSteps, FailCheck, FailRead, FailMark, FailEnd
<1>9. CASE t = "cleaner" /\ CleanupSteps
  <2>1. CASE UNCHANGED loc \/ Return(t)
    BY <1>2, <2>1, MovesIds
  <2>2. ASSUME NEW id, loc' = [loc EXCEPT !["cleaner"].id = id] PROVE Stays1
    BY <2>2, <1>9, LocalsOf DEF TypeInv, TypeOK, ThreadsOK, Locals
  <2>3. QED
    BY <1>9, <2>1, <2>2 DEF CleanupSteps, CleanupLock, CleanupStop, CleanupEnd, Leave
<1>10. CASE t = "worker" /\ WorkerSteps
  <2>1. CASE UNCHANGED loc \/ Loop("worker") \/ \E hard, ret : Fail("worker", loc["worker"].id, hard, ret)
    BY <1>2, <1>10, <2>1, MovesIds
  <2>2. ASSUME NEW final, NEW chunk, TakeChunk(final, chunk) PROVE Stays1
    BY <1>10, <2>2, LocalsOf DEF TakeChunk, TypeInv, TypeOK, ThreadsOK, Locals
  <2>3. ASSUME NEW mode, loc' = [loc EXCEPT !["worker"].mode = mode] PROVE Stays1
    BY <1>10, <2>3, LocalsOf DEF TypeInv, TypeOK, ThreadsOK, Locals
  <2>4. ASSUME NEW parts, loc' = [loc EXCEPT !["worker"].said = parts] PROVE Stays1
    BY <1>10, <2>4, LocalsOf DEF TypeInv, TypeOK, ThreadsOK, Locals
  <2>5. QED
    BY <1>10, <2>1, <2>2, <2>3, <2>4 DEF WorkerSteps, TakePartial, TakeFinal, Handle, HandleEmpty,
       DecodeStart, DecodeEnd, RecordGuard, RecordSegment, RecordPart, SessionCheck, SessionEmpty,
       SessionComplete, SessionType, SessionSave, GiveUp
<1>11. CASE t = "tray" /\ ShutdownSteps
  <2>1. UNCHANGED loc \/ loc'[t] = NoLocals
    BY <1>11 DEF ShutdownSteps, ShutdownHotkey, ShutdownQueue, TypeInv, TypeOK, ThreadsOK
  <2>2. QED
    BY <2>1 DEF NoLocals
<1>12. QED
  BY <1>3, <1>4, <1>5, <1>6, <1>7, <1>8, <1>9, <1>10, <1>11 DEF Step

\* The cache changes when a recording starts, is discarded, fails or completes.
LEMMA TerminalKept ==
  ASSUME TypeInv, NEW t \in Threads, Step(t), ~StartCapture(t), ~CancelMark(t), ~FailMark(t),
         ~(t = "worker" /\ SessionComplete)
  PROVE  UNCHANGED <<terminal, termOrder>>
<1>1. CASE StartSteps(t) \/ FinalizeSteps(t)
  BY <1>1 DEF StartSteps, StartLock, StartCheck, FinalizeSteps, FinalizeLock, FinalizeStop,
     FinalizeQueue, FinalizeEnd, FinalizeFailed, Acquire, sessions
<1>2. CASE PauseSteps(t) \/ ResumeSteps(t) \/ StartNote(t) \/ Toggle(t)
  BY <1>2 DEF PauseSteps, PauseLock, PauseStop, PauseQueue, PauseEnd, ResumeSteps, ResumeLock,
     Resume, StartNote, Toggle, Acquire, sessions
<1>3. CASE StopSteps(t)
  BY <1>3 DEF StopSteps, StopLock, StopCheck, StopPaused, StopQueue, StopEnd, Acquire, sessions
<1>4. CASE CancelSteps(t)
  BY <1>4 DEF CancelSteps, CancelLock, CancelCheck, CancelDelete, CancelDrainPartials,
     CancelRestorePartials, CancelDrainFinals, CancelRestoreFinals, CancelEnd, Acquire, sessions
<1>5. CASE FailSteps(t) \/ (t = "cleaner" /\ CleanupSteps) \/ (t = "tray" /\ ShutdownSteps)
  BY <1>5 DEF FailSteps, FailCheck, FailRead, FailEnd, CleanupSteps, CleanupLock,
     CleanupStop, CleanupEnd, ShutdownSteps, ShutdownHotkey, ShutdownQueue, sessions
<1>6. CASE t = "worker" /\ WorkerSteps
  BY <1>6 DEF WorkerSteps, TakePartial, TakeFinal, Handle, DecodeStart,
     DecodeEnd, RecordGuard, RecordSegment, RecordPart, SessionCheck, SessionEmpty,
     SessionType, SessionSave, sessions
<1>7. QED
  BY <1>1, <1>2, <1>3, <1>4, <1>5, <1>6 DEF Step

\* The id a start registers is newer than anything in the cache.
LEMMA CacheStep ==
  ASSUME TypeInv, LocksOwned, PastInv, MemInv, NEW t \in Threads, Step(t)
  PROVE  CacheOK'
<1>0. CacheOK
  BY DEF MemInv, BoundedMemory, CacheOK
<1>1. CASE StartCapture(t)
  <2>1. pc[t] = "S2" /\ loc[t].id = gen /\ Begun = gen - 1 /\ gen \in Nat
    BY <1>1, IdsType DEF StartCapture, PastInv, Newest, Begun, TypeInv, TypeOK, CaptureOK
  <2>2. gen \notin terminal
    BY <2>1, IdsType DEF PastInv, PastAt
  <2>3. terminal' = terminal \ {gen} /\ termOrder' = termOrder
    BY <1>1, <2>1 DEF StartCapture
  <2>4. QED
    BY <1>0, <2>2, <2>3 DEF CacheOK
<1>2. CASE CancelMark(t) \/ FailMark(t)
  <2>1. loc[t].id \in Ids
    BY <1>2 DEF CancelMark, FailMark, TypeInv, HasId, Bound
  <2>2. Remember(loc[t].id)
    BY <1>2 DEF CancelMark, FailMark
  <2>3. QED
    BY <1>0, <2>1, <2>2, RememberCache
<1>3. CASE t = "worker" /\ SessionComplete
  <2>1. loc["worker"].id \in Ids
    BY <1>3 DEF SessionComplete, TypeInv, HasId, Bound
  <2>2. UNCHANGED <<terminal, termOrder>> \/ Remember(loc["worker"].id)
    BY <1>3 DEF SessionComplete
  <2>3. CASE UNCHANGED <<terminal, termOrder>>
    BY <1>0, <2>3 DEF CacheOK
  <2>4. CASE Remember(loc["worker"].id)
    BY <1>0, <2>1, <2>4, RememberCache
  <2>5. QED
    BY <2>2, <2>3, <2>4
<1>4. CASE ~(StartCapture(t) \/ CancelMark(t) \/ FailMark(t) \/ (t = "worker" /\ SessionComplete))
  BY <1>0, <1>4, TerminalKept DEF CacheOK
<1>5. QED
  BY <1>1, <1>2, <1>3, <1>4

LEMMA FinalsStep ==
  ASSUME TypeInv, MemInv, NEW t \in Threads, Step(t)
  PROVE  Len(finalQ') <= FinalCap
<1>0. Len(finalQ) <= FinalCap /\ finalQ \in Seq(Items) /\ FinalCap \in Nat \ {0}
  BY BoundsAssumption, QueueTypes DEF MemInv, BoundedMemory
<1> DEFINE Fits == \/ UNCHANGED finalQ
                   \/ finalQ # <<>> /\ finalQ' = Tail(finalQ)
                   \/ Len(finalQ) < FinalCap /\ \E item : finalQ' = Append(finalQ, item)
                   \/ \E item : finalQ' = Append(<<>>, item)
<1>9. Fits => Len(finalQ') <= FinalCap
  <2>1. CASE UNCHANGED finalQ \/ (finalQ # <<>> /\ finalQ' = Tail(finalQ))
    BY <1>0, <2>1
  <2>2. ASSUME NEW item, NEW q \in {finalQ, <<>>}, Len(q) < FinalCap, finalQ' = Append(q, item)
        PROVE  Len(finalQ') <= FinalCap
    <3> DEFINE Some == Items \cup {item}
    <3>1. q \in Seq(Some) /\ item \in Some
      <4>1. Seq(Items) \subseteq Seq(Some) /\ <<>> \in Seq(Some)
        OBVIOUS
      <4>2. QED
        BY <1>0, <2>2, <4>1
    <3> HIDE DEF Some
    <3>2. Len(Append(q, item)) = Len(q) + 1 /\ Len(q) \in Nat
      BY <3>1
    <3>3. QED
      BY <1>0, <2>2, <3>2
  <2>3. Len(<<>>) < FinalCap
    BY <1>0
  <2>4. QED
    BY <2>1, <2>2, <2>3
<1>1. CASE StartSteps(t) \/ FinalizeSteps(t)
  <2>1. Fits
    BY <1>1 DEF StartSteps, StartLock, StartCheck, StartCapture, FinalizeSteps, FinalizeLock,
       FinalizeStop, FinalizeQueue, FinalizeEnd, FinalizeFailed, Acquire, queues
  <2>2. QED
    BY <1>9, <2>1
<1>2. CASE PauseSteps(t) \/ ResumeSteps(t) \/ StartNote(t) \/ Toggle(t)
  BY <1>0, <1>2 DEF PauseSteps, PauseLock, PauseStop, PauseQueue, PauseEnd, ResumeSteps, ResumeLock,
     Resume, StartNote, Toggle, Acquire, queues
<1>3. CASE StopSteps(t)
  <2>1. Fits
    BY <1>3 DEF StopSteps, StopLock, StopCheck, StopPaused, StopQueue, StopEnd, Acquire, queues
  <2>2. QED
    BY <1>9, <2>1
<1>4. CASE CancelSteps(t)
  <2>1. Fits
    BY <1>4 DEF CancelSteps, CancelLock, CancelCheck, CancelDelete, CancelMark, CancelDrainPartials,
       CancelRestorePartials, CancelDrainFinals, CancelRestoreFinals, CancelEnd, Acquire, queues
  <2>2. QED
    BY <1>9, <2>1
<1>5. CASE FailSteps(t) \/ (t = "cleaner" /\ CleanupSteps)
  BY <1>0, <1>5 DEF FailSteps, FailCheck, FailRead, FailMark, FailEnd, CleanupSteps, CleanupLock,
     CleanupStop, CleanupEnd, queues
<1>6. CASE t = "worker" /\ WorkerSteps
  <2>1. Fits
    BY <1>6 DEF WorkerSteps, TakePartial, TakeFinal, Handle, DecodeStart,
       DecodeEnd, RecordGuard, RecordSegment, RecordPart, SessionCheck, SessionEmpty,
       SessionComplete, SessionType, SessionSave, queues
  <2>2. QED
    BY <1>9, <2>1
<1>7. CASE t = "tray" /\ ShutdownSteps
  <2>1. Fits
    BY <1>7 DEF ShutdownSteps, ShutdownHotkey, ShutdownQueue, queues
  <2>2. QED
    BY <1>9, <2>1
<1>8. QED
  BY <1>1, <1>2, <1>3, <1>4, <1>5, <1>6, <1>7 DEF Step

\* The partial queue grows when a note is paused, and when a purge puts back
\* what it has kept.
LEMMA PartialsShrink ==
  ASSUME TypeInv, NEW t \in Threads, Step(t), ~PauseQueue(t), ~CancelRestorePartials(t)
  PROVE  \/ UNCHANGED partialQ
         \/ partialQ' = <<>>
         \/ partialQ # <<>> /\ partialQ' = Tail(partialQ)
<1>1. CASE StartSteps(t) \/ FinalizeSteps(t)
  BY <1>1 DEF StartSteps, StartLock, StartCheck, StartCapture, FinalizeSteps, FinalizeLock,
     FinalizeStop, FinalizeQueue, FinalizeEnd, FinalizeFailed, Acquire, queues
<1>2. CASE PauseSteps(t) \/ ResumeSteps(t) \/ StartNote(t) \/ Toggle(t)
  BY <1>2 DEF PauseSteps, PauseLock, PauseStop, PauseEnd, ResumeSteps, ResumeLock,
     Resume, StartNote, Toggle, Acquire, queues
<1>3. CASE StopSteps(t)
  BY <1>3 DEF StopSteps, StopLock, StopCheck, StopPaused, StopQueue, StopEnd, Acquire, queues
<1>4. CASE CancelSteps(t)
  BY <1>4 DEF CancelSteps, CancelLock, CancelCheck, CancelDelete, CancelMark, CancelDrainPartials,
     CancelDrainFinals, CancelRestoreFinals, CancelEnd, Acquire, queues
<1>5. CASE FailSteps(t) \/ (t = "cleaner" /\ CleanupSteps) \/ (t = "tray" /\ ShutdownSteps)
  BY <1>5 DEF FailSteps, FailCheck, FailRead, FailMark, FailEnd, CleanupSteps, CleanupLock,
     CleanupStop, CleanupEnd, ShutdownSteps, ShutdownHotkey, ShutdownQueue, queues
<1>6. CASE t = "worker" /\ WorkerSteps
  BY <1>6 DEF WorkerSteps, TakePartial, TakeFinal, Handle, DecodeStart,
     DecodeEnd, RecordGuard, RecordSegment, RecordPart, SessionCheck, SessionEmpty,
     SessionComplete, SessionType, SessionSave, queues
<1>7. QED
  BY <1>1, <1>2, <1>3, <1>4, <1>5, <1>6 DEF Step

LEMMA PurgingSteps ==
  ASSUME TypeInv, NEW t \in Threads, Step(t), pc[t] \in Purging
  PROVE  CancelDrainPartials(t) \/ CancelRestorePartials(t)
<1>1. ~StartSteps(t) /\ ~FinalizeSteps(t)
  BY DEF Purging, StartSteps, StartLock, StartCheck, StartCapture, FinalizeSteps, FinalizeLock,
     FinalizeStop, FinalizeQueue, FinalizeEnd, FinalizeFailed, Acquire
<1>2. ~(PauseSteps(t) \/ ResumeSteps(t) \/ StartNote(t) \/ Toggle(t) \/ StopSteps(t))
  BY DEF Purging, PauseSteps, PauseLock, PauseStop, PauseQueue, PauseEnd, ResumeSteps, ResumeLock,
     Resume, StartNote, Toggle, StopSteps, StopLock, StopCheck, StopPaused, StopQueue, StopEnd, Acquire
<1>3. ~(FailSteps(t) \/ (t = "cleaner" /\ CleanupSteps) \/ (t = "tray" /\ ShutdownSteps))
  BY DEF Purging, FailSteps, FailCheck, FailRead, FailMark, FailEnd, CleanupSteps, CleanupLock,
     CleanupStop, CleanupEnd, ShutdownSteps, ShutdownHotkey, ShutdownQueue
<1>4. ~(t = "worker" /\ WorkerSteps)
  BY DEF Purging, WorkerSteps, TakePartial, TakeFinal, Handle, DecodeStart,
     DecodeEnd, RecordGuard, RecordSegment, RecordPart, SessionCheck, SessionEmpty,
     SessionComplete, SessionType, SessionSave
<1>5. CancelSteps(t)
  BY <1>1, <1>2, <1>3, <1>4 DEF Step
<1>6. QED
  BY <1>5 DEF Purging, CancelSteps, CancelLock, CancelCheck, CancelDelete, CancelMark,
     CancelDrainFinals, CancelRestoreFinals, CancelEnd, Acquire

LEMMA StepMem ==
  ASSUME TypeInv, LocksOwned, PastInv, MemInv, NEW t \in Threads, Step(t)
  PROVE  MemStep(t)
<1>0. /\ partialQ \in Seq(Items) /\ Len(partialQ) <= PartialCap /\ PartialCap \in Nat \ {0}
      /\ loc[t].keptPartials \in Seq(Items) /\ KeptOK(t)
  BY BoundsAssumption, QueueTypes DEF MemInv, BoundedMemory, KeptFits, KeptOK
<1>1. CacheOK' /\ Len(finalQ') <= FinalCap /\ OnlyMoves(t)
  BY CacheStep, FinalsStep, StepLocks DEF LockStep
<1> DEFINE label == pc'[t]
<1>2. label \in Purging => CancelMark(t) \/ CancelDrainPartials(t)
  BY StepLabels DEF Purging
<1>3. CASE CancelRestorePartials(t)
  <2>1. pc[t] = "C5" /\ partialQ' = partialQ \o loc[t].keptPartials
    BY <1>3 DEF CancelRestorePartials
  <2>2. Len(partialQ') <= PartialCap /\ Holds(t)
    BY <1>0, <2>1 DEF KeptOK, Purging, Holds, Inside
  <2>3. loc'[t].keptPartials = <<>> /\ pc'[t] = "C6"
    BY <1>3, LocalsOf DEF CancelRestorePartials, Goto, Locals, TypeInv, TypeOK, ThreadsOK
  <2>4. QED
    BY <1>1, <2>2, <2>3 DEF MemStep, KeptOK, Purging
<1>4. CASE CancelDrainPartials(t)
  <2>1. CASE partialQ = <<>>
    <3>1. UNCHANGED <<loc, partialQ>> /\ pc[t] = "C4" /\ pc'[t] = "C5"
      BY <1>4, <2>1 DEF CancelDrainPartials, Goto, TypeInv, TypeOK, ThreadsOK
    <3>2. QED
      BY <1>0, <1>1, <3>1 DEF MemStep, KeptOK, Purging
  <2>2. CASE partialQ # <<>>
    <3>1. /\ partialQ' = Tail(partialQ) /\ UNCHANGED pc /\ pc[t] = "C4"
          /\ loc' = [loc EXCEPT ![t].keptPartials = Keep(@, Head(partialQ), loc[t].id)]
      BY <1>4, <2>2 DEF CancelDrainPartials
    <3>2. loc'[t].keptPartials = Keep(loc[t].keptPartials, Head(partialQ), loc[t].id)
      BY <3>1, LocalsOf DEF TypeInv, TypeOK, ThreadsOK, Locals
    <3>3. Len(loc'[t].keptPartials) <= Len(loc[t].keptPartials) + 1 /\ Len(loc'[t].keptPartials) \in Nat
      BY <1>0, <2>2, <3>2 DEF Keep
    <3>4. Len(partialQ') = Len(partialQ) - 1
      BY <1>0, <2>2, <3>1
    <3>5. KeptOK(t)'
      <4>1. pc[t] = "C4" /\ pc'[t] = "C4" /\ Len(partialQ) + Len(loc[t].keptPartials) <= PartialCap
        BY <1>0, <3>1 DEF KeptOK, Purging
      <4>2. Len(partialQ) \in Nat /\ Len(loc[t].keptPartials) \in Nat
        BY <1>0
      <4>3. Len(partialQ') + Len(loc'[t].keptPartials) <= PartialCap
        BY <1>0, <3>3, <3>4, <4>1, <4>2
      <4>4. QED
        BY <4>1, <4>3 DEF KeptOK, Purging
    <3>6. QED
      BY <1>0, <1>1, <3>4, <3>5 DEF MemStep
  <2>3. QED
    BY <2>1, <2>2
<1>5. CASE CancelMark(t)
  <2>1. UNCHANGED <<loc, partialQ>> /\ pc[t] = "C3" /\ pc'[t] = "C4"
    BY <1>5 DEF CancelMark, Goto, queues, TypeInv, TypeOK, ThreadsOK
  <2>2. QED
    BY <1>0, <1>1, <2>1 DEF MemStep, KeptOK, Purging
<1>6. CASE ~(CancelRestorePartials(t) \/ CancelDrainPartials(t) \/ CancelMark(t))
  <2>1. label \notin Purging /\ pc[t] \notin Purging
    BY <1>2, <1>6, PurgingSteps
  <2>2. KeptOK(t)'
    BY <1>0, <1>6, <2>1, KeptStays DEF KeptOK
  <2>3. CASE PauseQueue(t)
    <3>1. Holds(t)
      BY <2>3 DEF PauseQueue, Holds, Inside
    <3>2. Len(partialQ') <= PartialCap
      <4> DEFINE chunk == [id |-> loc[t].id, captures |-> loc[t].captures]
                 kept  == IF Len(partialQ) < PartialCap THEN partialQ ELSE Tail(partialQ)
      <4>1. partialQ' = partialQ \/ partialQ' = Append(kept, chunk)
        BY <2>3 DEF PauseQueue
      <4>2. kept \in Seq(Items) /\ Len(kept) < PartialCap
        BY <1>0
      <4> HIDE DEF chunk, kept
      <4>3. QED
        BY <1>0, <4>1, <4>2
    <3>3. QED
      BY <1>1, <2>2, <3>1, <3>2 DEF MemStep
  <2>4. CASE ~PauseQueue(t)
    <3>1. Len(partialQ') <= Len(partialQ) /\ Len(partialQ') \in Nat
      BY <1>0, <1>6, <2>4, PartialsShrink
    <3>2. QED
      BY <1>0, <1>1, <2>2, <3>1 DEF MemStep
  <2>5. QED
    BY <2>3, <2>4
<1>7. QED
  BY <1>3, <1>4, <1>5, <1>6

LEMMA UserMem == TypeInv /\ MemInv /\ User => MemInv'
<1> SUFFICES ASSUME TypeInv, MemInv, User PROVE MemInv'
  OBVIOUS
<1>1. UNCHANGED <<queues, terminal, termOrder>>
  BY DEF User, Press, Release, NoteRequest, Silence, Deactivate, Activate, SetCombo, SwitchModel,
     Shutdown, sessions
<1>2. \A t \in Threads : loc'[t].keptPartials = loc[t].keptPartials
  <2>1. \/ UNCHANGED loc
        \/ \E u, mode : loc' = [loc EXCEPT ![u].mode = mode]
        \/ loc' = [loc EXCEPT !["tray"].back = "D1"]
    BY DEF User, Press, Release, OnRelease, NoteRequest, Silence, Deactivate, Activate, SetCombo,
       SwitchModel, Shutdown, Begin, threads
  <2>2. ASSUME NEW u, NEW mode, loc' = [loc EXCEPT ![u].mode = mode], NEW t \in Threads
        PROVE  loc'[t].keptPartials = loc[t].keptPartials
    BY <2>2, LocalsOf DEF TypeInv, TypeOK, ThreadsOK, Locals
  <2>3. ASSUME loc' = [loc EXCEPT !["tray"].back = "D1"], NEW t \in Threads
        PROVE  loc'[t].keptPartials = loc[t].keptPartials
    BY <2>3, LocalsOf DEF TypeInv, TypeOK, ThreadsOK, Locals
  <2>4. QED
    BY <2>1, <2>2, <2>3
<1>3. \A t \in Threads : pc'[t] = pc[t] \/ (pc[t] \notin Purging /\ pc'[t] \notin Purging)
  <2>1. CASE UNCHANGED threads
    BY <2>1 DEF threads
  <2>2. CASE ~UNCHANGED threads
    BY <2>2, UserOnly DEF OnlyMoves, Outside, Purging
  <2>3. QED
    BY <2>1, <2>2
<1>4. QED
  BY <1>1, <1>2, <1>3 DEF MemInv, BoundedMemory, KeptFits, queues

LEMMA InitMem == Init => MemInv
<1> SUFFICES ASSUME Init PROVE MemInv
  OBVIOUS
<1>1. \A t \in Threads : pc[t] \notin Purging /\ loc[t].keptPartials = <<>>
  BY DEF Init, Purging, NoLocals
<1>2. BoundedMemory
  BY BoundsAssumption DEF Init, BoundedMemory, TerminalCap
<1>3. QED
  BY <1>1, <1>2 DEF MemInv, KeptFits

LEMMA NextMem == TypeInv /\ LocksOwned /\ PastInv /\ MemInv /\ [Next]_vars => MemInv'
<1> SUFFICES ASSUME TypeInv, LocksOwned, PastInv, MemInv, [Next]_vars PROVE MemInv'
  OBVIOUS
<1>1. ASSUME NEW t \in Threads, Step(t) PROVE MemInv'
  BY <1>1, NextType, StepMem, StepLocks, MemStepKeeps DEF LockStep
<1>2. CASE User
  BY <1>2, UserMem
<1>3. CASE UNCHANGED vars
  BY <1>3 DEF vars, threads, queues, sessions, MemInv, BoundedMemory, KeptFits
<1>4. QED
  BY <1>1, <1>2, <1>3 DEF Next, Resting

\* The queues and the terminal cache keep their capacities through every purge,
\* pause, failure and shutdown, whatever the number of threads, and the cache
\* forgets an id only with its last entry.
THEOREM MemoryBounded == Spec => []BoundedMemory
<1> DEFINE Inv == TypeInv /\ LocksOwned /\ PastInv /\ MemInv
<1>1. Init => Inv
  BY InitType, InitLocks, InitPast, InitMem
<1>2. Inv /\ [Next]_vars => Inv'
  BY NextType, NextLocks, NextPast, NextMem
<1>3. Inv => BoundedMemory
  BY DEF MemInv
<1>4. QED
  BY <1>1, <1>2, <1>3, PTL DEF Spec

-----------------------------------------------------------------------------
(* What the daemon delivers.  No recording is typed, saved or put in the     *)
(* history twice: a session is open only after its start, parts are          *)
(* collected only while it is open, the worker delivers only what had parts, *)
(* and it closes the session for good when it does.  And none is delivered   *)
(* once it was reported as failed: one thread, one queued chunk or the       *)
(* worker has the end of a recording, so nobody fails what the worker        *)
(* delivers, and a failure leaves nothing to deliver.                        *)

-----------------------------------------------------------------------------
(* Steps that neither open a session, nor deliver, nor start doing either *)

LEMMA Frame ==
  ASSUME TypeInv, OnceInv, gen' = gen, Shrinks, Silent, Calm
  PROVE  OnceInv'
<1>1. "worker" \in Threads
  BY WorkersAreThreads
<1>2. \A id \in Ids : Undelivered(id)' = Undelivered(id)
  BY DEF Silent, Undelivered
<1>3. \A id \in Ids : Delivering(id)' => Delivering(id)
  BY <1>1 DEF Calm, Risky, Delivering
<1>4. \A id \in Ids : Fresh(id) => Fresh(id)'
  BY <1>2, <1>3 DEF Fresh, Shrinks
<1>5. FreshAhead'
  BY <1>4 DEF OnceInv, FreshAhead
<1>6. FreshStart'
  <2>1. SUFFICES ASSUME NEW t \in Threads, pc'[t] = "S2"
                 PROVE  (loc[t].id <= gen /\ Fresh(loc[t].id))'
    BY DEF FreshStart
  <2>2. pc[t] = "S2" /\ loc'[t] = loc[t]
    BY <2>1 DEF Calm, Risky
  <2>3. PICK id \in Ids : id = loc[t].id /\ id <= gen /\ Fresh(id)
    BY <2>2 DEF OnceInv, FreshStart, TypeInv, HasId, Bound
  <2>4. Fresh(id)'
    BY <1>4, <2>3
  <2>5. QED
    BY <2>2, <2>3, <2>4 DEF Fresh, Undelivered, Delivering
<1>7. OwnStart'
  BY DEF OnceInv, OwnStart, Calm, Risky
<1>8. PartsOpen'
  BY DEF OnceInv, PartsOpen, Shrinks
<1>9. Spent'
  BY <1>2, <1>3 DEF OnceInv, Spent, Shrinks
<1>10. Typing'
  <2>1. SUFFICES ASSUME pc'["worker"] = "E4", loc'["worker"].mode # "note"
                 PROVE  ~sess'[loc'["worker"].id].open
    BY DEF Typing
  <2>2. pc["worker"] = "E4" /\ loc'["worker"] = loc["worker"]
    BY <1>1, <2>1 DEF Calm, Risky
  <2>3. loc["worker"].id \in Ids /\ ~sess[loc["worker"].id].open
    BY <1>1, <2>1, <2>2 DEF OnceInv, Typing, TypeInv, HasId, Bound
  <2>4. QED
    BY <2>2, <2>3 DEF Shrinks
<1>11. DeliveredOnce'
  BY DEF OnceInv, DeliveredOnce, Delivered, Silent, Outputs
<1>12. QED
  BY <1>5, <1>6, <1>7, <1>8, <1>9, <1>10, <1>11 DEF OnceInv

LEMMA OneMovesCalm ==
  ASSUME NEW t \in Threads, OneMoves(t)
  PROVE  Calm
  BY DEF OneMoves, Calm

LEMMA GotoCalm ==
  ASSUME TypeInv, NEW t \in Threads, NEW label, label \notin Risky, Goto(t, label),
         \A u \in Threads \ {t} : loc'[u] = loc[u]
  PROVE  Calm
  BY DEF TypeInv, TypeOK, ThreadsOK, Goto, Calm

LEMMA ReturnCalm ==
  ASSUME TypeInv, NEW t \in Threads, Return(t)
  PROVE  Calm
<1>1. loc[t].back \notin Risky
  BY LocalsOf DEF Locals, Risky
<1>2. QED
  BY <1>1, GotoCalm DEF Return, TypeInv, TypeOK, ThreadsOK

LEMMA FailReturnCalm ==
  ASSUME TypeInv, NEW t \in Threads, FailReturn(t)
  PROVE  Calm
<1>1. loc[t].ret \notin Risky
  BY LocalsOf DEF Locals, Returns, Risky
<1>2. \A u \in Threads \ {t} : loc'[u] = loc[u]
  BY DEF FailReturn, TypeInv, TypeOK, ThreadsOK
<1>3. QED
  BY <1>1, <1>2, GotoCalm DEF FailReturn

LEMMA FailCalm ==
  ASSUME TypeInv, NEW t \in Threads, NEW id, NEW hard, NEW ret, Fail(t, id, hard, ret)
  PROVE  Calm
  BY GotoCalm DEF Fail, TypeInv, TypeOK, ThreadsOK, Risky

LEMMA BeginCalm ==
  ASSUME TypeInv, NEW t \in Threads, NEW label, label \notin Risky, NEW mode, Begin(t, label, mode)
  PROVE  Calm
  BY GotoCalm DEF Begin, TypeInv, TypeOK, ThreadsOK

LEMMA LoopCalm ==
  ASSUME TypeInv, Loop("worker")
  PROVE  Calm
  BY GotoCalm, WorkersAreThreads DEF Loop, TypeInv, TypeOK, ThreadsOK, Risky

LEMMA ClearedShrinks ==
  ASSUME TypeInv, NEW id, sess' = Cleared(sess, id)
  PROVE  Shrinks
  BY DEF Cleared, NoSession, Shrinks, TypeInv, TypeOK, SessionsOK

LEMMA SeeSilent ==
  ASSUME TypeInv, NEW id, NEW events, events \cap Outputs = {}, See(id, events)
  PROVE  Silent
<1>1. SUFFICES ASSUME NEW i \in Ids, NEW e \in Outputs PROVE log'[i][e] = log[i][e]
  BY DEF Silent
<1>2. log[i][e] \in Nat /\ e \in Events /\ e \notin events
  BY DEF TypeInv, TypeOK, OutcomeOK, Outputs, Events
<1>3. CASE i = id
  BY <1>2, <1>3 DEF See, TypeInv, TypeOK, OutcomeOK
<1>4. CASE i # id
  BY <1>4 DEF See, TypeInv, TypeOK, OutcomeOK
<1>5. QED
  BY <1>3, <1>4

\* What a step leaves alone.
LEMMA Unchanged ==
  /\ UNCHANGED sess => Shrinks
  /\ UNCHANGED log => Silent
  /\ UNCHANGED <<pc, loc>> => Calm
  BY DEF Shrinks, Silent, Calm

-----------------------------------------------------------------------------
(* The steps that the frame covers *)

LEMMA AcquireOnce ==
  ASSUME TypeInv, OnceInv, NEW t \in Threads, NEW from, NEW to, to \notin Risky, Acquire(t, from, to)
  PROVE  OnceInv'
<1>1. Calm
  BY GotoCalm DEF Acquire
<1>2. QED
  BY <1>1, Frame, Unchanged DEF Acquire, capture, sessions, outcome

LEMMA FinalizeOnce ==
  ASSUME TypeInv, OnceInv, NEW t \in Threads, FinalizeSteps(t)
  PROVE  OnceInv'
<1>1. CASE FinalizeLock(t)
  BY <1>1, AcquireOnce DEF FinalizeLock, Risky
<1>2. CASE FinalizeStop(t)
  <2>1. Calm
    <3>1. CASE Leave(t)
      BY <3>1, ReturnCalm DEF Leave
    <3>2. CASE (\E label \in {"Z2", "F1"} : Goto(t, label)) /\ \A u \in Threads \ {t} : loc'[u] = loc[u]
      BY <3>2, GotoCalm DEF Risky
    <3>3. QED
      BY <1>2, <3>1, <3>2 DEF FinalizeStop, TypeInv, TypeOK, ThreadsOK
  <2>2. QED
    BY <1>2, <2>1, Frame, Unchanged DEF FinalizeStop, sessions, outcome
<1>3. CASE FinalizeQueue(t)
  <2>1. Calm
    <3>1. CASE Leave(t)
      BY <3>1, ReturnCalm DEF Leave
    <3>2. CASE Goto(t, "Z3") /\ UNCHANGED loc
      BY <3>2, GotoCalm DEF Risky
    <3>3. CASE \E hard, ret : Fail(t, loc[t].id, hard, ret)
      BY <3>3, FailCalm
    <3>4. QED
      BY <1>3, <3>1, <3>2, <3>3 DEF FinalizeQueue
  <2>2. Shrinks
    BY <1>3, ClearedShrinks, Unchanged DEF FinalizeQueue
  <2>3. QED
    BY <1>3, <2>1, <2>2, Frame, Unchanged DEF FinalizeQueue, outcome
<1>4. CASE FinalizeEnd(t) \/ FinalizeFailed(t)
  <2>1. Calm
    BY <1>4, ReturnCalm DEF FinalizeEnd, FinalizeFailed, Leave
  <2>2. QED
    BY <1>4, <2>1, Frame, Unchanged DEF FinalizeEnd, FinalizeFailed, capture, sessions, outcome
<1>5. QED
  BY <1>1, <1>2, <1>3, <1>4 DEF FinalizeSteps

LEMMA PauseOnce ==
  ASSUME TypeInv, OnceInv, NEW t \in Threads, PauseSteps(t)
  PROVE  OnceInv'
<1>1. CASE PauseLock(t)
  BY <1>1, AcquireOnce DEF PauseLock, Risky
<1>2. CASE PauseStop(t)
  <2>1. Calm
    <3>1. CASE Leave(t)
      BY <3>1, ReturnCalm DEF Leave
    <3>2. CASE Goto(t, "P2") /\ \A u \in Threads \ {t} : loc'[u] = loc[u]
      BY <3>2, GotoCalm DEF Risky
    <3>3. QED
      BY <1>2, <3>1, <3>2 DEF PauseStop, TypeInv, TypeOK, ThreadsOK
  <2>2. QED
    BY <1>2, <2>1, Frame, Unchanged DEF PauseStop, sessions, outcome
<1>3. CASE PauseQueue(t) \/ PauseEnd(t)
  <2>1. Calm
    <3>1. CASE Leave(t)
      BY <3>1, ReturnCalm DEF Leave
    <3>2. CASE Goto(t, "P3") /\ UNCHANGED loc
      BY <3>2, GotoCalm DEF Risky
    <3>3. QED
      BY <1>3, <3>1, <3>2 DEF PauseQueue, PauseEnd
  <2>2. QED
    BY <1>3, <2>1, Frame, Unchanged DEF PauseQueue, PauseEnd, capture, sessions, outcome
<1>4. QED
  BY <1>1, <1>2, <1>3 DEF PauseSteps

LEMMA ResumeOnce ==
  ASSUME TypeInv, OnceInv, NEW t \in Threads, ResumeSteps(t) \/ StartNote(t) \/ Toggle(t)
  PROVE  OnceInv'
<1>1. CASE ResumeLock(t)
  BY <1>1, AcquireOnce DEF ResumeLock, Risky
<1>2. CASE Resume(t)
  <2>1. Calm
    BY <1>2, ReturnCalm DEF Resume, Leave
  <2>2. QED
    BY <1>2, <2>1, Frame, Unchanged DEF Resume, sessions, outcome
<1>3. CASE StartNote(t) \/ Toggle(t)
  <2>1. Return(t) \/ \E label \in {"R0", "S0", "Z0"} : Begin(t, label, "note")
    BY <1>3 DEF StartNote, Toggle
  <2>2. Calm
    BY <2>1, ReturnCalm, BeginCalm DEF Risky
  <2>3. QED
    BY <1>3, <2>2, Frame, Unchanged DEF StartNote, Toggle, capture, sessions, outcome
<1>4. QED
  BY <1>1, <1>2, <1>3 DEF ResumeSteps

LEMMA StopOnce ==
  ASSUME TypeInv, OnceInv, NEW t \in Threads, StopSteps(t)
  PROVE  OnceInv'
<1>1. CASE StopLock(t)
  BY <1>1, AcquireOnce DEF StopLock, Risky
<1>2. CASE StopCheck(t)
  <2>1. Calm
    <3>1. CASE Return(t)
      BY <3>1, ReturnCalm
    <3>2. CASE (\E label \in {"T2", "Z0"} : Goto(t, label)) /\ \A u \in Threads \ {t} : loc'[u] = loc[u]
      BY <3>2, GotoCalm DEF Risky
    <3>3. QED
      BY <1>2, <3>1, <3>2 DEF StopCheck, TypeInv, TypeOK, ThreadsOK
  <2>2. QED
    BY <1>2, <2>1, Frame, Unchanged DEF StopCheck, capture, sessions, outcome
<1>3. CASE StopPaused(t) \/ StopQueue(t) \/ StopEnd(t)
  <2>1. \/ Return(t)
        \/ (\E label \in {"T3", "T4"} : Goto(t, label)) /\ UNCHANGED loc
        \/ Fail(t, loc[t].id, FALSE, "T4")
    BY <1>3 DEF StopPaused, StopOvertaken, StopQueue, StopEnd
  <2>2. Calm
    BY <2>1, ReturnCalm, GotoCalm, FailCalm DEF Risky
  <2>3. gen' = gen /\ UNCHANGED <<sess, log>>
    BY <1>3 DEF StopPaused, StopQueue, StopEnd, capture, sessions, outcome
  <2>4. QED
    BY <2>2, <2>3, Frame, Unchanged
<1>4. QED
  BY <1>1, <1>2, <1>3 DEF StopSteps

LEMMA CancelOnce ==
  ASSUME TypeInv, OnceInv, NEW t \in Threads, CancelSteps(t)
  PROVE  OnceInv'
<1>1. CASE CancelLock(t)
  BY <1>1, AcquireOnce DEF CancelLock, Risky
<1>2. CASE CancelCheck(t) \/ CancelDelete(t) \/ CancelMark(t)
  <2>1. \/ Leave(t)
        \/ /\ \E label \in {"C2", "C3", "C4"} : Goto(t, label)
           /\ \A u \in Threads \ {t} : loc'[u] = loc[u]
    BY <1>2 DEF CancelCheck, CancelDelete, CancelMark, TypeInv, TypeOK, ThreadsOK
  <2>2. Calm
    BY <2>1, ReturnCalm, GotoCalm DEF Leave, Risky
  <2>3. QED
    BY <1>2, <2>2, Frame, Unchanged DEF CancelCheck, CancelDelete, CancelMark, capture, sessions, outcome
<1>3. CASE CancelDrainPartials(t) \/ CancelRestorePartials(t)
             \/ CancelDrainFinals(t) \/ CancelRestoreFinals(t)
  <2>1. pc[t] \in PCs \ Risky
    BY <1>3 DEF PCs, Risky, CancelDrainPartials, CancelRestorePartials,
       CancelDrainFinals, CancelRestoreFinals
  <2>2. \E label \in {pc[t], "C5", "C6", "C7", "C8"} : Goto(t, label)
    BY <1>3, Stays DEF CancelDrainPartials, CancelRestorePartials,
       CancelDrainFinals, CancelRestoreFinals
  <2>3. \A u \in Threads \ {t} : loc'[u] = loc[u]
    BY <1>3 DEF CancelDrainPartials, CancelRestorePartials,
       CancelDrainFinals, CancelRestoreFinals, TypeInv, TypeOK, ThreadsOK
  <2>4. Calm
    BY <2>1, <2>2, <2>3, GotoCalm DEF Risky
  <2>5. QED
    BY <1>3, <2>4, Frame, Unchanged DEF CancelDrainPartials, CancelRestorePartials,
       CancelDrainFinals, CancelRestoreFinals, capture, sessions, outcome
<1>4. CASE CancelEnd(t)
  <2>1. Calm
    BY <1>4, ReturnCalm DEF CancelEnd, Leave
  <2>2. Shrinks
    BY <1>4, ClearedShrinks DEF CancelEnd
  <2>3. Silent
    BY <1>4, SeeSilent DEF CancelEnd, Outputs
  <2>4. QED
    BY <1>4, <2>1, <2>2, <2>3, Frame DEF CancelEnd
<1>5. QED
  BY <1>1, <1>2, <1>3, <1>4 DEF CancelSteps

LEMMA FailOnce ==
  ASSUME TypeInv, OnceInv, NEW t \in Threads, FailSteps(t)
  PROVE  OnceInv'
<1>1. CASE FailCheck(t)
  <2>1. \/ FailReturn(t)
        \/ Goto(t, "F2") /\ \A u \in Threads \ {t} : loc'[u] = loc[u]
    BY <1>1 DEF FailCheck, TypeInv, TypeOK, ThreadsOK
  <2>2. Calm
    BY <2>1, FailReturnCalm, GotoCalm DEF Risky
  <2>3. sess' = sess \/ sess' = [sess EXCEPT ![loc[t].id].note = FALSE]
    BY <1>1 DEF FailCheck
  <2>4. Shrinks
    <3>1. CASE sess' = sess
      BY <3>1, Unchanged
    <3>2. CASE sess' = [sess EXCEPT ![loc[t].id].note = FALSE]
      BY <3>2 DEF Shrinks, TypeInv, TypeOK, SessionsOK, Sessions
    <3>3. QED
      BY <2>3, <3>1, <3>2
  <2>5. QED
    BY <1>1, <2>2, <2>4, Frame, Unchanged DEF FailCheck, capture, outcome
<1>2. CASE FailRead(t)
  <2>1. Calm
    BY <1>2, GotoCalm DEF FailRead, TypeInv, TypeOK, ThreadsOK, Risky
  <2>2. QED
    BY <1>2, <2>1, Frame, Unchanged DEF FailRead, sessions, outcome
<1>3. CASE FailMark(t)
  <2>1. Calm
    BY <1>3, GotoCalm DEF FailMark, Risky
  <2>2. Silent
    BY <1>3, SeeSilent DEF FailMark, Outputs
  <2>3. \/ sess' = [sess EXCEPT ![loc[t].id].open = FALSE, ![loc[t].id].parts = <<>>]
        \/ sess' = Cleared(sess, loc[t].id)
    BY <1>3 DEF FailMark
  <2>4. Shrinks
    <3>1. CASE sess' = [sess EXCEPT ![loc[t].id].open = FALSE, ![loc[t].id].parts = <<>>]
      BY <3>1 DEF Shrinks, TypeInv, TypeOK, SessionsOK, Sessions
    <3>2. QED
      BY <2>3, <3>1, ClearedShrinks
  <2>5. QED
    BY <1>3, <2>1, <2>2, <2>4, Frame DEF FailMark, capture
<1>4. CASE FailEnd(t)
  <2>1. Calm
    BY <1>4, FailReturnCalm DEF FailEnd
  <2>2. Silent
    BY <1>4, SeeSilent, Unchanged DEF FailEnd, Outputs
  <2>3. Shrinks
    BY <1>4, ClearedShrinks, Unchanged DEF FailEnd
  <2>4. QED
    BY <1>4, <2>1, <2>2, <2>3, Frame DEF FailEnd
<1>5. QED
  BY <1>1, <1>2, <1>3, <1>4 DEF FailSteps

LEMMA CleanupOnce ==
  ASSUME TypeInv, OnceInv, CleanupSteps
  PROVE  OnceInv'
<1>1. CASE CleanupLock
  <2>1. Calm
    BY <1>1, GotoCalm, WorkersAreThreads DEF CleanupLock, TypeInv, TypeOK, ThreadsOK, Risky
  <2>2. QED
    BY <1>1, <2>1, Frame, Unchanged DEF CleanupLock, capture, sessions, outcome
<1>2. CASE CleanupStop \/ CleanupEnd
  <2>1. \/ Return("cleaner")
        \/ Goto("cleaner", "X2") /\ UNCHANGED loc
    BY <1>2 DEF CleanupStop, CleanupEnd, Leave
  <2>2. Calm
    BY <2>1, ReturnCalm, GotoCalm, WorkersAreThreads DEF Risky
  <2>3. Shrinks
    BY <1>2, ClearedShrinks, Unchanged DEF CleanupStop, CleanupEnd
  <2>4. QED
    BY <1>2, <2>2, <2>3, Frame, Unchanged DEF CleanupStop, CleanupEnd, outcome
<1>3. QED
  BY <1>1, <1>2 DEF CleanupSteps

\* What the worker does before it touches a session.
LEMMA TakeOnce ==
  ASSUME TypeInv, OnceInv, TakePartial \/ TakeFinal
  PROVE  OnceInv'
<1>1. \E label \in {"exited", "H1", "W0", "W1"} : Goto("worker", label)
  BY DEF TakePartial, TakeFinal
<1>2. \A u \in Threads \ {"worker"} : loc'[u] = loc[u]
  BY DEF TakePartial, TakeFinal, TakeChunk, TypeInv, TypeOK, ThreadsOK
<1>3. Calm
  BY <1>1, <1>2, GotoCalm, WorkersAreThreads DEF Risky
<1>4. QED
  BY <1>3, Frame, Unchanged DEF TakePartial, TakeFinal, capture, sessions, outcome

LEMMA DecodeOnce ==
  ASSUME TypeInv, OnceInv,
         Handle \/ DecodeStart \/ DecodeEnd \/ RecordGuard \/ RecordSegment
  PROVE  OnceInv'
<1>1. \/ Loop("worker")
      \/ (\E label \in {"H2", "H3", "H4", "H5", "H6", "E1"} : Goto("worker", label)) /\ UNCHANGED loc
      \/ \E id, hard, ret : Fail("worker", id, hard, ret)
  BY DEF Handle, HandleEmpty, DecodeStart, DecodeEnd, RecordGuard, RecordSegment
<1>2. Calm
  BY <1>1, LoopCalm, GotoCalm, FailCalm, WorkersAreThreads DEF Risky
<1>3. gen' = gen /\ UNCHANGED <<sess, log>>
  BY DEF Handle, DecodeStart, DecodeEnd, RecordGuard, RecordSegment, capture, sessions, outcome
<1>4. QED
  BY <1>2, <1>3, Frame, Unchanged

LEMMA SessionEmptyOnce ==
  ASSUME TypeInv, OnceInv, SessionEmpty
  PROVE  OnceInv'
<1>1. Calm
  BY LoopCalm DEF SessionEmpty
<1>2. Shrinks
  BY ClearedShrinks DEF SessionEmpty
<1>3. Silent
  BY SeeSilent, Unchanged DEF SessionEmpty, Outputs
<1>4. QED
  BY <1>1, <1>2, <1>3, Frame DEF SessionEmpty, capture

LEMMA UserOnce ==
  ASSUME TypeInv, OnceInv, User
  PROVE  OnceInv'
<1>1. UNCHANGED <<gen, sess, log>>
  BY DEF User, Press, Release, NoteRequest, Silence, Deactivate, Activate, SetCombo,
     SwitchModel, Shutdown, capture, sessions, outcome
<1>2. Calm
  <2>1. CASE Press \/ Release \/ Silence
    <3>1. \E t \in {"hotkey", "auto"}, label \in {"S0", "Z0", "P0"}, mode \in Modes :
             Begin(t, label, mode)
      BY <2>1 DEF Press, Release, OnRelease, Silence, Modes
    <3>2. QED
      BY <3>1, BeginCalm, WorkersAreThreads DEF Risky
  <2>2. ASSUME NEW t \in UIs, NoteRequest(t) PROVE Calm
    <3>1. PICK name \in DOMAIN Entry : Begin(t, Entry[name], "note")
      BY <2>2 DEF NoteRequest
    <3>2. Entry[name] \notin Risky /\ t \in Threads
      BY <3>1 DEF Entry, Risky, Threads
    <3>3. QED
      BY <3>1, <3>2, BeginCalm
  <2>3. CASE Deactivate \/ SetCombo
    <3>1. UNCHANGED loc /\ \E label \in {"Z0", "idle"} : Goto("tray", label)
      BY <2>3 DEF Deactivate, SetCombo, FinalizeIfRecording
    <3>2. QED
      BY <3>1, GotoCalm, WorkersAreThreads DEF Risky
  <2>4. CASE Activate \/ SwitchModel
    BY <2>4, Unchanged DEF Activate, SwitchModel, threads
  <2>5. CASE Shutdown
    <3>1. \E label \in {"Z0", "D1"} : Goto("tray", label)
      BY <2>5 DEF Shutdown
    <3>2. \A u \in Threads \ {"tray"} : loc'[u] = loc[u]
      BY <2>5 DEF Shutdown, TypeInv, TypeOK, ThreadsOK
    <3>3. QED
      BY <3>1, <3>2, GotoCalm, WorkersAreThreads DEF Risky
  <2>6. QED
    BY <2>1, <2>2, <2>3, <2>4, <2>5 DEF User
<1>3. QED
  BY <1>1, <1>2, Frame, Unchanged

LEMMA ShutdownOnce ==
  ASSUME TypeInv, OnceInv, ShutdownSteps
  PROVE  OnceInv'
<1>1. \E label \in {"D2", "idle"} : Goto("tray", label)
  BY DEF ShutdownSteps, ShutdownHotkey, ShutdownQueue
<1>2. \A u \in Threads \ {"tray"} : loc'[u] = loc[u]
  BY DEF ShutdownSteps, ShutdownHotkey, ShutdownQueue, TypeInv, TypeOK, ThreadsOK
<1>3. Calm
  BY <1>1, <1>2, GotoCalm, WorkersAreThreads DEF Risky
<1>4. UNCHANGED <<gen, sess, log>>
  BY DEF ShutdownSteps, ShutdownHotkey, ShutdownQueue, capture, sessions, outcome
<1>5. QED
  BY <1>3, <1>4, Frame, Unchanged

-----------------------------------------------------------------------------
(* Opening a session *)

\* No thread but t enters a risky label, and t leaves them.
LEMMA StartOnce ==
  ASSUME TypeInv, OnceInv, NEW t \in Threads, StartSteps(t)
  PROVE  OnceInv'
<1> USE WorkersAreThreads
<1>1. CASE StartLock(t)
  BY <1>1, AcquireOnce DEF StartLock, Risky
<1>2. CASE StartCheck(t)
  <2>1. CASE Leave(t) /\ UNCHANGED gen
    <3>1. Calm
      BY <2>1, ReturnCalm DEF Leave
    <3>2. QED
      BY <1>2, <2>1, <3>1, Frame, Unchanged DEF StartCheck, sessions, outcome
  <2>2. CASE /\ gen' = gen + 1
             /\ loc' = [loc EXCEPT ![t].id = gen + 1]
             /\ Goto(t, "S2")
    <3>1. UNCHANGED <<sess, log>> /\ gen \in Nat /\ gen + 1 \in Ids
      BY <1>2, <2>2, IdsType, BoundsAssumption
      DEF StartCheck, sessions, outcome, TypeInv, TypeOK, CaptureOK, Ids, IdOrNone, NoId
    <3>2. pc'[t] = "S2" /\ loc'[t].id = gen + 1 /\ pc[t] = "S1"
      BY <1>2, <2>2 DEF StartCheck, Goto, TypeInv, TypeOK, ThreadsOK, Locals
    <3>3. \A u \in Threads \ {t} : pc'[u] = pc[u] /\ loc'[u] = loc[u]
      BY <2>2 DEF Goto, TypeInv, TypeOK, ThreadsOK
    <3>4. \A id \in Ids : Delivering(id)' => Delivering(id)
      BY <3>2, <3>3 DEF Delivering
    <3>5. \A id \in Ids : Fresh(id) => Fresh(id)'
      BY <3>1, <3>4 DEF Fresh, Undelivered
    <3>6. FreshAhead'
      BY <2>2, <3>1, <3>5, IdsType DEF OnceInv, FreshAhead
    <3>7. FreshStart'
      <4>1. SUFFICES ASSUME NEW u \in Threads, pc'[u] = "S2"
                     PROVE  (loc[u].id <= gen /\ Fresh(loc[u].id))'
        BY DEF FreshStart
      <4>2. CASE u = t
        <5>1. PICK id \in Ids : id = gen + 1
          BY <3>1
        <5>2. Fresh(id)
          BY <3>1, <5>1, IdsType DEF OnceInv, FreshAhead
        <5>3. Fresh(id)'
          BY <3>5, <5>2
        <5>4. loc'[u].id = id /\ id <= gen'
          BY <2>2, <3>1, <3>2, <4>2, <5>1
        <5>5. QED
          BY <5>3, <5>4 DEF Fresh, Undelivered, Delivering
      <4>3. CASE u # t
        <5>1. PICK id \in Ids : id = loc[u].id /\ id <= gen /\ Fresh(id) /\ loc'[u] = loc[u]
          BY <3>3, <4>1, <4>3 DEF OnceInv, FreshStart, TypeInv, HasId, Bound
        <5>2. Fresh(id)'
          BY <3>5, <5>1
        <5>3. id <= gen'
          BY <2>2, <3>1, <5>1, IdsType
        <5>4. QED
          BY <5>1, <5>2, <5>3 DEF Fresh, Undelivered, Delivering
      <4>4. QED
        BY <4>2, <4>3
    <3>8. OwnStart'
      <4>1. \A u \in Threads \ {t} : pc'[u] = "S2" => loc'[u].id # gen + 1
        BY <3>1, <3>3, IdsType DEF OnceInv, FreshStart, TypeInv, HasId, Bound
      <4>2. QED
        BY <3>2, <3>3, <4>1 DEF OnceInv, OwnStart
    <3>9. PartsOpen' /\ DeliveredOnce'
      BY <3>1 DEF OnceInv, PartsOpen, DeliveredOnce, Delivered
    <3>10. Spent'
      BY <3>1, <3>4 DEF OnceInv, Spent, Undelivered
    <3>11. Typing'
      BY <3>1, <3>2, <3>3 DEF OnceInv, Typing
    <3>12. QED
      BY <3>6, <3>7, <3>8, <3>9, <3>10, <3>11 DEF OnceInv
  <2>3. QED
    BY <1>2, <2>1, <2>2 DEF StartCheck
<1>3. CASE StartCapture(t)
  <2>1. Calm /\ UNCHANGED gen
    BY <1>3, ReturnCalm DEF StartCapture, Leave
  <2>2. CASE sess' = Cleared(sess, loc[t].id)
    <3>1. Shrinks
      BY <2>2, ClearedShrinks
    <3>2. Silent
      BY <1>3, SeeSilent, Unchanged DEF StartCapture, Outputs
    <3>3. QED
      BY <2>1, <3>1, <3>2, Frame
  <2>3. CASE sess'[loc[t].id].open /\ UNCHANGED log
             /\ \A i \in Ids \ {loc[t].id} : sess'[i] = sess[i]
    <3>1. PICK id \in Ids : id = loc[t].id
      BY <1>3 DEF StartCapture, TypeInv, HasId, Bound
    <3>2. id <= gen /\ Fresh(id) /\ pc[t] = "S2"
      BY <1>3, <3>1 DEF StartCapture, OnceInv, FreshStart
    <3>3. \A i \in Ids : Undelivered(i)' = Undelivered(i)
      BY <2>3 DEF Undelivered
    <3>4. \A i \in Ids : Delivering(i)' => Delivering(i)
      BY <2>1 DEF Calm, Risky, Delivering
    <3>5. \A i \in Ids \ {id} : Fresh(i) => Fresh(i)'
      BY <2>3, <3>1, <3>3, <3>4 DEF Fresh
    <3>6. FreshAhead'
      BY <2>1, <3>2, <3>5, IdsType DEF OnceInv, FreshAhead, TypeInv, TypeOK, CaptureOK
    <3>7. pc'[t] # "S2"
      BY <1>3, LocalsOf DEF StartCapture, Leave, Return, Goto, Locals, TypeInv, TypeOK, ThreadsOK
    <3>8. FreshStart'
      <4>1. SUFFICES ASSUME NEW u \in Threads, pc'[u] = "S2"
                     PROVE  (loc[u].id <= gen /\ Fresh(loc[u].id))'
        BY DEF FreshStart
      <4>2. u # t /\ pc[u] = "S2" /\ loc'[u] = loc[u]
        BY <2>1, <3>7, <4>1 DEF Calm, Risky
      <4>3. PICK i \in Ids : i = loc[u].id /\ i <= gen /\ Fresh(i) /\ i # id
        BY <3>1, <3>2, <4>2 DEF OnceInv, FreshStart, OwnStart, TypeInv, HasId, Bound
      <4>4. Fresh(i)'
        BY <3>5, <4>3
      <4>5. QED
        BY <2>1, <4>2, <4>3, <4>4 DEF Fresh, Undelivered, Delivering
    <3>9. OwnStart'
      BY <2>1 DEF OnceInv, OwnStart, Calm, Risky
    <3>10. PartsOpen'
      BY <2>3, <3>1 DEF OnceInv, PartsOpen
    <3>11. Spent'
      BY <2>3, <3>1, <3>2, <3>3, <3>4 DEF OnceInv, Spent, Fresh
    <3>12. Typing'
      <4>1. SUFFICES ASSUME pc'["worker"] = "E4", loc'["worker"].mode # "note"
                     PROVE  ~sess'[loc'["worker"].id].open
        BY DEF Typing
      <4>2. pc["worker"] = "E4" /\ loc'["worker"] = loc["worker"]
        BY <2>1, <4>1 DEF Calm, Risky
      <4>3. loc["worker"].id \in Ids \ {id}
        BY <3>2, <4>2 DEF Fresh, Delivering, TypeInv, HasId, Bound
      <4>4. QED
        BY <2>3, <3>1, <4>1, <4>2, <4>3 DEF OnceInv, Typing
    <3>13. DeliveredOnce'
      BY <2>3 DEF OnceInv, DeliveredOnce, Delivered
    <3>14. QED
      BY <3>6, <3>8, <3>9, <3>10, <3>11, <3>12, <3>13 DEF OnceInv
  <2>4. QED
    <3>1. loc[t].id \in Ids
      BY <1>3 DEF StartCapture, TypeInv, HasId, Bound
    <3>2. CASE sess' = [sess EXCEPT ![loc[t].id] =
                          [mode |-> loc[t].mode, stt |-> stt, note |-> loc[t].mode = "note",
                           open |-> TRUE, parts |-> <<>>]] /\ UNCHANGED log
      BY <2>3, <3>1, <3>2 DEF TypeInv, TypeOK, SessionsOK
    <3>3. QED
      BY <1>3, <2>2, <3>2 DEF StartCapture
<1>4. QED
  BY <1>1, <1>2, <1>3 DEF StartSteps

-----------------------------------------------------------------------------
(* Collecting parts and ending a session *)

LEMMA RecordPartOnce ==
  ASSUME TypeInv, OnceInv, RecordPart
  PROVE  OnceInv'
<1> DEFINE me == loc["worker"]
<1>1. Calm /\ UNCHANGED <<gen, log>>
  BY LoopCalm, GotoCalm, WorkersAreThreads DEF RecordPart, capture, outcome, Risky
<1>2. \A id \in Ids : /\ sess'[id].open = sess[id].open
                      /\ ~sess[id].open => sess'[id] = sess[id]
  BY DEF RecordPart, TypeInv, TypeOK, SessionsOK, Sessions
<1>3. \A id \in Ids : Undelivered(id)' = Undelivered(id) /\ (Delivering(id)' => Delivering(id))
  BY <1>1, WorkersAreThreads DEF Calm, Risky, Undelivered, Delivering
<1>4. \A id \in Ids : Fresh(id) => Fresh(id)'
  BY <1>2, <1>3 DEF Fresh
<1>5. FreshAhead'
  BY <1>1, <1>4 DEF OnceInv, FreshAhead
<1>6. FreshStart'
  <2>1. SUFFICES ASSUME NEW t \in Threads, pc'[t] = "S2"
                 PROVE  (loc[t].id <= gen /\ Fresh(loc[t].id))'
    BY DEF FreshStart
  <2>2. pc[t] = "S2" /\ loc'[t] = loc[t]
    BY <1>1, <2>1 DEF Calm, Risky
  <2>3. PICK id \in Ids : id = loc[t].id /\ id <= gen /\ Fresh(id)
    BY <2>2 DEF OnceInv, FreshStart, TypeInv, HasId, Bound
  <2>4. Fresh(id)'
    BY <1>4, <2>3
  <2>5. QED
    BY <1>1, <2>2, <2>3, <2>4 DEF Fresh, Undelivered, Delivering
<1>7. OwnStart'
  BY <1>1 DEF OnceInv, OwnStart, Calm, Risky
<1>8. PartsOpen'
  BY <1>2 DEF OnceInv, PartsOpen
<1>9. Spent'
  BY <1>2, <1>3 DEF OnceInv, Spent
<1>10. Typing'
  <2>1. pc'["worker"] # "E4"
    BY WorkersAreThreads DEF RecordPart, Loop, Goto, TypeInv, TypeOK, ThreadsOK
  <2>2. QED
    BY <2>1 DEF Typing
<1>11. DeliveredOnce'
  BY <1>1 DEF OnceInv, DeliveredOnce, Delivered
<1>12. QED
  BY <1>5, <1>6, <1>7, <1>8, <1>9, <1>10, <1>11 DEF OnceInv

\* The worker starts to deliver a session that has parts: it is open, so
\* nothing of it was delivered yet.
LEMMA SessionCheckOnce ==
  ASSUME TypeInv, OnceInv, SessionCheck
  PROVE  OnceInv'
<1> DEFINE me == loc["worker"].id
<1>1. me \in Ids /\ "worker" \in Threads /\ UNCHANGED <<gen, log>>
  BY WorkersAreThreads DEF SessionCheck, capture, outcome, TypeInv, HasId, Bound
<1>2. CASE Loop("worker") /\ sess' = Cleared(sess, me)
  BY <1>1, <1>2, LoopCalm, ClearedShrinks, Frame, Unchanged
<1>3. CASE /\ loc' = [loc EXCEPT !["worker"].said = sess[me].parts]
           /\ Goto("worker", IF sess[me].parts = <<>> THEN "E2" ELSE "E3")
           /\ UNCHANGED sess
  <2>1. \A u \in Threads \ {"worker"} : pc'[u] = pc[u] /\ loc'[u] = loc[u]
    BY <1>3 DEF Goto, TypeInv, TypeOK, ThreadsOK
  <2>2. loc'["worker"].id = me
    BY <1>1, <1>3 DEF TypeInv, TypeOK, ThreadsOK, Locals
  <2>3. CASE sess[me].parts = <<>>
    <3>1. Calm
      BY <1>1, <1>3, <2>1, <2>3, GotoCalm DEF Risky
    <3>2. QED
      BY <1>1, <1>3, <3>1, Frame, Unchanged
  <2>4. CASE sess[me].parts # <<>>
    <3>1. pc'["worker"] = "E3"
      BY <1>1, <1>3, <2>4 DEF Goto, TypeInv, TypeOK, ThreadsOK
    <3>2. sess[me].open /\ Undelivered(me) /\ ~Fresh(me)
      BY <1>1, <2>4 DEF OnceInv, PartsOpen, Spent, Fresh
    <3>3. \A id \in Ids : Undelivered(id)' = Undelivered(id) /\ (Delivering(id)' => id = me)
      BY <1>1, <2>2 DEF Undelivered, Delivering
    <3>4. \A id \in Ids : Fresh(id) => Fresh(id)'
      BY <1>3, <3>2, <3>3 DEF Fresh
    <3>5. FreshAhead'
      BY <1>1, <3>4 DEF OnceInv, FreshAhead
    <3>6. FreshStart'
      <4>1. SUFFICES ASSUME NEW t \in Threads, pc'[t] = "S2"
                     PROVE  (loc[t].id <= gen /\ Fresh(loc[t].id))'
        BY DEF FreshStart
      <4>2. pc[t] = "S2" /\ loc'[t] = loc[t]
        BY <2>1, <3>1, <4>1
      <4>3. PICK id \in Ids : id = loc[t].id /\ id <= gen /\ Fresh(id)
        BY <4>2 DEF OnceInv, FreshStart, TypeInv, HasId, Bound
      <4>4. Fresh(id)'
        BY <3>4, <4>3
      <4>5. QED
        BY <1>1, <4>2, <4>3, <4>4 DEF Fresh, Undelivered, Delivering
    <3>7. OwnStart'
      BY <2>1, <3>1 DEF OnceInv, OwnStart
    <3>8. PartsOpen' /\ DeliveredOnce'
      BY <1>1, <1>3 DEF OnceInv, PartsOpen, DeliveredOnce, Delivered
    <3>9. Spent'
      BY <1>3, <3>2, <3>3 DEF OnceInv, Spent
    <3>10. Typing'
      BY <3>1 DEF Typing
    <3>11. QED
      BY <3>5, <3>6, <3>7, <3>8, <3>9, <3>10 DEF OnceInv
  <2>5. QED
    BY <2>3, <2>4
<1>4. QED
  BY <1>2, <1>3 DEF SessionCheck

\* A dictation is forgotten before it is typed.
LEMMA SessionCompleteOnce ==
  ASSUME TypeInv, OnceInv, SessionComplete
  PROVE  OnceInv'
<1> DEFINE me == loc["worker"].id
<1>1. me \in Ids /\ "worker" \in Threads /\ UNCHANGED <<gen, log>> /\ pc["worker"] = "E3"
  BY WorkersAreThreads DEF SessionComplete, capture, outcome, TypeInv, HasId, Bound
<1>2. \A u \in Threads \ {"worker"} : pc'[u] = pc[u] /\ loc'[u] = loc[u]
  BY DEF SessionComplete, Goto, TypeInv, TypeOK, ThreadsOK
<1>3. pc'["worker"] = "E4" /\ loc'["worker"].id = me /\ loc'["worker"].mode = ModeOf(me)
  BY <1>1 DEF SessionComplete, Goto, TypeInv, TypeOK, ThreadsOK, Locals
<1>4. Shrinks
  BY ClearedShrinks, Unchanged DEF SessionComplete
<1>5. \A id \in Ids : Undelivered(id)' = Undelivered(id) /\ (Delivering(id)' => Delivering(id))
  BY <1>1, <1>3 DEF Undelivered, Delivering
<1>6. \A id \in Ids : Fresh(id) => Fresh(id)'
  BY <1>4, <1>5 DEF Fresh, Shrinks
<1>7. FreshAhead'
  BY <1>1, <1>6 DEF OnceInv, FreshAhead
<1>8. FreshStart'
  <2>1. SUFFICES ASSUME NEW t \in Threads, pc'[t] = "S2"
                 PROVE  (loc[t].id <= gen /\ Fresh(loc[t].id))'
    BY DEF FreshStart
  <2>2. pc[t] = "S2" /\ loc'[t] = loc[t]
    BY <1>2, <1>3, <2>1
  <2>3. PICK id \in Ids : id = loc[t].id /\ id <= gen /\ Fresh(id)
    BY <2>2 DEF OnceInv, FreshStart, TypeInv, HasId, Bound
  <2>4. Fresh(id)'
    BY <1>6, <2>3
  <2>5. QED
    BY <1>1, <2>2, <2>3, <2>4 DEF Fresh, Undelivered, Delivering
<1>9. OwnStart'
  BY <1>2, <1>3 DEF OnceInv, OwnStart
<1>10. PartsOpen' /\ Spent'
  BY <1>4, <1>5 DEF OnceInv, PartsOpen, Spent, Shrinks
<1>11. Typing'
  <2>1. SUFFICES ASSUME ModeOf(me) # "note" PROVE ~sess'[me].open
    BY <1>3 DEF Typing
  <2>2. QED
    BY <1>1, <2>1 DEF SessionComplete, Cleared, NoSession, TypeInv, TypeOK, SessionsOK
<1>12. DeliveredOnce'
  BY <1>1 DEF OnceInv, DeliveredOnce, Delivered
<1>13. QED
  BY <1>7, <1>8, <1>9, <1>10, <1>11, <1>12 DEF OnceInv

\* What is delivered was not before, and its session is closed.
LEMMA DeliverOnce ==
  ASSUME TypeInv, OnceInv, pc["worker"] = "E4", Loop("worker") , UNCHANGED gen, Shrinks,
         ~sess'[loc["worker"].id].open,
         NEW events, ~({"typed", "note"} \subseteq events), See(loc["worker"].id, events)
  PROVE  OnceInv'
<1>1. PICK me \in Ids : me = loc["worker"].id
  BY WorkersAreThreads DEF TypeInv, HasId, Bound
<1>2. Undelivered(me) /\ ~Fresh(me)
  BY <1>1 DEF OnceInv, Spent, Delivering, Fresh
<1>3. \A id \in Ids \ {me} : log'[id] = log[id]
  BY <1>1 DEF See, TypeInv, TypeOK, OutcomeOK
<1>4. \A e \in Outputs : log'[me][e] = IF e \in events THEN 1 ELSE 0
  <2>1. SUFFICES ASSUME NEW e \in Outputs PROVE log'[me][e] = IF e \in events THEN 1 ELSE 0
    OBVIOUS
  <2>2. e \in Events /\ log[me][e] = 0
    BY <1>2 DEF Undelivered, Outputs, Events
  <2>3. log'[me] = [f \in Events |-> log[me][f] + IF f \in events THEN 1 ELSE 0]
    BY <1>1 DEF See, TypeInv, TypeOK, OutcomeOK
  <2>4. QED
    BY <2>2, <2>3
<1>5. Calm /\ \A id \in Ids : ~Delivering(id)'
  BY LoopCalm, WorkersAreThreads DEF Loop, Goto, Delivering, TypeInv, TypeOK, ThreadsOK
<1>6. \A id \in Ids : Fresh(id) => Fresh(id)'
  BY <1>2, <1>3, <1>5 DEF Fresh, Undelivered, Shrinks
<1>7. FreshAhead'
  BY <1>6 DEF OnceInv, FreshAhead
<1>8. FreshStart'
  <2>1. SUFFICES ASSUME NEW t \in Threads, pc'[t] = "S2"
                 PROVE  (loc[t].id <= gen /\ Fresh(loc[t].id))'
    BY DEF FreshStart
  <2>2. pc[t] = "S2" /\ loc'[t] = loc[t]
    BY <1>5, <2>1 DEF Calm, Risky
  <2>3. PICK id \in Ids : id = loc[t].id /\ id <= gen /\ Fresh(id)
    BY <2>2 DEF OnceInv, FreshStart, TypeInv, HasId, Bound
  <2>4. Fresh(id)'
    BY <1>6, <2>3
  <2>5. QED
    BY <2>2, <2>3, <2>4 DEF Fresh, Undelivered, Delivering
<1>9. OwnStart'
  BY <1>5 DEF OnceInv, OwnStart, Calm, Risky
<1>10. PartsOpen'
  BY DEF OnceInv, PartsOpen, Shrinks
<1>11. Spent'
  BY <1>1, <1>3, <1>5 DEF OnceInv, Spent, Undelivered, Shrinks
<1>12. Typing'
  BY WorkersAreThreads DEF Typing, Loop, Goto, TypeInv, TypeOK, ThreadsOK
<1>13. DeliveredOnce'
  <2>1. SUFFICES ASSUME NEW id \in Ids
                 PROVE  (log'[id]["typed"] + log'[id]["note"] <= 1) /\ log'[id]["history"] <= 1
    BY DEF DeliveredOnce, Delivered
  <2>2. CASE id = me
    BY <1>4, <2>2 DEF Outputs
  <2>3. CASE id # me
    BY <1>3, <2>3 DEF OnceInv, DeliveredOnce, Delivered
  <2>4. QED
    BY <2>2, <2>3
<1>14. QED
  BY <1>7, <1>8, <1>9, <1>10, <1>11, <1>12, <1>13 DEF OnceInv

LEMMA SessionTypeOnce ==
  ASSUME TypeInv, OnceInv, SessionType
  PROVE  OnceInv'
<1>1. Loop("worker") /\ pc["worker"] = "E4" /\ UNCHANGED <<gen, sess>>
  BY DEF SessionType, GiveUp, capture, sessions
<1>2. ~sess'[loc["worker"].id].open
  BY <1>1 DEF SessionType, OnceInv, Typing
<1>3. See(loc["worker"].id, {"history", "typed"}) \/ See(loc["worker"].id, {"history"})
  BY DEF SessionType
<1>4. QED
  <2>1. ~({"typed", "note"} \subseteq {"history", "typed"}) /\ ~({"typed", "note"} \subseteq {"history"})
    OBVIOUS
  <2>2. Shrinks
    BY <1>1, Unchanged
  <2>3. CASE See(loc["worker"].id, {"history", "typed"})
    BY <1>1, <1>2, <2>1, <2>2, <2>3, DeliverOnce
  <2>4. CASE See(loc["worker"].id, {"history"})
    BY <1>1, <1>2, <2>1, <2>2, <2>4, DeliverOnce
  <2>5. QED
    BY <1>3, <2>3, <2>4

LEMMA SessionSaveOnce ==
  ASSUME TypeInv, OnceInv, SessionSave
  PROVE  OnceInv'
<1>1. Loop("worker") /\ pc["worker"] = "E4" /\ UNCHANGED gen
  BY DEF SessionSave, GiveUp, capture
<1>2. Shrinks
  BY ClearedShrinks DEF SessionSave
<1>3. ~sess'[loc["worker"].id].open
  <2>1. loc["worker"].id \in Ids
    BY <1>1, WorkersAreThreads DEF TypeInv, HasId, Bound
  <2>2. QED
    BY <2>1 DEF SessionSave, Cleared, NoSession, TypeInv, TypeOK, SessionsOK
<1>4. See(loc["worker"].id, {"history", "note"}) \/ See(loc["worker"].id, {"note failed"})
  BY DEF SessionSave
<1>5. QED
  <2>1. ~({"typed", "note"} \subseteq {"history", "note"}) /\ ~({"typed", "note"} \subseteq {"note failed"})
    OBVIOUS
  <2>2. CASE See(loc["worker"].id, {"history", "note"})
    BY <1>1, <1>2, <1>3, <2>1, <2>2, DeliverOnce
  <2>3. CASE See(loc["worker"].id, {"note failed"})
    BY <1>1, <1>2, <1>3, <2>1, <2>3, DeliverOnce
  <2>4. QED
    BY <1>4, <2>2, <2>3

LEMMA WorkerOnce ==
  ASSUME TypeInv, OnceInv, WorkerSteps
  PROVE  OnceInv'
  BY TakeOnce, DecodeOnce, RecordPartOnce, SessionCheckOnce, SessionEmptyOnce,
     SessionCompleteOnce, SessionTypeOnce, SessionSaveOnce DEF WorkerSteps

-----------------------------------------------------------------------------
(* The theorem *)

LEMMA InitOnce == Init => OnceInv
<1> SUFFICES ASSUME Init PROVE OnceInv
  OBVIOUS
<1>1. \A id \in Ids : ~sess[id].open /\ sess[id].parts = <<>>
  BY DEF Init, NoSession
<1>2. \A id \in Ids, e \in Events : log[id][e] = 0
  BY DEF Init
<1>3. \A t \in Threads : pc[t] \in {"W0", "idle"}
  BY DEF Init
<1>4. \A id \in Ids : Fresh(id)
  BY <1>1, <1>2, <1>3, WorkersAreThreads DEF Fresh, Undelivered, Delivering, Outputs, Events
<1>5. FreshAhead /\ FreshStart /\ OwnStart /\ Typing
  BY <1>3, <1>4, WorkersAreThreads DEF FreshAhead, FreshStart, OwnStart, Typing
<1>6. PartsOpen /\ Spent
  BY <1>1, <1>4 DEF PartsOpen, Spent, Fresh
<1>7. DeliveredOnce
  <2>1. \A id \in Ids : log[id]["typed"] = 0 /\ log[id]["note"] = 0 /\ log[id]["history"] = 0
    BY <1>2 DEF Events
  <2>2. QED
    BY <2>1 DEF DeliveredOnce, Delivered
<1>8. QED
  BY <1>5, <1>6, <1>7 DEF OnceInv

LEMMA NextOnce == TypeInv /\ OnceInv /\ [Next]_vars => OnceInv'
<1> SUFFICES ASSUME TypeInv, OnceInv, [Next]_vars PROVE OnceInv'
  OBVIOUS
<1>1. ASSUME NEW t \in Threads, Step(t) PROVE OnceInv'
  BY <1>1, StartOnce, FinalizeOnce, PauseOnce, ResumeOnce, StopOnce, CancelOnce, FailOnce,
     CleanupOnce, WorkerOnce, ShutdownOnce DEF Step
<1>2. CASE User
  BY <1>2, UserOnce
<1>3. CASE UNCHANGED vars
  <2>1. UNCHANGED <<gen, sess, log, pc, loc>>
    BY <1>3 DEF vars, threads, capture, sessions, outcome
  <2>2. QED
    BY <2>1, Frame, Unchanged
<1>4. QED
  BY <1>1, <1>2, <1>3 DEF Next, Resting

\* DeliveredOnce holds of every daemon: whatever the UI, the shortcut, the tray
\* and the failures interleave, the worker types or saves a recording, and puts
\* it in the history, at most once.
THEOREM DeliveredAtMostOnce == Spec => []DeliveredOnce
<1>1. Init => TypeInv /\ OnceInv
  BY InitType, InitOnce
<1>2. TypeInv /\ OnceInv /\ [Next]_vars => (TypeInv /\ OnceInv)'
  BY NextType, NextOnce
<1>3. TypeInv /\ OnceInv => DeliveredOnce
  BY DEF OnceInv
<1>4. QED
  BY <1>1, <1>2, <1>3, PTL DEF Spec

-----------------------------------------------------------------------------
(* Nothing is delivered after a failure: where the threads can be *)

LEMMA NoCancelStep ==
  ASSUME NoCancel, NEW t \in Threads
  PROVE  ~CancelSteps(t)
  BY DEF NoCancel, Discards, CancelSteps, CancelLock, CancelCheck, CancelDelete, CancelMark,
     CancelDrainPartials, CancelRestorePartials, CancelDrainFinals, CancelRestoreFinals, CancelEnd, Acquire

LEMMA ReturnLabels ==
  ASSUME TypeInv, NEW t \in Threads
  PROVE  /\ loc[t].back \notin Discards \cup Tender \cup {"S2"}
         /\ loc[t].ret \notin Discards \cup Tender \cup {"S2"}
  BY LocalsOf DEF Locals, Returns, Discards, Tender

LEMMA CalmGoes ==
  ASSUME TypeInv, NoCancel, NEW t \in Threads, Step(t), ~Tends(t), ~StartCheck(t),
         ~(t = "worker" /\ WorkerSteps)
  PROVE  \E label : label \notin Discards \cup Tender \cup {"S2"} /\ Goto(t, label)
<1>1. CASE StartLock(t) \/ StartCapture(t) \/ FinalizeSteps(t)
  BY <1>1, ReturnLabels DEF StartLock, StartCapture, FinalizeSteps, FinalizeLock,
     FinalizeEnd, FinalizeFailed, Acquire, Leave, Return, Tends, Discards, Tender
<1>2. CASE PauseSteps(t) \/ ResumeSteps(t) \/ StartNote(t) \/ Toggle(t)
  BY <1>2, ReturnLabels DEF PauseSteps, PauseLock, PauseEnd, ResumeSteps, ResumeLock,
     Resume, StartNote, Toggle, Begin, Acquire, Leave, Return, Tends, Discards, Tender
<1>3. CASE StopSteps(t)
  BY <1>3, ReturnLabels DEF StopSteps, StopLock, StopCheck, StopEnd, Acquire, Return, Tends, Discards, Tender
<1>4. CASE FailSteps(t) \/ (t = "cleaner" /\ CleanupSteps) \/ (t = "tray" /\ ShutdownSteps)
  BY <1>4, ReturnLabels DEF FailSteps, FailEnd, FailReturn,
     CleanupSteps, CleanupLock, CleanupStop, CleanupEnd, Leave, Return,
     ShutdownSteps, ShutdownHotkey, ShutdownQueue, Tends, Discards, Tender
<1>5. QED
  BY <1>1, <1>2, <1>3, <1>4, NoCancelStep DEF Step, StartSteps

LEMMA CalmLabels ==
  ASSUME TypeInv, NoCancel, NEW t \in Threads, Step(t), ~Tends(t), ~StartCheck(t),
         ~(t = "worker" /\ WorkerSteps)
  PROVE  pc'[t] \notin Discards \cup Tender \cup {"S2"}
<1>1. \E label : label \notin Discards \cup Tender \cup {"S2"} /\ Goto(t, label)
  BY CalmGoes, Zenon
<1>2. QED
  BY <1>1 DEF Goto, TypeInv, TypeOK, ThreadsOK

LEMMA TenderLabels ==
  ASSUME TypeInv, NEW t \in Threads
  PROVE  /\ StartCheck(t) => pc'[t] \in {"idle", "D1", "S2"}
         /\ FinalizeStop(t) => pc'[t] \in {"idle", "D1", "Z2", "F1"}
         /\ FinalizeQueue(t) => pc'[t] \in {"idle", "D1", "Z3", "F1"}
         /\ PauseStop(t) => pc'[t] \in {"idle", "D1", "P2"}
         /\ PauseQueue(t) => pc'[t] \in {"idle", "D1", "P3"}
         /\ StopPaused(t) => pc'[t] \in {"idle", "D1", "T3"}
         /\ StopQueue(t) => pc'[t] \in {"T4", "F1"}
         /\ FailCheck(t) => pc'[t] \in {loc[t].ret, "F2"}
         /\ FailRead(t) => pc'[t] = "F3"
         /\ FailMark(t) => pc'[t] = "F4"
         /\ FailEnd(t) => pc'[t] = loc[t].ret
<1>1. \A label : Goto(t, label) => pc'[t] = label
  BY DEF Goto, TypeInv, TypeOK, ThreadsOK
<1>2. Return(t) => pc'[t] \in {"idle", "D1"}
  BY ReturnOnly
<1>3. StartCheck(t) => pc'[t] \in {"idle", "D1", "S2"}
  BY <1>1, <1>2 DEF StartCheck, Leave
<1>4. FinalizeStop(t) => pc'[t] \in {"idle", "D1", "Z2", "F1"}
  BY <1>1, <1>2 DEF FinalizeStop, Leave
<1>5. FinalizeQueue(t) => pc'[t] \in {"idle", "D1", "Z3", "F1"}
  BY <1>1, <1>2 DEF FinalizeQueue, Leave, Fail
<1>6. PauseStop(t) => pc'[t] \in {"idle", "D1", "P2"}
  BY <1>1, <1>2 DEF PauseStop, Leave
<1>7. PauseQueue(t) => pc'[t] \in {"idle", "D1", "P3"}
  BY <1>1, <1>2 DEF PauseQueue, Leave
<1>8. StopPaused(t) => pc'[t] \in {"idle", "D1", "T3"}
  BY <1>1, <1>2 DEF StopPaused, StopOvertaken
<1>9. StopQueue(t) => pc'[t] \in {"T4", "F1"}
  BY <1>1 DEF StopQueue, Fail
<1>10. /\ FailCheck(t) => pc'[t] \in {loc[t].ret, "F2"}
       /\ FailRead(t) => pc'[t] = "F3"
       /\ FailMark(t) => pc'[t] = "F4"
       /\ FailEnd(t) => pc'[t] = loc[t].ret
  BY <1>1 DEF FailCheck, FailRead, FailMark, FailEnd, FailReturn
<1>11. QED
  BY <1>3, <1>4, <1>5, <1>6, <1>7, <1>8, <1>9, <1>10

LEMMA CancelKept ==
  ASSUME TypeInv, LocksOwned, NoCancel, NEW t \in Threads, Step(t)
  PROVE  NoCancel'
<1>1. pc'[t] \notin Discards => NoCancel'
  BY StepLocks DEF NoCancel, OnlyMoves, LockStep
<1>2. CASE t = "worker" /\ WorkerSteps
  BY <1>1, <1>2, WorkerOnly DEF Looping, Discards
<1>3. CASE ~(t = "worker" /\ WorkerSteps)
  <2>1. pc'[t] \notin Discards
    BY <1>3, CalmLabels, TenderLabels, ReturnLabels DEF Tends, Discards
  <2>2. QED
    BY <1>1, <2>1
<1>4. QED
  BY <1>2, <1>3

LEMMA CancelNotAsked ==
  ASSUME TypeInv, NoCancel, "cancel" \notin Ops, User
  PROVE  NoCancel'
<1>1. CASE Press \/ Release \/ Silence \/ \E t \in UIs : NoteRequest(t)
  <2>1. PICK t, label : label \notin Discards /\ Goto(t, label)
    BY <1>1 DEF Press, Release, OnRelease, Silence, NoteRequest, Operation, Entry, Begin, Discards
  <2>2. QED
    BY <2>1 DEF NoCancel, Goto, TypeInv, TypeOK, ThreadsOK
<1>2. CASE Deactivate \/ SetCombo \/ Shutdown
  <2>1. PICK label : label \notin Discards /\ Goto("tray", label)
    BY <1>2 DEF Deactivate, SetCombo, Shutdown, FinalizeIfRecording, Discards
  <2>2. QED
    BY <2>1 DEF NoCancel, Goto, TypeInv, TypeOK, ThreadsOK
<1>3. CASE Activate \/ SwitchModel
  BY <1>3 DEF Activate, SwitchModel, NoCancel, threads
<1>4. QED
  BY <1>1, <1>2, <1>3 DEF User

\* The worker stays in its loop and in the failure handler.
LEMMA WorkerIs ==
  ASSUME TypeInv, WorkerAt, Step("worker")
  PROVE  WorkerSteps \/ FailSteps("worker")
<1> DEFINE t == "worker"
<1>1. pc[t] \in Looping \cup Handler /\ t \in Threads
  BY WorkersAreThreads DEF WorkerAt
<1>2. ~StartSteps(t) /\ ~FinalizeSteps(t)
  BY <1>1 DEF Looping, Handler, StartSteps, StartLock, StartCheck, StartCapture, FinalizeSteps,
     FinalizeLock, FinalizeStop, FinalizeQueue, FinalizeEnd, FinalizeFailed, Acquire
<1>3. ~(PauseSteps(t) \/ ResumeSteps(t) \/ StartNote(t) \/ Toggle(t) \/ StopSteps(t))
  BY <1>1 DEF Looping, Handler, PauseSteps, PauseLock, PauseStop, PauseQueue, PauseEnd, ResumeSteps,
     ResumeLock, Resume, StartNote, Toggle, StopSteps, StopLock, StopCheck, StopPaused, StopQueue,
     StopEnd, Acquire
<1>4. ~CancelSteps(t)
  BY <1>1 DEF Looping, Handler, CancelSteps, CancelLock, CancelCheck, CancelDelete, CancelMark,
     CancelDrainPartials, CancelRestorePartials, CancelDrainFinals, CancelRestoreFinals, CancelEnd, Acquire
<1>5. QED
  BY <1>1, <1>2, <1>3, <1>4 DEF Step

LEMMA FailKeepsFinal ==
  ASSUME TypeInv, NEW t \in Threads, FailSteps(t)
  PROVE  \/ pc'[t] = loc[t].ret /\ (loc[t].ret # "W0" => loc'[t].final = loc[t].final)
         \/ pc'[t] \in Handler /\ loc'[t].final = loc[t].final /\ loc'[t].ret = loc[t].ret
<1>1. CASE FailReturn(t)
  BY <1>1, LocalsOf DEF FailReturn, Goto, Locals, TypeInv, TypeOK, ThreadsOK
<1>2. CASE ~FailReturn(t)
  <2>1. CASE FailCheck(t)
    BY <1>2, <2>1, LocalsOf DEF FailCheck, Goto, Handler, Locals, TypeInv, TypeOK, ThreadsOK
  <2>2. CASE FailRead(t)
    BY <2>2, LocalsOf DEF FailRead, Goto, Handler, Locals, TypeInv, TypeOK, ThreadsOK
  <2>3. CASE FailMark(t)
    BY <2>3, LocalsOf DEF FailMark, Goto, Handler, Locals, TypeInv, TypeOK, ThreadsOK
  <2>4. QED
    BY <1>2, <2>1, <2>2, <2>3 DEF FailSteps, FailEnd
<1>3. QED
  BY <1>1, <1>2

LEMMA WorkerFinal ==
  ASSUME TypeInv, WorkerAt, Heard, WorkerSteps
  PROVE  WorkerAt'
<1> DEFINE w == "worker"
<1>0. w \in Threads /\ OnlyMoves(w) /\ pc[w] \in Looping
  BY WorkersAreThreads, WorkerOnly
<1>1. CASE Loop(w)
  BY <1>0, <1>1, LoopOnly DEF WorkerAt, Looping, Handler
<1>2. ASSUME NEW hard, NEW ret \in {"W0", "E1"}, Fail(w, loc[w].id, hard, ret), ret = "E1" => loc[w].final
      PROVE  WorkerAt'
  <2>1. pc'[w] = "F1" /\ loc'[w].ret = ret
    BY <1>0, <1>2, FailOnly
  <2>2. loc'[w].final = loc[w].final
    BY <1>0, <1>2, LocalsOf DEF Fail, Locals, TypeInv, TypeOK, ThreadsOK
  <2>3. QED
    BY <1>2, <2>1, <2>2 DEF WorkerAt, Handler
<1>3. ASSUME NEW label \in Looping, Goto(w, label), loc'[w].final = loc[w].final,
             label \in {"E1", "E2", "E3", "E4"} => loc[w].final
      PROVE  WorkerAt'
  BY <1>0, <1>3 DEF Goto, WorkerAt, Looping, Handler, TypeInv, TypeOK, ThreadsOK
<1>4. CASE TakePartial \/ TakeFinal
  <2>1. pc'[w] \in {"W0", "W1", "H1", "exited"}
    BY <1>0, <1>4 DEF TakePartial, TakeFinal, Goto, TypeInv, TypeOK, ThreadsOK
  <2>2. QED
    BY <2>1 DEF WorkerAt, Looping, Handler
<1>5. CASE Handle
  BY <1>1, <1>3, <1>5 DEF Handle, HandleEmpty, Looping, Heard
<1>6. CASE DecodeStart \/ DecodeEnd \/ RecordGuard \/ RecordSegment \/ RecordPart
  BY <1>1, <1>2, <1>3, <1>6 DEF DecodeStart, DecodeEnd, RecordGuard, RecordSegment, RecordPart, Looping
<1>7. CASE SessionCheck
  <2>1. CASE ~Loop(w)
    <3>1. loc'[w].final = loc[w].final
      BY <1>0, <1>7, <2>1, LocalsOf DEF SessionCheck, Locals, TypeInv, TypeOK, ThreadsOK
    <3>2. loc[w].final
      BY <1>7 DEF SessionCheck, WorkerAt
    <3>3. QED
      BY <1>3, <1>7, <2>1, <3>1, <3>2 DEF SessionCheck, Looping
  <2>2. QED
    BY <1>1, <2>1
<1>8. CASE SessionComplete
  <2>1. loc'[w].final = loc[w].final
    BY <1>0, <1>8, LocalsOf DEF SessionComplete, Locals, TypeInv, TypeOK, ThreadsOK
  <2>2. QED
    BY <1>3, <1>8, <2>1 DEF SessionComplete, WorkerAt, Looping
<1>9. CASE SessionEmpty \/ SessionType \/ SessionSave
  BY <1>1, <1>9 DEF SessionEmpty, SessionType, SessionSave, GiveUp
<1>10. QED
  BY <1>4, <1>5, <1>6, <1>7, <1>8, <1>9 DEF WorkerSteps

LEMMA WorkerAtKept ==
  ASSUME TypeInv, LocksOwned, WorkerAt, Heard, NEW t \in Threads, Step(t)
  PROVE  WorkerAt'
<1>1. CASE t # "worker"
  BY <1>1, StepLocks, WorkersAreThreads DEF LockStep, OnlyMoves, WorkerAt
<1>2. CASE t = "worker" /\ WorkerSteps
  BY <1>2, WorkerFinal
<1>3. CASE t = "worker" /\ FailSteps("worker")
  <2>1. pc["worker"] \in Handler
    BY <1>3 DEF FailSteps, FailCheck, FailRead, FailMark, FailEnd, Handler
  <2>2. QED
    BY <1>3, <2>1, FailKeepsFinal DEF WorkerAt, Looping, Handler
<1>4. QED
  BY <1>1, <1>2, <1>3, WorkerIs

LEMMA HeardKept ==
  ASSUME TypeInv, LocksOwned, WorkerAt, Heard, NEW t \in Threads, Step(t), ~CancelRestorePartials(t)
  PROVE  Heard'
<1>1. partialQ \in Seq(Items) /\ Heard
  BY QueueTypes
<1>2. \A i \in DOMAIN partialQ' : partialQ'[i].captures # <<>>
  <2>1. CASE PauseQueue(t)
    <3> DEFINE chunk == [id |-> loc[t].id, captures |-> loc[t].captures]
               kept  == IF Len(partialQ) < PartialCap THEN partialQ ELSE Tail(partialQ)
    <3>1. partialQ' = partialQ \/ (partialQ' = Append(kept, chunk) /\ loc[t].captures # <<>>)
      BY <2>1 DEF PauseQueue
    <3>2. chunk \in Items /\ chunk.captures = loc[t].captures
      BY <2>1, LocalsOf DEF PauseQueue, TypeInv, HasId, Bound, Locals, Items, Chunks
    <3>3. kept \in Seq(Items) /\ \A i \in DOMAIN kept : kept[i].captures # <<>>
      <4>1. ~(Len(partialQ) < PartialCap) => partialQ # <<>>
        BY <1>1, BoundsAssumption
      <4>2. partialQ # <<>> => /\ Tail(partialQ) \in Seq(Items)
                               /\ \A i \in DOMAIN Tail(partialQ) : Tail(partialQ)[i].captures # <<>>
        BY <1>1 DEF Heard
      <4>3. QED
        BY <1>1, <4>1, <4>2 DEF Heard
    <3> HIDE DEF chunk, kept
    <3>4. partialQ' = Append(kept, chunk) => \A i \in DOMAIN partialQ' :
             \/ i \in DOMAIN kept /\ partialQ'[i] = kept[i]
             \/ partialQ'[i] = chunk
      BY <3>2, <3>3
    <3>5. QED
      BY <1>1, <3>1, <3>2, <3>3, <3>4 DEF Heard
  <2>2. CASE ~PauseQueue(t)
    <3>1. \/ UNCHANGED partialQ \/ partialQ' = <<>>
          \/ partialQ # <<>> /\ partialQ' = Tail(partialQ)
      BY <2>2, PartialsShrink
    <3>2. QED
      BY <1>1, <3>1 DEF Heard
  <2>3. QED
    BY <2>1, <2>2
<1>3. pc'["worker"] = "H1" /\ loc'["worker"].captures = <<>> => loc'["worker"].final
  <2>0. "worker" \in Threads /\ OnlyMoves(t)
    BY WorkersAreThreads, StepLocks DEF LockStep
  <2>1. CASE t # "worker"
    BY <1>1, <2>0, <2>1 DEF OnlyMoves, Heard
  <2>2. CASE t = "worker" /\ WorkerSteps
    <3>1. CASE TakePartial /\ partialQ # <<>> /\ TakeChunk(FALSE, Head(partialQ))
      <4>1. loc'["worker"].captures = Head(partialQ).captures
        BY <2>0, <3>1, LocalsOf DEF TakeChunk, Locals, TypeInv, TypeOK, ThreadsOK
      <4>2. QED
        BY <1>1, <3>1, <4>1 DEF Heard
    <3>2. CASE TakeFinal /\ TakeChunk(TRUE, Head(finalQ))
      BY <2>0, <3>2, LocalsOf DEF TakeChunk, Locals, TypeInv, TypeOK, ThreadsOK
    <3>3. CASE \E label : label # "H1" /\ Goto("worker", label)
      BY <2>0, <3>3 DEF Goto, TypeInv, TypeOK, ThreadsOK
    <3>4. QED
      BY <2>2, <3>1, <3>2, <3>3 DEF WorkerSteps, TakePartial, TakeFinal, Handle, HandleEmpty, DecodeStart,
         DecodeEnd, RecordGuard, RecordSegment, RecordPart, SessionCheck, SessionEmpty,
         SessionComplete, SessionType, SessionSave, GiveUp, Loop, Fail
  <2>3. CASE t = "worker" /\ FailSteps("worker")
    <3>1. pc'["worker"] \in Returns \cup Handler
      BY <2>0, <2>3, FailKeepsFinal, LocalsOf DEF Locals
    <3>2. QED
      BY <3>1 DEF Returns, Handler
  <2>4. QED
    BY <2>1, <2>2, <2>3, WorkerIs
<1>4. QED
  BY <1>2, <1>3 DEF Heard

LEMMA UserPlace ==
  ASSUME TypeInv, PlaceInv, "cancel" \notin Ops, User
  PROVE  PlaceInv' /\ pc'["worker"] = pc["worker"] /\ loc'["worker"] = loc["worker"]
<1>1. "worker" \in Threads /\ pc["worker"] # "idle"
  BY WorkersAreThreads DEF PlaceInv, WorkerAt, Looping, Handler
<1>2. pc'["worker"] = pc["worker"] /\ loc'["worker"] = loc["worker"]
  BY <1>1, UserOnly DEF OnlyMoves, threads
<1>3. UNCHANGED partialQ
  BY DEF User, Press, Release, NoteRequest, Silence, Deactivate, Activate, SetCombo, SwitchModel,
     Shutdown, queues
<1>4. QED
  BY <1>2, <1>3, CancelNotAsked DEF PlaceInv, WorkerAt, Heard

-----------------------------------------------------------------------------
(* Nothing is delivered after a failure: the microphone and the pause *)

LEMMA MicOff ==
  ASSUME TypeInv, NEW t \in Threads, Step(t), ~StartCapture(t), ~Resume(t)
  PROVE  recOn' => recOn
  BY CaptureFrame DEF StartCheck

LEMMA PauseOver ==
  ASSUME TypeInv, NEW t \in Threads, Step(t), ~PauseEnd(t)
  PROVE  paused' => paused
  BY CaptureFrame DEF StartCheck, StartCapture, Resume

LEMMA MicSteps ==
  ASSUME TypeInv, NEW t \in Threads, Step(t)
  PROVE  /\ ~StartCapture(t) /\ ~Resume(t) => (recOn' => recOn)
         /\ ~PauseEnd(t) => (paused' => paused)
         /\ StartCapture(t) => paused' = paused /\ Holds(t) /\ pc[t] = "S2"
         /\ Resume(t) => Holds(t) /\ pc[t] = "R1" /\ (recOn' # recOn => paused /\ ~paused')
         /\ PauseEnd(t) => recOn' = recOn /\ Holds(t) /\ pc[t] = "P3"
<1>1. StartCapture(t) => paused' = paused /\ Holds(t) /\ pc[t] = "S2"
  BY DEF StartCapture, Holds, Inside
<1>2. Resume(t) => Holds(t) /\ pc[t] = "R1" /\ (recOn' # recOn => paused /\ ~paused')
  BY DEF Resume, Holds, Inside
<1>3. PauseEnd(t) => recOn' = recOn /\ Holds(t) /\ pc[t] = "P3"
  BY DEF PauseEnd, Holds, Inside
<1>4. QED
  BY <1>1, <1>2, <1>3, MicOff, PauseOver

LEMMA MicStep ==
  ASSUME TypeInv, LocksOwned, PlaceInv, MicInv, NEW t \in Threads, Step(t)
  PROVE  MicInv'
<1>0. LockStep(t) /\ OnlyMoves(t) /\ NoCancel /\ PauseOff /\ Still(t)
  BY StepLocks DEF LockStep, PlaceInv, MicInv
<1>t. paused \in BOOLEAN /\ recOn \in BOOLEAN
  BY DEF TypeInv, TypeOK, CaptureOK
<1>1. PauseOff'
  <2>1. CASE StartCapture(t)
    BY <1>0, <2>1, MicSteps DEF PauseOff, Still
  <2>2. CASE Resume(t)
    BY <1>0, <1>t, <2>2, MicSteps DEF PauseOff, PauseEnd
  <2>3. CASE PauseEnd(t)
    BY <1>0, <2>3, MicSteps DEF PauseOff, Still
  <2>4. CASE ~(StartCapture(t) \/ Resume(t) \/ PauseEnd(t))
    BY <1>0, <2>4, MicSteps DEF PauseOff
  <2>5. QED
    BY <2>1, <2>2, <2>3, <2>4
<1>2. ASSUME NEW u \in Threads, u # t PROVE Still(u)'
  <2>1. pc'[u] = pc[u] /\ loc'[u] = loc[u] /\ Still(u)
    BY <1>0, <1>2 DEF OnlyMoves, MicInv
  <2>2. CASE Holds(t)
    <3>1. pc[u] \notin {"P2", "P3", "S2", "Z2"}
      BY <1>2, <2>2 DEF LocksOwned, CtlOwned, Holds, Inside
    <3>2. QED
      BY <2>1, <3>1 DEF Still
  <2>3. CASE ~Holds(t)
    BY <1>0, <2>1, <2>3, MicSteps DEF Still
  <2>4. QED
    BY <2>2, <2>3
<1>3. Still(t)'
  <2> DEFINE label == pc'[t]
  <2>1. CASE StartCheck(t)
    <3>1. label = "S2" => ~paused' /\ ~recOn'
      BY <2>1, ReturnOnly DEF StartCheck, Leave
    <3>2. QED
      BY <2>1, <3>1, TenderLabels DEF Still
  <2>2. CASE FinalizeStop(t)
    <3>1. label = "Z2" => /\ ~recOn' /\ paused' = paused
                          /\ \E audio \in {<<>>} \cup (IF recOn THEN {<<caps>>} ELSE {}) :
                               loc' = [loc EXCEPT ![t].id = activeId, ![t].mode = ModeOf(activeId), ![t].captures = audio]
      <4>1. Goto(t, "F1") => label = "F1"
        BY DEF Goto, TypeInv, TypeOK, ThreadsOK
      <4>2. Leave(t) => label \in {"idle", "D1"}
        BY ReturnOnly DEF Leave
      <4>3. QED
        BY <2>2, <4>1, <4>2 DEF FinalizeStop
    <3>2. ASSUME NEW audio, loc' = [loc EXCEPT ![t].id = activeId, ![t].mode = ModeOf(activeId), ![t].captures = audio]
          PROVE  loc'[t].captures = audio
      BY <3>2, LocalsOf DEF Locals, TypeInv, TypeOK, ThreadsOK
    <3>3. label = "Z2" /\ loc'[t].captures # <<>> => recOn
      BY <3>1, <3>2
    <3>4. QED
      BY <1>0, <2>2, <3>1, <3>3, TenderLabels DEF Still, PauseOff
  <2>3. CASE PauseStop(t)
    <3>1. label = "P2" => ~paused' /\ ~recOn'
      BY <2>3, ReturnOnly DEF PauseStop, Leave
    <3>2. QED
      BY <2>3, <3>1, TenderLabels DEF Still
  <2>4. CASE PauseQueue(t)
    <3>1. pc[t] = "P2" /\ UNCHANGED capture
      BY <2>4 DEF PauseQueue
    <3>2. QED
      BY <1>0, <2>4, <3>1, TenderLabels DEF Still, capture
  <2>5. CASE t = "worker" /\ WorkerSteps
    BY <2>5, WorkerOnly DEF Still, Looping
  <2>6. CASE ~StartCheck(t) /\ ~FinalizeStop(t) /\ ~PauseStop(t) /\ ~PauseQueue(t) /\ ~(t = "worker" /\ WorkerSteps)
    <3>1. label \notin {"Z2", "P2", "P3", "S2"}
      BY <1>0, <2>6, CalmLabels, TenderLabels, LocalsOf DEF Tends, Tender, Locals, Returns
    <3>2. QED
      BY <3>1 DEF Still
  <2>7. QED
    BY <2>1, <2>2, <2>3, <2>4, <2>5, <2>6
<1>4. QED
  BY <1>1, <1>2, <1>3 DEF MicInv

LEMMA UserMic == TypeInv /\ MicInv /\ User => MicInv'
<1> SUFFICES ASSUME TypeInv, MicInv, User PROVE MicInv'
  OBVIOUS
<1>1. UNCHANGED <<paused, recOn>>
  BY DEF User, Press, Release, NoteRequest, Silence, Deactivate, Activate, SetCombo, SwitchModel,
     Shutdown, capture
<1>2. \A t \in Threads : pc'[t] \in {"P2", "P3", "S2", "Z2"} => pc'[t] = pc[t] /\ loc'[t] = loc[t]
  BY UserOnly DEF OnlyMoves, Outside, threads
<1>3. QED
  BY <1>1, <1>2 DEF MicInv, PauseOff, Still

-----------------------------------------------------------------------------
(* Nothing is delivered after a failure: a recording is closed once *)

LEMMA OverPast ==
  ASSUME TypeInv, PastInv, PlaceInv, NEW id \in Ids, Over(id)
  PROVE  id <= Begun
<1>1. CASE Ends(id)
  BY <1>1, WorkersAreThreads DEF Ends, Working, PastInv, PastAt
<1>2. CASE Queued(id)
  BY <1>2 DEF Queued, PastInv, PastAt, AllPast
<1>3. ASSUME NEW t \in NotWorker, Closes(t, id) PROVE id <= Begun
  BY <1>3 DEF NotWorker, Closes, PastInv, PastAt
<1>4. QED
  BY <1>1, <1>2, <1>3 DEF Over

LEMMA SameEnds ==
  ASSUME OneEnd, NEW t \in NotWorker, OnlyMoves(t), UNCHANGED finalQ,
         \A id \in Ids : Closes(t, id)' => Closes(t, id)
  PROVE  OneEnd' /\ NoNewEnd
<1>1. "worker" \in Threads \ {t} /\ t \in Threads
  BY WorkersAreThreads DEF NotWorker
<1>2. \A id \in Ids : (Ends(id)' <=> Ends(id)) /\ (Queued(id)' <=> Queued(id))
  BY <1>1 DEF OnlyMoves, Ends, Queued
<1>3. \A u \in NotWorker, id \in Ids : Closes(u, id)' => Closes(u, id)
  BY DEF OnlyMoves, Closes, NotWorker
<1>4. QED
  BY <1>2, <1>3 DEF OneEnd, NoNewEnd, Over

LEMMA NewEnd ==
  ASSUME OneEnd, NEW t \in NotWorker, OnlyMoves(t), UNCHANGED finalQ, NEW a, a \in Ids => ~Over(a),
         \A id \in Ids : Closes(t, id)' => id = a
  PROVE  OneEnd' /\ \A id \in Ids : Over(id)' => Over(id) \/ id = a
<1>1. "worker" \in Threads \ {t} /\ t \in Threads
  BY WorkersAreThreads DEF NotWorker
<1>2. \A id \in Ids : (Ends(id)' <=> Ends(id)) /\ (Queued(id)' <=> Queued(id))
  BY <1>1 DEF OnlyMoves, Ends, Queued
<1>3. \A u \in NotWorker \ {t}, id \in Ids : Closes(u, id)' => Closes(u, id)
  BY DEF OnlyMoves, Closes, NotWorker
<1>4. QED
  BY <1>2, <1>3 DEF OneEnd, Over

LEMMA AppendItem ==
  ASSUME NEW q \in Seq(Items), NEW item \in Items
  PROVE  \A i \in DOMAIN Append(q, item) :
           \/ i \in DOMAIN q /\ Append(q, item)[i] = q[i]
           \/ i = Len(q) + 1 /\ Append(q, item)[i] = item
  OBVIOUS

LEMMA QueueEnd ==
  ASSUME TypeInv, OneEnd, NEW t \in NotWorker, OnlyMoves(t), NEW a \in Ids, Closes(t, a),
         \A id \in Ids : ~Closes(t, id)',
         NEW item \in Items, item.id = a, finalQ' = Append(finalQ, item)
  PROVE  OneEnd' /\ NoNewEnd
<1>1. "worker" \in Threads \ {t} /\ t \in Threads
  BY WorkersAreThreads DEF NotWorker
<1>2. \A id \in Ids : Ends(id)' <=> Ends(id)
  BY <1>1 DEF OnlyMoves, Ends
<1>3. \A u \in NotWorker, id \in Ids : Closes(u, id)' => u # t /\ Closes(u, id)
  BY DEF OnlyMoves, Closes, NotWorker
<1>4. \A i \in DOMAIN finalQ' :
         \/ i \in DOMAIN finalQ /\ finalQ'[i] = finalQ[i]
         \/ i = Len(finalQ) + 1 /\ finalQ'[i].id = a
  <2>1. finalQ \in Seq(Items)
    BY QueueTypes
  <2>2. QED
    BY <2>1, AppendItem
<1>5. \A id \in Ids : Queued(id)' => Queued(id) \/ id = a
  BY <1>4 DEF Queued
<1>6. ~Queued(a) /\ ~Ends(a)
  BY DEF OneEnd
<1>7. \A id \in Ids : \A i, j \in DOMAIN finalQ' : finalQ'[i].id = id /\ finalQ'[j].id = id => i = j
  BY <1>4, <1>6 DEF OneEnd, Queued
<1>8. QED
  BY <1>2, <1>3, <1>5, <1>6, <1>7 DEF OneEnd, NoNewEnd, Over

LEMMA WorkEnd ==
  ASSUME OneEnd, OnlyMoves("worker"), UNCHANGED finalQ,
         \A id \in Ids : Ends(id)' => Ends(id)
  PROVE  OneEnd' /\ NoNewEnd
<1>1. \A id \in Ids : Queued(id)' <=> Queued(id)
  BY DEF Queued
<1>2. \A u \in NotWorker, id \in Ids : Closes(u, id)' <=> Closes(u, id)
  BY DEF OnlyMoves, Closes, NotWorker
<1>3. QED
  BY <1>1, <1>2 DEF OneEnd, NoNewEnd, Over

LEMMA TakeEnd ==
  ASSUME TypeInv, OneEnd, OnlyMoves("worker"), finalQ # <<>>, finalQ' = Tail(finalQ),
         \A id \in Ids : Ends(id)' => id = Head(finalQ).id
  PROVE  OneEnd' /\ NoNewEnd
<1>1. finalQ \in Seq(Items)
  BY QueueTypes
<1>2. /\ 1 \in DOMAIN finalQ /\ Head(finalQ) = finalQ[1]
      /\ \A i \in DOMAIN finalQ' : i + 1 \in DOMAIN finalQ /\ finalQ'[i] = finalQ[i + 1] /\ i + 1 # 1 /\ i \in Nat
  BY <1>1
<1>3. \A id \in Ids : Queued(id)' => Queued(id) /\ id # Head(finalQ).id
  BY <1>2 DEF Queued, OneEnd
<1>4. \A id \in Ids : id = Head(finalQ).id => Queued(id)
  BY <1>2 DEF Queued
<1>5. \A u \in NotWorker, id \in Ids : Closes(u, id)' <=> Closes(u, id)
  BY DEF OnlyMoves, Closes, NotWorker
<1>6. \A id \in Ids : \A i, j \in DOMAIN finalQ' : finalQ'[i].id = id /\ finalQ'[j].id = id => i = j
  <2>1. SUFFICES ASSUME NEW id \in Ids, NEW i \in DOMAIN finalQ', NEW j \in DOMAIN finalQ',
                        finalQ'[i].id = id, finalQ'[j].id = id
                 PROVE  i = j
    OBVIOUS
  <2>2. i + 1 = j + 1 /\ i \in Nat /\ j \in Nat
    BY <1>2, <2>1 DEF OneEnd
  <2>3. QED
    BY <2>2
<1>7. QED
  BY <1>3, <1>4, <1>5, <1>6 DEF OneEnd, NoNewEnd, Over

LEMMA SignalEnd ==
  ASSUME TypeInv, OneEnd, NEW t \in NotWorker, OnlyMoves(t), \A id \in Ids : ~Closes(t, id)',
         NEW q \in {finalQ, <<>>}, finalQ' = Append(q, StopSignal)
  PROVE  OneEnd' /\ NoNewEnd
<1>1. "worker" \in Threads \ {t} /\ t \in Threads
  BY WorkersAreThreads DEF NotWorker
<1>2. \A id \in Ids : Ends(id)' <=> Ends(id)
  BY <1>1 DEF OnlyMoves, Ends
<1>3. \A u \in NotWorker, id \in Ids : Closes(u, id)' => Closes(u, id)
  BY DEF OnlyMoves, Closes, NotWorker
<1>4. q \in Seq(Items) /\ StopSignal \in Items /\ StopSignal.id \notin Ids
  <2>1. finalQ \in Seq(Items) /\ <<>> \in Seq(Items)
    BY QueueTypes
  <2>2. StopSignal \in Items /\ StopSignal.id = NoId
    BY DEF Items, StopSignal
  <2>3. QED
    BY <2>1, <2>2, IdsType
<1>5. \A i \in DOMAIN finalQ' : finalQ'[i].id \in Ids =>
         i \in DOMAIN finalQ /\ finalQ'[i].id = finalQ[i].id
  <2>1. \A i \in DOMAIN finalQ' : finalQ'[i].id \in Ids => i \in DOMAIN q /\ finalQ'[i].id = q[i].id
    BY <1>4, AppendItem
  <2>2. QED
    BY <2>1
<1>6. \A id \in Ids : Queued(id)' => Queued(id)
  BY <1>5 DEF Queued
<1>7. QED
  BY <1>2, <1>3, <1>5, <1>6 DEF OneEnd, NoNewEnd, Over

LEMMA FinalsSame ==
  ASSUME TypeInv, NoCancel, NEW t \in NotWorker, Step(t), ~FinalizeQueue(t), ~StopQueue(t),
         ~(t = "tray" /\ ShutdownQueue)
  PROVE  UNCHANGED finalQ
<1>0. t \in Threads /\ t # "worker"
  BY DEF NotWorker
<1>1. CASE StartSteps(t) \/ FinalizeSteps(t)
  BY <1>1 DEF StartSteps, StartLock, StartCheck, StartCapture, FinalizeSteps, FinalizeLock,
     FinalizeStop, FinalizeEnd, FinalizeFailed, Acquire, queues
<1>2. CASE PauseSteps(t) \/ ResumeSteps(t) \/ StartNote(t) \/ Toggle(t)
  BY <1>2 DEF PauseSteps, PauseLock, PauseStop, PauseQueue, PauseEnd, ResumeSteps, ResumeLock,
     Resume, StartNote, Toggle, Acquire, queues
<1>3. CASE StopSteps(t)
  BY <1>3 DEF StopSteps, StopLock, StopCheck, StopPaused, StopEnd, Acquire, queues
<1>4. CASE FailSteps(t) \/ (t = "cleaner" /\ CleanupSteps) \/ (t = "tray" /\ ShutdownSteps)
  BY <1>4 DEF FailSteps, FailCheck, FailRead, FailMark, FailEnd, CleanupSteps, CleanupLock,
     CleanupStop, CleanupEnd, ShutdownSteps, ShutdownHotkey, queues
<1>5. QED
  BY <1>0, <1>1, <1>2, <1>3, <1>4, NoCancelStep DEF Step

LEMMA QueueEndStep ==
  ASSUME TypeInv, OneEnd, NEW t \in NotWorker, OnlyMoves(t), FinalizeQueue(t) \/ StopQueue(t)
  PROVE  OneEnd' /\ NoNewEnd
<1> DEFINE a     == loc[t].id
           heard == IF FinalizeQueue(t) THEN loc[t].captures ELSE <<>>
           item  == [id |-> loc[t].id, captures |-> heard]
<1>0. t \in Threads /\ loc[t].id \in Ids
  BY DEF NotWorker, FinalizeQueue, StopQueue, TypeInv, HasId, Bound
<1>1. \A label : Goto(t, label) => pc'[t] = label
  BY <1>0 DEF Goto, TypeInv, TypeOK, ThreadsOK
<1>2. CASE \E hard, ret : Fail(t, a, hard, ret) /\ UNCHANGED finalQ /\ (FinalizeQueue(t) => loc[t].captures # <<>>)
  <2>1. PICK hard, ret : Fail(t, a, hard, ret)
    BY <1>2
  <2>2. loc'[t].id = a /\ pc'[t] = "F1"
    BY <1>0, <2>1, FailOnly
  <2>3. Closes(t, a)
    BY <1>2 DEF FinalizeQueue, StopQueue, Closes
  <2>4. \A id \in Ids : Closes(t, id)' => Closes(t, id)
    BY <2>2, <2>3 DEF Closes
  <2>5. QED
    BY <1>2, <2>4, SameEnds
<1>3. CASE pc'[t] \in {"idle", "D1", "Z3", "T4"} /\ UNCHANGED finalQ
  BY <1>3, SameEnds DEF Closes
<1>4. CASE /\ pc'[t] \in {"Z3", "T4"} /\ Closes(t, loc[t].id)
           /\ finalQ' = Append(finalQ, item)
  <2>1. item \in Items /\ item.id = a
    BY <1>0, LocalsOf DEF Items, Chunks, Locals
  <2>2. \A id \in Ids : ~Closes(t, id)'
    BY <1>4 DEF Closes
  <2> HIDE DEF item
  <2>3. QED
    BY <1>0, <1>4, <2>1, <2>2, QueueEnd
<1>5. CASE FinalizeQueue(t)
  <2>1. Leave(t) => pc'[t] \in {"idle", "D1"}
    BY <1>0, ReturnOnly DEF Leave
  <2>2. QED
    BY <1>1, <1>2, <1>3, <1>4, <1>5, <2>1 DEF FinalizeQueue, Closes
<1>6. CASE StopQueue(t) /\ ~FinalizeQueue(t)
  <2>1. heard = <<>>
    BY <1>6
  <2>2. QED
    BY <1>1, <1>2, <1>3, <1>4, <1>6, <2>1 DEF StopQueue, Closes
<1>7. QED
  BY <1>5, <1>6

LEMMA TakesEndStep ==
  ASSUME TypeInv, EndInv, MicInv, NEW t \in NotWorker, OnlyMoves(t), FinalizeStop(t) \/ StopPaused(t)
  PROVE  /\ OneEnd'
         /\ NoNewEnd \/ (TakesEnd(t) /\ \A id \in Ids : Over(id)' => Over(id) \/ id = activeId)
<1>0. t \in Threads /\ UNCHANGED finalQ /\ OneEnd
  BY DEF NotWorker, FinalizeStop, StopPaused, queues, EndInv
<1>1. \A label : Goto(t, label) => pc'[t] = label
  BY <1>0 DEF Goto, TypeInv, TypeOK, ThreadsOK
<1>2. CASE \A id \in Ids : ~Closes(t, id)'
  BY <1>0, <1>2, SameEnds
<1>3. CASE TakesEnd(t) /\ loc'[t].id = activeId
  <2>1. ~Over(activeId)
    BY <1>3 DEF TakesEnd, EndInv, OverQuiet
  <2>2. \A id \in Ids : Closes(t, id)' => id = activeId
    BY <1>3 DEF Closes
  <2>3. QED
    BY <1>0, <1>3, <2>1, <2>2, NewEnd
<1>4. CASE FinalizeStop(t) /\ activeId = NoId
  <2>1. pc'[t] \in {"idle", "D1"}
    BY <1>0, <1>4, ReturnOnly DEF FinalizeStop, Leave
  <2>2. QED
    BY <1>2, <2>1 DEF Closes
<1>5. CASE FinalizeStop(t) /\ activeId # NoId
  <2>1. activeId \in Ids /\ recOn' = FALSE /\ paused' = paused
    BY <1>5 DEF FinalizeStop, TypeInv, TypeOK, CaptureOK, IdOrNone
  <2>2. CASE \E audio : /\ loc' = [loc EXCEPT ![t].id = activeId, ![t].mode = ModeOf(activeId), ![t].captures = audio]
                        /\ Goto(t, "Z2") /\ (audio # <<>> => recOn)
    <3>1. PICK audio : /\ loc' = [loc EXCEPT ![t].id = activeId, ![t].mode = ModeOf(activeId), ![t].captures = audio]
                       /\ Goto(t, "Z2") /\ (audio # <<>> => recOn)
      BY <2>2
    <3>2. loc'[t].id = activeId /\ loc'[t].captures = audio /\ pc'[t] = "Z2"
      BY <1>0, <1>1, <3>1, LocalsOf DEF Locals, TypeInv, TypeOK, ThreadsOK
    <3>3. CASE audio = <<>>
      BY <1>2, <3>2, <3>3 DEF Closes
    <3>4. CASE audio # <<>>
      <4>1. recOn /\ ~paused
        BY <3>1, <3>4 DEF MicInv, PauseOff
      <4>2. TakesEnd(t)
        BY <1>5, <2>1, <4>1 DEF TakesEnd
      <4>3. QED
        BY <1>3, <3>2, <4>2
    <3>5. QED
      BY <3>3, <3>4
  <2>3. CASE /\ recOn /\ Goto(t, "F1")
             /\ loc' = [loc EXCEPT ![t].id = activeId, ![t].mode = ModeOf(activeId),
                                   ![t].hard = TRUE, ![t].ret = "Z4"]
    <3>1. loc'[t].id = activeId
      BY <1>0, <2>3, LocalsOf DEF Locals, TypeInv, TypeOK, ThreadsOK
    <3>2. QED
      <4>1. recOn /\ ~paused
        BY <2>3 DEF MicInv, PauseOff
      <4>2. TakesEnd(t)
        BY <1>5, <2>1, <4>1 DEF TakesEnd
      <4>3. QED
        BY <1>3, <3>1, <4>2
  <2>4. QED
    BY <1>5, <2>2, <2>3 DEF FinalizeStop
<1>6. CASE StopPaused(t)
  <2>1. CASE activeId # loc[t].id \/ ~paused
    <3>1. pc'[t] \in {"idle", "D1"}
      BY <1>0, <1>6, <2>1, ReturnOnly DEF StopPaused, StopOvertaken
    <3>2. QED
      BY <1>2, <3>1 DEF Closes
  <2>2. CASE activeId = loc[t].id /\ paused
    <3>1. loc'[t].id = activeId /\ ~paused' /\ recOn' = recOn /\ activeId \in Ids
      BY <1>0, <1>6, <2>2 DEF StopPaused, TypeInv, HasId, Bound
    <3>2. QED
      BY <1>3, <1>6, <2>2, <3>1 DEF TakesEnd, MicInv, PauseOff
  <2>3. QED
    BY <2>1, <2>2
<1>7. QED
  BY <1>4, <1>5, <1>6

LEMMA NotWorkerEnd ==
  ASSUME TypeInv, NoCancel, EndInv, MicInv, NEW t \in NotWorker, OnlyMoves(t), Step(t)
  PROVE  /\ OneEnd'
         /\ NoNewEnd \/ (TakesEnd(t) /\ \A id \in Ids : Over(id)' => Over(id) \/ id = activeId)
<1>0. t \in Threads /\ t # "worker" /\ OneEnd
  BY DEF NotWorker, EndInv
<1> DEFINE label == pc'[t]
<1>1. CASE FinalizeQueue(t) \/ StopQueue(t)
  BY <1>0, <1>1, QueueEndStep
<1>2. CASE FinalizeStop(t) \/ StopPaused(t)
  BY <1>0, <1>2, TakesEndStep
<1>3. CASE t = "tray" /\ ShutdownQueue
  <2>1. pc'[t] = "idle"
    BY <1>0, <1>3 DEF ShutdownQueue, Goto, TypeInv, TypeOK, ThreadsOK
  <2>2. \A id \in Ids : ~Closes(t, id)'
    BY <2>1 DEF Closes
  <2>3. QED
    BY <1>0, <1>3, <2>2, SignalEnd DEF ShutdownQueue
<1>4. CASE ~(FinalizeQueue(t) \/ StopQueue(t) \/ FinalizeStop(t) \/ StopPaused(t) \/ (t = "tray" /\ ShutdownQueue))
  <2>1. UNCHANGED finalQ
    BY <1>4, FinalsSame
  <2>2. \A id \in Ids : Closes(t, id)' => Closes(t, id)
    <3>1. CASE FailCheck(t) \/ FailRead(t)
      <4>1. pc[t] \in {"F1", "F2"}
        BY <3>1 DEF FailCheck, FailRead
      <4>2. label \in {"F2", "F3"} => loc'[t].id = loc[t].id
        <5>1. CASE FailReturn(t)
          BY <1>0, <5>1, FailReturnOnly, ReturnLabels DEF Tender
        <5>2. CASE ~FailReturn(t)
          BY <1>0, <3>1, <5>2, LocalsOf DEF FailCheck, FailRead, Locals, TypeInv, TypeOK, ThreadsOK
        <5>3. QED
          BY <5>1, <5>2
      <4>3. label \notin {"T3", "F1", "Z2"}
        BY <1>0, <3>1, TenderLabels, ReturnLabels DEF Tender
      <4>4. QED
        BY <4>1, <4>2, <4>3 DEF Closes
    <3>2. CASE ~(FailCheck(t) \/ FailRead(t))
      <4>1. label \notin {"T3", "F1", "F2", "F3", "Z2"}
        BY <1>0, <1>4, <3>2, CalmLabels, TenderLabels DEF Tends, Tender
      <4>2. QED
        BY <4>1 DEF Closes
    <3>3. QED
      BY <3>1, <3>2
  <2>3. QED
    BY <1>0, <2>1, <2>2, SameEnds
<1>5. QED
  BY <1>1, <1>2, <1>3, <1>4

LEMMA WorkerKeeps ==
  ASSUME TypeInv, WorkerSteps, ~TakePartial, ~TakeFinal
  PROVE  /\ pc["worker"] \in Working /\ UNCHANGED finalQ
         /\ \/ pc'["worker"] = "W0"
            \/ loc'["worker"].id = loc["worker"].id /\ loc'["worker"].final = loc["worker"].final
<1> DEFINE w == "worker"
<1>0. w \in Threads
  BY WorkersAreThreads
<1>1. pc[w] \in Working /\ UNCHANGED finalQ
  BY DEF WorkerSteps, Handle, DecodeStart, DecodeEnd, RecordGuard, RecordSegment, RecordPart,
     SessionCheck, SessionEmpty, SessionComplete, SessionType, SessionSave, Working, queues
<1>2. CASE Loop(w)
  BY <1>0, <1>1, <1>2, LoopOnly
<1>3. CASE UNCHANGED loc
  BY <1>1, <1>3
<1>4. ASSUME NEW hard, NEW ret, Fail(w, loc[w].id, hard, ret)
      PROVE  loc'[w].id = loc[w].id /\ loc'[w].final = loc[w].final
  BY <1>0, <1>4, LocalsOf DEF Fail, Locals, TypeInv, TypeOK, ThreadsOK
<1>5. ASSUME NEW mode, loc' = [loc EXCEPT !["worker"].mode = mode]
      PROVE  loc'[w].id = loc[w].id /\ loc'[w].final = loc[w].final
  BY <1>0, <1>5, LocalsOf DEF Locals, TypeInv, TypeOK, ThreadsOK
<1>6. ASSUME NEW parts, loc' = [loc EXCEPT !["worker"].said = parts]
      PROVE  loc'[w].id = loc[w].id /\ loc'[w].final = loc[w].final
  BY <1>0, <1>6, LocalsOf DEF Locals, TypeInv, TypeOK, ThreadsOK
<1>7. \/ Loop(w) \/ UNCHANGED loc \/ \E hard, ret : Fail(w, loc[w].id, hard, ret)
      \/ \E mode : loc' = [loc EXCEPT !["worker"].mode = mode]
      \/ \E parts : loc' = [loc EXCEPT !["worker"].said = parts]
  BY DEF WorkerSteps, Handle, HandleEmpty, DecodeStart, DecodeEnd, RecordGuard, RecordSegment,
     RecordPart, SessionCheck, SessionEmpty, SessionComplete, SessionType, SessionSave, GiveUp
<1>8. QED
  BY <1>1, <1>2, <1>3, <1>4, <1>5, <1>6, <1>7

LEMMA FailKeepsId ==
  ASSUME TypeInv, NEW t \in Threads, FailSteps(t)
  PROVE  pc'[t] # "W0" => loc'[t].id = loc[t].id
<1>1. CASE FailReturn(t)
  BY <1>1, LocalsOf DEF FailReturn, Goto, Locals, TypeInv, TypeOK, ThreadsOK
<1>2. CASE ~FailReturn(t)
  <2>1. CASE FailCheck(t)
    BY <1>2, <2>1, LocalsOf DEF FailCheck, Locals, TypeInv, TypeOK, ThreadsOK
  <2>2. CASE FailRead(t)
    BY <2>2, LocalsOf DEF FailRead, Locals, TypeInv, TypeOK, ThreadsOK
  <2>3. CASE FailMark(t)
    BY <2>3 DEF FailMark
  <2>4. QED
    BY <1>2, <2>1, <2>2, <2>3 DEF FailSteps, FailEnd
<1>3. QED
  BY <1>1, <1>2

LEMMA WorkerEnd ==
  ASSUME TypeInv, PlaceInv, EndInv, OnlyMoves("worker"), Step("worker")
  PROVE  OneEnd' /\ NoNewEnd
<1> DEFINE w == "worker"
<1>0. w \in Threads /\ OneEnd
  BY WorkersAreThreads DEF EndInv
<1>1. CASE TakePartial
  <2>1. UNCHANGED finalQ
    BY <1>1 DEF TakePartial
  <2>2. ~(pc'[w] \in Working /\ loc'[w].final)
    <3>1. CASE TakeChunk(FALSE, Head(partialQ))
      BY <1>0, <3>1, LocalsOf DEF TakeChunk, Locals, TypeInv, TypeOK, ThreadsOK
    <3>2. CASE ~TakeChunk(FALSE, Head(partialQ))
      BY <1>0, <1>1, <3>2 DEF TakePartial, Goto, Working, TypeInv, TypeOK, ThreadsOK
    <3>3. QED
      BY <3>1, <3>2
  <2>3. QED
    BY <1>0, <2>1, <2>2, WorkEnd DEF Ends
<1>2. CASE TakeFinal
  <2>1. CASE finalQ # <<>> /\ finalQ' = Tail(finalQ)
    <3>1. \A id \in Ids : Ends(id)' => id = Head(finalQ).id
      <4>1. CASE TakeChunk(TRUE, Head(finalQ))
        <5>1. loc'[w].id = Head(finalQ).id
          BY <1>0, <4>1, LocalsOf DEF TakeChunk, Locals, TypeInv, TypeOK, ThreadsOK
        <5>2. QED
          BY <5>1 DEF Ends
      <4>2. CASE ~TakeChunk(TRUE, Head(finalQ))
        <5>1. pc'[w] \in {"exited", "W0"}
          BY <1>0, <1>2, <4>2 DEF TakeFinal, Goto, TypeInv, TypeOK, ThreadsOK
        <5>2. QED
          BY <5>1 DEF Ends, Working
      <4>3. QED
        BY <4>1, <4>2
    <3>2. QED
      BY <1>0, <2>1, <3>1, TakeEnd
  <2>2. CASE UNCHANGED finalQ /\ Goto(w, "W0")
    <3>1. \A id \in Ids : ~Ends(id)'
      BY <1>0, <2>2 DEF Goto, Ends, Working, TypeInv, TypeOK, ThreadsOK
    <3>2. QED
      BY <1>0, <2>2, <3>1, WorkEnd
  <2>3. QED
    BY <1>2, <2>1, <2>2 DEF TakeFinal
<1>3. CASE WorkerSteps /\ ~TakePartial /\ ~TakeFinal
  <2>1. \A id \in Ids : Ends(id)' => Ends(id)
    BY <1>3, WorkerKeeps DEF Ends, Working
  <2>2. QED
    BY <1>0, <1>3, <2>1, WorkerKeeps, WorkEnd
<1>4. CASE FailSteps(w)
  <2>1. pc[w] \in Handler /\ UNCHANGED finalQ
    BY <1>4 DEF FailSteps, FailCheck, FailRead, FailMark, FailEnd, Handler, queues
  <2>2. \A id \in Ids : Ends(id)' => Ends(id)
    BY <1>0, <1>4, <2>1, FailKeepsId, FailKeepsFinal DEF Ends, Working, Handler
  <2>3. QED
    BY <1>0, <2>1, <2>2, WorkEnd
<1>5. QED
  BY <1>1, <1>2, <1>3, <1>4, WorkerIs DEF PlaceInv

LEMMA OverActive ==
  ASSUME NEW a, a = activeId'
  PROVE  Over(activeId)' <=> Over(a)'
  BY DEF Over, Ends, Queued, Closes

LEMMA QuietKept ==
  ASSUME OverQuiet, NoNewEnd, activeId' \in {activeId, NoId}, recOn' => recOn, paused' => paused,
         \A u \in Threads : pc'[u] \in {"P2", "P3"} => pc[u] \in {"P2", "P3"} /\ loc'[u].id = loc[u].id
  PROVE  OverQuiet'
<1>1. SUFFICES ASSUME activeId' \in Ids, Over(activeId)'
               PROVE  /\ ~recOn' /\ ~paused'
                      /\ \A t \in Threads : pc'[t] \in {"P2", "P3"} => loc'[t].id # activeId'
  BY DEF OverQuiet
<1>2. PICK a \in Ids : a = activeId'
  BY <1>1
<1>3. activeId = a /\ Over(a)
  BY <1>1, <1>2, IdsType, OverActive DEF NoNewEnd
<1>4. QED
  BY <1>2, <1>3 DEF OverQuiet

LEMMA NotOver ==
  ASSUME NEW a, a = activeId', a \in Ids => ~Over(a)'
  PROVE  OverQuiet'
  BY OverActive DEF OverQuiet

LEMMA QuietAfterEnd ==
  ASSUME TypeInv, MicInv, NEW t \in Threads, OnlyMoves(t), TakesEnd(t)
  PROVE  OverQuiet'
<1>1. recOn \/ paused
  BY DEF TakesEnd
<1>2. \A u \in Threads : pc[u] \notin {"P2", "P3"}
  BY <1>1 DEF MicInv, Still
<1>3. pc'[t] \notin {"P2", "P3"}
  BY TenderLabels DEF TakesEnd
<1>4. \A u \in Threads : pc'[u] \notin {"P2", "P3"}
  BY <1>2, <1>3 DEF OnlyMoves
<1>5. QED
  BY <1>4 DEF OverQuiet, TakesEnd

LEMMA QuietStep ==
  ASSUME TypeInv, LocksOwned, PastInv, PlaceInv, MicInv, EndInv, NEW t \in Threads, Step(t), NoNewEnd
  PROVE  OverQuiet'
<1>0. OnlyMoves(t) /\ OverQuiet /\ NoCancel /\ gen \in Nat
  BY StepLocks, IdsType DEF LockStep, EndInv, PlaceInv, TypeInv, TypeOK, CaptureOK
<1>p. Begun \in Nat /\ Begun <= gen
  BY BegunType DEF PastInv
<1>a. PICK a : a = activeId'
  OBVIOUS
<1>n. a \in Ids => (Over(a)' => Over(a)) /\ (Over(a) => a <= Begun)
  BY OverPast DEF NoNewEnd
<1> DEFINE label == pc'[t]
<1>1. CASE StartCheck(t)
  <2>1. CASE Leave(t)
    <3>1. activeId' = activeId /\ recOn' = recOn /\ paused' = paused
      BY <1>1, <2>1, ReturnOnly, TenderLabels DEF StartCheck, Leave, Goto, TypeInv, TypeOK, ThreadsOK
    <3>2. label \notin {"P2", "P3"}
      BY <1>1, TenderLabels
    <3>3. QED
      BY <1>0, <3>1, <3>2, QuietKept DEF OnlyMoves
  <2>2. CASE activeId' = gen + 1
    BY <1>0, <1>p, <1>a, <1>n, <2>2, NotOver
  <2>3. QED
    BY <1>1, <2>1, <2>2 DEF StartCheck
<1>2. CASE StartCapture(t)
  <2>1. pc[t] = "S2" /\ activeId \in {gen, NoId} /\ Begun = gen - 1
    BY <1>2 DEF StartCapture, EndInv, StartActive, Begun
  <2>2. activeId' \in {activeId, NoId}
    BY <1>2 DEF StartCapture
  <2>3. a \in Ids => ~Over(a)'
    BY <1>0, <1>a, <1>n, <2>1, <2>2, IdsType
  <2>4. QED
    BY <1>a, <2>3, NotOver
<1>3. CASE Resume(t) /\ paused
  <2>1. activeId' = activeId
    BY <1>3 DEF Resume
  <2>2. a \in Ids => ~Over(a)
    BY <1>3, <1>a, <2>1 DEF EndInv, OverQuiet
  <2>3. QED
    BY <1>a, <1>n, <2>2, NotOver
<1>4. CASE PauseEnd(t)
  <2>1. pc[t] = "P3" /\ activeId' = activeId /\ recOn' = recOn
    BY <1>4 DEF PauseEnd
  <2>2. CASE activeId = loc[t].id
    <3>1. a \in Ids => ~Over(a)
      BY <1>a, <2>1, <2>2 DEF EndInv, OverQuiet
    <3>2. QED
      BY <1>a, <1>n, <3>1, NotOver
  <2>3. CASE activeId # loc[t].id
    <3>1. paused' = paused /\ Leave(t)
      BY <1>4, <2>3 DEF PauseEnd, Current
    <3>2. label \notin {"P2", "P3"}
      BY <3>1, ReturnOnly DEF Leave
    <3>3. QED
      BY <1>0, <2>1, <3>1, <3>2, QuietKept DEF OnlyMoves
  <2>4. QED
    BY <2>2, <2>3
<1>5. CASE PauseStop(t)
  <2>1. activeId' = activeId /\ paused' = paused /\ (recOn' => recOn)
    BY <1>5 DEF PauseStop
  <2>2. CASE recOn
    <3>1. a \in Ids => ~Over(a)
      BY <1>a, <2>1, <2>2 DEF EndInv, OverQuiet
    <3>2. QED
      BY <1>a, <1>n, <3>1, NotOver
  <2>3. CASE ~recOn
    <3>1. label \notin {"P2", "P3"}
      BY <1>5, <2>3, ReturnOnly DEF PauseStop, Leave
    <3>2. QED
      BY <1>0, <2>1, <3>1, QuietKept DEF OnlyMoves
  <2>4. QED
    BY <2>2, <2>3
<1>6. CASE PauseQueue(t)
  <2>1. pc[t] = "P2" /\ UNCHANGED capture
    BY <1>6 DEF PauseQueue
  <2>2. label \in {"P2", "P3"} => loc'[t].id = loc[t].id
    BY <1>6, ReturnOnly DEF PauseQueue, Leave
  <2>3. QED
    BY <1>0, <2>1, <2>2, QuietKept DEF OnlyMoves, capture
<1>7. CASE ~(StartCheck(t) \/ StartCapture(t) \/ (Resume(t) /\ paused) \/ PauseEnd(t) \/ PauseStop(t) \/ PauseQueue(t))
  <2>1. activeId' \in {activeId, NoId}
    BY <1>7, StepActive
  <2>2. recOn' => recOn
    <3>1. CASE Resume(t)
      BY <1>7, <3>1 DEF Resume
    <3>2. CASE ~Resume(t)
      BY <1>0, <1>7, <3>2, MicOff
    <3>3. QED
      BY <3>1, <3>2
  <2>3. paused' => paused
    BY <1>0, <1>7, PauseOver
  <2>4. label \notin {"P2", "P3"}
    <3>1. CASE t = "worker" /\ WorkerSteps
      BY <3>1, WorkerOnly DEF Looping
    <3>2. CASE ~(t = "worker" /\ WorkerSteps)
      BY <1>0, <1>7, <3>2, CalmLabels, TenderLabels, ReturnLabels DEF Tends, Tender
    <3>3. QED
      BY <3>1, <3>2
  <2>5. QED
    BY <1>0, <2>1, <2>2, <2>3, <2>4, QuietKept DEF OnlyMoves
<1>8. QED
  BY <1>1, <1>2, <1>3, <1>4, <1>5, <1>6, <1>7

LEMMA StartActiveStep ==
  ASSUME TypeInv, LocksOwned, EndInv, NEW t \in Threads, Step(t)
  PROVE  StartActive'
<1>0. OnlyMoves(t)
  BY StepLocks DEF LockStep
<1>1. SUFFICES ASSUME NEW u \in Threads, pc'[u] = "S2" PROVE activeId' \in {gen', NoId}
  BY DEF StartActive
<1>2. CASE u = t
  <2>1. StartCheck(t) /\ ~Leave(t)
    BY <1>1, <1>2, StepLabels, ReturnOnly DEF Leave
  <2>2. QED
    BY <2>1 DEF StartCheck
<1>3. CASE u # t
  <2>1. pc[u] = "S2" /\ rec = u
    BY <1>0, <1>1, <1>3 DEF OnlyMoves, LocksOwned, RecOwned
  <2>2. ~StartCheck(t)
    BY <1>3, <2>1, FreeIsNoThread DEF StartCheck, RecFree
  <2>3. QED
    BY <2>1, <2>2, StepActive DEF EndInv, StartActive
<1>4. QED
  BY <1>2, <1>3

LEMMA EndStep ==
  ASSUME TypeInv, LocksOwned, PastInv, PlaceInv, MicInv, EndInv, NEW t \in Threads, Step(t)
  PROVE  EndInv'
<1>0. OnlyMoves(t) /\ NoCancel
  BY StepLocks DEF LockStep, PlaceInv
<1>1. OneEnd' /\ (NoNewEnd \/ TakesEnd(t))
  <2>1. CASE t = "worker"
    BY <1>0, <2>1, WorkerEnd
  <2>2. CASE t # "worker"
    BY <1>0, <2>2, NotWorkerEnd DEF NotWorker
  <2>3. QED
    BY <2>1, <2>2
<1>2. OverQuiet'
  BY <1>0, <1>1, QuietStep, QuietAfterEnd
<1>3. QED
  BY <1>1, <1>2, StartActiveStep DEF EndInv

LEMMA UserEntries ==
  ASSUME TypeInv, User, NEW u \in Threads
  PROVE  (pc'[u] = pc[u] /\ loc'[u] = loc[u]) \/ pc'[u] \in Entries
<1>1. ASSUME NEW t, NEW label \in Entries, Goto(t, label),
             UNCHANGED loc \/ \E next : loc' = [loc EXCEPT ![t] = next]
      PROVE  (pc'[u] = pc[u] /\ loc'[u] = loc[u]) \/ pc'[u] \in Entries
  BY <1>1 DEF Goto, TypeInv, TypeOK, ThreadsOK
<1>2. CASE Press \/ Release \/ Silence \/ \E t \in UIs : NoteRequest(t)
  <2>1. \E t : \E label \in Entries : \E mode : Begin(t, label, mode)
    BY <1>2 DEF Press, Release, OnRelease, Silence, NoteRequest, Operation, Entry, Entries
  <2>2. QED
    BY <1>1, <2>1 DEF Begin
<1>3. CASE Deactivate \/ SetCombo \/ Shutdown
  <2>1. /\ \E label \in Entries : Goto("tray", label)
        /\ UNCHANGED loc \/ loc' = [loc EXCEPT !["tray"].back = "D1"]
    BY <1>3 DEF Deactivate, SetCombo, Shutdown, FinalizeIfRecording, Entries
  <2>2. QED
    BY <1>1, <2>1
<1>4. CASE Activate \/ SwitchModel
  BY <1>4 DEF Activate, SwitchModel, threads
<1>5. QED
  BY <1>2, <1>3, <1>4 DEF User

LEMMA UserEnd ==
  ASSUME TypeInv, PlaceInv, EndInv, "cancel" \notin Ops, User
  PROVE  EndInv'
<1>1. UNCHANGED <<finalQ, activeId, gen, paused, recOn>>
  BY DEF User, Press, Release, NoteRequest, Silence, Deactivate, Activate, SetCombo, SwitchModel,
     Shutdown, capture, queues
<1>2. pc'["worker"] = pc["worker"] /\ loc'["worker"] = loc["worker"]
  BY UserPlace
<1>3. \A id \in Ids : (Ends(id)' <=> Ends(id)) /\ (Queued(id)' <=> Queued(id))
  BY <1>1, <1>2 DEF Ends, Queued
<1>4. \A u \in Threads, id \in Ids : Closes(u, id)' => Closes(u, id)
  BY UserEntries DEF Closes, Entries
<1>5. \A u \in Threads : pc'[u] \in {"S2", "P2", "P3"} => pc'[u] = pc[u] /\ loc'[u] = loc[u]
  BY UserEntries DEF Entries
<1>6. OneEnd'
  BY <1>1, <1>3, <1>4 DEF EndInv, OneEnd, NotWorker
<1>7. NoNewEnd
  BY <1>3, <1>4 DEF NoNewEnd, Over, NotWorker
<1>8. OverQuiet'
  BY <1>1, <1>5, <1>7, QuietKept DEF EndInv
<1>9. StartActive'
  BY <1>1, <1>5 DEF EndInv, StartActive
<1>10. QED
  BY <1>6, <1>8, <1>9 DEF EndInv

-----------------------------------------------------------------------------
(* Nothing is delivered after a failure: what a failure leaves behind *)

LEMMA StepShrinks ==
  ASSUME TypeInv, NEW t \in Threads, Step(t), ~StartCapture(t), ~(t = "worker" /\ RecordPart)
  PROVE  Shrinks
  BY SessionFrame DEF Shrinks

LEMMA StepSees ==
  ASSUME TypeInv, NoCancel, NEW t \in Threads, Step(t)
  PROVE  \/ UNCHANGED log
         \/ \E id : See(id, {"note empty"}) \/ See(id, {"history"})
         \/ t = "worker" /\ SessionType /\ See(loc["worker"].id, {"history", "typed"})
         \/ t = "worker" /\ SessionSave /\ See(loc["worker"].id, {"history", "note"})
         \/ Tells(t) /\ \E id : See(id, {"failed"}) \/ See(id, {"note failed"})
<1>1. CASE StartSteps(t) \/ FinalizeSteps(t)
  BY <1>1 DEF StartSteps, StartLock, StartCheck, StartCapture, FinalizeSteps, FinalizeLock,
     FinalizeStop, FinalizeQueue, FinalizeEnd, FinalizeFailed, Acquire, outcome, Tells
<1>2. CASE PauseSteps(t) \/ ResumeSteps(t) \/ StartNote(t) \/ Toggle(t)
  BY <1>2 DEF PauseSteps, PauseLock, PauseStop, PauseQueue, PauseEnd, ResumeSteps, ResumeLock,
     Resume, StartNote, Toggle, Acquire, outcome
<1>3. CASE StopSteps(t)
  BY <1>3 DEF StopSteps, StopLock, StopCheck, StopPaused, StopQueue, StopEnd, Acquire, outcome
<1>4. CASE FailSteps(t)
  BY <1>4 DEF FailSteps, FailCheck, FailRead, FailMark, FailEnd, outcome, Tells
<1>5. CASE (t = "cleaner" /\ CleanupSteps) \/ (t = "tray" /\ ShutdownSteps)
  BY <1>5 DEF CleanupSteps, CleanupLock, CleanupStop, CleanupEnd, ShutdownSteps, ShutdownHotkey,
     ShutdownQueue, outcome
<1>6. CASE t = "worker" /\ WorkerSteps
  BY <1>6 DEF WorkerSteps, TakePartial, TakeFinal, Handle, DecodeStart,
     DecodeEnd, RecordGuard, RecordSegment, RecordPart, SessionCheck, SessionEmpty,
     SessionComplete, SessionType, SessionSave, outcome, Tells
<1>7. QED
  BY <1>1, <1>2, <1>3, <1>4, <1>5, <1>6, NoCancelStep DEF Step

LEMMA SeeCounts ==
  ASSUME TypeInv, NEW id, NEW events, See(id, events), NEW i \in Ids, NEW e \in Events
  PROVE  /\ log[i][e] \in Nat
         /\ log'[i][e] = IF i = id /\ e \in events THEN log[i][e] + 1 ELSE log[i][e]
<1>1. log[i][e] \in Nat
  BY DEF TypeInv, TypeOK, OutcomeOK
<1>2. CASE i = id
  BY <1>1, <1>2 DEF See, TypeInv, TypeOK, OutcomeOK
<1>3. CASE i # id
  BY <1>1, <1>3 DEF See, TypeInv, TypeOK, OutcomeOK
<1>4. QED
  BY <1>1, <1>2, <1>3

\* Reports are never taken back, and only some steps report.
LEMMA TellStep ==
  ASSUME TypeInv, NoCancel, NEW t \in Threads, Step(t), NEW i \in Ids
  PROVE  /\ Unfailed(i)' => Unfailed(i)
         /\ ~Tells(t) => (Unfailed(i) => Unfailed(i)')
         /\ log'[i]["discarded"] = log[i]["discarded"]
<1>0. Reports \cup {"discarded"} \subseteq Events
  BY DEF Reports, Events
<1>1. CASE UNCHANGED log
  BY <1>1 DEF Unfailed
<1>2. ASSUME NEW id, NEW events, See(id, events), events \cap (Reports \cup {"discarded"}) = {}
      PROVE  (Unfailed(i)' <=> Unfailed(i)) /\ log'[i]["discarded"] = log[i]["discarded"]
  <2>1. \A e \in Reports \cup {"discarded"} : log'[i][e] = log[i][e]
    BY <1>0, <1>2, SeeCounts
  <2>2. QED
    BY <2>1 DEF Unfailed
<1>3. ASSUME NEW id, NEW events, See(id, events), "discarded" \notin events
      PROVE  (Unfailed(i)' => Unfailed(i)) /\ log'[i]["discarded"] = log[i]["discarded"]
  <2>1. \A e \in Reports : log[i][e] \in Nat /\ log'[i][e] \in {log[i][e], log[i][e] + 1}
    BY <1>0, <1>3, SeeCounts
  <2>2. log'[i]["discarded"] = log[i]["discarded"]
    BY <1>0, <1>3, SeeCounts
  <2>3. QED
    BY <2>1, <2>2 DEF Unfailed
<1>4. CASE \E id : See(id, {"note empty"}) \/ See(id, {"history", "typed"}) \/ See(id, {"history"})
  BY <1>2, <1>4 DEF Reports
<1>5. CASE Tells(t) /\ \E id : See(id, {"history", "note"}) \/ See(id, {"failed"}) \/ See(id, {"note failed"})
  BY <1>3, <1>5
<1>7. Tells(t) \/ ~(t = "worker" /\ SessionSave)
  BY DEF Tells
<1>6. QED
  BY <1>1, <1>4, <1>5, <1>7, StepSees

LEMMA DeliveringStep ==
  ASSUME TypeInv, LocksOwned, PlaceInv, NEW t \in Threads, Step(t), NEW id \in Ids, Delivering(id)'
  PROVE  Delivering(id) \/ (SessionCheck /\ sess[id].parts # <<>>)
<1> DEFINE w == "worker"
<1>0. w \in Threads /\ OnlyMoves(t)
  BY WorkersAreThreads, StepLocks DEF LockStep
<1>1. CASE t # w
  BY <1>0, <1>1 DEF OnlyMoves, Delivering
<1>2. CASE t = w /\ FailSteps(w)
  <2>1. pc'[w] \in Returns \cup Handler
    BY <1>0, <1>2, FailKeepsFinal, LocalsOf DEF Locals
  <2>2. QED
    BY <2>1 DEF Delivering, Returns, Handler
<1>3. CASE t = w /\ SessionCheck
  <2>1. ~Loop(w)
    BY <1>0, LoopOnly DEF Delivering
  <2>2. loc' = [loc EXCEPT !["worker"].said = sess[loc["worker"].id].parts]
    BY <1>3, <2>1 DEF SessionCheck
  <2>3. loc'[w].id = loc[w].id
    BY <1>0, <2>2, LocalsOf DEF Locals, TypeInv, TypeOK, ThreadsOK
  <2>4. sess[loc[w].id].parts # <<>>
    BY <1>0, <1>3, <2>1 DEF SessionCheck, Goto, Delivering, TypeInv, TypeOK, ThreadsOK
  <2>5. QED
    BY <1>3, <2>3, <2>4 DEF Delivering
<1>4. CASE t = w /\ SessionComplete
  <2>1. loc'[w].id = loc[w].id /\ pc[w] = "E3"
    BY <1>0, <1>4, LocalsOf DEF SessionComplete, Locals, TypeInv, TypeOK, ThreadsOK
  <2>2. QED
    BY <2>1 DEF Delivering
<1>5. CASE t = w /\ WorkerSteps /\ ~SessionCheck /\ ~SessionComplete
  <2>1. \E label : label \notin {"E3", "E4"} /\ Goto(w, label)
    BY <1>5 DEF WorkerSteps, TakePartial, TakeFinal, Handle, HandleEmpty, DecodeStart,
       DecodeEnd, RecordGuard, RecordSegment, RecordPart, SessionEmpty,
       SessionType, SessionSave, GiveUp, Loop, Fail
  <2>2. QED
    BY <1>0, <2>1 DEF Goto, Delivering, TypeInv, TypeOK, ThreadsOK
<1>6. QED
  BY <1>1, <1>2, <1>3, <1>4, <1>5, WorkerIs DEF PlaceInv

LEMMA NewlyTold ==
  ASSUME TypeInv, NEW id, NEW events, See(id, events), NEW i \in Ids, Unfailed(i), ~Unfailed(i)'
  PROVE  i = id
<1>1. PICK e \in Reports : log'[i][e] # log[i][e]
  BY DEF Unfailed
<1>2. e \in Events
  BY DEF Reports, Events
<1>3. QED
  BY <1>1, <1>2, SeeCounts

LEMMA DoomedKept ==
  ASSUME TypeInv, LocksOwned, PastInv, PlaceInv, TellInv, NEW t \in Threads, Step(t),
         Begun \in Nat, Begun' \in Nat, Begun' >= Begun,
         NEW id \in Ids, ~Unfailed(id)
  PROVE  Settled(id)'
<1>1. Settled(id) /\ NoCancel
  BY DEF TellInv, Doomed, PlaceInv
<1>2. ~Delivering(id)'
  BY <1>1, DeliveringStep DEF Settled
<1>3. id <= Begun'
  BY <1>1, IdsType DEF Settled
<1>4. ~sess'[id].open /\ sess'[id].parts = <<>>
  <2>1. CASE StartCapture(t)
    <3>1. pc[t] = "S2" /\ loc[t].id = gen /\ Begun = gen - 1 /\ gen \in Nat
      BY <2>1, IdsType DEF StartCapture, PastInv, Newest, Begun, TypeInv, TypeOK, CaptureOK
    <3>2. id # loc[t].id
      BY <1>1, <3>1, IdsType DEF Settled
    <3>3. sess'[id] = sess[id]
      BY <2>1, <3>2 DEF StartCapture, Cleared, TypeInv, TypeOK, SessionsOK
    <3>4. QED
      BY <1>1, <3>3 DEF Settled
  <2>2. CASE t = "worker" /\ RecordPart
    <3>1. sess'[id] = sess[id]
      <4>1. CASE loc["worker"].id = id
        BY <1>1, <2>2, <4>1 DEF RecordPart, Settled
      <4>2. CASE loc["worker"].id # id
        BY <2>2, <4>2 DEF RecordPart, TypeInv, TypeOK, SessionsOK
      <4>3. QED
        BY <4>1, <4>2
    <3>2. QED
      BY <1>1, <3>1 DEF Settled
  <2>3. CASE ~StartCapture(t) /\ ~(t = "worker" /\ RecordPart)
    <3>1. Shrinks
      BY <1>1, <2>3, StepShrinks
    <3>2. QED
      BY <1>1, <3>1 DEF Shrinks, Settled
  <2>4. QED
    BY <2>1, <2>2, <2>3
<1>5. QED
  BY <1>2, <1>3, <1>4 DEF Settled

\* A recording the worker is delivering is nobody else's to fail.
LEMMA FailedIsOver ==
  ASSUME PlaceInv, EndInv, NEW t \in Threads, FailMark(t), t # "worker", loc[t].id \in Ids
  PROVE  ~Delivering(loc[t].id)
<1>1. Closes(t, loc[t].id) /\ t \in NotWorker
  BY DEF FailMark, Closes, NotWorker
<1>2. ~Ends(loc[t].id)
  BY <1>1 DEF EndInv, OneEnd
<1>3. QED
  BY <1>2 DEF Ends, Working, Delivering, PlaceInv, WorkerAt

LEMMA DoomedNew ==
  ASSUME TypeInv, LocksOwned, PastInv, PlaceInv, EndInv, TellInv, NEW t \in Threads, Step(t),
         Begun \in Nat, Begun' \in Nat, Begun' >= Begun,
         NEW id \in Ids, Unfailed(id), ~Unfailed(id)'
  PROVE  Settled(id)'
<1>0. Tells(t) /\ OnlyMoves(t) /\ "worker" \in Threads
  BY TellStep, StepLocks, WorkersAreThreads DEF PlaceInv, LockStep
<1>m. \A u \in Threads : pc[u] # "S2" => loc[u].id <= Begun
  BY DEF PastInv, PastAt
<1>1. CASE StartCapture(t)
  <2>1. pc[t] = "S2" /\ loc[t].id = gen /\ Begun = gen - 1 /\ gen \in Nat
    BY <1>1, IdsType DEF StartCapture, PastInv, Newest, Begun, TypeInv, TypeOK, CaptureOK
  <2>2. \E events : See(loc[t].id, events)
    BY <1>1 DEF StartCapture, Unfailed
  <2>3. id = loc[t].id /\ sess' = Cleared(sess, loc[t].id)
    BY <1>1, <2>2, NewlyTold DEF StartCapture, Unfailed
  <2>4. ~sess'[id].open /\ sess'[id].parts = <<>>
    BY <2>3 DEF Cleared, NoSession, TypeInv, TypeOK, SessionsOK
  <2>5. t # "worker"
    BY <2>1 DEF PlaceInv, WorkerAt, Looping, Handler
  <2>6. ~Delivering(id)'
    <3>1. SUFFICES ASSUME Delivering(id) PROVE FALSE
      BY <1>0, <2>5 DEF OnlyMoves, Delivering
    <3>2. loc["worker"].id <= Begun
      BY <1>0, <1>m, <3>1 DEF Delivering
    <3>3. QED
      BY <2>1, <2>3, <3>1, <3>2, IdsType DEF Delivering
  <2>7. Begun' = gen
    <3>1. \A u \in Threads : u # t => pc[u] # "S2"
      BY <2>1 DEF LocksOwned, RecOwned
    <3>2. pc'[t] # "S2"
      BY <1>1, ReturnOnly DEF StartCapture, Leave
    <3>3. gen' = gen
      BY <1>1 DEF StartCapture
    <3>4. QED
      BY <1>0, <3>1, <3>2, <3>3 DEF OnlyMoves, Begun
  <2>8. QED
    BY <2>1, <2>3, <2>4, <2>6, <2>7 DEF Settled
<1>2. CASE FailMark(t)
  <2>1. id = loc[t].id /\ pc[t] = "F3"
    BY <1>2, NewlyTold DEF FailMark
  <2>2. ~sess'[id].open /\ sess'[id].parts = <<>>
    BY <1>2, <2>1 DEF FailMark, Cleared, NoSession, TypeInv, TypeOK, SessionsOK, Sessions
  <2>3. ~Delivering(id)'
    <3>1. CASE t = "worker"
      BY <1>2, <3>1, TenderLabels DEF Delivering
    <3>2. CASE t # "worker"
      BY <1>0, <1>2, <2>1, <3>2, FailedIsOver DEF OnlyMoves, Delivering
    <3>3. QED
      BY <3>1, <3>2
  <2>4. id <= Begun'
    BY <1>m, <2>1, IdsType
  <2>5. QED
    BY <2>2, <2>3, <2>4 DEF Settled
<1>3. CASE FailEnd(t)
  <2>1. pc[t] = "F4" /\ ~Unfailed(loc[t].id)
    BY <1>3 DEF FailEnd, TellInv, Marked
  <2>2. See(loc[t].id, {"note failed"}) \/ UNCHANGED log
    BY <1>3 DEF FailEnd
  <2>3. ~UNCHANGED log
    BY DEF Unfailed
  <2>4. id = loc[t].id
    BY <2>2, <2>3, NewlyTold
  <2>5. QED
    BY <2>1, <2>4
<1>4. CASE t = "worker" /\ SessionSave
  <2>1. id = loc["worker"].id /\ pc["worker"] = "E4"
    BY <1>4, NewlyTold DEF SessionSave
  <2>2. ~sess'[id].open /\ sess'[id].parts = <<>>
    BY <1>4, <2>1 DEF SessionSave, Cleared, NoSession, TypeInv, TypeOK, SessionsOK
  <2>3. ~Delivering(id)'
    BY <1>0, <1>4, LoopOnly DEF SessionSave, GiveUp, Delivering
  <2>4. id <= Begun'
    BY <1>0, <1>m, <2>1, IdsType
  <2>5. QED
    BY <2>2, <2>3, <2>4 DEF Settled
<1>5. QED
  BY <1>0, <1>1, <1>2, <1>3, <1>4 DEF Tells

LEMMA MarkedStep ==
  ASSUME TypeInv, LocksOwned, PlaceInv, TellInv, NEW t \in Threads, Step(t)
  PROVE  Marked'
<1>0. OnlyMoves(t) /\ NoCancel
  BY StepLocks DEF LockStep, PlaceInv
<1>1. SUFFICES ASSUME NEW u \in Threads, pc'[u] = "F4", NEW a, a = loc'[u].id PROVE ~Unfailed(a)'
  BY DEF Marked, Unfailed
<1>2. CASE FailMark(t) /\ u = t
  <2>1. loc[t].id \in Ids /\ See(loc[t].id, {"failed"}) /\ loc' = loc
    BY <1>2 DEF FailMark, TypeInv, HasId, Bound
  <2>2. "failed" \in Events \cap Reports
    BY DEF Events, Reports
  <2>3. /\ log[loc[t].id]["failed"] \in Nat
        /\ log'[loc[t].id]["failed"] = log[loc[t].id]["failed"] + 1
    BY <2>1, <2>2, SeeCounts
  <2>4. a = loc[t].id
    BY <1>1, <1>2, <2>1
  <2>5. QED
    BY <2>2, <2>3, <2>4 DEF Unfailed
<1>3. CASE u # t
  <2>1. pc[u] = "F4" /\ loc'[u] = loc[u] /\ loc[u].id \in Ids
    BY <1>0, <1>1, <1>3 DEF OnlyMoves, TypeInv, HasId, Bound
  <2>2. a \in Ids /\ ~Unfailed(a)
    BY <1>1, <2>1 DEF TellInv, Marked
  <2>3. QED
    BY <1>0, <2>2, TellStep
<1>4. CASE u = t /\ ~FailMark(t)
  <2>1. pc'[t] # "F4"
    <3>1. CASE t = "worker" /\ WorkerSteps
      BY <3>1, WorkerOnly DEF Looping
    <3>2. CASE ~(t = "worker" /\ WorkerSteps)
      BY <1>0, <1>4, <3>2, CalmLabels, TenderLabels, ReturnLabels DEF Tends, Tender
    <3>3. QED
      BY <3>1, <3>2
  <2>2. QED
    BY <1>1, <1>4, <2>1
<1>5. QED
  BY <1>2, <1>3, <1>4

LEMMA TellKept ==
  ASSUME TypeInv, LocksOwned, PastInv, PlaceInv, EndInv, TellInv, NEW t \in Threads, Step(t),
         Begun \in Nat, Begun' \in Nat, Begun' >= Begun
  PROVE  TellInv'
<1>1. Doomed'
  <2>1. SUFFICES ASSUME NEW id \in Ids, ~Unfailed(id)' PROVE Settled(id)'
    BY DEF Doomed
  <2>2. QED
    BY <2>1, DoomedKept, DoomedNew
<1>2. NoDiscard'
  BY TellStep DEF TellInv, NoDiscard, PlaceInv
<1>3. QED
  BY <1>1, <1>2, MarkedStep DEF TellInv

LEMMA UserTell ==
  ASSUME TypeInv, PlaceInv, TellInv, "cancel" \notin Ops, User, Begun' = Begun
  PROVE  TellInv'
<1>1. UNCHANGED <<log, sess>>
  BY DEF User, Press, Release, NoteRequest, Silence, Deactivate, Activate, SetCombo, SwitchModel,
     Shutdown, outcome, sessions
<1>2. pc'["worker"] = pc["worker"] /\ loc'["worker"] = loc["worker"]
  BY UserPlace
<1>3. \A u \in Threads : pc'[u] = "F4" => pc[u] = "F4" /\ loc'[u] = loc[u]
  BY UserEntries DEF Entries
<1>4. \A id : Unfailed(id)' <=> Unfailed(id)
  BY <1>1 DEF Unfailed
<1>5. \A id \in Ids : Settled(id) => Settled(id)'
  BY <1>1, <1>2 DEF Settled, Delivering
<1>6. Doomed'
  BY <1>4, <1>5 DEF TellInv, Doomed
<1>7. Marked'
  BY <1>1, <1>3 DEF TellInv, Marked, Unfailed
<1>8. NoDiscard'
  BY <1>1 DEF TellInv, NoDiscard
<1>9. QED
  BY <1>6, <1>7, <1>8 DEF TellInv

-----------------------------------------------------------------------------
(* Nothing is delivered after a failure: the invariant and the action *)

LEMMA InitAnswered == Init => Answered
<1> SUFFICES ASSUME Init PROVE Answered
  OBVIOUS
<1>1. /\ \A t \in Threads : pc[t] = (IF t = "worker" THEN "W0" ELSE "idle") /\ loc[t] = NoLocals
      /\ partialQ = <<>> /\ finalQ = <<>> /\ activeId = NoId /\ ~paused /\ ~recOn
      /\ \A id \in Ids, e \in Events : log[id][e] = 0
  BY DEF Init
<1>2. PlaceInv
  BY <1>1, WorkersAreThreads DEF PlaceInv, NoCancel, WorkerAt, Heard, Discards, Looping, Handler
<1>3. MicInv
  BY <1>1 DEF MicInv, PauseOff, Still
<1>4. EndInv
  <2>1. \A id \in Ids : ~Over(id)
    BY <1>1, WorkersAreThreads DEF Over, Ends, Queued, Closes, Working, NotWorker
  <2>2. QED
    BY <1>1, <2>1 DEF EndInv, OneEnd, OverQuiet, StartActive, Over
<1>5. TellInv
  <2>1. Reports \cup {"discarded"} \subseteq Events
    BY DEF Reports, Events
  <2>2. \A id \in Ids : Unfailed(id)
    BY <1>1, <2>1 DEF Unfailed
  <2>3. NoDiscard
    BY <1>1, <2>1 DEF NoDiscard
  <2>4. QED
    BY <1>1, <2>2, <2>3 DEF TellInv, Doomed, Marked
<1>6. QED
  BY <1>2, <1>3, <1>4, <1>5, InitType, InitLocks, InitPast DEF Answered

LEMMA NextAnswered ==
  ASSUME "cancel" \notin Ops, Answered, [Next]_vars
  PROVE  Answered'
<1>1. (TypeInv /\ LocksOwned /\ PastInv)'
  BY NextType, NextLocks, NextPast DEF Answered
<1>2. Begun \in Nat /\ Begun' \in Nat
  <2>1. Begun \in Nat
    BY BegunNat DEF Answered, PastInv
  <2>2. (TypeInv /\ Newest => Begun \in Nat)'
    BY BegunNat, PTL
  <2>3. QED
    BY <1>1, <2>1, <2>2 DEF PastInv
<1>3. ASSUME NEW t \in Threads, Step(t) PROVE Answered'
  <2>1. Begun' >= Begun
    BY <1>3, NewestKept DEF Answered, PastInv
  <2>2. PlaceInv'
    <3>1. ~CancelRestorePartials(t)
      BY NoCancelStep DEF Answered, PlaceInv, CancelSteps
    <3>2. QED
      BY <1>3, <3>1, CancelKept, WorkerAtKept, HeardKept DEF Answered, PlaceInv
  <2>3. MicInv' /\ EndInv'
    BY <1>3, MicStep, EndStep DEF Answered
  <2>4. TellInv'
    BY <1>2, <1>3, <2>1, TellKept DEF Answered
  <2>5. QED
    BY <1>1, <2>2, <2>3, <2>4 DEF Answered
<1>4. CASE User
  <2>1. UNCHANGED gen
    BY <1>4 DEF User, Press, Release, NoteRequest, Silence, Deactivate,
       Activate, SetCombo, SwitchModel, Shutdown, capture
  <2>2. \A u \in Threads : pc'[u] = "S2" <=> pc[u] = "S2"
    BY <1>4, UserOnly DEF OnlyMoves, Outside, threads, Answered
  <2>3. Begun' = Begun
    BY <2>1, <2>2 DEF Begun
  <2>4. PlaceInv' /\ MicInv' /\ EndInv' /\ TellInv'
    BY <1>4, <2>3, UserPlace, UserMic, UserEnd, UserTell DEF Answered
  <2>5. QED
    BY <1>1, <2>4 DEF Answered
<1>5. CASE UNCHANGED vars
  <2>1. UNCHANGED <<pc, loc, gen, activeId, paused, recOn, sess, log, partialQ, finalQ>>
    BY <1>5 DEF vars, threads, capture, queues, sessions, outcome
  <2>2. PlaceInv' /\ MicInv'
    BY <2>1 DEF Answered, PlaceInv, NoCancel, WorkerAt, Heard, MicInv, PauseOff, Still
  <2>3. EndInv'
    BY <2>1 DEF Answered, EndInv, OneEnd, OverQuiet, StartActive, Over, Ends, Queued, Closes
  <2>4. TellInv'
    BY <2>1 DEF Answered, TellInv, Doomed, Settled, Marked, NoDiscard, Unfailed, Delivering, Begun
  <2>5. QED
    BY <1>1, <2>2, <2>3, <2>4 DEF Answered
<1>6. QED
  BY <1>3, <1>4, <1>5 DEF Next, Resting

\* Only the two last steps of a session deliver, and what they deliver is theirs.
LEMMA OnlyDeliveries ==
  ASSUME TypeInv, PlaceInv, NEW t \in Threads, Step(t), NEW id \in Ids, Delivered(id)' > Delivered(id)
  PROVE  Delivering(id)
<1>0. {"typed", "note"} \subseteq Events /\ NoCancel
  BY DEF Events, PlaceInv
<1>1. /\ \A e \in {"typed", "note"} : log[id][e] \in Nat
      /\ \E e \in {"typed", "note"} : log'[id][e] # log[id][e]
  BY <1>0 DEF Delivered, TypeInv, TypeOK, OutcomeOK
<1>2. ASSUME NEW i, NEW events, See(i, events)
      PROVE  i = id /\ \E e \in {"typed", "note"} : e \in events
  BY <1>0, <1>1, <1>2, SeeCounts
<1>3. PICK events : See(loc["worker"].id, events) /\ pc["worker"] = "E4"
  <2>1. ~UNCHANGED log
    BY <1>1
  <2>2. ~\E i : \/ See(i, {"note empty"}) \/ See(i, {"history"})
                \/ See(i, {"failed"}) \/ See(i, {"note failed"})
    <3>1. ASSUME NEW i, NEW event \in {"note empty", "history", "failed", "note failed"}, See(i, {event})
          PROVE  FALSE
      <4>1. event \notin {"typed", "note"}
        OBVIOUS
      <4>2. \E e \in {"typed", "note"} : e \in {event}
        BY <1>2, <3>1, Zenon
      <4>3. QED
        BY <4>1, <4>2
    <3>2. QED
      BY <3>1
  <2>3. QED
    BY <1>0, <2>1, <2>2, StepSees DEF SessionType, SessionSave
<1>4. QED
  BY <1>2, <1>3 DEF Delivering

\* What was reported as failed is neither typed nor saved afterwards: nothing
\* else can end a recording that the worker delivers (_finalize_recording_session,
\* _handle_recording_failure, _mark_recording_completed), and its session is
\* closed for good when it fails.  A discard is the exception, which the
\* hypothesis excludes: the worker may have checked the recording already.
THEOREM NoLateDelivery ==
  ASSUME "cancel" \notin Ops
  PROVE  Spec => NoDeliveryAfterFailure
<1> DEFINE Kept == \A id \in Ids : Delivered(id)' > Delivered(id) =>
                     \A e \in {"failed", "note failed", "discarded"} : log[id][e] = 0
<1>1. Init => Answered
  BY InitAnswered
<1>2. Answered /\ [Next]_vars => Answered'
  BY NextAnswered
<1>3. Answered /\ [Next]_vars => [Kept]_vars
  <2>1. SUFFICES ASSUME Answered, [Next]_vars, NEW id \in Ids, Delivered(id)' > Delivered(id)
                 PROVE  \A e \in {"failed", "note failed", "discarded"} : log[id][e] = 0
    BY DEF Kept
  <2>2. Delivering(id)
    <3>1. CASE \E t \in Threads : Step(t)
      BY <2>1, <3>1, OnlyDeliveries DEF Answered
    <3>2. CASE User \/ UNCHANGED vars
      <4>1. UNCHANGED log
        BY <3>2 DEF User, Press, Release, NoteRequest, Silence, Deactivate, Activate, SetCombo, SwitchModel,
           Shutdown, outcome, vars
      <4>2. Delivered(id)' = Delivered(id)
        BY <4>1 DEF Delivered
      <4>3. Delivered(id) \in Nat
        <5>1. "typed" \in Events /\ "note" \in Events /\ log[id] \in [Events -> Nat]
          BY <2>1 DEF Events, Answered, TypeInv, TypeOK, OutcomeOK
        <5>2. QED
          BY <5>1 DEF Delivered
      <4>4. QED
        BY <2>1, <4>2, <4>3
    <3>3. QED
      BY <2>1, <3>1, <3>2 DEF Next, Resting
  <2>3. \A e \in Reports \cup {"discarded"} : log[id][e] = 0
    BY <2>1, <2>2 DEF Answered, TellInv, Doomed, Settled, NoDiscard, Unfailed
  <2>4. QED
    BY <2>3 DEF Reports
<1>4. QED
  BY <1>1, <1>2, <1>3, PTL DEF Spec, NoDeliveryAfterFailure, Kept

-----------------------------------------------------------------------------
(* A closed recording stays closed: where the microphone is off *)

\* Where the parts of a step lead.
LEMMA LeadsTo ==
  ASSUME TypeInv, NEW t \in Threads
  PROVE  /\ \A label : Goto(t, label) => pc'[t] = label
         /\ \A label, mode : Begin(t, label, mode) => pc'[t] = label
         /\ \A from, to : Acquire(t, from, to) => pc'[t] = to
         /\ Return(t) => pc'[t] \in {"idle", "D1"}
         /\ Leave(t) => pc'[t] \in {"idle", "D1"}
<1>1. \A label : Goto(t, label) => pc'[t] = label
  BY DEF Goto, TypeInv, TypeOK, ThreadsOK
<1>2. Return(t) => pc'[t] \in {"idle", "D1"}
  BY ReturnOnly
<1>3. QED
  BY <1>1, <1>2 DEF Begin, Acquire, Leave

\* A discard has read at its start whether the microphone runs.
LEMMA DiscardMutes ==
  ASSUME TypeInv, NEW t \in Threads, CancelSteps(t), pc'[t] \in Discarding
  PROVE  \/ pc[t] \in Discarding /\ loc'[t].running = loc[t].running
         \/ loc'[t].running = recOn /\ recOn' = recOn
<1>1. CASE CancelLock(t) \/ CancelEnd(t)
  <2>1. pc'[t] \in {"C1", "idle", "D1"}
    BY <1>1, LeadsTo DEF CancelLock, CancelEnd
  <2>2. QED
    BY <2>1 DEF Discarding
<1>2. CASE CancelCheck(t)
  <2>1. CASE Leave(t)
    BY <2>1, LeadsTo DEF Discarding
  <2>2. CASE loc' = [loc EXCEPT ![t].id = activeId, ![t].running = recOn, ![t].note = sess[activeId].note]
    BY <1>2, <2>2, LocalsOf DEF CancelCheck, capture, Locals, TypeInv, TypeOK, ThreadsOK
  <2>3. QED
    BY <1>2, <2>1, <2>2 DEF CancelCheck
<1>3. CASE CancelDelete(t) \/ CancelMark(t)
  BY <1>3 DEF CancelDelete, CancelMark, Discarding
<1>4. CASE CancelDrainPartials(t) \/ CancelRestorePartials(t)
  BY <1>4, LocalsOf DEF CancelDrainPartials, CancelRestorePartials, Discarding, Locals, TypeInv, TypeOK, ThreadsOK
<1>5. CASE CancelDrainFinals(t) \/ CancelRestoreFinals(t)
  BY <1>5, LocalsOf DEF CancelDrainFinals, CancelRestoreFinals, Discarding, Locals, TypeInv, TypeOK, ThreadsOK
<1>6. QED
  BY <1>1, <1>2, <1>3, <1>4, <1>5 DEF CancelSteps

LEMMA MutesStep ==
  ASSUME TypeInv, LocksOwned, WorkerAt, Heard, NEW t \in Threads, Step(t), Mutes(t)'
  PROVE  ~recOn' \/ (Mutes(t) /\ (recOn' => recOn))
<1> DEFINE label == pc'[t]
<1>0. /\ label \in Muted \/ (label \in Handler /\ loc'[t].ret \in {"Z3", "Z4"})
         \/ (label \in Discarding /\ ~loc'[t].running)
      /\ recOn \in BOOLEAN
  BY DEF Mutes, TypeInv, TypeOK, CaptureOK
<1>1. CASE StartSteps(t)
  <2>1. CASE StartCheck(t)
    BY <1>0, <2>1, LeadsTo DEF StartCheck, Muted, Handler, Discarding
  <2>2. CASE ~StartCheck(t)
    <3>1. label \in {"S1", "idle", "D1"}
      BY <1>1, <2>2, LeadsTo DEF StartSteps, StartLock, StartCapture
    <3>2. QED
      BY <1>0, <3>1 DEF Muted, Handler, Discarding
  <2>3. QED
    BY <2>1, <2>2
<1>2. CASE FinalizeSteps(t)
  <2>1. CASE FinalizeStop(t)
    BY <1>0, <2>1, LeadsTo DEF FinalizeStop, Muted, Handler, Discarding
  <2>2. CASE FinalizeQueue(t)
    BY <2>2 DEF FinalizeQueue, Mutes, Muted
  <2>3. CASE ~FinalizeStop(t) /\ ~FinalizeQueue(t)
    <3>1. label \in {"Z1", "idle", "D1"}
      BY <1>2, <2>3, LeadsTo DEF FinalizeSteps, FinalizeLock, FinalizeEnd, FinalizeFailed
    <3>2. QED
      BY <1>0, <3>1 DEF Muted, Handler, Discarding
  <2>4. QED
    BY <2>1, <2>2, <2>3
<1>3. CASE PauseSteps(t)
  <2>1. CASE PauseStop(t)
    BY <1>0, <2>1, LeadsTo DEF PauseStop, Muted, Handler, Discarding
  <2>2. CASE PauseQueue(t)
    BY <2>2 DEF PauseQueue, capture, Mutes, Muted
  <2>3. CASE ~PauseStop(t) /\ ~PauseQueue(t)
    <3>1. label \in {"P1", "idle", "D1"}
      BY <1>3, <2>3, LeadsTo DEF PauseSteps, PauseLock, PauseEnd
    <3>2. QED
      BY <1>0, <3>1 DEF Muted, Handler, Discarding
  <2>4. QED
    BY <2>1, <2>2, <2>3
<1>4. CASE ResumeSteps(t) \/ StartNote(t) \/ Toggle(t)
  <2>1. label \in {"R0", "R1", "S0", "Z0", "idle", "D1"}
    BY <1>4, LeadsTo DEF ResumeSteps, ResumeLock, Resume, StartNote, Toggle
  <2>2. QED
    BY <1>0, <2>1 DEF Muted, Handler, Discarding
<1>5. CASE StopSteps(t)
  <2>1. CASE StopQueue(t)
    <3>1. label = "T4" \/ (label = "F1" /\ loc'[t].ret = "T4")
      BY <2>1, LeadsTo, FailOnly DEF StopQueue
    <3>2. QED
      BY <1>0, <3>1 DEF Muted, Handler, Discarding
  <2>2. CASE ~StopQueue(t)
    <3>1. label \in {"T1", "T2", "T3", "Z0", "idle", "D1"}
      BY <1>5, <2>2, LeadsTo DEF StopSteps, StopLock, StopCheck, StopPaused, StopOvertaken, StopEnd
    <3>2. QED
      BY <1>0, <3>1 DEF Muted, Handler, Discarding
  <2>3. QED
    BY <2>1, <2>2
<1>6. CASE CancelSteps(t)
  <2>1. recOn' => recOn
    BY <1>6, MicOff DEF CancelSteps, CancelLock, CancelCheck, CancelDelete, CancelMark, CancelDrainPartials,
     CancelRestorePartials, CancelDrainFinals, CancelRestoreFinals, CancelEnd, CancelRecorder, Acquire, capture
  <2>2. CASE label \in Discarding
    BY <1>0, <1>6, <2>1, <2>2, DiscardMutes DEF Mutes, Muted, Handler, Discarding
  <2>3. CASE label \notin Discarding
    <3>1. label \in {"C1", "idle", "D1"} \cup Discarding
      BY <1>6, LeadsTo DEF CancelSteps, CancelLock, CancelCheck, CancelDelete, CancelMark, CancelDrainPartials,
         CancelRestorePartials, CancelDrainFinals, CancelRestoreFinals, CancelEnd, Discarding
    <3>2. QED
      BY <1>0, <2>3, <3>1 DEF Muted, Handler
  <2>4. QED
    BY <2>2, <2>3
<1>7. CASE FailSteps(t)
  <2>1. pc[t] \in Handler /\ recOn' = recOn
    BY <1>7 DEF FailSteps, FailCheck, FailRead, FailMark, FailEnd, Handler, capture
  <2>2. loc[t].ret \in Returns
    BY LocalsOf DEF Locals
  <2>3. QED
    BY <1>0, <1>7, <2>1, <2>2, FailKeepsFinal DEF Mutes, Muted, Handler, Discarding, Returns
<1>8. CASE t = "cleaner" /\ CleanupSteps
  <2>1. CASE CleanupStop
    BY <1>0, <1>8, <2>1, LeadsTo DEF CleanupStop, Muted, Handler, Discarding
  <2>2. CASE ~CleanupStop
    <3>1. label \in {"X1", "idle", "D1"}
      BY <1>8, <2>2, LeadsTo DEF CleanupSteps, CleanupLock, CleanupEnd
    <3>2. QED
      BY <1>0, <3>1 DEF Muted, Handler, Discarding
  <2>3. QED
    BY <2>1, <2>2
<1>9. CASE t = "tray" /\ ShutdownSteps
  <2>1. label \in {"D2", "idle"}
    BY <1>9, LeadsTo DEF ShutdownSteps, ShutdownHotkey, ShutdownQueue
  <2>2. QED
    BY <1>0, <2>1 DEF Muted, Handler, Discarding
<1>10. CASE t = "worker" /\ WorkerSteps
  <2>1. WorkerAt'
    BY <1>10, WorkerAtKept
  <2>2. QED
    BY <1>0, <1>10, <2>1 DEF WorkerAt, Looping, Muted, Handler, Discarding
<1>11. QED
  BY <1>1, <1>2, <1>3, <1>4, <1>5, <1>6, <1>7, <1>8, <1>9, <1>10 DEF Step

LEMMA MutesHolds ==
  ASSUME NEW t \in Threads, Mutes(t)
  PROVE  Holds(t)
  BY DEF Mutes, Muted, Discarding, Handler, Holds, Inside

\* Only a thread that starts a capture, or pauses, gets to where a pause is excluded.
LEMMA PauseFree ==
  ASSUME TypeInv, NEW t \in Threads, Step(t), pc'[t] \in {"S2", "P2", "P3"}
  PROVE  \/ StartCheck(t) /\ ~paused' /\ ~recOn'
         \/ PauseStop(t) /\ ~paused'
         \/ PauseQueue(t) /\ paused' = paused
<1>1. ASSUME ~StartCheck(t), ~PauseStop(t), ~PauseQueue(t) PROVE FALSE
  <2>1. CASE StartSteps(t) \/ FinalizeSteps(t)
    BY <1>1, <2>1, LeadsTo DEF StartSteps, StartLock, StartCapture, FinalizeSteps, FinalizeLock,
       FinalizeStop, FinalizeQueue, FinalizeEnd, FinalizeFailed, Fail
  <2>2. CASE PauseSteps(t) \/ ResumeSteps(t) \/ StartNote(t) \/ Toggle(t)
    BY <1>1, <2>2, LeadsTo DEF PauseSteps, PauseLock, PauseEnd, ResumeSteps, ResumeLock,
       Resume, StartNote, Toggle
  <2>3. CASE StopSteps(t)
    BY <2>3, LeadsTo DEF StopSteps, StopLock, StopCheck, StopPaused, StopOvertaken, StopQueue, StopEnd, Fail
  <2>4. CASE CancelSteps(t)
    BY <2>4, LeadsTo DEF CancelSteps, CancelLock, CancelCheck, CancelDelete, CancelMark, CancelDrainPartials,
       CancelRestorePartials, CancelDrainFinals, CancelRestoreFinals, CancelEnd
  <2>5. CASE FailSteps(t)
    BY <2>5, TenderLabels, ReturnLabels, LocalsOf DEF FailSteps, Locals, Returns
  <2>6. CASE (t = "cleaner" /\ CleanupSteps) \/ (t = "tray" /\ ShutdownSteps)
    BY <2>6, LeadsTo DEF CleanupSteps, CleanupLock, CleanupStop, CleanupEnd, ShutdownSteps,
       ShutdownHotkey, ShutdownQueue
  <2>7. CASE t = "worker" /\ WorkerSteps
    BY <2>7, WorkerOnly DEF Looping
  <2>8. QED
    BY <2>1, <2>2, <2>3, <2>4, <2>5, <2>6, <2>7 DEF Step
<1>2. StartCheck(t) => ~paused' /\ ~recOn'
  BY LeadsTo DEF StartCheck
<1>3. PauseStop(t) => ~paused'
  BY LeadsTo DEF PauseStop
<1>4. PauseQueue(t) => paused' = paused
  BY DEF PauseQueue, capture
<1>5. QED
  BY <1>1, <1>2, <1>3, <1>4

LEMMA MuteStep ==
  ASSUME TypeInv, LocksOwned, WorkerAt, Heard, MuteInv, NEW t \in Threads, Step(t)
  PROVE  MuteInv'
<1>0. OnlyMoves(t) /\ PauseOff /\ Muffled(t) /\ paused \in BOOLEAN /\ recOn \in BOOLEAN
  BY StepLocks DEF LockStep, MuteInv, TypeInv, TypeOK, CaptureOK
<1>1. PauseOff'
  <2>1. CASE StartCapture(t)
    BY <1>0, <2>1, MicSteps DEF PauseOff, Muffled
  <2>2. CASE Resume(t)
    BY <1>0, <2>2, MicSteps DEF PauseOff, PauseEnd
  <2>3. CASE PauseEnd(t)
    BY <1>0, <2>3, MicSteps DEF PauseOff, Muffled, Mutes, Muted
  <2>4. CASE ~(StartCapture(t) \/ Resume(t) \/ PauseEnd(t))
    BY <1>0, <2>4, MicSteps DEF PauseOff
  <2>5. QED
    BY <2>1, <2>2, <2>3, <2>4
<1>2. ASSUME NEW u \in Threads, u # t PROVE Muffled(u)'
  <2>1. pc'[u] = pc[u] /\ (Mutes(u)' <=> Mutes(u)) /\ Muffled(u)
    BY <1>0, <1>2 DEF OnlyMoves, MuteInv, Mutes
  <2>2. CASE Holds(t)
    <3>1. ~Holds(u)
      BY <1>2, <2>2 DEF LocksOwned, CtlOwned
    <3>2. ~Mutes(u) /\ pc[u] \notin {"S2", "P2", "P3"}
      BY <3>1, MutesHolds DEF Holds, Inside
    <3>3. QED
      BY <2>1, <3>2 DEF Muffled
  <2>3. CASE ~Holds(t)
    BY <1>0, <2>1, <2>3, MicSteps DEF Muffled
  <2>4. QED
    BY <2>2, <2>3
<1>3. Muffled(t)'
  <2>1. Mutes(t)' => ~recOn'
    BY <1>0, MutesStep DEF Muffled
  <2>2. pc'[t] \in {"S2", "P2", "P3"} => ~paused'
    BY <1>0, PauseFree DEF Muffled, PauseQueue
  <2>3. QED
    BY <2>1, <2>2 DEF Muffled
<1>4. QED
  BY <1>1, <1>2, <1>3 DEF MuteInv

-----------------------------------------------------------------------------
(* A closed recording stays closed: the chunks a discard takes apart *)

LEMMA HeardSeq ==
  ASSUME NEW q \in Seq(Items), AllHeard(q)
  PROVE  /\ q # <<>> => Head(q).captures # <<>> /\ AllHeard(Tail(q))
         /\ \A item \in Items : item.captures # <<>> => AllHeard(Append(q, item))
         /\ \A r \in Seq(Items) : AllHeard(r) => AllHeard(q \o r)
<1>1. q # <<>> => Head(q).captures # <<>> /\ AllHeard(Tail(q))
  BY DEF AllHeard
<1>2. \A item \in Items : item.captures # <<>> => AllHeard(Append(q, item))
  BY DEF AllHeard
<1>3. ASSUME NEW r \in Seq(Items), AllHeard(r), NEW i \in DOMAIN (q \o r)
      PROVE  (q \o r)[i].captures # <<>>
  <2>1. CASE i <= Len(q)
    BY <1>3, <2>1 DEF AllHeard
  <2>2. CASE i > Len(q)
    <3>1. i - Len(q) \in DOMAIN r /\ (q \o r)[i] = r[i - Len(q)]
      BY <1>3, <2>2
    <3>2. QED
      BY <1>3, <3>1 DEF AllHeard
  <2>3. QED
    BY <1>3, <2>1, <2>2
<1>4. QED
  BY <1>1, <1>2, <1>3 DEF AllHeard

LEMMA KeepHeard ==
  ASSUME NEW q \in Seq(Items), AllHeard(q), NEW item \in Items, item.captures # <<>>, NEW id
  PROVE  AllHeard(Keep(q, item, id))
  BY HeardSeq DEF Keep

LEMMA WorkStep ==
  ASSUME TypeInv, LocksOwned, WorkInv, NEW t \in Threads, Step(t)
  PROVE  WorkInv'
<1>0. OnlyMoves(t) /\ WorkerAt /\ Heard /\ KeptHeard
  BY StepLocks DEF LockStep, WorkInv
<1>s. partialQ \in Seq(Items) /\ loc[t].keptPartials \in Seq(Items)
  BY QueueTypes
<1>1. AllHeard(loc'[t].keptPartials)
  <2>1. CASE CancelDrainPartials(t)
    <3> DEFINE next == Keep(loc[t].keptPartials, Head(partialQ), loc[t].id)
    <3>1. CASE partialQ = <<>>
      BY <1>0, <2>1, <3>1 DEF CancelDrainPartials, KeptHeard, AllHeard
    <3>2. CASE partialQ # <<>>
      <4>1. loc' = [loc EXCEPT ![t].keptPartials = next]
        BY <2>1, <3>2 DEF CancelDrainPartials
      <4>2. loc'[t].keptPartials = next
        BY <4>1, LocalsOf DEF Locals, TypeInv, TypeOK, ThreadsOK
      <4>3. Head(partialQ) \in Items /\ Head(partialQ).captures # <<>>
        BY <1>0, <1>s, <3>2 DEF Heard
      <4>4. AllHeard(next)
        BY <1>0, <1>s, <4>3, KeepHeard DEF KeptHeard, AllHeard
      <4>5. QED
        BY <4>2, <4>4
    <3>3. QED
      BY <3>1, <3>2
  <2>2. CASE ~CancelDrainPartials(t)
    <3>1. loc'[t].keptPartials \in {loc[t].keptPartials, <<>>}
      BY <2>2, KeptStays
    <3>2. QED
      BY <1>0, <3>1 DEF KeptHeard, AllHeard
  <2>3. QED
    BY <2>1, <2>2
<1>2. KeptHeard'
  BY <1>0, <1>1 DEF KeptHeard, OnlyMoves, AllHeard
<1>3. Heard'
  <2>1. CASE CancelRestorePartials(t)
    <3>1. partialQ' = partialQ \o loc[t].keptPartials /\ pc[t] = "C5"
      BY <2>1 DEF CancelRestorePartials
    <3>2. AllHeard(partialQ \o loc[t].keptPartials)
      BY <1>0, <1>s, HeardSeq DEF Heard, KeptHeard, AllHeard
    <3>3. t # "worker"
      BY <1>0, <3>1 DEF WorkerAt, Looping, Handler
    <3>4. pc'["worker"] = pc["worker"] /\ loc'["worker"] = loc["worker"]
      BY <1>0, <3>3, WorkersAreThreads DEF OnlyMoves
    <3>5. QED
      BY <1>0, <3>1, <3>2, <3>4 DEF Heard, AllHeard
  <2>2. QED
    BY <1>0, <2>1, HeardKept
<1>4. QED
  BY <1>0, <1>2, <1>3, WorkerAtKept DEF WorkInv

-----------------------------------------------------------------------------
(* A closed recording stays closed: the recording that starts is the active one *)

\* The recording that a step takes away.
LEMMA Drops ==
  ASSUME TypeInv, NEW t \in Threads, Step(t), ~StartCheck(t), ~StartCapture(t), activeId' # activeId
  PROVE  activeId' = NoId /\ loc[t].id = activeId /\ pc[t] \in {"Z2", "Z3", "T4", "C8", "F4", "X2"}
  BY CaptureFrame DEF Resume

LEMMA StartOwnStep ==
  ASSUME TypeInv, LocksOwned, PastInv, StartOwn, NEW t \in Threads, Step(t)
  PROVE  StartOwn'
<1>0. OnlyMoves(t) /\ gen \in Nat
  BY StepLocks, IdsType DEF LockStep, TypeInv, TypeOK, CaptureOK
<1>1. SUFFICES ASSUME NEW u \in Threads, pc'[u] = "S2" PROVE activeId' = gen'
  BY DEF StartOwn
<1>2. CASE u = t
  <2>1. StartCheck(t) /\ ~Leave(t)
    BY <1>1, <1>2, StepLabels, ReturnOnly DEF Leave
  <2>2. QED
    BY <2>1 DEF StartCheck
<1>3. CASE u # t
  <2>1. pc[u] = "S2" /\ rec = u
    BY <1>0, <1>1, <1>3 DEF OnlyMoves, LocksOwned, RecOwned
  <2>2. ~StartCheck(t) /\ ~StartCapture(t)
    <3>1. ~StartCheck(t)
      BY <1>3, <2>1, FreeIsNoThread DEF StartCheck, RecFree
    <3>2. pc[t] # "S2"
      BY <1>3, <2>1 DEF LocksOwned, RecOwned
    <3>3. QED
      BY <3>1, <3>2 DEF StartCapture
  <2>3. gen' = gen /\ activeId = gen
    BY <2>1, <2>2, StepActive DEF StartOwn
  <2>4. activeId' = activeId
    <3>1. SUFFICES ASSUME activeId' # activeId PROVE FALSE
      OBVIOUS
    <3>2. loc[t].id = gen
      BY <2>2, <2>3, <3>1, Drops
    <3>3. pc[t] # "S2" /\ Begun = gen - 1
      BY <1>3, <2>1 DEF LocksOwned, RecOwned, Begun
    <3>4. QED
      BY <1>0, <3>2, <3>3 DEF PastInv, PastAt
  <2>5. QED
    BY <2>3, <2>4
<1>4. QED
  BY <1>2, <1>3

-----------------------------------------------------------------------------
(* A closed recording stays closed: who may still end it *)

LEMMA HasSeq ==
  ASSUME NEW q \in Seq(Items), NEW id
  PROVE  /\ ~Has(<<>>, id)
         /\ q # <<>> => (Has(Tail(q), id) => Has(q, id)) /\ (Head(q).id = id => Has(q, id))
         /\ \A item \in Items : Has(Append(q, item), id) => Has(q, id) \/ item.id = id
  BY DEF Has

LEMMA EndingPast ==
  ASSUME TypeInv, PastInv, NEW id \in Ids, Ending(id)
  PROVE  id <= Begun
<1>1. CASE Has(finalQ, id)
  BY <1>1 DEF Has, PastInv, PastAt, AllPast
<1>2. ASSUME NEW t \in Threads, Closing(t, id) PROVE id <= Begun
  BY <1>2 DEF Closing, Working, Handler, PastInv, PastAt
<1>3. ASSUME NEW t \in Threads, Has(loc[t].keptFinals, id) PROVE id <= Begun
  BY <1>3 DEF Has, PastInv, PastAt, AllPast
<1>4. QED
  BY <1>1, <1>2, <1>3 DEF Ending

\* Only the one that pauses the active recording comes to the point where it
\* will be marked as paused.
LEMMA Pausing ==
  ASSUME TypeInv, NEW t \in Threads, Step(t), pc'[t] \in {"P2", "P3"}
  PROVE  \/ PauseStop(t) /\ recOn
         \/ PauseQueue(t) /\ pc[t] = "P2" /\ loc'[t].id = loc[t].id
<1>1. StartCheck(t) => pc'[t] \in {"S2", "idle", "D1"}
  BY TenderLabels
<1>2. PauseStop(t) => recOn
  BY LeadsTo DEF PauseStop
<1>3. PauseQueue(t) => pc[t] = "P2" /\ loc'[t].id = loc[t].id
  BY LeadsTo DEF PauseQueue
<1>4. QED
  BY <1>1, <1>2, <1>3, PauseFree

LEMMA ClosedKept ==
  ASSUME TypeInv, LocksOwned, PastInv, StartOwn, NEW t \in Threads, Step(t),
         NEW id \in Ids, id <= Begun, Closed(id)
  PROVE  Closed(id)'
<1>0. /\ OnlyMoves(t) /\ gen \in Nat /\ id \in Nat /\ id # NoId
      /\ recOn \in BOOLEAN /\ paused \in BOOLEAN
  BY StepLocks, IdsType DEF LockStep, TypeInv, TypeOK, CaptureOK
<1>1. Begun \in Nat /\ Begun <= gen
  BY BegunType DEF PastInv
<1>2. SUFFICES ASSUME activeId' = id
               PROVE  /\ ~recOn' /\ ~paused'
                      /\ \A u \in Threads : pc'[u] \in {"P2", "P3"} => loc'[u].id # id
  BY DEF Closed
<1>3. activeId = id
  <2>1. CASE StartCheck(t)
    BY <1>0, <1>1, <1>2, <2>1 DEF StartCheck
  <2>2. CASE ~StartCheck(t)
    BY <1>0, <1>2, <2>2, StepActive
  <2>3. QED
    BY <2>1, <2>2
<1>4. /\ ~recOn /\ ~paused
      /\ \A u \in Threads : pc[u] \in {"P2", "P3"} => loc[u].id # id
  BY <1>3 DEF Closed
<1>5. ~recOn'
  <2>1. CASE StartCapture(t)
    <3>1. pc[t] = "S2" /\ activeId = gen /\ Begun = gen - 1
      BY <2>1 DEF StartCapture, StartOwn, Begun
    <3>2. QED
      BY <1>0, <1>3, <3>1
  <2>2. CASE ~StartCapture(t)
    BY <1>0, <1>4, <2>2, MicSteps
  <2>3. QED
    BY <2>1, <2>2
<1>6. ~paused'
  <2>1. CASE PauseEnd(t)
    <3>1. pc[t] = "P3" /\ loc[t].id # activeId
      BY <1>3, <1>4, <2>1 DEF PauseEnd
    <3>2. QED
      BY <1>4, <2>1, <3>1 DEF PauseEnd, Current
  <2>2. CASE ~PauseEnd(t)
    BY <1>4, <2>2, MicSteps
  <2>3. QED
    BY <2>1, <2>2
<1>7. pc'[t] \in {"P2", "P3"} => loc'[t].id # id
  BY <1>4, Pausing
<1>8. QED
  BY <1>0, <1>4, <1>5, <1>6, <1>7 DEF OnlyMoves

\* The step that takes the end of the active recording closes it.
LEMMA TakenClosed ==
  ASSUME TypeInv, MuteInv, NEW t \in Threads, OnlyMoves(t), TakesEnd(t)
  PROVE  \A id : Closed(id)'
<1>1. recOn \/ paused
  BY DEF TakesEnd
<1>2. \A u \in Threads : pc[u] \notin {"P2", "P3"}
  BY <1>1 DEF MuteInv, Muffled, Mutes, Muted
<1>3. pc'[t] \notin {"P2", "P3"}
  BY TenderLabels DEF TakesEnd
<1>4. \A u \in Threads : pc'[u] \notin {"P2", "P3"}
  BY <1>2, <1>3 DEF OnlyMoves
<1>5. QED
  BY <1>4 DEF Closed, TakesEnd

LEMMA FinalizeTakes ==
  ASSUME TypeInv, MuteInv, NEW t \in Threads, FinalizeStop(t), t # "worker", NEW id \in Ids, Closing(t, id)'
  PROVE  TakesEnd(t) /\ id = activeId
<1>1. activeId # NoId
  BY LeadsTo DEF FinalizeStop, Closing, Handler
<1>2. activeId \in Ids /\ recOn' = FALSE /\ paused' = paused
  BY <1>1 DEF FinalizeStop, TypeInv, TypeOK, CaptureOK, IdOrNone
<1>3. CASE \E audio : /\ loc' = [loc EXCEPT ![t].id = activeId, ![t].mode = ModeOf(activeId), ![t].captures = audio]
                      /\ Goto(t, "Z2") /\ (audio # <<>> => recOn)
  <2>1. PICK audio : /\ loc' = [loc EXCEPT ![t].id = activeId, ![t].mode = ModeOf(activeId), ![t].captures = audio]
                     /\ Goto(t, "Z2") /\ (audio # <<>> => recOn)
    BY <1>3
  <2>2. loc'[t].id = activeId /\ loc'[t].captures = audio /\ pc'[t] = "Z2"
    BY <2>1, LeadsTo, LocalsOf DEF Locals, TypeInv, TypeOK, ThreadsOK
  <2>3. id = activeId /\ recOn /\ ~paused
    BY <2>1, <2>2 DEF Closing, Handler, MuteInv, PauseOff
  <2>4. QED
    BY <1>2, <2>3 DEF TakesEnd
<1>4. CASE /\ recOn /\ Goto(t, "F1")
           /\ loc' = [loc EXCEPT ![t].id = activeId, ![t].mode = ModeOf(activeId),
                                 ![t].hard = TRUE, ![t].ret = "Z4"]
  <2>1. loc'[t].id = activeId
    BY <1>4, LocalsOf DEF Locals, TypeInv, TypeOK, ThreadsOK
  <2>2. id = activeId /\ ~paused
    BY <1>4, <2>1 DEF Closing, MuteInv, PauseOff
  <2>3. QED
    BY <1>2, <1>4, <2>2 DEF TakesEnd
<1>5. QED
  BY <1>1, <1>3, <1>4 DEF FinalizeStop

LEMMA StopTakes ==
  ASSUME TypeInv, MuteInv, NEW t \in Threads, StopPaused(t), t # "worker", NEW id \in Ids, Closing(t, id)'
  PROVE  TakesEnd(t) /\ id = activeId
<1>1. activeId = loc[t].id /\ paused
  BY LeadsTo DEF StopPaused, StopOvertaken, Closing, Handler
<1>2. loc'[t].id = activeId /\ ~paused' /\ recOn' = recOn /\ activeId \in Ids
  BY <1>1 DEF StopPaused, TypeInv, HasId, Bound
<1>3. ~recOn
  BY <1>1 DEF MuteInv, PauseOff
<1>4. QED
  BY <1>1, <1>2, <1>3 DEF TakesEnd, Closing

\* The failure handler keeps the recording it was given.
LEMMA FailCloses ==
  ASSUME TypeInv, WorkerAt, NEW t \in Threads, FailSteps(t), NEW id \in Ids, Closing(t, id)'
  PROVE  Closing(t, id)
<1>1. pc[t] \in Handler
  BY DEF FailSteps, FailCheck, FailRead, FailMark, FailEnd, Handler
<1>2. pc'[t] # "W0"
  BY DEF Closing, Working, Handler
<1>3. loc'[t].id = loc[t].id
  BY <1>2, FailKeepsId
<1>4. loc'[t].final = loc[t].final
  BY <1>2, FailKeepsFinal
<1>5. QED
  BY <1>1, <1>3, <1>4 DEF Closing, Working, Handler

LEMMA QueueCloses ==
  ASSUME TypeInv, NEW t \in Threads, FinalizeQueue(t) \/ StopQueue(t) \/ StopEnd(t), t # "worker",
         NEW id \in Ids, Closing(t, id)'
  PROVE  Closing(t, id)
<1>1. CASE FinalizeQueue(t)
  <2>1. PICK hard, ret : Fail(t, loc[t].id, hard, ret) /\ loc[t].captures # <<>>
    BY <1>1, LeadsTo DEF FinalizeQueue, Closing, Handler
  <2>2. loc'[t].id = loc[t].id
    BY <2>1, FailOnly
  <2>3. QED
    BY <1>1, <2>1, <2>2 DEF FinalizeQueue, Closing
<1>2. CASE StopQueue(t)
  <2>1. loc'[t].id = loc[t].id
    BY <1>2, FailOnly DEF StopQueue
  <2>2. QED
    BY <1>2, <2>1 DEF StopQueue, Closing
<1>3. CASE StopEnd(t)
  BY <1>3, LeadsTo DEF StopEnd, Closing, Handler
<1>4. QED
  BY <1>1, <1>2, <1>3

LEMMA WorkerCloses ==
  ASSUME TypeInv, WorkerSteps, NEW id \in Ids, Closing("worker", id)'
  PROVE  From("worker", id)
<1> DEFINE w == "worker"
<1>0. w \in Threads /\ pc'[w] \in Working /\ loc'[w].final /\ loc'[w].id = id
  BY WorkersAreThreads DEF Closing
<1>1. CASE TakePartial
  <2>1. TakeChunk(FALSE, Head(partialQ))
    BY <1>0, <1>1, LeadsTo DEF TakePartial, Working
  <2>2. ~loc'[w].final
    BY <1>0, <2>1, LocalsOf DEF TakeChunk, Locals, TypeInv, TypeOK, ThreadsOK
  <2>3. QED
    BY <1>0, <2>2
<1>2. CASE TakeFinal
  <2>1. TakeChunk(TRUE, Head(finalQ)) /\ finalQ # <<>>
    BY <1>0, <1>2, LeadsTo DEF TakeFinal, Working
  <2>2. loc'[w].id = Head(finalQ).id
    BY <1>0, <2>1, LocalsOf DEF TakeChunk, Locals, TypeInv, TypeOK, ThreadsOK
  <2>3. QED
    BY <1>0, <2>1, <2>2, HasSeq, QueueTypes DEF From
<1>3. CASE ~TakePartial /\ ~TakeFinal
  BY <1>0, <1>3, WorkerKeeps DEF From, Closing, Working
<1>4. QED
  BY <1>1, <1>2, <1>3

LEMMA StepCloses ==
  ASSUME TypeInv, WorkerAt, MuteInv, NEW t \in Threads, Step(t), NEW id \in Ids, Closing(t, id)'
  PROVE  From(t, id)
<1>1. CASE t = "worker"
  BY <1>1, WorkerIs, WorkerCloses, FailCloses DEF From
<1>2. CASE t # "worker"
  <2>1. pc'[t] \in {"T3", "T4", "Z2"} \cup Handler
    BY <1>2 DEF Closing
  <2>2. CASE StartSteps(t) \/ FinalizeSteps(t)
    <3>1. CASE FinalizeStop(t)
      BY <1>2, <3>1, FinalizeTakes DEF From
    <3>2. CASE FinalizeQueue(t)
      BY <1>2, <3>2, QueueCloses DEF From
    <3>3. CASE ~FinalizeStop(t) /\ ~FinalizeQueue(t)
      BY <2>1, <2>2, <3>3, LeadsTo DEF StartSteps, StartLock, StartCheck, StartCapture, FinalizeSteps,
         FinalizeLock, FinalizeEnd, FinalizeFailed, Handler
    <3>4. QED
      BY <3>1, <3>2, <3>3
  <2>3. CASE PauseSteps(t) \/ ResumeSteps(t) \/ StartNote(t) \/ Toggle(t)
    BY <2>1, <2>3, LeadsTo DEF PauseSteps, PauseLock, PauseStop, PauseQueue, PauseEnd, ResumeSteps, ResumeLock,
       Resume, StartNote, Toggle, Handler
  <2>4. CASE StopSteps(t)
    <3>1. CASE StopPaused(t)
      BY <1>2, <3>1, StopTakes DEF From
    <3>2. CASE StopQueue(t) \/ StopEnd(t)
      BY <1>2, <3>2, QueueCloses DEF From
    <3>3. CASE ~StopPaused(t) /\ ~StopQueue(t) /\ ~StopEnd(t)
      BY <2>1, <2>4, <3>3, LeadsTo DEF StopSteps, StopLock, StopCheck, Handler
    <3>4. QED
      BY <3>1, <3>2, <3>3
  <2>5. CASE CancelSteps(t)
    BY <2>1, <2>5, LeadsTo DEF CancelSteps, CancelLock, CancelCheck, CancelDelete, CancelMark, CancelDrainPartials,
       CancelRestorePartials, CancelDrainFinals, CancelRestoreFinals, CancelEnd, Handler
  <2>6. CASE FailSteps(t)
    BY <2>6, FailCloses DEF From
  <2>7. CASE (t = "cleaner" /\ CleanupSteps) \/ (t = "tray" /\ ShutdownSteps)
    BY <2>1, <2>7, LeadsTo DEF CleanupSteps, CleanupLock, CleanupStop, CleanupEnd, ShutdownSteps,
       ShutdownHotkey, ShutdownQueue, Handler
  <2>8. QED
    BY <1>2, <2>2, <2>3, <2>4, <2>5, <2>6, <2>7 DEF Step
<1>3. QED
  BY <1>1, <1>2

LEMMA KeptFlow ==
  ASSUME TypeInv, NEW t \in Threads, Step(t), NEW id, Has(loc'[t].keptFinals, id)
  PROVE  Has(loc[t].keptFinals, id) \/ Has(finalQ, id)
<1>0. finalQ \in Seq(Items) /\ loc[t].keptFinals \in Seq(Items)
  BY QueueTypes
<1>1. CASE CancelDrainPartials(t)
  <2>1. loc'[t].keptFinals = loc[t].keptFinals
    BY <1>1, LocalsOf DEF CancelDrainPartials, Locals, TypeInv, TypeOK, ThreadsOK
  <2>2. QED
    BY <2>1
<1>2. CASE CancelDrainFinals(t)
  <2>1. CASE finalQ = <<>>
    BY <1>2, <2>1 DEF CancelDrainFinals
  <2>2. CASE finalQ # <<>>
    <3> DEFINE next == Keep(loc[t].keptFinals, Head(finalQ), loc[t].id)
    <3>1. loc' = [loc EXCEPT ![t].keptFinals = next]
      BY <1>2, <2>2 DEF CancelDrainFinals
    <3>2. loc'[t].keptFinals = next
      BY <3>1, LocalsOf DEF Locals, TypeInv, TypeOK, ThreadsOK
    <3>3. Head(finalQ) \in Items
      BY <1>0, <2>2
    <3>4. Has(next, id) => Has(loc[t].keptFinals, id) \/ Head(finalQ).id = id
      BY <1>0, <3>3, HasSeq DEF Keep
    <3>5. QED
      BY <1>0, <2>2, <3>2, <3>4, HasSeq
  <2>3. QED
    BY <2>1, <2>2
<1>3. CASE CancelRestoreFinals(t)
  <2>1. CASE loc[t].keptFinals = <<>>
    BY <1>3, <2>1 DEF CancelRestoreFinals
  <2>2. CASE loc[t].keptFinals # <<>>
    <3>1. loc' = [loc EXCEPT ![t].keptFinals = Tail(@)]
      BY <1>3, <2>2 DEF CancelRestoreFinals
    <3>2. loc'[t].keptFinals = Tail(loc[t].keptFinals)
      BY <3>1, LocalsOf DEF Locals, TypeInv, TypeOK, ThreadsOK
    <3>3. QED
      BY <1>0, <2>2, <3>2, HasSeq
  <2>3. QED
    BY <2>1, <2>2
<1>4. CASE ~CancelDrainPartials(t) /\ ~CancelDrainFinals(t) /\ ~CancelRestoreFinals(t)
  BY <1>0, <1>4, KeptStays, HasSeq
<1>5. QED
  BY <1>1, <1>2, <1>3, <1>4

LEMMA FinalsFlow ==
  ASSUME TypeInv, WorkerAt, NEW t \in Threads, Step(t), NEW id \in Ids, Has(finalQ, id)'
  PROVE  From(t, id)
<1>0. finalQ \in Seq(Items) /\ loc[t].keptFinals \in Seq(Items) /\ id # NoId /\ id \in Ids
  BY QueueTypes, IdsType
<1>1. Has(finalQ', id)
  BY DEF Has
<1>2. UNCHANGED finalQ => Has(finalQ, id)
  BY <1>1
<1>3. finalQ # <<>> /\ finalQ' = Tail(finalQ) => Has(finalQ, id)
  BY <1>0, <1>1, HasSeq
<1>4. CASE StartSteps(t) \/ FinalizeSteps(t)
  <2>1. CASE FinalizeQueue(t)
    <3> DEFINE chunk == [id |-> loc[t].id, captures |-> loc[t].captures]
    <3>1. pc[t] = "Z2" /\ t # "worker"
      BY <2>1 DEF FinalizeQueue, WorkerAt, Looping, Handler
    <3>2. UNCHANGED finalQ \/ (loc[t].captures # <<>> /\ finalQ' = Append(finalQ, chunk))
      BY <2>1 DEF FinalizeQueue
    <3>3. chunk \in Items /\ chunk.id = loc[t].id
      BY <3>1, LocalsOf DEF TypeInv, HasId, Bound, Locals, Items, Chunks
    <3> HIDE DEF chunk
    <3>4. Has(Append(finalQ, chunk), id) => Has(finalQ, id) \/ chunk.id = id
      BY <1>0, <3>3, HasSeq
    <3>5. QED
      BY <1>1, <3>1, <3>2, <3>3, <3>4 DEF From, Closing
  <2>2. CASE ~FinalizeQueue(t)
    BY <1>2, <1>4, <2>2 DEF From, StartSteps, StartLock, StartCheck, StartCapture, FinalizeSteps, FinalizeLock,
       FinalizeStop, FinalizeEnd, FinalizeFailed, Acquire, queues
  <2>3. QED
    BY <2>1, <2>2
<1>5. CASE PauseSteps(t) \/ ResumeSteps(t) \/ StartNote(t) \/ Toggle(t)
  BY <1>2, <1>5 DEF From, PauseSteps, PauseLock, PauseStop, PauseQueue, PauseEnd, ResumeSteps, ResumeLock,
     Resume, StartNote, Toggle, Acquire, queues
<1>6. CASE StopSteps(t)
  <2>1. CASE StopQueue(t)
    <3> DEFINE chunk == [id |-> loc[t].id, captures |-> <<>>]
    <3>1. pc[t] = "T3" /\ t # "worker"
      BY <2>1 DEF StopQueue, WorkerAt, Looping, Handler
    <3>2. UNCHANGED finalQ \/ finalQ' = Append(finalQ, chunk)
      BY <2>1 DEF StopQueue
    <3>3. chunk \in Items /\ chunk.id = loc[t].id
      BY <3>1, OneCapture DEF TypeInv, HasId, Bound, Items, Chunks
    <3> HIDE DEF chunk
    <3>4. Has(Append(finalQ, chunk), id) => Has(finalQ, id) \/ chunk.id = id
      BY <1>0, <3>3, HasSeq
    <3>5. QED
      BY <1>1, <3>1, <3>2, <3>3, <3>4 DEF From, Closing
  <2>2. CASE ~StopQueue(t)
    BY <1>2, <1>6, <2>2 DEF From, StopSteps, StopLock, StopCheck, StopPaused, StopEnd, Acquire, queues
  <2>3. QED
    BY <2>1, <2>2
<1>7. CASE CancelSteps(t)
  <2>1. CASE CancelDrainFinals(t)
    BY <1>2, <1>3, <2>1 DEF From, CancelDrainFinals
  <2>2. CASE CancelRestoreFinals(t)
    <3>1. CASE UNCHANGED finalQ
      BY <1>2, <3>1 DEF From
    <3>2. CASE loc[t].keptFinals # <<>> /\ finalQ' = Append(finalQ, Head(loc[t].keptFinals))
      <4>1. Head(loc[t].keptFinals) \in Items
        BY <1>0, <3>2
      <4>2. Has(finalQ, id) \/ Head(loc[t].keptFinals).id = id
        BY <1>0, <1>1, <3>2, <4>1, HasSeq
      <4>3. QED
        BY <1>0, <3>2, <4>2, HasSeq DEF From
    <3>3. QED
      BY <2>2, <3>1, <3>2 DEF CancelRestoreFinals
  <2>3. CASE ~CancelDrainFinals(t) /\ ~CancelRestoreFinals(t)
    BY <1>2, <1>7, <2>3 DEF From, CancelSteps, CancelLock, CancelCheck, CancelDelete, CancelMark,
       CancelDrainPartials, CancelRestorePartials, CancelEnd, Acquire, queues
  <2>4. QED
    BY <2>1, <2>2, <2>3
<1>8. CASE FailSteps(t) \/ (t = "cleaner" /\ CleanupSteps)
  BY <1>2, <1>8 DEF From, FailSteps, FailCheck, FailRead, FailMark, FailEnd, CleanupSteps, CleanupLock,
     CleanupStop, CleanupEnd, queues
<1>9. CASE t = "tray" /\ ShutdownSteps
  <2>1. UNCHANGED finalQ \/ \E q \in {finalQ, <<>>} : finalQ' = Append(q, StopSignal)
    BY <1>9 DEF ShutdownSteps, ShutdownHotkey, ShutdownQueue, queues
  <2>2. StopSignal \in Items /\ StopSignal.id = NoId /\ <<>> \in Seq(Items)
    BY DEF Items, StopSignal
  <2>3. ASSUME NEW q \in {finalQ, <<>>}, finalQ' = Append(q, StopSignal) PROVE Has(finalQ, id)
    <3>1. Has(q, id)
      BY <1>0, <1>1, <2>2, <2>3, HasSeq
    <3>2. QED
      BY <1>0, <3>1, HasSeq
  <2>4. QED
    BY <1>2, <2>1, <2>3 DEF From
<1>10. CASE t = "worker" /\ WorkerSteps
  BY <1>2, <1>3, <1>10 DEF From, WorkerSteps, TakePartial, TakeFinal, Handle, DecodeStart,
     DecodeEnd, RecordGuard, RecordSegment, RecordPart, SessionCheck, SessionEmpty,
     SessionComplete, SessionType, SessionSave, queues
<1>11. QED
  BY <1>4, <1>5, <1>6, <1>7, <1>8, <1>9, <1>10 DEF Step

LEMMA EndingStep ==
  ASSUME TypeInv, LocksOwned, WorkerAt, MuteInv, NEW t \in Threads, Step(t), NEW id \in Ids, Ending(id)'
  PROVE  Ending(id) \/ (TakesEnd(t) /\ id = activeId)
<1>0. OnlyMoves(t)
  BY StepLocks DEF LockStep
<1>1. CASE Has(finalQ, id)'
  BY <1>1, FinalsFlow DEF From, Ending
<1>2. CASE Closing(t, id)'
  BY <1>2, StepCloses DEF From, Ending
<1>3. CASE Has(loc[t].keptFinals, id)'
  <2>1. Has(loc'[t].keptFinals, id)
    BY <1>3 DEF Has
  <2>2. QED
    BY <2>1, KeptFlow DEF Ending
<1>4. ASSUME NEW u \in Threads \ {t}, Closing(u, id)' \/ Has(loc[u].keptFinals, id)'
      PROVE  Ending(id)
  <2>1. pc'[u] = pc[u] /\ loc'[u] = loc[u]
    BY <1>0 DEF OnlyMoves
  <2>2. QED
    BY <1>4, <2>1 DEF Closing, Has, Ending
<1>5. QED
  BY <1>1, <1>2, <1>3, <1>4 DEF Ending

LEMMA ClosedStep ==
  ASSUME TypeInv, LocksOwned, PastInv, WorkerAt, MuteInv, StartOwn, ClosedInv, NEW t \in Threads, Step(t)
  PROVE  ClosedInv'
<1>1. SUFFICES ASSUME NEW id \in Ids, Ending(id)' PROVE Closed(id)'
  BY DEF ClosedInv
<1>2. CASE TakesEnd(t)
  BY <1>2, TakenClosed, StepLocks DEF LockStep
<1>3. CASE Ending(id)
  BY <1>3, EndingPast, ClosedKept DEF ClosedInv
<1>4. QED
  BY <1>1, <1>2, <1>3, EndingStep

-----------------------------------------------------------------------------
(* A closed recording stays closed: the invariant *)

LEMMA InitCore == Init => Core
<1> SUFFICES ASSUME Init PROVE Core
  OBVIOUS
<1>1. /\ \A t \in Threads : pc[t] = (IF t = "worker" THEN "W0" ELSE "idle") /\ loc[t] = NoLocals
      /\ partialQ = <<>> /\ finalQ = <<>> /\ activeId = NoId /\ ~paused /\ ~recOn
  BY DEF Init
<1>2. NoLocals.keptPartials = <<>> /\ NoLocals.keptFinals = <<>>
  BY DEF NoLocals
<1>3. WorkInv
  BY <1>1, <1>2, WorkersAreThreads DEF WorkInv, WorkerAt, Heard, KeptHeard, Looping, Handler
<1>4. MuteInv
  BY <1>1 DEF MuteInv, PauseOff, Muffled
<1>5. StartOwn
  BY <1>1 DEF StartOwn
<1>6. ClosedInv
  BY <1>1, IdsType DEF ClosedInv, Closed
<1>7. QED
  BY <1>3, <1>4, <1>5, <1>6, InitType, InitLocks, InitPast DEF Core

\* A user's request leaves the chunks a discard holds alone.
LEMMA UserKept ==
  ASSUME TypeInv, User, NEW t \in Threads
  PROVE  loc'[t].keptPartials = loc[t].keptPartials /\ loc'[t].keptFinals = loc[t].keptFinals
<1>1. \/ UNCHANGED loc
      \/ \E u, mode : loc' = [loc EXCEPT ![u].mode = mode]
      \/ loc' = [loc EXCEPT !["tray"].back = "D1"]
  BY DEF User, Press, Release, OnRelease, NoteRequest, Silence, Deactivate, Activate, SetCombo,
     SwitchModel, Shutdown, Begin, threads
<1>2. ASSUME NEW u, NEW mode, loc' = [loc EXCEPT ![u].mode = mode]
      PROVE  loc'[t].keptPartials = loc[t].keptPartials /\ loc'[t].keptFinals = loc[t].keptFinals
  BY <1>2, LocalsOf DEF TypeInv, TypeOK, ThreadsOK, Locals
<1>3. ASSUME loc' = [loc EXCEPT !["tray"].back = "D1"]
      PROVE  loc'[t].keptPartials = loc[t].keptPartials /\ loc'[t].keptFinals = loc[t].keptFinals
  BY <1>3, LocalsOf DEF TypeInv, TypeOK, ThreadsOK, Locals
<1>4. QED
  BY <1>1, <1>2, <1>3

LEMMA UserCore ==
  ASSUME Core, User
  PROVE  (WorkInv /\ MuteInv /\ StartOwn /\ ClosedInv)'
<1>0. TypeInv /\ WorkerAt
  BY DEF Core, WorkInv
<1>1. UNCHANGED <<partialQ, finalQ, activeId, gen, paused, recOn>>
  BY DEF User, Press, Release, NoteRequest, Silence, Deactivate, Activate, SetCombo, SwitchModel,
     Shutdown, capture, queues
<1>2. \A u \in Threads : \/ pc'[u] = pc[u] /\ loc'[u] = loc[u]
                         \/ pc[u] = "idle" /\ pc'[u] \in Entries
  <2>1. \A u \in Threads : (pc'[u] = pc[u] /\ loc'[u] = loc[u]) \/ pc'[u] \in Entries
    BY <1>0, UserEntries
  <2>2. \A u \in Threads : pc[u] = "idle" \/ (pc'[u] = pc[u] /\ loc'[u] = loc[u])
    BY <1>0, UserOnly DEF OnlyMoves, threads
  <2>3. QED
    BY <2>1, <2>2
<1>3. pc'["worker"] = pc["worker"] /\ loc'["worker"] = loc["worker"]
  BY <1>0, <1>2, WorkersAreThreads DEF WorkerAt, Looping, Handler
<1>4. \A u \in Threads : /\ loc'[u].keptPartials = loc[u].keptPartials
                         /\ loc'[u].keptFinals = loc[u].keptFinals
  BY <1>0, UserKept
<1>5. WorkInv'
  BY <1>1, <1>3, <1>4 DEF Core, WorkInv, WorkerAt, Heard, KeptHeard
<1>6. MuteInv'
  BY <1>1, <1>2 DEF Core, MuteInv, PauseOff, Muffled, Mutes, Muted, Handler, Discarding, Entries
<1>7. StartOwn'
  BY <1>1, <1>2 DEF Core, StartOwn, Entries
<1>8. ASSUME NEW id \in Ids, Ending(id)' PROVE Closed(id)'
  <2>1. Ending(id)
    <3>1. \A u \in Threads : Closing(u, id)' => Closing(u, id)
      BY <1>2, <1>3 DEF Closing, Handler, Entries
    <3>2. QED
      BY <1>1, <1>4, <1>8, <3>1 DEF Ending, Has
  <2>2. Closed(id)
    BY <2>1 DEF Core, ClosedInv
  <2>3. QED
    BY <1>1, <1>2, <2>2 DEF Closed, Entries
<1>9. QED
  BY <1>5, <1>6, <1>7, <1>8 DEF ClosedInv

LEMMA NextCore == Core /\ [Next]_vars => Core'
<1> SUFFICES ASSUME Core, [Next]_vars PROVE Core'
  OBVIOUS
<1>1. (TypeInv /\ LocksOwned /\ PastInv)'
  BY NextType, NextLocks, NextPast DEF Core
<1>2. ASSUME NEW t \in Threads, Step(t) PROVE Core'
  <2>1. WorkInv' /\ StartOwn'
    BY <1>2, WorkStep, StartOwnStep DEF Core
  <2>2. MuteInv' /\ ClosedInv'
    BY <1>2, MuteStep, ClosedStep DEF Core, WorkInv
  <2>3. QED
    BY <1>1, <2>1, <2>2 DEF Core
<1>3. CASE User
  BY <1>1, <1>3, UserCore DEF Core
<1>4. CASE UNCHANGED vars
  <2>1. UNCHANGED <<pc, loc, gen, activeId, paused, recOn, partialQ, finalQ>>
    BY <1>4 DEF vars, threads, capture, queues
  <2>2. WorkInv' /\ MuteInv' /\ StartOwn'
    BY <2>1 DEF Core, WorkInv, WorkerAt, Heard, KeptHeard, MuteInv, PauseOff, Muffled, Mutes, StartOwn
  <2>3. ClosedInv'
    BY <2>1 DEF Core, ClosedInv, Closed, Ending, Closing, Has
  <2>4. QED
    BY <1>1, <2>2, <2>3 DEF Core
<1>5. QED
  BY <1>2, <1>3, <1>4 DEF Next, Resting

-----------------------------------------------------------------------------
(* A dictation in progress is held: the mode of the recording that runs *)

\* What a thread does to get to the points of a start and of a failure.
LEMMA Reaches ==
  ASSUME TypeInv, NEW t \in Threads, Step(t)
  PROVE  /\ pc'[t] = "F3" => FailRead(t)
         /\ pc'[t] \in Starting => StartNote(t) \/ Toggle(t) \/ StartLock(t) \/ StartCheck(t)
         /\ pc'[t] \notin {"N0", "G0"}
         /\ pc'[t] \in Handler => \/ FinalizeStop(t) \/ FinalizeQueue(t) \/ StopQueue(t) \/ FailSteps(t)
                                  \/ t = "worker" /\ WorkerSteps
<1> DEFINE label == pc'[t]
<1>0. \/ label \notin Starting \cup {"F3", "N0", "G0"}
      \/ FailRead(t) \/ StartNote(t) \/ Toggle(t) \/ StartLock(t) \/ StartCheck(t)
  <2>1. CASE StartSteps(t) \/ FinalizeSteps(t)
    BY <2>1, LeadsTo, TenderLabels DEF StartSteps, StartCapture, FinalizeSteps, FinalizeLock,
       FinalizeEnd, FinalizeFailed, Starting
  <2>2. CASE PauseSteps(t) \/ ResumeSteps(t) \/ StartNote(t) \/ Toggle(t)
    BY <2>2, LeadsTo, TenderLabels DEF PauseSteps, PauseLock, PauseEnd, ResumeSteps, ResumeLock, Resume, Starting
  <2>3. CASE StopSteps(t)
    BY <2>3, LeadsTo, TenderLabels DEF StopSteps, StopLock, StopCheck, StopEnd, Starting
  <2>4. CASE CancelSteps(t)
    BY <2>4, LeadsTo DEF CancelSteps, CancelLock, CancelCheck, CancelDelete, CancelMark, CancelDrainPartials,
       CancelRestorePartials, CancelDrainFinals, CancelRestoreFinals, CancelEnd, Starting
  <2>5. CASE FailSteps(t)
    BY <2>5, TenderLabels, LocalsOf DEF FailSteps, Locals, Returns, Starting
  <2>6. CASE (t = "cleaner" /\ CleanupSteps) \/ (t = "tray" /\ ShutdownSteps)
    BY <2>6, LeadsTo DEF CleanupSteps, CleanupLock, CleanupStop, CleanupEnd, ShutdownSteps,
       ShutdownHotkey, ShutdownQueue, Starting
  <2>7. CASE t = "worker" /\ WorkerSteps
    BY <2>7, WorkerOnly DEF Looping, Starting
  <2>8. QED
    BY <2>1, <2>2, <2>3, <2>4, <2>5, <2>6, <2>7 DEF Step
<1>1. FailRead(t) => label = "F3"
  BY TenderLabels
<1>2. StartNote(t) \/ Toggle(t) \/ StartLock(t) \/ StartCheck(t) => label \notin {"F3", "N0", "G0"}
  BY LeadsTo, TenderLabels DEF StartNote, Toggle, StartLock
<1>3. \/ label \notin Handler
      \/ FinalizeStop(t) \/ FinalizeQueue(t) \/ StopQueue(t) \/ FailSteps(t) \/ (t = "worker" /\ WorkerSteps)
  <2>1. CASE StartSteps(t) \/ FinalizeSteps(t)
    BY <2>1, LeadsTo, TenderLabels DEF StartSteps, StartLock, StartCapture, FinalizeSteps, FinalizeLock,
       FinalizeEnd, FinalizeFailed, Handler
  <2>2. CASE PauseSteps(t) \/ ResumeSteps(t) \/ StartNote(t) \/ Toggle(t)
    BY <2>2, LeadsTo, TenderLabels DEF PauseSteps, PauseLock, PauseEnd, ResumeSteps, ResumeLock, Resume,
       StartNote, Toggle, Handler
  <2>3. CASE StopSteps(t)
    BY <2>3, LeadsTo, TenderLabels DEF StopSteps, StopLock, StopCheck, StopEnd, Handler
  <2>4. CASE CancelSteps(t)
    BY <2>4, LeadsTo DEF CancelSteps, CancelLock, CancelCheck, CancelDelete, CancelMark, CancelDrainPartials,
       CancelRestorePartials, CancelDrainFinals, CancelRestoreFinals, CancelEnd, Handler
  <2>5. CASE (t = "cleaner" /\ CleanupSteps) \/ (t = "tray" /\ ShutdownSteps)
    BY <2>5, LeadsTo DEF CleanupSteps, CleanupLock, CleanupStop, CleanupEnd, ShutdownSteps,
       ShutdownHotkey, ShutdownQueue, Handler
  <2>6. QED
    BY <2>1, <2>2, <2>3, <2>4, <2>5 DEF Step
<1>4. QED
  BY <1>0, <1>1, <1>2, <1>3 DEF Starting

\* No step makes an older recording the active one.
LEMMA NotRevived ==
  ASSUME TypeInv, PastInv, NEW t \in Threads, Step(t), NEW id \in Ids, id <= Begun, activeId # id
  PROVE  activeId' # id
<1>0. id # NoId /\ id \in Nat /\ gen \in Nat /\ Begun \in Nat /\ Begun <= gen
  BY IdsType, BegunType DEF PastInv, TypeInv, TypeOK, CaptureOK
<1>1. CASE StartCheck(t)
  BY <1>0, <1>1 DEF StartCheck
<1>2. CASE ~StartCheck(t)
  BY <1>0, <1>2, StepActive
<1>3. QED
  BY <1>1, <1>2

LEMMA AsideStep ==
  ASSUME TypeInv, LocksOwned, PastInv, Aside, NEW t \in Threads, Step(t)
  PROVE  Aside'
<1>1. OnlyMoves(t)
  BY StepLocks DEF LockStep
<1>2. SUFFICES ASSUME NEW u \in Threads, pc'[u] = "F3", ~loc'[u].active PROVE activeId' # loc'[u].id
  BY DEF Aside
<1>3. CASE u = t
  <2>1. FailRead(t)
    BY <1>2, <1>3, Reaches
  <2>2. loc'[t].id = loc[t].id /\ loc'[t].active = (activeId = loc[t].id) /\ activeId' = activeId
    BY <2>1, LocalsOf DEF FailRead, Locals, TypeInv, TypeOK, ThreadsOK
  <2>3. QED
    BY <1>2, <1>3, <2>2
<1>4. CASE u # t
  <2>1. pc[u] = "F3" /\ loc'[u] = loc[u]
    BY <1>1, <1>2, <1>4 DEF OnlyMoves
  <2>2. activeId # loc[u].id /\ loc[u].id \in Ids /\ loc[u].id <= Begun
    BY <1>2, <2>1 DEF Aside, TypeInv, HasId, Bound, PastInv, PastAt
  <2>3. QED
    BY <2>1, <2>2, NotRevived
<1>5. QED
  BY <1>3, <1>4

\* What the worker ends is closed.
LEMMA EndedClosed ==
  ASSUME Core, pc["worker"] \in {"E1", "E2", "E3", "E4"}
  PROVE  loc["worker"].id \in Ids /\ Closed(loc["worker"].id)
<1> DEFINE id == loc["worker"].id
<1>1. id \in Ids /\ loc["worker"].final
  BY WorkersAreThreads DEF Core, WorkInv, WorkerAt, TypeInv, HasId, Bound
<1>2. QED
  BY <1>1, WorkersAreThreads DEF Core, ClosedInv, Ending, Closing, Working

\* The active recording keeps its mode and its model until it is closed.
LEMMA SessKept ==
  ASSUME Core, Aside, NEW t \in Threads, Step(t), ~StartCapture(t),
         activeId' = activeId, activeId \in Ids, ~Closed(activeId)
  PROVE  sess'[activeId].mode = sess[activeId].mode /\ sess'[activeId].stt = sess[activeId].stt
<1> DEFINE a == activeId
           Kept == sess'[a].mode = sess[a].mode /\ sess'[a].stt = sess[a].stt
<1> SUFFICES Kept
  OBVIOUS
<1>0. TypeInv /\ sess \in [Ids -> Sessions] /\ a \in Ids /\ a # NoId
  BY IdsType DEF Core, TypeInv, TypeOK, SessionsOK
<1>1. ASSUME NEW id, id # a, sess' = Cleared(sess, id) PROVE Kept
  BY <1>0, <1>1 DEF Cleared
<1>2. CASE StartSteps(t) \/ FinalizeSteps(t)
  BY <1>0, <1>1, <1>2 DEF StartSteps, StartLock, StartCheck, FinalizeSteps, FinalizeLock, FinalizeStop,
     FinalizeQueue, FinalizeEnd, FinalizeFailed, Acquire, sessions
<1>3. CASE PauseSteps(t) \/ ResumeSteps(t) \/ StartNote(t) \/ Toggle(t) \/ StopSteps(t)
  BY <1>3 DEF PauseSteps, PauseLock, PauseStop, PauseQueue, PauseEnd, ResumeSteps, ResumeLock,
     Resume, StartNote, Toggle, StopSteps, StopLock, StopCheck, StopPaused, StopQueue, StopEnd, Acquire, sessions
<1>4. CASE CancelSteps(t)
  BY <1>0, <1>1, <1>4 DEF CancelSteps, CancelLock, CancelCheck, CancelDelete, CancelMark, CancelDrainPartials,
     CancelRestorePartials, CancelDrainFinals, CancelRestoreFinals, CancelEnd, Acquire, sessions
<1>5. CASE FailSteps(t)
  <2>1. CASE FailCheck(t)
    <3>1. UNCHANGED sess \/ sess' = [sess EXCEPT ![loc[t].id].note = FALSE]
      BY <2>1 DEF FailCheck
    <3>2. /\ sess[a] \in Sessions
          /\ [sess[a] EXCEPT !.note = FALSE].mode = sess[a].mode /\ [sess[a] EXCEPT !.note = FALSE].stt = sess[a].stt
      BY <1>0 DEF Sessions
    <3>3. sess'[a] \in {sess[a], [sess[a] EXCEPT !.note = FALSE]}
      BY <1>0, <3>1
    <3>4. QED
      BY <3>2, <3>3
  <2>2. CASE FailRead(t)
    BY <2>2 DEF FailRead, sessions
  <2>3. CASE FailMark(t)
    <3>1. CASE loc[t].active
      BY <1>0, <2>3, <3>1 DEF FailMark, Sessions
    <3>2. CASE ~loc[t].active
      BY <1>1, <2>3, <3>2 DEF FailMark, Aside
    <3>3. QED
      BY <3>1, <3>2
  <2>4. CASE FailEnd(t)
    BY <1>0, <1>1, <2>4 DEF FailEnd
  <2>5. QED
    BY <1>5, <2>1, <2>2, <2>3, <2>4 DEF FailSteps
<1>6. CASE (t = "cleaner" /\ CleanupSteps) \/ (t = "tray" /\ ShutdownSteps)
  BY <1>0, <1>1, <1>6 DEF CleanupSteps, CleanupLock, CleanupStop, CleanupEnd, ShutdownSteps,
     ShutdownHotkey, ShutdownQueue, sessions
<1>7. CASE t = "worker" /\ WorkerSteps
  <2>1. CASE RecordPart
    BY <1>0, <2>1 DEF RecordPart, Sessions
  <2>2. CASE SessionCheck \/ SessionEmpty \/ SessionComplete \/ SessionType \/ SessionSave
    <3>1. loc["worker"].id # a
      BY <2>2, EndedClosed DEF SessionCheck, SessionEmpty, SessionComplete, SessionType, SessionSave
    <3>2. QED
      BY <1>1, <2>2, <3>1 DEF SessionCheck, SessionEmpty, SessionComplete, SessionType, SessionSave, sessions
  <2>3. CASE ~RecordPart /\ ~(SessionCheck \/ SessionEmpty \/ SessionComplete \/ SessionType \/ SessionSave)
    BY <1>7, <2>3 DEF WorkerSteps, TakePartial, TakeFinal, Handle, DecodeStart,
       DecodeEnd, RecordGuard, RecordSegment, sessions
  <2>4. QED
    BY <2>1, <2>2, <2>3
<1>8. QED
  BY <1>2, <1>3, <1>4, <1>5, <1>6, <1>7 DEF Step

-----------------------------------------------------------------------------
(* A dictation in progress is held: the invariant *)

\* The shortcut is only released by its own thread or the end of the backend.
LEMMA PressedKept ==
  ASSUME NEW t \in Threads, Step(t)
  PROVE  stt' = stt /\ (~listening' \/ (listening' = listening /\ pressed' = pressed))
<1>1. CASE ShutdownHotkey
  BY <1>1 DEF ShutdownHotkey, Rest
<1>2. CASE ~ShutdownHotkey
  <2>1. CASE StartSteps(t) \/ FinalizeSteps(t)
    BY <2>1 DEF StartSteps, StartLock, StartCheck, StartCapture, FinalizeSteps, FinalizeLock, FinalizeStop,
       FinalizeQueue, FinalizeEnd, FinalizeFailed, Acquire, control
  <2>2. CASE PauseSteps(t) \/ ResumeSteps(t) \/ StartNote(t) \/ Toggle(t) \/ StopSteps(t)
    BY <2>2 DEF PauseSteps, PauseLock, PauseStop, PauseQueue, PauseEnd, ResumeSteps, ResumeLock,
       Resume, StartNote, Toggle, StopSteps, StopLock, StopCheck, StopPaused, StopQueue, StopEnd, Acquire, control
  <2>3. CASE CancelSteps(t)
    BY <2>3 DEF CancelSteps, CancelLock, CancelCheck, CancelDelete, CancelMark, CancelDrainPartials,
       CancelRestorePartials, CancelDrainFinals, CancelRestoreFinals, CancelEnd, Acquire, control
  <2>4. CASE FailSteps(t) \/ (t = "cleaner" /\ CleanupSteps) \/ (t = "tray" /\ ShutdownSteps)
    BY <1>2, <2>4 DEF FailSteps, FailCheck, FailRead, FailMark, FailEnd, CleanupSteps, CleanupLock,
       CleanupStop, CleanupEnd, ShutdownSteps, ShutdownQueue, control
  <2>5. CASE t = "worker" /\ WorkerSteps
    BY <2>5 DEF WorkerSteps, TakePartial, TakeFinal, Handle, DecodeStart,
       DecodeEnd, RecordGuard, RecordSegment, RecordPart, SessionCheck, SessionEmpty,
       SessionComplete, SessionType, SessionSave, control
  <2>6. QED
    BY <2>1, <2>2, <2>3, <2>4, <2>5 DEF Step
<1>3. QED
  BY <1>1, <1>2

LEMMA StartingKept ==
  ASSUME TypeInv, LocksOwned, NotesElsewhere, PressedFirst, NEW t \in Threads, Step(t)
  PROVE  NotesElsewhere' /\ PressedFirst'
<1>1. OnlyMoves(t) /\ "hotkey" \in Threads
  BY StepLocks, WorkersAreThreads DEF LockStep
<1>2. ASSUME pc'[t] \in Starting
      PROVE  \/ loc'[t].mode = "note" /\ pc[t] \in {"N0", "G0"}
             \/ loc'[t].mode = loc[t].mode /\ pc[t] \in Starting
  <2>1. CASE StartNote(t) \/ Toggle(t)
    <3>1. \E label : Begin(t, label, "note")
      BY <1>2, <2>1, LeadsTo DEF StartNote, Toggle, Starting
    <3>2. loc'[t].mode = "note"
      BY <3>1, LocalsOf DEF Begin, Locals, TypeInv, TypeOK, ThreadsOK
    <3>3. QED
      BY <2>1, <3>2 DEF StartNote, Toggle
  <2>2. CASE StartLock(t)
    BY <2>2 DEF StartLock, Acquire, Starting
  <2>3. CASE StartCheck(t)
    <3>1. loc' = [loc EXCEPT ![t].id = gen + 1]
      BY <1>2, <2>3, LeadsTo DEF StartCheck, Starting
    <3>2. QED
      BY <2>3, <3>1, LocalsOf DEF StartCheck, Starting, Locals, TypeInv, TypeOK, ThreadsOK
  <2>4. QED
    BY <1>2, <2>1, <2>2, <2>3, Reaches
<1>3. NotesElsewhere'
  BY <1>1, <1>2 DEF NotesElsewhere, OnlyMoves
<1>4. PressedFirst'
  <2>1. pc'["hotkey"] \in Starting => pc["hotkey"] \in Starting
    BY <1>1, <1>2 DEF OnlyMoves, PressedFirst
  <2>2. pc'["hotkey"] \notin {"N0", "G0"}
    BY <1>1, Reaches DEF OnlyMoves, PressedFirst
  <2>3. QED
    BY <2>1, <2>2, PressedKept DEF PressedFirst
<1>5. QED
  BY <1>3, <1>4

LEMMA HeldKept ==
  ASSUME Core, HeldInv, NEW t \in Threads, Step(t)
  PROVE  HeldOrReleased'
<1>0. /\ TypeInv /\ LocksOwned /\ OnlyMoves(t) /\ "hotkey" \in Threads
      /\ recOn \in BOOLEAN /\ activeId \in IdOrNone
  BY StepLocks, WorkersAreThreads DEF Core, LockStep, TypeInv, TypeOK, CaptureOK
<1>1. SUFFICES ASSUME recOn', listening', activeId' # NoId, ModeOf(activeId)' = "dictation"
               PROVE  pressed' \/ pc'["hotkey"] \in {"Z0", "Z1"}
  BY DEF HeldOrReleased
<1>2. listening /\ pressed' = pressed
  BY <1>1, PressedKept
<1>3. CASE StartCapture(t)
  <2> DEFINE id == loc[t].id
  <2>1. id \in Ids /\ id = gen /\ activeId = gen /\ pc[t] = "S2"
    BY <1>3 DEF StartCapture, Core, StartOwn, PastInv, Newest, TypeInv, HasId, Bound
  <2>2. sess'[id].mode = loc[t].mode /\ activeId' = id
    <3>1. /\ activeId' = activeId
          /\ sess' = [sess EXCEPT ![id] = [mode |-> loc[t].mode, stt |-> stt, note |-> loc[t].mode = "note",
                                         open |-> TRUE, parts |-> <<>>]]
      BY <1>1, <1>3 DEF StartCapture
    <3>2. sess \in [Ids -> Sessions]
      BY <1>0 DEF TypeInv, TypeOK, SessionsOK
    <3>3. QED
      BY <2>1, <3>1, <3>2
  <2>3. loc[t].mode \in Modes
    BY <1>0, LocalsOf DEF Locals
  <2>4. loc[t].mode = "dictation"
    BY <1>1, <2>1, <2>2, <2>3 DEF ModeOf, Modes
  <2>5. t = "hotkey"
    BY <2>1, <2>4 DEF HeldInv, NotesElsewhere, Starting
  <2>6. QED
    BY <1>2, <2>1, <2>5 DEF HeldInv, PressedFirst, Starting
<1>4. CASE ~StartCapture(t)
  <2>1. recOn /\ activeId' = activeId /\ sess'[activeId].mode = sess[activeId].mode
    <3>1. CASE Resume(t) /\ recOn' # recOn
      BY <1>1, <3>1 DEF Resume, ModeOf, sessions
    <3>2. CASE ~(Resume(t) /\ recOn' # recOn)
      <4>1. recOn
        BY <1>0, <1>1, <1>4, <3>2, MicSteps
      <4>2. activeId' = activeId
        <5>1. CASE StartCheck(t)
          BY <4>1, <5>1 DEF StartCheck
        <5>2. CASE ~StartCheck(t)
          BY <1>0, <1>1, <5>2, StepActive
        <5>3. QED
          BY <5>1, <5>2
      <4>3. activeId \in Ids
        BY <1>0, <1>1, <4>2 DEF IdOrNone
      <4>4. QED
        BY <1>4, <4>1, <4>2, <4>3, SessKept DEF HeldInv, Closed
    <3>3. QED
      BY <3>1, <3>2
  <2>2. pressed \/ pc["hotkey"] \in {"Z0", "Z1"}
    BY <1>1, <1>2, <2>1 DEF HeldInv, HeldOrReleased, ModeOf
  <2>3. ASSUME t = "hotkey", pc[t] \in {"Z0", "Z1"} PROVE pc'[t] = "Z1"
    <3>1. FinalizeLock(t) \/ FinalizeStop(t)
      BY <2>3 DEF Step, StartSteps, StartLock, StartCheck, StartCapture, FinalizeSteps, FinalizeQueue,
         FinalizeEnd, FinalizeFailed, PauseSteps, PauseLock, PauseStop, PauseQueue, PauseEnd, ResumeSteps,
         ResumeLock, Resume, StartNote, Toggle, StopSteps, StopLock, StopCheck, StopPaused, StopQueue,
         StopEnd, CancelSteps, CancelLock, CancelCheck, CancelDelete, CancelMark, CancelDrainPartials,
         CancelRestorePartials, CancelDrainFinals, CancelRestoreFinals, CancelEnd, FailSteps, FailCheck,
         FailRead, FailMark, FailEnd, Acquire
    <3>2. ~FinalizeStop(t)
      BY <1>1, <2>1 DEF FinalizeStop
    <3>3. QED
      BY <1>0, <3>1, <3>2, LeadsTo DEF FinalizeLock
  <2>4. QED
    BY <1>0, <1>2, <2>2, <2>3 DEF OnlyMoves
<1>5. QED
  BY <1>3, <1>4

LEMMA UserHeld ==
  ASSUME TypeInv, HeldInv, "combo" \notin Ops, User
  PROVE  HeldInv'
<1>0. "hotkey" \in Threads /\ "hotkey" \notin UIs
  BY WorkersAreThreads, ThreadsAssumption DEF Workers
<1>1. UNCHANGED <<activeId, recOn, sess>>
  BY DEF User, Press, Release, NoteRequest, Silence, Deactivate, Activate, SetCombo, SwitchModel,
     Shutdown, capture, sessions
<1>2. \A u \in Threads : (pc'[u] = pc[u] /\ loc'[u] = loc[u]) \/ pc'[u] \in Entries
  BY UserEntries
<1>3. Aside'
  BY <1>1, <1>2 DEF HeldInv, Aside, Entries
<1>4. CASE Press \/ Release
  <2>1. PICK label \in {"S0", "Z0"} : /\ Begin("hotkey", label, "dictation")
                                     /\ pressed' = (label = "S0") /\ UNCHANGED listening
    BY <1>4 DEF Press, Release, OnRelease
  <2>2. pc' = [pc EXCEPT !["hotkey"] = label] /\ loc' = [loc EXCEPT !["hotkey"].mode = "dictation"]
    BY <2>1 DEF Begin, Goto
  <2>3. /\ pc'["hotkey"] = label
        /\ \A u \in Threads \ {"hotkey"} : pc'[u] = pc[u] /\ loc'[u] = loc[u]
    BY <1>0, <2>2 DEF TypeInv, TypeOK, ThreadsOK
  <2>4. QED
    BY <1>3, <2>1, <2>3 DEF HeldInv, NotesElsewhere, PressedFirst, HeldOrReleased, Starting
<1>5. CASE ~Press /\ ~Release
  <2>1. UNCHANGED <<listening, pressed>>
    BY <1>5 DEF User, NoteRequest, Silence, Deactivate, Activate, SetCombo, SwitchModel, Shutdown, Operation, control
  <2>2. \/ UNCHANGED threads
        \/ \E t : /\ t # "hotkey" /\ \E label \in Entries \ {"S0"} : Goto(t, label)
                  /\ UNCHANGED loc \/ \E next : loc' = [loc EXCEPT ![t] = next]
    <3>1. CASE Silence \/ \E t \in UIs : NoteRequest(t)
      <4>1. PICK t : t # "hotkey" /\ \E label \in Entries \ {"S0"} : Begin(t, label, "note")
        BY <1>0, <3>1 DEF Silence, NoteRequest, Operation, Entry, Entries
      <4>2. QED
        BY <4>1 DEF Begin
    <3>2. CASE Deactivate \/ SetCombo \/ Shutdown
      BY <3>2 DEF Deactivate, SetCombo, Shutdown, FinalizeIfRecording, Entries
    <3>3. CASE Activate \/ SwitchModel
      BY <3>3 DEF Activate, SwitchModel
    <3>4. QED
      BY <1>5, <3>1, <3>2, <3>3 DEF User
  <2>3. /\ pc'["hotkey"] = pc["hotkey"]
        /\ \A u \in Threads : (pc'[u] = pc[u] /\ loc'[u] = loc[u]) \/ pc'[u] \notin Starting
    <3>1. pc \in [Threads -> PCs] /\ loc \in [Threads -> Locals]
      BY DEF TypeInv, TypeOK, ThreadsOK
    <3>2. CASE UNCHANGED threads
      BY <1>0, <3>2 DEF threads
    <3>3. ASSUME NEW t, t # "hotkey", NEW label \in Entries \ {"S0"}, Goto(t, label),
                 UNCHANGED loc \/ \E next : loc' = [loc EXCEPT ![t] = next]
          PROVE  /\ pc'["hotkey"] = pc["hotkey"]
                 /\ \A u \in Threads : (pc'[u] = pc[u] /\ loc'[u] = loc[u]) \/ pc'[u] \notin Starting
      BY <1>0, <3>1, <3>3 DEF Goto, Entries, Starting
    <3>4. CASE ~UNCHANGED threads
      <4>1. PICK t : /\ t # "hotkey" /\ \E label \in Entries \ {"S0"} : Goto(t, label)
                     /\ UNCHANGED loc \/ \E next : loc' = [loc EXCEPT ![t] = next]
        BY <2>2, <3>4
      <4>2. PICK label \in Entries \ {"S0"} : Goto(t, label)
        BY <4>1
      <4>3. QED
        BY <3>3, <4>1, <4>2
    <3>5. QED
      BY <3>2, <3>4
  <2>4. QED
    BY <1>0, <1>1, <1>3, <2>1, <2>3 DEF HeldInv, NotesElsewhere, PressedFirst, HeldOrReleased, ModeOf
<1>6. QED
  BY <1>4, <1>5

\* A dictation in progress means that the shortcut is held, so its release will
\* end it: whatever the clients, the tray, the worker and the failures
\* interleave, no recording that runs changes its mode, only the shortcut starts
\* a dictation, and a release is on its way to stop the microphone before it can
\* be pressed again (_on_hotkey_press, _on_hotkey_release).  A change of the
\* combination forgets what is pressed, which the hypothesis excludes: the
\* dictation it ends may still be starting.
THEOREM HeldToTheEnd ==
  ASSUME "combo" \notin Ops
  PROVE  Spec => []HeldWhileDictating
<1>1. Init => Core /\ HeldInv
  <2>1. SUFFICES ASSUME Init PROVE HeldInv
    BY InitCore
  <2>2. ~recOn /\ \A t \in Threads : pc[t] \in {"W0", "idle"}
    BY <2>1 DEF Init
  <2>3. QED
    BY <2>2, WorkersAreThreads DEF HeldInv, Aside, NotesElsewhere, PressedFirst, HeldOrReleased, Starting
<1>2. Core /\ HeldInv /\ [Next]_vars => (Core /\ HeldInv)'
  <2>1. SUFFICES ASSUME Core, HeldInv, [Next]_vars PROVE HeldInv'
    BY NextCore
  <2>2. ASSUME NEW t \in Threads, Step(t) PROVE HeldInv'
    BY <2>1, <2>2, AsideStep, StartingKept, HeldKept DEF HeldInv, Core
  <2>3. CASE User
    BY <2>1, <2>3, UserHeld DEF Core
  <2>4. CASE UNCHANGED vars
    <3>1. UNCHANGED <<pc, loc, activeId, recOn, sess, listening, pressed>>
      BY <2>4 DEF vars, threads, capture, sessions, control
    <3>2. QED
      BY <2>1, <3>1 DEF HeldInv, Aside, NotesElsewhere, PressedFirst, HeldOrReleased, ModeOf
  <2>5. QED
    BY <2>1, <2>2, <2>3, <2>4 DEF Next, Resting
<1>3. HeldInv => HeldWhileDictating
  BY WorkersAreThreads DEF HeldInv, HeldOrReleased, HeldWhileDictating, Quiet
<1>4. QED
  BY <1>1, <1>2, <1>3, PTL DEF Spec

-----------------------------------------------------------------------------
(* The indicator is lit while the microphone is on: a daemon without notes *)

LEMMA NeverNote ==
  ASSUME TypeInv, NoNote, NEW id
  PROVE  ModeOf(id) = "dictation"
  BY ModeOfType DEF NoNote, ModeOf, Modes, TypeInv, TypeOK

LEMMA NotedStep ==
  ASSUME TypeInv, NoNote, NEW t \in Threads, Soft(t), Step(t)
  PROVE  pc'[t] \notin Noted
<1>0. pc[t] \notin Noted /\ \A id : ModeOf(id) = "dictation"
  BY NeverNote DEF NoNote
<1>1. CASE StartSteps(t) \/ FinalizeSteps(t)
  BY <1>1, LeadsTo, TenderLabels DEF StartSteps, StartLock, StartCapture, FinalizeSteps, FinalizeLock,
     FinalizeEnd, FinalizeFailed, Noted, Discarding
<1>2. CASE PauseSteps(t) \/ ResumeSteps(t) \/ StartNote(t) \/ Toggle(t)
  BY <1>0, <1>2, LeadsTo DEF PauseSteps, PauseLock, PauseStop, PauseQueue, PauseEnd, ResumeSteps, ResumeLock,
     Resume, StartNote, Toggle, Noted, Discarding
<1>3. CASE StopSteps(t)
  BY <1>0, <1>3, LeadsTo DEF StopSteps, StopLock, StopCheck, StopPaused, StopQueue, StopEnd, Noted, Discarding
<1>4. CASE CancelSteps(t)
  BY <1>0, <1>4, LeadsTo DEF CancelSteps, CancelLock, CancelCheck, CancelDelete, CancelMark, CancelDrainPartials,
     CancelRestorePartials, CancelDrainFinals, CancelRestoreFinals, CancelEnd, Noted, Discarding
<1>5. CASE FailSteps(t)
  <2>1. pc[t] \in Handler /\ loc[t].ret \in Returns
    BY <1>5, LocalsOf DEF FailSteps, FailCheck, FailRead, FailMark, FailEnd, Handler, Locals
  <2>2. pc'[t] \in {loc[t].ret, "F2", "F3", "F4"}
    BY <1>5, TenderLabels DEF FailSteps
  <2>3. QED
    BY <2>1, <2>2 DEF Soft, Returns, Noted, Discarding
<1>6. CASE t = "cleaner" /\ CleanupSteps
  BY <1>0, <1>6 DEF CleanupSteps, CleanupLock, CleanupStop, CleanupEnd, NoNote, Noted
<1>7. CASE t = "tray" /\ ShutdownSteps
  BY <1>7, LeadsTo DEF ShutdownSteps, ShutdownHotkey, ShutdownQueue, Noted, Discarding
<1>8. CASE t = "worker" /\ WorkerSteps
  BY <1>8, WorkerOnly DEF Looping, Noted, Discarding
<1>9. QED
  BY <1>1, <1>2, <1>3, <1>4, <1>5, <1>6, <1>7, <1>8 DEF Step

LEMMA SessShrinks ==
  ASSUME TypeInv, NEW t \in Threads, Step(t), ~StartCapture(t), NEW id \in Ids
  PROVE  sess'[id].mode \in {sess[id].mode, "none"} /\ sess'[id].stt \in {sess[id].stt, 0}
  BY SessionFrame

LEMMA FailHard ==
  ASSUME TypeInv, NEW t \in Threads, NEW id, NEW hard, NEW ret, Fail(t, id, hard, ret)
  PROVE  loc'[t].hard = hard
  BY LocalsOf DEF Fail, Locals, TypeInv, TypeOK, ThreadsOK

LEMMA SoftStep ==
  ASSUME TypeInv, MuteInv, NoNote, NEW t \in Threads, Soft(t), Step(t)
  PROVE  Soft(t)'
<1>0. \A id : ModeOf(id) = "dictation"
  BY NeverNote
<1>1. CASE pc'[t] \notin Handler
  BY <1>1 DEF Soft, Handler
<1>2. ASSUME NEW id, NEW hard, NEW ret \in {"Z3", "Z4", "W0", "E1"}, hard = FALSE \/ ret = "Z4", Fail(t, id, hard, ret)
      PROVE  Soft(t)'
  <2>1. loc'[t].hard = hard /\ loc'[t].ret = ret /\ pc'[t] = "F1"
    BY <1>2, FailOnly, FailHard
  <2>2. QED
    BY <1>2, <2>1 DEF Soft
<1>3. CASE FinalizeStop(t) /\ pc'[t] \in Handler
  <2>1. /\ loc' = [loc EXCEPT ![t].id = activeId, ![t].mode = ModeOf(activeId), ![t].hard = TRUE, ![t].ret = "Z4"]
        /\ pc'[t] = "F1"
    BY <1>3, LeadsTo DEF FinalizeStop, Handler
  <2>2. loc'[t].ret = "Z4"
    BY <2>1, LocalsOf DEF Locals, TypeInv, TypeOK, ThreadsOK
  <2>3. QED
    BY <2>1, <2>2 DEF Soft
<1>4. CASE FinalizeQueue(t) /\ pc'[t] \in Handler
  <2>1. Fail(t, loc[t].id, FALSE, "Z3") \/ Fail(t, loc[t].id, TRUE, "Z4")
    BY <1>4, LeadsTo DEF FinalizeQueue, Handler
  <2>2. QED
    BY <1>2, <2>1
<1>5. CASE FailSteps(t) /\ pc'[t] \in Handler
  <2>1. pc[t] \in Handler /\ loc[t].ret \notin Handler
    BY <1>5, LocalsOf DEF FailSteps, FailCheck, FailRead, FailMark, FailEnd, Handler, Locals, Returns
  <2>2. CASE FailCheck(t)
    <3>1. loc' = [loc EXCEPT ![t].failMode = ModeOf(loc[t].id), ![t].note = sess[loc[t].id].note] /\ pc'[t] = "F2"
      BY <1>5, <2>1, <2>2, LeadsTo DEF FailCheck, FailReturn
    <3>2. loc'[t].failMode = "dictation" /\ loc'[t].hard = loc[t].hard /\ loc'[t].ret = loc[t].ret
      BY <1>0, <3>1, LocalsOf DEF Locals, TypeInv, TypeOK, ThreadsOK
    <3>3. QED
      BY <2>1, <3>1, <3>2 DEF Soft
  <2>3. CASE FailRead(t)
    <3>1. /\ loc'[t].failMode = loc[t].failMode /\ loc'[t].hard = loc[t].hard /\ loc'[t].ret = loc[t].ret
          /\ loc'[t].running = recOn /\ pc[t] = "F2" /\ pc'[t] = "F3"
      BY <2>3, LeadsTo, LocalsOf DEF FailRead, Locals, TypeInv, TypeOK, ThreadsOK
    <3>2. loc[t].hard => ~recOn
      BY <2>1 DEF Soft, MuteInv, Muffled, Mutes
    <3>3. QED
      BY <2>1, <3>1, <3>2 DEF Soft
  <2>4. CASE FailMark(t)
    BY <2>1, <2>4, LeadsTo DEF FailMark, Soft
  <2>5. CASE FailEnd(t)
    BY <1>5, <2>1, <2>5, TenderLabels
  <2>6. QED
    BY <1>5, <2>2, <2>3, <2>4, <2>5 DEF FailSteps
<1>6. CASE t = "worker" /\ WorkerSteps /\ pc'[t] \in Handler
  <2>1. \E id : \E ret \in {"W0", "E1"} : Fail(t, id, FALSE, ret)
    BY <1>6, LeadsTo DEF WorkerSteps, TakePartial, TakeFinal, Handle, HandleEmpty, DecodeStart,
       DecodeEnd, RecordGuard, RecordSegment, RecordPart, SessionCheck, SessionEmpty,
       SessionComplete, SessionType, SessionSave, GiveUp, Loop, Handler
  <2>2. QED
    BY <1>2, <2>1
<1>7. ~StopQueue(t)
  BY DEF StopQueue, NoNote, Noted
<1>8. QED
  BY <1>1, <1>3, <1>4, <1>5, <1>6, <1>7, Reaches

\* The light only goes out with the microphone off.
LEMMA LitStep ==
  ASSUME TypeInv, MuteInv, LightInv, NEW t \in Threads, Step(t)
  PROVE  Lit' /\ failing' = {} /\ ~paused'
<1>0. /\ pc[t] \notin Noted /\ ~paused /\ failing = {} /\ recOn \in BOOLEAN /\ paused \in BOOLEAN
      /\ Soft(t) /\ Lit /\ (Mutes(t) => ~recOn)
  BY DEF LightInv, NoNote, MuteInv, Muffled, TypeInv, TypeOK, CaptureOK
<1>1. ~paused'
  BY <1>0, MicSteps DEF PauseEnd, Noted
<1>2. CASE FailEnd(t)
  <2>1. loc[t].failMode = "dictation" /\ pc[t] = "F4"
    BY <1>0, <1>2 DEF FailEnd, Soft
  <2>2. loc[t].hard => ~recOn /\ ~loc[t].running
    BY <1>0, <2>1 DEF Soft, Mutes, Handler
  <2>3. recOn' = recOn /\ failing' = {} /\ (recOn => micShown' = micShown)
    BY <1>0, <1>2, <2>1, <2>2 DEF FailEnd, shown
  <2>4. QED
    BY <1>0, <1>1, <2>3 DEF Lit
<1>3. CASE ~FailEnd(t)
  <2>1. failing' = {}
    <3>1. ~CleanupLock
      BY <1>0 DEF CleanupLock
    <3>2. CASE StartSteps(t) \/ FinalizeSteps(t)
      BY <1>0, <3>2 DEF StartSteps, StartLock, StartCheck, StartCapture, FinalizeSteps, FinalizeLock, FinalizeStop,
         FinalizeQueue, FinalizeEnd, FinalizeFailed, Acquire, control
    <3>3. CASE PauseSteps(t) \/ ResumeSteps(t) \/ StartNote(t) \/ Toggle(t) \/ StopSteps(t)
      BY <1>0, <3>3 DEF PauseSteps, PauseLock, PauseStop, PauseQueue, PauseEnd, ResumeSteps, ResumeLock,
         Resume, StartNote, Toggle, StopSteps, StopLock, StopCheck, StopPaused, StopQueue, StopEnd, Acquire, control
    <3>4. CASE CancelSteps(t)
      BY <1>0, <3>4 DEF CancelSteps, CancelLock, CancelCheck, CancelDelete, CancelMark, CancelDrainPartials,
         CancelRestorePartials, CancelDrainFinals, CancelRestoreFinals, CancelEnd, Acquire, control
    <3>5. CASE FailSteps(t) \/ (t = "cleaner" /\ CleanupSteps) \/ (t = "tray" /\ ShutdownSteps)
      BY <1>0, <1>3, <3>1, <3>5 DEF FailSteps, FailCheck, FailRead, FailMark, CleanupSteps, CleanupStop,
         CleanupEnd, ShutdownSteps, ShutdownHotkey, ShutdownQueue, Rest, control
    <3>6. CASE t = "worker" /\ WorkerSteps
      BY <1>0, <3>6 DEF WorkerSteps, TakePartial, TakeFinal, Handle, DecodeStart,
         DecodeEnd, RecordGuard, RecordSegment, RecordPart, SessionCheck, SessionEmpty,
         SessionComplete, SessionType, SessionSave, control
    <3>7. QED
      BY <3>2, <3>3, <3>4, <3>5, <3>6 DEF Step
  <2>2. CASE StartCapture(t)
    <3>1. micShown' = TRUE \/ (micShown' = micShown /\ recOn' = recOn)
      BY <2>2 DEF StartCapture, ShowCapturing, shown
    <3>2. QED
      BY <1>0, <1>1, <2>1, <3>1 DEF Lit
  <2>3. CASE ~StartCapture(t)
    <3>1. micShown' = micShown \/ (recOn' = recOn /\ ~recOn) \/ Resume(t)
      <4>1. CASE StartSteps(t)
        BY <2>3, <4>1 DEF StartSteps, StartLock, StartCheck, Acquire, shown
      <4>2. CASE FinalizeSteps(t)
        <5>1. CASE pc[t] \in {"Z2", "Z3", "Z4"}
          BY <1>0, <4>2, <5>1 DEF FinalizeSteps, FinalizeLock, FinalizeStop, FinalizeQueue, FinalizeEnd,
             FinalizeFailed, Acquire, Mutes, Muted, capture
        <5>2. CASE pc[t] \notin {"Z2", "Z3", "Z4"}
          BY <4>2, <5>2 DEF FinalizeSteps, FinalizeLock, FinalizeStop, FinalizeQueue, FinalizeEnd,
             FinalizeFailed, Acquire, shown
        <5>3. QED
          BY <5>1, <5>2
      <4>3. CASE PauseSteps(t) \/ ResumeSteps(t) \/ StartNote(t) \/ Toggle(t)
        BY <1>0, <4>3 DEF PauseSteps, PauseLock, PauseStop, PauseQueue, PauseEnd, ResumeSteps, ResumeLock,
           StartNote, Toggle, Acquire, Noted, shown
      <4>4. CASE StopSteps(t) \/ CancelSteps(t)
        BY <1>0, <4>4 DEF StopSteps, StopLock, StopCheck, StopPaused, StopQueue, StopEnd, CancelSteps, CancelLock,
           CancelCheck, CancelDelete, CancelMark, CancelDrainPartials, CancelRestorePartials, CancelDrainFinals,
           CancelRestoreFinals, CancelEnd, Acquire, Noted, Discarding, shown
      <4>5. CASE FailSteps(t) \/ (t = "cleaner" /\ CleanupSteps) \/ (t = "tray" /\ ShutdownSteps)
        BY <1>3, <4>5 DEF FailSteps, FailCheck, FailRead, FailMark, CleanupSteps, CleanupLock, CleanupStop,
           CleanupEnd, ShutdownSteps, ShutdownHotkey, ShutdownQueue, shown
      <4>6. CASE t = "worker" /\ WorkerSteps
        BY <4>6 DEF WorkerSteps, TakePartial, TakeFinal, Handle, DecodeStart,
           DecodeEnd, RecordGuard, RecordSegment, RecordPart, SessionCheck, SessionEmpty,
           SessionComplete, SessionType, SessionSave, shown
      <4>7. QED
        BY <4>1, <4>2, <4>3, <4>4, <4>5, <4>6 DEF Step
    <3>2. Resume(t) => micShown' = micShown /\ recOn' = recOn
      BY <1>0 DEF Resume, shown
    <3>3. recOn' => recOn
      BY <1>0, <2>3, <3>2, MicSteps
    <3>4. QED
      BY <1>0, <1>1, <2>1, <3>1, <3>2, <3>3 DEF Lit
  <2>4. QED
    BY <2>2, <2>3
<1>4. QED
  BY <1>2, <1>3

LEMMA LightStep ==
  ASSUME Core, LightInv, NEW t \in Threads, Step(t)
  PROVE  LightInv'
<1>0. TypeInv /\ MuteInv /\ OnlyMoves(t) /\ NoNote /\ Soft(t)
  BY StepLocks DEF Core, LockStep, LightInv
<1>1. Lit' /\ failing' = {} /\ ~paused'
  BY <1>0, LitStep
<1>2. \A u \in Threads : Soft(u)'
  <2>1. Soft(t)'
    BY <1>0, SoftStep
  <2>2. ASSUME NEW u \in Threads \ {t} PROVE Soft(u)'
    BY <1>0 DEF OnlyMoves, LightInv, Soft
  <2>3. QED
    BY <2>1, <2>2
<1>3. \A u \in Threads : pc'[u] \notin Noted /\ (pc'[u] \in Starting => loc'[u].mode = "dictation")
  <2>1. pc'[t] \notin Noted
    BY <1>0, NotedStep
  <2>2. ASSUME pc'[t] \in Starting PROVE loc'[t].mode = "dictation"
    <3>1. StartLock(t) \/ StartCheck(t)
      BY <1>0, <2>2, Reaches DEF StartNote, Toggle, NoNote, Noted
    <3>2. CASE StartLock(t)
      BY <1>0, <3>2 DEF StartLock, Acquire, NoNote, Starting
    <3>3. CASE StartCheck(t)
      <4>1. loc' = [loc EXCEPT ![t].id = gen + 1] /\ pc[t] = "S1"
        BY <1>0, <2>2, <3>3, LeadsTo DEF StartCheck, Starting
      <4>2. loc'[t].mode = loc[t].mode
        BY <1>0, <4>1, LocalsOf DEF Locals, TypeInv, TypeOK, ThreadsOK
      <4>3. QED
        BY <1>0, <4>1, <4>2 DEF NoNote, Starting
    <3>4. QED
      BY <3>1, <3>2, <3>3
  <2>3. QED
    BY <1>0, <2>1, <2>2 DEF NoNote, OnlyMoves
<1>4. ASSUME NEW id \in Ids PROVE sess'[id].mode # "note"
  <2>1. CASE StartCapture(t)
    <3>1. loc[t].mode = "dictation" /\ sess \in [Ids -> Sessions] /\ sess[id].mode # "note"
      BY <1>0, <1>4, <2>1 DEF StartCapture, NoNote, Starting, TypeInv, TypeOK, SessionsOK
    <3>2. \E s \in {NoSession, [mode |-> "dictation", stt |-> stt, note |-> FALSE, open |-> TRUE, parts |-> <<>>]} :
            sess' = [sess EXCEPT ![loc[t].id] = s]
      BY <2>1, <3>1 DEF StartCapture, Cleared
    <3>3. QED
      BY <3>1, <3>2 DEF NoSession
  <2>2. CASE ~StartCapture(t)
    BY <1>0, <1>4, <2>2, SessShrinks DEF NoNote
  <2>3. QED
    BY <2>1, <2>2
<1>5. QED
  BY <1>1, <1>2, <1>3, <1>4 DEF LightInv, NoNote

LEMMA UserLight ==
  ASSUME TypeInv, LightInv, {"start", "toggle"} \cap Ops = {}, User
  PROVE  LightInv'
<1>1. UNCHANGED <<recOn, micShown, sess, paused, failing>>
  BY DEF User, Press, Release, NoteRequest, Silence, Deactivate, Activate, SetCombo, SwitchModel,
     Shutdown, capture, sessions, shown, Rest, control
<1>2. \A u \in Threads : (pc'[u] = pc[u] /\ loc'[u] = loc[u]) \/ pc'[u] \in Entries
  BY UserEntries
<1>3. ASSUME NEW u \in Threads
      PROVE  \/ pc'[u] = pc[u] /\ loc'[u] = loc[u]
             \/ pc'[u] \in Entries \ {"S0", "N0", "G0"}
             \/ pc'[u] = "S0" /\ loc'[u].mode = "dictation"
  <2>0. pc \in [Threads -> PCs] /\ loc \in [Threads -> Locals]
    BY DEF TypeInv, TypeOK, ThreadsOK
  <2>1. CASE Press \/ Release
    <3>1. \E label \in {"S0", "Z0"} : Begin("hotkey", label, "dictation")
      BY <2>1 DEF Press, Release, OnRelease
    <3>2. QED
      BY <2>0, <3>1 DEF Begin, Goto, Entries, Locals
  <2>2. CASE Silence \/ \E t \in UIs : NoteRequest(t)
    <3>1. \E t : \E label \in Entries \ {"S0", "N0", "G0"} : Begin(t, label, "note")
      BY <2>2 DEF Silence, NoteRequest, Operation, Entry, Entries
    <3>2. QED
      BY <2>0, <3>1 DEF Begin, Goto
  <2>3. CASE Deactivate \/ SetCombo \/ Shutdown
    <3>1. /\ \E label \in Entries \ {"S0", "N0", "G0"} : Goto("tray", label)
          /\ UNCHANGED loc \/ loc' = [loc EXCEPT !["tray"].back = "D1"]
      BY <2>3 DEF Deactivate, SetCombo, Shutdown, FinalizeIfRecording, Entries
    <3>2. QED
      BY <2>0, <3>1 DEF Goto
  <2>4. CASE Activate \/ SwitchModel
    BY <2>4 DEF Activate, SwitchModel, threads
  <2>5. QED
    BY <2>1, <2>2, <2>3, <2>4 DEF User
<1>4. \A u \in Threads : pc'[u] \notin Noted /\ (pc'[u] \in Starting => loc'[u].mode = "dictation")
  BY <1>3 DEF LightInv, NoNote, Noted, Discarding, Starting, Entries
<1>5. \A u \in Threads : Soft(u)'
  BY <1>2 DEF LightInv, Soft, Handler, Entries
<1>6. QED
  BY <1>1, <1>4, <1>5 DEF LightInv, NoNote, Lit

\* The indicator is lit while the microphone is on, whatever the shortcut, the
\* tray, the worker and the failures interleave: a callback that puts it out is
\* made by the one who stopped the microphone, before the next recording can
\* start (_notify_recording in _finalize_recording and _fail_recording_session).
\* Without the hypothesis the failure of a note reports, outside the control
\* lock, that the recording has stopped when the next one may have begun.
THEOREM IndicatorLit ==
  ASSUME {"start", "toggle"} \cap Ops = {}
  PROVE  Spec => []IndicatorShown
<1>1. Init => Core /\ LightInv
  <2>1. SUFFICES ASSUME Init PROVE LightInv
    BY InitCore
  <2>2. /\ ~recOn /\ ~paused /\ failing = {} /\ \A t \in Threads : pc[t] \in {"W0", "idle"}
        /\ sess = [id \in Ids |-> NoSession]
    BY <2>1 DEF Init
  <2>3. QED
    BY <2>2 DEF LightInv, NoNote, Noted, Discarding, Soft, Handler, Lit, Starting, NoSession
<1>2. Core /\ LightInv /\ [Next]_vars => (Core /\ LightInv)'
  <2>1. SUFFICES ASSUME Core, LightInv, [Next]_vars PROVE LightInv'
    BY NextCore
  <2>2. ASSUME NEW t \in Threads, Step(t) PROVE LightInv'
    BY <2>1, <2>2, LightStep
  <2>3. CASE User
    BY <2>1, <2>3, UserLight DEF Core
  <2>4. CASE UNCHANGED vars
    <3>1. UNCHANGED <<pc, loc, paused, recOn, sess, micShown, failing>>
      BY <2>4 DEF vars, threads, capture, sessions, shown, control
    <3>2. QED
      BY <2>1, <3>1 DEF LightInv, NoNote, Soft, Lit
  <2>5. QED
    BY <2>1, <2>2, <2>3, <2>4 DEF Next, Resting
<1>3. LightInv => IndicatorShown
  BY DEF LightInv, Lit, IndicatorShown
<1>4. QED
  BY <1>1, <1>2, <1>3, PTL DEF Spec

-----------------------------------------------------------------------------
(* The microphone runs for a recording that can be ended *)

\* A discard goes on with the same recording until it has dropped it.
LEMMA DropGoesOn ==
  ASSUME TypeInv, NEW t \in Threads, Step(t), pc[t] \in Dropping
  PROVE  \/ pc'[t] \in Dropping /\ loc'[t].id = loc[t].id
         \/ CancelEnd(t)
<1>1. CASE CancelDrainPartials(t) \/ CancelRestorePartials(t)
  BY <1>1, LocalsOf, LeadsTo DEF CancelDrainPartials, CancelRestorePartials, Dropping, Locals, TypeInv, TypeOK, ThreadsOK
<1>2. CASE CancelDrainFinals(t) \/ CancelRestoreFinals(t)
  BY <1>2, LocalsOf, LeadsTo DEF CancelDrainFinals, CancelRestoreFinals, Dropping, Locals, TypeInv, TypeOK, ThreadsOK
<1>3. CancelDrainPartials(t) \/ CancelRestorePartials(t) \/ CancelDrainFinals(t) \/ CancelRestoreFinals(t) \/ CancelEnd(t)
  <2>1. ~(StartSteps(t) \/ FinalizeSteps(t) \/ PauseSteps(t) \/ ResumeSteps(t) \/ StartNote(t) \/ Toggle(t))
    BY DEF Dropping, StartSteps, StartLock, StartCheck, StartCapture, FinalizeSteps, FinalizeLock, FinalizeStop,
       FinalizeQueue, FinalizeEnd, FinalizeFailed, PauseSteps, PauseLock, PauseStop, PauseQueue, PauseEnd,
       ResumeSteps, ResumeLock, Resume, StartNote, Toggle, Acquire
  <2>2. ~(StopSteps(t) \/ FailSteps(t) \/ (t = "cleaner" /\ CleanupSteps) \/ (t = "tray" /\ ShutdownSteps))
    BY DEF Dropping, StopSteps, StopLock, StopCheck, StopPaused, StopQueue, StopEnd, FailSteps, FailCheck,
       FailRead, FailMark, FailEnd, CleanupSteps, CleanupLock, CleanupStop, CleanupEnd, ShutdownSteps,
       ShutdownHotkey, ShutdownQueue, Acquire
  <2>3. ~(t = "worker" /\ WorkerSteps)
    BY WorkerOnly DEF Dropping, Looping
  <2>4. QED
    BY <2>1, <2>2, <2>3 DEF Step, CancelSteps, CancelLock, CancelCheck, CancelDelete, CancelMark, Acquire, Dropping
<1>4. QED
  BY <1>1, <1>2, <1>3

LEMMA CondemnedKept ==
  ASSUME Core, NEW t \in Threads, Step(t), NEW id \in Ids, id <= Begun, Condemned(id)
  PROVE  Condemned(id)'
<1>0. TypeInv /\ LocksOwned /\ OnlyMoves(t)
  BY StepLocks DEF Core, LockStep
<1>1. CASE Closed(id)
  BY <1>1, ClosedKept DEF Core, Condemned
<1>2. ASSUME NEW u \in Threads, pc[u] \in Dropping, loc[u].id = id PROVE Condemned(id)'
  <2>1. CASE u # t
    BY <1>0, <1>2, <2>1 DEF OnlyMoves, Condemned
  <2>2. CASE u = t /\ CancelEnd(t)
    <3>1. activeId' # id
      BY <1>2, <2>2, IdsType DEF CancelEnd
    <3>2. QED
      BY <3>1 DEF Condemned, Closed
  <2>3. CASE u = t /\ ~CancelEnd(t)
    BY <1>0, <1>2, <2>3, DropGoesOn DEF Condemned
  <2>4. QED
    BY <2>1, <2>2, <2>3
<1>3. QED
  BY <1>1, <1>2 DEF Condemned

\* A failure is met with the microphone off, or by the worker.
LEMMA HandlerCondemned ==
  ASSUME Core, FailsOff, NEW t \in Threads, pc[t] \in Handler
  PROVE  loc[t].id \in Ids /\ loc[t].id <= Begun /\ Condemned(loc[t].id)
<1>1. loc[t].id \in Ids /\ loc[t].id <= Begun
  BY DEF Core, TypeInv, HasId, Bound, Handler, PastInv, PastAt
<1>2. CASE t = "worker"
  BY <1>1, <1>2 DEF FailsOff
<1>3. CASE t # "worker"
  BY <1>1, <1>3 DEF Core, ClosedInv, Ending, Closing, Condemned
<1>4. QED
  BY <1>1, <1>2, <1>3

LEMMA OwnedStep ==
  ASSUME Core, OrphanInv, NEW t \in Threads, Step(t)
  PROVE  Owned'
<1>0. /\ TypeInv /\ OnlyMoves(t) /\ recOn \in BOOLEAN /\ activeId \in IdOrNone /\ activeId \in Nat
      /\ (Mutes(t) => ~recOn) /\ Owned /\ gen \in Nat
  BY StepLocks, IdsType DEF Core, LockStep, MuteInv, Muffled, TypeInv, TypeOK, CaptureOK, OrphanInv
<1>1. SUFFICES ASSUME recOn', activeId' = NoId PROVE \E u \in Threads : pc'[u] \in Dropping
  BY DEF Owned
<1>2. ~StartCapture(t)
  <2>1. SUFFICES ASSUME StartCapture(t) PROVE FALSE
    OBVIOUS
  <2>2. pc[t] = "S2" /\ activeId = gen /\ loc[t].id = gen /\ loc[t].id \in Ids
    BY <2>1 DEF StartCapture, Core, StartOwn, PastInv, Newest, TypeInv, HasId, Bound
  <2>3. recOn' = recOn \/ activeId' = activeId
    BY <2>1 DEF StartCapture
  <2>4. QED
    BY <1>0, <1>1, <2>2, <2>3, IdsType DEF Mutes, Muted
<1>3. StartCheck(t) => activeId' = activeId
  BY <1>0, <1>1, IdsType DEF StartCheck
<1>4. recOn
  BY <1>0, <1>1, <1>2, MicSteps DEF Resume
<1>5. ASSUME NEW u \in Threads, pc[u] \in Dropping PROVE \E v \in Threads : pc'[v] \in Dropping
  <2>1. CASE u # t
    BY <1>0, <1>5, <2>1 DEF OnlyMoves
  <2>2. CASE u = t
    <3>1. ~CancelEnd(t)
      BY <1>0, <1>1, <1>4, <1>5, <2>2 DEF CancelEnd, CancelRecorder, Mutes, Discarding
    <3>2. QED
      BY <1>0, <1>5, <2>2, <3>1, DropGoesOn
  <2>3. QED
    BY <2>1, <2>2
<1>6. CASE activeId = NoId
  BY <1>0, <1>4, <1>5, <1>6 DEF Owned
<1>7. CASE activeId # NoId
  <2>1. activeId \in Ids /\ loc[t].id = activeId /\ ~Closed(activeId)
    BY <1>0, <1>1, <1>2, <1>3, <1>4, <1>7, Drops DEF IdOrNone, Closed
  <2>2. pc[t] \notin {"T4", "Z2", "Z3", "X2"}
    <3>1. pc[t] = "T4" => Closing(t, activeId)
      BY <2>1, WorkersAreThreads DEF Closing, Core, WorkInv, WorkerAt, Looping, Handler
    <3>2. ~Closing(t, activeId)
      BY <2>1 DEF Core, ClosedInv, Ending
    <3>3. QED
      BY <1>0, <1>4, <3>1, <3>2 DEF Mutes, Muted
  <2>3. pc[t] \in Handler \cup {"C8"}
    BY <1>0, <1>1, <1>2, <1>3, <1>7, <2>2, Drops DEF Handler
  <2>4. CASE pc[t] = "C8"
    BY <1>5, <2>4 DEF Dropping
  <2>5. CASE pc[t] \in Handler
    <3>1. Condemned(activeId)
      BY <2>1, <2>5, HandlerCondemned DEF OrphanInv
    <3>2. QED
      BY <1>5, <2>1, <3>1 DEF Condemned
  <2>6. QED
    BY <2>3, <2>4, <2>5
<1>8. QED
  BY <1>6, <1>7

\* Without a fault and without a switch of models, the worker fails what is dead.
LEMMA FailsOffStep ==
  ASSUME Core, OrphanInv, {"decode", "segment"} \cap Faults = {}, NEW t \in Threads, Step(t)
  PROVE  FailsOff'
<1> DEFINE w == "worker"
           id == loc[w].id
<1>0. /\ TypeInv /\ OnlyMoves(t) /\ w \in Threads /\ WorkerAt
      /\ DeadOff /\ LostOff /\ OneModel /\ FailsOff
  BY StepLocks, WorkersAreThreads DEF Core, WorkInv, LockStep, OrphanInv
<1>1. SUFFICES ASSUME pc'[w] \in Handler PROVE Condemned(loc[w].id)'
  BY DEF FailsOff
<1>2. ASSUME id \in Ids, id <= Begun, Condemned(id), loc'[w].id = id PROVE Condemned(loc[w].id)'
  <2>1. PICK i \in Ids : i = id
    BY <1>2
  <2>2. Condemned(i)'
    BY <1>2, <2>1, CondemnedKept
  <2>3. QED
    BY <1>2, <2>1, <2>2 DEF Condemned, Closed
<1>3. CASE pc[w] \in Handler
  <2>1. loc'[w].id = id
    <3>1. CASE t = w
      <4>1. FailSteps(w)
        BY <1>0, <1>3, <3>1, WorkerIs, WorkerOnly DEF Looping, Handler
      <4>2. QED
        BY <1>0, <1>1, <4>1, FailKeepsId DEF Handler
    <3>2. CASE t # w
      BY <1>0, <3>2 DEF OnlyMoves
    <3>3. QED
      BY <3>1, <3>2
  <2>2. id \in Ids /\ id <= Begun /\ Condemned(id)
    BY <1>0, <1>3, HandlerCondemned
  <2>3. QED
    BY <1>2, <2>1, <2>2
<1>4. CASE pc[w] \notin Handler
  <2>1. t = w /\ WorkerSteps
    BY <1>0, <1>1, <1>4, WorkerIs DEF OnlyMoves, FailSteps, FailCheck, FailRead, FailMark, FailEnd, Handler
  <2>2. DecodeStart /\ Fail(w, id, FALSE, "W0") /\ ~(Known(id) /\ sess[id].stt = stt)
    BY <1>0, <1>1, <2>1, LeadsTo DEF WorkerSteps, TakePartial, TakeFinal, Handle, HandleEmpty, DecodeStart,
       DecodeEnd, RecordGuard, RecordSegment, RecordPart, SessionCheck, SessionEmpty,
       SessionComplete, SessionType, SessionSave, GiveUp, Loop, Handler
  <2>3. id \in Ids /\ id <= Begun /\ loc'[w].id = id
    BY <1>0, <2>2, FailOnly DEF DecodeStart, TypeInv, HasId, Bound, Core, PastInv, PastAt
  <2>4. Failed(id) \/ sess[id].stt = 0
    BY <1>0, <2>2, <2>3 DEF Known, OneModel
  <2>5. Condemned(id)
    <3>1. CASE Failed(id)
      BY <1>0, <2>3, <3>1 DEF DeadOff
    <3>2. CASE activeId # id
      BY <3>2 DEF Condemned, Closed
    <3>3. CASE sess[id].stt = 0 /\ activeId = id
      <4>1. ~\E u \in Threads : pc[u] = "S2"
        <5>1. SUFFICES ASSUME NEW u \in Threads, pc[u] = "S2" PROVE FALSE
          OBVIOUS
        <5>2. activeId = gen /\ Begun = gen - 1 /\ gen \in Nat
          BY <5>1, IdsType DEF Core, StartOwn, Begun, TypeInv, TypeOK, CaptureOK
        <5>3. QED
          BY <2>3, <3>3, <5>2
      <4>2. QED
        BY <1>0, <2>3, <3>3, <4>1 DEF LostOff
    <3>4. QED
      BY <2>4, <3>1, <3>2, <3>3
  <2>6. QED
    BY <1>2, <2>3, <2>5
<1>5. QED
  BY <1>3, <1>4

LEMMA RememberIds ==
  ASSUME NEW i, Remember(i)
  PROVE  terminal' \subseteq terminal \cup {i}
  BY DEF Remember

LEMMA DeadOffStep ==
  ASSUME Core, OrphanInv, NEW t \in Threads, Step(t)
  PROVE  DeadOff'
<1>0. TypeInv /\ DeadOff /\ FailsOff /\ OnlyMoves(t)
  BY StepLocks DEF Core, LockStep, OrphanInv
<1>1. SUFFICES ASSUME NEW id \in Ids, id \in terminal' PROVE Condemned(id)'
  BY DEF DeadOff, Failed
<1>2. CASE id \in terminal
  <2>1. id <= Begun /\ Condemned(id)
    BY <1>0, <1>1, <1>2 DEF DeadOff, Failed, Core, PastInv, PastAt
  <2>2. QED
    BY <1>1, <2>1, CondemnedKept
<1>3. CASE id \notin terminal
  <2>1. ~StartCapture(t)
    BY <1>1, <1>3 DEF StartCapture
  <2>2. CASE CancelMark(t)
    <3>1. id = loc[t].id /\ loc'[t] = loc[t] /\ pc'[t] = "C4"
      BY <1>0, <1>1, <1>3, <2>2, RememberIds, LeadsTo DEF CancelMark
    <3>2. QED
      BY <3>1 DEF Condemned, Dropping
  <2>3. CASE FailMark(t)
    <3>1. id = loc[t].id /\ pc[t] \in Handler
      BY <1>1, <1>3, <2>3, RememberIds DEF FailMark, Handler
    <3>2. id <= Begun /\ Condemned(id)
      BY <1>0, <3>1, HandlerCondemned
    <3>3. QED
      BY <1>1, <3>2, CondemnedKept
  <2>4. CASE t = "worker" /\ SessionComplete
    <3>1. id = loc[t].id /\ pc[t] = "E3"
      BY <1>1, <1>3, <2>4, RememberIds DEF SessionComplete
    <3>2. Closed(id) /\ id <= Begun
      BY <1>1, <2>4, <3>1, EndedClosed DEF Core, PastInv, PastAt
    <3>3. QED
      BY <1>1, <3>2, CondemnedKept DEF Condemned
  <2>5. QED
    BY <1>0, <1>1, <1>3, <2>1, <2>2, <2>3, <2>4, TerminalKept
<1>4. QED
  BY <1>2, <1>3

LEMMA LostOffStep ==
  ASSUME Core, OrphanInv, NEW t \in Threads, Step(t)
  PROVE  LostOff'
<1>0. /\ TypeInv /\ OnlyMoves(t) /\ LostOff /\ OneModel /\ activeId \in IdOrNone /\ gen \in Nat /\ activeId <= gen
      /\ sess \in [Ids -> Sessions]
  BY StepLocks, IdsType DEF Core, LockStep, OrphanInv, PastInv, Newest, TypeInv, TypeOK, CaptureOK, SessionsOK
<1>1. SUFFICES ASSUME activeId' \in Ids, sess'[activeId'].stt = 0
               PROVE  (\E u \in Threads : pc'[u] = "S2") \/ Condemned(activeId)'
  BY DEF LostOff, Condemned, Closed
<1>2. CASE activeId' = activeId /\ ~StartCapture(t)
  <2>1. ASSUME NEW u \in Threads, pc[u] = "S2" PROVE \E v \in Threads : pc'[v] = "S2"
    <3>1. u # t
      BY <1>2, <2>1 DEF Step, StartSteps, StartLock, StartCheck, FinalizeSteps, FinalizeLock, FinalizeStop,
         FinalizeQueue, FinalizeEnd, FinalizeFailed, PauseSteps, PauseLock, PauseStop, PauseQueue, PauseEnd,
         ResumeSteps, ResumeLock, Resume, StartNote, Toggle, Acquire, StopSteps, StopLock, StopCheck, StopPaused,
         StopQueue, StopEnd, CancelSteps, CancelLock, CancelCheck, CancelDelete, CancelMark, CancelDrainPartials,
         CancelRestorePartials, CancelDrainFinals, CancelRestoreFinals, CancelEnd, FailSteps, FailCheck,
         FailRead, FailMark, FailEnd, CleanupSteps, CleanupLock, CleanupStop, CleanupEnd, ShutdownSteps,
         ShutdownHotkey, ShutdownQueue, WorkerSteps, TakePartial, TakeFinal, Handle, DecodeStart, DecodeEnd,
         RecordGuard, RecordSegment, RecordPart, SessionCheck, SessionEmpty, SessionComplete, SessionType, SessionSave
    <3>2. QED
      BY <1>0, <2>1, <3>1 DEF OnlyMoves
  <2>2. CASE Condemned(activeId) /\ ~\E u \in Threads : pc[u] = "S2"
    <3>1. activeId \in Ids /\ activeId <= Begun
      BY <1>0, <1>1, <1>2, <2>2 DEF Begun
    <3>2. Condemned(activeId)'
      BY <1>2, <2>2, <3>1, CondemnedKept DEF Condemned, Closed
    <3>3. QED
      BY <3>2
  <2>3. CASE ~Condemned(activeId) /\ ~\E u \in Threads : pc[u] = "S2"
    <3>1. sess'[activeId].stt = sess[activeId].stt
      BY <1>1, <1>2, <2>3, SessKept DEF Condemned, OrphanInv
    <3>2. QED
      BY <1>0, <1>1, <1>2, <2>3, <3>1 DEF LostOff
  <2>4. QED
    BY <2>1, <2>2, <2>3
<1>3. CASE StartCapture(t)
  <2>1. activeId' = activeId /\ activeId = gen /\ loc[t].id = gen /\ stt = 1
    BY <1>0, <1>1, <1>3, IdsType DEF StartCapture, Core, StartOwn, PastInv, Newest, OneModel
  <2>2. sess' = [sess EXCEPT ![loc[t].id] = [mode |-> loc[t].mode, stt |-> stt, note |-> loc[t].mode = "note",
                                           open |-> TRUE, parts |-> <<>>]]
    BY <1>1, <1>3, IdsType DEF StartCapture
  <2>3. sess'[activeId].stt = 1
    BY <1>0, <1>1, <2>1, <2>2
  <2>4. QED
    BY <1>1, <2>1, <2>3
<1>4. CASE activeId' # activeId /\ ~StartCapture(t)
  <2>1. StartCheck(t)
    BY <1>0, <1>1, <1>4, Drops, IdsType
  <2>2. pc'[t] = "S2"
    BY <1>0, <1>4, <2>1, LeadsTo DEF StartCheck
  <2>3. QED
    BY <2>2
<1>5. QED
  BY <1>2, <1>3, <1>4

LEMMA OneModelStep ==
  ASSUME TypeInv, OneModel, NEW t \in Threads, Step(t)
  PROVE  OneModel'
<1>1. stt' = 1
  BY PressedKept DEF OneModel
<1>2. ASSUME NEW id \in Ids PROVE sess'[id].stt \in {0, 1}
  <2>1. CASE StartCapture(t)
    <3>1. \/ sess' = [sess EXCEPT ![loc[t].id] = [mode |-> loc[t].mode, stt |-> stt, note |-> loc[t].mode = "note",
                                                 open |-> TRUE, parts |-> <<>>]]
          \/ sess' = Cleared(sess, loc[t].id)
      BY <2>1 DEF StartCapture
    <3>2. QED
      BY <1>2, <3>1 DEF Cleared, NoSession, OneModel, TypeInv, TypeOK, SessionsOK
  <2>2. CASE ~StartCapture(t)
    BY <1>2, <2>2, SessShrinks DEF OneModel
  <2>3. QED
    BY <2>1, <2>2
<1>3. QED
  BY <1>1, <1>2 DEF OneModel

LEMMA UserOrphan ==
  ASSUME TypeInv, Core, OrphanInv, "switch" \notin Ops, User
  PROVE  OrphanInv'
<1>1. UNCHANGED <<activeId, recOn, paused, sess, terminal, stt>>
  <2>1. ~SwitchModel
    BY DEF SwitchModel, Operation
  <2>2. QED
    BY <2>1 DEF User, Press, Release, NoteRequest, Silence, Deactivate, Activate, SetCombo,
       Shutdown, capture, sessions, Rest, control
<1>2. \A u \in Threads : \/ pc'[u] = pc[u] /\ loc'[u] = loc[u]
                         \/ pc[u] = "idle" /\ pc'[u] \in Entries
  <2>1. \A u \in Threads : (pc'[u] = pc[u] /\ loc'[u] = loc[u]) \/ pc'[u] \in Entries
    BY UserEntries
  <2>2. \A u \in Threads : pc[u] = "idle" \/ (pc'[u] = pc[u] /\ loc'[u] = loc[u])
    BY UserOnly DEF OnlyMoves, threads
  <2>3. QED
    BY <2>1, <2>2
<1>3. \A id \in Ids : Condemned(id) => Condemned(id)'
  <2>1. \A id \in Ids : Closed(id) => Closed(id)'
    BY <1>1, <1>2 DEF Closed, Entries
  <2>2. \A u \in Threads : pc[u] \in Dropping => pc'[u] = pc[u] /\ loc'[u] = loc[u]
    BY <1>2 DEF Dropping
  <2>3. QED
    BY <2>1, <2>2 DEF Condemned
<1>4. pc'["worker"] = pc["worker"] /\ loc'["worker"] = loc["worker"]
  BY <1>2, WorkersAreThreads DEF Core, WorkInv, WorkerAt, Looping, Handler
<1>5. \A u \in Threads : pc[u] \in Dropping \cup {"S2"} => pc'[u] = pc[u]
  BY <1>2 DEF Dropping
<1>6. Aside' /\ OneModel'
  BY <1>1, <1>2 DEF OrphanInv, Aside, OneModel, Entries
<1>7. Owned' /\ LostOff'
  <2>1. LostOff'
    <3>1. CASE activeId \in Ids /\ sess[activeId].stt = 0
      <4>1. (\E u \in Threads : pc[u] = "S2") \/ Condemned(activeId)
        BY <3>1 DEF OrphanInv, LostOff
      <4>2. CASE \E u \in Threads : pc[u] = "S2"
        BY <1>5, <4>2 DEF LostOff
      <4>3. CASE Condemned(activeId)
        <5>1. Condemned(activeId)'
          <6>1. PICK id \in Ids : id = activeId
            BY <3>1
          <6>2. Condemned(id)'
            BY <1>3, <4>3, <6>1
          <6>3. QED
            BY <1>1, <6>1, <6>2 DEF Condemned, Closed
        <5>2. QED
          BY <5>1 DEF LostOff
      <4>4. QED
        BY <4>1, <4>2, <4>3
    <3>2. CASE ~(activeId \in Ids /\ sess[activeId].stt = 0)
      BY <1>1, <3>2 DEF LostOff
    <3>3. QED
      BY <3>1, <3>2
  <2>2. Owned'
    BY <1>1, <1>5 DEF OrphanInv, Owned
  <2>3. QED
    BY <2>1, <2>2
<1>8. FailsOff'
  <2>1. pc["worker"] \in Handler => loc["worker"].id \in Ids
    BY WorkersAreThreads DEF TypeInv, HasId, Bound, Handler
  <2>2. pc["worker"] \in Handler => Condemned(loc["worker"].id)
    BY DEF OrphanInv, FailsOff
  <2>3. ASSUME pc'["worker"] \in Handler PROVE Condemned(loc["worker"].id)'
    <3>1. PICK id \in Ids : id = loc["worker"].id
      BY <1>4, <2>1, <2>3
    <3>2. Condemned(id)'
      BY <1>3, <1>4, <2>2, <2>3, <3>1
    <3>3. QED
      BY <1>4, <3>1, <3>2 DEF Condemned, Closed
  <2>4. QED
    BY <2>3 DEF FailsOff
<1>9. DeadOff'
  BY <1>1, <1>3 DEF OrphanInv, DeadOff, Failed
<1>10. QED
  BY <1>6, <1>7, <1>8, <1>9 DEF OrphanInv

\* The microphone only runs for a recording that some operation can end,
\* discards and pauses, crossed requests and failures of the microphone and of
\* the disk included: whoever drops the active recording has stopped the
\* microphone, or will (_cancel_long_recording, _finalize_recording,
\* _fail_recording_session).  The hypotheses exclude what can fail a note while
\* it is still being recorded, from the worker: there a thread of its own stops
\* the microphone later (_cleanup_failed_recording_session).
THEOREM NeverOrphaned ==
  ASSUME "switch" \notin Ops, {"decode", "segment"} \cap Faults = {}
  PROVE  Spec => []NoOrphanCapture
<1>1. Init => Core /\ OrphanInv
  <2>1. SUFFICES ASSUME Init PROVE OrphanInv
    BY InitCore
  <2>2. /\ ~recOn /\ activeId = NoId /\ terminal = {} /\ stt = 1
        /\ \A t \in Threads : pc[t] \in {"W0", "idle"}
        /\ sess = [id \in Ids |-> NoSession]
    BY <2>1 DEF Init
  <2>3. QED
    BY <2>2, IdsType, WorkersAreThreads DEF OrphanInv, Aside, Owned, FailsOff, DeadOff, LostOff, OneModel, Handler,
       Failed, NoSession
<1>2. Core /\ OrphanInv /\ [Next]_vars => (Core /\ OrphanInv)'
  <2>1. SUFFICES ASSUME Core, OrphanInv, [Next]_vars PROVE OrphanInv'
    BY NextCore
  <2>2. ASSUME NEW t \in Threads, Step(t) PROVE OrphanInv'
    <3>1. Aside'
      BY <2>1, <2>2, AsideStep DEF OrphanInv, Core
    <3>2. Owned' /\ FailsOff'
      BY <2>1, <2>2, OwnedStep, FailsOffStep
    <3>3. DeadOff' /\ LostOff'
      BY <2>1, <2>2, DeadOffStep, LostOffStep
    <3>4. OneModel'
      BY <2>1, <2>2, OneModelStep DEF OrphanInv, Core
    <3>5. QED
      BY <3>1, <3>2, <3>3, <3>4 DEF OrphanInv
  <2>3. CASE User
    BY <2>1, <2>3, UserOrphan DEF Core
  <2>4. CASE UNCHANGED vars
    <3>1. UNCHANGED <<pc, loc, activeId, recOn, paused, sess, terminal, stt>>
      BY <2>4 DEF vars, threads, capture, sessions, control
    <3>2. QED
      BY <2>1, <3>1 DEF OrphanInv, Aside, Owned, FailsOff, DeadOff, LostOff, OneModel, Condemned, Closed, Failed
  <2>5. QED
    BY <2>1, <2>2, <2>3, <2>4 DEF Next, Resting
<1>3. Core /\ OrphanInv => NoOrphanCapture
  <2>1. SUFFICES ASSUME Core, OrphanInv, recOn, ctl = Free PROVE activeId # NoId
    BY DEF NoOrphanCapture
  <2>2. \A t \in Threads : pc[t] \notin Dropping
    BY <2>1, FreeIsNoThread DEF Core, LocksOwned, CtlOwned, Holds, Inside, Dropping
  <2>3. QED
    BY <2>1, <2>2 DEF OrphanInv, Owned
<1>4. QED
  BY <1>1, <1>2, <1>3, PTL DEF Spec

-----------------------------------------------------------------------------
(* The text comes in the order it was spoken *)

LEMMA JoinOrder ==
  ASSUME NEW p \in Seq(Nat), NEW q \in Seq(Nat)
  PROVE  /\ Before(p, q) /\ Rising(p) /\ Rising(q) => Rising(p \o q)
         /\ \A r \in Seq(Nat) : Before(p, r) /\ Before(q, r) => Before(p \o q, r)
         /\ \A m \in Nat : Below(p, m) /\ Below(q, m) => Below(p \o q, m)
<1>1. ASSUME NEW i \in DOMAIN (p \o q)
      PROVE  \/ i \in DOMAIN p /\ (p \o q)[i] = p[i]
             \/ i - Len(p) \in DOMAIN q /\ i > Len(p) /\ (p \o q)[i] = q[i - Len(p)]
  BY <1>1
<1>2. ASSUME Before(p, q), Rising(p), Rising(q) PROVE Rising(p \o q)
  <2>1. SUFFICES ASSUME NEW i \in DOMAIN (p \o q), NEW j \in DOMAIN (p \o q), i < j
                 PROVE  (p \o q)[i] < (p \o q)[j]
    BY DEF Rising
  <2>2. DOMAIN p = 1 .. Len(p) /\ DOMAIN q = 1 .. Len(q) /\ Len(p) \in Nat /\ i \in Nat /\ j \in Nat
    OBVIOUS
  <2>3. CASE j \in DOMAIN p /\ (p \o q)[j] = p[j]
    <3>1. i \in DOMAIN p /\ (p \o q)[i] = p[i]
      BY <1>1, <2>1, <2>2, <2>3
    <3>2. QED
      BY <1>2, <2>1, <2>3, <3>1 DEF Rising
  <2>4. CASE j - Len(p) \in DOMAIN q /\ j > Len(p) /\ (p \o q)[j] = q[j - Len(p)]
    <3>1. CASE i \in DOMAIN p /\ (p \o q)[i] = p[i]
      BY <1>2, <2>4, <3>1 DEF Before
    <3>2. CASE i - Len(p) \in DOMAIN q /\ (p \o q)[i] = q[i - Len(p)]
      <4>1. i - Len(p) < j - Len(p)
        BY <2>1, <2>2
      <4>2. QED
        BY <1>2, <2>4, <3>2, <4>1 DEF Rising
    <3>3. QED
      BY <1>1, <3>1, <3>2
  <2>5. QED
    BY <1>1, <2>3, <2>4
<1>3. ASSUME NEW r \in Seq(Nat), Before(p, r), Before(q, r) PROVE Before(p \o q, r)
  BY <1>1, <1>3 DEF Before
<1>4. ASSUME NEW m \in Nat, Below(p, m), Below(q, m) PROVE Below(p \o q, m)
  BY <1>1, <1>4 DEF Below
<1>5. QED
  BY <1>2, <1>3, <1>4

\* Nothing, one capture, and a mark that has moved on.
LEMMA SmallOrder ==
  /\ \A p : Before(<<>>, p) /\ Before(p, <<>>) /\ \A m : Neat(<<>>, m)
  /\ \A c \in Nat : Neat(<<c>>, c + 1) /\ \A p : Below(p, c) => Before(p, <<c>>)
  /\ \A p \in Seq(Nat), c, m \in Nat : c <= m /\ Neat(p, c) => Neat(p, m)
  BY DEF Before, Neat, Rising, Below

\* What a queue loses at its head, or all of it, leaves the rest in order.
LEMMA TailOrder ==
  ASSUME NEW q \in Seq(Items), q # <<>>
  PROVE  /\ Tail(q) \in Seq(Items)
         /\ \A i \in DOMAIN Tail(q) : i + 1 \in DOMAIN q /\ Tail(q)[i] = q[i + 1]
         /\ \A m : Chunky(q, m) => Neat(Head(q).captures, m) /\ Chunky(Tail(q), m)
         /\ \A p, id : Follows(p, id, q) => /\ Follows(p, id, Tail(q))
                                            /\ Head(q).id = id => Before(p, Head(q).captures)
         /\ Sorted(q) => Sorted(Tail(q)) /\ Follows(Head(q).captures, Head(q).id, Tail(q))
<1>1. /\ Tail(q) \in Seq(Items) /\ 1 \in DOMAIN q /\ Head(q) = q[1]
      /\ \A i \in DOMAIN Tail(q) : i \in Nat /\ i >= 1 /\ i + 1 \in DOMAIN q /\ Tail(q)[i] = q[i + 1]
  OBVIOUS
<1>2. \A m : Chunky(q, m) => Neat(Head(q).captures, m) /\ Chunky(Tail(q), m)
  BY <1>1 DEF Chunky
<1>3. \A p, id : Follows(p, id, q) => /\ Follows(p, id, Tail(q))
                                      /\ Head(q).id = id => Before(p, Head(q).captures)
  BY <1>1 DEF Follows
<1>4. ASSUME Sorted(q) PROVE Sorted(Tail(q)) /\ Follows(Head(q).captures, Head(q).id, Tail(q))
  <2>1. Sorted(Tail(q))
    BY <1>1, <1>4 DEF Sorted
  <2>2. \A i \in DOMAIN Tail(q) : 1 < i + 1
    BY <1>1
  <2>3. Follows(Head(q).captures, Head(q).id, Tail(q))
    BY <1>1, <1>4, <2>2 DEF Sorted, Follows
  <2>4. QED
    BY <2>1, <2>3
<1>5. QED
  BY <1>1, <1>2, <1>3, <1>4

LEMMA NoOrder ==
  /\ \A m : Chunky(<<>>, m)
  /\ \A p, id : Follows(p, id, <<>>)
  /\ Sorted(<<>>)
  BY DEF Chunky, Follows, Sorted

LEMMA AppendOrder ==
  ASSUME NEW q \in Seq(Items), NEW item \in Items
  PROVE  /\ \A i \in DOMAIN Append(q, item) : \/ i \in DOMAIN q /\ Append(q, item)[i] = q[i]
                                              \/ i = Len(q) + 1 /\ Append(q, item)[i] = item
         /\ \A m : Chunky(q, m) /\ Neat(item.captures, m) => Chunky(Append(q, item), m)
         /\ \A p, id : Follows(p, id, q) /\ Before(p, item.captures) => Follows(p, id, Append(q, item))
         /\ Sorted(q) /\ (\A i \in DOMAIN q : Before(q[i].captures, item.captures)) => Sorted(Append(q, item))
<1>1. /\ \A i \in DOMAIN q : i \in Nat /\ i < Len(q) + 1
      /\ \A i \in DOMAIN Append(q, item) : \/ i \in DOMAIN q /\ Append(q, item)[i] = q[i]
                                           \/ i = Len(q) + 1 /\ Append(q, item)[i] = item
      /\ Len(q) \in Nat
  OBVIOUS
<1>2. \A m : Chunky(q, m) /\ Neat(item.captures, m) => Chunky(Append(q, item), m)
  BY <1>1 DEF Chunky
<1>3. \A p, id : Follows(p, id, q) /\ Before(p, item.captures) => Follows(p, id, Append(q, item))
  BY <1>1 DEF Follows
<1>4. ASSUME Sorted(q), \A i \in DOMAIN q : Before(q[i].captures, item.captures) PROVE Sorted(Append(q, item))
  <2>1. SUFFICES ASSUME NEW i \in DOMAIN Append(q, item), NEW j \in DOMAIN Append(q, item), i < j,
                        Append(q, item)[i].id = Append(q, item)[j].id
                 PROVE  Before(Append(q, item)[i].captures, Append(q, item)[j].captures)
    BY DEF Sorted
  <2>2. i \in DOMAIN q /\ Append(q, item)[i] = q[i]
    BY <1>1, <2>1
  <2>3. QED
    BY <1>1, <1>4, <2>1, <2>2 DEF Sorted
<1>5. QED
  BY <1>1, <1>2, <1>3, <1>4


LEMMA OrderTypes ==
  ASSUME TypeInv
  PROVE  /\ partialQ \in Seq(Items) /\ finalQ \in Seq(Items) /\ caps \in Nat /\ Mark \in {caps, caps + 1}
         /\ \A t \in Threads : loc[t].captures \in Seq(Nat) /\ loc[t].said \in Seq(Nat)
         /\ \A id \in Ids : sess[id].parts \in Seq(Nat) /\ segs[id] \in Seq(Nat) /\ text[id] \in Seq(Nat)
         /\ \A item \in Items : item.captures \in Seq(Nat) /\ (item # StopSignal => item.id \in Ids)
<1>1. partialQ \in Seq(Items) /\ finalQ \in Seq(Items)
  BY QueueTypes
<1>2. caps \in Nat /\ Mark \in {caps, caps + 1}
  BY DEF TypeInv, TypeOK, CaptureOK, Mark
<1>3. \A t \in Threads : loc[t].captures \in Seq(Nat) /\ loc[t].said \in Seq(Nat)
  BY LocalsOf DEF Locals
<1>4. \A id \in Ids : sess[id].parts \in Seq(Nat) /\ segs[id] \in Seq(Nat) /\ text[id] \in Seq(Nat)
  BY DEF TypeInv, TypeOK, SessionsOK, Sessions, NotesOK, OutcomeOK
<1>5. \A item \in Items : item.captures \in Seq(Nat) /\ (item # StopSignal => item.id \in Ids)
  <2>1. ASSUME NEW item \in Chunks PROVE item.captures \in Seq(Nat) /\ item.id \in Ids
    BY <2>1 DEF Chunks
  <2>2. StopSignal.captures \in Seq(Nat)
    BY DEF StopSignal
  <2>3. QED
    BY <2>1, <2>2 DEF Items
<1>6. QED
  BY <1>1, <1>2, <1>3, <1>4, <1>5

\* Only the start of a capture counts one, with the microphone off before.
LEMMA CapsStep ==
  ASSUME TypeInv, MicInv, NEW t \in Threads, Step(t)
  PROVE  \/ caps' = caps /\ (recOn' => recOn)
         \/ caps' = caps + 1 /\ Holds(t) /\ pc[t] \in {"S2", "R1"}
<1>1. CASE StartCapture(t)
  <2>1. Holds(t) /\ pc[t] = "S2"
    BY <1>1, MicSteps
  <2>2. caps' = caps + 1 \/ (caps' = caps /\ recOn' = recOn)
    BY <1>1 DEF StartCapture
  <2>3. QED
    BY <2>1, <2>2
<1>2. CASE Resume(t)
  <2>1. Holds(t) /\ pc[t] = "R1"
    BY <1>2, MicSteps
  <2>2. caps' = caps + 1 \/ (caps' = caps /\ (recOn' => recOn))
    <3>1. caps \in Nat /\ recOn \in BOOLEAN
      BY DEF TypeInv, TypeOK, CaptureOK
    <3>2. \/ caps' = caps + IF recOn THEN 0 ELSE 1
          \/ caps' = caps /\ recOn' = recOn
      BY <1>2 DEF Resume
    <3>3. CASE caps' = caps + IF recOn THEN 0 ELSE 1
      <4>1. CASE recOn
        BY <3>1, <3>3, <4>1
      <4>2. CASE ~recOn
        BY <3>1, <3>3, <4>2
      <4>3. QED
        BY <4>1, <4>2
    <3>4. QED
      BY <3>2, <3>3
  <2>3. QED
    BY <2>1, <2>2
<1>3. CASE ~StartCapture(t) /\ ~Resume(t)
  BY <1>3, CaptureFrame DEF StartCheck
<1>4. QED
  BY <1>1, <1>2, <1>3

\* Audio leaves the recorder when an operation that holds the control lock stops it.
LEMMA CarriesStep ==
  ASSUME TypeInv, LocksOwned, PlaceInv, NEW t \in Threads, Step(t), NEW u \in Threads, Carries(u)'
  PROVE  \/ u # t /\ Carries(u) /\ loc'[u] = loc[u]
         \/ u = t /\ recOn /\ caps' = caps /\ ~recOn' /\ loc'[u].captures = <<caps>>
<1>1. OnlyMoves(t)
  BY StepLocks DEF LockStep
<1>2. CASE u # t
  BY <1>1, <1>2 DEF OnlyMoves, Carries
<1>3. CASE u = t
  <2>1. pc'[t] \in {"P2", "Z2"} /\ loc'[t].captures # <<>>
    BY <1>3 DEF Carries
  <2>2. CASE t = "worker" /\ WorkerSteps
    BY <2>1, <2>2, WorkerOnly DEF Looping
  <2>3. CASE FinalizeStop(t)
    <3>1. caps' = caps /\ (activeId # NoId => ~recOn')
      BY <2>3 DEF FinalizeStop
    <3>2. activeId # NoId
      <4>1. SUFFICES ASSUME activeId = NoId PROVE FALSE
        OBVIOUS
      <4>2. Return(t)
        BY <2>3, <4>1 DEF FinalizeStop, Leave
      <4>3. QED
        BY <2>1, <4>2, ReturnOnly
    <3>3. \E audio \in {<<>>} \cup (IF recOn THEN {<<caps>>} ELSE {}) :
             loc' = [loc EXCEPT ![t].id = activeId, ![t].mode = ModeOf(activeId), ![t].captures = audio]
      <4>1. \/ \E audio \in {<<>>} \cup (IF recOn THEN {<<caps>>} ELSE {}) :
                 loc' = [loc EXCEPT ![t].id = activeId, ![t].mode = ModeOf(activeId), ![t].captures = audio]
            \/ Goto(t, "F1")
        BY <2>3, <3>2 DEF FinalizeStop
      <4>2. QED
        BY <2>1, <4>1, LeadsTo
    <3>4. PICK audio \in {<<>>} \cup (IF recOn THEN {<<caps>>} ELSE {}) :
             loc' = [loc EXCEPT ![t].id = activeId, ![t].mode = ModeOf(activeId), ![t].captures = audio]
      BY <3>3
    <3>5. loc'[t].captures = audio
      BY <3>4, LocalsOf DEF TypeInv, TypeOK, ThreadsOK, Locals
    <3>6. QED
      BY <1>3, <2>1, <3>1, <3>2, <3>4, <3>5
  <2>4. CASE PauseStop(t)
    <3>1. caps' = caps /\ ~Return(t)
      BY <2>1, <2>4, ReturnOnly DEF PauseStop
    <3>2. /\ recOn /\ ~recOn'
          /\ \E audio \in {<<>>, <<caps>>} : loc' = [loc EXCEPT ![t].id = activeId, ![t].captures = audio]
      BY <2>4, <3>1 DEF PauseStop, Leave
    <3>3. PICK audio \in {<<>>, <<caps>>} : loc' = [loc EXCEPT ![t].id = activeId, ![t].captures = audio]
      BY <3>2
    <3>4. loc'[t].captures = audio
      BY <3>3, LocalsOf DEF TypeInv, TypeOK, ThreadsOK, Locals
    <3>5. QED
      BY <1>3, <2>1, <3>1, <3>2, <3>3, <3>4
  <2>5. CASE ~FinalizeStop(t) /\ ~PauseStop(t) /\ ~(t = "worker" /\ WorkerSteps)
    <3>1. CASE Tends(t) \/ StartCheck(t)
      BY <2>1, <2>5, <3>1, TenderLabels, ReturnLabels DEF Tends, Tender
    <3>2. CASE ~Tends(t) /\ ~StartCheck(t)
      BY <2>1, <2>5, <3>2, CalmLabels DEF PlaceInv, Tender
    <3>3. QED
      BY <3>1, <3>2
  <2>6. QED
    BY <2>2, <2>3, <2>4, <2>5
<1>4. QED
  BY <1>2, <1>3

\* The first capture nobody has handed over only moves on.
LEMMA MarkStep ==
  ASSUME TypeInv, TypeInv', LocksOwned, PlaceInv, MicInv, NEW t \in Threads, Step(t)
  PROVE  Mark \in Nat /\ Mark' \in Nat /\ Mark <= Mark'
<1>1. caps \in Nat /\ Mark \in {caps, caps + 1} /\ caps' \in Nat /\ Mark' \in {caps', caps' + 1}
  BY OrderTypes DEF TypeInv, TypeOK, CaptureOK, Mark
<1>2. CASE Mark = caps + 1 /\ caps' = caps
  <2>1. ~recOn /\ \A u \in Threads : ~Carries(u)
    BY <1>1, <1>2 DEF Mark
  <2>2. ~recOn'
    BY <1>1, <1>2, <2>1, CapsStep
  <2>3. \A u \in Threads : ~Carries(u)'
    BY <2>1, CarriesStep
  <2>4. Mark' = caps' + 1
    BY <2>2, <2>3 DEF Mark
  <2>5. QED
    BY <1>1, <1>2, <2>4
<1>3. CASE caps' = caps + 1
  BY <1>1, <1>3
<1>4. CASE Mark = caps /\ caps' = caps
  BY <1>1, <1>4
<1>5. QED
  BY <1>1, <1>2, <1>3, <1>4, CapsStep

LEMMA HandStep ==
  ASSUME TypeInv, LocksOwned, PlaceInv, MicInv, HandOrder, NEW t \in Threads, Step(t)
  PROVE  HandOrder'
<1>1. SUFFICES ASSUME NEW u \in Threads, Carries(u)'
               PROVE  loc'[u].captures = <<caps'>>
  BY DEF HandOrder
<1>2. CASE u # t /\ Carries(u) /\ loc'[u] = loc[u]
  <2>1. Holds(u)
    BY <1>2 DEF Carries, Holds, Inside
  <2>2. ~Holds(t)
    BY <1>2, <2>1 DEF LocksOwned, CtlOwned
  <2>3. QED
    BY <1>2, <2>2, CapsStep DEF HandOrder
<1>3. CASE u = t /\ recOn /\ caps' = caps /\ ~recOn' /\ loc'[u].captures = <<caps>>
  BY <1>3
<1>4. QED
  BY <1>1, <1>2, <1>3, CarriesStep

LEMMA HandOver ==
  ASSUME TypeInv, LocksOwned, PlaceInv, MicInv, HandOrder, NEW t \in Threads, Step(t), pc[t] \in {"P2", "Z2"},
         loc[t].captures # <<>>, pc'[t] \notin {"P2", "Z2"}
  PROVE  HandsOver(t)
<1>1. Carries(t) /\ Holds(t) /\ caps \in Nat /\ loc[t].id \in Ids
  BY OrderTypes DEF Carries, Holds, Inside, TypeInv, HasId, Bound
<1>2. loc[t].captures = <<caps>> /\ [id |-> loc[t].id, captures |-> <<caps>>] \in Items
  <2>1. loc[t].captures = <<caps>>
    BY <1>1 DEF HandOrder
  <2>2. <<caps>> \in Seq(Nat)
    BY <1>1, OneCapture
  <2>3. QED
    BY <1>1, <2>1, <2>2 DEF Items, Chunks
<1>3. Mark = caps
  BY <1>1 DEF Mark
<1>4. caps' = caps /\ ~recOn'
  BY <1>1, CapsStep DEF MicInv, Still
<1>5. ASSUME NEW u \in Threads, Carries(u)' PROVE FALSE
  <2>1. CASE u # t /\ Carries(u)
    <3>1. Holds(u)
      BY <2>1 DEF Carries, Holds, Inside
    <3>2. QED
      BY <1>1, <2>1, <3>1 DEF LocksOwned, CtlOwned
  <2>2. CASE u = t
    BY <1>5, <2>2 DEF Carries
  <2>3. QED
    BY <1>5, <2>1, <2>2, CarriesStep
<1>6. Mark' = caps + 1
  BY <1>4, <1>5 DEF Mark
<1>7. QED
  BY <1>1, <1>2, <1>3, <1>6 DEF HandsOver

LEMMA PartialFlow ==
  ASSUME TypeInv, LocksOwned, PlaceInv, MicInv, HandOrder, NEW t \in Threads, Step(t)
  PROVE  \/ partialQ' \in {partialQ, <<>>}
         \/ partialQ # <<>> /\ partialQ' = Tail(partialQ)
         \/ /\ PauseQueue(t) /\ HandsOver(t)
            /\ \E q \in Seq(Items) : /\ q = partialQ \/ (partialQ # <<>> /\ q = Tail(partialQ))
                                     /\ partialQ' = Append(q, [id |-> loc[t].id, captures |-> <<caps>>])
<1>1. CASE PauseQueue(t)
  <2>1. CASE UNCHANGED partialQ
    BY <2>1
  <2>2. CASE ~UNCHANGED partialQ
    <3>1. /\ pc[t] = "P2" /\ loc[t].captures # <<>> /\ pc'[t] \notin {"P2", "Z2"}
          /\ partialQ' = Append(IF Len(partialQ) < PartialCap THEN partialQ ELSE Tail(partialQ),
                                [id |-> loc[t].id, captures |-> loc[t].captures])
      BY <1>1, <2>2, TenderLabels DEF PauseQueue
    <3>2. HandsOver(t)
      BY <3>1, HandOver
    <3>3. partialQ \in Seq(Items) /\ (partialQ # <<>> => Tail(partialQ) \in Seq(Items))
      BY OrderTypes
    <3>4. ~(Len(partialQ) < PartialCap) => partialQ # <<>>
      BY BoundsAssumption
    <3>5. QED
      BY <1>1, <3>1, <3>2, <3>3, <3>4 DEF HandsOver
  <2>3. QED
    BY <2>1, <2>2
<1>2. CASE ~PauseQueue(t)
  <2>1. ~CancelRestorePartials(t)
    BY NoCancelStep DEF PlaceInv, CancelSteps
  <2>2. QED
    BY <1>2, <2>1, PartialsShrink
<1>3. QED
  BY <1>1, <1>2

LEMMA FinalFlow ==
  ASSUME TypeInv, LocksOwned, PlaceInv, MicInv, HandOrder, NEW t \in Threads, Step(t)
  PROVE  \/ UNCHANGED finalQ
         \/ finalQ # <<>> /\ finalQ' = Tail(finalQ)
         \/ /\ FinalizeQueue(t) /\ HandsOver(t)
            /\ finalQ' = Append(finalQ, [id |-> loc[t].id, captures |-> <<caps>>])
         \/ \E q \in {finalQ, <<>>}, item \in Items : item.captures = <<>> /\ finalQ' = Append(q, item)
<1>1. CASE FinalizeQueue(t)
  <2>1. CASE UNCHANGED finalQ
    BY <2>1
  <2>2. CASE ~UNCHANGED finalQ
    <3>1. /\ pc[t] = "Z2" /\ loc[t].captures # <<>> /\ pc'[t] \notin {"P2", "Z2"}
          /\ finalQ' = Append(finalQ, [id |-> loc[t].id, captures |-> loc[t].captures])
      BY <1>1, <2>2, TenderLabels DEF FinalizeQueue
    <3>2. HandsOver(t)
      BY <3>1, HandOver
    <3>3. QED
      BY <1>1, <3>1, <3>2 DEF HandsOver
  <2>3. QED
    BY <2>1, <2>2
<1>2. CASE StopQueue(t)
  <2>1. loc[t].id \in Ids
    BY <1>2 DEF StopQueue, TypeInv, HasId, Bound
  <2>2. [id |-> loc[t].id, captures |-> <<>>] \in Items
    BY <2>1, OneCapture DEF Items, Chunks
  <2>3. \/ UNCHANGED finalQ
        \/ finalQ' = Append(finalQ, [id |-> loc[t].id, captures |-> <<>>])
    BY <1>2 DEF StopQueue
  <2>4. QED
    BY <2>2, <2>3
<1>3. CASE t = "tray" /\ ShutdownQueue
  <2>1. StopSignal \in Items /\ StopSignal.captures = <<>>
    BY DEF Items, StopSignal
  <2>2. finalQ' = Append(IF Len(finalQ) < FinalCap THEN finalQ ELSE <<>>, StopSignal)
    BY <1>3 DEF ShutdownQueue
  <2>3. QED
    BY <2>1, <2>2
<1>4. CASE t # "worker" /\ ~FinalizeQueue(t) /\ ~StopQueue(t) /\ ~(t = "tray" /\ ShutdownQueue)
  BY <1>4, FinalsSame DEF NotWorker, PlaceInv
<1>5. CASE t = "worker"
  <2>1. CASE TakeFinal
    BY <2>1 DEF TakeFinal
  <2>2. CASE TakePartial
    BY <2>2 DEF TakePartial
  <2>3. CASE WorkerSteps /\ ~TakeFinal /\ ~TakePartial
    BY <2>3, WorkerKeeps
  <2>4. CASE FailSteps(t)
    BY <2>4 DEF FailSteps, FailCheck, FailRead, FailMark, FailEnd, queues
  <2>5. QED
    BY <1>5, <2>1, <2>2, <2>3, <2>4, WorkerIs DEF PlaceInv
<1>6. QED
  BY <1>1, <1>2, <1>3, <1>4, <1>5

\* What was handed over before stays before all that a queue holds.
LEMMA FollowStep ==
  ASSUME TypeInv, LocksOwned, PlaceInv, MicInv, HandOrder, NEW t \in Threads, Step(t),
         NEW p \in Seq(Nat), Below(p, Mark), NEW id
  PROVE  /\ Follows(p, id, partialQ) => Follows(p, id, partialQ')
         /\ Follows(p, id, finalQ) => Follows(p, id, finalQ')
<1>1. partialQ \in Seq(Items) /\ finalQ \in Seq(Items)
  BY QueueTypes
<1>2. HandsOver(t) => Before(p, <<caps>>) /\ [id |-> loc[t].id, captures |-> <<caps>>] \in Items
  BY OrderTypes, SmallOrder DEF HandsOver
<1>3. ASSUME Follows(p, id, partialQ) PROVE Follows(p, id, partialQ')
  <2>1. CASE partialQ' \in {partialQ, <<>>}
    BY <1>3, <2>1, NoOrder
  <2>2. CASE partialQ # <<>> /\ partialQ' = Tail(partialQ)
    BY <1>1, <1>3, <2>2, TailOrder
  <2>3. ASSUME HandsOver(t), NEW q \in Seq(Items), q = partialQ \/ (partialQ # <<>> /\ q = Tail(partialQ)),
               partialQ' = Append(q, [id |-> loc[t].id, captures |-> <<caps>>])
        PROVE  Follows(p, id, partialQ')
    <3>1. Follows(p, id, q)
      BY <1>1, <1>3, <2>3, TailOrder
    <3>2. QED
      BY <1>2, <2>3, <3>1, AppendOrder
  <2>4. QED
    BY <2>1, <2>2, <2>3, PartialFlow
<1>4. ASSUME Follows(p, id, finalQ) PROVE Follows(p, id, finalQ')
  <2>1. CASE UNCHANGED finalQ
    BY <1>4, <2>1
  <2>2. CASE finalQ # <<>> /\ finalQ' = Tail(finalQ)
    BY <1>1, <1>4, <2>2, TailOrder
  <2>3. CASE HandsOver(t) /\ finalQ' = Append(finalQ, [id |-> loc[t].id, captures |-> <<caps>>])
    BY <1>1, <1>2, <1>4, <2>3, AppendOrder
  <2>4. ASSUME NEW q \in {finalQ, <<>>}, NEW item \in Items, item.captures = <<>>, finalQ' = Append(q, item)
        PROVE  Follows(p, id, finalQ')
    <3>1. q \in Seq(Items) /\ Follows(p, id, q)
      <4>1. CASE q = finalQ
        BY <1>1, <1>4, <4>1
      <4>2. CASE q = <<>>
        BY <4>2, NoOrder
      <4>3. QED
        BY <4>1, <4>2
    <3>2. Before(p, item.captures)
      BY <2>4, SmallOrder
    <3>3. QED
      BY <2>4, <3>1, <3>2, AppendOrder
  <2>5. QED
    BY <2>1, <2>2, <2>3, <2>4, FinalFlow
<1>5. QED
  BY <1>3, <1>4

LEMMA QueueStep ==
  ASSUME TypeInv, TypeInv', LocksOwned, PlaceInv, MicInv, HandOrder, QueueOrder, NEW t \in Threads, Step(t)
  PROVE  QueueOrder'
<1>1. partialQ \in Seq(Items) /\ finalQ \in Seq(Items) /\ caps \in Nat
  BY OrderTypes
<1>2. Mark \in Nat /\ Mark' \in Nat /\ Mark <= Mark'
  BY MarkStep
<1>3. ASSUME NEW q \in Seq(Items), Chunky(q, Mark) PROVE Chunky(q, Mark')
  <2>1. \A i \in DOMAIN q : q[i] \in Items /\ q[i].captures \in Seq(Nat)
    BY OrderTypes
  <2>2. QED
    BY <1>2, <1>3, <2>1, SmallOrder DEF Chunky
<1>4. HandsOver(t) => /\ [id |-> loc[t].id, captures |-> <<caps>>] \in Items
                      /\ Neat(<<caps>>, Mark')
  BY <1>1, SmallOrder DEF HandsOver
<1>5. Chunky(partialQ, Mark') /\ Chunky(finalQ, Mark') /\ Sorted(partialQ)
  BY <1>1, <1>3 DEF QueueOrder
<1>6. Sorted(partialQ') /\ Chunky(partialQ', Mark')
  <2>1. CASE partialQ' \in {partialQ, <<>>}
    BY <1>5, <2>1, NoOrder
  <2>2. CASE partialQ # <<>> /\ partialQ' = Tail(partialQ)
    BY <1>1, <1>5, <2>2, TailOrder
  <2>3. ASSUME HandsOver(t), NEW q \in Seq(Items), q = partialQ \/ (partialQ # <<>> /\ q = Tail(partialQ)),
               partialQ' = Append(q, [id |-> loc[t].id, captures |-> <<caps>>])
        PROVE  Sorted(partialQ') /\ Chunky(partialQ', Mark')
    <3>1. Sorted(q) /\ Chunky(q, Mark') /\ Chunky(q, caps)
      <4>1. Chunky(partialQ, caps)
        BY <2>3 DEF QueueOrder, HandsOver
      <4>2. QED
        BY <1>1, <1>5, <2>3, <4>1, TailOrder
    <3>2. \A i \in DOMAIN q : Before(q[i].captures, <<caps>>)
      BY <1>1, <3>1, SmallOrder DEF Chunky, Neat
    <3>3. QED
      BY <1>4, <2>3, <3>1, <3>2, AppendOrder
  <2>4. QED
    BY <2>1, <2>2, <2>3, PartialFlow
<1>7. Chunky(finalQ', Mark')
  <2>1. CASE UNCHANGED finalQ
    BY <1>5, <2>1
  <2>2. CASE finalQ # <<>> /\ finalQ' = Tail(finalQ)
    BY <1>1, <1>5, <2>2, TailOrder
  <2>3. CASE HandsOver(t) /\ finalQ' = Append(finalQ, [id |-> loc[t].id, captures |-> <<caps>>])
    BY <1>1, <1>4, <1>5, <2>3, AppendOrder
  <2>4. ASSUME NEW q \in {finalQ, <<>>}, NEW item \in Items, item.captures = <<>>, finalQ' = Append(q, item)
        PROVE  Chunky(finalQ', Mark')
    <3>1. q \in Seq(Items) /\ Chunky(q, Mark')
      <4>1. CASE q = finalQ
        BY <1>1, <1>5, <4>1
      <4>2. CASE q = <<>>
        BY <4>2, NoOrder
      <4>3. QED
        BY <4>1, <4>2
    <3>2. Neat(item.captures, Mark')
      BY <2>4, SmallOrder
    <3>3. QED
      BY <2>4, <3>1, <3>2, AppendOrder
  <2>5. QED
    BY <2>1, <2>2, <2>3, <2>4, FinalFlow
<1>8. QED
  BY <1>6, <1>7 DEF QueueOrder

\* A capture starts for a recording that nothing in the program knows yet.
LEMMA StartsNew ==
  ASSUME TypeInv, PastInv, NEW t \in Threads, pc[t] = "S2", NEW id, id <= Begun
  PROVE  id # loc[t].id
<1>1. Begun = gen - 1 /\ loc[t].id = gen /\ gen \in Nat
  BY IdsType DEF Begun, PastInv, Newest, TypeInv, TypeOK, CaptureOK
<1>2. QED
  BY <1>1

LEMMA AliveFlow ==
  ASSUME TypeInv, NEW t \in Threads, Step(t), NEW id \in Ids, ~(StartCapture(t) /\ loc[t].id = id)
  PROVE  (sess'[id].open => sess[id].open) /\ (sess'[id].note => sess[id].note)
  BY SessionFrame

LEMMA AliveKept ==
  ASSUME TypeInv, PastInv, PlaceInv, NEW t \in Threads, Step(t), NEW id \in Ids, id <= Begun
  PROVE  /\ (sess'[id].open => sess[id].open) /\ (sess'[id].note => sess[id].note)
         /\ Alive(id)' => Alive(id)
<1>1. ~(StartCapture(t) /\ loc[t].id = id)
  BY StartsNew DEF StartCapture
<1>2. QED
  BY <1>1, AliveFlow DEF Alive

\* Parts are added by the worker, from the chunk it has.
LEMMA PartsFlow ==
  ASSUME TypeInv, PlaceInv, NEW t \in Threads, Step(t), NEW id \in Ids
  PROVE  \/ sess'[id].parts \in {sess[id].parts, <<>>}
         \/ /\ t = "worker" /\ RecordPart /\ loc["worker"].id = id /\ sess[id].open
            /\ sess'[id].parts = sess[id].parts \o loc["worker"].captures
<1>0. sess \in [Ids -> Sessions] /\ sess[id] \in Sessions
  BY DEF TypeInv, TypeOK, SessionsOK
<1>1. CASE StartCapture(t)
  <2>1. \/ sess' = [sess EXCEPT ![loc[t].id] = [mode |-> loc[t].mode, stt |-> stt, note |-> loc[t].mode = "note",
                                               open |-> TRUE, parts |-> <<>>]]
        \/ sess' = Cleared(sess, loc[t].id)
    BY <1>1 DEF StartCapture
  <2>2. CASE sess' = Cleared(sess, loc[t].id)
    BY <1>0, <2>2 DEF Cleared, NoSession
  <2>3. CASE sess' = [sess EXCEPT ![loc[t].id] = [mode |-> loc[t].mode, stt |-> stt, note |-> loc[t].mode = "note",
                                                open |-> TRUE, parts |-> <<>>]]
    BY <1>0, <2>3
  <2>4. QED
    BY <2>1, <2>2, <2>3
<1>2. CASE t = "worker" /\ RecordPart
  <2>1. sess' = IF sess[loc["worker"].id].open
                THEN [sess EXCEPT ![loc["worker"].id].parts = @ \o loc["worker"].captures] ELSE sess
    BY <1>2 DEF RecordPart
  <2>2. CASE loc["worker"].id = id /\ sess[id].open
    BY <1>0, <1>2, <2>1, <2>2 DEF Sessions
  <2>3. CASE ~(loc["worker"].id = id /\ sess[id].open)
    BY <1>0, <2>1, <2>3
  <2>4. QED
    BY <2>2, <2>3
<1>3. CASE ~StartCapture(t) /\ ~(t = "worker" /\ RecordPart)
  BY <1>3, StepShrinks DEF Shrinks, PlaceInv
<1>4. QED
  BY <1>1, <1>2, <1>3

\* Lines are added to the file of segments by the worker, while the note is there.
LEMMA SegsFlow ==
  ASSUME TypeInv, PlaceInv, NEW t \in Threads, Step(t), NEW id \in Ids
  PROVE  \/ segs'[id] = segs[id]
         \/ /\ t = "worker" /\ RecordSegment /\ loc["worker"].id = id /\ sess[id].note
            /\ segs'[id] = segs[id] \o loc["worker"].captures /\ UNCHANGED <<sess, queues>>
<1>0. segs \in [Ids -> Seq(Nat)]
  BY DEF TypeInv, TypeOK, NotesOK
<1>1. CASE t = "worker" /\ RecordSegment
  <2>1. UNCHANGED <<sess, queues>>
    BY <1>1 DEF RecordSegment, sessions
  <2>2. CASE UNCHANGED segs
    BY <2>2
  <2>3. CASE ~UNCHANGED segs
    <3>1. /\ sess[loc["worker"].id].note
          /\ segs' = [segs EXCEPT ![loc["worker"].id] = @ \o loc["worker"].captures]
      BY <1>1, <2>3 DEF RecordSegment
    <3>2. QED
      BY <1>0, <1>1, <2>1, <3>1
  <2>4. QED
    BY <2>2, <2>3
<1>2. CASE StartSteps(t) \/ FinalizeSteps(t) \/ PauseSteps(t) \/ ResumeSteps(t) \/ StartNote(t) \/ Toggle(t)
  BY <1>2 DEF StartSteps, StartLock, StartCheck, StartCapture, FinalizeSteps, FinalizeLock, FinalizeStop,
     FinalizeQueue, FinalizeEnd, FinalizeFailed, PauseSteps, PauseLock, PauseStop, PauseQueue, PauseEnd,
     ResumeSteps, ResumeLock, Resume, StartNote, Toggle, Acquire, notes
<1>3. CASE StopSteps(t) \/ FailSteps(t) \/ CleanupSteps \/ ShutdownSteps
  BY <1>3 DEF StopSteps, StopLock, StopCheck, StopPaused, StopQueue, StopEnd, FailSteps, FailCheck, FailRead,
     FailMark, FailEnd, CleanupSteps, CleanupLock, CleanupStop, CleanupEnd, ShutdownSteps, ShutdownHotkey,
     ShutdownQueue, Acquire, notes
<1>4. CASE t = "worker" /\ WorkerSteps /\ ~RecordSegment
  BY <1>4 DEF WorkerSteps, TakePartial, TakeFinal, Handle, DecodeStart, DecodeEnd, RecordGuard,
     RecordPart, SessionCheck, SessionEmpty, SessionComplete, SessionType, SessionSave, notes
<1>5. QED
  BY <1>1, <1>2, <1>3, <1>4, NoCancelStep DEF Step, PlaceInv

\* Text is delivered by the worker, from what it read or from the file of segments.
LEMMA TextFlow ==
  ASSUME TypeInv, PlaceInv, NEW t \in Threads, Step(t), NEW id \in Ids
  PROVE  \/ text'[id] \in {text[id], segs[id]}
         \/ pc["worker"] = "E4" /\ text'[id] = loc["worker"].said
<1>0. text \in [Ids -> Seq(Nat)]
  BY DEF TypeInv, TypeOK, OutcomeOK
<1>1. CASE t = "worker" /\ SessionType
  BY <1>0, <1>1 DEF SessionType
<1>2. CASE t = "worker" /\ SessionSave
  BY <1>0, <1>2 DEF SessionSave, NoteText
<1>3. CASE StartSteps(t) \/ FinalizeSteps(t) \/ PauseSteps(t) \/ ResumeSteps(t) \/ StartNote(t) \/ Toggle(t)
  BY <1>3 DEF StartSteps, StartLock, StartCheck, StartCapture, FinalizeSteps, FinalizeLock, FinalizeStop,
     FinalizeQueue, FinalizeEnd, FinalizeFailed, PauseSteps, PauseLock, PauseStop, PauseQueue, PauseEnd,
     ResumeSteps, ResumeLock, Resume, StartNote, Toggle, Acquire, outcome
<1>4. CASE StopSteps(t) \/ FailSteps(t) \/ CleanupSteps \/ ShutdownSteps
  BY <1>4 DEF StopSteps, StopLock, StopCheck, StopPaused, StopQueue, StopEnd, FailSteps, FailCheck, FailRead,
     FailMark, FailEnd, CleanupSteps, CleanupLock, CleanupStop, CleanupEnd, ShutdownSteps, ShutdownHotkey,
     ShutdownQueue, Acquire, outcome
<1>5. CASE t = "worker" /\ WorkerSteps /\ ~SessionType /\ ~SessionSave
  BY <1>5 DEF WorkerSteps, TakePartial, TakeFinal, Handle, DecodeStart, DecodeEnd, RecordGuard,
     RecordSegment, RecordPart, SessionCheck, SessionEmpty, SessionComplete, outcome
<1>6. QED
  BY <1>1, <1>2, <1>3, <1>4, <1>5, NoCancelStep DEF Step, PlaceInv

LEMMA TextStep ==
  ASSUME TypeInv, TypeInv', LocksOwned, PlaceInv, MicInv, TextOrder, SaidOrder, WorkOrder, NEW t \in Threads, Step(t)
  PROVE  TextOrder'
<1>1. Mark \in Nat /\ Mark' \in Nat /\ Mark <= Mark'
  BY MarkStep
<1>2. loc["worker"].captures \in Seq(Nat)
  BY OrderTypes, WorkersAreThreads
<1>3. ASSUME NEW id \in Ids PROVE Neat(sess'[id].parts, Mark') /\ Neat(segs'[id], Mark') /\ Rising(text'[id])
  <2>1. /\ sess[id].parts \in Seq(Nat) /\ Neat(sess[id].parts, Mark)
        /\ segs[id] \in Seq(Nat) /\ Neat(segs[id], Mark) /\ Rising(text[id])
    BY OrderTypes DEF TextOrder
  <2>2. ASSUME NEW p \in Seq(Nat), Neat(p, Mark), Neat(loc["worker"].captures, Mark), Before(p, loc["worker"].captures)
        PROVE  Neat(p \o loc["worker"].captures, Mark')
    <3>1. p \o loc["worker"].captures \in Seq(Nat) /\ Neat(p \o loc["worker"].captures, Mark)
      BY <1>1, <1>2, <2>2, JoinOrder, ConcatType DEF Neat
    <3>2. QED
      BY <1>1, <3>1, SmallOrder
  <2>3. Neat(sess'[id].parts, Mark')
    <3>1. CASE sess'[id].parts \in {sess[id].parts, <<>>}
      BY <1>1, <2>1, <3>1, SmallOrder
    <3>2. CASE /\ RecordPart /\ loc["worker"].id = id /\ sess[id].open
               /\ sess'[id].parts = sess[id].parts \o loc["worker"].captures
      <4>1. pc["worker"] \in Decoding
        BY <3>2 DEF RecordPart, Decoding
      <4>2. Neat(loc["worker"].captures, Mark) /\ Before(sess[id].parts, loc["worker"].captures)
        BY <3>2, <4>1 DEF WorkOrder
      <4>3. QED
        BY <2>1, <2>2, <3>2, <4>2
    <3>3. QED
      BY <3>1, <3>2, PartsFlow
  <2>4. Neat(segs'[id], Mark')
    <3>1. CASE segs'[id] = segs[id]
      BY <1>1, <2>1, <3>1, SmallOrder
    <3>2. CASE /\ RecordSegment /\ loc["worker"].id = id /\ sess[id].note
               /\ segs'[id] = segs[id] \o loc["worker"].captures
      <4>1. pc["worker"] \in Storing /\ pc["worker"] \in Decoding
        BY <3>2 DEF RecordSegment, Decoding, Storing
      <4>2. Neat(loc["worker"].captures, Mark) /\ Before(segs[id], loc["worker"].captures)
        BY <3>2, <4>1 DEF WorkOrder
      <4>3. QED
        BY <2>1, <2>2, <3>2, <4>2
    <3>3. QED
      BY <3>1, <3>2, SegsFlow
  <2>5. Rising(text'[id])
    BY <2>1, TextFlow DEF Neat, SaidOrder
  <2>6. QED
    BY <2>3, <2>4, <2>5
<1>4. QED
  BY <1>3 DEF TextOrder

\* Where the worker is after a step, and what it still holds.
LEMMA WorkerStays ==
  ASSUME TypeInv, LocksOwned, PlaceInv, NEW t \in Threads, Step(t)
  PROVE  /\ t # "worker" => pc'["worker"] = pc["worker"] /\ loc'["worker"] = loc["worker"]
         /\ t = "worker" => \/ WorkerSteps
                            \/ FailSteps("worker") /\ pc["worker"] \in Handler
                               /\ pc'["worker"] \in {"W0", "E1"} \cup Handler
<1>1. "worker" \in Threads /\ OnlyMoves(t)
  BY StepLocks, WorkersAreThreads DEF LockStep
<1>2. t # "worker" => pc'["worker"] = pc["worker"] /\ loc'["worker"] = loc["worker"]
  BY <1>1 DEF OnlyMoves
<1>3. ASSUME FailSteps("worker") PROVE pc["worker"] \in Handler /\ pc'["worker"] \in {"W0", "E1"} \cup Handler
  <2>1. pc["worker"] \in Handler
    BY <1>3 DEF FailSteps, FailCheck, FailRead, FailMark, FailEnd, Handler
  <2>2. QED
    BY <1>1, <1>3, <2>1, FailKeepsFinal DEF PlaceInv, WorkerAt
<1>4. QED
  BY <1>2, <1>3, WorkerIs DEF PlaceInv

LEMMA SaidStep ==
  ASSUME TypeInv, LocksOwned, PlaceInv, TextOrder, SaidOrder, NEW t \in Threads, Step(t)
  PROVE  SaidOrder'
<1> DEFINE w == "worker"
<1>0. w \in Threads /\ loc[w] \in Locals
  BY WorkersAreThreads, LocalsOf
<1>1. SUFFICES ASSUME pc'[w] \in {"E2", "E3", "E4"} PROVE Rising(loc'[w].said)
  BY DEF SaidOrder
<1>2. CASE t # w
  BY <1>1, <1>2, WorkerStays DEF SaidOrder
<1>3. CASE SessionCheck
  <2>1. ~Loop(w)
    BY <1>0, <1>1, LoopOnly
  <2>2. loc' = [loc EXCEPT !["worker"].said = sess[loc["worker"].id].parts]
    BY <1>3, <2>1 DEF SessionCheck
  <2>3. loc'[w].said = sess[loc[w].id].parts
    BY <1>0, <2>2 DEF Locals, TypeInv, TypeOK, ThreadsOK
  <2>4. loc[w].id \in Ids
    BY <1>0, <1>3 DEF SessionCheck, TypeInv, HasId, Bound
  <2>5. QED
    BY <2>3, <2>4 DEF TextOrder, Neat
<1>4. CASE SessionComplete
  <2>1. loc'[w].said = loc[w].said /\ pc[w] = "E3"
    BY <1>0, <1>4 DEF SessionComplete, Locals, TypeInv, TypeOK, ThreadsOK
  <2>2. QED
    BY <2>1 DEF SaidOrder
<1>5. CASE t = w /\ ~SessionCheck /\ ~SessionComplete
  <2>1. CASE WorkerSteps
    <3>1. \E label : label \notin {"E2", "E3", "E4"} /\ Goto(w, label)
      BY <1>5, <2>1 DEF WorkerSteps, TakePartial, TakeFinal, Handle, HandleEmpty, DecodeStart,
         DecodeEnd, RecordGuard, RecordSegment, RecordPart, SessionEmpty,
         SessionType, SessionSave, GiveUp, Loop, Fail
    <3>2. QED
      BY <1>0, <1>1, <3>1, LeadsTo
  <2>2. CASE pc'[w] \in {"W0", "E1"} \cup Handler
    BY <1>1, <2>2 DEF Handler
  <2>3. QED
    BY <1>5, <2>1, <2>2, WorkerStays
<1>6. QED
  BY <1>2, <1>3, <1>4, <1>5

LEMMA NotEndedStep ==
  ASSUME TypeInv, LocksOwned, PlaceInv, MicInv, EndInv, HandOrder, NotEnded, NEW t \in Threads, Step(t)
  PROVE  NotEnded'
<1>0. OnlyMoves(t) /\ finalQ \in Seq(Items)
  BY StepLocks, QueueTypes DEF LockStep
<1>1. SUFFICES ASSUME NEW u \in Threads, pc'[u] = "P2"
               PROVE  \A i \in DOMAIN finalQ' : finalQ'[i].id = loc'[u].id => finalQ'[i].captures = <<>>
  BY DEF NotEnded
<1>2. CASE u = t
  <2>1. PauseStop(t) /\ recOn
    BY <1>1, <1>2, Pausing, TenderLabels
  <2>2. ~Return(t)
    BY <1>1, <1>2, ReturnOnly
  <2>3. activeId # NoId /\ \E audio : loc' = [loc EXCEPT ![t].id = activeId, ![t].captures = audio]
    BY <2>1, <2>2 DEF PauseStop, Leave
  <2>4. loc'[t].id = activeId /\ activeId \in Ids
    BY <2>3, LocalsOf DEF Locals, TypeInv, TypeOK, ThreadsOK, CaptureOK, IdOrNone
  <2>5. ~Queued(activeId)
    BY <2>1, <2>4 DEF EndInv, OverQuiet, Over
  <2>6. UNCHANGED finalQ
    BY <2>1 DEF PauseStop, queues
  <2>7. QED
    BY <1>2, <2>4, <2>5, <2>6 DEF Queued
<1>3. CASE u # t
  <2>1. pc[u] = "P2" /\ loc'[u] = loc[u] /\ Holds(u)
    BY <1>0, <1>1, <1>3 DEF OnlyMoves, Holds, Inside
  <2>2. \A i \in DOMAIN finalQ : finalQ[i].id = loc[u].id => finalQ[i].captures = <<>>
    BY <2>1 DEF NotEnded
  <2>3. ~FinalizeQueue(t)
    <3>1. ~Holds(t)
      BY <1>3, <2>1 DEF LocksOwned, CtlOwned
    <3>2. QED
      BY <3>1 DEF FinalizeQueue, Holds, Inside
  <2>4. CASE UNCHANGED finalQ
    BY <2>1, <2>2, <2>4
  <2>5. CASE finalQ # <<>> /\ finalQ' = Tail(finalQ)
    BY <1>0, <2>1, <2>2, <2>5, TailOrder
  <2>6. ASSUME NEW q \in {finalQ, <<>>}, NEW item \in Items, item.captures = <<>>, finalQ' = Append(q, item)
        PROVE  \A i \in DOMAIN finalQ' : finalQ'[i].id = loc'[u].id => finalQ'[i].captures = <<>>
    <3>1. q \in Seq(Items) /\ \A i \in DOMAIN q : q[i].id = loc[u].id => q[i].captures = <<>>
      <4>1. CASE q = finalQ
        BY <1>0, <2>2, <4>1
      <4>2. CASE q = <<>>
        BY <4>2
      <4>3. QED
        BY <4>1, <4>2
    <3>2. QED
      BY <2>1, <2>6, <3>1, AppendOrder
  <2>7. QED
    BY <2>3, <2>4, <2>5, <2>6, FinalFlow
<1>4. QED
  BY <1>2, <1>3

\* Nothing is left of a session that is cleared.
LEMMA ClearedDead ==
  ASSUME TypeInv, NEW id \in Ids, sess' = Cleared(sess, id)
  PROVE  ~Alive(id)'
  BY DEF TypeInv, TypeOK, SessionsOK, Cleared, NoSession, Alive

LEMMA DeadTaken ==
  ASSUME TypeInv, LocksOwned, PlaceInv, DeadStays, NEW t \in Threads, Step(t), NEW id \in Ids, Failed(id)', Alive(id)'
  PROVE  pc'["worker"] = "E4" /\ loc'["worker"].id = id
<1> DEFINE w == "worker"
<1>0. sess \in [Ids -> Sessions] /\ w \in Threads
  BY WorkersAreThreads DEF TypeInv, TypeOK, SessionsOK
<1>1. ~(StartCapture(t) /\ loc[t].id = id)
  BY DEF StartCapture, Failed
<1>2. Alive(id)
  BY <1>1, AliveFlow DEF Alive
<1>3. CASE Failed(id)
  <2>1. pc[w] = "E4" /\ loc[w].id = id
    BY <1>2, <1>3 DEF DeadStays
  <2>2. CASE t # w
    BY <2>1, <2>2, WorkerStays
  <2>3. CASE t = w
    <3>1. WorkerSteps
      BY <2>1, <2>3, WorkerStays DEF Handler
    <3>2. SessionType \/ SessionSave
      BY <2>1, <3>1 DEF WorkerSteps, TakePartial, TakeFinal, Handle, DecodeStart, DecodeEnd, RecordGuard,
         RecordSegment, RecordPart, SessionCheck, SessionEmpty, SessionComplete
    <3>3. ~SessionType
      BY <1>2, <2>1 DEF SessionType, DeadStays
    <3>4. sess' = Cleared(sess, id)
      BY <2>1, <3>2, <3>3 DEF SessionSave
    <3>5. QED
      BY <3>4, ClearedDead
  <2>4. QED
    BY <2>2, <2>3
<1>4. CASE ~Failed(id)
  <2>1. ~CancelMark(t) /\ ~StartCapture(t)
    <3>1. ~CancelMark(t)
      BY NoCancelStep DEF PlaceInv, CancelSteps
    <3>2. ~StartCapture(t)
      BY <1>4 DEF StartCapture, Failed
    <3>3. QED
      BY <3>1, <3>2
  <2>2. FailMark(t) \/ (t = w /\ SessionComplete)
    BY <1>4, <2>1, TerminalKept DEF Failed
  <2>3. CASE FailMark(t)
    <3>1. Remember(loc[t].id) /\ pc[t] = "F3"
      BY <2>3 DEF FailMark
    <3>2. loc[t].id = id
      BY <1>4, <3>1, RememberIds DEF Failed
    <3>3. ~sess[id].note
      BY <3>1, <3>2 DEF DeadStays
    <3>4. CASE loc[t].active
      BY <1>0, <2>3, <3>2, <3>3, <3>4 DEF FailMark, Alive, Sessions
    <3>5. CASE ~loc[t].active
      BY <2>3, <3>2, <3>5, ClearedDead DEF FailMark
    <3>6. QED
      BY <3>4, <3>5
  <2>4. CASE t = w /\ SessionComplete
    <3>1. Remember(loc[w].id)
      BY <1>4, <2>4 DEF SessionComplete, Failed
    <3>2. loc[w].id = id
      BY <1>4, <3>1, RememberIds DEF Failed
    <3>3. pc'[w] = "E4" /\ loc'[w].id = loc[w].id
      BY <1>0, <2>4, LeadsTo, LocalsOf DEF SessionComplete, Locals, TypeInv, TypeOK, ThreadsOK
    <3>4. QED
      BY <3>2, <3>3
  <2>5. QED
    BY <2>2, <2>3, <2>4
<1>5. QED
  BY <1>3, <1>4

LEMMA DeadFails ==
  ASSUME TypeInv, LocksOwned, PastInv, PlaceInv, DeadStays, NEW t \in Threads, Step(t),
         NEW u \in Threads, pc'[u] \in {"F2", "F3", "F4"}
  PROVE  ~sess'[loc'[u].id].note /\ (pc'[u] = "F4" => ~sess'[loc'[u].id].open)
<1>0. sess \in [Ids -> Sessions] /\ OnlyMoves(t)
  BY StepLocks DEF TypeInv, TypeOK, SessionsOK, LockStep
<1>1. CASE u # t
  <2>1. pc'[u] = pc[u] /\ loc'[u] = loc[u]
    BY <1>0, <1>1 DEF OnlyMoves
  <2>2. loc[u].id \in Ids /\ loc[u].id <= Begun
    BY <2>1 DEF TypeInv, HasId, Bound, PastInv, PastAt
  <2>3. ~sess[loc[u].id].note /\ (pc[u] = "F4" => ~sess[loc[u].id].open)
    BY <2>1 DEF DeadStays
  <2>4. QED
    BY <2>1, <2>2, <2>3, AliveKept
<1>2. CASE u = t
  <2>1. FailSteps(t)
    <3>1. ~(t = "worker" /\ WorkerSteps)
      BY <1>2, WorkerOnly DEF Looping
    <3>2. QED
      BY <1>2, <3>1, Reaches, TenderLabels DEF Handler
  <2>2. pc'[t] # loc[t].ret /\ pc[t] \in Handler
    BY <1>2, <2>1, ReturnLabels DEF Tender, FailSteps, FailCheck, FailRead, FailMark, FailEnd, Handler
  <2>3. loc'[t].id = loc[t].id /\ loc[t].id \in Ids
    BY <1>2, <2>1, <2>2, FailKeepsId DEF TypeInv, HasId, Bound, Handler
  <2>4. CASE FailCheck(t)
    <3>1. pc'[t] = "F2" /\ ~FailReturn(t)
      BY <2>2, <2>4, TenderLabels, FailReturnOnly
    <3>2. sess' = [sess EXCEPT ![loc[t].id].note = FALSE]
      BY <2>4, <3>1 DEF FailCheck
    <3>3. QED
      BY <1>0, <1>2, <2>3, <3>1, <3>2 DEF Sessions
  <2>5. CASE FailRead(t)
    <3>1. pc[t] = "F2" /\ pc'[t] = "F3" /\ UNCHANGED sess
      BY <2>5, TenderLabels DEF FailRead, sessions
    <3>2. QED
      BY <1>2, <2>3, <3>1 DEF DeadStays
  <2>6. CASE FailMark(t)
    <3>1. ~sess[loc[t].id].note
      BY <2>6 DEF FailMark, DeadStays
    <3>2. CASE loc[t].active
      BY <1>0, <1>2, <2>3, <2>6, <3>1, <3>2 DEF FailMark, Sessions
    <3>3. CASE ~loc[t].active
      BY <1>2, <2>3, <2>6, <3>3, ClearedDead DEF FailMark, Alive
    <3>4. QED
      BY <3>2, <3>3
  <2>7. CASE FailEnd(t)
    BY <2>2, <2>7, TenderLabels
  <2>8. QED
    BY <2>1, <2>4, <2>5, <2>6, <2>7 DEF FailSteps
<1>3. QED
  BY <1>1, <1>2

LEMMA DeadTyped ==
  ASSUME TypeInv, LocksOwned, PastInv, PlaceInv, DeadStays, NEW t \in Threads, Step(t),
         pc'["worker"] = "E4", loc'["worker"].mode # "note"
  PROVE  ~Alive(loc["worker"].id)' /\ loc'["worker"].id = loc["worker"].id
<1> DEFINE w == "worker"
<1>0. w \in Threads /\ loc[w] \in Locals
  BY WorkersAreThreads, LocalsOf
<1>1. CASE t # w
  <2>1. pc'[w] = pc[w] /\ loc'[w] = loc[w]
    BY <1>1, WorkerStays
  <2>2. loc[w].id \in Ids /\ loc[w].id <= Begun
    BY <1>0, <2>1 DEF TypeInv, HasId, Bound, PastInv, PastAt
  <2>3. ~Alive(loc[w].id)
    BY <2>1 DEF DeadStays
  <2>4. QED
    BY <2>1, <2>2, <2>3, AliveKept DEF Alive
<1>2. CASE t = w
  <2>1. WorkerSteps
    BY <1>2, WorkerStays DEF Handler
  <2>2. SessionComplete
    <3>1. CASE SessionCheck
      <4>1. \E label : label # "E4" /\ Goto(w, label)
        BY <3>1 DEF SessionCheck, Loop
      <4>2. QED
        BY <1>0, <4>1, LeadsTo
    <3>2. CASE ~SessionCheck /\ ~SessionComplete
      <4>1. \E label : label # "E4" /\ Goto(w, label)
        BY <2>1, <3>2 DEF WorkerSteps, TakePartial, TakeFinal, Handle, HandleEmpty, DecodeStart,
           DecodeEnd, RecordGuard, RecordSegment, RecordPart, SessionEmpty,
           SessionType, SessionSave, GiveUp, Loop, Fail
      <4>2. QED
        BY <1>0, <4>1, LeadsTo
    <3>3. QED
      BY <3>1, <3>2
  <2>3. loc'[w].id = loc[w].id /\ loc'[w].mode = ModeOf(loc[w].id) /\ loc[w].id \in Ids
    BY <1>0, <2>2 DEF SessionComplete, Locals, TypeInv, TypeOK, ThreadsOK, HasId, Bound
  <2>4. sess' = Cleared(sess, loc[w].id)
    BY <2>2, <2>3 DEF SessionComplete
  <2>5. QED
    BY <2>3, <2>4, ClearedDead
<1>3. QED
  BY <1>1, <1>2

LEMMA DeadStep ==
  ASSUME TypeInv, LocksOwned, PastInv, PlaceInv, DeadStays, NEW t \in Threads, Step(t)
  PROVE  DeadStays'
<1>1. \A id \in Ids : Failed(id)' /\ Alive(id)' => pc'["worker"] = "E4" /\ loc'["worker"].id = id
  BY DeadTaken
<1>2. \A u \in Threads : /\ pc'[u] \in {"F2", "F3", "F4"} => ~sess'[loc'[u].id].note
                         /\ pc'[u] = "F4" => ~sess'[loc'[u].id].open
  BY DeadFails
<1>3. pc'["worker"] = "E4" /\ loc'["worker"].mode # "note" =>
        ~sess'[loc'["worker"].id].open /\ ~sess'[loc'["worker"].id].note
  BY DeadTyped DEF Alive
<1>4. QED
  BY <1>1, <1>2, <1>3 DEF DeadStays, Alive, Failed

\* When the worker leaves a recording that it was to end, nothing is left of it.
LEMMA EndsKept ==
  ASSUME TypeInv, LocksOwned, PlaceInv, DeadStays, NEW t \in Threads, Step(t),
         NEW id \in Ids, Ends(id), ~Ends(id)'
  PROVE  ~Alive(id)'
<1> DEFINE w == "worker"
<1>0. /\ w \in Threads /\ pc[w] \in Working /\ loc[w].final /\ loc[w].id = id /\ loc[w] \in Locals
      /\ (Failed(id) /\ pc[w] # "E4" => ~Alive(id))
  BY WorkersAreThreads, LocalsOf DEF Ends, DeadStays
<1>1. t = w
  BY WorkerStays DEF Ends
<1>2. CASE sess' = Cleared(sess, id)
  BY <1>2, ClearedDead
<1>3. CASE UNCHANGED sess /\ ~Alive(id)
  BY <1>3 DEF Alive
<1>4. CASE FailSteps(w)
  <2>1. pc'[w] = "W0" /\ loc[w].ret = "W0"
    <3>1. pc[w] \in Handler /\ loc[w].ret \in {"W0", "E1"}
      <4>1. pc[w] \in Handler
        BY <1>4 DEF FailSteps, FailCheck, FailRead, FailMark, FailEnd, Handler
      <4>2. QED
        BY <4>1 DEF PlaceInv, WorkerAt
    <3>2. pc'[w] # "W0" => loc'[w].id = id
      BY <1>0, <1>4, FailKeepsId
    <3>3. ~(pc'[w] \in {"E1"} \cup Handler /\ loc'[w].final)
      BY <3>2 DEF Ends, Working, Handler
    <3>4. \/ pc'[w] = loc[w].ret /\ (loc[w].ret # "W0" => loc'[w].final = loc[w].final)
          \/ pc'[w] \in Handler /\ loc'[w].final = loc[w].final
      BY <1>0, <1>4, FailKeepsFinal
    <3>5. QED
      BY <1>0, <3>1, <3>3, <3>4
  <2>2. CASE FailCheck(w)
    <3>1. Failed(id) /\ pc[w] = "F1" /\ UNCHANGED sess
      <4>1. ~Goto(w, "F2")
        BY <1>0, <2>1, LeadsTo
      <4>2. QED
        BY <1>0, <2>2, <4>1 DEF FailCheck
    <3>2. QED
      BY <1>0, <1>3, <3>1
  <2>3. CASE FailEnd(w)
    <3>1. ~sess[id].open /\ ~sess[id].note
      BY <1>0, <2>3 DEF FailEnd, DeadStays
    <3>2. UNCHANGED sess \/ sess' = Cleared(sess, id)
      BY <1>0, <2>3 DEF FailEnd
    <3>3. QED
      BY <1>2, <1>3, <3>1, <3>2 DEF Alive
  <2>4. CASE FailRead(w) \/ FailMark(w)
    BY <1>0, <2>1, <2>4, TenderLabels
  <2>5. QED
    BY <1>4, <2>2, <2>3, <2>4 DEF FailSteps
<1>5. CASE WorkerSteps
  <2>1. ~TakePartial /\ ~TakeFinal
    BY <1>0 DEF TakePartial, TakeFinal, Working
  <2>2. pc'[w] = "W0"
    <3>1. CASE loc'[w].id = loc[w].id /\ loc'[w].final = loc[w].final
      <4>1. pc'[w] \in {"W0", "W1", "exited"}
        BY <1>0, <1>5, <3>1, WorkerOnly DEF Ends, Working, Looping
      <4>2. \E label : label \notin {"W1", "exited"} /\ Goto(w, label)
        BY <1>5, <2>1 DEF WorkerSteps, Handle, HandleEmpty, DecodeStart, DecodeEnd, RecordGuard, RecordSegment,
           RecordPart, SessionCheck, SessionEmpty, SessionComplete, SessionType, SessionSave, GiveUp, Loop, Fail
      <4>3. QED
        BY <1>0, <4>1, <4>2, LeadsTo
    <3>2. QED
      BY <1>5, <2>1, <3>1, WorkerKeeps
  <2>3. \A label : Goto(w, label) => label = "W0"
    BY <1>0, <2>2, LeadsTo
  <2>4. CASE Handle
    <3>1. Failed(id) /\ pc[w] = "H1" /\ UNCHANGED sess
      BY <1>0, <2>3, <2>4 DEF Handle, HandleEmpty, sessions
    <3>2. QED
      BY <1>0, <1>3, <3>1
  <2>5. CASE DecodeStart \/ DecodeEnd \/ RecordGuard \/ RecordSegment \/ RecordPart \/ SessionComplete
    BY <1>0, <2>3, <2>5 DEF DecodeStart, DecodeEnd, RecordGuard, RecordSegment, RecordPart, SessionComplete, Fail
  <2>6. CASE SessionCheck
    BY <1>0, <1>2, <2>3, <2>6 DEF SessionCheck
  <2>7. CASE SessionEmpty \/ SessionSave
    BY <1>0, <1>2, <2>7 DEF SessionEmpty, SessionSave
  <2>8. CASE SessionType
    BY <1>0, <1>3, <2>8 DEF SessionType, DeadStays, sessions
  <2>9. QED
    BY <1>5, <2>1, <2>4, <2>5, <2>6, <2>7, <2>8 DEF WorkerSteps
<1>6. QED
  BY <1>1, <1>4, <1>5, WorkerStays

LEMMA GoingKept ==
  ASSUME TypeInv, LocksOwned, PlaceInv, DeadStays, NEW t \in Threads, Step(t), NEW id \in Ids, Going(id)',
         ~(StartCapture(t) /\ loc[t].id = id)
  PROVE  Going(id)
<1>1. Alive(id)' /\ ~Ends(id)'
  BY DEF Going
<1>2. Alive(id)
  BY <1>1, AliveFlow DEF Alive
<1>3. ~Ends(id)
  BY <1>1, EndsKept
<1>4. QED
  BY <1>2, <1>3 DEF Going

\* The worker goes on with the chunk it has.
LEMMA DecodeGoes ==
  ASSUME TypeInv, WorkerSteps, pc'["worker"] \in Decoding, ~TakePartial, ~TakeFinal
  PROVE  /\ pc["worker"] \in Decoding /\ loc' = loc /\ UNCHANGED <<sess, queues>>
         /\ pc'["worker"] \in Storing => pc["worker"] \in Storing /\ UNCHANGED segs
<1> DEFINE w == "worker"
<1>0. w \in Threads
  BY WorkersAreThreads
<1>1. \A label : Goto(w, label) => label = pc'[w] /\ label \in Decoding
  BY <1>0, LeadsTo
<1>2. /\ ~Goto(w, "W0") /\ ~Goto(w, "F1") /\ ~Goto(w, "E1") /\ ~Goto(w, "E2") /\ ~Goto(w, "E3") /\ ~Goto(w, "E4")
      /\ ~Loop(w) /\ \A id, hard, ret : ~Fail(w, id, hard, ret)
  <2>1. \A label : Goto(w, label) => label \notin {"W0", "F1", "E1", "E2", "E3", "E4"}
    BY <1>1 DEF Decoding
  <2>2. ~Goto(w, "W0") /\ ~Goto(w, "F1") /\ ~Goto(w, "E1") /\ ~Goto(w, "E2") /\ ~Goto(w, "E3") /\ ~Goto(w, "E4")
    BY <2>1
  <2>3. QED
    BY <2>2 DEF Loop, Fail
<1>3. CASE Handle \/ DecodeStart \/ DecodeEnd \/ RecordGuard
  <2>1. pc[w] \in Storing /\ pc[w] \in Decoding /\ loc' = loc /\ UNCHANGED <<sess, queues, segs>>
    BY <1>1, <1>2, <1>3 DEF Handle, HandleEmpty, DecodeStart, DecodeEnd, RecordGuard, Decoding, Storing,
       sessions, notes
  <2>2. QED
    BY <2>1
<1>4. CASE RecordSegment
  <2>1. pc[w] = "H5" /\ loc' = loc /\ UNCHANGED <<sess, queues>> /\ Goto(w, "H6")
    BY <1>2, <1>4 DEF RecordSegment, sessions
  <2>2. QED
    BY <1>1, <2>1 DEF Decoding, Storing
<1>5. CASE RecordPart \/ SessionCheck \/ SessionEmpty \/ SessionComplete \/ SessionType \/ SessionSave
  BY <1>2, <1>5 DEF RecordPart, SessionCheck, SessionEmpty, SessionComplete, SessionType, SessionSave, GiveUp
<1>6. QED
  BY <1>3, <1>4, <1>5 DEF WorkerSteps

\* The chunk the worker takes comes after all that is stored of the recording.
LEMMA TakeOrder ==
  ASSUME TypeInv, QueueOrder, \A id \in Ids : StoreOrder(id), TakePartial \/ TakeFinal, pc'["worker"] \in Decoding
  PROVE  WorkOrder'
<1> DEFINE w  == "worker"
           me == loc'["worker"]
<1>0. w \in Threads /\ partialQ \in Seq(Items) /\ finalQ \in Seq(Items) /\ loc \in [Threads -> Locals]
  BY WorkersAreThreads, QueueTypes DEF TypeInv, TypeOK, ThreadsOK
<1>1. UNCHANGED <<sess, segs, recOn, caps>> /\ pc[w] \in {"W0", "W1"}
  BY DEF TakePartial, TakeFinal, sessions, notes, capture
<1>2. \A u \in Threads : Carries(u)' <=> Carries(u)
  <2>1. \A u \in Threads \ {w} : pc'[u] = pc[u] /\ loc'[u] = loc[u]
    BY WorkerOnly DEF WorkerSteps, OnlyMoves
  <2>2. ~Carries(w) /\ ~Carries(w)'
    BY <1>1 DEF Carries, Decoding
  <2>3. QED
    BY <2>1, <2>2 DEF Carries
<1>3. Mark' = Mark
  BY <1>1, <1>2 DEF Mark
<1>4. \A id \in Ids : ~Ends(id)
  BY <1>1 DEF Ends, Working
<1>5. ASSUME NEW id \in Ids, Alive(id)
      PROVE  /\ \A q \in {partialQ, finalQ} : Follows(sess[id].parts, id, q) /\ Follows(segs[id], id, q)
             /\ \A i \in DOMAIN partialQ : partialQ[i].id = id => Follows(partialQ[i].captures, id, finalQ)
  BY <1>4, <1>5 DEF StoreOrder, Going
<1>6. CASE TakePartial
  <2>1. ~Goto(w, "exited") /\ ~Goto(w, "W1")
    BY <1>0, LeadsTo DEF Decoding
  <2>2. /\ partialQ # <<>> /\ TakeChunk(FALSE, Head(partialQ)) /\ partialQ' = Tail(partialQ)
        /\ finalQ' = finalQ
    BY <1>6, <2>1 DEF TakePartial
  <2>3. me.id = Head(partialQ).id /\ me.captures = Head(partialQ).captures
    BY <1>0, <2>2 DEF TakeChunk, Locals
  <2>4. Head(partialQ) = partialQ[1] /\ 1 \in DOMAIN partialQ /\ Head(partialQ).id \in Ids
    <3>1. partialQ \in Seq(Chunks)
      BY DEF TypeInv, TypeOK, QueuesOK
    <3>2. Head(partialQ) = partialQ[1] /\ 1 \in DOMAIN partialQ /\ Head(partialQ) \in Chunks
      BY <2>2, <3>1
    <3>3. QED
      BY <3>2 DEF Chunks
  <2>5. Neat(me.captures, Mark') /\ Follows(me.captures, me.id, partialQ')
    BY <1>0, <1>3, <2>2, <2>3, TailOrder DEF QueueOrder
  <2>6. ASSUME Alive(me.id)
        PROVE  /\ Before(sess[me.id].parts, me.captures) /\ Before(segs[me.id], me.captures)
               /\ Follows(me.captures, me.id, finalQ)
    <3>1. Follows(sess[me.id].parts, me.id, partialQ) /\ Follows(segs[me.id], me.id, partialQ)
      BY <1>5, <2>3, <2>4, <2>6
    <3>2. Follows(me.captures, me.id, finalQ)
      BY <1>5, <2>3, <2>4, <2>6
    <3>3. QED
      BY <1>0, <2>2, <2>3, <3>1, <3>2, TailOrder
  <2>7. Alive(me.id) <=> sess'[me.id].open \/ sess'[me.id].note
    BY <1>1 DEF Alive
  <2>8. Neat(me.captures, Mark') /\ (sess'[me.id].note => Before(segs'[me.id], me.captures))
        /\ (sess'[me.id].open => Before(sess'[me.id].parts, me.captures))
        /\ (Alive(me.id) => Follows(me.captures, me.id, partialQ') /\ Follows(me.captures, me.id, finalQ'))
    BY <1>1, <2>2, <2>5, <2>6, <2>7
  <2>9. QED
    BY <2>7, <2>8 DEF WorkOrder, Going, Alive
<1>7. CASE TakeFinal
  <2>1. ~Goto(w, "exited") /\ ~Goto(w, "W0")
    BY <1>0, LeadsTo DEF Decoding
  <2>2. /\ finalQ # <<>> /\ Head(finalQ) # StopSignal /\ TakeChunk(TRUE, Head(finalQ)) /\ finalQ' = Tail(finalQ)
        /\ pc' = [pc EXCEPT ![w] = "H1"]
    BY <1>7, <2>1 DEF TakeFinal, Goto
  <2>3. me.id = Head(finalQ).id /\ me.captures = Head(finalQ).captures /\ me.final
    BY <1>0, <2>2 DEF TakeChunk, Locals
  <2>4. me.id \in Ids
    BY <1>0, <2>2, <2>3, OrderTypes
  <2>5. Neat(me.captures, Mark')
    BY <1>0, <1>3, <2>2, <2>3, TailOrder DEF QueueOrder
  <2>6. ASSUME Alive(me.id)
        PROVE  Before(sess[me.id].parts, me.captures) /\ Before(segs[me.id], me.captures)
    <3>1. Follows(sess[me.id].parts, me.id, finalQ) /\ Follows(segs[me.id], me.id, finalQ)
      BY <1>5, <2>4, <2>6
    <3>2. QED
      BY <1>0, <2>2, <2>3, <3>1, TailOrder
  <2>7. Alive(me.id) <=> sess'[me.id].open \/ sess'[me.id].note
    BY <1>1 DEF Alive
  <2>8. pc'[w] \in Working
    BY DEF Decoding, Working
  <2>9. Neat(me.captures, Mark') /\ (sess'[me.id].note => Before(segs'[me.id], me.captures))
        /\ (sess'[me.id].open => Before(sess'[me.id].parts, me.captures))
    BY <1>1, <2>5, <2>6, <2>7
  <2>10. QED
    BY <2>3, <2>8, <2>9 DEF WorkOrder, Going, Ends
<1>8. QED
  BY <1>6, <1>7

LEMMA WorkOrderStep ==
  ASSUME TypeInv, TypeInv', LocksOwned, PastInv, PlaceInv, MicInv, DeadStays, HandOrder, QueueOrder, WorkOrder,
         \A id \in Ids : StoreOrder(id), NEW t \in Threads, Step(t)
  PROVE  WorkOrder'
<1> DEFINE w  == "worker"
           me == loc["worker"]
<1>0. w \in Threads /\ Mark \in Nat /\ Mark' \in Nat /\ Mark <= Mark' /\ me.captures \in Seq(Nat)
  BY WorkersAreThreads, MarkStep, OrderTypes
<1>1. SUFFICES ASSUME pc'[w] \in Decoding PROVE WorkOrder'
  BY DEF WorkOrder
<1>2. ASSUME pc[w] \in Decoding, loc'[w] = me, t # w => pc'[w] = pc[w],
             t = w => UNCHANGED <<sess, queues>>,
             pc'[w] \in Storing => pc[w] \in Storing /\ segs'[me.id] = segs[me.id]
      PROVE  WorkOrder'
  <2>1. me.id \in Ids /\ me.id <= Begun
    BY <1>0, <1>2 DEF Decoding, TypeInv, HasId, Bound, PastInv, PastAt
  <2>2. /\ Neat(me.captures, Mark)
        /\ pc[w] \in Storing /\ sess[me.id].note => Before(segs[me.id], me.captures)
        /\ sess[me.id].open => Before(sess[me.id].parts, me.captures)
        /\ Going(me.id) => Follows(me.captures, me.id, partialQ) /\ Follows(me.captures, me.id, finalQ)
    BY <1>2 DEF WorkOrder
  <2>3. Neat(me.captures, Mark')
    BY <1>0, <2>2, SmallOrder
  <2>4. (sess'[me.id].open => sess[me.id].open) /\ (sess'[me.id].note => sess[me.id].note)
    BY <2>1, AliveKept
  <2>5. sess'[me.id].parts \in {sess[me.id].parts, <<>>}
    <3>1. CASE t = w
      BY <1>2, <3>1
    <3>2. CASE t # w
      BY <2>1, <3>2, PartsFlow
    <3>3. QED
      BY <3>1, <3>2
  <2>6. sess'[me.id].open => Before(sess'[me.id].parts, me.captures)
    BY <2>2, <2>4, <2>5, SmallOrder
  <2>7. ASSUME Going(me.id)' PROVE Follows(me.captures, me.id, partialQ') /\ Follows(me.captures, me.id, finalQ')
    <3>1. Going(me.id)
      <4>1. ASSUME NEW id \in Ids, id <= Begun, Going(id)' PROVE Going(id)
        <5>1. ~(StartCapture(t) /\ loc[t].id = id)
          BY <4>1, StartsNew DEF StartCapture
        <5>2. QED
          BY <4>1, <5>1, GoingKept
      <4>2. ASSUME NEW id, id = me.id, Going(id)' PROVE Going(id)
        BY <2>1, <4>1, <4>2
      <4>3. PICK id : id = me.id
        OBVIOUS
      <4>4. Going(id)'
        BY <1>2, <2>7, <4>3 DEF Going, Alive, Ends
      <4>5. QED
        BY <4>2, <4>3, <4>4
    <3>2. QED
      BY <1>0, <2>2, <3>1, FollowStep DEF Neat
  <2>8. QED
    BY <1>2, <2>2, <2>3, <2>4, <2>6, <2>7 DEF WorkOrder, Going, Alive, Ends
<1>3. CASE t # w
  <2>1. pc'[w] = pc[w] /\ loc'[w] = me /\ me.id \in Ids
    BY <1>0, <1>1, <1>3, WorkerStays DEF Decoding, TypeInv, HasId, Bound
  <2>2. segs'[me.id] = segs[me.id]
    BY <1>3, <2>1, SegsFlow
  <2>3. QED
    BY <1>1, <1>2, <1>3, <2>1, <2>2
<1>4. CASE t = w /\ WorkerSteps
  <2>1. CASE TakePartial \/ TakeFinal
    BY <1>1, <2>1, TakeOrder
  <2>2. CASE ~TakePartial /\ ~TakeFinal
    <3>1. /\ pc[w] \in Decoding /\ loc' = loc /\ UNCHANGED <<sess, queues>>
          /\ pc'[w] \in Storing => pc[w] \in Storing /\ UNCHANGED segs
      BY <1>1, <1>4, <2>2, DecodeGoes
    <3>2. QED
      BY <1>2, <1>4, <3>1
  <2>3. QED
    BY <2>1, <2>2
<1>5. CASE t = w /\ ~WorkerSteps
  BY <1>1, <1>5, WorkerStays DEF Decoding, Handler
<1>6. QED
  BY <1>3, <1>4, <1>5

LEMMA StoreNew ==
  ASSUME TypeInv, PastInv, NEW t \in Threads, StartCapture(t), NEW id \in Ids, loc[t].id = id
  PROVE  StoreOrder(id)'
<1>1. UNCHANGED queues /\ pc[t] = "S2"
  BY DEF StartCapture
<1>2. /\ \A i \in DOMAIN partialQ : partialQ[i].id # id
      /\ \A i \in DOMAIN finalQ : finalQ[i].id # id
  BY <1>1, StartsNew DEF PastInv, PastAt, AllPast
<1>3. /\ \A i \in DOMAIN partialQ' : partialQ'[i].id # id
      /\ \A i \in DOMAIN finalQ' : finalQ'[i].id # id
  BY <1>1, <1>2 DEF queues
<1>4. \A p : Follows(p, id, partialQ') /\ Follows(p, id, finalQ')
  BY <1>3 DEF Follows
<1>5. QED
  BY <1>3, <1>4 DEF StoreOrder

LEMMA StoreStep ==
  ASSUME TypeInv, TypeInv', LocksOwned, PastInv, PlaceInv, MicInv, HandOrder, TextOrder, QueueOrder, WorkOrder,
         NotEnded, DeadStays, NEW id \in Ids, StoreOrder(id), NEW t \in Threads, Step(t)
  PROVE  StoreOrder(id)'
<1> DEFINE w  == "worker"
           me == loc["worker"]
<1>1. CASE StartCapture(t) /\ loc[t].id = id
  BY <1>1, StoreNew
<1>2. CASE ~(StartCapture(t) /\ loc[t].id = id)
  <2>1. SUFFICES ASSUME Going(id)'
                 PROVE  /\ Follows(sess'[id].parts, id, partialQ') /\ Follows(segs'[id], id, partialQ')
                        /\ Follows(sess'[id].parts, id, finalQ') /\ Follows(segs'[id], id, finalQ')
                        /\ \A i \in DOMAIN partialQ' : partialQ'[i].id = id => Follows(partialQ'[i].captures, id, finalQ')
    BY DEF StoreOrder
  <2>2. Going(id)
    BY <1>2, <2>1, GoingKept
  <2>3. /\ Follows(sess[id].parts, id, partialQ) /\ Follows(segs[id], id, partialQ)
        /\ Follows(sess[id].parts, id, finalQ) /\ Follows(segs[id], id, finalQ)
        /\ \A i \in DOMAIN partialQ : partialQ[i].id = id => Follows(partialQ[i].captures, id, finalQ)
    BY <2>2 DEF StoreOrder
  <2>4. /\ sess[id].parts \in Seq(Nat) /\ Below(sess[id].parts, Mark)
        /\ segs[id] \in Seq(Nat) /\ Below(segs[id], Mark)
        /\ w \in Threads /\ me.captures \in Seq(Nat)
        /\ partialQ \in Seq(Items) /\ finalQ \in Seq(Items)
    BY OrderTypes, WorkersAreThreads DEF TextOrder, Neat
  <2>5. ASSUME NEW p \in Seq(Nat), NEW q \in Seq(Items), Follows(p, id, q), Follows(me.captures, id, q)
        PROVE  Follows(p \o me.captures, id, q)
    <3>1. \A i \in DOMAIN q : q[i].captures \in Seq(Nat)
      BY OrderTypes
    <3>2. QED
      BY <2>4, <2>5, <3>1, JoinOrder DEF Follows
  <2>6. Follows(sess'[id].parts, id, partialQ') /\ Follows(sess'[id].parts, id, finalQ')
    <3>1. CASE sess'[id].parts = sess[id].parts
      BY <2>3, <2>4, <3>1, FollowStep
    <3>2. CASE sess'[id].parts = <<>>
      BY <3>2, SmallOrder DEF Follows
    <3>3. CASE RecordPart /\ me.id = id /\ sess'[id].parts = sess[id].parts \o me.captures
      <4>1. pc[w] \in Decoding /\ UNCHANGED <<partialQ, finalQ>>
        BY <3>3 DEF RecordPart, Decoding, queues
      <4>2. Follows(me.captures, id, partialQ) /\ Follows(me.captures, id, finalQ)
        BY <2>2, <3>3, <4>1 DEF WorkOrder
      <4>3. QED
        BY <2>3, <2>4, <2>5, <3>3, <4>1, <4>2
    <3>4. QED
      BY <3>1, <3>2, <3>3, PartsFlow
  <2>7. Follows(segs'[id], id, partialQ') /\ Follows(segs'[id], id, finalQ')
    <3>1. CASE segs'[id] = segs[id]
      BY <2>3, <2>4, <3>1, FollowStep
    <3>2. CASE RecordSegment /\ me.id = id /\ segs'[id] = segs[id] \o me.captures
      <4>1. pc[w] \in Decoding /\ UNCHANGED <<partialQ, finalQ>>
        BY <3>2 DEF RecordSegment, Decoding, queues
      <4>2. Follows(me.captures, id, partialQ) /\ Follows(me.captures, id, finalQ)
        BY <2>2, <3>2, <4>1 DEF WorkOrder
      <4>3. QED
        BY <2>3, <2>4, <2>5, <3>2, <4>1, <4>2
    <3>3. QED
      BY <3>1, <3>2, SegsFlow
  <2>8. ASSUME NEW i \in DOMAIN partialQ, partialQ[i].id = id PROVE Follows(partialQ[i].captures, id, finalQ')
    <3>1. partialQ[i].captures \in Seq(Nat) /\ Below(partialQ[i].captures, Mark)
      BY <2>4, OrderTypes DEF QueueOrder, Chunky, Neat
    <3>2. QED
      BY <2>3, <2>8, <3>1, FollowStep
  <2>9. \A i \in DOMAIN partialQ' : partialQ'[i].id = id => Follows(partialQ'[i].captures, id, finalQ')
    <3>1. CASE partialQ' \in {partialQ, <<>>}
      BY <2>8, <3>1
    <3>2. CASE partialQ # <<>> /\ partialQ' = Tail(partialQ)
      BY <2>4, <2>8, <3>2, TailOrder
    <3>3. ASSUME PauseQueue(t), HandsOver(t), NEW q \in Seq(Items),
                 q = partialQ \/ (partialQ # <<>> /\ q = Tail(partialQ)),
                 partialQ' = Append(q, [id |-> loc[t].id, captures |-> <<caps>>])
          PROVE  \A i \in DOMAIN partialQ' : partialQ'[i].id = id => Follows(partialQ'[i].captures, id, finalQ')
      <4>1. \A i \in DOMAIN q : q[i].id = id => Follows(q[i].captures, id, finalQ')
        <5>1. CASE q = partialQ
          BY <2>8, <5>1
        <5>2. CASE partialQ # <<>> /\ q = Tail(partialQ)
          BY <2>4, <2>8, <5>2, TailOrder
        <5>3. QED
          BY <3>3, <5>1, <5>2
      <4>2. loc[t].id = id => Follows(<<caps>>, id, finalQ')
        <5>1. UNCHANGED finalQ /\ pc[t] = "P2"
          BY <3>3 DEF PauseQueue
        <5>2. QED
          BY <5>1, SmallOrder DEF NotEnded, Follows
      <4>3. [id |-> loc[t].id, captures |-> <<caps>>] \in Items
        BY <3>3 DEF HandsOver
      <4>4. QED
        BY <3>3, <4>1, <4>2, <4>3, AppendOrder
    <3>4. QED
      BY <3>1, <3>2, <3>3, PartialFlow
  <2>10. QED
    BY <2>6, <2>7, <2>9
<1>3. QED
  BY <1>1, <1>2

LEMMA OrderStep ==
  ASSUME Answered, TypeInv', OrderInv, NEW t \in Threads, Step(t)
  PROVE  OrderInv'
<1>1. HandOrder' /\ TextOrder' /\ QueueOrder' /\ SaidOrder' /\ WorkOrder'
  BY HandStep, TextStep, QueueStep, SaidStep, WorkOrderStep DEF Answered, OrderInv
<1>2. NotEnded' /\ DeadStays'
  BY NotEndedStep, DeadStep DEF Answered, OrderInv
<1>3. ASSUME NEW id \in Ids PROVE StoreOrder(id)'
  BY <1>3, StoreStep DEF Answered, OrderInv
<1>4. QED
  BY <1>1, <1>2, <1>3 DEF OrderInv

\* A step of the user, or none, moves no audio and no text.
LEMMA SameOrder ==
  ASSUME TypeInv, OrderInv, UNCHANGED <<sess, terminal, partialQ, finalQ, segs, text, recOn, caps>>,
         pc'["worker"] = pc["worker"], loc'["worker"] = loc["worker"],
         \A u \in Threads : \/ pc'[u] = pc[u] /\ loc'[u] = loc[u]
                            \/ pc[u] \in Outside /\ pc'[u] \in Outside
  PROVE  OrderInv'
<1>1. \A u \in Threads : /\ Carries(u)' <=> Carries(u)
                         /\ pc'[u] \in {"P2", "Z2", "F2", "F3", "F4"} => pc'[u] = pc[u] /\ loc'[u] = loc[u]
  BY DEF Carries, Outside
<1>2. Mark' = Mark
  BY <1>1 DEF Mark
<1>3. \A id \in Ids : (Alive(id)' <=> Alive(id)) /\ (Ends(id)' <=> Ends(id)) /\ (Failed(id)' <=> Failed(id))
  BY DEF Alive, Ends, Failed
<1>4. HandOrder' /\ TextOrder' /\ QueueOrder' /\ SaidOrder' /\ NotEnded'
  <2>1. HandOrder'
    BY <1>1 DEF OrderInv, HandOrder, Carries
  <2>2. TextOrder' /\ QueueOrder' /\ SaidOrder'
    BY <1>2 DEF OrderInv, TextOrder, QueueOrder, SaidOrder
  <2>3. NotEnded'
    BY <1>1 DEF OrderInv, NotEnded
  <2>4. QED
    BY <2>1, <2>2, <2>3
<1>5. WorkOrder'
  BY <1>2 DEF OrderInv, WorkOrder, Going, Alive, Ends
<1>6. \A id \in Ids : StoreOrder(id)'
  BY <1>3 DEF OrderInv, StoreOrder, Going
<1>7. DeadStays'
  BY <1>1, <1>3 DEF OrderInv, DeadStays, Alive
<1>8. QED
  BY <1>4, <1>5, <1>6, <1>7 DEF OrderInv

LEMMA InitOrder == Init => OrderInv
<1> SUFFICES ASSUME Init PROVE OrderInv
  OBVIOUS
<1>1. /\ pc = [t \in Threads |-> IF t = "worker" THEN "W0" ELSE "idle"] /\ "worker" \in Threads
      /\ sess = [id \in Ids |-> NoSession] /\ terminal = {} /\ partialQ = <<>> /\ finalQ = <<>>
      /\ segs = [id \in Ids |-> <<>>] /\ text = [id \in Ids |-> <<>>]
  BY WorkersAreThreads DEF Init
<1>2. \A t \in Threads : pc[t] \in {"W0", "idle"}
  BY <1>1
<1>3. \A m : Neat(<<>>, m) /\ Rising(<<>>)
  BY DEF Neat, Rising, Below
<1>4. HandOrder /\ SaidOrder /\ WorkOrder /\ NotEnded
  BY <1>1, <1>2 DEF HandOrder, Carries, SaidOrder, WorkOrder, Decoding, NotEnded
<1>5. TextOrder /\ QueueOrder
  BY <1>1, <1>3, NoOrder DEF TextOrder, QueueOrder, NoSession
<1>6. \A id \in Ids : StoreOrder(id)
  BY <1>1, NoOrder DEF StoreOrder, Going, Alive, NoSession
<1>7. DeadStays
  BY <1>1, <1>2 DEF DeadStays, Failed
<1>8. QED
  BY <1>4, <1>5, <1>6, <1>7 DEF OrderInv

\* The text of a recording has its captures in the order they were spoken, none
\* of them twice, through two queues, a full queue that drops its oldest chunk,
\* the parts in memory and the file of segments (_pause_note_recording,
\* _finalize_recording, _transcription_loop, _record_transcript_piece).  A discard
\* is excluded: its purge puts the chunks of other recordings back after the worker
\* has taken later ones.
THEOREM SpokenOrder ==
  ASSUME "cancel" \notin Ops
  PROVE  Spec => []TextInOrder
<1>1. Init => Answered /\ OrderInv
  BY InitAnswered, InitOrder
<1>2. Answered /\ OrderInv /\ [Next]_vars => (Answered /\ OrderInv)'
  <2>1. SUFFICES ASSUME Answered, OrderInv, [Next]_vars PROVE OrderInv'
    BY NextAnswered
  <2>2. TypeInv /\ TypeInv'
    BY <2>1, NextAnswered DEF Answered
  <2>3. CASE \E t \in Threads : Step(t)
    BY <2>1, <2>2, <2>3, OrderStep
  <2>4. CASE User
    <3>1. UNCHANGED <<sess, terminal, partialQ, finalQ, segs, text, recOn, caps>>
      BY <2>4 DEF User, Press, Release, NoteRequest, Silence, Deactivate, Activate, SetCombo, SwitchModel,
         Shutdown, sessions, queues, notes, outcome, capture
    <3>2. pc'["worker"] = pc["worker"] /\ loc'["worker"] = loc["worker"]
      BY <2>1, <2>4, UserPlace DEF Answered
    <3>3. \A u \in Threads : \/ pc'[u] = pc[u] /\ loc'[u] = loc[u]
                             \/ pc[u] \in Outside /\ pc'[u] \in Outside
      BY <2>2, <2>4, UserOnly DEF OnlyMoves, Outside, threads
    <3>4. QED
      BY <2>1, <2>2, <3>1, <3>2, <3>3, SameOrder
  <2>5. CASE UNCHANGED vars
    <3>1. UNCHANGED <<sess, terminal, partialQ, finalQ, segs, text, recOn, caps, pc, loc>>
      BY <2>5 DEF vars, threads, capture, queues, sessions, notes, outcome
    <3>2. QED
      BY <2>1, <2>2, <3>1, SameOrder
  <2>6. QED
    BY <2>1, <2>3, <2>4, <2>5 DEF Next, Resting
<1>3. OrderInv => TextInOrder
  BY DEF OrderInv, TextOrder, TextInOrder, Rising
<1>4. QED
  BY <1>1, <1>2, <1>3, PTL DEF Spec

=============================================================================
