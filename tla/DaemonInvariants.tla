-------------------------- MODULE DaemonInvariants --------------------------
(***************************************************************************)
(* The inductive invariants of Daemon, and what its steps may do to them:  *)
(* the vocabulary of the proofs in DaemonProofs, in the order in which     *)
(* they need it.                                                           *)
(***************************************************************************)
EXTENDS Daemon

-----------------------------------------------------------------------------
(* The inductive invariant for the types *)

\* The labels at which a thread works on the recording loc[t].id.
Bound == {"S2", "Z2", "P2", "T2", "T3", "C2", "C3", "F1", "F2", "F3", "F4",
          "H1", "H2", "H3", "H4", "H5", "H6", "E1", "E2", "E3", "E4", "X1", "X2"}

HasId == \A t \in Threads : pc[t] \in Bound => loc[t].id \in Ids

TypeInv == TypeOK /\ HasId

\* What the actions do to the program counter and to the locals.
Moved == ThreadsOK' /\ HasId'

-----------------------------------------------------------------------------
(* Who holds which lock *)

\* The labels at which a thread holds the control lock.  The failure handler
\* holds it when _finalize_recording called it.
Inside  == {"S1", "S2", "Z1", "Z2", "Z3", "Z4", "P1", "P2", "P3", "R1", "T1",
            "C1", "C2", "C3", "C4", "C5", "C6", "C7", "C8", "X1", "X2"}
Handler == {"F1", "F2", "F3", "F4"}
Holds(t) == pc[t] \in Inside \/ (pc[t] \in Handler /\ loc[t].ret \in {"Z3", "Z4"})

CtlOwned == \A t \in Threads : Holds(t) <=> ctl = t
RecOwned == \A t \in Threads : /\ pc[t] = "S2" => rec = t
                               /\ rec = t => pc[t] \in {"S2", "R0", "R1"}
EngOwned == \A t \in Threads : (t = "worker" /\ pc[t] = "H3") <=> eng = t

LocksOwned == CtlOwned /\ RecOwned /\ EngOwned

\* What a step does to the threads and the locks.
OnlyMoves(t) == \A u \in Threads \ {t} : pc'[u] = pc[u] /\ loc'[u] = loc[u]

CtlStep(t) == \/ ctl' = ctl /\ (Holds(t)' <=> Holds(t))
              \/ ctl = Free /\ ctl' = t /\ Holds(t)'
              \/ Holds(t) /\ ctl' = Free /\ ~Holds(t)'
RecStep(t) == \/ rec' = rec /\ pc'[t] # "S2" /\ (rec = t => pc[t] = "R0" /\ pc'[t] = "R1")
              \/ RecFree(t) /\ rec' = t /\ (pc'[t] = "S2" \/ (pc[t] = "N0" /\ pc'[t] = "R0"))
              \/ RecFree(t) /\ rec' = Free /\ pc'[t] # "S2"
EngStep(t) == \/ eng' = eng /\ (t = "worker" => (pc'[t] = "H3" <=> pc[t] = "H3"))
              \/ t = "worker" /\ eng = Free /\ eng' = t /\ pc'[t] = "H3"
              \/ t = "worker" /\ eng = t /\ eng' = Free /\ pc'[t] # "H3"
LockStep(t) == OnlyMoves(t) /\ CtlStep(t) /\ RecStep(t) /\ EngStep(t)

\* A step of a thread that holds no lock, and takes none.
Outside == {"idle", "D1", "D2", "S0", "Z0", "P0", "R0", "N0", "G0", "T0", "T2", "T3", "T4", "C0"}

\* The labels of the worker's loop.
Looping == {"W0", "W1", "exited", "H1", "H2", "H3", "H4", "H5", "H6", "E1", "E2", "E3", "E4"}

-----------------------------------------------------------------------------
(* Ids that can be met were given out by a start that is through *)

\* The last id whose start is through.
Begun == IF \E t \in Threads : pc[t] = "S2" THEN gen - 1 ELSE gen

AllPast(q, b) == \A i \in DOMAIN q : q[i].id <= b

\* Every id in a local variable, a queue or a set is at most b.
PastAt(b) ==
  /\ \A t \in Threads : pc[t] # "S2" => loc[t].id <= b
  /\ \A t \in Threads : AllPast(loc[t].keptPartials, b) /\ AllPast(loc[t].keptFinals, b)
  /\ AllPast(partialQ, b) /\ AllPast(finalQ, b)
  /\ \A id \in terminal \cup failing : id <= b

Newest == /\ activeId <= gen
          /\ \A t \in Threads : pc[t] = "S2" => loc[t].id = gen

PastInv == Newest /\ PastAt(Begun)

\* The ids the acting thread leaves behind.
PastIn(t, b) == /\ pc'[t] # "S2" => loc'[t].id <= b
                /\ AllPast(loc'[t].keptPartials, b) /\ AllPast(loc'[t].keptFinals, b)

SameIds(t) == /\ loc'[t].id \in {loc[t].id, NoId}
              /\ loc'[t].keptPartials \in {loc[t].keptPartials, <<>>}
              /\ loc'[t].keptFinals \in {loc[t].keptFinals, <<>>}

ActiveIn(t, id) == /\ loc'[t].id = id
                   /\ loc'[t].keptPartials = loc[t].keptPartials
                   /\ loc'[t].keptFinals = loc[t].keptFinals

-----------------------------------------------------------------------------
(* The bounds of the queues and of the terminal cache *)

\* Only a discard that takes the partial queue apart keeps chunks of it, and
\* they still fit.
Purging  == {"C4", "C5"}
KeptFits == \A t \in Threads :
  IF pc[t] \in Purging THEN Len(partialQ) + Len(loc[t].keptPartials) <= PartialCap
                       ELSE loc[t].keptPartials = <<>>

MemInv == BoundedMemory /\ KeptFits

CacheOK  == Len(termOrder) <= TerminalCap /\ terminal = {termOrder[i] : i \in DOMAIN termOrder}
KeptOK(t) == IF pc[t] \in Purging THEN Len(partialQ) + Len(loc[t].keptPartials) <= PartialCap
                                  ELSE loc[t].keptPartials = <<>>

\* What a step may do to the memory.  The partial queue grows only in the hands
\* of the thread that has the control lock.
MemStep(t) == /\ CacheOK' /\ KeptOK(t)'
              /\ Len(finalQ') <= FinalCap
              /\ Len(partialQ') <= PartialCap
              /\ Len(partialQ') <= Len(partialQ) \/ Holds(t)

-----------------------------------------------------------------------------
(* What the daemon delivers *)

Outputs == {"typed", "note", "history"}
Risky   == {"S2", "E3", "E4"}

Undelivered(id) == \A e \in Outputs : log[id][e] = 0
Delivering(id)  == pc["worker"] \in {"E3", "E4"} /\ loc["worker"].id = id
Fresh(id)       == /\ ~sess[id].open /\ sess[id].parts = <<>>
                   /\ Undelivered(id) /\ ~Delivering(id)

FreshAhead == \A id \in Ids : id > gen => Fresh(id)
FreshStart == \A t \in Threads : pc[t] = "S2" => loc[t].id <= gen /\ Fresh(loc[t].id)
OwnStart   == \A t, u \in Threads :
                t # u /\ pc[t] = "S2" /\ pc[u] = "S2" => loc[t].id # loc[u].id
PartsOpen  == \A id \in Ids : sess[id].parts # <<>> => sess[id].open
Spent      == \A id \in Ids : ~Undelivered(id) => ~sess[id].open /\ ~Delivering(id)
Typing     == pc["worker"] = "E4" /\ loc["worker"].mode # "note"
                => ~sess[loc["worker"].id].open

OnceInv == FreshAhead /\ FreshStart /\ OwnStart /\ PartsOpen /\ Spent /\ Typing /\ DeliveredOnce

-----------------------------------------------------------------------------
(* Steps that neither open a session, nor deliver, nor start doing either *)

Shrinks == \A id \in Ids : \/ sess'[id].open = sess[id].open /\ sess'[id].parts = sess[id].parts
                           \/ ~sess'[id].open /\ sess'[id].parts = <<>>
Silent  == \A id \in Ids, e \in Outputs : log'[id][e] = log[id][e]
Calm    == \A u \in Threads : pc'[u] \in Risky => pc'[u] = pc[u] /\ loc'[u] = loc[u]

\* One thread moves to a label that is not risky.
OneMoves(t) == /\ pc'[t] \notin Risky
               /\ \A u \in Threads \ {t} : pc'[u] = pc[u] /\ loc'[u] = loc[u]

-----------------------------------------------------------------------------
(* Nothing is delivered after a failure: where the threads can be *)

NotWorker == Threads \ {"worker"}
Discards  == {"C0", "C1", "C2", "C3", "C4", "C5", "C6", "C7", "C8"}

NoCancel  == \A t \in Threads : pc[t] \notin Discards
WorkerAt  == /\ pc["worker"] \in Looping \cup Handler
             /\ pc["worker"] \in Handler => /\ loc["worker"].ret \in {"W0", "E1"}
                                            /\ loc["worker"].ret = "E1" => loc["worker"].final
             /\ pc["worker"] \in {"E1", "E2", "E3", "E4"} => loc["worker"].final

\* A chunk of the partial queue has audio.
Heard     == /\ \A i \in DOMAIN partialQ : partialQ[i].captures # <<>>
             /\ pc["worker"] = "H1" /\ loc["worker"].captures = <<>> => loc["worker"].final

PlaceInv == NoCancel /\ WorkerAt /\ Heard

\* The points at which a recording is about to be closed or paused.
Tender == {"Z2", "T3", "F1", "F2", "F3", "F4", "P2", "P3"}
Tends(t) == \/ FinalizeStop(t) \/ FinalizeQueue(t) \/ PauseStop(t) \/ PauseQueue(t)
            \/ StopPaused(t) \/ StopQueue(t) \/ FailCheck(t) \/ FailRead(t) \/ FailMark(t)

-----------------------------------------------------------------------------
(* Nothing is delivered after a failure: the microphone and the pause *)

\* Between stopping the microphone and what follows it stays off, and nobody
\* pauses or resumes.
Still(t) == /\ pc[t] \in {"P2", "P3", "S2"} => ~paused /\ ~recOn
            /\ pc[t] = "Z2" => ~recOn
            /\ pc[t] = "Z2" /\ loc[t].captures # <<>> => ~paused
PauseOff == paused => ~recOn
MicInv   == PauseOff /\ \A t \in Threads : Still(t)

-----------------------------------------------------------------------------
(* Nothing is delivered after a failure: a recording is closed once *)

\* Thread t is going to queue the last chunk of the recording, or to fail it.
Closes(t, id) == /\ loc[t].id = id
                 /\ \/ pc[t] \in {"T3", "F1", "F2", "F3"}
                    \/ pc[t] = "Z2" /\ loc[t].captures # <<>>
Working    == {"H1", "H2", "H3", "H4", "H5", "H6", "E1", "E2", "E3", "E4", "F1", "F2", "F3", "F4"}
Ends(id)   == pc["worker"] \in Working /\ loc["worker"].final /\ loc["worker"].id = id
Queued(id) == \E i \in DOMAIN finalQ : finalQ[i].id = id
Over(id)   == Ends(id) \/ Queued(id) \/ \E t \in NotWorker : Closes(t, id)

\* One thread, one chunk of the queue or the worker has the end of a recording.
OneEnd == \A id \in Ids :
  /\ Ends(id) \/ Queued(id) => \A t \in NotWorker : ~Closes(t, id)
  /\ \A t, u \in NotWorker : Closes(t, id) /\ Closes(u, id) => t = u
  /\ \A i, j \in DOMAIN finalQ : finalQ[i].id = id /\ finalQ[j].id = id => i = j
  /\ ~(Ends(id) /\ Queued(id))

\* The active recording is over only with the microphone off, no pause and none
\* on the way.
OverQuiet == activeId \in Ids /\ Over(activeId) =>
               /\ ~recOn /\ ~paused
               /\ \A t \in Threads : pc[t] \in {"P2", "P3"} => loc[t].id # activeId

StartActive == \A t \in Threads : pc[t] = "S2" => activeId \in {gen, NoId}

EndInv == OneEnd /\ OverQuiet /\ StartActive

\* The four ways the end of a recording moves.
NoNewEnd == \A id \in Ids : Over(id)' => Over(id)

\* Who has the end of the active recording took it from a running or paused one.
TakesEnd(t) == /\ (FinalizeStop(t) /\ recOn) \/ (StopPaused(t) /\ paused)
               /\ activeId \in Ids /\ ~recOn' /\ ~paused'

\* The first steps of the operations.
Entries == {"idle", "S0", "Z0", "N0", "G0", "P0", "R0", "T0", "C0", "D1"}

-----------------------------------------------------------------------------
(* Nothing is delivered after a failure: what a failure leaves behind *)

Reports      == {"failed", "note failed"}
Unfailed(id) == \A e \in Reports : log[id][e] = 0

\* The session of a failed recording is closed for good.
Settled(id) == ~sess[id].open /\ sess[id].parts = <<>> /\ ~Delivering(id) /\ id <= Begun
Doomed      == \A id \in Ids : ~Unfailed(id) => Settled(id)
Marked      == \A t \in Threads : pc[t] = "F4" => ~Unfailed(loc[t].id)
NoDiscard   == \A id \in Ids : log[id]["discarded"] = 0
TellInv     == Doomed /\ Marked /\ NoDiscard

\* What is told, and by which steps.
Tells(t) == StartCapture(t) \/ FailMark(t) \/ FailEnd(t) \/ (t = "worker" /\ SessionSave)

-----------------------------------------------------------------------------
(* Nothing is delivered after a failure: the invariant and the action *)

Answered == TypeInv /\ LocksOwned /\ PastInv /\ PlaceInv /\ MicInv /\ EndInv /\ TellInv

-----------------------------------------------------------------------------
(* A closed recording stays closed: where the microphone is off *)

\* The points between stopping the microphone, or finding it off, and giving
\* back the control lock.
Muted      == {"S2", "P2", "P3", "Z2", "Z3", "Z4", "X2"}
Discarding == {"C2", "C3", "C4", "C5", "C6", "C7", "C8"}
Mutes(t) == \/ pc[t] \in Muted
            \/ pc[t] \in Handler /\ loc[t].ret \in {"Z3", "Z4"}
            \/ pc[t] \in Discarding /\ ~loc[t].running
Muffled(t) == /\ Mutes(t) => ~recOn
              /\ pc[t] \in {"S2", "P2", "P3"} => ~paused
MuteInv == PauseOff /\ \A t \in Threads : Muffled(t)

-----------------------------------------------------------------------------
(* A closed recording stays closed: the chunks a discard takes apart *)

\* The chunks of the partial queue have audio while a discard holds them, too.
KeptHeard == \A t \in Threads : \A i \in DOMAIN loc[t].keptPartials : loc[t].keptPartials[i].captures # <<>>
WorkInv   == WorkerAt /\ Heard /\ KeptHeard

AllHeard(q) == \A i \in DOMAIN q : q[i].captures # <<>>

-----------------------------------------------------------------------------
(* A closed recording stays closed: the recording that starts is the active one *)

StartOwn == \A t \in Threads : pc[t] = "S2" => activeId = gen

-----------------------------------------------------------------------------
(* A closed recording stays closed: who may still end it *)

Has(q, id) == \E i \in DOMAIN q : q[i].id = id

\* Thread t has the end of the recording in its hands: its last audio, its
\* failure, or for the worker its last chunk.
Closing(t, id) ==
  /\ loc[t].id = id
  /\ IF t = "worker" THEN pc[t] \in Working /\ loc[t].final
     ELSE \/ pc[t] \in {"T3", "T4"} \cup Handler
          \/ pc[t] = "Z2" /\ loc[t].captures # <<>>
Ending(id) == \/ Has(finalQ, id)
              \/ \E t \in Threads : Closing(t, id) \/ Has(loc[t].keptFinals, id)

\* The recording is not the active one any more, or it is neither running nor
\* paused and nobody is pausing it.
Closed(id) == activeId = id =>
  /\ ~recOn /\ ~paused
  /\ \A t \in Threads : pc[t] \in {"P2", "P3"} => loc[t].id # id
ClosedInv == \A id \in Ids : Ending(id) => Closed(id)

\* Who gets the end of a recording: by taking it from the recording, or from
\* somebody who had it.
From(t, id) == \/ Closing(t, id) \/ Has(finalQ, id) \/ Has(loc[t].keptFinals, id)
               \/ TakesEnd(t) /\ id = activeId

-----------------------------------------------------------------------------
(* A closed recording stays closed: the invariant *)

Core == TypeInv /\ LocksOwned /\ PastInv /\ WorkInv /\ MuteInv /\ StartOwn /\ ClosedInv

-----------------------------------------------------------------------------
(* A dictation in progress is held: the mode of the recording that runs *)

Starting == {"S0", "S1", "S2"}

\* A failure that met another active recording leaves that one alone.
Aside == \A t \in Threads : pc[t] = "F3" /\ ~loc[t].active => activeId # loc[t].id

-----------------------------------------------------------------------------
(* A dictation in progress is held: the invariant *)

\* Only the shortcut starts a dictation, and it is pressed while it does so.
NotesElsewhere == \A t \in Threads \ {"hotkey"} : pc[t] \in Starting => loc[t].mode = "note"
PressedFirst   == /\ pc["hotkey"] \in Starting => pressed \/ ~listening
                  /\ pc["hotkey"] \notin {"N0", "G0"}
\* The one who released the shortcut has not stopped the microphone yet.
HeldOrReleased ==
  recOn /\ listening /\ activeId # NoId /\ ModeOf(activeId) = "dictation" =>
    pressed \/ pc["hotkey"] \in {"Z0", "Z1"}

HeldInv == Aside /\ NotesElsewhere /\ PressedFirst /\ HeldOrReleased

-----------------------------------------------------------------------------
(* The indicator is lit while the microphone is on: a daemon without notes *)

Noted == {"N0", "G0", "T2", "T3", "T4", "P2", "P3", "X1", "X2"} \cup Discarding

\* Nobody is in the part of an operation that only a note gets to.
NoNote ==
  /\ \A t \in Threads : pc[t] \notin Noted /\ (pc[t] \in Starting => loc[t].mode = "dictation")
  /\ \A id \in Ids : sess[id].mode # "note"
  /\ ~paused /\ failing = {}

\* A failure that stops the capture was met by the one who had stopped the microphone.
Soft(t) == /\ pc[t] \in {"F2", "F3", "F4"} => loc[t].failMode = "dictation"
           /\ pc[t] \in Handler => loc[t].ret # "T4" /\ (loc[t].hard => loc[t].ret = "Z4")
           /\ pc[t] \in {"F3", "F4"} /\ loc[t].hard => ~loc[t].running
Lit == recOn => micShown

LightInv == NoNote /\ (\A t \in Threads : Soft(t)) /\ Lit

-----------------------------------------------------------------------------
(* The microphone runs for a recording that can be ended *)

Dropping == {"C4", "C5", "C6", "C7", "C8"}

\* A recording that may fail without taking the microphone with it: it is
\* closed, or a discard that will stop the microphone has marked it.
Condemned(id) == Closed(id) \/ \E t \in Threads : pc[t] \in Dropping /\ loc[t].id = id

Owned    == recOn => activeId # NoId \/ \E t \in Threads : pc[t] \in Dropping
FailsOff == pc["worker"] \in Handler => Condemned(loc["worker"].id)
DeadOff  == \A id \in Ids : Failed(id) => Condemned(id)
LostOff  == activeId \in Ids /\ sess[activeId].stt = 0 =>
              (\E t \in Threads : pc[t] = "S2") \/ Condemned(activeId)
OneModel == stt = 1 /\ \A id \in Ids : sess[id].stt \in {0, 1}

OrphanInv == Aside /\ Owned /\ FailsOff /\ DeadOff /\ LostOff /\ OneModel

-----------------------------------------------------------------------------
(* The text comes in the order it was spoken *)

Rising(q)    == \A i, j \in DOMAIN q : i < j => q[i] < q[j]
Below(q, c)  == \A i \in DOMAIN q : q[i] < c
Before(p, q) == \A i \in DOMAIN p, j \in DOMAIN q : p[i] < q[j]

\* What the queue holds of the recording comes after p; its chunks come in order.
Follows(p, id, q) == \A i \in DOMAIN q : q[i].id = id => Before(p, q[i].captures)
Sorted(q)         == \A i, j \in DOMAIN q :
                       i < j /\ q[i].id = q[j].id => Before(q[i].captures, q[j].captures)

\* In order, and handed over before capture m.
Neat(q, m)   == Rising(q) /\ Below(q, m)
Chunky(q, m) == \A i \in DOMAIN q : Neat(q[i].captures, m)

\* The first capture that nobody has handed over: the running one, the one on
\* its way to a queue, or the next.
Carries(t) == pc[t] \in {"P2", "Z2"} /\ loc[t].captures # <<>>
Mark == IF recOn \/ \E t \in Threads : Carries(t) THEN caps ELSE caps + 1

\* A recording that can still take text, and one whose end is still to come.
Alive(id) == sess[id].open \/ sess[id].note
Going(id) == Alive(id) /\ ~Ends(id)

\* The worker has a chunk in its hands, and has not stored its text yet.
Decoding  == {"H1", "H2", "H3", "H4", "H5", "H6"}
Storing   == Decoding \ {"H6"}

\* What is on its way, what is stored or delivered, what is queued, what was read
\* for the delivery.
HandOrder  == \A t \in Threads : Carries(t) => loc[t].captures = <<caps>>
TextOrder  == \A id \in Ids : Neat(sess[id].parts, Mark) /\ Neat(segs[id], Mark) /\ Rising(text[id])
QueueOrder == Sorted(partialQ) /\ Chunky(partialQ, Mark) /\ Chunky(finalQ, Mark)
SaidOrder  == pc["worker"] \in {"E2", "E3", "E4"} => Rising(loc["worker"].said)

\* What the worker has comes after what it has stored and before what is queued.
WorkOrder ==
  LET me == loc["worker"] IN
  pc["worker"] \in Decoding =>
    /\ Neat(me.captures, Mark)
    /\ pc["worker"] \in Storing /\ sess[me.id].note => Before(segs[me.id], me.captures)
    /\ sess[me.id].open => Before(sess[me.id].parts, me.captures)
    /\ Going(me.id) => Follows(me.captures, me.id, partialQ) /\ Follows(me.captures, me.id, finalQ)

\* What is stored comes before what is queued, and the last chunk after the partial ones.
StoreOrder(id) ==
  Going(id) => /\ \A q \in {partialQ, finalQ} : Follows(sess[id].parts, id, q) /\ Follows(segs[id], id, q)
               /\ \A i \in DOMAIN partialQ : partialQ[i].id = id => Follows(partialQ[i].captures, id, finalQ)

\* No audio is queued for the end of a recording that is being paused.
NotEnded == \A t \in Threads : pc[t] = "P2" =>
              \A i \in DOMAIN finalQ : finalQ[i].id = loc[t].id => finalQ[i].captures = <<>>

\* A recording that has failed or was typed takes no more text.
DeadStays ==
  /\ \A id \in Ids : Failed(id) /\ Alive(id) => pc["worker"] = "E4" /\ loc["worker"].id = id
  /\ \A t \in Threads : /\ pc[t] \in {"F2", "F3", "F4"} => ~sess[loc[t].id].note
                        /\ pc[t] = "F4" => ~sess[loc[t].id].open
  /\ pc["worker"] = "E4" /\ loc["worker"].mode # "note" => ~Alive(loc["worker"].id)

OrderInv == /\ HandOrder /\ TextOrder /\ QueueOrder /\ SaidOrder /\ WorkOrder
            /\ (\A id \in Ids : StoreOrder(id)) /\ NotEnded /\ DeadStays

\* A chunk with audio goes to a queue as the last capture handed over.
HandsOver(t) == /\ loc[t].captures = <<caps>> /\ loc[t].id \in Ids
                /\ [id |-> loc[t].id, captures |-> <<caps>>] \in Items
                /\ Mark = caps /\ Mark' = caps + 1

=============================================================================
