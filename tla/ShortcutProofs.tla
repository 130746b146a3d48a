--------------------------- MODULE ShortcutProofs ---------------------------
(***************************************************************************)
(* The shortcut, for any machine, keyboards, keys and combinations.        *)
(* First, when a listener may run: one thread at a time has the start, it  *)
(* is owed once and once more for every change of the combination, and who *)
(* has it meets no listener that still hears the keys.                     *)
(* Then, what is recorded: a key taken for held is heard by one listener,  *)
(* whose queue ends with what the key does now; the combination is pressed *)
(* for a listener that runs; and a dictation without it has the release on *)
(* its way, or a main thread that is about to end the recording.           *)
(***************************************************************************)
EXTENDS Shortcut, FiniteSetTheorems, TLAPS

Portal == backend = "portal"

\* A start is on its way.
Owed == \/ pc.M \in {"boot", "ask", "create", "begin", "again"}
        \/ pc.L \in {"create", "begin"} \/ pending
        \/ Portal /\ pc.M \in {"combo", "join"}

Started   == {i \in Threads : lis[i] # "none"}
NoneAlive == \A i \in Threads : ~Alive(i)

\* The threads are taken in turn, and there is one left for a start.
Room(n) == /\ Started = 1..n
           /\ backend = "evdev" => n <= Keyboards /\ (Owed => n = 0)
           /\ backend # "evdev" => n + (IF Owed THEN 1 ELSE 0) <= 1 + changes
RoomInv == \E n \in 0..(Keyboards + MaxCombos) : Room(n)

\* What the two ways of running the daemon do not do.
TrayInv   == mode = "tray" => /\ pc.L = "none" /\ ~pending /\ loaded /\ phase = "ready"
                              /\ pc.Q # "none" => pc.M \in {"idle", "over"}
WindowInv == mode = "window" => /\ pc.M \notin {"combo", "join", "again", "await again", "finish"}
                                /\ changes = 0
                                /\ (pc.M = "boot") <=> (pc.L = "none")
BootInv   == pc.M = "boot" => pc.Q = "none" /\ ~pending
PortalInv == pc.M \in {"await", "await again", "join", "again"} \/ pc.L = "await" => Portal
ModeInv   == TrayInv /\ WindowInv /\ BootInv /\ PortalInv

\* One of the two threads has the start.
Handover ==
  /\ pending => /\ pc.M \in {"idle", "over"} /\ pc.L \in {"load", "loaded", "take", "idle"}
                /\ pc.L = "idle" => phase = "failed"
  /\ pc.L \in {"create", "begin", "await"} => pc.M \in {"idle", "over"}
  /\ mode = "window" => (loaded <=> pc.L \notin {"none", "load", "loaded"})

PhaseInv ==
  /\ (phase = "loading") <=> (pc.L = "load" \/ (pc.L = "none" /\ mode = "window"))
  /\ \/ pc.M \in {"create", "begin", "await"} \/ pc.L \in {"take", "create", "begin", "await"}
     \/ Started # {}
     => phase = "ready"

\* Who has the start finds no backend, and begins with a new one.
FreshInv   == /\ pc.M = "create" \/ pc.L = "create" => ~obj
              /\ pc.M = "begin" \/ pc.L = "begin" => cur = 0
KeptInv    == mode = "tray" /\ pc.Q = "none" =>
                /\ pc.M \in {"boot", "ask"} => ~obj
                /\ pc.M \in {"combo", "join", "again", "await again"} => obj
                /\ backend = "evdev" /\ pc.M \in {"begin", "idle", "finish"} => obj
AwaitedInv == mode = "window" /\ Owed /\ pc.M # "begin" /\ pc.L # "begin" => ~obj
ObjInv     == FreshInv /\ KeptInv /\ AwaitedInv

AliveInv == backend # "evdev" =>
  /\ \A i, j \in Threads : Alive(i) /\ Alive(j) => i = j
  /\ Owed /\ pc.M \notin {"combo", "join"} => NoneAlive
  /\ err => Portal /\ NoneAlive
  /\ mode = "tray" /\ pc.Q = "none" /\ ~obj => NoneAlive
  /\ \A i \in Threads : Alive(i) => i = cur \/ pc.Q = "done"

Control  == ModeInv /\ Handover /\ PhaseInv
StartInv == TypeOK /\ Control /\ RoomInv /\ ObjInv /\ AliveInv

-----------------------------------------------------------------------------
(* Threads and events                                                        *)

LEMMA FreeThread ==
  ASSUME NEW n \in Nat, Started = 1..n, n < Keyboards + MaxCombos
  PROVE  First = n + 1 /\ First \in Threads
<1>1. n + 1 \in Threads /\ lis[n + 1] = "none"
  BY BoundsAssumption DEF Threads, Started
<1>2. \A j \in Threads : lis[j] = "none" => n + 1 <= j
  BY BoundsAssumption DEF Threads, Started
<1>3. \A i \in Threads : lis[i] = "none" /\ (\A j \in Threads : lis[j] = "none" => i <= j) => i = n + 1
  BY <1>1, <1>2, BoundsAssumption DEF Threads
<1>4. QED
  BY <1>1, <1>2, <1>3 DEF First

\* A thread to start in, for who begins.
LEMMA RoomToBegin ==
  ASSUME TypeOK, RoomInv, Owed
  PROVE  /\ First \in Threads /\ Started = 1..(First - 1) /\ (backend = "evdev" => First = 1)
         /\ backend # "evdev" => First <= 1 + changes
<1>1. PICK n \in 0..(Keyboards + MaxCombos) : Room(n)
  BY DEF RoomInv
<1>2. n < Keyboards + MaxCombos /\ n \in Nat /\ Started = 1..n
  BY <1>1, BoundsAssumption DEF Room, TypeOK, DaemonOK
<1>3. First = n + 1 /\ First \in Threads
  BY <1>2, FreeThread
<1>4. QED
  BY <1>1, <1>2, <1>3, BoundsAssumption DEF Room, TypeOK, DaemonOK

LEMMA NoEvents == <<>> \in Seq(Event)
  OBVIOUS

LEMMA DeliverType ==
  ASSUME TypeOK, NEW k \in Keys, NEW down \in BOOLEAN, Deliver(k, down)
  PROVE  q' \in [Threads -> Seq(Event)]
<1>1. \A b \in BOOLEAN : <<[key |-> k, down |-> b]>> \in Seq(Event)
  BY DEF Event
<1>2. \A i \in Threads : q[i] \in Seq(Event) /\ <<>> \in Seq(Event)
  BY NoEvents DEF TypeOK, KeysOK
<1>3. \A x \in Seq(Event), y \in Seq(Event) : x \o y \in Seq(Event)
  OBVIOUS
<1>4. ComboActive(held', trigger) \in BOOLEAN
  BY DEF ComboActive
<1>5. \E event \in Seq(Event) : q' = [i \in Threads |-> IF Sees(i, k) THEN q[i] \o event ELSE q[i]]
  BY <1>1, <1>2, <1>4 DEF Deliver
<1>6. QED
  BY <1>2, <1>3, <1>5

LEMMA LoadType ==
  ASSUME LoadOK, [Next]_vars
  PROVE  LoadOK'
<1>0. CASE Boot \/ LoadEnds \/ Loaded
  BY <1>0 DEF LoadOK, Boot, LoadEnds, Loaded, At, Goto, load
<1>1. CASE StartPending \/ StartWhenReady
  BY <1>1 DEF LoadOK, StartPending, TakePending, StartWhenReady, Ask, At, Goto
<1>2. ASSUME NEW t \in {"M", "L"}, Create(t) PROVE LoadOK'
  BY <1>2 DEF LoadOK, Create, Fails, At, Goto, load
<1>3. ASSUME NEW t \in {"M", "L"}, NEW l \in {"begin", "again"}, Begin(t, l) PROVE LoadOK'
  <2>1. t = "L" => l = "begin"
    BY <1>3 DEF Begin, At, LoadOK
  <2>2. QED
    BY <1>3, <2>1 DEF LoadOK, Begin, Then, Goto, load
<1>4. ASSUME NEW t \in {"M", "L"}, NEW l \in {"await", "await again"}, Await(t, l) PROVE LoadOK'
  BY <1>4 DEF LoadOK, Await, Then, Fails, At, Goto, load
<1>5. CASE Listening \/ Trouble
  BY <1>5 DEF Listening, PortalAnswers, PortalOpens, PortalDenied, PortalEnds, Handle,
     Callback, OnPress, StartRecording, OnRelease, Returns, Trouble,
     PortalClosed, Unplugged, LoadOK, load
<1>6. CASE Typing \/ Changing
  BY <1>6 DEF Typing, Stroke, Changing, ApplyCombo, Rejoin, EndRecording, At, Goto, LoadOK, load
<1>7. CASE Quitting \/ Quit \/ Exit
  BY <1>7 DEF Quitting, QuitRecording, StopListening, StopJoins, Quit, Exit, At, Goto, LoadOK, load
<1>8. ASSUME NEW c \in Combos, SetCombo(c) PROVE LoadOK'
  BY <1>8 DEF SetCombo, At, Goto, LoadOK, load
<1>9. CASE UNCHANGED vars
  BY <1>9 DEF vars, LoadOK, load
<1>10. QED
  BY <1>0, <1>1, <1>2, <1>3, <1>4, <1>5, <1>6, <1>7, <1>8, <1>9 DEF Next, Starting, Ended

LEMMA BackendType ==
  ASSUME TypeOK, RoomInv, [Next]_vars
  PROVE  BackendOK'
<1>0. BackendOK /\ LoadOK
  BY DEF TypeOK
<1>1. CASE Boot \/ LoadEnds \/ Loaded \/ StartPending \/ StartWhenReady
  BY <1>0, <1>1 DEF BackendOK, Boot, LoadEnds, Loaded, StartPending, StartWhenReady, fixed, back
<1>2. ASSUME NEW t \in {"M", "L"}, Create(t) PROVE BackendOK'
  BY <1>0, <1>2 DEF BackendOK, Create, Fails, fixed
<1>3. ASSUME NEW t \in {"M", "L"}, NEW l \in {"begin", "again"}, Begin(t, l) PROVE BackendOK'
  <2>1. pc[t] = l /\ (t = "L" => l = "begin")
    BY <1>0, <1>3 DEF Begin, At, LoadOK
  <2>2. First \in Threads
    BY <2>1, RoomToBegin DEF Owed
  <2>3. QED
    BY <1>0, <1>3, <2>2 DEF BackendOK, Begin, back, fixed
<1>4. ASSUME NEW t \in {"M", "L"}, NEW l \in {"await", "await again"}, Await(t, l) PROVE BackendOK'
  BY <1>0, <1>4 DEF BackendOK, Await, fixed
<1>5. ASSUME NEW i \in Threads, PortalAnswers(i) \/ PortalEnds(i) \/ Handle(i) \/ Callback(i)
      PROVE  BackendOK'
  <2>1. CASE PortalAnswers(i) \/ PortalEnds(i)
    BY <1>0, <2>1 DEF PortalAnswers, PortalOpens, PortalDenied, PortalEnds, BackendOK, fixed
  <2>2. QED
    BY <1>0, <1>5, <2>1 DEF Handle, Callback, OnPress, StartRecording, OnRelease, Returns, BackendOK, fixed, back
<1>11. CASE Trouble
  BY <1>0, <1>11 DEF Trouble, PortalClosed, Unplugged, BackendOK, fixed, back
<1>6. CASE Typing \/ Changing
  BY <1>0, <1>6 DEF Typing, Stroke, Changing, ApplyCombo, Rejoin, EndRecording, BackendOK, fixed, back
<1>7. CASE Quitting \/ Quit \/ Exit
  BY <1>0, <1>7 DEF Quitting, QuitRecording, StopListening, StopJoins, Quit, Exit, BackendOK, fixed, back
<1>8. ASSUME NEW c \in Combos, SetCombo(c) PROVE BackendOK'
  BY <1>0, <1>8 DEF SetCombo, BackendOK, fixed, back
<1>9. CASE UNCHANGED vars
  BY <1>0, <1>9 DEF vars, BackendOK, fixed, back
<1>10. QED
  BY <1>1, <1>2, <1>3, <1>4, <1>5, <1>6, <1>7, <1>8, <1>9, <1>11 DEF Next, Starting, Listening, Ended

LEMMA KeysType ==
  ASSUME TypeOK, [Next]_vars
  PROVE  KeysOK'
<1>0. KeysOK /\ <<>> \in Seq(Event)
  BY NoEvents DEF TypeOK
<1>1. CASE Starting
  BY <1>0, <1>1 DEF KeysOK, Starting, Boot, LoadEnds, Loaded, StartPending, StartWhenReady, Create, Begin, Await, keys
<1>2. ASSUME NEW i \in Threads, PortalAnswers(i) \/ PortalEnds(i) PROVE KeysOK'
  BY <1>0, <1>2 DEF KeysOK, PortalAnswers, PortalOpens, PortalDenied, PortalEnds, keys
<1>3. ASSUME NEW i \in Threads, Handle(i) PROVE KeysOK'
  <2>1. q[i] \in Seq(Event) /\ q[i] # <<>>
    BY <1>0, <1>3 DEF KeysOK, Handle
  <2>2. Tail(q[i]) \in Seq(Event) /\ Head(q[i]) \in Event
    BY <2>1
  <2>3. q' \in [Threads -> Seq(Event)]
    BY <1>0, <1>3, <2>2 DEF Handle, KeysOK
  <2>4. names' \subseteq Keys
    BY <1>0, <1>3, <2>2 DEF Handle, Names, KeysOK, Event
  <2>5. pressed' \in BOOLEAN
    <3>1. ComboActive(Names(Head(q[i])), combo) \in BOOLEAN
      BY DEF ComboActive
    <3>2. QED
      BY <1>0, <1>3, <2>2, <3>1 DEF Handle, Pressed, KeysOK, Event
  <2>6. cb' \in [Threads -> {"none", "press", "start", "release"}]
    BY <1>0, <1>3 DEF Handle, KeysOK
  <2>7. QED
    BY <2>3, <2>4, <2>5, <2>6 DEF KeysOK
<1>4. ASSUME NEW i \in Threads, Callback(i) \/ PortalClosed(i) \/ Unplugged(i) PROVE KeysOK'
  BY <1>0, <1>4 DEF KeysOK, Callback, OnPress, StartRecording, OnRelease, Returns, PortalClosed, Unplugged, keys
<1>5. ASSUME NEW k \in Keys, NEW down \in BOOLEAN, Stroke(k, down) PROVE KeysOK'
  <2>1. q' \in [Threads -> Seq(Event)]
    BY <1>5, DeliverType DEF Stroke
  <2>2. QED
    BY <1>0, <1>5, <2>1 DEF KeysOK, Stroke, keys
<1>6. CASE Changing
  BY <1>0, <1>6 DEF Changing, ApplyCombo, ForgetKeys, Rejoin, EndRecording, KeysOK, keys
<1>7. CASE Quitting \/ Quit \/ Exit
  BY <1>0, <1>7 DEF Quitting, QuitRecording, StopListening, StopJoins, Quit, Exit, KeysOK, keys
<1>8. ASSUME NEW c \in Combos, SetCombo(c) PROVE KeysOK'
  BY <1>0, <1>8 DEF SetCombo, KeysOK, keys
<1>9. CASE UNCHANGED vars
  BY <1>0, <1>9 DEF vars, KeysOK, keys
<1>10. QED
  BY <1>1, <1>2, <1>3, <1>4, <1>5, <1>6, <1>7, <1>8, <1>9 DEF Next, Listening, Trouble, Typing, Ended

LEMMA DaemonType ==
  ASSUME TypeOK, [Next]_vars
  PROVE  DaemonOK'
<1>0. DaemonOK
  BY DEF TypeOK
<1>1. CASE Starting
  <2>1. UNCHANGED <<combo, trigger, user, daemon>>
    BY <1>1 DEF Starting, Boot, LoadEnds, Loaded, StartPending, StartWhenReady, Create, Begin, Await
  <2>2. told' \in BOOLEAN /\ excused' \in BOOLEAN
    BY <1>0, <1>1 DEF DaemonOK, Starting, Boot, LoadEnds, Loaded, StartPending, StartWhenReady, Create, Begin, Await,
       Fails
  <2>3. QED
    BY <1>0, <2>1, <2>2 DEF DaemonOK, user, daemon
<1>2. CASE Listening
  BY <1>0, <1>2 DEF DaemonOK, Listening, PortalAnswers, PortalOpens, PortalDenied, PortalEnds, Handle,
     Callback, OnPress, StartRecording, OnRelease, Returns,
     user, daemon
<1>4. CASE Trouble
  BY <1>0, <1>4 DEF DaemonOK, Trouble, PortalClosed, Unplugged, user, daemon
<1>5. ASSUME NEW k \in Keys, NEW down \in BOOLEAN, Stroke(k, down) PROVE DaemonOK'
  BY <1>0, <1>5, BoundsAssumption DEF DaemonOK, Stroke, daemon
<1>6. CASE Changing \/ Quitting \/ Quit \/ Exit
  BY <1>0, <1>6 DEF Changing, ApplyCombo, Rejoin, EndRecording, Quitting, QuitRecording, StopListening, StopJoins,
     Quit, Exit, Finish, DaemonOK, user, daemon
<1>8. ASSUME NEW c \in Combos, SetCombo(c) PROVE DaemonOK'
  <2>1. changes' \in 0..MaxCombos
    BY <1>0, <1>8, BoundsAssumption DEF SetCombo, DaemonOK
  <2>2. combo' \in Combos /\ told' \in BOOLEAN
    BY <1>0, <1>8 DEF SetCombo, DaemonOK
  <2>3. UNCHANGED <<trigger, held, strokes, active, stop, dictating, late, excused>>
    BY <1>8 DEF SetCombo, daemon
  <2>4. QED
    BY <1>0, <2>1, <2>2, <2>3 DEF DaemonOK
<1>9. CASE UNCHANGED vars
  BY <1>0, <1>9 DEF vars, DaemonOK, user, daemon
<1>10. QED
  BY <1>1, <1>2, <1>4, <1>5, <1>6, <1>8, <1>9 DEF Next, Typing, Ended

LEMMA NextType == TypeOK /\ RoomInv /\ [Next]_vars => TypeOK'
  BY LoadType, BackendType, KeysType, DaemonType DEF TypeOK

-----------------------------------------------------------------------------
(* Which thread has the start                                                *)

LEMMA ListenersOnly ==
  ASSUME BackendOK, Listening \/ Trouble \/ Typing \/ UNCHANGED vars
  PROVE  /\ UNCHANGED <<fixed, load, pc, obj, cur, changes>>
         /\ Started' = Started
         /\ \A i \in Threads : Alive(i)' => Alive(i)
<1>1. ASSUME NEW i \in Threads, PortalAnswers(i) \/ PortalEnds(i)
      PROVE  /\ UNCHANGED <<fixed, load, pc, obj, cur, changes>>
             /\ Started' = Started
             /\ \A j \in Threads : Alive(j)' => Alive(j)
  BY <1>1 DEF PortalAnswers, PortalOpens, PortalDenied, PortalEnds, BackendOK, Started, Alive, user
<1>2. ASSUME NEW i \in Threads, PortalClosed(i) \/ Unplugged(i)
      PROVE  /\ UNCHANGED <<fixed, load, pc, obj, cur, changes>>
             /\ Started' = Started
             /\ \A j \in Threads : Alive(j)' => Alive(j)
  BY <1>2 DEF PortalClosed, Unplugged, BackendOK, Started, Alive, user
<1>3. ASSUME NEW i \in Threads, Handle(i) \/ Callback(i)
      PROVE  UNCHANGED <<fixed, load, pc, back, changes>>
  BY <1>3 DEF Handle, Callback, OnPress, StartRecording, OnRelease, Returns, user
<1>4. CASE Typing \/ UNCHANGED vars
  BY <1>4 DEF Typing, Stroke, vars, back, user, Started, Alive
<1>5. CASE Listening
  BY <1>1, <1>3, <1>5 DEF Listening, back, Started, Alive
<1>6. CASE Trouble
  BY <1>2, <1>6 DEF Trouble
<1>7. QED
  BY <1>4, <1>5, <1>6

\* A step of one of the three threads of the program.
OnlyM(from, to) == pc.M = from /\ pc'.M = to /\ pc'.L = pc.L /\ pc'.Q = pc.Q
OnlyL(from, to) == pc.L = from /\ pc'.L = to /\ pc'.M = pc.M /\ pc'.Q = pc.Q
OnlyQ(from, to) == pc.Q = from /\ pc'.Q = to /\ pc'.M = pc.M /\ pc'.L = pc.L

LEMMA Goes ==
  ASSUME LoadOK, NEW to
  PROVE  /\ Goto("M", to) => OnlyM(pc.M, to)
         /\ Goto("L", to) => OnlyL(pc.L, to)
         /\ Goto("Q", to) => OnlyQ(pc.Q, to)
  BY DEF LoadOK, Goto, OnlyM, OnlyL, OnlyQ

Machine == <<mode, backend, changes>>

LEMMA LoadMoves ==
  ASSUME LoadOK
  PROVE  /\ Boot => /\ pc.M = "boot" /\ pc'.M = "ask" /\ pc'.L = (IF mode = "window" THEN "load" ELSE "none")
                    /\ pc'.Q = pc.Q /\ UNCHANGED <<Machine, load, back>>
         /\ LoadEnds => /\ OnlyL("load", "loaded") /\ phase' \in {"ready", "failed"}
                        /\ UNCHANGED <<Machine, loaded, pending, back>>
         /\ Loaded => /\ OnlyL("loaded", IF phase = "ready" THEN "take" ELSE "idle") /\ loaded' = TRUE
                      /\ UNCHANGED <<Machine, phase, pending, back>>
         /\ StartPending => /\ OnlyL("take", IF ~pending \/ stop THEN "idle" ELSE "create") /\ pending' = FALSE
                            /\ UNCHANGED <<Machine, phase, loaded, back>>
         /\ StartWhenReady => /\ OnlyM("ask", IF loaded /\ phase = "ready" THEN "create" ELSE "idle")
                              /\ pending' = (IF loaded THEN pending ELSE TRUE)
                              /\ UNCHANGED <<Machine, phase, loaded, back>>
<1>1. Boot => /\ pc.M = "boot" /\ pc'.M = "ask" /\ pc'.L = (IF mode = "window" THEN "load" ELSE "none")
              /\ pc'.Q = pc.Q /\ UNCHANGED <<Machine, load, back>>
  BY DEF LoadOK, Boot, At, fixed, user, Machine
<1>2. LoadEnds \/ Loaded \/ StartPending \/ StartWhenReady => UNCHANGED <<Machine, back>>
  BY DEF LoadEnds, Loaded, StartPending, StartWhenReady, fixed, user, Machine
<1>3. QED
  BY <1>1, <1>2, Goes DEF LoadEnds, Loaded, StartPending, TakePending, StartWhenReady, Ask, At

LEMMA CreateMoves ==
  ASSUME LoadOK, NEW t \in {"M", "L"}, Create(t)
  PROVE  /\ \/ t = "M" /\ \E to \in {"begin", "idle", "over"} : OnlyM("create", to)
            \/ t = "L" /\ \E to \in {"begin", "idle"} : OnlyL("create", to)
         /\ mode = "tray" => pc'.M # "over" \/ pc.M = "over"
         /\ UNCHANGED <<Machine, load, lis, err>>
         /\ \/ pc'[t] = "begin" /\ obj' /\ (~obj => cur' = 0)
            \/ pc'[t] # "begin" /\ backend = "none" /\ UNCHANGED <<obj, cur>>
<1>1. UNCHANGED <<Machine, load, lis, err>>
  BY DEF Create, fixed, user, Machine
<1>2. /\ pc[t] = "create"
      /\ \E to : /\ Goto(t, to)
                 /\ \/ to = "begin" /\ obj' /\ (~obj => cur' = 0)
                    \/ /\ to = (IF t = "M" /\ mode = "window" THEN "over" ELSE "idle")
                       /\ backend = "none" /\ UNCHANGED <<obj, cur>>
  BY DEF Create, Fails, At
<1>3. QED
  BY <1>1, <1>2, Goes DEF OnlyM, OnlyL

\* What a start does to the listeners.
Spawns == /\ obj /\ ~Known /\ obj' /\ cur' = First
          /\ lis' = [i \in Threads |-> IF i \notin Spawned THEN lis[i]
                                       ELSE IF Portal THEN "connecting" ELSE "running"]
          /\ IF Portal THEN ~err' ELSE UNCHANGED err

LEMMA BeginMoves ==
  ASSUME LoadOK, NEW t \in {"M", "L"}, NEW l \in {"begin", "again"}, Begin(t, l)
  PROVE  /\ t = "L" => l = "begin"
         /\ UNCHANGED <<Machine, load>>
         /\ \E to : /\ (t = "M" /\ OnlyM(l, to)) \/ (t = "L" /\ OnlyL(l, to))
                    /\ \/ /\ ~obj /\ UNCHANGED back
                          /\ to = (IF t = "M" THEN "over" ELSE "idle")
                       \/ obj /\ Known /\ UNCHANGED back /\ to = Then(t)
                       \/ /\ Spawns
                          /\ to = (IF ~Portal THEN Then(t) ELSE IF l = "begin" THEN "await" ELSE "await again")
<1>1. UNCHANGED <<Machine, load>> /\ pc[t] = l
  BY DEF Begin, At, fixed, user, Machine
<1>2. t = "L" => l = "begin"
  BY <1>1 DEF LoadOK
<1>3. PICK to : /\ Goto(t, to)
                /\ \/ /\ ~obj /\ UNCHANGED back
                      /\ to = (IF t = "M" THEN "over" ELSE "idle")
                   \/ obj /\ Known /\ UNCHANGED back /\ to = Then(t)
                   \/ /\ Spawns
                      /\ to = (IF ~Portal THEN Then(t) ELSE IF l = "begin" THEN "await" ELSE "await again")
  BY DEF Begin, Spawns, Portal
<1>4. (t = "M" /\ OnlyM(l, to)) \/ (t = "L" /\ OnlyL(l, to))
  BY <1>1, <1>3, Goes
<1>5. QED
  BY <1>1, <1>2, <1>3, <1>4

LEMMA AwaitMoves ==
  ASSUME LoadOK, NEW t \in {"M", "L"}, NEW l \in {"await", "await again"}, Await(t, l)
  PROVE  /\ t = "L" => l = "await"
         /\ UNCHANGED <<Machine, load, lis, err>>
         /\ \E to : /\ (t = "M" /\ OnlyM(l, to)) \/ (t = "L" /\ OnlyL(l, to))
                    /\ \/ /\ err /\ cur' = 0 /\ obj' = (obj /\ l = "await again")
                          /\ to = (IF t = "M" /\ mode = "window" THEN "over" ELSE "idle")
                       \/ UNCHANGED <<cur, obj>> /\ to = Then(t)
<1>1. UNCHANGED <<Machine, load, lis, err>> /\ pc[t] = l
  BY DEF Await, At, fixed, user, Machine
<1>2. t = "L" => l = "await"
  BY <1>1 DEF LoadOK
<1>3. PICK to : /\ Goto(t, to)
                /\ \/ /\ err /\ cur' = 0 /\ obj' = (obj /\ l = "await again")
                      /\ to = (IF t = "M" /\ mode = "window" THEN "over" ELSE "idle")
                   \/ UNCHANGED <<cur, obj>> /\ to = Then(t)
  BY DEF Await, Fails
<1>4. (t = "M" /\ OnlyM(l, to)) \/ (t = "L" /\ OnlyL(l, to))
  BY <1>1, <1>3, Goes
<1>5. QED
  BY <1>1, <1>2, <1>3, <1>4

LEMMA ChangeMoves ==
  ASSUME LoadOK
  PROVE  /\ ApplyCombo => /\ OnlyM("combo", IF Portal /\ Known THEN "join" ELSE "finish")
                          /\ UNCHANGED <<Machine, load, obj, cur, lis, err>>
         /\ Rejoin => /\ OnlyM("join", "again") /\ ~Alive(cur) /\ cur' = 0
                      /\ UNCHANGED <<Machine, load, obj, lis, err>>
         /\ EndRecording => OnlyM("finish", "idle") /\ UNCHANGED <<Machine, load, back>>
         /\ \A c \in Combos : SetCombo(c) =>
              /\ mode = "tray" /\ pc.Q = "none" /\ pc.M = "idle" /\ UNCHANGED <<mode, backend, load, back>>
              /\ changes' = changes + 1
              /\ \/ OnlyM("idle", IF obj THEN "combo" ELSE "ask")
                 \/ Portal /\ UNCHANGED pc
<1>1. ApplyCombo => /\ OnlyM("combo", IF Portal /\ Known THEN "join" ELSE "finish")
                    /\ UNCHANGED <<Machine, load, obj, cur, lis, err>>
  BY Goes DEF ApplyCombo, At, fixed, user, Machine, Portal
<1>2. Rejoin => /\ OnlyM("join", "again") /\ ~Alive(cur) /\ cur' = 0
                /\ UNCHANGED <<Machine, load, obj, lis, err>>
  BY Goes DEF Rejoin, Join, At, fixed, user, Machine
<1>3. EndRecording => OnlyM("finish", "idle") /\ UNCHANGED <<Machine, load, back>>
  BY Goes DEF EndRecording, At, fixed, user, Machine
<1>4. ASSUME NEW c \in Combos, SetCombo(c)
      PROVE  /\ mode = "tray" /\ pc.Q = "none" /\ pc.M = "idle" /\ UNCHANGED <<mode, backend, load, back>>
             /\ changes' = changes + 1
             /\ \/ OnlyM("idle", IF obj THEN "combo" ELSE "ask")
                \/ Portal /\ UNCHANGED pc
  BY <1>4, Goes DEF SetCombo, Refused, Portal, At, fixed
<1>5. QED
  BY <1>1, <1>2, <1>3, <1>4

LEMMA QuitMoves ==
  ASSUME LoadOK, BackendOK
  PROVE  /\ Quit => /\ pc.M # "boot" /\ (mode = "tray" => pc.M = "idle")
                    /\ OnlyQ("none", "finish") /\ UNCHANGED <<Machine, load, back>>
         /\ QuitRecording => OnlyQ("finish", "stop") /\ UNCHANGED <<Machine, load, back>>
         /\ StopListening => \/ OnlyQ("stop", "join") /\ UNCHANGED <<Machine, load, obj, cur, lis, err>>
                             \/ /\ OnlyQ("stop", "done") /\ ~obj' /\ cur' = 0
                                /\ \A i \in Threads : lis'[i] = IF obj /\ Alive(i) THEN "over" ELSE lis[i]
                                /\ UNCHANGED <<Machine, load, err>>
         /\ StopJoins => /\ OnlyQ("join", "done") /\ ~obj' /\ cur' = 0
                         /\ UNCHANGED <<Machine, load, lis, err>>
         /\ Exit => OnlyM("idle", "over") /\ UNCHANGED <<Machine, load, back>>
<1>1. Quit => /\ pc.M # "boot" /\ (mode = "tray" => pc.M = "idle")
              /\ OnlyQ("none", "finish") /\ UNCHANGED <<Machine, load, back>>
  BY Goes DEF Quit, fixed, user, Machine, BackendOK
<1>2. QuitRecording => OnlyQ("finish", "stop") /\ UNCHANGED <<Machine, load, back>>
  BY Goes DEF QuitRecording, At, fixed, user, Machine
<1>3. ASSUME StopListening
      PROVE  \/ OnlyQ("stop", "join") /\ UNCHANGED <<Machine, load, obj, cur, lis, err>>
             \/ /\ OnlyQ("stop", "done") /\ ~obj' /\ cur' = 0
                /\ \A i \in Threads : lis'[i] = IF obj /\ Alive(i) THEN "over" ELSE lis[i]
                /\ UNCHANGED <<Machine, load, err>>
  BY <1>3, Goes DEF StopListening, At, fixed, user, Machine
<1>4. StopJoins => /\ OnlyQ("join", "done") /\ ~obj' /\ cur' = 0
                   /\ UNCHANGED <<Machine, load, lis, err>>
  BY Goes DEF StopJoins, At, fixed, user, Machine
<1>5. Exit => OnlyM("idle", "over") /\ UNCHANGED <<Machine, load, back>>
  BY Goes DEF Exit, At, fixed, user, Machine
<1>6. QED
  BY <1>1, <1>2, <1>3, <1>4, <1>5

LEMMA ThenIdle == changes = 0 => \A t : Then(t) = "idle"
  BY DEF Then

LEMMA TrayStep ==
  ASSUME TypeOK, Control, [Next]_vars
  PROVE  TrayInv'
<1>0. LoadOK /\ BackendOK /\ ModeInv /\ Handover /\ PhaseInv /\ mode \in {"window", "tray"} /\ changes \in Nat
  BY DEF TypeOK, BackendOK, DaemonOK, Control
<1>1. CASE Boot \/ LoadEnds \/ Loaded \/ StartPending \/ StartWhenReady
  BY <1>0, <1>1, LoadMoves DEF ModeInv, TrayInv, PhaseInv, OnlyM, OnlyL, Machine, load
<1>2. ASSUME NEW t \in {"M", "L"}, Create(t) PROVE TrayInv'
  BY <1>0, <1>2, CreateMoves DEF ModeInv, TrayInv, OnlyM, OnlyL, Machine, load
<1>3. ASSUME NEW t \in {"M", "L"}, NEW l \in {"begin", "again"}, Begin(t, l) PROVE TrayInv'
  BY <1>0, <1>3, BeginMoves DEF ModeInv, TrayInv, OnlyM, OnlyL, Then, Machine, load
<1>4. ASSUME NEW t \in {"M", "L"}, NEW l \in {"await", "await again"}, Await(t, l) PROVE TrayInv'
  BY <1>0, <1>4, AwaitMoves DEF ModeInv, TrayInv, OnlyM, OnlyL, Then, Machine, load
<1>5. CASE Listening \/ Trouble \/ Typing \/ UNCHANGED vars
  BY <1>0, <1>5, ListenersOnly DEF ModeInv, TrayInv, fixed, load
<1>6. CASE Changing \/ \E c \in Combos : SetCombo(c)
  BY <1>0, <1>6, ChangeMoves DEF Changing, ModeInv, TrayInv, Portal, OnlyM, Machine, load
<1>7. CASE Quitting \/ Quit \/ Exit
  BY <1>0, <1>7, QuitMoves DEF Quitting, ModeInv, TrayInv, OnlyM, OnlyQ, Machine, load
<1>8. QED
  BY <1>1, <1>2, <1>3, <1>4, <1>5, <1>6, <1>7 DEF Next, Starting, Ended

LEMMA WindowStep ==
  ASSUME TypeOK, Control, [Next]_vars
  PROVE  WindowInv'
<1>0. LoadOK /\ BackendOK /\ ModeInv /\ Handover /\ PhaseInv /\ mode \in {"window", "tray"} /\ changes \in Nat
  BY DEF TypeOK, BackendOK, DaemonOK, Control
<1>1. CASE Boot \/ LoadEnds \/ Loaded \/ StartPending \/ StartWhenReady
  BY <1>0, <1>1, LoadMoves DEF ModeInv, WindowInv, PhaseInv, OnlyM, OnlyL, Machine, load
<1>2. ASSUME NEW t \in {"M", "L"}, Create(t) PROVE WindowInv'
  BY <1>0, <1>2, CreateMoves DEF ModeInv, WindowInv, OnlyM, OnlyL, Machine, load
<1>3. ASSUME NEW t \in {"M", "L"}, NEW l \in {"begin", "again"}, Begin(t, l) PROVE WindowInv'
  <2>1. PICK to : /\ (t = "M" /\ OnlyM(l, to)) \/ (t = "L" /\ l = "begin" /\ OnlyL(l, to))
                  /\ to \in {IF t = "M" THEN "over" ELSE "idle", Then(t), IF l = "begin" THEN "await" ELSE "await again"}
    BY <1>0, <1>3, BeginMoves
  <2>2. UNCHANGED Machine
    BY <1>0, <1>3, BeginMoves
  <2>3. mode = "window" => to \in {"over", "idle", "await"}
    <3>1. mode = "window" => pc.M \notin {"again", "await again"}
      BY <1>0 DEF ModeInv, WindowInv
    <3>2. mode = "window" => Then(t) = "idle"
      <4>1. mode = "window" => changes = 0
        BY <1>0 DEF ModeInv, WindowInv
      <4>2. QED
        BY <4>1, ThenIdle
    <3>3. QED
      BY <2>1, <3>1, <3>2 DEF OnlyM
  <2>4. QED
    BY <1>0, <2>1, <2>2, <2>3 DEF ModeInv, WindowInv, OnlyM, OnlyL, Machine
<1>4. ASSUME NEW t \in {"M", "L"}, NEW l \in {"await", "await again"}, Await(t, l) PROVE WindowInv'
  <2>1. PICK to : /\ (t = "M" /\ OnlyM(l, to)) \/ (t = "L" /\ l = "await" /\ OnlyL(l, to))
                  /\ to \in {IF t = "M" /\ mode = "window" THEN "over" ELSE "idle", Then(t)}
    BY <1>0, <1>4, AwaitMoves
  <2>2. UNCHANGED Machine
    BY <1>0, <1>4, AwaitMoves
  <2>3. mode = "window" => to \in {"over", "idle"}
    <3>1. mode = "window" => pc.M \notin {"again", "await again"}
      BY <1>0 DEF ModeInv, WindowInv
    <3>2. mode = "window" => Then(t) = "idle"
      <4>1. mode = "window" => changes = 0
        BY <1>0 DEF ModeInv, WindowInv
      <4>2. QED
        BY <4>1, ThenIdle
    <3>3. QED
      BY <2>1, <3>1, <3>2 DEF OnlyM
  <2>4. QED
    BY <1>0, <2>1, <2>2, <2>3 DEF ModeInv, WindowInv, OnlyM, OnlyL, Machine
<1>5. CASE Listening \/ Trouble \/ Typing \/ UNCHANGED vars
  BY <1>0, <1>5, ListenersOnly DEF ModeInv, WindowInv, fixed, load
<1>6. CASE Changing \/ \E c \in Combos : SetCombo(c)
  BY <1>0, <1>6, ChangeMoves DEF Changing, ModeInv, WindowInv, Portal, OnlyM, Machine, load
<1>7. CASE Quitting \/ Quit \/ Exit
  BY <1>0, <1>7, QuitMoves DEF Quitting, ModeInv, WindowInv, OnlyM, OnlyQ, Machine, load
<1>8. QED
  BY <1>1, <1>2, <1>3, <1>4, <1>5, <1>6, <1>7 DEF Next, Starting, Ended

LEMMA BootStep ==
  ASSUME TypeOK, Control, [Next]_vars
  PROVE  BootInv'
<1>0. LoadOK /\ BackendOK /\ ModeInv /\ Handover /\ PhaseInv /\ mode \in {"window", "tray"} /\ changes \in Nat
  BY DEF TypeOK, BackendOK, DaemonOK, Control
<1>1. CASE Boot \/ LoadEnds \/ Loaded \/ StartPending \/ StartWhenReady
  BY <1>0, <1>1, LoadMoves DEF ModeInv, BootInv, PhaseInv, OnlyM, OnlyL, Machine, load
<1>2. ASSUME NEW t \in {"M", "L"}, Create(t) PROVE BootInv'
  BY <1>0, <1>2, CreateMoves DEF ModeInv, BootInv, OnlyM, OnlyL, Machine, load
<1>3. ASSUME NEW t \in {"M", "L"}, NEW l \in {"begin", "again"}, Begin(t, l) PROVE BootInv'
  BY <1>0, <1>3, BeginMoves DEF ModeInv, BootInv, OnlyM, OnlyL, Then, Machine, load
<1>4. ASSUME NEW t \in {"M", "L"}, NEW l \in {"await", "await again"}, Await(t, l) PROVE BootInv'
  BY <1>0, <1>4, AwaitMoves DEF ModeInv, BootInv, OnlyM, OnlyL, Then, Machine, load
<1>5. CASE Listening \/ Trouble \/ Typing \/ UNCHANGED vars
  BY <1>0, <1>5, ListenersOnly DEF ModeInv, BootInv, fixed, load
<1>6. CASE Changing \/ \E c \in Combos : SetCombo(c)
  BY <1>0, <1>6, ChangeMoves DEF Changing, ModeInv, BootInv, Portal, OnlyM, Machine, load
<1>7. CASE Quitting \/ Quit \/ Exit
  BY <1>0, <1>7, QuitMoves DEF Quitting, ModeInv, BootInv, OnlyM, OnlyQ, Machine, load
<1>8. QED
  BY <1>1, <1>2, <1>3, <1>4, <1>5, <1>6, <1>7 DEF Next, Starting, Ended

LEMMA PortalStep ==
  ASSUME TypeOK, Control, [Next]_vars
  PROVE  PortalInv'
<1>0. LoadOK /\ BackendOK /\ ModeInv /\ Handover /\ PhaseInv /\ mode \in {"window", "tray"} /\ changes \in Nat
  BY DEF TypeOK, BackendOK, DaemonOK, Control
<1>1. CASE Boot \/ LoadEnds \/ Loaded \/ StartPending \/ StartWhenReady
  BY <1>0, <1>1, LoadMoves DEF ModeInv, PortalInv, Portal, PhaseInv, OnlyM, OnlyL, Machine, load
<1>2. ASSUME NEW t \in {"M", "L"}, Create(t) PROVE PortalInv'
  BY <1>0, <1>2, CreateMoves DEF ModeInv, PortalInv, Portal, OnlyM, OnlyL, Machine, load
<1>3. ASSUME NEW t \in {"M", "L"}, NEW l \in {"begin", "again"}, Begin(t, l) PROVE PortalInv'
  BY <1>0, <1>3, BeginMoves DEF ModeInv, PortalInv, Portal, OnlyM, OnlyL, Then, Machine, load
<1>4. ASSUME NEW t \in {"M", "L"}, NEW l \in {"await", "await again"}, Await(t, l) PROVE PortalInv'
  BY <1>0, <1>4, AwaitMoves DEF ModeInv, PortalInv, Portal, OnlyM, OnlyL, Then, Machine, load
<1>5. CASE Listening \/ Trouble \/ Typing \/ UNCHANGED vars
  BY <1>0, <1>5, ListenersOnly DEF ModeInv, PortalInv, Portal, fixed, load
<1>6. CASE Changing \/ \E c \in Combos : SetCombo(c)
  BY <1>0, <1>6, ChangeMoves DEF Changing, ModeInv, PortalInv, Portal, OnlyM, Machine, load
<1>7. CASE Quitting \/ Quit \/ Exit
  BY <1>0, <1>7, QuitMoves DEF Quitting, ModeInv, PortalInv, Portal, OnlyM, OnlyQ, Machine, load
<1>8. QED
  BY <1>1, <1>2, <1>3, <1>4, <1>5, <1>6, <1>7 DEF Next, Starting, Ended

LEMMA HandoverStep ==
  ASSUME TypeOK, Control, [Next]_vars
  PROVE  Handover'
<1>0. LoadOK /\ BackendOK /\ ModeInv /\ Handover /\ PhaseInv /\ mode \in {"window", "tray"}
  BY DEF TypeOK, BackendOK, Control
<1>1. CASE Boot \/ LoadEnds \/ Loaded
  <2>1. CASE Boot
    <3>1. ~pending /\ (mode = "window" => pc.L = "none")
      BY <1>0, <2>1, LoadMoves DEF ModeInv, WindowInv, BootInv
    <3>2. QED
      BY <1>0, <2>1, <3>1, LoadMoves DEF Handover, Machine, load
  <2>2. CASE LoadEnds
    BY <1>0, <2>2, LoadMoves DEF Handover, ModeInv, TrayInv, OnlyL, Machine
  <2>3. CASE Loaded
    <3>1. phase # "ready" => phase = "failed"
      BY <1>0, <2>3, LoadMoves DEF LoadOK, PhaseInv, OnlyL
    <3>2. QED
      BY <1>0, <2>3, <3>1, LoadMoves DEF Handover, ModeInv, TrayInv, OnlyL, Machine
  <2>4. QED
    BY <1>1, <2>1, <2>2, <2>3
<1>2. CASE StartPending \/ StartWhenReady
  <2>1. pc.L \in {"none", "load", "loaded", "take", "create", "begin", "await", "idle"}
    BY <1>0 DEF LoadOK
  <2>2. QED
    BY <1>0, <1>2, <2>1, LoadMoves DEF Handover, ModeInv, TrayInv, WindowInv, PhaseInv, OnlyM, OnlyL, Machine
<1>3. ASSUME NEW t \in {"M", "L"}, Create(t) PROVE Handover'
  BY <1>0, <1>3, CreateMoves DEF Handover, OnlyM, OnlyL, Machine, load
<1>4. ASSUME NEW t \in {"M", "L"}, NEW l \in {"begin", "again"}, Begin(t, l) PROVE Handover'
  BY <1>0, <1>4, BeginMoves DEF Handover, OnlyM, OnlyL, Then, Machine, load
<1>5. ASSUME NEW t \in {"M", "L"}, NEW l \in {"await", "await again"}, Await(t, l) PROVE Handover'
  BY <1>0, <1>5, AwaitMoves DEF Handover, OnlyM, OnlyL, Then, Machine, load
<1>6. CASE Listening \/ Trouble \/ Typing \/ UNCHANGED vars
  BY <1>0, <1>6, ListenersOnly DEF Handover, fixed, load
<1>7. CASE Changing \/ \E c \in Combos : SetCombo(c)
  BY <1>0, <1>7, ChangeMoves DEF Changing, ModeInv, TrayInv, Handover, Portal, OnlyM, Machine, load
<1>8. CASE Quitting \/ Quit \/ Exit
  BY <1>0, <1>8, QuitMoves DEF Quitting, Handover, OnlyM, OnlyQ, Machine, load
<1>10. QED
  BY <1>1, <1>2, <1>3, <1>4, <1>5, <1>6, <1>7, <1>8 DEF Next, Starting, Ended

\* Which threads have started.
LEMMA StartedStep ==
  ASSUME TypeOK, [Next]_vars, ~\E t \in {"M", "L"}, l \in {"begin", "again"} : Begin(t, l)
  PROVE  /\ Started' = Started
         /\ \A i \in Threads : Alive(i)' => Alive(i)
<1>0. LoadOK /\ BackendOK
  BY DEF TypeOK
<1>1. CASE Listening \/ Trouble \/ Typing \/ UNCHANGED vars
  BY <1>0, <1>1, ListenersOnly
<1>2. CASE StopListening
  BY <1>0, <1>2, QuitMoves DEF Started, Alive, BackendOK
<1>3. CASE ~StopListening /\ ~(Listening \/ Trouble \/ Typing \/ UNCHANGED vars)
  <2>1. CASE Boot \/ LoadEnds \/ Loaded \/ StartPending \/ StartWhenReady
    BY <1>0, <2>1, LoadMoves DEF back, Started, Alive
  <2>2. CASE Changing \/ \E c \in Combos : SetCombo(c)
    BY <1>0, <2>2, ChangeMoves DEF Changing, back, Started, Alive
  <2>3. CASE QuitRecording \/ StopJoins \/ Quit \/ Exit
    BY <1>0, <2>3, QuitMoves DEF back, Started, Alive
  <2>4. CASE \E t \in {"M", "L"} : Create(t) \/ \E l \in {"await", "await again"} : Await(t, l)
    BY <1>0, <2>4, CreateMoves, AwaitMoves DEF Started, Alive
  <2>5. QED
    BY <1>3, <2>1, <2>2, <2>3, <2>4 DEF Next, Starting, Quitting, Ended
<1>4. QED
  BY <1>1, <1>2, <1>3

LEMMA PhaseStep ==
  ASSUME TypeOK, Control, [Next]_vars
  PROVE  PhaseInv'
<1>0. LoadOK /\ BackendOK /\ ModeInv /\ Handover /\ PhaseInv /\ mode \in {"window", "tray"}
  BY DEF TypeOK, BackendOK, Control
<1> DEFINE Begins == \E t \in {"M", "L"}, l \in {"begin", "again"} : Begin(t, l)
<1>s. ~Begins => Started' = Started
  BY StartedStep
<1> HIDE DEF Begins
<1>1. CASE Boot \/ LoadEnds \/ Loaded \/ StartPending \/ StartWhenReady
  <2>1. ~Begins \/ Started' = Started
    BY <1>0, <1>1, LoadMoves DEF back, Started
  <2>2. QED
    BY <1>0, <1>1, <1>s, <2>1, LoadMoves DEF PhaseInv, Handover, ModeInv, TrayInv, WindowInv, BootInv, OnlyM, OnlyL, Machine, load
<1>3. ASSUME NEW t \in {"M", "L"}, Create(t) PROVE PhaseInv'
  BY <1>0, <1>3, CreateMoves DEF PhaseInv, OnlyM, OnlyL, Machine, load, Started
<1>4. ASSUME NEW t \in {"M", "L"}, NEW l \in {"begin", "again"}, Begin(t, l) PROVE PhaseInv'
  <2>1. phase = "ready"
    BY <1>0, <1>4, BeginMoves DEF PhaseInv, ModeInv, TrayInv, WindowInv, BootInv, OnlyM, OnlyL
  <2>2. QED
    BY <1>0, <1>4, <2>1, BeginMoves DEF PhaseInv, ModeInv, TrayInv, WindowInv, BootInv, OnlyM, OnlyL, Then, Machine, load
<1>5. ASSUME NEW t \in {"M", "L"}, NEW l \in {"await", "await again"}, Await(t, l) PROVE PhaseInv'
  BY <1>0, <1>5, AwaitMoves DEF PhaseInv, OnlyM, OnlyL, Then, Machine, load, Started
<1>6. CASE Listening \/ Trouble \/ Typing \/ UNCHANGED vars
  BY <1>0, <1>6, ListenersOnly DEF PhaseInv, fixed, load
<1>7. CASE Changing \/ \E c \in Combos : SetCombo(c)
  BY <1>0, <1>7, ChangeMoves DEF Changing, PhaseInv, Portal, OnlyM, Machine, load, back, Started
<1>8. CASE Quitting \/ Quit \/ Exit
  <2>1. Started' = Started
    BY <1>0, <1>8, QuitMoves DEF Quitting, back, Started, Alive, BackendOK
  <2>2. QED
    BY <1>0, <1>8, <2>1, QuitMoves DEF Quitting, PhaseInv, OnlyM, OnlyQ, Machine, load
<1>10. QED
  BY <1>1, <1>3, <1>4, <1>5, <1>6, <1>7, <1>8 DEF Next, Starting, Ended

LEMMA ControlStep == TypeOK /\ Control /\ [Next]_vars => Control'
  BY TrayStep, WindowStep, BootStep, PortalStep, HandoverStep, PhaseStep DEF Control, ModeInv

-----------------------------------------------------------------------------
(* How many starts are owed                                                  *)

\* Who begins is the last who owes a start.
LEMMA BeginPays ==
  ASSUME TypeOK, Control, NEW t \in {"M", "L"}, NEW l \in {"begin", "again"}, Begin(t, l)
  PROVE  Owed /\ ~Owed'
<1>0. LoadOK /\ Handover
  BY DEF TypeOK, Control
<1>1. PICK to : /\ (t = "M" /\ OnlyM(l, to)) \/ (t = "L" /\ l = "begin" /\ OnlyL(l, to))
                /\ to \in {IF t = "M" THEN "over" ELSE "idle", Then(t), IF l = "begin" THEN "await" ELSE "await again"}
  BY <1>0, BeginMoves
<1>2. to \in {"over", "idle", "finish", "await", "await again"}
  BY <1>1 DEF Then
<1>3. UNCHANGED load
  BY <1>0, BeginMoves
<1>4. QED
  BY <1>0, <1>1, <1>2, <1>3 DEF Owed, Handover, OnlyM, OnlyL, load

\* Only a new combination asks for another start.
LEMMA OwedStep ==
  ASSUME TypeOK, Control, [Next]_vars, ~\E c \in Combos : SetCombo(c)
  PROVE  (Owed' => Owed) /\ UNCHANGED <<backend, changes>>
<1>0. LoadOK /\ BackendOK /\ ModeInv /\ Handover
  BY DEF TypeOK, Control
<1>1. CASE Boot \/ LoadEnds \/ Loaded \/ StartPending \/ StartWhenReady
  <2>1. UNCHANGED <<backend, changes>>
    BY <1>0, <1>1, LoadMoves DEF Machine
  <2>2. CASE Boot \/ StartWhenReady
    BY <1>0, <2>1, <2>2, LoadMoves DEF Owed, OnlyM
  <2>3. CASE LoadEnds \/ Loaded
    <3>1. pc'.M = pc.M /\ pc'.L \in {"loaded", "take", "idle"} /\ pending' = pending
      BY <1>0, <2>3, LoadMoves DEF OnlyL
    <3>2. QED
      BY <2>1, <3>1 DEF Owed, Portal
  <2>4. CASE StartPending
    BY <1>0, <2>1, <2>4, LoadMoves DEF Owed, Portal, OnlyL
  <2>5. QED
    BY <1>1, <2>2, <2>3, <2>4, <2>1
<1>2. ASSUME NEW t \in {"M", "L"}, Create(t)
      PROVE  (Owed' => Owed) /\ UNCHANGED <<backend, changes>>
  BY <1>0, <1>2, CreateMoves DEF Owed, Portal, OnlyM, OnlyL, Machine, load
<1>3. ASSUME NEW t \in {"M", "L"}, NEW l \in {"begin", "again"}, Begin(t, l)
      PROVE  (Owed' => Owed) /\ UNCHANGED <<backend, changes>>
  BY <1>0, <1>3, BeginPays, BeginMoves DEF Machine
<1>4. ASSUME NEW t \in {"M", "L"}, NEW l \in {"await", "await again"}, Await(t, l)
      PROVE  (Owed' => Owed) /\ UNCHANGED <<backend, changes>>
  BY <1>0, <1>4, AwaitMoves DEF Owed, Portal, OnlyM, OnlyL, Then, Machine, load
<1>5. CASE Listening \/ Trouble \/ Typing \/ UNCHANGED vars
  BY <1>0, <1>5, ListenersOnly DEF Owed, Portal, fixed, load
<1>6. CASE Changing
  <2>1. UNCHANGED <<backend, changes, pending>>
    BY <1>0, <1>6, ChangeMoves DEF Changing, Machine, load
  <2>2. CASE ApplyCombo
    BY <1>0, <2>1, <2>2, ChangeMoves DEF Owed, Portal, OnlyM
  <2>3. CASE Rejoin
    BY <1>0, <2>1, <2>3, ChangeMoves DEF ModeInv, PortalInv, Owed, OnlyM
  <2>4. CASE EndRecording
    BY <1>0, <2>1, <2>4, ChangeMoves DEF Owed, Portal, OnlyM
  <2>5. QED
    BY <1>6, <2>1, <2>2, <2>3, <2>4 DEF Changing
<1>7. CASE Quitting \/ Quit \/ Exit
  BY <1>0, <1>7, QuitMoves DEF Quitting, Owed, Portal, OnlyM, OnlyQ, Machine, load
<1>8. QED
  BY <1>1, <1>2, <1>3, <1>4, <1>5, <1>6, <1>7 DEF Next, Starting, Ended

\* A start takes the next threads.
LEMMA SpawnStarts ==
  ASSUME TypeOK, RoomInv, Owed, Spawns
  PROVE  Started' = 1..(IF backend = "evdev" THEN Keyboards ELSE First)
<1>1. First \in Threads /\ Started = 1..(First - 1) /\ (backend = "evdev" => First = 1)
  BY RoomToBegin
<1>2. \A i \in Threads : lis'[i] # "none" <=> (i \in Started \/ i \in Spawned)
  BY DEF Spawns, Started
<1>3. First \in Nat \ {0} /\ First <= Keyboards + MaxCombos
  BY <1>1, BoundsAssumption DEF Threads
<1>4. Started' = {i \in Threads : i \in Started \/ i \in Spawned}
  BY <1>2 DEF Started
<1>5. CASE backend = "evdev"
  <2>1. First = 1 /\ Started = 1..0 /\ Spawned = 1..Keyboards
    BY <1>1, <1>5, BoundsAssumption DEF Spawned
  <2>2. QED
    BY <1>4, <1>5, <2>1, BoundsAssumption DEF Threads
<1>6. CASE backend # "evdev"
  <2>1. Spawned = {First}
    BY <1>6 DEF Spawned
  <2>2. {i \in 1..(Keyboards + MaxCombos) : i \in 1..(First - 1) \/ i \in {First}} = 1..First
    BY <1>3, BoundsAssumption
  <2>3. QED
    BY <1>1, <1>4, <1>6, <2>1, <2>2 DEF Threads
<1>7. QED
  BY <1>5, <1>6

LEMMA RoomStep ==
  ASSUME TypeOK, Control, RoomInv, ObjInv, [Next]_vars
  PROVE  RoomInv'
<1>0. PICK n \in 0..(Keyboards + MaxCombos) : Room(n)
  BY DEF RoomInv
<1>1. changes \in 0..MaxCombos /\ n \in Nat
  BY <1>0, BoundsAssumption DEF TypeOK, DaemonOK
<1>2. ASSUME NEW t \in {"M", "L"}, NEW l \in {"begin", "again"}, Begin(t, l) PROVE RoomInv'
  <2>1. Owed /\ ~Owed'
    BY <1>2, BeginPays
  <2>2. UNCHANGED <<backend, changes>> /\ (Spawns \/ UNCHANGED lis)
    BY <1>2, BeginMoves DEF TypeOK, Machine, back
  <2>3. CASE UNCHANGED lis
    <3>1. Room(n)'
      BY <1>0, <1>1, <2>1, <2>2, <2>3 DEF Room, Started
    <3>2. QED
      BY <1>0, <3>1 DEF RoomInv
  <2>4. CASE Spawns
    <3>1. First \in Threads /\ (backend # "evdev" => First <= 1 + changes)
      BY <2>1, RoomToBegin
    <3>2. PICK m \in 0..(Keyboards + MaxCombos) : m = IF backend = "evdev" THEN Keyboards ELSE First
      BY <3>1, BoundsAssumption DEF Threads
    <3>3. Started' = 1..m
      BY <2>1, <2>4, <3>2, SpawnStarts
    <3>4. Room(m)'
      BY <1>1, <2>1, <2>2, <3>1, <3>2, <3>3, BoundsAssumption DEF Room
    <3>5. QED
      BY <3>2, <3>4 DEF RoomInv
  <2>5. QED
    BY <2>2, <2>3, <2>4
<1>3. ASSUME NEW c \in Combos, SetCombo(c) PROVE RoomInv'
  <2>1. /\ mode = "tray" /\ pc.Q = "none" /\ pc.M = "idle" /\ UNCHANGED <<mode, backend, load, back>>
        /\ changes' = changes + 1
        /\ \/ OnlyM("idle", IF obj THEN "combo" ELSE "ask")
           \/ Portal /\ UNCHANGED pc
    BY <1>3, ChangeMoves DEF TypeOK
  <2>2. pc.L = "none" /\ ~pending /\ (backend = "evdev" => obj)
    BY <2>1 DEF Control, ModeInv, TrayInv, ObjInv, KeptInv
  <2>3. backend = "evdev" => ~Owed'
    BY <2>1, <2>2 DEF Owed, Portal, OnlyM, load
  <2>4. ~Owed
    BY <2>1, <2>2 DEF Owed
  <2>5. Started' = Started /\ backend' = backend
    BY <2>1 DEF back, Started
  <2>6. Room(n)'
    BY <1>0, <1>1, <2>1, <2>3, <2>4, <2>5 DEF Room
  <2>7. QED
    BY <1>0, <2>6 DEF RoomInv
<1>4. CASE /\ ~\E t \in {"M", "L"}, l \in {"begin", "again"} : Begin(t, l)
           /\ ~\E c \in Combos : SetCombo(c)
  <2>1. Started' = Started /\ (Owed' => Owed) /\ UNCHANGED <<backend, changes>>
    BY <1>4, StartedStep, OwedStep
  <2>2. Room(n)'
    BY <1>0, <1>1, <2>1 DEF Room
  <2>3. QED
    BY <1>0, <2>2 DEF RoomInv
<1>5. QED
  BY <1>2, <1>3, <1>4

-----------------------------------------------------------------------------
(* The backend that who starts it finds                                      *)

LEMMA FreshStep ==
  ASSUME TypeOK, Control, ObjInv, [Next]_vars
  PROVE  FreshInv'
<1>0. LoadOK /\ BackendOK /\ ModeInv /\ Handover /\ PhaseInv /\ mode \in {"window", "tray"} /\ ObjInv
  BY DEF TypeOK, BackendOK, Control
<1>1. CASE Boot \/ LoadEnds \/ Loaded
  <2>1. UNCHANGED <<obj, cur>> /\ pc'.M \in {"ask", pc.M} /\ pc'.L \in {"load", "loaded", "none", "take", "idle"}
    BY <1>0, <1>1, LoadMoves DEF OnlyL, back
  <2>2. QED
    BY <1>0, <2>1 DEF FreshInv, ObjInv
<1>2. CASE StartPending \/ StartWhenReady
  <2>1. CASE StartPending
    <3>1. UNCHANGED <<obj, cur>> /\ pc'.M = pc.M /\ pc.L = "take" /\ pc'.L \in {"idle", "create"} /\ (pc'.L = "create" => pending)
      BY <1>0, <2>1, LoadMoves DEF OnlyL, back
    <3>2. pending => mode = "window" /\ pc.M \in {"idle", "over"}
      BY <1>0 DEF Handover, ModeInv, TrayInv
    <3>3. pc'.L = "create" => ~obj
      BY <1>0, <3>1, <3>2 DEF ObjInv, AwaitedInv, Owed
    <3>4. QED
      BY <1>0, <3>1, <3>2, <3>3 DEF FreshInv, ObjInv
  <2>2. CASE StartWhenReady
    <3>1. UNCHANGED <<obj, cur>> /\ pc'.L = pc.L /\ pc.M = "ask" /\ pc'.M \in {"idle", "create"}
      BY <1>0, <2>2, LoadMoves DEF OnlyM, back
    <3>2. ~obj
      BY <1>0, <3>1 DEF ObjInv, KeptInv, AwaitedInv, Owed, ModeInv, TrayInv, Handover
    <3>3. QED
      BY <1>0, <3>1, <3>2 DEF FreshInv, ObjInv
  <2>3. QED
    BY <1>2, <2>1, <2>2
<1>3. ASSUME NEW t \in {"M", "L"}, Create(t) PROVE FreshInv'
  BY <1>0, <1>3, CreateMoves DEF FreshInv, ObjInv, Handover, OnlyM, OnlyL, Machine
<1>4. ASSUME NEW t \in {"M", "L"}, NEW l \in {"begin", "again"}, Begin(t, l) PROVE FreshInv'
  BY <1>0, <1>4, BeginMoves DEF FreshInv, ObjInv, Handover, OnlyM, OnlyL, Then, Machine, back
<1>5. ASSUME NEW t \in {"M", "L"}, NEW l \in {"await", "await again"}, Await(t, l) PROVE FreshInv'
  BY <1>0, <1>5, AwaitMoves DEF FreshInv, ObjInv, Handover, OnlyM, OnlyL, Then, Machine
<1>6. CASE Listening \/ Trouble \/ Typing \/ UNCHANGED vars
  BY <1>0, <1>6, ListenersOnly DEF FreshInv, ObjInv
<1>7. CASE ApplyCombo \/ Rejoin \/ EndRecording
  BY <1>0, <1>7, ChangeMoves DEF FreshInv, ObjInv, Handover, OnlyM, Machine, back
<1>8. ASSUME NEW c \in Combos, SetCombo(c) PROVE FreshInv'
  BY <1>0, <1>8, ChangeMoves DEF FreshInv, ObjInv, Handover, OnlyM, back
<1>9. CASE QuitRecording \/ StopListening \/ StopJoins
  <2>1. pc'.M = pc.M /\ pc'.L = pc.L /\ (UNCHANGED <<obj, cur>> \/ (~obj' /\ cur' = 0))
    BY <1>0, <1>9, QuitMoves DEF OnlyQ, back
  <2>2. QED
    BY <1>0, <2>1 DEF FreshInv, ObjInv
<1>10. CASE Quit \/ Exit
  <2>1. pc'.M \in {pc.M, "over"} /\ pc'.L = pc.L /\ UNCHANGED <<obj, cur>>
    BY <1>0, <1>10, QuitMoves DEF OnlyM, OnlyQ, back
  <2>2. QED
    BY <1>0, <2>1 DEF FreshInv, ObjInv
<1>20. QED
  BY <1>1, <1>2, <1>3, <1>4, <1>5, <1>6, <1>7, <1>8, <1>9, <1>10 DEF Next, Starting, Changing, Quitting, Ended

LEMMA KeptStep ==
  ASSUME TypeOK, Control, ObjInv, [Next]_vars
  PROVE  KeptInv'
<1>0. LoadOK /\ BackendOK /\ ModeInv /\ Handover /\ PhaseInv /\ mode \in {"window", "tray"} /\ ObjInv
  BY DEF TypeOK, BackendOK, Control
<1>1. CASE Boot \/ LoadEnds \/ Loaded
  BY <1>0, <1>1, LoadMoves DEF KeptInv, ObjInv, FreshInv, ModeInv, TrayInv, PortalInv, Portal, OnlyL, Machine, load, back
<1>2. CASE StartPending \/ StartWhenReady
  BY <1>0, <1>2, LoadMoves DEF KeptInv, ObjInv, FreshInv, ModeInv, TrayInv, PortalInv, Portal, OnlyM, OnlyL, Machine, back
<1>3. ASSUME NEW t \in {"M", "L"}, Create(t) PROVE KeptInv'
  BY <1>0, <1>3, CreateMoves DEF KeptInv, ObjInv, FreshInv, ModeInv, TrayInv, PortalInv, Portal, OnlyM, OnlyL, Machine
<1>4. ASSUME NEW t \in {"M", "L"}, NEW l \in {"begin", "again"}, Begin(t, l) PROVE KeptInv'
  <2>1. PICK to : /\ (t = "M" /\ OnlyM(l, to)) \/ (t = "L" /\ OnlyL(l, to))
                  /\ \/ /\ ~obj /\ UNCHANGED back
                        /\ to = (IF t = "M" THEN "over" ELSE "idle")
                     \/ obj /\ Known /\ UNCHANGED back /\ to = Then(t)
                     \/ /\ Spawns
                        /\ to = (IF ~Portal THEN Then(t) ELSE IF l = "begin" THEN "await" ELSE "await again")
    BY <1>0, <1>4, BeginMoves
  <2>0. obj' \/ t = "L" \/ to = "over"
    <3>1. obj /\ UNCHANGED back => obj'
      BY DEF back
    <3>2. Spawns => obj'
      BY DEF Spawns
    <3>3. QED
      BY <2>1, <3>1, <3>2
  <2>2. UNCHANGED mode /\ to \notin {"boot", "ask", "create"}
    BY <1>0, <1>4, <2>1, BeginMoves DEF Machine, Then
  <2>3. mode = "tray" => t = "M"
    BY <1>0, <2>1 DEF ModeInv, TrayInv, OnlyL
  <2>4. QED
    BY <2>0, <2>1, <2>2, <2>3 DEF KeptInv, OnlyM
<1>5. ASSUME NEW t \in {"M", "L"}, NEW l \in {"await", "await again"}, Await(t, l) PROVE KeptInv'
  BY <1>0, <1>5, AwaitMoves DEF KeptInv, ObjInv, FreshInv, ModeInv, TrayInv, PortalInv, Portal, OnlyM, OnlyL, Then, Machine
<1>6. CASE Listening \/ Trouble \/ Typing \/ UNCHANGED vars
  BY <1>0, <1>6, ListenersOnly DEF KeptInv, ObjInv, FreshInv, ModeInv, TrayInv, PortalInv, Portal, fixed, load
<1>7. CASE ApplyCombo \/ Rejoin \/ EndRecording
  BY <1>0, <1>7, ChangeMoves DEF KeptInv, ObjInv, FreshInv, ModeInv, TrayInv, PortalInv, Portal, OnlyM, Machine, back
<1>8. ASSUME NEW c \in Combos, SetCombo(c) PROVE KeptInv'
  BY <1>0, <1>8, ChangeMoves DEF KeptInv, ObjInv, FreshInv, ModeInv, TrayInv, PortalInv, Portal, OnlyM, back
<1>9. CASE QuitRecording \/ StopListening \/ StopJoins
  BY <1>0, <1>9, QuitMoves DEF KeptInv, ObjInv, FreshInv, ModeInv, TrayInv, PortalInv, Portal, OnlyQ, Machine, back
<1>10. CASE Quit \/ Exit
  BY <1>0, <1>10, QuitMoves DEF KeptInv, ObjInv, FreshInv, ModeInv, TrayInv, PortalInv, Portal, OnlyM, OnlyQ, Machine, back
<1>20. QED
  BY <1>1, <1>2, <1>3, <1>4, <1>5, <1>6, <1>7, <1>8, <1>9, <1>10 DEF Next, Starting, Changing, Quitting, Ended

LEMMA AwaitedStep ==
  ASSUME TypeOK, Control, ObjInv, [Next]_vars
  PROVE  AwaitedInv'
<1>0. LoadOK /\ BackendOK /\ ModeInv /\ Handover /\ AwaitedInv /\ FreshInv
  BY DEF TypeOK, Control, ObjInv
<1>1. ASSUME NEW t \in {"M", "L"}, Create(t) PROVE AwaitedInv'
  <2>1. UNCHANGED mode /\ ~obj
    BY <1>0, <1>1, CreateMoves DEF FreshInv, Machine, OnlyM, OnlyL
  <2>2. (t = "M" /\ pc'.M = "begin") \/ (t = "L" /\ pc'.L = "begin") \/ ~obj'
    BY <1>0, <1>1, <2>1, CreateMoves
  <2>3. QED
    BY <2>1, <2>2 DEF AwaitedInv
<1>2. ASSUME NEW t \in {"M", "L"}, NEW l \in {"begin", "again"}, Begin(t, l) PROVE AwaitedInv'
  BY <1>2, BeginPays DEF AwaitedInv
<1>3. CASE \E c \in Combos : SetCombo(c)
  BY <1>0, <1>3, ChangeMoves DEF AwaitedInv
<1>4. CASE /\ ~\E t \in {"M", "L"} : Create(t) \/ \E l \in {"begin", "again"} : Begin(t, l)
           /\ ~\E c \in Combos : SetCombo(c)
  <2>1. Owed' => Owed
    BY <1>4, OwedStep
  <2>2. UNCHANGED mode /\ (obj' => obj)
        /\ (pc.M = "begin" => pc'.M = "begin") /\ (pc.L = "begin" => pc'.L = "begin")
    <3>1. CASE Boot \/ LoadEnds \/ Loaded \/ StartPending \/ StartWhenReady
      <4>1. UNCHANGED <<mode, obj>>
        BY <1>0, <3>1, LoadMoves DEF Machine, back
      <4>2. pc.M = "begin" => pc'.M = "begin"
        BY <1>0, <3>1, LoadMoves DEF OnlyM, OnlyL
      <4>3. CASE Boot
        BY <1>0, <4>1, <4>2, <4>3, LoadMoves DEF ModeInv, TrayInv, WindowInv, BackendOK
      <4>4. pc.L = "begin" => Boot \/ pc'.L = "begin"
        BY <1>0, <3>1, LoadMoves DEF OnlyM, OnlyL
      <4>5. QED
        BY <4>1, <4>2, <4>3, <4>4
    <3>2. ASSUME NEW t \in {"M", "L"}, NEW l \in {"await", "await again"}, Await(t, l)
          PROVE  /\ UNCHANGED mode /\ (obj' => obj)
                 /\ (pc.M = "begin" => pc'.M = "begin") /\ (pc.L = "begin" => pc'.L = "begin")
      BY <1>0, <3>2, AwaitMoves DEF OnlyM, OnlyL, Machine
    <3>3. CASE Listening \/ Trouble \/ Typing \/ UNCHANGED vars
      BY <1>0, <3>3, ListenersOnly DEF fixed
    <3>4. CASE Changing
      BY <1>0, <3>4, ChangeMoves DEF Changing, OnlyM, Machine, back
    <3>5. CASE Quitting \/ Quit \/ Exit
      BY <1>0, <3>5, QuitMoves DEF Quitting, OnlyM, OnlyQ, Machine, back
    <3>6. QED
      BY <1>4, <3>1, <3>2, <3>3, <3>4, <3>5 DEF Next, Starting, Ended
  <2>3. CASE pc.M = "begin" \/ pc.L = "begin"
    BY <1>0, <2>2, <2>3 DEF AwaitedInv, Owed
  <2>4. CASE ~(pc.M = "begin" \/ pc.L = "begin")
    BY <1>0, <2>1, <2>2, <2>4 DEF AwaitedInv
  <2>5. QED
    BY <2>3, <2>4
<1>5. QED
  BY <1>1, <1>2, <1>3, <1>4

LEMMA ObjStep == TypeOK /\ Control /\ ObjInv /\ [Next]_vars => ObjInv'
  BY FreshStep, KeptStep, AwaitedStep DEF ObjInv

-----------------------------------------------------------------------------
(* One listener                                                              *)

\* A start finds nobody at the keys, and the new thread is alone.
LEMMA SpawnsAlone ==
  ASSUME TypeOK, Control, RoomInv, AliveInv, backend # "evdev", NEW t \in {"M", "L"}, NEW l \in {"begin", "again"}, Begin(t, l),
         Spawns
  PROVE  \A i \in Threads : Alive(i)' => i = cur'
<1>1. Owed /\ pc.M \notin {"combo", "join"}
  <2>1. Owed /\ pc[t] = l /\ (pc.L = "begin" => pc.M \in {"idle", "over"}) /\ (t = "L" => l = "begin")
    BY BeginPays, BeginMoves DEF Begin, At, Control, Handover, TypeOK
  <2>2. QED
    BY <2>1
<1>2. NoneAlive
  BY <1>1 DEF AliveInv
<1>3. \A i \in Threads : i # First => lis'[i] = lis[i]
  BY DEF Spawns, Spawned
<1>4. QED
  BY <1>2, <1>3 DEF NoneAlive, Alive, Spawns

\* The listeners and their sessions.
LEMMA AliveElsewhere ==
  ASSUME TypeOK, AliveInv, Listening \/ Trouble \/ Typing \/ UNCHANGED vars
  PROVE  AliveInv'
<1>0. BackendOK /\ UNCHANGED <<fixed, load, pc, obj, cur, changes>> /\ (\A i \in Threads : Alive(i)' => Alive(i))
  BY ListenersOnly DEF TypeOK
<1>1. (Owed' <=> Owed) /\ backend' = backend /\ (Portal' <=> Portal) /\ mode' = mode
  BY <1>0 DEF Owed, Portal, fixed, load
<1>2. CASE \E i \in Threads : PortalDenied(i)
  <2>1. PICK i \in Threads : PortalDenied(i)
    BY <1>2
  <2>2. Portal' /\ ~Alive(i)' /\ Alive(i) /\ backend # "evdev"
    BY <1>0, <2>1 DEF PortalDenied, Portal, Alive, fixed, BackendOK
  <2>3. NoneAlive'
    BY <1>0, <2>2 DEF AliveInv, NoneAlive
  <2>4. QED
    BY <2>2, <2>3 DEF AliveInv, NoneAlive
<1>3. CASE ~\E i \in Threads : PortalDenied(i)
  <2>1. err' = err
    BY <1>3 DEF Listening, PortalAnswers, PortalOpens, PortalEnds, Handle, Callback, OnPress, StartRecording, OnRelease, Returns,
       Trouble, PortalClosed, Unplugged,
       Typing, Stroke, vars, back
  <2>2. QED
    BY <1>0, <1>1, <2>1 DEF AliveInv, NoneAlive
<1>4. QED
  BY <1>2, <1>3

LEMMA AliveBegin ==
  ASSUME TypeOK, Control, RoomInv, AliveInv, NEW t \in {"M", "L"}, NEW l \in {"begin", "again"}, Begin(t, l)
  PROVE  AliveInv'
<1>0. LoadOK /\ BackendOK /\ ~Owed'
  BY BeginPays DEF TypeOK
<1>1. UNCHANGED <<mode, backend>> /\ (Portal' <=> Portal) /\ (Spawns \/ UNCHANGED back)
  BY <1>0, BeginMoves DEF Machine, Portal
<1>2. pc'.Q = pc.Q
  BY <1>0, BeginMoves DEF OnlyM, OnlyL
<1>3. CASE Spawns
  <2>1. backend # "evdev" => \A i \in Threads : Alive(i)' => i = cur'
    BY <1>3, SpawnsAlone
  <2>2. obj' /\ (Portal => ~err') /\ (~Portal => err' = err)
    BY <1>3 DEF Spawns
  <2>3. backend # "evdev" => ~err'
    BY <2>2 DEF AliveInv, Portal
  <2>4. QED
    BY <1>0, <1>1, <2>1, <2>2, <2>3 DEF AliveInv
<1>4. CASE UNCHANGED back
  BY <1>0, <1>1, <1>2, <1>4 DEF AliveInv, NoneAlive, Alive, back
<1>5. QED
  BY <1>1, <1>3, <1>4

\* The other steps leave the listeners alone.
LEMMA Undisturbed ==
  ASSUME AliveInv, UNCHANGED <<mode, backend, obj, cur, lis, err>>, Owed' => Owed,
         pc'.M \in {"combo", "join"} \/ pc.M \notin {"combo", "join"} \/ ~Owed',
         pc'.Q = "none" => pc.Q = "none", pc.Q = "done" => pc'.Q = "done"
  PROVE  AliveInv'
  BY DEF AliveInv, NoneAlive, Alive, Portal

LEMMA AliveStep ==
  ASSUME TypeOK, Control, RoomInv, ObjInv, AliveInv, [Next]_vars
  PROVE  AliveInv'
<1>0. LoadOK /\ BackendOK /\ ModeInv /\ Handover /\ mode \in {"window", "tray"}
  BY DEF TypeOK, BackendOK, Control
<1>1. CASE \E c \in Combos : SetCombo(c)
  <2>1. PICK c \in Combos : SetCombo(c)
    BY <1>1
  <2>2. /\ mode = "tray" /\ pc.Q = "none" /\ pc.M = "idle" /\ UNCHANGED <<mode, backend, load, back>>
        /\ \/ OnlyM("idle", IF obj THEN "combo" ELSE "ask")
           \/ Portal /\ UNCHANGED pc
    BY <1>0, <2>1, ChangeMoves
  <2>3. pc.L = "none" /\ ~pending /\ ~Owed
    BY <1>0, <2>2 DEF ModeInv, TrayInv, Owed
  <2>4. CASE UNCHANGED pc
    BY <2>2, <2>3, <2>4, Undisturbed DEF Owed, Portal, load, back
  <2>5. CASE ~obj
    BY <2>2, <2>5 DEF AliveInv, NoneAlive, Alive, Portal, back
  <2>6. CASE obj /\ pc'.M = "combo" /\ pc'.Q = pc.Q
    BY <2>2, <2>6 DEF AliveInv, NoneAlive, Alive, Portal, back
  <2>7. QED
    BY <2>2, <2>4, <2>5, <2>6 DEF OnlyM
<1>2. CASE \E t \in {"M", "L"}, l \in {"begin", "again"} : Begin(t, l)
  BY <1>2, AliveBegin
<1>3. CASE Listening \/ Trouble \/ Typing \/ UNCHANGED vars
  BY <1>3, AliveElsewhere
<1>4. ASSUME NEW t \in {"M", "L"}, Create(t) PROVE AliveInv'
  <2>1. Owed /\ pc.M \notin {"combo", "join"}
    BY <1>0, <1>4, CreateMoves DEF Owed, Handover, OnlyM, OnlyL
  <2>2. UNCHANGED <<mode, backend, lis, err>>
    BY <1>0, <1>4, CreateMoves DEF Machine
  <2>3. backend # "evdev" => NoneAlive' /\ (err' => Portal')
    BY <2>1, <2>2 DEF AliveInv, NoneAlive, Alive, Portal
  <2>4. QED
    BY <2>2, <2>3 DEF AliveInv, NoneAlive
<1>5. ASSUME NEW t \in {"M", "L"}, NEW l \in {"await", "await again"}, Await(t, l) PROVE AliveInv'
  <2>1. UNCHANGED <<mode, backend, lis, err>>
    BY <1>0, <1>5, AwaitMoves DEF Machine
  <2>2. CASE err
    BY <2>1, <2>2 DEF AliveInv, NoneAlive, Alive, Portal
  <2>3. CASE ~err
    <3>1. UNCHANGED <<cur, obj>> /\ pc'.Q = pc.Q /\ (pc'.M = pc.M \/ pc.M = l)
      BY <1>0, <1>5, <2>3, AwaitMoves DEF OnlyM, OnlyL
    <3>2. (Owed' => Owed) \/ \E c \in Combos : SetCombo(c)
      BY <1>5, OwedStep
    <3>3. CASE Owed' => Owed
      BY <2>1, <3>1, <3>3, Undisturbed
    <3>4. QED
      BY <1>1, <3>2, <3>3
  <2>4. QED
    BY <2>2, <2>3
<1>6. CASE /\ ~\E c \in Combos : SetCombo(c)
           /\ Boot \/ LoadEnds \/ Loaded \/ StartPending \/ StartWhenReady
  <2>1. Owed' => Owed
    BY <1>6, OwedStep
  <2>2. UNCHANGED <<mode, backend, obj, cur, lis, err>> /\ pc'.Q = pc.Q /\ (pc'.M = pc.M \/ pc.M \in {"boot", "ask"})
    BY <1>0, <1>6, LoadMoves DEF OnlyM, OnlyL, Machine, back
  <2>3. QED
    BY <2>1, <2>2, Undisturbed
<1>7. CASE ~(\E c \in Combos : SetCombo(c)) /\ Changing
  <2>1. Owed' => Owed
    BY <1>7, OwedStep
  <2>2. CASE ApplyCombo
    <3>1. UNCHANGED <<mode, backend, pending, obj, cur, lis, err>> /\ pc.M = "combo"
          /\ pc'.M \in {"join", "finish"} /\ pc'.Q = pc.Q /\ pc'.L = pc.L
      BY <1>0, <2>2, ChangeMoves DEF OnlyM, Machine, load
    <3>2. pc.L = "none" /\ ~pending
      BY <1>0, <3>1 DEF ModeInv, TrayInv, WindowInv
    <3>3. pc'.M = "finish" => ~Owed'
      BY <3>1, <3>2 DEF Owed
    <3>4. QED
      BY <2>1, <3>1, <3>3, Undisturbed
  <2>3. CASE Rejoin
    <3>1. UNCHANGED <<mode, backend, lis, err>> /\ pc.M = "join" /\ ~Alive(cur)
      BY <1>0, <2>3, ChangeMoves DEF OnlyM, Machine
    <3>2. pc.Q # "done"
      BY <1>0, <3>1 DEF ModeInv, TrayInv, WindowInv
    <3>3. backend # "evdev" => NoneAlive /\ (err => Portal)
      BY <3>1, <3>2 DEF AliveInv, NoneAlive
    <3>4. backend # "evdev" => NoneAlive' /\ (err' => Portal')
      BY <3>1, <3>3 DEF NoneAlive, Alive, Portal
    <3>5. QED
      BY <3>1, <3>4 DEF AliveInv, NoneAlive
  <2>4. CASE EndRecording
    <3>1. UNCHANGED <<mode, backend, obj, cur, lis, err>> /\ pc.M = "finish" /\ pc'.Q = pc.Q
      BY <1>0, <2>4, ChangeMoves DEF OnlyM, Machine, back
    <3>2. QED
      BY <2>1, <3>1, Undisturbed
  <2>5. QED
    BY <1>7, <2>2, <2>3, <2>4 DEF Changing
<1>8. CASE ~(\E c \in Combos : SetCombo(c)) /\ (Quitting \/ Quit \/ Exit)
  <2>1. Owed' => Owed
    BY <1>8, OwedStep
  <2>2. UNCHANGED <<mode, backend, err>> /\ (pc'.M = pc.M \/ pc.M = "idle") /\ (pc'.Q = "none" => pc.Q = "none")
        /\ (pc.Q = "done" => pc'.Q = "done")
    BY <1>0, <1>8, QuitMoves DEF Quitting, OnlyM, OnlyQ, Machine, back
  <2>3. CASE UNCHANGED <<obj, cur, lis>>
    BY <2>1, <2>2, <2>3, Undisturbed
  <2>4. CASE pc'.Q = "done" /\ \A i \in Threads : Alive(i)' => Alive(i)
    BY <2>1, <2>2, <2>4 DEF AliveInv, NoneAlive, Portal
  <2>5. QED
    <3>1. CASE QuitRecording \/ Quit \/ Exit
      BY <1>0, <2>3, <3>1, QuitMoves DEF back
    <3>2. CASE StopListening
      BY <1>0, <2>3, <2>4, <3>2, QuitMoves DEF OnlyQ, Alive
    <3>3. CASE StopJoins
      BY <1>0, <2>4, <3>3, QuitMoves DEF OnlyQ, Alive
    <3>4. QED
      BY <1>8, <3>1, <3>2, <3>3 DEF Quitting
<1>9. QED
  BY <1>1, <1>2, <1>3, <1>4, <1>5, <1>6, <1>7, <1>8 DEF Next, Starting, Ended

-----------------------------------------------------------------------------
(* The theorems                                                              *)

LEMMA InitStart == Init => StartInv
<1> SUFFICES ASSUME Init PROVE StartInv
  OBVIOUS
<1>1. LoadOK
  BY DEF Init, LoadOK
<1>2. BackendOK
  <2>1. backend \in {"evdev", "portal", "pynput", "none"}
    BY DEF Init, DetectBackend
  <2>2. QED
    BY <2>1 DEF Init, BackendOK
<1>3. KeysOK
  BY NoEvents DEF Init, KeysOK
<1>4. DaemonOK
  <2>1. combo \in Combos /\ trigger = {} /\ held = {}
    BY DEF Init
  <2>2. strokes = 0 /\ changes = 0 /\ active = TRUE /\ stop = FALSE /\ dictating = FALSE /\ late = FALSE
        /\ told = FALSE /\ excused = FALSE
    BY DEF Init
  <2>3. 0 \in 0..MaxStrokes /\ 0 \in 0..MaxCombos
    BY BoundsAssumption
  <2>4. QED
    BY <2>1, <2>2, <2>3 DEF DaemonOK
<1>5. Started = {} /\ NoneAlive
  BY DEF Init, Started, NoneAlive, Alive
<1>6. Control
  BY <1>1, <1>2, <1>5 DEF Init, Control, ModeInv, TrayInv, WindowInv, BootInv, PortalInv, Handover, PhaseInv
<1>7. Room(0)
  BY <1>5, BoundsAssumption DEF Init, Room, Owed
<1>8. RoomInv
  BY <1>7, BoundsAssumption DEF RoomInv
<1>9. ObjInv
  BY <1>1 DEF Init, ObjInv, FreshInv, KeptInv, AwaitedInv
<1>10. AliveInv
  BY <1>5 DEF Init, AliveInv, NoneAlive
<1>11. QED
  BY <1>1, <1>2, <1>3, <1>4, <1>6, <1>8, <1>9, <1>10 DEF StartInv, TypeOK

LEMMA StartStep == StartInv /\ [Next]_vars => StartInv'
  BY NextType, ControlStep, RoomStep, ObjStep, AliveStep DEF StartInv

LEMMA StartAlways == Spec => []StartInv
  BY InitStart, StartStep, PTL DEF Spec

\* evdev has started no more threads than there are keyboards.
LEMMA FewListeners ==
  ASSUME TypeOK, RoomInv, backend = "evdev"
  PROVE  Cardinality({t \in Threads : Alive(t)}) <= Keyboards
<1>1. PICK n \in 0..(Keyboards + MaxCombos) : Room(n)
  BY DEF RoomInv
<1>2. n \in Nat /\ n <= Keyboards /\ Started = 1..n
  BY <1>1, BoundsAssumption DEF Room
<1>3. {t \in Threads : Alive(t)} \subseteq 1..n
  BY <1>2 DEF Started, Alive
<1>4. IsFiniteSet(1..n) /\ Cardinality(1..n) = n
  BY <1>2, FS_Interval
<1>5. Cardinality({t \in Threads : Alive(t)}) <= n /\ Cardinality({t \in Threads : Alive(t)}) \in Nat
  BY <1>2, <1>3, <1>4, FS_Subset, FS_CardinalityType
<1>6. QED
  BY <1>2, <1>5, BoundsAssumption

(***************************************************************************)
(* The variables keep their types: among the rest, a start always finds a  *)
(* thread that no listener has used before.                                *)
(***************************************************************************)
THEOREM ShortcutTypes == Spec => []TypeOK
<1>1. StartInv => TypeOK
  BY DEF StartInv
<1>2. QED
  BY <1>1, StartAlways, PTL

(***************************************************************************)
(* No listener runs before the model is ready, and none beside another:    *)
(* whichever of the load thread and the main thread comes last starts the  *)
(* one, and a new session of the portal waits for the end of the old.      *)
(***************************************************************************)
THEOREM ListenersOrdered == Spec => []ListenersInOrder
<1>1. ASSUME StartInv PROVE NotWhileLoading
  BY <1>1 DEF StartInv, Control, PhaseInv, NotWhileLoading, Started, Alive
<1>2. ASSUME StartInv PROVE OneListener
  <2>1. CASE backend = "evdev"
    BY <1>2, <2>1, FewListeners DEF StartInv, OneListener
  <2>2. CASE backend # "evdev"
    BY <1>2, <2>2 DEF StartInv, AliveInv, OneListener
  <2>3. QED
    BY <2>1, <2>2
<1>3. StartInv => ListenersInOrder
  BY <1>1, <1>2 DEF ListenersInOrder
<1>4. QED
  BY <1>3, StartAlways, PTL

-----------------------------------------------------------------------------
(* The shutdown                                                              *)

QuitInv == /\ pc.Q # "none" => ~active
           /\ pc.Q # "none" /\ ~late => Unlocked
           /\ ShutdownLeavesNoDictation

\* No press is let in.
NoneLetIn == \A i \in Threads : cb'[i] = "start" => cb[i] = "start"

LEMMA QuitKept ==
  ASSUME QuitInv, NoneLetIn, UNCHANGED <<active, late>>, pc.Q # "none" \/ pc'.Q = "none",
         pc'.Q \in {"stop", "join", "done"} => ~dictating' \/ (pc.Q \in {"stop", "join", "done"} /\ dictating' = dictating)
  PROVE  QuitInv'
<1>1. Unlocked => Unlocked'
  BY DEF Unlocked, NoneLetIn
<1>2. QED
  BY <1>1 DEF QuitInv, ShutdownLeavesNoDictation

LEMMA QuitStep ==
  ASSUME TypeOK, QuitInv, [Next]_vars
  PROVE  QuitInv'
<1>0. LoadOK /\ BackendOK /\ cb \in [Threads -> {"none", "press", "start", "release"}]
  BY DEF TypeOK, KeysOK
<1>1. CASE Boot \/ LoadEnds \/ Loaded \/ StartPending \/ StartWhenReady
  <2>1. pc'.Q = pc.Q /\ UNCHANGED <<cb, daemon>>
    BY <1>0, <1>1, LoadMoves DEF OnlyM, OnlyL, Boot, LoadEnds, Loaded, StartPending, StartWhenReady
  <2>2. QED
    BY <2>1, QuitKept DEF NoneLetIn, daemon
<1>2. CASE \E t \in {"M", "L"} : Create(t) \/ \E l \in {"begin", "again"} : Begin(t, l)
  <2>1. pc'.Q = pc.Q
    BY <1>0, <1>2, CreateMoves, BeginMoves DEF OnlyM, OnlyL
  <2>2. UNCHANGED <<cb, daemon>>
    BY <1>2 DEF Create, Begin
  <2>3. QED
    BY <2>1, <2>2, QuitKept DEF NoneLetIn, daemon
<1>3. CASE \E t \in {"M", "L"}, l \in {"await", "await again"} : Await(t, l)
  <2>1. pc'.Q = pc.Q
    BY <1>0, <1>3, AwaitMoves DEF OnlyM, OnlyL
  <2>2. UNCHANGED <<cb, daemon>>
    BY <1>3 DEF Await
  <2>3. QED
    BY <2>1, <2>2, QuitKept DEF NoneLetIn, daemon
<1>4. ASSUME NEW i \in Threads, Callback(i) PROVE QuitInv'
  <2>1. UNCHANGED <<pc, active, late>>
    BY <1>4 DEF Callback, OnPress, StartRecording, OnRelease, daemon
  <2>2. CASE OnPress(i)
    <3>1. CASE pc.Q = "none"
      BY <2>1, <3>1 DEF QuitInv, ShutdownLeavesNoDictation
    <3>2. CASE pc.Q # "none"
      <4>1. cb' = [cb EXCEPT ![i] = "none"] /\ dictating' = dictating
        BY <2>2, <3>2 DEF OnPress, LetsIn, QuitInv, daemon
      <4>2. QED
        BY <1>0, <2>1, <4>1, QuitKept DEF NoneLetIn
    <3>3. QED
      BY <3>1, <3>2
  <2>3. CASE StartRecording(i)
    <3>1. pc.Q = "none" \/ late
      BY <2>3 DEF StartRecording, QuitInv, Unlocked
    <3>2. QED
      BY <2>1, <3>1 DEF QuitInv, ShutdownLeavesNoDictation
  <2>4. CASE OnRelease(i)
    BY <1>0, <2>1, <2>4, QuitKept DEF OnRelease, Returns, NoneLetIn
  <2>5. QED
    BY <1>4, <2>2, <2>3, <2>4 DEF Callback
<1>5. CASE \/ \E i \in Threads : PortalAnswers(i) \/ PortalEnds(i) \/ Handle(i)
           \/ Trouble \/ Typing \/ UNCHANGED vars
  <2>1. UNCHANGED <<pc, daemon>>
    BY <1>5 DEF PortalAnswers, PortalOpens, PortalDenied, PortalEnds, Handle, Trouble, PortalClosed, Unplugged,
       Typing, Stroke, vars
  <2>2. NoneLetIn
    <3>1. CASE \E i \in Threads : Handle(i)
      BY <1>0, <3>1 DEF Handle, NoneLetIn
    <3>2. CASE ~\E i \in Threads : Handle(i)
      <4>1. cb' = cb
        BY <1>5, <3>2 DEF PortalAnswers, PortalOpens, PortalDenied, PortalEnds, Trouble, PortalClosed, Unplugged,
           Typing, Stroke, vars
      <4>2. QED
        BY <4>1 DEF NoneLetIn
    <3>3. QED
      BY <3>1, <3>2
  <2>3. QED
    BY <2>1, <2>2, QuitKept DEF daemon
<1>6. CASE ApplyCombo \/ Rejoin \/ \E c \in Combos : SetCombo(c)
  <2>1. pc'.Q = pc.Q
    BY <1>0, <1>6, ChangeMoves DEF OnlyM
  <2>2. UNCHANGED <<cb, daemon>>
    BY <1>6 DEF ApplyCombo, Rejoin, SetCombo
  <2>3. QED
    BY <2>1, <2>2, QuitKept DEF NoneLetIn, daemon
<1>7. CASE Quit
  <2>1. pc'.Q = "finish" /\ active' = FALSE /\ late' = ~Unlocked /\ cb' = cb
    BY <1>0, <1>7, QuitMoves DEF Quit, OnlyQ
  <2>2. QED
    BY <2>1 DEF QuitInv, ShutdownLeavesNoDictation, Unlocked
<1>8. CASE EndRecording \/ QuitRecording
  <2>1. (pc.Q # "none" \/ pc'.Q = "none") /\ UNCHANGED <<cb, active, late>> /\ dictating' = FALSE
    BY <1>0, <1>8, ChangeMoves, QuitMoves DEF EndRecording, QuitRecording, Finish, OnlyM, OnlyQ
  <2>2. QED
    BY <2>1, QuitKept DEF NoneLetIn
<1>9. CASE StopListening \/ StopJoins \/ Exit
  <2>1. (pc'.Q = pc.Q) \/ (pc.Q \in {"stop", "join"} /\ pc'.Q \in {"join", "done"})
    BY <1>0, <1>9, QuitMoves DEF OnlyM, OnlyQ
  <2>2. UNCHANGED <<cb, daemon>>
    BY <1>9 DEF StopListening, StopJoins, Exit
  <2>3. QED
    BY <2>1, <2>2, QuitKept DEF NoneLetIn, daemon
<1>10. QED
  BY <1>1, <1>2, <1>3, <1>4, <1>5, <1>6, <1>7, <1>8, <1>9 DEF Next, Starting, Listening, Changing, Quitting, Ended

(***************************************************************************)
(* Once shutdown has ended the recording, nothing is recorded any more: a  *)
(* callback that comes late, or that waits for the recorder, finds the     *)
(* daemon inactive.  A press that had been let in before is the exception. *)
(***************************************************************************)
THEOREM ShutdownIsQuiet == Spec => []ShutdownLeavesNoDictation
<1>1. Init => QuitInv
  BY DEF Init, QuitInv, ShutdownLeavesNoDictation, Unlocked
<1>2. TypeOK /\ TypeOK' /\ QuitInv /\ [Next]_vars => QuitInv'
  BY QuitStep
<1>3. QuitInv => ShutdownLeavesNoDictation
  BY DEF QuitInv
<1>4. QED
  BY <1>1, <1>2, <1>3, ShortcutTypes, PTL DEF Spec

-----------------------------------------------------------------------------
(* The keys behind a dictation                                               *)

\* Every event that is not dealt with yet goes to a listener that still hears its key.
Addressed == \A i \in Threads : \A n \in 1..Len(q[i]) : Sees(i, q[i][n].key)

\* Whether the backend takes k for held after the events s, when it did or not before.
Heard(was, s, k) == \/ was /\ \A n \in 1..Len(s) : s[n].key # k
                    \/ \E n \in 1..Len(s) : /\ s[n].key = k /\ s[n].down
                                            /\ \A m \in 1..Len(s) : m > n => s[m].key # k

\* It takes no key for held that is up, once it has dealt with what it is told.
NamesInv ==
  /\ Portal => names = {}
  /\ \A k \in names : \E i \in Threads : Sees(i, k)
  /\ ~Portal => \A i \in Threads, k \in Keys : Sees(i, k) /\ Heard(k \in names, q[i], k) => k \in held

\* Whether a session takes the combination for pressed after the events s.
Final(was, s) == IF s = <<>> THEN was ELSE s[Len(s)].down

NoRelease == \A i \in Threads : cb[i] # "release"

\* The combination is pressed for a listener that runs, and by keys that it knows.
PressedInv ==
  /\ pressed => pc.M = "join" \/ \E i \in Threads : lis[i] = "running"
  /\ pressed /\ ~Portal => names # {}
  /\ Portal => \A i \in Threads : lis[i] = "running" =>
                 trigger \in Combos /\ (Final(pressed, q[i]) => ComboActive(held, trigger))

\* Where the main thread is about to end a recording, or the program.
Ending == {"join", "again", "await again", "finish", "over"}

\* A dictation has keys behind it, or its end is on its way.
DictatingInv ==
  /\ \A i \in Threads : cb[i] # "none" => lis[i] = "running"
  /\ (\E i \in Threads : cb[i] \in {"press", "start"}) /\ NoRelease => pressed
  /\ dictating /\ ~pressed /\ NoRelease => pc.M \in Ending

ChangeInv == /\ pc.M \in {"combo", "join", "again", "await again"} => changes > 0
             /\ pc.M = "join" => stopping

KeysInv   == Addressed /\ (~excused => NamesInv)
EndsInv   == pc.Q = "none" /\ ~excused => PressedInv /\ DictatingInv
FollowInv == KeysInv /\ EndsInv /\ (pc.Q = "none" => ChangeInv)

\* One event more, at either end of a queue.
LEMMA HeardLast ==
  ASSUME NEW s \in Seq(Event), NEW e \in Event, NEW k, NEW was \in BOOLEAN, Heard(was, s \o <<e>>, k)
  PROVE  IF e.key = k THEN e.down ELSE Heard(was, s, k)
<1>1. /\ Len(s \o <<e>>) = Len(s) + 1 /\ (s \o <<e>>)[Len(s) + 1] = e
      /\ \A n \in 1..Len(s) : (s \o <<e>>)[n] = s[n]
  OBVIOUS
<1>2. Len(s) \in Nat
  OBVIOUS
<1>3. CASE e.key = k
  BY <1>1, <1>2, <1>3 DEF Heard
<1>4. CASE e.key # k
  BY <1>1, <1>2, <1>4 DEF Heard
<1>5. QED
  BY <1>3, <1>4

LEMMA HeardFirst ==
  ASSUME NEW s \in Seq(Event), s # <<>>, NEW k, NEW was \in BOOLEAN,
         Heard(IF Head(s).key = k THEN Head(s).down ELSE was, Tail(s), k)
  PROVE  Heard(was, s, k)
<1>1. /\ Len(s) \in Nat /\ Len(s) > 0 /\ Len(Tail(s)) = Len(s) - 1 /\ Head(s) = s[1]
      /\ \A n \in 1..(Len(s) - 1) : Tail(s)[n] = s[n + 1]
  OBVIOUS
<1>2. CASE \A n \in 1..Len(Tail(s)) : Tail(s)[n].key # k
  <2>1. \A n \in 2..Len(s) : s[n].key # k
    <3>1. ASSUME NEW n \in 2..Len(s) PROVE s[n].key # k
      <4>1. n - 1 \in 1..(Len(s) - 1) /\ (n - 1) + 1 = n
        BY <1>1
      <4>2. QED
        BY <1>1, <1>2, <4>1
    <3>2. QED
      BY <3>1
  <2>2. CASE s[1].key = k
    <3>1. s[1].down
      BY <1>1, <1>2, <2>2 DEF Heard
    <3>2. QED
      BY <1>1, <2>1, <2>2, <3>1 DEF Heard
  <2>3. CASE s[1].key # k
    <3>1. was
      BY <1>1, <1>2, <2>3 DEF Heard
    <3>2. \A n \in 1..Len(s) : s[n].key # k
      BY <1>1, <2>1, <2>3
    <3>3. QED
      BY <3>1, <3>2 DEF Heard
  <2>4. QED
    BY <2>2, <2>3
<1>3. CASE \E n \in 1..Len(Tail(s)) : /\ Tail(s)[n].key = k /\ Tail(s)[n].down
                                      /\ \A m \in 1..Len(Tail(s)) : m > n => Tail(s)[m].key # k
  <2>1. PICK n \in 1..Len(Tail(s)) : /\ Tail(s)[n].key = k /\ Tail(s)[n].down
                                     /\ \A m \in 1..Len(Tail(s)) : m > n => Tail(s)[m].key # k
    BY <1>3
  <2>2. n + 1 \in 1..Len(s) /\ s[n + 1].key = k /\ s[n + 1].down
    BY <1>1, <2>1
  <2>3. ASSUME NEW m \in 1..Len(s), m > n + 1 PROVE s[m].key # k
    <3>1. m - 1 \in 1..(Len(s) - 1) /\ m - 1 > n /\ (m - 1) + 1 = m
      BY <1>1, <2>1, <2>3
    <3>2. QED
      BY <1>1, <2>1, <3>1
  <2>4. QED
    BY <2>2, <2>3 DEF Heard
<1>4. QED
  BY <1>2, <1>3 DEF Heard

LEMMA FinalLast ==
  ASSUME NEW s \in Seq(Event), NEW e \in Event, NEW was
  PROVE  Final(was, s \o <<e>>) = e.down
<1>1. s \o <<e>> # <<>> /\ Len(s \o <<e>>) = Len(s) + 1 /\ (s \o <<e>>)[Len(s) + 1] = e
  OBVIOUS
<1>2. QED
  BY <1>1 DEF Final

LEMMA FinalFirst ==
  ASSUME NEW s \in Seq(Event), s # <<>>, NEW was
  PROVE  Final(Head(s).down, Tail(s)) = Final(was, s)
<1>1. /\ Len(s) \in Nat /\ Len(s) > 0 /\ Len(Tail(s)) = Len(s) - 1 /\ Head(s) = s[1]
      /\ \A n \in 1..(Len(s) - 1) : Tail(s)[n] = s[n + 1]
  OBVIOUS
<1>2. Tail(s) = <<>> <=> Len(s) = 1
  BY <1>1
<1>3. CASE Len(s) = 1
  BY <1>1, <1>2, <1>3 DEF Final
<1>4. CASE Len(s) # 1
  <2>1. Len(s) - 1 \in 1..(Len(s) - 1) /\ (Len(s) - 1) + 1 = Len(s)
    BY <1>1, <1>4
  <2>2. Tail(s)[Len(Tail(s))] = s[Len(s)]
    BY <1>1, <2>1
  <2>3. QED
    BY <1>2, <1>4, <2>2 DEF Final
<1>5. QED
  BY <1>3, <1>4
\* Before a start nobody hears the keys.
LEMMA NobodyHears ==
  ASSUME TypeOK, RoomInv, AliveInv, Owed, pc.M \notin {"combo", "join"}
  PROVE  NoneAlive
<1>1. CASE backend = "evdev"
  <2>1. PICK n \in 0..(Keyboards + MaxCombos) : Room(n)
    BY DEF RoomInv
  <2>2. n = 0
    BY <1>1, <2>1 DEF Room
  <2>3. Started = {}
    BY <2>1, <2>2 DEF Room
  <2>4. QED
    BY <2>3 DEF NoneAlive, Alive, Started
<1>2. CASE backend # "evdev"
  BY <1>2 DEF AliveInv
<1>3. QED
  BY <1>1, <1>2

\* Then nothing is on its way, and no key is taken for held.
LEMMA Deaf ==
  ASSUME TypeOK, FollowInv, \A i \in Threads : lis[i] # "running"
  PROVE  /\ \A i \in Threads : q[i] = <<>>
         /\ ~excused => names = {}
         /\ pc.Q = "none" /\ ~excused => /\ \A i \in Threads : cb[i] = "none"
                                         /\ pressed => pc.M = "join"
<1>1. ASSUME NEW i \in Threads PROVE q[i] = <<>>
  <2>1. q[i] \in Seq(Event) /\ \A n \in 1..Len(q[i]) : FALSE
    BY DEF FollowInv, KeysInv, Addressed, Sees, TypeOK, KeysOK
  <2>2. Len(q[i]) = 0
    BY <2>1
  <2>3. QED
    BY <2>1, <2>2
<1>2. ~excused => names = {}
  BY DEF FollowInv, KeysInv, NamesInv, Sees
<1>3. pc.Q = "none" /\ ~excused => /\ \A i \in Threads : cb[i] = "none"
                                   /\ pressed => pc.M = "join"
  BY DEF FollowInv, EndsInv, PressedInv, DictatingInv
<1>4. QED
  BY <1>1, <1>2, <1>3

\* Steps that touch neither the listeners nor what they know.
Heedless == UNCHANGED <<backend, board, lis, q, cb, names, pressed, held, trigger>>

LEMMA KeysHeedless ==
  ASSUME FollowInv, Heedless, excused => excused'
  PROVE  KeysInv'
  BY DEF FollowInv, KeysInv, Addressed, NamesInv, Heedless, Sees, Heard, Portal

LEMMA KeysAlone ==
  ASSUME TypeOK, FollowInv, Heedless, excused => excused', pc'.Q = "none" => pc.Q = "none",
         dictating' => dictating, pc.M = "join" => pc'.M = "join",
         pc.M \in Ending => pc'.M \in Ending \/ ~dictating' \/ excused'
  PROVE  KeysInv' /\ EndsInv'
<1>1. KeysInv'
  BY KeysHeedless
<1>2. ASSUME pc'.Q = "none", ~excused' PROVE PressedInv' /\ DictatingInv'
  <2>1. PressedInv /\ DictatingInv
    BY <1>2 DEF FollowInv, EndsInv
  <2>2. PressedInv'
    BY <2>1 DEF PressedInv, Heedless, Final, ComboActive, Portal
  <2>3. DictatingInv'
    <3>1. (NoRelease' <=> NoRelease)
      BY DEF NoRelease, Heedless
    <3>2. QED
      BY <1>2, <2>1, <3>1 DEF DictatingInv, Heedless
  <2>4. QED
    BY <2>2, <2>3
<1>3. QED
  BY <1>1, <1>2 DEF EndsInv

\* A loss of a release is not forgotten.
LEMMA Excuses ==
  ASSUME [Next]_vars, excused
  PROVE  excused'
<1>1. CASE Starting
  BY <1>1 DEF Starting, Boot, LoadEnds, Loaded, StartPending, StartWhenReady, Create, Begin, Await
<1>2. CASE Listening \/ Trouble
  BY <1>2 DEF Listening, PortalAnswers, PortalOpens, PortalDenied, PortalEnds, Handle,
     Callback, OnPress, StartRecording, OnRelease, Returns, Trouble,
     PortalClosed, Unplugged
<1>3. CASE Typing \/ Changing \/ Quitting \/ Quit \/ Exit \/ (\E c \in Combos : SetCombo(c)) \/ UNCHANGED vars
  BY <1>3 DEF Typing, Stroke, Changing, ApplyCombo, Rejoin, EndRecording, Quitting, QuitRecording, StopListening,
     StopJoins, Quit, Exit, SetCombo, vars
<1>4. QED
  BY <1>1, <1>2, <1>3 DEF Next, Ended

\* What a change of the combination has behind it.
LEMMA ChangeStep ==
  ASSUME TypeOK, Control, FollowInv, [Next]_vars, pc'.Q = "none"
  PROVE  ChangeInv'
<1>0. LoadOK /\ BackendOK /\ ModeInv /\ changes \in Nat
  BY DEF TypeOK, Control, DaemonOK
<1>q. pc.Q = "none" => ChangeInv
  BY DEF FollowInv
<1>1. CASE Boot \/ LoadEnds \/ Loaded \/ StartPending \/ StartWhenReady
  <2>1. pc'.Q = pc.Q /\ UNCHANGED <<changes, stopping>>
        /\ (pc'.M = pc.M \/ pc'.M \in {"ask", "create", "idle"})
    BY <1>0, <1>1, LoadMoves DEF OnlyM, OnlyL, Machine, back
  <2>2. QED
    BY <1>q, <2>1 DEF ChangeInv
<1>2. ASSUME NEW t \in {"M", "L"}, Create(t) PROVE ChangeInv'
  <2>1. pc'.Q = pc.Q /\ UNCHANGED <<changes, stopping>> /\ (pc'.M = pc.M \/ pc'.M \in {"begin", "idle", "over"})
    BY <1>0, <1>2, CreateMoves DEF OnlyM, OnlyL, Machine, Create
  <2>2. QED
    BY <1>q, <2>1 DEF ChangeInv
<1>3. ASSUME NEW t \in {"M", "L"}, NEW l \in {"begin", "again"}, Begin(t, l) PROVE ChangeInv'
  <2>1. pc'.Q = pc.Q /\ UNCHANGED changes
    BY <1>0, <1>3, BeginMoves DEF OnlyM, OnlyL, Machine
  <2>2. pc'.M = "again" \/ pc'.M = "await again" \/ pc'.M = "combo" => pc.M \in {"combo", "again", "await again"}
    BY <1>0, <1>3, BeginMoves DEF OnlyM, OnlyL, Then
  <2>3. pc'.M # "join"
    <3>1. pc.M = "join" => pc.L # "begin"
      BY <1>0 DEF ModeInv, TrayInv, WindowInv, BackendOK
    <3>2. QED
      BY <1>0, <1>3, <3>1, BeginMoves DEF OnlyM, OnlyL, Then
  <2>4. QED
    BY <1>q, <2>1, <2>2, <2>3 DEF ChangeInv
<1>4. ASSUME NEW t \in {"M", "L"}, NEW l \in {"await", "await again"}, Await(t, l) PROVE ChangeInv'
  <2>1. pc'.Q = pc.Q /\ UNCHANGED <<changes, stopping>> /\ (pc'.M = pc.M \/ pc'.M \in {"finish", "idle", "over"})
    BY <1>0, <1>4, AwaitMoves DEF OnlyM, OnlyL, Machine, Then, Await
  <2>2. QED
    BY <1>q, <2>1 DEF ChangeInv
<1>5. CASE Listening \/ Trouble \/ Typing \/ UNCHANGED vars
  <2>1. UNCHANGED <<pc, changes>>
    BY <1>0, <1>5, ListenersOnly
  <2>2. stopping => stopping'
    BY <1>5 DEF Listening, PortalAnswers, PortalOpens, PortalDenied, PortalEnds, Handle,
     Callback, OnPress, StartRecording, OnRelease, Returns, Trouble,
       PortalClosed, Unplugged, Typing, Stroke, vars, back
  <2>3. QED
    BY <1>q, <2>1, <2>2 DEF ChangeInv
<1>6. CASE ApplyCombo
  <2>1. pc.M = "combo" /\ pc'.Q = pc.Q /\ changes' = changes /\ pc'.M \in {"join", "finish"}
        /\ (pc'.M = "join" => Portal /\ Known)
    BY <1>0, <1>6, ChangeMoves DEF OnlyM, Machine
  <2>2. Portal /\ Known => stopping'
    BY <1>6 DEF ApplyCombo, Portal
  <2>3. QED
    BY <1>q, <2>1, <2>2 DEF ChangeInv
<1>7. CASE Rejoin \/ EndRecording
  <2>1. pc'.Q = pc.Q /\ changes' = changes /\ (pc.M = "join" \/ pc.M = "finish")
        /\ (pc'.M = "again" => pc.M = "join") /\ pc'.M \in {"again", "idle"}
    BY <1>0, <1>7, ChangeMoves DEF OnlyM, Machine
  <2>2. QED
    BY <1>q, <2>1 DEF ChangeInv
<1>8. ASSUME NEW c \in Combos, SetCombo(c) PROVE ChangeInv'
  <2>1. changes' = changes + 1 /\ pc'.M # "join"
    BY <1>0, <1>8, ChangeMoves DEF OnlyM
  <2>2. changes' > 0
    BY <1>0, <2>1
  <2>3. QED
    BY <2>1, <2>2 DEF ChangeInv
<1>9. CASE Quitting \/ Quit \/ Exit
  <2>1. Exit \/ pc'.Q # "none"
    BY <1>0, <1>9, QuitMoves DEF Quitting, OnlyQ
  <2>2. CASE Exit
    <3>1. pc'.M = "over"
      BY <1>0, <2>2, QuitMoves DEF OnlyM
    <3>2. QED
      BY <3>1 DEF ChangeInv
  <2>3. QED
    BY <2>1, <2>2
<1>10. QED
  BY <1>1, <1>2, <1>3, <1>4, <1>5, <1>6, <1>7, <1>8, <1>9 DEF Next, Starting, Changing, Ended
\* A new backend, or one that starts again.
LEMMA KeysCreate ==
  ASSUME StartInv, FollowInv, [Next]_vars, NEW t \in {"M", "L"}, Create(t)
  PROVE  KeysInv' /\ EndsInv'
<1>0. TypeOK /\ LoadOK /\ Handover /\ excused' = excused
  BY DEF StartInv, TypeOK, Control, Create
<1>1. pc[t] = "create" /\ ~obj /\ Owed /\ pc.M \notin {"combo", "join"} /\ pc'.Q = pc.Q
      /\ (t = "M" => pc.M \notin Ending) /\ (t = "L" => pc'.M = pc.M)
  BY <1>0, CreateMoves DEF StartInv, Owed, Handover, OnlyM, OnlyL, ObjInv, FreshInv, Ending
<1>2. NoneAlive
  BY <1>0, <1>1, NobodyHears DEF StartInv
<1>3. /\ \A i \in Threads : lis[i] # "running" /\ q[i] = <<>>
      /\ ~excused => names = {}
      /\ pc.Q = "none" /\ ~excused => ~pressed /\ \A i \in Threads : cb[i] = "none"
  BY <1>0, <1>1, <1>2, Deaf DEF NoneAlive, Alive
<1>4. UNCHANGED <<lis, q, cb, backend, held, trigger, dictating>> /\ (keys' = keys \/ (names' = {} /\ ~pressed'))
  BY DEF Create, fixed, user, daemon, Fails
<1>5. ~excused => names' = {}
  BY <1>3, <1>4 DEF keys
<1>6. KeysInv'
  BY <1>0, <1>3, <1>4, <1>5 DEF KeysInv, Addressed, NamesInv, Sees, Heard
<1>7. ASSUME pc'.Q = "none", ~excused' PROVE PressedInv' /\ DictatingInv'
  <2>1. ~pressed' /\ (\A i \in Threads : cb'[i] = "none") /\ ~pressed /\ NoRelease /\ DictatingInv
    BY <1>0, <1>1, <1>3, <1>4, <1>7 DEF keys, NoRelease, FollowInv, EndsInv
  <2>2. dictating' => pc.M \in Ending /\ pc'.M = pc.M
    BY <1>1, <1>4, <2>1 DEF DictatingInv
  <2>3. QED
    BY <1>3, <1>4, <2>1, <2>2 DEF PressedInv, DictatingInv, Final
<1>8. QED
  BY <1>6, <1>7 DEF EndsInv

LEMMA KeysBegin ==
  ASSUME StartInv, FollowInv, [Next]_vars, NEW t \in {"M", "L"}, NEW l \in {"begin", "again"}, Begin(t, l)
  PROVE  KeysInv' /\ EndsInv'
<1>0. TypeOK /\ LoadOK /\ Handover /\ UNCHANGED <<q, cb, names, pressed, held, trigger, dictating, excused, backend>>
  <2>1. TypeOK /\ LoadOK /\ Handover
    BY DEF StartInv, TypeOK, Control
  <2>2. UNCHANGED <<q, cb, names, pressed, held, trigger, dictating, excused, backend>>
    BY DEF Begin, fixed, keys, user, daemon
  <2>3. QED
    BY <2>1, <2>2
<1>1. pc[t] = l /\ (t = "L" => l = "begin") /\ Owed /\ pc.M \notin {"combo", "join"} /\ pc'.Q = pc.Q
      /\ (t = "L" => pc'.M = pc.M)
  <2>1. pc[t] = l /\ (t = "L" => l = "begin") /\ pc'.Q = pc.Q /\ (t = "L" => pc'.M = pc.M)
    BY <1>0, BeginMoves DEF OnlyM, OnlyL
  <2>2. QED
    BY <1>0, <2>1 DEF Owed, Handover
<1>2. NoneAlive
  BY <1>0, <1>1, NobodyHears DEF StartInv
<1>3. /\ \A i \in Threads : lis[i] # "running" /\ q[i] = <<>>
      /\ ~excused => names = {}
      /\ pc.Q = "none" /\ ~excused => ~pressed /\ \A i \in Threads : cb[i] = "none"
  BY <1>0, <1>1, <1>2, Deaf DEF NoneAlive, Alive
<1>4. KeysInv'
  <2>1. Addressed'
    BY <1>0, <1>3 DEF Addressed
  <2>2. ~excused' => NamesInv'
    BY <1>0, <1>3 DEF NamesInv, Heard
  <2>3. QED
    BY <2>1, <2>2 DEF KeysInv
<1>5. Portal' => \A i \in Threads : lis'[i] # "running"
  <2>1. ASSUME Portal, Spawns PROVE \A i \in Threads : lis'[i] # "running"
    BY <1>3, <2>1 DEF Spawns
  <2>2. Spawns \/ lis' = lis
    BY <1>0, BeginMoves DEF back
  <2>3. QED
    BY <1>0, <1>3, <2>1, <2>2 DEF Portal
<1>6. ASSUME pc'.Q = "none", ~excused' PROVE PressedInv' /\ DictatingInv'
  <2>1. ~pressed' /\ (\A i \in Threads : cb'[i] = "none") /\ ~pressed /\ NoRelease /\ DictatingInv /\ ChangeInv
    BY <1>0, <1>1, <1>3, <1>6 DEF NoRelease, FollowInv, EndsInv
  <2>2. dictating' => pc.M \in Ending
    BY <1>0, <2>1 DEF DictatingInv
  <2>3. t = "M" /\ pc.M \in Ending => pc'.M \in Ending
    <3>1. ASSUME t = "M", pc.M \in Ending PROVE pc'.M \in Ending
      <4>1. l = "again" /\ changes > 0
        BY <1>1, <2>1, <3>1 DEF Ending, ChangeInv
      <4>2. QED
        BY <1>0, <3>1, <4>1, BeginMoves DEF OnlyM, OnlyL, Then, Ending
    <3>2. QED
      BY <3>1
  <2>4. QED
    BY <1>1, <1>5, <2>1, <2>2, <2>3 DEF PressedInv, DictatingInv
<1>7. QED
  BY <1>4, <1>6 DEF EndsInv

LEMMA KeysAwait ==
  ASSUME StartInv, FollowInv, [Next]_vars, NEW t \in {"M", "L"}, NEW l \in {"await", "await again"}, Await(t, l)
  PROVE  KeysInv' /\ EndsInv'
<1>0. TypeOK /\ LoadOK /\ Heedless /\ UNCHANGED dictating
  BY DEF StartInv, TypeOK, Await, Heedless, fixed, keys, user, daemon
<1>1. pc'.Q = pc.Q /\ (t = "M" => pc.M = l) /\ (t = "L" => pc'.M = pc.M)
      /\ (t = "M" /\ ~err => pc'.M = Then("M"))
  BY <1>0, AwaitMoves DEF OnlyM, OnlyL, Await, Goto
<1>2. (excused => excused') /\ (err /\ l = "await again" /\ dictating => excused')
  BY DEF Await
<1>3. CASE pc'.Q = "none"
  <2>1. ChangeInv
    BY <1>1, <1>3 DEF FollowInv
  <2>2. pc.M \in Ending => pc'.M \in Ending \/ ~dictating' \/ excused'
    BY <1>0, <1>1, <1>2, <2>1 DEF ChangeInv, Then, Ending
  <2>3. pc.M = "join" => pc'.M = "join"
    BY <1>1
  <2>4. QED
    BY <1>0, <1>1, <1>2, <1>3, <2>2, <2>3, KeysAlone
<1>4. CASE pc'.Q # "none"
  <2>1. KeysInv'
    BY <1>0, <1>2, KeysHeedless
  <2>2. QED
    BY <1>4, <2>1 DEF EndsInv
<1>5. QED
  BY <1>3, <1>4

\* The session of the portal comes and goes, and so do the keyboards.
LEMMA KeysAnswers ==
  ASSUME StartInv, FollowInv, [Next]_vars, NEW i \in Threads, PortalAnswers(i)
  PROVE  KeysInv' /\ EndsInv'
<1>0. TypeOK /\ Portal /\ UNCHANGED <<backend, pc, q, cb, names, pressed, held, dictating, excused>> /\ lis[i] = "connecting"
  BY DEF StartInv, PortalAnswers, PortalOpens, PortalDenied, Portal, fixed, keys, user, daemon
<1>1. \A j \in Threads : lis[j] # "running"
  BY <1>0 DEF StartInv, AliveInv, Alive, Portal
<1>2. /\ \A j \in Threads : q[j] = <<>>
      /\ ~excused => names = {}
      /\ pc.Q = "none" /\ ~excused => /\ \A j \in Threads : cb[j] = "none"
                                      /\ pressed => pc.M = "join"
  BY <1>0, <1>1, Deaf
<1>3. KeysInv'
  <2>1. Addressed'
    BY <1>0, <1>2 DEF Addressed
  <2>2. ~excused' => NamesInv'
    BY <1>0, <1>2 DEF NamesInv, Portal
  <2>3. QED
    BY <2>1, <2>2 DEF KeysInv
<1>4. ASSUME pc'.Q = "none", ~excused' PROVE PressedInv' /\ DictatingInv'
  <2>1. pc.Q = "none" /\ ~excused /\ DictatingInv /\ ChangeInv
    BY <1>0, <1>4 DEF FollowInv, EndsInv
  <2>2. (\A j \in Threads : cb[j] = "none") /\ (pressed => pc.M = "join")
    BY <1>2, <2>1
  <2>3. \A j \in Threads : lis'[j] = "running" => ~stopping /\ trigger' = combo
    BY <1>0, <1>1 DEF PortalAnswers, PortalOpens, PortalDenied, TypeOK, BackendOK
  <2>4. combo \in Combos /\ Portal'
    BY <1>0 DEF TypeOK, DaemonOK, Portal
  <2>5. PressedInv'
    BY <1>0, <1>2, <2>1, <2>2, <2>3, <2>4 DEF PressedInv, ChangeInv, Final
  <2>6. DictatingInv'
    <3>1. NoRelease /\ NoRelease'
      BY <1>0, <2>2 DEF NoRelease
    <3>2. QED
      BY <1>0, <2>1, <2>2, <3>1 DEF DictatingInv
  <2>7. QED
    BY <2>5, <2>6
<1>5. QED
  BY <1>3, <1>4 DEF EndsInv

LEMMA KeysGone ==
  ASSUME StartInv, FollowInv, [Next]_vars, NEW i \in Threads, PortalEnds(i) \/ Unplugged(i)
  PROVE  KeysInv' /\ EndsInv'
<1>0. /\ TypeOK /\ UNCHANGED <<backend, board, pc, cb, names, pressed, held, trigger, dictating>>
      /\ cb[i] = "none" /\ lis[i] = "running" /\ (excused => excused')
      /\ lis' = [lis EXCEPT ![i] = "over"] /\ q' = [q EXCEPT ![i] = <<>>]
      /\ lis \in [Threads -> {"none", "connecting", "running", "over"}] /\ q \in [Threads -> Seq(Event)]
  BY DEF StartInv, TypeOK, BackendOK, KeysOK, PortalEnds, Unplugged, fixed, keys, user, daemon
<1>1. \A j \in Threads : j # i => lis'[j] = lis[j] /\ q'[j] = q[j]
  BY <1>0
<1>2. lis'[i] = "over" /\ q'[i] = <<>>
  BY <1>0
<1>3. Addressed'
  BY <1>0, <1>1, <1>2 DEF FollowInv, KeysInv, Addressed, Sees
<1>4. CASE PortalEnds(i)
  <2>1. Portal /\ \A j \in Threads : lis'[j] # "running"
    BY <1>0, <1>1, <1>2, <1>4 DEF PortalEnds, Portal, StartInv, AliveInv, Alive
  <2>2. ~excused' => NamesInv'
    <3>1. ~excused' => names' = {} /\ Portal'
      BY <1>0, <2>1 DEF FollowInv, KeysInv, NamesInv, Portal
    <3>2. QED
      BY <3>1 DEF NamesInv
  <2>3. ASSUME pc'.Q = "none", ~excused' PROVE PressedInv' /\ DictatingInv'
    <3>1. ~excused /\ PressedInv /\ DictatingInv /\ (pressed => pc.M = "join")
      BY <1>0, <1>4, <2>3 DEF FollowInv, EndsInv, PortalEnds
    <3>2. PressedInv'
      BY <1>0, <2>1, <3>1 DEF PressedInv, Portal
    <3>3. DictatingInv'
      <4>1. (NoRelease' <=> NoRelease)
        BY <1>0 DEF NoRelease
      <4>2. QED
        BY <1>0, <1>1, <3>1, <4>1 DEF DictatingInv
    <3>4. QED
      BY <3>2, <3>3
  <2>4. QED
    BY <1>3, <2>2, <2>3 DEF KeysInv, EndsInv
<1>5. CASE Unplugged(i)
  <2>1. ~Portal /\ ~Portal' /\ (~excused' => names = {} /\ ~excused)
    BY <1>0, <1>5 DEF Unplugged, Portal
  <2>2. ~excused' => NamesInv'
    BY <1>0, <1>1, <1>2, <2>1 DEF FollowInv, KeysInv, NamesInv, Sees, Heard
  <2>3. ASSUME pc'.Q = "none", ~excused' PROVE PressedInv' /\ DictatingInv'
    <3>1. ~excused /\ PressedInv /\ DictatingInv
      BY <1>0, <2>1, <2>3 DEF FollowInv, EndsInv
    <3>2. ~pressed
      BY <2>1, <2>3, <3>1 DEF PressedInv
    <3>3. PressedInv'
      BY <1>0, <2>1, <3>2 DEF PressedInv
    <3>4. DictatingInv'
      <4>1. (NoRelease' <=> NoRelease)
        BY <1>0 DEF NoRelease
      <4>2. QED
        BY <1>0, <1>1, <3>1, <4>1 DEF DictatingInv
    <3>5. QED
      BY <3>3, <3>4
  <2>4. QED
    BY <1>3, <2>2, <2>3 DEF KeysInv, EndsInv
<1>6. QED
  BY <1>4, <1>5
\* What a listener and another do not hear at the same time.
LEMMA OneHears ==
  ASSUME TypeOK, AliveInv, NEW i \in Threads, NEW j \in Threads, NEW k, Sees(i, k), Sees(j, k)
  PROVE  i = j
<1>1. CASE backend = "evdev"
  BY <1>1 DEF Sees
<1>2. CASE backend # "evdev"
  BY <1>2 DEF Sees, AliveInv, Alive
<1>3. QED
  BY <1>1, <1>2

\* A listener deals with an event.
LEMMA KeysHandle ==
  ASSUME StartInv, FollowInv, [Next]_vars, NEW i \in Threads, Handle(i)
  PROVE  KeysInv' /\ EndsInv'
<1> DEFINE e == Head(q[i])
<1>0. /\ TypeOK /\ UNCHANGED <<backend, board, lis, pc, held, trigger, combo, dictating, excused>>
      /\ lis[i] = "running" /\ cb[i] = "none" /\ q[i] # <<>> /\ q[i] \in Seq(Event)
      /\ q' = [q EXCEPT ![i] = Tail(@)] /\ names' = Names(e) /\ pressed' = Pressed(e)
      /\ cb' = [cb EXCEPT ![i] = IF pressed' = pressed THEN "none" ELSE IF pressed' THEN "press" ELSE "release"]
      /\ q \in [Threads -> Seq(Event)] /\ cb \in [Threads -> {"none", "press", "start", "release"}]
      /\ pressed \in BOOLEAN
  BY DEF StartInv, TypeOK, KeysOK, Handle, fixed, back, user, daemon
<1>1. /\ q'[i] = Tail(q[i]) /\ \A j \in Threads : j # i => q'[j] = q[j] /\ cb'[j] = cb[j]
      /\ cb'[i] = IF pressed' = pressed THEN "none" ELSE IF pressed' THEN "press" ELSE "release"
  BY <1>0
<1>2. e \in Event /\ e.key \in Keys /\ e.down \in BOOLEAN
  <2>1. e \in Event
    BY <1>0
  <2>2. QED
    BY <2>1 DEF Event
<1>3. /\ Len(q[i]) \in Nat /\ Len(q[i]) > 0 /\ Len(Tail(q[i])) = Len(q[i]) - 1 /\ e = q[i][1]
      /\ \A n \in 1..(Len(q[i]) - 1) : Tail(q[i])[n] = q[i][n + 1]
  BY <1>0
<1>4. Sees(i, e.key)
  <2>1. 1 \in 1..Len(q[i])
    BY <1>3
  <2>2. QED
    BY <1>3, <2>1 DEF FollowInv, KeysInv, Addressed
<1>5. \A j \in Threads, k \in Keys : Sees(j, k)' <=> Sees(j, k)
  BY <1>0 DEF Sees
<1>6. Addressed'
  <2>1. ASSUME NEW n \in 1..Len(q'[i]) PROVE Sees(i, q'[i][n].key)
    <3>1. n + 1 \in 1..Len(q[i]) /\ q'[i][n] = q[i][n + 1]
      BY <1>1, <1>3
    <3>2. QED
      BY <3>1 DEF FollowInv, KeysInv, Addressed
  <2>2. ASSUME NEW j \in Threads, NEW n \in 1..Len(q'[j]) PROVE Sees(j, q'[j][n].key)
    BY <1>1, <2>1 DEF FollowInv, KeysInv, Addressed
  <2>3. UNCHANGED <<backend, board, lis>>
    BY <1>0
  <2>4. QED
    BY <2>2, <2>3 DEF Addressed, Sees
<1>7. \A k : (k \in Names(e)) <=> (IF ~Portal /\ e.key = k THEN e.down ELSE k \in names)
  BY <1>2 DEF Names, Portal
<1>8. ASSUME ~excused' PROVE NamesInv'
  <2>1. NamesInv /\ (Portal' <=> Portal)
    BY <1>0, <1>8 DEF FollowInv, KeysInv, Portal
  <2>2. Portal' => names' = {}
    BY <1>0, <2>1 DEF NamesInv, Names, Portal
  <2>3. ASSUME NEW k \in names' PROVE \E j \in Threads : Sees(j, k)'
    <3>1. \E j \in Threads : Sees(j, k)
      BY <1>0, <1>4, <1>7, <2>1, <2>3 DEF NamesInv
    <3>2. QED
      BY <1>0, <3>1 DEF Sees
  <2>4. ASSUME ~Portal', NEW j \in Threads, NEW k \in Keys, Sees(j, k)', Heard(k \in names, q[j], k)'
        PROVE  k \in held'
    <3>1. ~Portal /\ Sees(j, k) /\ Heard(k \in Names(e), q'[j], k)
      BY <1>0, <1>5, <2>1, <2>4 DEF Heard
    <3>2. (k \in Names(e)) = (IF e.key = k THEN e.down ELSE k \in names)
      BY <1>2, <1>7, <3>1
    <3>3. CASE j = i
      <4>1. Heard(IF e.key = k THEN e.down ELSE k \in names, Tail(q[i]), k)
        BY <1>1, <3>1, <3>2, <3>3
      <4>2. Heard(k \in names, q[i], k)
        <5>1. (k \in names) \in BOOLEAN
          OBVIOUS
        <5>2. QED
          BY <1>0, <4>1, <5>1, HeardFirst
      <4>3. QED
        BY <1>0, <2>1, <3>1, <3>3, <4>2 DEF NamesInv
    <3>4. CASE j # i
      <4>1. e.key # k
        BY <1>0, <1>4, <3>1, <3>4, OneHears DEF StartInv
      <4>2. Heard(k \in names, q[j], k)
        BY <1>1, <3>1, <3>2, <3>4, <4>1 DEF Heard
      <4>3. QED
        BY <1>0, <2>1, <3>1, <4>2 DEF NamesInv
    <3>5. QED
      BY <3>3, <3>4
  <2>5. QED
    BY <2>2, <2>3, <2>4 DEF NamesInv
<1>9. ASSUME pc'.Q = "none", ~excused' PROVE PressedInv' /\ DictatingInv'
  <2>1. PressedInv /\ DictatingInv /\ (Portal' <=> Portal)
    BY <1>0, <1>9 DEF FollowInv, EndsInv, Portal
  <2>2. pressed' => pc'.M = "join" \/ \E j \in Threads : lis'[j] = "running"
    BY <1>0
  <2>3. ASSUME pressed', ~Portal PROVE names' # {}
    <3>1. CASE ComboActive(Names(e), combo)
      <4>1. PICK a \in combo : TRUE
        BY <1>0, CombosAssumption DEF TypeOK, DaemonOK
      <4>2. Aliases[a] \cap Names(e) # {}
        BY <3>1 DEF ComboActive
      <4>3. QED
        BY <1>0, <4>2
    <3>2. CASE ~ComboActive(Names(e), combo)
      <4>1. pressed /\ e.down
        BY <1>0, <2>3, <3>2 DEF Pressed, Portal
      <4>2. QED
        BY <1>0, <1>2, <2>3, <4>1 DEF Names, Portal
    <3>3. QED
      BY <3>1, <3>2
  <2>4. ASSUME Portal, NEW j \in Threads, lis'[j] = "running", Final(pressed, q[j])'
        PROVE  trigger' \in Combos /\ ComboActive(held, trigger)'
    <3>1. j = i
      BY <1>0, <2>4 DEF StartInv, AliveInv, Alive, Portal
    <3>2. pressed' = e.down
      BY <1>0, <2>4 DEF Pressed, Portal
    <3>3. Final(e.down, Tail(q[i]))
      BY <1>1, <2>4, <3>1, <3>2 DEF Final
    <3>4. Final(pressed, q[i])
      BY <1>0, <3>3, FinalFirst
    <3>5. QED
      BY <1>0, <2>1, <2>4, <3>1, <3>4 DEF PressedInv, ComboActive
  <2>5. PressedInv'
    <3>1. pressed' /\ ~Portal' => names' # {}
      BY <2>1, <2>3
    <3>2. Portal' => \A j \in Threads : lis'[j] = "running" =>
                       trigger' \in Combos /\ (Final(pressed, q[j])' => ComboActive(held, trigger)')
      BY <2>1, <2>4, <1>0 DEF PressedInv
    <3>3. QED
      BY <2>2, <3>1, <3>2 DEF PressedInv
  <2>6. NoRelease' => NoRelease
    BY <1>0, <1>1 DEF NoRelease
  <2>7. pressed' # pressed /\ ~pressed' => ~NoRelease'
    BY <1>0, <1>1 DEF NoRelease
  <2>8. \A j \in Threads : cb'[j] # "none" => lis'[j] = "running"
    BY <1>0, <1>1, <2>1 DEF DictatingInv
  <2>9. (\E j \in Threads : cb'[j] \in {"press", "start"}) /\ NoRelease' => pressed'
    <3>1. (\E j \in Threads : cb'[j] \in {"press", "start"}) /\ ~pressed'
            => pressed \/ \E j \in Threads : cb[j] \in {"press", "start"}
      BY <1>0, <1>1
    <3>2. QED
      BY <2>1, <2>6, <2>7, <3>1 DEF DictatingInv
  <2>10. dictating' /\ ~pressed' /\ NoRelease' => pc'.M \in Ending
    BY <1>0, <2>1, <2>6, <2>7 DEF DictatingInv
  <2>11. QED
    BY <2>5, <2>8, <2>9, <2>10 DEF DictatingInv
<1>10. QED
  BY <1>6, <1>8, <1>9 DEF KeysInv, EndsInv

\* The daemon is told.
LEMMA KeysCallback ==
  ASSUME StartInv, FollowInv, [Next]_vars, NEW i \in Threads, Callback(i)
  PROVE  KeysInv' /\ EndsInv'
<1>0. /\ TypeOK /\ UNCHANGED <<backend, board, lis, q, names, pressed, pc, held, trigger>>
      /\ cb[i] # "none" /\ (\A j \in Threads : j # i => cb'[j] = cb[j])
      /\ cb'[i] = "none" \/ (cb[i] = "press" /\ cb'[i] = "start")
      /\ cb \in [Threads -> {"none", "press", "start", "release"}]
  BY DEF StartInv, TypeOK, KeysOK, Callback, OnPress, StartRecording, OnRelease, Returns, fixed, back, keys, user
<1>1. excused => excused'
  BY Excuses
<1>2. KeysInv'
  BY <1>0, <1>1 DEF FollowInv, KeysInv, Addressed, NamesInv, Sees, Heard, Portal
<1>3. ASSUME pc'.Q = "none", ~excused' PROVE PressedInv' /\ DictatingInv'
  <2>1. PressedInv /\ DictatingInv
    BY <1>0, <1>1, <1>3 DEF FollowInv, EndsInv
  <2>2. PressedInv'
    BY <1>0, <2>1 DEF PressedInv, Final, ComboActive, Portal
  <2>3. CASE OnRelease(i)
    <3>1. cb[i] = "release" /\ cb'[i] = "none" /\ ~dictating' /\ \A j \in Threads : cb[j] \notin {"press", "start"}
      BY <1>0, <1>3, <2>3 DEF OnRelease, Unlocked, Returns
    <3>2. QED
      BY <1>0, <2>1, <2>2, <3>1 DEF DictatingInv
  <2>4. CASE OnPress(i) \/ StartRecording(i)
    <3>1. cb[i] \in {"press", "start"} /\ cb'[i] # "release"
      BY <1>0, <2>4 DEF OnPress, StartRecording
    <3>2. (NoRelease' => NoRelease) /\ (NoRelease => pressed)
      BY <1>0, <2>1, <3>1 DEF NoRelease, DictatingInv
    <3>3. \A j \in Threads : cb'[j] # "none" => lis'[j] = "running"
      BY <1>0, <2>1 DEF DictatingInv
    <3>4. QED
      BY <1>0, <2>2, <3>2, <3>3 DEF DictatingInv
  <2>5. QED
    BY <2>3, <2>4 DEF Callback
<1>4. QED
  BY <1>2, <1>3 DEF EndsInv

\* The user presses or releases a key.
LEMMA KeysStroke ==
  ASSUME StartInv, FollowInv, [Next]_vars, NEW k \in Keys, NEW down \in BOOLEAN, Stroke(k, down)
  PROVE  KeysInv' /\ EndsInv'
<1> DEFINE is == ComboActive(held', trigger)
           e  == [key |-> k, down |-> IF Portal THEN is ELSE down]
<1>0. /\ TypeOK /\ UNCHANGED <<backend, board, lis, pc, cb, names, pressed, trigger, dictating, excused>>
      /\ held' = (IF down THEN held \cup {k} ELSE held \ {k}) /\ Deliver(k, down)
      /\ q \in [Threads -> Seq(Event)]
  BY DEF StartInv, TypeOK, KeysOK, Stroke, fixed, back, keys, daemon
<1>1. e \in Event /\ e.key = k
  BY DEF Event, ComboActive
<1>2. Portal /\ is = ComboActive(held, trigger) => \A j \in Threads : q'[j] = q[j]
  <2>1. \A j \in Threads : q[j] \o <<>> = q[j]
    BY <1>0
  <2>2. QED
    BY <1>0, <2>1 DEF Deliver, Portal
<1>3. ~(Portal /\ is = ComboActive(held, trigger))
      => \A j \in Threads : q'[j] = IF Sees(j, k) THEN q[j] \o <<e>> ELSE q[j]
  BY <1>0 DEF Deliver, Portal
<1>4. \A j \in Threads : q'[j] = q[j] \/ (Sees(j, k) /\ q'[j] = q[j] \o <<e>>)
  BY <1>2, <1>3
<1>5. Addressed'
  <2>1. ASSUME NEW j \in Threads, NEW n \in 1..Len(q'[j]) PROVE Sees(j, q'[j][n].key)
    <3>1. CASE q'[j] = q[j]
      BY <3>1 DEF FollowInv, KeysInv, Addressed
    <3>2. CASE Sees(j, k) /\ q'[j] = q[j] \o <<e>>
      <4>1. /\ Len(q[j]) \in Nat /\ Len(q'[j]) = Len(q[j]) + 1 /\ q'[j][Len(q[j]) + 1] = e
            /\ \A m \in 1..Len(q[j]) : q'[j][m] = q[j][m]
        BY <1>0, <3>2
      <4>2. QED
        BY <1>1, <3>2, <4>1 DEF FollowInv, KeysInv, Addressed
    <3>3. QED
      BY <1>4, <3>1, <3>2
  <2>2. QED
    BY <1>0, <2>1 DEF Addressed, Sees
<1>6. ASSUME ~excused' PROVE NamesInv'
  <2>1. NamesInv /\ (Portal' <=> Portal)
    BY <1>0, <1>6 DEF FollowInv, KeysInv, Portal
  <2>2. ASSUME ~Portal', NEW j \in Threads, NEW kk \in Keys, Sees(j, kk)', Heard(kk \in names, q[j], kk)'
        PROVE  kk \in held'
    <3>1. ~Portal /\ Sees(j, kk) /\ Heard(kk \in names, q'[j], kk)
      BY <1>0, <2>1, <2>2 DEF Heard, Sees
    <3>2. CASE Sees(j, k)
      <4>1. Heard(kk \in names, q[j] \o <<e>>, kk) /\ q[j] \in Seq(Event)
        BY <1>0, <1>3, <3>1, <3>2
      <4>2. IF e.key = kk THEN e.down ELSE Heard(kk \in names, q[j], kk)
        <5>1. (kk \in names) \in BOOLEAN
          OBVIOUS
        <5> HIDE DEF e
        <5>2. QED
          BY <1>1, <4>1, <5>1, HeardLast
      <4>3. QED
        BY <1>0, <1>1, <2>1, <3>1, <4>2 DEF NamesInv
    <3>3. CASE ~Sees(j, k)
      <4>1. q'[j] = q[j] /\ kk # k
        BY <1>3, <3>1, <3>3
      <4>2. kk \in held
        BY <2>1, <3>1, <4>1 DEF NamesInv
      <4>3. QED
        BY <1>0, <4>1, <4>2
    <3>4. QED
      BY <3>2, <3>3
  <2>3. (Portal' => names' = {}) /\ \A n \in names' : \E j \in Threads : Sees(j, n)'
    BY <1>0, <2>1 DEF NamesInv, Sees
  <2>4. QED
    BY <2>2, <2>3 DEF NamesInv
<1>7. ASSUME pc'.Q = "none", ~excused' PROVE PressedInv' /\ DictatingInv'
  <2>1. PressedInv /\ DictatingInv /\ (Portal' <=> Portal)
    BY <1>0, <1>7 DEF FollowInv, EndsInv, Portal
  <2>2. DictatingInv'
    BY <1>0, <2>1 DEF DictatingInv, NoRelease
  <2>3. ASSUME Portal, NEW j \in Threads, lis'[j] = "running", Final(pressed, q[j])'
        PROVE  trigger' \in Combos /\ ComboActive(held, trigger)'
    <3>1. lis[j] = "running" /\ Sees(j, k) /\ trigger \in Combos /\ (Final(pressed, q[j]) => ComboActive(held, trigger))
      BY <1>0, <2>1, <2>3 DEF PressedInv, Sees, Portal
    <3>2. Final(pressed, q'[j])
      BY <1>0, <2>3 DEF Final
    <3>3. is
      <4>1. CASE is = ComboActive(held, trigger)
        BY <1>2, <2>3, <3>1, <3>2, <4>1
      <4>2. CASE is # ComboActive(held, trigger)
        <5>1. Final(pressed, q[j] \o <<e>>) /\ q[j] \in Seq(Event)
          BY <1>0, <1>3, <3>1, <3>2, <4>2
        <5>2. e.down
          BY <1>1, <5>1, FinalLast
        <5>3. QED
          BY <2>3, <5>2
      <4>3. QED
        BY <4>1, <4>2
    <3>4. QED
      BY <1>0, <3>1, <3>3 DEF ComboActive
  <2>4. PressedInv'
    BY <1>0, <2>1, <2>3 DEF PressedInv
  <2>5. QED
    BY <2>2, <2>4
<1>8. QED
  BY <1>5, <1>6, <1>7 DEF KeysInv, EndsInv

\* A change of the combination.
LEMMA KeysApply ==
  ASSUME StartInv, FollowInv, [Next]_vars, ApplyCombo
  PROVE  KeysInv' /\ EndsInv'
<1>0. TypeOK /\ LoadOK /\ UNCHANGED <<backend, board, lis, q, cb, held, trigger, dictating>>
  BY DEF StartInv, TypeOK, ApplyCombo, fixed, user, daemon
<1>1. pc.M = "combo" /\ pc'.M \in {"join", "finish"} /\ pc'.Q = pc.Q
  BY <1>0, ChangeMoves DEF OnlyM
<1>2. CASE Portal
  <2>1. Heedless /\ excused' = excused
    BY <1>0, <1>2 DEF ApplyCombo, Heedless, keys, Portal
  <2>2. QED
    BY <1>0, <1>1, <2>1, KeysAlone DEF Ending
<1>3. CASE ~Portal
  <2>1. names' = {} /\ pressed' = FALSE /\ pc'.M = "finish" /\ ~Portal'
        /\ excused' = (excused \/ \E i \in Threads : cb[i] # "none")
    BY <1>0, <1>3 DEF ApplyCombo, ForgetKeys, Portal, Goto, LoadOK
  <2>2. Addressed'
    BY <1>0 DEF FollowInv, KeysInv, Addressed, Sees
  <2>3. ASSUME ~excused' PROVE NamesInv'
    <3>1. NamesInv
      BY <2>1, <2>3 DEF FollowInv, KeysInv
    <3>2. ASSUME NEW j \in Threads, NEW k \in Keys, Sees(j, k)', Heard(k \in names, q[j], k)' PROVE k \in held'
      <4>1. Sees(j, k) /\ Heard(k \in {}, q[j], k)
        BY <1>0, <2>1, <3>2 DEF Sees, Heard
      <4>2. Heard(k \in names, q[j], k)
        BY <4>1 DEF Heard
      <4>3. QED
        BY <1>0, <1>3, <3>1, <4>1, <4>2 DEF NamesInv
    <3>3. QED
      BY <2>1, <3>2 DEF NamesInv
  <2>4. ASSUME ~excused' PROVE PressedInv' /\ DictatingInv'
    BY <1>0, <2>1, <2>4 DEF PressedInv, DictatingInv, Ending
  <2>5. QED
    BY <2>2, <2>3, <2>4 DEF KeysInv, EndsInv
<1>4. QED
  BY <1>2, <1>3

LEMMA KeysRejoin ==
  ASSUME StartInv, FollowInv, [Next]_vars, Rejoin
  PROVE  KeysInv' /\ EndsInv'
<1>0. /\ TypeOK /\ LoadOK /\ BackendOK /\ Portal /\ mode = "tray"
      /\ UNCHANGED <<backend, board, lis, q, cb, names, held, trigger, dictating, excused>>
      /\ pressed' = FALSE /\ pc.M = "join" /\ pc'.M = "again" /\ pc'.Q = pc.Q /\ ~Alive(cur)
  <2>1. TypeOK /\ LoadOK /\ BackendOK /\ Control
    BY DEF StartInv, TypeOK
  <2>2. /\ UNCHANGED <<backend, board, lis, q, cb, names, held, trigger, dictating, excused>>
        /\ pressed' = FALSE /\ pc.M = "join" /\ pc'.M = "again" /\ pc'.Q = pc.Q /\ ~Alive(cur)
    BY <2>1, ChangeMoves DEF Rejoin, OnlyM, fixed, user, daemon
  <2>3. QED
    BY <2>1, <2>2 DEF Control, ModeInv, PortalInv, WindowInv, BackendOK
<1>1. pc.Q = "none"
  BY <1>0 DEF StartInv, Control, ModeInv, TrayInv
<1>2. \A i \in Threads : lis[i] # "running"
  BY <1>0, <1>1 DEF StartInv, AliveInv, Alive, Portal
<1>3. /\ \A i \in Threads : q[i] = <<>>
      /\ ~excused => names = {} /\ \A i \in Threads : cb[i] = "none"
  BY <1>0, <1>1, <1>2, Deaf
<1>4. KeysInv'
  BY <1>0, <1>3 DEF KeysInv, Addressed, NamesInv, Portal
<1>5. ~excused' => PressedInv' /\ DictatingInv'
  BY <1>0, <1>2, <1>3 DEF PressedInv, DictatingInv, Ending
<1>6. QED
  BY <1>4, <1>5 DEF EndsInv

\* The shutdown takes the listeners away.
LEMMA KeysQuit ==
  ASSUME StartInv, FollowInv, [Next]_vars, StopListening \/ StopJoins
  PROVE  KeysInv' /\ EndsInv'
<1>0. /\ TypeOK /\ LoadOK /\ BackendOK /\ UNCHANGED <<backend, board, held, trigger, excused>>
      /\ (UNCHANGED names \/ names' = {}) /\ pc'.Q # "none"
      /\ q \in [Threads -> Seq(Event)] /\ lis \in [Threads -> {"none", "connecting", "running", "over"}]
  <2>1. TypeOK /\ LoadOK /\ BackendOK /\ KeysOK
    BY DEF StartInv, TypeOK
  <2>2. pc'.Q # "none"
    BY <2>1, QuitMoves DEF OnlyQ
  <2>3. QED
    BY <2>1, <2>2 DEF BackendOK, KeysOK, StopListening, StopJoins, fixed, user, keys
<1>1. \A i \in Threads : (lis'[i] = lis[i] /\ q'[i] = q[i]) \/ (lis'[i] # "running" /\ q'[i] = <<>>) 
  <2>1. CASE StopJoins \/ (StopListening /\ obj /\ backend = "portal")
    BY <2>1 DEF StopJoins, StopListening
  <2>2. CASE StopListening /\ ~(obj /\ backend = "portal")
    <3>1. /\ lis' = [i \in Threads |-> IF obj /\ Alive(i) THEN "over" ELSE lis[i]]
          /\ q' = [i \in Threads |-> IF obj THEN <<>> ELSE q[i]]
      BY <2>2 DEF StopListening
    <3>2. QED
      BY <1>0, <3>1 DEF Alive
  <2>3. QED
    BY <2>1, <2>2
<1>2. names' = {} \/ (names' = names /\ \A i \in Threads : lis'[i] = lis[i])
  BY DEF StopListening, StopJoins, keys
<1>3. Addressed'
  BY <1>0, <1>1 DEF FollowInv, KeysInv, Addressed, Sees
<1>4. ASSUME ~excused' PROVE NamesInv'
  <2>1. NamesInv /\ (Portal' <=> Portal)
    BY <1>0, <1>4 DEF FollowInv, KeysInv, Portal
  <2>2. (Portal' => names' = {}) /\ \A k \in names' : \E i \in Threads : Sees(i, k)'
    BY <1>0, <1>2, <2>1 DEF NamesInv, Sees
  <2>3. ASSUME ~Portal', NEW j \in Threads, NEW k \in Keys, Sees(j, k)', Heard(k \in names, q[j], k)' PROVE k \in held'
    <3>1. Sees(j, k) /\ q'[j] = q[j]
      BY <1>0, <1>1, <2>3 DEF Sees
    <3>2. Heard(k \in names, q[j], k)
      BY <1>0, <2>3, <3>1 DEF Heard
    <3>3. QED
      BY <1>0, <2>1, <2>3, <3>1, <3>2 DEF NamesInv
  <2>4. QED
    BY <2>2, <2>3 DEF NamesInv
<1>5. QED
  BY <1>0, <1>3, <1>4 DEF KeysInv, EndsInv

\* The rest has nothing to do with keys.
LEMMA KeysRest ==
  ASSUME StartInv, FollowInv, [Next]_vars,
         \/ Boot \/ LoadEnds \/ Loaded \/ StartPending \/ StartWhenReady
         \/ EndRecording \/ QuitRecording \/ Quit \/ Exit \/ UNCHANGED vars
         \/ \E i \in Threads : PortalClosed(i)
         \/ \E c \in Combos : SetCombo(c)
  PROVE  KeysInv' /\ EndsInv'
<1>0. TypeOK /\ LoadOK /\ BackendOK
  BY DEF StartInv, TypeOK
<1>1. Heedless /\ excused' = excused /\ (dictating' => dictating)
  BY DEF Heedless, Boot, LoadEnds, Loaded, StartPending, StartWhenReady, EndRecording, Finish, QuitRecording, Quit, Exit,
     PortalClosed, SetCombo, vars, fixed, back, keys, user, daemon
<1>2. pc'.Q = "none" => pc.Q = "none"
  BY <1>0, LoadMoves, ChangeMoves, QuitMoves DEF OnlyM, OnlyL, OnlyQ, PortalClosed, vars
<1>3. pc'.M = pc.M \/ pc.M \in {"boot", "ask", "idle"} \/ (pc.M = "finish" /\ ~dictating')
  <2>1. CASE EndRecording
    BY <1>0, <2>1, ChangeMoves DEF OnlyM, EndRecording, Finish
  <2>2. QED
    BY <1>0, <2>1, LoadMoves, ChangeMoves, QuitMoves DEF OnlyM, OnlyL, OnlyQ, PortalClosed, vars
<1>4. QED
  BY <1>0, <1>1, <1>2, <1>3, KeysAlone DEF Ending

LEMMA FollowStep == StartInv /\ FollowInv /\ [Next]_vars => FollowInv'
<1> SUFFICES ASSUME StartInv, FollowInv, [Next]_vars PROVE FollowInv'
  OBVIOUS
<1>1. pc'.Q = "none" => ChangeInv'
  BY ChangeStep DEF StartInv
<1>2. KeysInv' /\ EndsInv'
  <2>1. CASE Starting
    BY <2>1, KeysRest, KeysCreate, KeysBegin, KeysAwait DEF Starting
  <2>2. CASE Listening \/ Trouble \/ Typing
    BY <2>2, KeysAnswers, KeysGone, KeysHandle, KeysCallback, KeysRest, KeysStroke DEF Listening, Trouble, Typing
  <2>3. CASE Changing \/ Quitting
    BY <2>3, KeysApply, KeysRejoin, KeysRest, KeysQuit DEF Changing, Quitting
  <2>4. CASE Quit \/ Exit \/ (\E c \in Combos : SetCombo(c)) \/ UNCHANGED vars
    BY <2>4, KeysRest
  <2>5. QED
    BY <2>1, <2>2, <2>3, <2>4 DEF Next, Ended
<1>3. QED
  BY <1>1, <1>2 DEF FollowInv

LEMMA InitFollow == Init => FollowInv
<1> SUFFICES ASSUME Init PROVE FollowInv
  OBVIOUS
<1>1. Addressed
  BY DEF Init, Addressed
<1>2. NamesInv
  BY DEF Init, NamesInv, Sees
<1>3. PressedInv /\ DictatingInv /\ ChangeInv
  BY DEF Init, PressedInv, DictatingInv, ChangeInv
<1>4. QED
  BY <1>1, <1>2, <1>3 DEF FollowInv, KeysInv, EndsInv

(***************************************************************************)
(* A dictation goes with the keys that are down: when every event is dealt *)
(* with, no key is taken for held that is up, and none is recorded without *)
(* a key held - whatever the interleaving of listeners, changes of the     *)
(* combination, restarts and shutdown, but for the losses that are known   *)
(* and a press that shutdown has met on its way to the microphone.         *)
(***************************************************************************)
THEOREM DictationFollows == Spec => []DictationFollowsKeys
<1>1. Spec => []FollowInv
  BY InitFollow, FollowStep, StartAlways, PTL DEF Spec
<1>2. ASSUME StartInv, FollowInv, ShutdownLeavesNoDictation PROVE DictationFollowsKeys
  <2>1. ASSUME Quiet, ~excused PROVE names \subseteq held
    <3>1. ASSUME NEW k \in names PROVE k \in held
      <4>1. NamesInv /\ k \in Keys
        BY <1>2, <2>1 DEF FollowInv, KeysInv, StartInv, TypeOK, KeysOK
      <4>2. PICK i \in Threads : Sees(i, k)
        BY <4>1 DEF NamesInv
      <4>3. Heard(k \in names, q[i], k) /\ ~Portal
        <5>1. q[i] = <<>>
          BY <2>1 DEF Quiet
        <5>2. \A n \in 1..Len(q[i]) : FALSE
          BY <5>1
        <5>3. QED
          BY <4>1, <5>2 DEF Heard, NamesInv
      <4>4. QED
        BY <4>1, <4>2, <4>3 DEF NamesInv
    <3>2. QED
      BY <3>1
  <2>2. ASSUME Quiet, ~excused, ~late, held = {}, dictating PROVE FALSE
    <3>1. pc.Q = "none" /\ pc.M = "idle" /\ NoRelease
      BY <1>2, <2>2 DEF Quiet, ShutdownLeavesNoDictation, NoRelease
    <3>2. PressedInv /\ DictatingInv
      BY <1>2, <2>2, <3>1 DEF FollowInv, EndsInv
    <3>3. pressed
      BY <2>2, <3>1, <3>2 DEF DictatingInv, Ending
    <3>4. CASE Portal
      <4>1. PICK i \in Threads : lis[i] = "running"
        BY <3>1, <3>2, <3>3 DEF PressedInv
      <4>2. trigger \in Combos /\ ComboActive(held, trigger)
        BY <2>2, <3>2, <3>3, <3>4, <4>1 DEF PressedInv, Final, Quiet
      <4>3. PICK a \in trigger : TRUE
        BY <4>2, CombosAssumption
      <4>4. QED
        BY <2>2, <4>2, <4>3 DEF ComboActive
    <3>5. CASE ~Portal
      BY <2>1, <2>2, <3>2, <3>3, <3>5 DEF PressedInv
    <3>6. QED
      BY <3>4, <3>5
  <2>3. QED
    BY <1>2, <2>1, <2>2 DEF DictationFollowsKeys, NoStuckDictation, NoPhantomKeys
<1>3. QED
  BY <1>1, <1>2, StartAlways, ShutdownIsQuiet, PTL
=============================================================================
