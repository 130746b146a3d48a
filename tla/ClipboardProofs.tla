-------------------------- MODULE ClipboardProofs --------------------------
(***************************************************************************)
(* Theorems about Clipboard, for any number of texts, copies, watchers and *)
(* faults.  What the user copied is in its selection, or saved by the      *)
(* transaction in the lock, which has not come to its restore yet.  A text *)
(* whose keys are out is where the target pastes, or it is excused: a      *)
(* transaction gives it up only after its time limit, after a read that    *)
(* was not the target's, or when another has taken its place.              *)
(***************************************************************************)
EXTENDS Clipboard, TLAPS

\* The entries of a sequence; a sequence without repetitions.
Occurs(q) == {q[i] : i \in 1 .. Len(q)}
Unique(q) == \A a, b \in 1 .. Len(q) : q[a] = q[b] => a = b

LEMMA OccursHead ==
  ASSUME NEW S, NEW q \in Seq(S), q # << >>
  PROVE  /\ Head(q) \in S /\ Tail(q) \in Seq(S)
         /\ Occurs(q) = {Head(q)} \cup Occurs(Tail(q))
<1>1. Len(q) \in Nat /\ Len(q) > 0 /\ Head(q) = q[1] /\ Head(q) \in S /\ Tail(q) \in Seq(S)
  OBVIOUS
<1>2. Len(Tail(q)) = Len(q) - 1 /\ \A i \in 1 .. Len(q) - 1 : Tail(q)[i] = q[i + 1]
  BY <1>1
<1>3. \A x \in Occurs(q) : x \in {Head(q)} \cup Occurs(Tail(q))
  <2>1. SUFFICES ASSUME NEW i \in 1 .. Len(q) PROVE q[i] \in {Head(q)} \cup Occurs(Tail(q))
    BY DEF Occurs
  <2>2. CASE i = 1
    BY <1>1, <2>2
  <2>3. CASE i # 1
    <3>1. i - 1 \in 1 .. Len(Tail(q)) /\ Tail(q)[i - 1] = q[i]
      BY <1>1, <1>2, <2>3
    <3>. QED  BY <3>1 DEF Occurs
  <2>. QED  BY <2>2, <2>3
<1>4. \A x \in Occurs(Tail(q)) : x \in Occurs(q)
  <2>1. SUFFICES ASSUME NEW i \in 1 .. Len(Tail(q)) PROVE Tail(q)[i] \in Occurs(q)
    BY DEF Occurs
  <2>2. i + 1 \in 1 .. Len(q) /\ Tail(q)[i] = q[i + 1]
    BY <1>1, <1>2
  <2>. QED  BY <2>2 DEF Occurs
<1>5. Head(q) \in Occurs(q)
  BY <1>1 DEF Occurs
<1>. QED  BY <1>1, <1>3, <1>4, <1>5

LEMMA OccursAppend ==
  ASSUME NEW S, NEW q \in Seq(S), NEW x \in S
  PROVE  Append(q, x) \in Seq(S) /\ Occurs(Append(q, x)) = Occurs(q) \cup {x}
<1>1. Append(q, x) \in Seq(S) /\ Len(q) \in Nat /\ Len(Append(q, x)) = Len(q) + 1
  OBVIOUS
<1>2. (\A i \in 1 .. Len(q) : Append(q, x)[i] = q[i]) /\ Append(q, x)[Len(q) + 1] = x
  OBVIOUS
<1>3. 1 .. Len(q) + 1 = (1 .. Len(q)) \cup {Len(q) + 1}
  BY <1>1
<1>. QED  BY <1>1, <1>2, <1>3 DEF Occurs

LEMMA UniqueTail ==
  ASSUME NEW S, NEW q \in Seq(S), q # << >>, Unique(q)
  PROVE  Unique(Tail(q)) /\ Head(q) \notin Occurs(Tail(q))
<1>1. Len(q) \in Nat /\ Len(q) > 0 /\ Head(q) = q[1]
  OBVIOUS
<1>2. Len(Tail(q)) = Len(q) - 1 /\ \A i \in 1 .. Len(q) - 1 : Tail(q)[i] = q[i + 1]
  BY <1>1
<1>3. Unique(Tail(q))
  <2>1. SUFFICES ASSUME NEW a \in 1 .. Len(Tail(q)), NEW b \in 1 .. Len(Tail(q)), Tail(q)[a] = Tail(q)[b]
        PROVE  a = b
    BY DEF Unique
  <2>2. a + 1 \in 1 .. Len(q) /\ b + 1 \in 1 .. Len(q) /\ q[a + 1] = q[b + 1]
    BY <1>1, <1>2, <2>1
  <2>. QED  BY <2>2 DEF Unique
<1>4. \A i \in 1 .. Len(Tail(q)) : Tail(q)[i] # Head(q)
  <2>1. SUFFICES ASSUME NEW i \in 1 .. Len(Tail(q)), Tail(q)[i] = Head(q) PROVE FALSE
    OBVIOUS
  <2>2. i + 1 \in 1 .. Len(q) /\ 1 \in 1 .. Len(q) /\ q[i + 1] = q[1]
    BY <1>1, <1>2, <2>1
  <2>. QED  BY <2>2 DEF Unique
<1>. QED  BY <1>3, <1>4 DEF Occurs

LEMMA UniqueAppend ==
  ASSUME NEW S, NEW q \in Seq(S), NEW x \in S, Unique(q), x \notin Occurs(q)
  PROVE  Unique(Append(q, x))
<1>1. Len(q) \in Nat /\ Len(Append(q, x)) = Len(q) + 1
  OBVIOUS
<1>2. (\A i \in 1 .. Len(q) : Append(q, x)[i] = q[i]) /\ Append(q, x)[Len(q) + 1] = x
  OBVIOUS
<1>3. \A i \in 1 .. Len(q) : q[i] # x
  BY DEF Occurs
<1>4. 1 .. Len(q) + 1 = (1 .. Len(q)) \cup {Len(q) + 1}
  BY <1>1
<1>. QED  BY <1>1, <1>2, <1>3, <1>4 DEF Unique

-----------------------------------------------------------------------------
(* The shape of the state                                                    *)

Labels == Inside \cup {"new", "lock", "plain", "plainkeys", "done"}
Owners == Texts \cup {"user", "kept", "text", "none"}

Turns == \A d \in Texts : pc[d] \in Inside <=> lock = d
Places == /\ plain \in BOOLEAN /\ primary \in BOOLEAN
          /\ plat = "windows" => ~plain
          /\ primary => plain
          /\ by \in [Texts -> Callers]
Shape ==
  /\ Turns /\ Places
  /\ clip \in [Sels -> [own : Owners, val : Values]]
  /\ pc \in [Texts -> Labels] /\ caller \in [Callers -> Texts \cup {NoOne}]
  /\ todo \in [Texts -> Seq(SelSet)] /\ wrote \in [Texts -> SUBSET SelSet]
  /\ snap \in [Texts -> [Sels -> Values]]
  /\ {saved, served, rendered, sure} \subseteq [Texts -> BOOLEAN]
  /\ keys \in Seq(Texts) /\ got \in [Texts -> {NoOne, "right", "excused", "wrong"}]
  /\ last \in [Sels -> Copies] /\ copies \in Copies
  /\ excused \subseteq Sels /\ slips \subseteq Texts /\ foreign \subseteq Texts

LEMMA SelsWritten ==
  /\ SelSet = IF plat = "x11" /\ plain THEN Sels ELSE {"clipboard"}
  /\ Selections \in Seq(SelSet) /\ Occurs(Selections) = SelSet /\ SelSet \subseteq Sels
<1>1. CASE plat = "x11" /\ plain
  <2>1. Selections = <<"clipboard", "primary">>
    BY <1>1 DEF Selections, HandlesPrimary
  <2>2. DOMAIN Selections = {1, 2} /\ Len(Selections) = 2 /\ 1 .. 2 = {1, 2}
    BY <2>1
  <2>3. Selections[1] = "clipboard" /\ Selections[2] = "primary"
    BY <2>1
  <2>4. SelSet = {"clipboard", "primary"} /\ Occurs(Selections) = {"clipboard", "primary"}
    BY <2>2, <2>3 DEF SelSet, Occurs
  <2>. QED  BY <1>1, <2>1, <2>4 DEF Sels
<1>2. CASE ~(plat = "x11" /\ plain)
  <2>1. Selections = <<"clipboard">>
    BY <1>2 DEF Selections, HandlesPrimary
  <2>2. DOMAIN Selections = {1} /\ Len(Selections) = 1 /\ 1 .. 1 = {1} /\ Selections[1] = "clipboard"
    BY <2>1
  <2>4. SelSet = {"clipboard"} /\ Occurs(Selections) = {"clipboard"}
    BY <2>2 DEF SelSet, Occurs
  <2>. QED  BY <1>2, <2>1, <2>4 DEF Sels
<1>. QED  BY <1>1, <1>2

LEMMA ShapeStart == Init => Shape
<1>. SUFFICES ASSUME Init PROVE Shape
  OBVIOUS
<1>1. PICK desktop \in {"windows", "x11", "wayland", "unknown"}, tools \in SUBSET Tools :
        /\ plat = Session(desktop, tools)
        /\ plain \in IF Typing(desktop, tools) = "xdotool" THEN BOOLEAN ELSE {FALSE}
        /\ primary = (plain /\ "xclip" \in tools)
        /\ Typing(desktop, tools) # NoOne
  BY DEF Init
<1>2. desktop # "windows" => plat # "windows"
  BY <1>1 DEF Session
<1>3. Typing("windows", tools) # "xdotool" \/ Typing("windows", tools) = NoOne
  <2>1. Candidates("windows") = <<"pynput">>
    BY DEF Candidates
  <2>2. DOMAIN <<"pynput">> = {1} /\ <<"pynput">>[1] = "pynput"
    OBVIOUS
  <2>3. SUFFICES ASSUME Typing("windows", tools) # NoOne PROVE Typing("windows", tools) # "xdotool"
    OBVIOUS
  <2>4. {i \in {1} : <<"pynput">>[i] \in tools} = {1}
    BY <2>1, <2>2, <2>3 DEF Typing
  <2>5. (CHOOSE i \in {1} : \A j \in {1} : i <= j) = 1
    OBVIOUS
  <2>. QED  BY <2>1, <2>2, <2>4, <2>5 DEF Typing
<1>4. Places
  BY <1>1, <1>2, <1>3, ClipboardAssumption DEF Places, Init
<1>5. 0 \in Copies
  BY ClipboardAssumption DEF Copies
<1>6. Turns
  BY ClipboardAssumption DEF Init, Turns, Inside
<1>. QED  BY <1>4, <1>5, <1>6, ClipboardAssumption DEF Init, Shape, Owners, Values, Labels

\* What the steps of a transaction leave of the shape.
LEMMA ShapeFixed ==
  ASSUME Shape, UNCHANGED fixed
  PROVE  Places' /\ SelSet' = SelSet /\ Selections' = Selections
  BY DEF Shape, fixed, Places, SelSet, Selections, HandlesPrimary

LEMMA ShapeRests == Shape /\ UNCHANGED vars => Shape'
<1>. SUFFICES ASSUME Shape, UNCHANGED vars PROVE Shape'
  OBVIOUS
<1>1. Places' /\ SelSet' = SelSet
  BY ShapeFixed DEF vars
<1>. QED  BY <1>1 DEF vars, job, signal, ghost, count, Shape, Turns

LEMMA OwnTypes ==
  ASSUME NEW d \in Texts, NEW o \in Owners, NEW v \in Values
  PROVE  /\ [own |-> o, val |-> v] \in [own : Owners, val : Values]
         /\ d \in Owners /\ d \in Values /\ Empty \in Values
         /\ {"user", "kept", "text", "none"} \subseteq Owners
  BY DEF Owners, Values

LEMMA SetTypes ==
  ASSUME Shape, NEW s \in Sels, NEW o \in Owners, NEW v \in Values, SetClip(s, o, v)
  PROVE  /\ clip' \in [Sels -> [own : Owners, val : Values]]
         /\ clip'[s].own = o /\ clip'[s].val = v
         /\ \A t \in Sels \ {s} : clip'[t] = clip[t]
<1>1. [own |-> o, val |-> v] \in [own : Owners, val : Values]
  OBVIOUS
<1>. QED  BY <1>1 DEF Shape, SetClip

\* A transaction goes on, inside the lock or outside.
LEMMA TurnsGo ==
  ASSUME Shape, NEW d \in Texts, NEW l \in Labels, Go(d, l)
  PROVE  /\ pc' \in [Texts -> Labels]
         /\ pc[d] \in Inside /\ l \in Inside /\ lock' = lock => Turns'
         /\ pc[d] \notin Inside /\ l \notin Inside /\ lock' = lock => Turns'
         /\ pc[d] \in Inside /\ l \notin Inside /\ lock' = NoOne => Turns'
         /\ lock = NoOne /\ l \in Inside /\ lock' = d => Turns'
<1>1. pc' = [pc EXCEPT ![d] = l] /\ pc \in [Texts -> Labels] /\ Turns /\ NoOne \notin Texts
  BY ClipboardAssumption DEF Shape, Go
<1>2. pc' \in [Texts -> Labels]
  BY <1>1
<1>3. pc'[d] = l /\ \A e \in Texts \ {d} : pc'[e] = pc[e]
  BY <1>1
<1>4. pc[d] \in Inside => lock = d
  BY <1>1 DEF Turns
<1>. QED  BY <1>1, <1>2, <1>3, <1>4 DEF Turns

LEMMA ShapeOpens ==
  ASSUME Shape, NEW d \in Texts, Send(d) \/ Lock(d) \/ \E ok \in BOOLEAN : Open(d, ok)
  PROVE  Shape'
<1>0. Places' /\ SelSet' = SelSet
  BY ShapeFixed DEF Send, Lock, Open
<1>1. ASSUME Send(d) PROVE Shape'
  <2>1. caller' \in [Callers -> Texts \cup {NoOne}]
    BY <1>1 DEF Send, Shape, Places
  <2>2. Turns' /\ pc' \in [Texts -> Labels]
    BY <1>1, TurnsGo DEF Send, Labels, Inside
  <2>. QED  BY <1>0, <1>1, <2>1, <2>2 DEF Send, Shape, signal, ghost, count
<1>2. ASSUME Lock(d) PROVE Shape'
  <2>2. Turns' /\ pc' \in [Texts -> Labels]
    BY <1>2, TurnsGo DEF Lock, Labels, Inside
  <2>. QED  BY <1>0, <1>2, <2>2 DEF Lock, Shape, signal, ghost, count
<1>3. ASSUME NEW ok \in BOOLEAN, Open(d, ok) PROVE Shape'
  <2>2. Turns' /\ pc' \in [Texts -> Labels]
    BY <1>3, TurnsGo DEF Open, Labels, Inside
  <2>. QED  BY <1>0, <1>3, <2>2 DEF Open, Shape, signal, ghost
<1>. QED  BY <1>1, <1>2, <1>3

LEMMA ShapeSaves ==
  ASSUME Shape, NEW d \in Texts, NEW ok \in BOOLEAN, Snapshot(d, ok)
  PROVE  Shape'
<1>0. Places' /\ SelSet' = SelSet
  BY ShapeFixed DEF Snapshot, Unread
<1>1. Turns' /\ pc' \in [Texts -> Labels]
  BY TurnsGo DEF Snapshot, Unread, Labels, Inside
<1>2. snap' \in [Texts -> [Sels -> Values]] /\ saved' \in [Texts -> BOOLEAN]
  <2>1. \A blank : [s \in Sels |-> IF s \in blank THEN Empty ELSE clip[s].val] \in [Sels -> Values]
    BY DEF Shape, Values
  <2>2. UNCHANGED <<snap, saved>>
          \/ /\ saved' = [saved EXCEPT ![d] = TRUE]
             /\ \E value \in [Sels -> Values] : snap' = [snap EXCEPT ![d] = value]
    BY <2>1 DEF Snapshot
  <2>. QED  BY <2>2 DEF Shape
<1>3. todo' \in [Texts -> Seq(SelSet)]
  BY SelsWritten DEF Snapshot, Unread, Shape
<1>. QED  BY <1>0, <1>1, <1>2, <1>3 DEF Snapshot, Unread, Shape, signal, ghost

LEMMA ShapeWrites ==
  ASSUME Shape, NEW d \in Texts, (\E ok \in BOOLEAN : Write(d, ok)) \/ AfterWrite(d)
  PROVE  Shape'
<1>0. Places' /\ SelSet' = SelSet
  BY ShapeFixed DEF Write, Untouched, Cleared, AfterWrite
<1>1. ASSUME NEW ok \in BOOLEAN, Write(d, ok) PROVE Shape'
  <2>1. /\ Head(todo[d]) \in SelSet /\ Head(todo[d]) \in Sels /\ Tail(todo[d]) \in Seq(SelSet)
    BY <1>1, OccursHead, SelsWritten DEF Write, Untouched, Cleared, Shape
  <2>2. Turns' /\ pc' \in [Texts -> Labels]
    <3>1. CASE ok
      BY <1>1, <3>1 DEF Write, Untouched, Cleared, Shape, Turns
    <3>2. CASE ~ok
      BY <1>1, <3>2, TurnsGo DEF Write, Untouched, Cleared, Labels, Inside
    <3>. QED  BY <3>1, <3>2
  <2>3. clip' \in [Sels -> [own : Owners, val : Values]]
    BY <1>1, <2>1, SetTypes, OwnTypes DEF Write, Untouched, Cleared, Shape
  <2>4. todo' \in [Texts -> Seq(SelSet)] /\ wrote' \in [Texts -> SUBSET SelSet]
    <3>1. CASE ok
      <4>1. wrote[d] \cup {Head(todo[d])} \in SUBSET SelSet
        BY <2>1 DEF Shape
      <4>. QED  BY <1>1, <2>1, <3>1, <4>1 DEF Write, Untouched, Cleared, Shape
    <3>2. CASE ~ok
      BY <1>1, <3>2 DEF Write, Untouched, Cleared, Shape
    <3>. QED  BY <3>1, <3>2
  <2>5. excused' \subseteq Sels /\ slips' \subseteq Texts
    BY <1>1, <2>1 DEF Write, Untouched, Cleared, Shape, Carried
  <2>. QED  BY <1>0, <1>1, <2>2, <2>3, <2>4, <2>5 DEF Write, Untouched, Cleared, Shape, signal
<1>2. ASSUME AfterWrite(d) PROVE Shape'
  <2>2. Turns' /\ pc' \in [Texts -> Labels]
    BY <1>2, TurnsGo DEF AfterWrite, Labels, Inside
  <2>3. clip' \in [Sels -> [own : Owners, val : Values]]
    <3>1. "text" \in Owners /\ d \in Values /\ "primary" \in Sels
      BY DEF Owners, Values, Sels
    <3>. QED  BY <1>2, <3>1, SetTypes DEF AfterWrite, Shape
  <2>4. excused' \subseteq Sels /\ slips' \subseteq Texts
    BY <1>2 DEF AfterWrite, Shape, Carried, Sels
  <2>. QED  BY <1>0, <1>2, <2>2, <2>3, <2>4 DEF AfterWrite, Shape, signal, count
<1>. QED  BY <1>1, <1>2

LEMMA ShapePastes ==
  ASSUME Shape, NEW d \in Texts, BeforePaste(d) \/ \E ok \in BOOLEAN : SendPaste(d, ok)
  PROVE  Shape'
<1>0. Places' /\ SelSet' = SelSet
  BY ShapeFixed DEF BeforePaste, SendPaste
<1>1. ASSUME BeforePaste(d) PROVE Shape'
  <2>1. Turns' /\ pc' \in [Texts -> Labels]
    BY <1>1, TurnsGo DEF BeforePaste, Labels, Inside
  <2>2. served' \in [Texts -> BOOLEAN] /\ foreign' \subseteq Texts
    BY <1>1 DEF BeforePaste, Shape, Baseline
  <2>. QED  BY <1>0, <1>1, <2>1, <2>2 DEF BeforePaste, Shape, count
<1>2. ASSUME NEW ok \in BOOLEAN, SendPaste(d, ok) PROVE Shape'
  <2>1. Turns' /\ pc' \in [Texts -> Labels]
    BY <1>2, TurnsGo DEF SendPaste, Labels, Inside
  <2>2. keys' \in Seq(Texts) /\ caller' \in [Callers -> Texts \cup {NoOne}]
    <3>1. Append(keys, d) \in Seq(Texts)
      BY OccursAppend DEF Shape
    <3>. QED  BY <1>2, <3>1 DEF SendPaste, Shape, Release
  <2>. QED  BY <1>0, <1>2, <2>1, <2>2 DEF SendPaste, Shape, signal, ghost
<1>. QED  BY <1>1, <1>2

LEMMA ShapeWaits ==
  ASSUME Shape, NEW d \in Texts, WaitEnds(d) \/ WaitTimesOut(d) \/ Check(d)
  PROVE  Shape'
<1>0. Places' /\ SelSet' = SelSet
  BY ShapeFixed DEF WaitEnds, WaitTimesOut, Check
<1>1. CASE WaitEnds(d)
  <2>1. Turns' /\ pc' \in [Texts -> Labels]
    BY <1>1, TurnsGo DEF WaitEnds, Labels, Inside
  <2>. QED  BY <1>0, <1>1, <2>1 DEF WaitEnds, Shape, signal, ghost, count
<1>2. CASE WaitTimesOut(d)
  <2>1. Turns' /\ pc' \in [Texts -> Labels]
    BY <1>2, TurnsGo DEF WaitTimesOut, Labels, Inside
  <2>. QED  BY <1>0, <1>2, <2>1 DEF WaitTimesOut, Shape, signal, count
<1>3. CASE Check(d)
  <2>1. Turns' /\ pc' \in [Texts -> Labels]
    BY <1>3, TurnsGo DEF Check, Labels, Inside
  <2>2. todo' \in [Texts -> Seq(SelSet)]
    BY <1>3, SelsWritten DEF Check, Shape
  <2>3. sure' \in [Texts -> BOOLEAN]
    BY <1>3 DEF Check, Shape, Own
  <2>. QED  BY <1>0, <1>3, <2>1, <2>2, <2>3 DEF Check, Shape, signal, count
<1>. QED  BY <1>1, <1>2, <1>3

LEMMA ShapeRestores ==
  ASSUME Shape, NEW d \in Texts, RestoreNext(d) \/ Put(d) \/ RestoreFails(d),
         pc[d] = "put" => todo[d] # << >>
  PROVE  Shape'
<1>0. Places' /\ SelSet' = SelSet
  BY ShapeFixed DEF RestoreNext, Put, RestoreFails
<1>a. todo[d] # << >> => /\ Head(todo[d]) \in SelSet /\ Head(todo[d]) \in Sels
                         /\ Tail(todo[d]) \in Seq(SelSet)
  BY OccursHead, SelsWritten DEF Shape
<1>1. CASE RestoreNext(d)
  <2>1. Turns' /\ pc' \in [Texts -> Labels]
    <3>1. CASE UNCHANGED pc
      BY <1>1, <3>1 DEF RestoreNext, Shape, Turns
    <3>2. CASE Go(d, "close") \/ Go(d, "put")
      BY <1>1, <3>2, TurnsGo DEF RestoreNext, Labels, Inside
    <3>. QED  BY <1>1, <3>1, <3>2 DEF RestoreNext
  <2>2. todo' \in [Texts -> Seq(SelSet)] /\ sure' \in [Texts -> BOOLEAN]
    BY <1>1, <1>a DEF RestoreNext, Shape, Own
  <2>3. clip' \in [Sels -> [own : Owners, val : Values]]
    <3>1. "kept" \in Owners /\ \A s \in Sels : snap[d][s] \in Values
      BY DEF Owners, Shape
    <3>. QED  BY <1>1, <1>a, <3>1, SetTypes DEF RestoreNext, Shape
  <2>. QED  BY <1>0, <1>1, <2>1, <2>2, <2>3 DEF RestoreNext, Shape, signal, count
<1>2. CASE Put(d)
  <2>1. Turns' /\ pc' \in [Texts -> Labels]
    BY <1>2, TurnsGo DEF Put, Labels, Inside
  <2>2. todo' \in [Texts -> Seq(SelSet)]
    BY <1>2, <1>a DEF Put, Shape
  <2>3. clip' \in [Sels -> [own : Owners, val : Values]]
    BY <1>2, <1>a DEF Put, SetClip, Shape, Owners
  <2>4. excused' \subseteq Sels /\ slips' \subseteq Texts
    BY <1>2, <1>a DEF Put, Shape, Carried
  <2>. QED  BY <1>0, <1>2, <2>1, <2>2, <2>3, <2>4 DEF Put, Shape, signal, count
<1>3. CASE RestoreFails(d)
  <2>1. Turns' /\ pc' \in [Texts -> Labels]
    BY <1>3, TurnsGo DEF RestoreFails, Labels, Inside
  <2>4. excused' \subseteq Sels
    BY <1>3 DEF RestoreFails, Shape
  <2>. QED  BY <1>0, <1>3, <2>1, <2>4 DEF RestoreFails, Shape, signal
<1>. QED  BY <1>1, <1>2, <1>3

LEMMA ShapeCloses ==
  ASSUME Shape, NEW d \in Texts, Close(d)
  PROVE  Shape'
<1>0. Places' /\ SelSet' = SelSet
  BY ShapeFixed DEF Close
<1>1. Turns' /\ pc' \in [Texts -> Labels]
  BY TurnsGo DEF Close, Labels, Inside
<1>2. clip' \in [Sels -> [own : Owners, val : Values]]
  BY DEF Close, Shape, Owners, Values
<1>3. caller' \in [Callers -> Texts \cup {NoOne}]
  BY DEF Close, Shape, Release
<1>4. todo' \in [Texts -> Seq(SelSet)] /\ wrote' \in [Texts -> SUBSET SelSet]
  BY DEF Close, Shape
<1>5. snap' \in [Texts -> [Sels -> Values]]
  <2>1. [s \in Sels |-> Empty] \in [Sels -> Values]
    BY DEF Values
  <2>. QED  BY <2>1 DEF Close, Shape
<1>6. {saved', served', rendered', sure'} \subseteq [Texts -> BOOLEAN]
  BY DEF Close, Shape
<1>7. slips' \subseteq Texts /\ foreign' = foreign
  BY DEF Close, Shape, Carried
<1>. QED  BY <1>0, <1>1, <1>2, <1>3, <1>4, <1>5, <1>6, <1>7 DEF Close, Shape, count

LEMMA ShapePlain ==
  ASSUME Shape, NEW d \in Texts, \E ok \in BOOLEAN : PlainWrite(d, ok) \/ PlainKeys(d, ok)
  PROVE  Shape'
<1>0. Places' /\ SelSet' = SelSet
  BY ShapeFixed DEF PlainWrite, PlainKeys
<1>1. ASSUME NEW ok \in BOOLEAN, PlainWrite(d, ok) PROVE Shape'
  <2>1. Turns' /\ pc' \in [Texts -> Labels]
    BY <1>1, TurnsGo DEF PlainWrite, Labels, Inside
  <2>2. clip' \in [Sels -> [own : Owners, val : Values]]
    BY <1>1 DEF PlainWrite, Shape, Owners, Values
  <2>3. caller' \in [Callers -> Texts \cup {NoOne}]
    BY <1>1 DEF PlainWrite, Shape, Release
  <2>4. excused' \subseteq Sels /\ slips' \subseteq Texts
    BY <1>1 DEF PlainWrite, Shape, Carried
  <2>. QED  BY <1>0, <1>1, <2>1, <2>2, <2>3, <2>4 DEF PlainWrite, Shape, signal
<1>2. ASSUME NEW ok \in BOOLEAN, PlainKeys(d, ok) PROVE Shape'
  <2>1. Turns' /\ pc' \in [Texts -> Labels]
    BY <1>2, TurnsGo DEF PlainKeys, Labels, Inside
  <2>2. keys' \in Seq(Texts) /\ caller' \in [Callers -> Texts \cup {NoOne}]
    <3>1. Append(keys, d) \in Seq(Texts)
      BY OccursAppend DEF Shape
    <3>. QED  BY <1>2, <3>1 DEF PlainKeys, Shape, Release
  <2>. QED  BY <1>0, <1>2, <2>1, <2>2 DEF PlainKeys, Shape, signal, ghost
<1>. QED  BY <1>1, <1>2

\* The user, the target and the clipboard manager.
LEMMA ShapeOthers ==
  ASSUME Shape, (\E s \in Sels : Copy(s) \/ Watch(s)) \/ TargetReads \/ TargetIgnores
  PROVE  Shape'
<1>0. Places' /\ SelSet' = SelSet
  BY ShapeFixed DEF Copy, Watch, TargetReads, TargetIgnores
<1>1. ASSUME NEW s \in Sels, Copy(s) PROVE Shape'
  <2>1. copies' \in Copies
    BY <1>1, ClipboardAssumption DEF Copy, Shape, Copies
  <2>2. clip' \in [Sels -> [own : Owners, val : Values]] /\ last' \in [Sels -> Copies]
    BY <1>1, <2>1 DEF Copy, SetClip, Shape, Owners, Values
  <2>3. excused' \subseteq Sels /\ slips' \subseteq Texts
    BY <1>1 DEF Copy, Shape, Carried
  <2>. QED  BY <1>0, <1>1, <2>1, <2>2, <2>3 DEF Copy, Shape, Turns, job, signal
<1>2. ASSUME NEW s \in Sels, Watch(s) PROVE Shape'
  <2>1. {served', rendered'} \subseteq [Texts -> BOOLEAN]
    BY <1>2 DEF Watch, Noticed, Shape, ToldByXclip, ToldByWindows
  <2>2. foreign' \subseteq Texts
    BY <1>2 DEF Watch, Shape
  <2>. QED  BY <1>0, <1>2, <2>1, <2>2 DEF Watch, Shape, Turns, job
<1>3. ASSUME TargetReads PROVE Shape'
  <2>1. Head(keys) \in Texts /\ keys' \in Seq(Texts)
    BY <1>3, OccursHead DEF TargetReads, Shape
  <2>2. {served', rendered'} \subseteq [Texts -> BOOLEAN]
    BY <1>3 DEF TargetReads, Noticed, Shape, ToldByXclip, ToldByWindows
  <2>3. foreign' \subseteq Texts /\ slips' \subseteq Texts
    BY <1>3 DEF TargetReads, Shape
  <2>4. got' \in [Texts -> {NoOne, "right", "excused", "wrong"}]
    BY <1>3 DEF TargetReads, Shape
  <2>. QED  BY <1>0, <1>3, <2>1, <2>2, <2>3, <2>4 DEF TargetReads, Shape, Turns, job, count
<1>4. ASSUME TargetIgnores PROVE Shape'
  <2>1. keys' \in Seq(Texts)
    BY <1>4, OccursHead DEF TargetIgnores, Shape
  <2>. QED  BY <1>0, <1>4, <2>1 DEF TargetIgnores, Shape, Turns, job, signal, ghost, count
<1>. QED  BY <1>1, <1>2, <1>3, <1>4

-----------------------------------------------------------------------------
(* What the user copied                                                      *)

\* A selection holds what the user put there, or it is lent to the transaction
\* in the lock, which saved that and has not come to its restore yet.
Lending == {"write", "settle", "keys", "wait", "check", "restore", "put"}
Kept(s) == clip[s].val = last[s] /\ clip[s].own \notin Texts
LentTo(s, d) == /\ clip[s].own = d /\ pc[d] \in Lending
                /\ saved[d] /\ snap[d][s] = last[s] /\ s \in wrote[d]
                /\ pc[d] \in {"restore", "put"} => s \in Occurs(todo[d])
Safe(s) == s \in excused \/ Kept(s) \/ \E d \in Texts : LentTo(s, d)
CopiesSafe == \A s \in Sels : Safe(s)

\* A restore that cannot look and write at once has looked.
Looked == \A d \in Texts :
            /\ pc[d] = "put" => sure[d] /\ todo[d] # << >>
            /\ pc[d] = "restore" /\ plat \notin {"windows", "x11"} => sure[d]

CopyI == Shape /\ CopiesSafe /\ Looked

LEMMA CopyStart == Init => CopyI
<1>. SUFFICES ASSUME Init PROVE CopyI
  OBVIOUS
<1>1. CopiesSafe
  BY ClipboardAssumption DEF Init, CopiesSafe, Safe, Kept
<1>2. Looked
  BY DEF Init, Looked
<1>. QED  BY <1>1, <1>2, ShapeStart DEF CopyI

\* A step of d that changes no selection, and lends or looks no less.
LEMMA SafeFrame ==
  ASSUME CopyI, NEW s \in Sels, Safe(s),
         clip'[s] = clip[s], last' = last, s \in excused => s \in excused',
         \A d \in Texts : LentTo(s, d) =>
           \/ s \in excused'
           \/ /\ pc'[d] \in Lending /\ saved'[d] /\ snap'[d][s] = snap[d][s] /\ s \in wrote'[d]
              /\ pc'[d] \in {"restore", "put"} => s \in Occurs(todo'[d])
  PROVE  Safe(s)'
  BY DEF Safe, Kept, LentTo

\* Only the transaction in the lock borrows.
LEMMA OneLent ==
  ASSUME Shape, NEW d \in Texts, pc[d] \in Inside
  PROVE  \A e \in Texts \ {d} : pc[e] \notin Inside /\ \A s \in Sels : ~LentTo(s, e)
<1>1. \A e \in Texts \ {d} : pc[e] \notin Inside
  BY DEF Shape, Turns
<1>. QED  BY <1>1 DEF LentTo, Lending, Inside

LEMMA LookedGo ==
  ASSUME CopyI, NEW d \in Texts, NEW l \in Labels, Go(d, l), UNCHANGED plat,
         \A e \in Texts \ {d} : sure'[e] = sure[e] /\ todo'[e] = todo[e],
         l = "put" => sure'[d] /\ todo'[d] # << >>,
         l = "restore" /\ plat \notin {"windows", "x11"} => sure'[d]
  PROVE  Looked'
<1>1. pc'[d] = l /\ \A e \in Texts \ {d} : pc'[e] = pc[e]
  BY DEF Go, CopyI, Shape
<1>. QED  BY <1>1 DEF Looked, CopyI

LEMMA CopyOpens ==
  ASSUME CopyI, NEW d \in Texts, Send(d) \/ Lock(d) \/ \E ok \in BOOLEAN : Open(d, ok) \/ Snapshot(d, ok)
  PROVE  CopiesSafe' /\ Looked'
<1>1. PICK l \in Labels : Go(d, l) /\ l \notin {"put", "restore"} /\ pc[d] \notin Lending
  BY DEF Send, Lock, Open, Snapshot, Unread, Labels, Inside, Lending
<1>2. /\ clip' = clip /\ last' = last /\ excused' = excused /\ wrote' = wrote /\ plat' = plat
      /\ \A e \in Texts \ {d} : /\ pc'[e] = pc[e] /\ sure'[e] = sure[e] /\ todo'[e] = todo[e]
                                /\ saved'[e] = saved[e] /\ snap'[e] = snap[e]
  BY DEF Send, Lock, Open, Snapshot, Unread, fixed, ghost, Go, CopyI, Shape
<1>3. \A s \in Sels : ~LentTo(s, d)
  BY <1>1 DEF LentTo
<1>4. Looked'
  BY <1>1, <1>2, LookedGo
<1>5. \A s \in Sels, e \in Texts : LentTo(s, e) => LentTo(s, e)'
  BY <1>2, <1>3 DEF LentTo
<1>6. CopiesSafe'
  BY <1>2, <1>5 DEF CopiesSafe, Safe, Kept, CopyI
<1>. QED  BY <1>4, <1>6

LEMMA CopyWrites ==
  ASSUME CopyI, NEW d \in Texts, NEW ok \in BOOLEAN, Write(d, ok)
  PROVE  CopiesSafe' /\ Looked'
<1>0. /\ pc[d] = "write" /\ todo[d] # << >> /\ last' = last /\ saved' = saved /\ snap' = snap
      /\ plat' = plat /\ sure' = sure /\ pc[d] \in Inside
  BY DEF Write, Untouched, Cleared, fixed, Inside
<1>a. \A e \in Texts \ {d}, s \in Sels : ~LentTo(s, e)
  BY <1>0, OneLent DEF CopyI
<1>1. CASE ~ok
  <2>0. PICK h : h = Head(todo[d])
    OBVIOUS
  <2>h. h \in Sels
    BY <1>0, <2>0, OccursHead, SelsWritten DEF CopyI, Shape
  <2>1. Go(d, "check") /\ wrote' = wrote /\ todo' = todo
    BY <1>1 DEF Write
  <2>a. \/ clip' = clip /\ excused' = excused
        \/ SetClip(h, "none", Empty) /\ excused' = excused \cup {h}
    BY <1>1, <2>0 DEF Write, Untouched, Cleared
  <2>b. \A s \in Sels : s \in excused' \/ (clip'[s] = clip[s] /\ s \notin excused)
    <3>1. "none" \in Owners /\ Empty \in Values
      BY DEF Owners, Values
    <3>2. SetClip(h, "none", Empty) => \A s \in Sels \ {h} : clip'[s] = clip[s]
      BY <2>h, <3>1, SetTypes DEF CopyI
    <3>. QED  BY <2>h, <2>a, <3>2
  <2>2. pc'[d] = "check" /\ \A e \in Texts \ {d} : pc'[e] = pc[e]
    BY <2>1 DEF Go, CopyI, Shape
  <2>3. Looked'
    BY <1>0, <2>1, LookedGo DEF Labels, Inside
  <2>4. \A s \in Sels, e \in Texts : LentTo(s, e) /\ clip'[s] = clip[s] => LentTo(s, e)'
    BY <1>0, <1>a, <2>1, <2>2 DEF LentTo, Lending
  <2>. QED  BY <1>0, <2>b, <2>3, <2>4 DEF CopiesSafe, Safe, Kept, CopyI
<1>2. CASE ok
  <2>0. PICK h : h = Head(todo[d])
    OBVIOUS
  <2>1. /\ h \in Sels /\ SetClip(h, d, d) /\ wrote' = [wrote EXCEPT ![d] = @ \cup {h}]
        /\ todo' = [todo EXCEPT ![d] = Tail(@)] /\ pc' = pc
        /\ excused' = IF saved[d] /\ snap[d][h] = clip[h].val THEN excused ELSE excused \cup {h}
    BY <1>0, <1>2, <2>0, OccursHead, SelsWritten DEF Write, Untouched, Cleared, CopyI, Shape
  <2>2. clip'[h].own = d /\ clip'[h].val = d /\ \A t \in Sels \ {h} : clip'[t] = clip[t]
    <3>1. d \in Owners /\ d \in Values
      BY DEF Owners, Values
    <3>. QED  BY <2>1, <3>1, SetTypes DEF CopyI
  <2>3. /\ wrote'[d] = wrote[d] \cup {h}
        /\ \A e \in Texts \ {d} : wrote'[e] = wrote[e] /\ todo'[e] = todo[e]
    BY <2>1 DEF CopyI, Shape
  <2>4. Looked'
    BY <1>0, <2>1, <2>3 DEF Looked, CopyI
  <2>5. \A s \in Sels \ {h} : Safe(s)'
    <3>1. \A s \in Sels \ {h} : LentTo(s, d) => LentTo(s, d)'
      BY <1>0, <2>1, <2>2, <2>3 DEF LentTo
    <3>. QED  BY <1>0, <1>a, <2>1, <2>2, <3>1 DEF CopyI, CopiesSafe, Safe, Kept
  <2>6. Safe(h)'
    <3>1. CASE h \in excused'
      BY <3>1 DEF Safe
    <3>2. CASE h \notin excused'
      <4>1. saved[d] /\ snap[d][h] = clip[h].val /\ h \notin excused
        BY <2>1, <3>2
      <4>2. Kept(h) \/ LentTo(h, d)
        BY <1>a, <2>1, <4>1 DEF CopyI, CopiesSafe, Safe
      <4>3. snap[d][h] = last[h]
        BY <4>1, <4>2 DEF Kept, LentTo
      <4>4. LentTo(h, d)'
        BY <1>0, <2>1, <2>2, <2>3, <4>1, <4>3 DEF LentTo, Lending
      <4>. QED  BY <4>4 DEF Safe
    <3>. QED  BY <3>1, <3>2
  <2>. QED  BY <2>4, <2>5, <2>6 DEF CopiesSafe
<1>. QED  BY <1>1, <1>2

LEMMA CopyPastes ==
  ASSUME CopyI, NEW d \in Texts,
         AfterWrite(d) \/ BeforePaste(d) \/ WaitEnds(d) \/ WaitTimesOut(d) \/ \E ok \in BOOLEAN : SendPaste(d, ok)
  PROVE  CopiesSafe' /\ Looked'
<1>1. PICK l \in {"settle", "keys", "wait", "check"} : Go(d, l) /\ pc[d] \in Lending \ {"restore", "put"}
  BY DEF AfterWrite, BeforePaste, WaitEnds, WaitTimesOut, SendPaste, Lending
<1>2. last' = last /\ saved' = saved /\ snap' = snap /\ wrote' = wrote /\ plat' = plat /\ sure' = sure /\ todo' = todo
  BY DEF AfterWrite, BeforePaste, WaitEnds, WaitTimesOut, SendPaste, fixed, job, ghost
<1>3. pc'[d] = l /\ \A e \in Texts \ {d} : pc'[e] = pc[e]
  BY <1>1 DEF Go, CopyI, Shape
<1>4. Looked'
  BY <1>1, <1>2, LookedGo DEF Labels, Inside
<1>5. \A s \in Sels : s \in excused => s \in excused'
  BY DEF AfterWrite, BeforePaste, WaitEnds, WaitTimesOut, SendPaste, ghost
<1>6. \A s \in Sels : clip'[s] = clip[s] \/ s \in excused'
  <2>1. clip' = clip \/ (SetClip("primary", "text", d) /\ "primary" \in excused')
    BY DEF AfterWrite, BeforePaste, WaitEnds, WaitTimesOut, SendPaste
  <2>2. SetClip("primary", "text", d) => \A s \in Sels \ {"primary"} : clip'[s] = clip[s]
    <3>1. "text" \in Owners /\ d \in Values /\ "primary" \in Sels
      BY DEF Owners, Values, Sels
    <3>. QED  BY <3>1, SetTypes DEF CopyI
  <2>. QED  BY <2>1, <2>2
<1>7. \A s \in Sels, e \in Texts : LentTo(s, e) /\ clip'[s] = clip[s] => LentTo(s, e)'
  BY <1>1, <1>2, <1>3 DEF LentTo, Lending
<1>. QED  BY <1>2, <1>4, <1>5, <1>6, <1>7 DEF CopiesSafe, Safe, Kept, CopyI

LEMMA CopyChecks ==
  ASSUME CopyI, NEW d \in Texts, Check(d)
  PROVE  CopiesSafe' /\ Looked'
<1>1. /\ last' = last /\ saved' = saved /\ snap' = snap /\ wrote' = wrote /\ clip' = clip
      /\ plat' = plat /\ excused' = excused /\ pc[d] = "check" /\ pc[d] \in Inside
  BY DEF Check, fixed, Inside
<1>2. /\ sure' = [sure EXCEPT ![d] = Own("clipboard", d)]
      /\ \/ Go(d, "close") /\ (~saved[d] \/ Changed(d)) /\ todo' = todo
         \/ Go(d, "restore") /\ ~Changed(d) /\ todo' = [todo EXCEPT ![d] = Selections]
  BY DEF Check
<1>3. /\ sure'[d] = Own("clipboard", d)
      /\ \A e \in Texts \ {d} : sure'[e] = sure[e] /\ todo'[e] = todo[e]
  BY <1>2 DEF CopyI, Shape
<1>4. \A e \in Texts \ {d}, s \in Sels : ~LentTo(s, e)
  BY <1>1, OneLent DEF CopyI
<1>5. CASE Go(d, "close") /\ (~saved[d] \/ Changed(d)) /\ todo' = todo
  <2>1. Looked'
    BY <1>1, <1>3, <1>5, LookedGo DEF Labels, Inside
  <2>2. \A s \in Sels : ~LentTo(s, d)
    <3>1. SUFFICES ASSUME NEW s \in Sels, LentTo(s, d) PROVE FALSE
      OBVIOUS
    <3>2. saved[d] /\ s \in wrote[d] /\ Own(s, d) /\ s \in SelSet
      BY <3>1 DEF LentTo, Own, CopyI, Shape
    <3>3. plat # "x11" => s = "clipboard"
      BY <3>2, SelsWritten
    <3>. QED  BY <1>5, <3>2, <3>3 DEF Changed, Lost
  <2>. QED  BY <1>1, <1>4, <2>1, <2>2 DEF CopiesSafe, Safe, Kept, CopyI
<1>6. CASE Go(d, "restore") /\ ~Changed(d) /\ todo' = [todo EXCEPT ![d] = Selections]
  <2>1. pc'[d] = "restore" /\ todo'[d] = Selections
    BY <1>6 DEF Go, CopyI, Shape
  <2>2. Looked'
    BY <1>1, <1>3, <1>6, LookedGo DEF Labels, Inside, Changed, Lost
  <2>3. \A s \in Sels : LentTo(s, d) => LentTo(s, d)'
    <3>1. SUFFICES ASSUME NEW s \in Sels, LentTo(s, d) PROVE LentTo(s, d)'
      OBVIOUS
    <3>2. s \in Occurs(Selections)
      BY <3>1, SelsWritten DEF LentTo, CopyI, Shape
    <3>3. Occurs(todo'[d]) = Occurs(Selections)
      BY <2>1
    <3>. QED  BY <1>1, <2>1, <3>1, <3>2, <3>3 DEF LentTo, Lending
  <2>. QED  BY <1>1, <1>4, <2>2, <2>3 DEF CopiesSafe, Safe, Kept, CopyI
<1>. QED  BY <1>2, <1>5, <1>6

LEMMA CopyRestores ==
  ASSUME CopyI, NEW d \in Texts, RestoreNext(d)
  PROVE  CopiesSafe' /\ Looked'
<1>1. /\ last' = last /\ saved' = saved /\ snap' = snap /\ wrote' = wrote
      /\ plat' = plat /\ excused' = excused /\ pc[d] = "restore" /\ pc[d] \in Inside
  BY DEF RestoreNext, fixed, Inside
<1>2. \A e \in Texts \ {d}, s \in Sels : ~LentTo(s, e)
  BY <1>1, OneLent DEF CopyI
<1>3. CASE todo[d] = << >>
  <2>1. Go(d, "close") /\ clip' = clip /\ todo' = todo /\ sure' = sure
    BY <1>3 DEF RestoreNext
  <2>2. Looked'
    BY <1>1, <2>1, LookedGo DEF Labels, Inside
  <2>3. \A s \in Sels : ~LentTo(s, d)
    BY <1>1, <1>3 DEF LentTo, Occurs
  <2>. QED  BY <1>1, <1>2, <2>1, <2>2, <2>3 DEF CopiesSafe, Safe, Kept, CopyI
<1>4. CASE todo[d] # << >>
  <2>0. PICK h : h = Head(todo[d])
    OBVIOUS
  <2>1. h \in Sels /\ Occurs(todo[d]) = {h} \cup Occurs(Tail(todo[d]))
    BY <1>4, <2>0, OccursHead, SelsWritten DEF CopyI, Shape
  <2>2. CASE h \notin wrote[d] \/ Skips(d, h)
    <3>1. todo' = [todo EXCEPT ![d] = Tail(@)] /\ pc' = pc /\ clip' = clip /\ sure' = sure
      BY <1>4, <2>0, <2>2 DEF RestoreNext
    <3>2. todo'[d] = Tail(todo[d]) /\ \A e \in Texts \ {d} : todo'[e] = todo[e]
      BY <3>1 DEF CopyI, Shape
    <3>3. Looked'
      BY <1>1, <3>1, <3>2 DEF Looked, CopyI
    <3>4. \A s \in Sels : LentTo(s, d) => s # h
      BY <2>2 DEF LentTo, Skips, Lost, Own
    <3>5. \A s \in Sels : LentTo(s, d) => LentTo(s, d)'
      <4>1. Occurs(todo'[d]) = Occurs(Tail(todo[d]))
        BY <3>2
      <4>. QED  BY <1>1, <2>1, <3>1, <3>4, <4>1 DEF LentTo
    <3>. QED  BY <1>1, <1>2, <3>1, <3>3, <3>5 DEF CopiesSafe, Safe, Kept, CopyI
  <2>3. CASE h \in wrote[d] /\ ~Skips(d, h) /\ AtOnce(d, h)
    <3>1. SetClip(h, "kept", snap[d][h]) /\ todo' = [todo EXCEPT ![d] = Tail(@)] /\ pc' = pc /\ sure' = sure
      BY <1>4, <2>0, <2>3 DEF RestoreNext
    <3>2. todo'[d] = Tail(todo[d]) /\ \A e \in Texts \ {d} : todo'[e] = todo[e]
      BY <3>1 DEF CopyI, Shape
    <3>3. Looked'
      BY <1>1, <3>1, <3>2 DEF Looked, CopyI
    <3>4. clip'[h].own = "kept" /\ clip'[h].val = snap[d][h] /\ \A t \in Sels \ {h} : clip'[t] = clip[t]
      BY <2>1, <3>1, SetTypes, OwnTypes DEF CopyI, Shape
    <3>5. Own(h, d)
      BY <2>3 DEF AtOnce, Skips, Lost
    <3>6. h \in excused \/ LentTo(h, d)
      BY <1>2, <2>1, <3>5 DEF CopyI, CopiesSafe, Safe, Kept, Own
    <3>7. Safe(h)'
      BY <1>1, <3>4, <3>6, ClipboardAssumption DEF Safe, Kept, LentTo
    <3>8. \A s \in Sels \ {h} : LentTo(s, d) => LentTo(s, d)'
      <4>1. Occurs(todo'[d]) = Occurs(Tail(todo[d]))
        BY <3>2
      <4>. QED  BY <1>1, <2>1, <3>1, <3>4, <4>1 DEF LentTo
    <3>9. \A s \in Sels \ {h} : Safe(s)'
      BY <1>1, <1>2, <3>4, <3>8 DEF CopiesSafe, Safe, Kept, CopyI
    <3>. QED  BY <3>3, <3>7, <3>9 DEF CopiesSafe
  <2>4. CASE h \in wrote[d] /\ ~Skips(d, h) /\ ~AtOnce(d, h)
    <3>1. /\ Go(d, "put") /\ todo' = todo /\ clip' = clip
          /\ sure' = [sure EXCEPT ![d] = IF plat = "x11" THEN Own(h, d) ELSE @]
      BY <1>4, <2>0, <2>4 DEF RestoreNext
    <3>2. sure'[d] /\ \A e \in Texts \ {d} : sure'[e] = sure[e]
      BY <1>1, <2>4, <3>1 DEF CopyI, Shape, Looked, Skips, Lost, AtOnce
    <3>3. Looked'
      BY <1>1, <1>4, <3>1, <3>2, LookedGo DEF Labels, Inside
    <3>4. pc'[d] = "put"
      BY <3>1 DEF Go, CopyI, Shape
    <3>5. \A s \in Sels : LentTo(s, d) => LentTo(s, d)'
      BY <1>1, <3>1, <3>4 DEF LentTo, Lending
    <3>. QED  BY <1>1, <1>2, <3>1, <3>3, <3>5 DEF CopiesSafe, Safe, Kept, CopyI
  <2>. QED  BY <2>2, <2>3, <2>4
<1>. QED  BY <1>3, <1>4

LEMMA CopyPuts ==
  ASSUME CopyI, NEW d \in Texts, Put(d)
  PROVE  CopiesSafe' /\ Looked'
<1>0. PICK h : h = Head(todo[d])
  OBVIOUS
<1>1. /\ last' = last /\ saved' = saved /\ snap' = snap /\ wrote' = wrote /\ sure' = sure
      /\ plat' = plat /\ pc[d] = "put" /\ pc[d] \in Inside /\ Go(d, "restore")
      /\ SetClip(h, "kept", snap[d][h]) /\ todo' = [todo EXCEPT ![d] = Tail(@)]
      /\ excused' = IF sure[d] /\ ~Own(h, d) THEN excused \cup {h} ELSE excused
  BY <1>0 DEF Put, fixed, Inside
<1>2. \A e \in Texts \ {d}, s \in Sels : ~LentTo(s, e)
  BY <1>1, OneLent DEF CopyI
<1>3. sure[d] /\ todo[d] # << >>
  BY <1>1 DEF CopyI, Looked
<1>4. h \in Sels /\ Occurs(todo[d]) = {h} \cup Occurs(Tail(todo[d]))
  BY <1>0, <1>3, OccursHead, SelsWritten DEF CopyI, Shape
<1>5. clip'[h].own = "kept" /\ clip'[h].val = snap[d][h] /\ \A t \in Sels \ {h} : clip'[t] = clip[t]
  BY <1>1, <1>4, SetTypes, OwnTypes DEF CopyI, Shape
<1>6. todo'[d] = Tail(todo[d]) /\ pc'[d] = "restore" /\ \A e \in Texts \ {d} : todo'[e] = todo[e]
  BY <1>1 DEF Go, CopyI, Shape
<1>7. Looked'
  BY <1>1, <1>3, <1>6, LookedGo DEF Labels, Inside
<1>8. Safe(h)'
  <2>1. CASE Own(h, d)
    <3>1. h \in excused \/ LentTo(h, d)
      BY <1>2, <1>4, <2>1 DEF CopyI, CopiesSafe, Safe, Kept, Own
    <3>. QED  BY <1>1, <1>5, <2>1, <3>1, ClipboardAssumption DEF Safe, Kept, LentTo
  <2>2. CASE ~Own(h, d)
    BY <1>1, <1>3, <2>2 DEF Safe
  <2>. QED  BY <2>1, <2>2
<1>9. \A s \in Sels \ {h} : LentTo(s, d) => LentTo(s, d)'
  <2>1. Occurs(todo'[d]) = Occurs(Tail(todo[d]))
    BY <1>6
  <2>. QED  BY <1>1, <1>4, <1>5, <1>6, <2>1 DEF LentTo, Lending
<1>10. \A s \in Sels \ {h} : Safe(s)'
  BY <1>1, <1>2, <1>5, <1>9 DEF CopiesSafe, Safe, Kept, CopyI
<1>. QED  BY <1>7, <1>8, <1>10 DEF CopiesSafe

LEMMA CopyCloses ==
  ASSUME CopyI, NEW d \in Texts, RestoreFails(d) \/ Close(d)
  PROVE  CopiesSafe' /\ Looked'
<1>1. CASE RestoreFails(d)
  <2>1. /\ last' = last /\ clip' = clip /\ plat' = plat /\ sure' = sure /\ todo' = todo
        /\ pc[d] \in Inside /\ Go(d, "close") /\ excused' = excused \cup {s \in Sels : Own(s, d)}
    BY <1>1 DEF RestoreFails, fixed, Inside
  <2>2. \A e \in Texts \ {d}, s \in Sels : ~LentTo(s, e)
    BY <2>1, OneLent DEF CopyI
  <2>3. Looked'
    BY <2>1, LookedGo DEF Labels, Inside
  <2>4. \A s \in Sels : LentTo(s, d) => s \in excused'
    BY <2>1 DEF LentTo, Own
  <2>. QED  BY <2>1, <2>2, <2>3, <2>4 DEF CopiesSafe, Safe, Kept, CopyI
<1>2. CASE Close(d)
  <2>1. /\ last' = last /\ plat' = plat /\ excused' = excused
        /\ pc[d] = "close" /\ pc[d] \in Inside /\ Go(d, "done")
    BY <1>2 DEF Close, fixed, Inside
  <2>2. \A e \in Texts, s \in Sels : ~LentTo(s, e)
    <3>1. \A e \in Texts \ {d}, s \in Sels : ~LentTo(s, e)
      BY <2>1, OneLent DEF CopyI
    <3>. QED  BY <2>1, <3>1 DEF LentTo, Lending
  <2>3. \A s \in Sels : clip'[s] = clip[s] \/ clip[s].own = d
    BY <1>2 DEF Close, Own, CopyI, Shape
  <2>4. \A e \in Texts \ {d} : sure'[e] = sure[e] /\ todo'[e] = todo[e]
    BY <1>2 DEF Close, CopyI, Shape
  <2>5. Looked'
    BY <2>1, <2>4, LookedGo DEF Labels, Inside
  <2>. QED  BY <2>1, <2>2, <2>3, <2>5 DEF CopiesSafe, Safe, Kept, CopyI
<1>. QED  BY <1>1, <1>2

LEMMA CopyPlain ==
  ASSUME CopyI, NEW d \in Texts, \E ok \in BOOLEAN : PlainWrite(d, ok) \/ PlainKeys(d, ok)
  PROVE  CopiesSafe' /\ Looked'
<1>1. PICK l \in {"plainkeys", "done"} : Go(d, l) /\ pc[d] \notin Lending
  BY DEF PlainWrite, PlainKeys, Lending
<1>2. last' = last /\ saved' = saved /\ snap' = snap /\ wrote' = wrote /\ plat' = plat /\ sure' = sure /\ todo' = todo
  BY DEF PlainWrite, PlainKeys, fixed, ghost
<1>3. \A e \in Texts \ {d} : pc'[e] = pc[e]
  BY <1>1 DEF Go, CopyI, Shape
<1>4. Looked'
  BY <1>1, <1>2, LookedGo DEF Labels, Inside
<1>5. \A s \in Sels : s \in excused => s \in excused'
  BY DEF PlainWrite, PlainKeys, ghost
<1>6. \A s \in Sels : clip'[s] = clip[s] \/ s \in excused'
  BY DEF PlainWrite, PlainKeys, CopyI, Shape
<1>7. \A s \in Sels, e \in Texts : LentTo(s, e) /\ clip'[s] = clip[s] => LentTo(s, e)'
  BY <1>1, <1>2, <1>3 DEF LentTo
<1>. QED  BY <1>2, <1>4, <1>5, <1>6, <1>7 DEF CopiesSafe, Safe, Kept, CopyI

LEMMA CopyOthers ==
  ASSUME CopyI, (\E s \in Sels : Copy(s) \/ Watch(s)) \/ TargetReads \/ TargetIgnores \/ UNCHANGED vars
  PROVE  CopiesSafe' /\ Looked'
<1>1. /\ saved' = saved /\ snap' = snap /\ wrote' = wrote /\ plat' = plat /\ sure' = sure
      /\ todo' = todo /\ pc' = pc
  BY DEF Copy, Watch, TargetReads, TargetIgnores, vars, fixed, job, ghost
<1>2. Looked'
  BY <1>1 DEF Looked, CopyI
<1>3. ASSUME NEW s \in Sels, Copy(s) PROVE CopiesSafe'
  <2>1. copies' \in Values /\ SetClip(s, "user", copies') /\ last' = [last EXCEPT ![s] = copies']
        /\ excused' = excused \ {s}
    BY <1>3, ShapeOthers DEF Copy, CopyI, Shape, Values
  <2>2. clip'[s].own = "user" /\ clip'[s].val = copies' /\ \A t \in Sels \ {s} : clip'[t] = clip[t]
    <3>1. "user" \in Owners
      BY DEF Owners
    <3>. QED  BY <2>1, <3>1, SetTypes DEF CopyI
  <2>3. last'[s] = copies' /\ \A t \in Sels \ {s} : last'[t] = last[t]
    BY <2>1 DEF CopyI, Shape
  <2>4. Safe(s)'
    BY <2>2, <2>3, ClipboardAssumption DEF Safe, Kept
  <2>5. \A t \in Sels \ {s}, e \in Texts : LentTo(t, e) => LentTo(t, e)'
    BY <1>1, <2>2, <2>3 DEF LentTo
  <2>6. \A t \in Sels \ {s} : Safe(t)'
    BY <2>1, <2>2, <2>3, <2>5 DEF CopiesSafe, Safe, Kept, CopyI
  <2>. QED  BY <2>4, <2>6 DEF CopiesSafe
<1>4. ASSUME clip' = clip, last' = last, excused' = excused PROVE CopiesSafe'
  BY <1>1, <1>4 DEF CopiesSafe, Safe, Kept, LentTo, CopyI
<1>. QED
  BY <1>2, <1>3, <1>4 DEF Watch, TargetReads, TargetIgnores, vars, ghost

LEMMA ShapeStep ==
  ASSUME Shape, Looked, [Next]_vars
  PROVE  Shape'
<1>1. ASSUME NEW d \in Texts, Send(d) \/ Step(d) PROVE Shape'
  <2>1. CASE Send(d) \/ Lock(d) \/ \E ok \in BOOLEAN : Open(d, ok)
    BY <2>1, ShapeOpens
  <2>2. CASE AfterWrite(d) \/ \E ok \in BOOLEAN : Write(d, ok)
    BY <2>2, ShapeWrites
  <2>3. CASE BeforePaste(d) \/ \E ok \in BOOLEAN : SendPaste(d, ok)
    BY <2>3, ShapePastes
  <2>4. CASE WaitEnds(d) \/ WaitTimesOut(d) \/ Check(d)
    BY <2>4, ShapeWaits
  <2>5. CASE RestoreNext(d) \/ Put(d) \/ RestoreFails(d)
    <3>1. pc[d] = "put" => todo[d] # << >>
      BY DEF Looked
    <3>. QED  BY <2>5, <3>1, ShapeRestores
  <2>6. CASE Close(d)
    BY <2>6, ShapeCloses
  <2>7. CASE \E ok \in BOOLEAN : PlainWrite(d, ok) \/ PlainKeys(d, ok)
    BY <2>7, ShapePlain
  <2>8. CASE \E ok \in BOOLEAN : Snapshot(d, ok)
    BY <2>8, ShapeSaves
  <2>. QED  BY <1>1, <2>1, <2>2, <2>3, <2>4, <2>5, <2>6, <2>7, <2>8 DEF Step
<1>. QED  BY <1>1, ShapeOthers, ShapeRests DEF Next, Rest

LEMMA CopyStep == CopyI /\ [Next]_vars => CopyI'
<1>. SUFFICES ASSUME CopyI, [Next]_vars PROVE CopyI'
  OBVIOUS
<1>1. ASSUME NEW d \in Texts, Send(d) \/ Step(d) PROVE CopiesSafe' /\ Looked'
  BY <1>1, CopyOpens, CopyWrites, CopyPastes, CopyChecks, CopyRestores, CopyPuts, CopyCloses, CopyPlain DEF Step
<1>2. CopiesSafe' /\ Looked'
  BY <1>1, CopyOthers DEF Next, Rest
<1>. QED  BY <1>2, ShapeStep DEF CopyI

\* When no paste is under way, each selection holds what the user last put
\* there, but for the known cases: whatever is copied between the steps of a
\* transaction, whichever step fails, and on every kind of session.
THEOREM CopyStays == Spec => []CopyKept
<1>1. CopyI => CopyKept
  <2>. SUFFICES ASSUME CopyI, Idle, NEW s \in Sels, s \notin excused PROVE clip[s].val = last[s]
    BY DEF CopyKept
  <2>1. \A d \in Texts : ~LentTo(s, d)
    BY DEF Idle, LentTo, Lending
  <2>. QED  BY <2>1 DEF CopyI, CopiesSafe, Safe, Kept
<1>. QED  BY <1>1, CopyStart, CopyStep, PTL DEF Spec

-----------------------------------------------------------------------------
(* What the target reads                                                     *)

Early   == {"new", "lock", "open", "save", "plain"}
Holding == {"write", "settle", "keys", "wait"}
Unsent  == Early \cup {"write", "settle", "keys", "plainkeys"}
Late    == {"check", "restore", "put", "close"}

\* A text that nobody has written yet is in no selection and in no snapshot;
\* what a transaction owns is its text; and on the platforms that notice a read,
\* the text of a transaction that waits for one is owned by it.
Unseen(d)  == pc[d] \in Early => /\ \A s \in Sels : clip[s].val # d
                                 /\ \A j \in Texts, s \in Sels : snap[j][s] # d
HeldOwn(d) == pc[d] \in Holding /\ plat \in {"windows", "x11"} =>
                \A s \in Sels : clip[s].val = d => clip[s].own = d
OwnsIts    == \A s \in Sels : clip[s].own \in Texts => clip[s].val = clip[s].own
Contents   == OwnsIts /\ \A d \in Texts : Unseen(d) /\ HeldOwn(d)

\* The keys of a text are sent once, and the target has not read it before.
Sent == /\ Unique(keys)
        /\ \A d \in Texts : pc[d] \in Unsent => d \notin Occurs(keys) /\ got[d] = NoOne
        /\ \A d \in Texts : d \in Occurs(keys) => got[d] = NoOne

\* Where a transaction has written.
Written == \A d \in Texts : pc[d] \in Holding =>
             /\ SelSet \ Occurs(todo[d]) \subseteq wrote[d]
             /\ pc[d] # "write" => todo[d] = << >>

KeeperBase == Shape /\ Looked /\ Contents /\ Sent /\ Written

LEMMA KeeperBaseStart == Init => KeeperBase
<1>. SUFFICES ASSUME Init PROVE KeeperBase
  OBVIOUS
<1>1. Contents
  <2>1. 0 \notin Texts /\ Empty \notin Texts /\ "user" \notin Texts
    BY ClipboardAssumption DEF Copies
  <2>2. OwnsIts
    BY <2>1 DEF Init, OwnsIts
  <2>3. \A d \in Texts : Unseen(d) /\ HeldOwn(d)
    BY <2>1 DEF Init, Unseen, HeldOwn, Holding
  <2>. QED  BY <2>2, <2>3 DEF Contents
<1>2. Occurs(keys) = {} /\ Unique(keys)
  BY DEF Init, Occurs, Unique
<1>3. Sent /\ Written
  BY <1>2 DEF Init, Sent, Written, Holding
<1>. QED  BY <1>1, <1>3, CopyStart DEF KeeperBase, CopyI

LEMMA ContentsFrame ==
  ASSUME Contents, clip' = clip, plat' = plat,
         \A e \in Texts : pc'[e] \in Early => pc[e] \in Early /\ \A j \in Texts, s \in Sels : snap'[j][s] # e,
         \A e \in Texts : pc'[e] \in Holding => pc[e] \in Holding \cup {"save"}
  PROVE  Contents'
<1>1. \A e \in Texts : Unseen(e)'
  BY DEF Contents, Unseen
<1>2. \A e \in Texts : HeldOwn(e)'
  BY DEF Contents, Unseen, HeldOwn, Early
<1>. QED  BY <1>1, <1>2 DEF Contents, OwnsIts

LEMMA ContentsSet ==
  ASSUME Shape, Contents, NEW s \in Sels, NEW o \in Owners, NEW v \in Values, SetClip(s, o, v),
         snap' = snap, plat' = plat, o \in Texts => v = o,
         \A e \in Texts : pc'[e] \in Early => pc[e] \in Early /\ v # e,
         \A e \in Texts : pc'[e] \in Holding => pc[e] \in Holding /\
                            (v = e /\ plat \in {"windows", "x11"} => o = e)
  PROVE  Contents'
<1>1. clip'[s].own = o /\ clip'[s].val = v /\ \A t \in Sels \ {s} : clip'[t] = clip[t]
  BY SetTypes
<1>2. \A e \in Texts : Unseen(e)'
  BY <1>1 DEF Contents, Unseen
<1>3. \A e \in Texts : HeldOwn(e)'
  BY <1>1 DEF Contents, HeldOwn
<1>. QED  BY <1>1, <1>2, <1>3 DEF Contents, OwnsIts

\* Where a step takes a transaction, the others stay.
LEMMA GoOne ==
  ASSUME Shape, NEW d \in Texts, NEW l, Go(d, l)
  PROVE  pc'[d] = l /\ \A e \in Texts \ {d} : pc'[e] = pc[e]
  BY DEF Shape, Go

LEMMA ContentsStart ==
  ASSUME KeeperBase, NEW d \in Texts, Send(d) \/ Lock(d) \/ \E ok \in BOOLEAN : Open(d, ok) \/ Snapshot(d, ok)
  PROVE  Contents'
<1>1. PICK l \in Labels : Go(d, l) /\ pc[d] \in Early /\ l \in {"plain", "lock", "open", "save", "write"}
                          /\ (l = "write" => pc[d] = "save")
  BY DEF Send, Lock, Open, Snapshot, Unread, Labels, Inside, Early
<1>2. pc'[d] = l /\ \A e \in Texts \ {d} : pc'[e] = pc[e]
  BY <1>1, GoOne DEF KeeperBase
<1>3. clip' = clip /\ plat' = plat
  BY DEF Send, Lock, Open, Snapshot, Unread, fixed
<1>4. \A j \in Texts, s \in Sels : snap'[j][s] \in {snap[j][s], clip[s].val, Empty}
  <2>1. Send(d) \/ Lock(d) \/ (\E ok \in BOOLEAN : Open(d, ok)) => snap' = snap
    BY DEF Send, Lock, Open
  <2>2. ASSUME NEW ok \in BOOLEAN, Snapshot(d, ok)
        PROVE  \/ snap' = snap
               \/ \E value : /\ snap' = [snap EXCEPT ![d] = value]
                             /\ \A s \in Sels : value[s] \in {clip[s].val, Empty}
    <3>1. CASE ~ok
      BY <2>2, <3>1 DEF Snapshot
    <3>2. CASE ok
      <4>1. PICK blank : snap' = [snap EXCEPT ![d] =
                            [s \in Sels |-> IF s \in blank THEN Empty ELSE clip[s].val]]
        BY <2>2, <3>2 DEF Snapshot
      <4> DEFINE value == [s \in Sels |-> IF s \in blank THEN Empty ELSE clip[s].val]
      <4>2. \A s \in Sels : value[s] \in {clip[s].val, Empty}
        OBVIOUS
      <4>. QED  BY <4>1, <4>2
    <3>. QED  BY <3>1, <3>2
  <2>3. snap \in [Texts -> [Sels -> Values]]
    BY DEF KeeperBase, Shape
  <2>. QED  BY <2>1, <2>2, <2>3
<1>5. \A e \in Texts : pc'[e] \in Early => pc[e] \in Early /\ \A j \in Texts, s \in Sels : snap'[j][s] # e
  BY <1>1, <1>2, <1>4, ClipboardAssumption DEF KeeperBase, Contents, Unseen
<1>6. \A e \in Texts : pc'[e] \in Holding => pc[e] \in Holding \cup {"save"}
  BY <1>1, <1>2 DEF Holding
<1>. QED  BY <1>3, <1>5, <1>6, ContentsFrame DEF KeeperBase

LEMMA ContentsGo ==
  ASSUME KeeperBase, NEW d \in Texts,
         BeforePaste(d) \/ WaitEnds(d) \/ WaitTimesOut(d) \/ Check(d) \/ RestoreFails(d)
           \/ \E ok \in BOOLEAN : SendPaste(d, ok) \/ PlainKeys(d, ok)
  PROVE  Contents'
<1>1. PICK l \in {"keys", "wait", "check", "close", "restore", "done"} :
        Go(d, l) /\ (l \in {"keys", "wait"} => pc[d] \in Holding)
  BY DEF BeforePaste, WaitEnds, WaitTimesOut, Check, RestoreFails, SendPaste, PlainKeys, Holding
<1>2. pc'[d] = l /\ \A e \in Texts \ {d} : pc'[e] = pc[e]
  BY <1>1, GoOne DEF KeeperBase
<1>3. clip' = clip /\ plat' = plat /\ snap' = snap
  BY DEF BeforePaste, WaitEnds, WaitTimesOut, Check, RestoreFails, SendPaste, PlainKeys, fixed, job
<1>4. \A e \in Texts : pc'[e] \in Early => pc[e] \in Early /\ \A j \in Texts, s \in Sels : snap'[j][s] # e
  BY <1>1, <1>2, <1>3 DEF KeeperBase, Contents, Unseen, Early
<1>5. \A e \in Texts : pc'[e] \in Holding => pc[e] \in Holding \cup {"save"}
  BY <1>1, <1>2 DEF Holding
<1>. QED  BY <1>3, <1>4, <1>5, ContentsFrame DEF KeeperBase

LEMMA ContentsWrite ==
  ASSUME KeeperBase, NEW d \in Texts, AfterWrite(d) \/ \E ok \in BOOLEAN : Write(d, ok)
  PROVE  Contents'
<1>0. plat' = plat /\ snap' = snap /\ pc[d] = "write"
  BY DEF Write, Untouched, Cleared, AfterWrite, fixed
<1>1. /\ \A e \in Texts \ {d} : pc'[e] = pc[e]
      /\ pc'[d] \in {"write", "check", "settle"}
  <2>1. UNCHANGED pc \/ \E l \in {"check", "settle"} : Go(d, l)
    BY DEF Write, Untouched, Cleared, AfterWrite
  <2>. QED  BY <1>0, <2>1, GoOne DEF KeeperBase
<1>2. \A e \in Texts : /\ pc'[e] \in Early => pc[e] \in Early /\ d # e
                       /\ pc'[e] \in Holding => pc[e] \in Holding
  BY <1>0, <1>1 DEF Early, Holding
<1>3. d \in Owners /\ d \in Values /\ "text" \in Owners
  BY DEF Owners, Values
<1>4. CASE UNCHANGED clip
  BY <1>0, <1>2, <1>4, ContentsFrame DEF KeeperBase, Contents, Unseen
<1>5. ASSUME NEW s \in Sels, SetClip(s, d, d) PROVE Contents'
  BY <1>0, <1>2, <1>3, <1>5, ContentsSet DEF KeeperBase
<1>6. CASE SetClip("primary", "text", d) /\ primary /\ ~HandlesPrimary
  <2>1. plat \notin {"windows", "x11"} /\ "primary" \in Sels
    BY <1>6 DEF KeeperBase, Shape, Places, HandlesPrimary, Sels
  <2>2. "text" \notin Texts
    BY ClipboardAssumption
  <2>. QED  BY <1>0, <1>2, <1>3, <1>6, <2>1, <2>2, ContentsSet DEF KeeperBase
<1>7. CASE AfterWrite(d)
  BY <1>4, <1>6, <1>7 DEF AfterWrite
<1>9. ASSUME NEW s \in Sels, SetClip(s, "none", Empty) PROVE Contents'
  <2>1. Empty \notin Texts /\ "none" \notin Texts
    BY ClipboardAssumption
  <2>2. "none" \in Owners /\ Empty \in Values
    BY DEF Owners, Values
  <2>. QED  BY <1>0, <1>2, <1>9, <2>1, <2>2, ContentsSet DEF KeeperBase
<1>8. ASSUME NEW ok \in BOOLEAN, Write(d, ok) PROVE Contents'
  <2>1. Head(todo[d]) \in Sels
    BY <1>8, OccursHead, SelsWritten DEF Write, Untouched, Cleared, KeeperBase, Shape
  <2>. QED  BY <1>4, <1>5, <1>8, <1>9, <2>1 DEF Write, Untouched, Cleared
<1>. QED  BY <1>7, <1>8

LEMMA ContentsRestore ==
  ASSUME KeeperBase, NEW d \in Texts, RestoreNext(d) \/ Put(d)
  PROVE  Contents'
<1>0. plat' = plat /\ snap' = snap /\ pc[d] \in {"restore", "put"} /\ pc[d] \in Inside
  BY DEF RestoreNext, Put, fixed, Inside
<1>1. /\ \A e \in Texts \ {d} : pc'[e] = pc[e]
      /\ pc'[d] \in {"restore", "put", "close"}
  <2>1. UNCHANGED pc \/ \E l \in {"restore", "put", "close"} : Go(d, l)
    BY DEF RestoreNext, Put
  <2>. QED  BY <1>0, <2>1, GoOne DEF KeeperBase
<1>2. \A e \in Texts : pc'[e] \in Early => pc[e] \in Early
  BY <1>1 DEF Early
<1>3. \A e \in Texts : pc'[e] \notin Holding
  BY <1>0, <1>1 DEF Holding, Inside, KeeperBase, Shape, Turns
<1>4. CASE UNCHANGED clip
  BY <1>0, <1>2, <1>3, <1>4, ContentsFrame DEF KeeperBase, Contents, Unseen
<1>5. ASSUME NEW s \in Sels, SetClip(s, "kept", snap[d][s]) PROVE Contents'
  <2>1. "kept" \in Owners /\ "kept" \notin Texts /\ snap[d][s] \in Values
    BY ClipboardAssumption DEF Owners, KeeperBase, Shape
  <2>2. \A e \in Texts : pc'[e] \in Early => snap[d][s] # e
    BY <1>2 DEF KeeperBase, Contents, Unseen
  <2>. QED  BY <1>0, <1>2, <1>3, <1>5, <2>1, <2>2, ContentsSet DEF KeeperBase
<1>6. todo[d] # << >> => Head(todo[d]) \in Sels
  BY OccursHead, SelsWritten DEF KeeperBase, Shape
<1>7. pc[d] = "put" => todo[d] # << >>
  BY DEF KeeperBase, Looked
<1>. QED  BY <1>4, <1>5, <1>6, <1>7 DEF RestoreNext, Put

LEMMA ContentsClose ==
  ASSUME KeeperBase, NEW d \in Texts, Close(d) \/ \E ok \in BOOLEAN : PlainWrite(d, ok)
  PROVE  Contents'
<1>1. CASE Close(d)
  <2>0. /\ plat' = plat /\ snap' = [snap EXCEPT ![d] = [s \in Sels |-> Empty]]
        /\ pc[d] = "close" /\ Go(d, "done")
        /\ clip' = [s \in Sels |-> IF plat = "x11" /\ Own(s, d)
                                     THEN [own |-> "none", val |-> Empty] ELSE clip[s]]
    BY <1>1 DEF Close, fixed
  <2>1. pc'[d] = "done" /\ \A e \in Texts \ {d} : pc'[e] = pc[e]
    BY <2>0, GoOne DEF KeeperBase
  <2>2. \A s \in Sels : clip'[s] = clip[s] \/ (clip'[s].own = "none" /\ clip'[s].val = Empty)
    BY <2>0 DEF Own
  <2>3. Empty \notin Texts /\ "none" \notin Texts
    BY ClipboardAssumption
  <2>4. \A j \in Texts, s \in Sels : snap'[j][s] = snap[j][s] \/ snap'[j][s] = Empty
    BY <2>0 DEF KeeperBase, Shape
  <2>5. \A e \in Texts : Unseen(e)'
    BY <2>1, <2>2, <2>3, <2>4 DEF KeeperBase, Contents, Unseen, Early
  <2>6. \A e \in Texts : HeldOwn(e)'
    BY <2>0, <2>1, <2>2, <2>3 DEF KeeperBase, Contents, HeldOwn, Holding
  <2>. QED  BY <2>2, <2>3, <2>5, <2>6 DEF Contents, OwnsIts, KeeperBase
<1>2. ASSUME NEW ok \in BOOLEAN, PlainWrite(d, ok) PROVE Contents'
  <2>0. /\ plat' = plat /\ snap' = snap /\ pc[d] = "plain"
        /\ \A s \in Sels : clip'[s] = clip[s] \/ clip'[s] = [own |-> "text", val |-> d]
    BY <1>2 DEF PlainWrite, fixed, KeeperBase, Shape
  <2>1. pc'[d] \in {"plainkeys", "done"} /\ \A e \in Texts \ {d} : pc'[e] = pc[e]
    BY <1>2, GoOne DEF KeeperBase, PlainWrite
  <2>3. "text" \notin Texts
    BY ClipboardAssumption
  <2>5. \A e \in Texts : Unseen(e)'
    BY <2>0, <2>1 DEF KeeperBase, Contents, Unseen, Early
  <2>6. \A e \in Texts : HeldOwn(e)'
    BY <2>0, <2>1 DEF KeeperBase, Contents, HeldOwn, Holding
  <2>. QED  BY <2>0, <2>3, <2>5, <2>6 DEF Contents, OwnsIts, KeeperBase
<1>. QED  BY <1>1, <1>2

LEMMA ContentsOthers ==
  ASSUME KeeperBase, (\E s \in Sels : Copy(s) \/ Watch(s)) \/ TargetReads \/ TargetIgnores \/ UNCHANGED vars
  PROVE  Contents'
<1>1. plat' = plat /\ snap' = snap /\ pc' = pc
  BY DEF Copy, Watch, TargetReads, TargetIgnores, vars, fixed, job
<1>2. CASE UNCHANGED clip
  BY <1>1, <1>2 DEF KeeperBase, Contents, OwnsIts, Unseen, HeldOwn
<1>3. ASSUME NEW s \in Sels, Copy(s) PROVE Contents'
  <2>1. copies' \in Values /\ copies' \notin Texts /\ "user" \in Owners /\ "user" \notin Texts
    BY <1>3, ShapeOthers, ClipboardAssumption DEF KeeperBase, Shape, Values, Owners
  <2>2. SetClip(s, "user", copies')
    BY <1>3 DEF Copy
  <2>. QED  BY <1>1, <2>1, <2>2, ContentsSet DEF KeeperBase
<1>. QED  BY <1>2, <1>3 DEF Watch, TargetReads, TargetIgnores, vars

LEMMA ContentsStep == KeeperBase /\ [Next]_vars => Contents'
<1>. SUFFICES ASSUME KeeperBase, [Next]_vars PROVE Contents'
  OBVIOUS
<1>1. ASSUME NEW d \in Texts, Send(d) \/ Step(d) PROVE Contents'
  BY <1>1, ContentsStart, ContentsGo, ContentsWrite, ContentsRestore, ContentsClose DEF Step
<1>. QED  BY <1>1, ContentsOthers DEF Next, Rest

-----------------------------------------------------------------------------
(* The keys that are out                                                     *)

LEMMA SentFrame ==
  ASSUME Sent, keys' = keys, got' = got, \A e \in Texts : pc'[e] \in Unsent => pc[e] \in Unsent
  PROVE  Sent'
  BY DEF Sent

LEMMA SentAppends ==
  ASSUME KeeperBase, NEW d \in Texts, pc[d] \in Unsent, keys' = Append(keys, d), got' = got,
         pc'[d] \notin Unsent, \A e \in Texts \ {d} : pc'[e] = pc[e]
  PROVE  Sent'
<1>1. d \notin Occurs(keys) /\ got[d] = NoOne /\ keys \in Seq(Texts) /\ Unique(keys)
  BY DEF KeeperBase, Sent, Shape
<1>2. Unique(Append(keys, d)) /\ Occurs(Append(keys, d)) = Occurs(keys) \cup {d}
  BY <1>1, UniqueAppend, OccursAppend
<1>3. Unique(keys') /\ Occurs(keys') = Occurs(keys) \cup {d}
  BY <1>2
<1>. QED  BY <1>1, <1>3 DEF KeeperBase, Sent

\* The target handles the first keys.
LEMMA KeysTail ==
  ASSUME KeeperBase, TargetReads \/ TargetIgnores
  PROVE  /\ Head(keys) \in Texts /\ Head(keys) \in Occurs(keys)
         /\ Unique(keys') /\ Occurs(keys') = Occurs(keys) \ {Head(keys)}
<1>1. keys # << >> /\ keys' = Tail(keys) /\ keys \in Seq(Texts) /\ Unique(keys)
  BY DEF TargetReads, TargetIgnores, KeeperBase, Shape, Sent
<1>2. Head(keys) \in Texts /\ Occurs(keys) = {Head(keys)} \cup Occurs(Tail(keys))
  BY <1>1, OccursHead
<1>3. Unique(Tail(keys)) /\ Head(keys) \notin Occurs(Tail(keys))
  BY <1>1, UniqueTail
<1>4. Unique(keys') /\ Occurs(keys') = Occurs(Tail(keys))
  BY <1>1, <1>3
<1>. QED  BY <1>2, <1>3, <1>4

LEMMA SentStep == KeeperBase /\ [Next]_vars => Sent'
<1>. SUFFICES ASSUME KeeperBase, [Next]_vars PROVE Sent'
  OBVIOUS
<1>1. ASSUME NEW d \in Texts, SendPaste(d, TRUE) \/ PlainKeys(d, TRUE) PROVE Sent'
  <2>1. PICK l \in {"wait", "done"} : Go(d, l)
    BY <1>1 DEF SendPaste, PlainKeys
  <2>2. pc'[d] = l /\ \A e \in Texts \ {d} : pc'[e] = pc[e]
    BY <2>1, GoOne DEF KeeperBase
  <2>3. pc[d] \in Unsent /\ keys' = Append(keys, d) /\ got' = got
    BY <1>1 DEF SendPaste, PlainKeys, Unsent, ghost
  <2>. QED  BY <2>2, <2>3, SentAppends DEF Unsent, Early
<1>2. ASSUME NEW d \in Texts, NEW l, Go(d, l), l \in Unsent => pc[d] \in Unsent, keys' = keys, got' = got
      PROVE  Sent'
  <2>1. pc'[d] = l /\ \A e \in Texts \ {d} : pc'[e] = pc[e]
    BY <1>2, GoOne DEF KeeperBase
  <2>. QED  BY <1>2, <2>1, SentFrame DEF KeeperBase
<1>3. ASSUME NEW d \in Texts, Send(d) \/ Lock(d) \/ \E ok \in BOOLEAN : Open(d, ok) \/ Snapshot(d, ok) PROVE Sent'
  <2>1. PICK l \in {"plain", "lock", "open", "save", "write"} : Go(d, l) /\ pc[d] \in Unsent
    BY <1>3 DEF Send, Lock, Open, Snapshot, Unread, Unsent, Early
  <2>2. keys' = keys /\ got' = got
    BY <1>3 DEF Send, Lock, Open, Snapshot, Unread, ghost
  <2>. QED  BY <1>2, <2>1, <2>2
<1>4. ASSUME NEW d \in Texts, AfterWrite(d) \/ BeforePaste(d) \/ \E ok \in BOOLEAN : Write(d, ok) PROVE Sent'
  <2>1. UNCHANGED pc \/ \E l \in {"check", "settle", "keys"} : Go(d, l) /\ pc[d] \in Unsent
    BY <1>4 DEF Write, Untouched, Cleared, AfterWrite, BeforePaste, Unsent, Early
  <2>2. keys' = keys /\ got' = got
    BY <1>4 DEF Write, Untouched, Cleared, AfterWrite, BeforePaste
  <2>. QED  BY <1>2, <2>1, <2>2, SentFrame DEF KeeperBase
<1>5. ASSUME NEW d \in Texts, \E ok \in BOOLEAN : PlainWrite(d, ok) PROVE Sent'
  <2>1. PICK l \in {"plainkeys", "done"} : Go(d, l) /\ pc[d] \in Unsent
    BY <1>5 DEF PlainWrite, Unsent, Early
  <2>2. keys' = keys /\ got' = got
    BY <1>5 DEF PlainWrite
  <2>. QED  BY <1>2, <2>1, <2>2
<1>6. ASSUME NEW d \in Texts, SendPaste(d, FALSE) \/ PlainKeys(d, FALSE) PROVE Sent'
  <2>1. PICK l \in {"check", "done"} : Go(d, l)
    BY <1>6 DEF SendPaste, PlainKeys
  <2>2. keys' = keys /\ got' = got
    BY <1>6 DEF SendPaste, PlainKeys, ghost
  <2>. QED  BY <1>2, <2>1, <2>2 DEF Unsent, Early
<1>7. ASSUME NEW d \in Texts, WaitEnds(d) \/ WaitTimesOut(d) \/ Check(d) \/ RestoreNext(d) \/ Put(d)
                              \/ RestoreFails(d) \/ Close(d) PROVE Sent'
  <2>1. UNCHANGED pc \/ \E l \in {"check", "close", "restore", "put", "done"} : Go(d, l)
    BY <1>7 DEF WaitEnds, WaitTimesOut, Check, RestoreNext, Put, RestoreFails, Close
  <2>2. keys' = keys /\ got' = got
    BY <1>7 DEF WaitEnds, WaitTimesOut, Check, RestoreNext, Put, RestoreFails, Close, ghost
  <2>. QED  BY <1>2, <2>1, <2>2, SentFrame DEF KeeperBase, Unsent, Early
<1>8. ASSUME TargetReads \/ TargetIgnores PROVE Sent'
  <2>1. /\ Head(keys) \in Texts /\ Head(keys) \in Occurs(keys)
        /\ Unique(keys') /\ Occurs(keys') = Occurs(keys) \ {Head(keys)}
    BY <1>8, KeysTail
  <2>2. pc' = pc /\ \A e \in Texts \ {Head(keys)} : got'[e] = got[e]
    BY <1>8 DEF TargetReads, TargetIgnores, job, ghost, KeeperBase, Shape
  <2>3. pc[Head(keys)] \notin Unsent
    BY <2>1 DEF KeeperBase, Sent
  <2>. QED  BY <2>1, <2>2, <2>3 DEF KeeperBase, Sent
<1>9. ASSUME (\E s \in Sels : Copy(s) \/ Watch(s)) \/ UNCHANGED vars PROVE Sent'
  <2>1. keys' = keys /\ got' = got /\ pc' = pc
    BY <1>9 DEF Copy, Watch, vars, job, ghost
  <2>. QED  BY <2>1, SentFrame DEF KeeperBase
<1>10. ASSUME NEW d \in Texts, Step(d) PROVE Sent'
  <2>1. \A ok \in BOOLEAN : ok = TRUE \/ ok = FALSE
    OBVIOUS
  <2>2. (\E ok \in BOOLEAN : SendPaste(d, ok) \/ PlainKeys(d, ok)) =>
          SendPaste(d, TRUE) \/ PlainKeys(d, TRUE) \/ SendPaste(d, FALSE) \/ PlainKeys(d, FALSE)
    BY <2>1
  <2>. QED  BY <1>1, <1>3, <1>4, <1>5, <1>6, <1>7, <1>10, <2>2 DEF Step
<1>. QED  BY <1>3, <1>8, <1>9, <1>10 DEF Next, Rest

-----------------------------------------------------------------------------
(* Where a transaction has written, and what its text is owed                *)

LEMMA FixedRests == [Next]_vars => UNCHANGED fixed
<1>. SUFFICES ASSUME [Next]_vars PROVE UNCHANGED fixed
  OBVIOUS
<1>1. ASSUME NEW d \in Texts, Step(d) PROVE UNCHANGED fixed
  <2>1. ASSUME NEW ok \in BOOLEAN, \/ Open(d, ok) \/ Snapshot(d, ok) \/ Write(d, ok) \/ SendPaste(d, ok)
                                    \/ PlainWrite(d, ok) \/ PlainKeys(d, ok)
        PROVE  UNCHANGED fixed
    BY <2>1 DEF Open, Snapshot, Unread, Write, Untouched, Cleared, SendPaste, PlainWrite, PlainKeys
  <2>2. CASE \/ Lock(d) \/ AfterWrite(d) \/ BeforePaste(d) \/ WaitEnds(d) \/ WaitTimesOut(d)
             \/ Check(d) \/ RestoreNext(d) \/ Put(d) \/ RestoreFails(d) \/ Close(d)
    BY <2>2 DEF Lock, AfterWrite, BeforePaste, WaitEnds, WaitTimesOut, Check, RestoreNext, Put, RestoreFails, Close
  <2>. QED  BY <1>1, <2>1, <2>2 DEF Step
<1>2. ASSUME NEW d \in Texts, Send(d) PROVE UNCHANGED fixed
  BY <1>2 DEF Send
<1>3. ASSUME NEW s \in Sels, Copy(s) \/ Watch(s) PROVE UNCHANGED fixed
  BY <1>3 DEF Copy, Watch
<1>4. CASE TargetReads \/ TargetIgnores \/ UNCHANGED vars
  BY <1>4 DEF TargetReads, TargetIgnores, vars
<1>. QED  BY <1>1, <1>2, <1>3, <1>4 DEF Next, Rest

LEMMA WrittenFrame ==
  ASSUME Written, SelSet' = SelSet, NEW d \in Texts,
         \A e \in Texts \ {d} : pc'[e] = pc[e] /\ todo'[e] = todo[e] /\ wrote'[e] = wrote[e],
         pc'[d] \in Holding => /\ SelSet \ Occurs(todo'[d]) \subseteq wrote'[d]
                               /\ pc'[d] # "write" => todo'[d] = << >>
  PROVE  Written'
<1>1. \A e \in Texts \ {d} : pc'[e] \in Holding =>
        /\ SelSet \ Occurs(todo'[e]) \subseteq wrote'[e]
        /\ pc'[e] # "write" => todo'[e] = << >>
  BY DEF Written
<1>. QED  BY <1>1 DEF Written

LEMMA WrittenStep == KeeperBase /\ [Next]_vars => Written'
<1>. SUFFICES ASSUME KeeperBase, [Next]_vars PROVE Written'
  OBVIOUS
<1>0. SelSet' = SelSet
  <2>1. UNCHANGED fixed
    BY FixedRests
  <2>. QED  BY <2>1, ShapeFixed DEF KeeperBase
<1>1. ASSUME NEW d \in Texts, NEW ok \in BOOLEAN, Snapshot(d, ok) PROVE Written'
  <2>1. pc'[d] = "write" /\ \A e \in Texts \ {d} : pc'[e] = pc[e]
    BY <1>1, GoOne DEF Snapshot, Unread, KeeperBase
  <2>2. todo'[d] = Selections /\ wrote' = wrote /\ \A e \in Texts \ {d} : todo'[e] = todo[e]
    BY <1>1 DEF Snapshot, Unread, KeeperBase, Shape
  <2>3. Occurs(todo'[d]) = SelSet
    <3>1. Occurs(Selections) = SelSet
      BY SelsWritten
    <3>. QED  BY <2>2, <3>1
  <2>. QED  BY <1>0, <2>1, <2>2, <2>3, WrittenFrame DEF KeeperBase
<1>2. ASSUME NEW d \in Texts, Write(d, TRUE) PROVE Written'
  <2>0. PICK h : h = Head(todo[d])
    OBVIOUS
  <2>1. /\ wrote' = [wrote EXCEPT ![d] = @ \cup {h}] /\ todo' = [todo EXCEPT ![d] = Tail(@)]
        /\ pc' = pc /\ pc[d] = "write" /\ todo[d] # << >>
    BY <1>2, <2>0 DEF Write, Untouched, Cleared
  <2>2. /\ wrote'[d] = wrote[d] \cup {h} /\ todo'[d] = Tail(todo[d])
        /\ \A e \in Texts \ {d} : wrote'[e] = wrote[e] /\ todo'[e] = todo[e]
    BY <2>1 DEF KeeperBase, Shape
  <2>3. Occurs(todo[d]) = {h} \cup Occurs(Tail(todo[d]))
    BY <2>0, <2>1, OccursHead DEF KeeperBase, Shape
  <2>4. Occurs(todo'[d]) = Occurs(Tail(todo[d]))
    BY <2>2
  <2>5. SelSet \ Occurs(todo'[d]) \subseteq wrote'[d]
    BY <2>1, <2>2, <2>3, <2>4 DEF KeeperBase, Written, Holding
  <2>. QED  BY <1>0, <2>1, <2>2, <2>5, WrittenFrame DEF KeeperBase
<1>3. ASSUME NEW d \in Texts, AfterWrite(d) PROVE Written'
  <2>1. pc'[d] = "settle" /\ \A e \in Texts \ {d} : pc'[e] = pc[e]
    BY <1>3, GoOne DEF AfterWrite, KeeperBase
  <2>2. pc[d] = "write" /\ todo[d] = << >> /\ todo' = todo /\ wrote' = wrote
    BY <1>3 DEF AfterWrite
  <2>. QED  BY <1>0, <2>1, <2>2, WrittenFrame DEF KeeperBase, Written, Holding
<1>4. ASSUME NEW d \in Texts, BeforePaste(d) \/ \E ok \in BOOLEAN : SendPaste(d, ok) PROVE Written'
  <2>1. PICK l \in {"keys", "wait", "check"} : Go(d, l) /\ pc[d] \in Holding \ {"write"}
    BY <1>4 DEF BeforePaste, SendPaste, Holding
  <2>2. pc'[d] = l /\ \A e \in Texts \ {d} : pc'[e] = pc[e]
    BY <2>1, GoOne DEF KeeperBase
  <2>3. todo' = todo /\ wrote' = wrote
    BY <1>4 DEF BeforePaste, SendPaste
  <2>. QED  BY <1>0, <2>1, <2>2, <2>3, WrittenFrame DEF KeeperBase, Written
<1>5. ASSUME NEW d \in Texts, NEW l, Go(d, l), l \notin Holding,
             \A e \in Texts \ {d} : todo'[e] = todo[e] /\ wrote'[e] = wrote[e]
      PROVE  Written'
  <2>1. pc'[d] = l /\ \A e \in Texts \ {d} : pc'[e] = pc[e]
    BY <1>5, GoOne DEF KeeperBase
  <2>. QED  BY <1>0, <1>5, <2>1, WrittenFrame DEF KeeperBase
<1>6. ASSUME NEW d \in Texts, Send(d) \/ Lock(d) \/ Write(d, FALSE) \/ WaitEnds(d) \/ WaitTimesOut(d) \/ Check(d)
             \/ RestoreFails(d) \/ Put(d) \/ Close(d)
             \/ \E ok \in BOOLEAN : Open(d, ok) \/ PlainWrite(d, ok) \/ PlainKeys(d, ok)
      PROVE  Written'
  <2>1. \E l \in {"plain", "lock", "open", "save", "check", "restore", "close", "done", "plainkeys"} : Go(d, l)
    BY <1>6 DEF Send, Lock, Write, Untouched, Cleared, WaitEnds, WaitTimesOut, Check, RestoreFails, Put, Close, Open, PlainWrite, PlainKeys
  <2>2. \A e \in Texts \ {d} : todo'[e] = todo[e] /\ wrote'[e] = wrote[e]
    BY <1>6 DEF Send, Lock, Write, Untouched, Cleared, WaitEnds, WaitTimesOut, Check, RestoreFails, Put, Close, Open, PlainWrite, PlainKeys,
                job, KeeperBase, Shape
  <2>. QED  BY <1>5, <2>1, <2>2 DEF Holding
<1>7. ASSUME NEW d \in Texts, RestoreNext(d) PROVE Written'
  <2>1. pc[d] = "restore" /\ (UNCHANGED pc \/ \E l \in {"close", "put"} : Go(d, l))
    BY <1>7 DEF RestoreNext
  <2>2. pc'[d] \notin Holding /\ \A e \in Texts \ {d} : pc'[e] = pc[e]
    BY <2>1, GoOne DEF KeeperBase, Holding
  <2>3. \A e \in Texts \ {d} : todo'[e] = todo[e] /\ wrote'[e] = wrote[e]
    BY <1>7 DEF RestoreNext, KeeperBase, Shape
  <2>. QED  BY <1>0, <2>2, <2>3, WrittenFrame DEF KeeperBase
<1>8. ASSUME (\E s \in Sels : Copy(s) \/ Watch(s)) \/ TargetReads \/ TargetIgnores \/ UNCHANGED vars PROVE Written'
  <2>1. pc' = pc /\ todo' = todo /\ wrote' = wrote
    BY <1>8 DEF Copy, Watch, TargetReads, TargetIgnores, vars, job
  <2>. QED  BY <1>0, <2>1 DEF KeeperBase, Written
<1>9. ASSUME NEW d \in Texts, Step(d) PROVE Written'
  <2>1. (\E ok \in BOOLEAN : Write(d, ok)) => Write(d, TRUE) \/ Write(d, FALSE)
    <3>1. \A ok \in BOOLEAN : ok = TRUE \/ ok = FALSE
      OBVIOUS
    <3>. QED  BY <3>1
  <2>. QED  BY <1>1, <1>2, <1>3, <1>4, <1>6, <1>7, <1>9, <2>1 DEF Step
<1>. QED  BY <1>6, <1>8, <1>9 DEF Next, Rest

-----------------------------------------------------------------------------
(* The right text, or a known excuse                                         *)

\* The target would read d where it pastes, or is excused.
Carries(d) == clip[Pasted].val = d \/ d \in slips

Promise(d) ==
  /\ pc[d] = "write" /\ Pasted \in SelSet \ Occurs(todo[d]) => Carries(d)
  /\ pc[d] \in {"settle", "plainkeys"} => Carries(d)
  /\ pc[d] = "keys" \/ d \in Occurs(keys) => Carries(d) \/ d \in foreign
  /\ pc[d] = "keys" \/ (pc[d] = "wait" /\ d \in Occurs(keys)) => (served[d] => d \in foreign)
  /\ pc[d] \in Late /\ d \in Occurs(keys) => d \in slips \cup foreign
Promises == \A d \in Texts : Promise(d)

KeeperI == KeeperBase /\ Promises /\ TargetGetsText

\* What has been promised to a text that is not read yet.
Keeps(e) ==
  /\ Carries(e) => Carries(e)'
  /\ e \in slips => e \in slips'
  /\ e \in foreign => e \in foreign'
  /\ served'[e] => served[e] \/ e \in foreign'

LEMMA Bystander ==
  ASSUME KeeperI, NEW e \in Texts, pc'[e] = pc[e], todo'[e] = todo[e], Pasted' = Pasted, SelSet' = SelSet,
         e \in Occurs(keys') => e \in Occurs(keys), got[e] = NoOne => Keeps(e)
  PROVE  Promise(e)'
<1>1. pc[e] \in Unsent \/ e \in Occurs(keys) => got[e] = NoOne
  BY DEF KeeperI, KeeperBase, Sent
<1>2. pc[e] = "write" /\ Pasted \in SelSet \ Occurs(todo[e]) => Carries(e)'
  BY <1>1 DEF KeeperI, Promises, Promise, Keeps, Unsent
<1>3. pc[e] \in {"settle", "plainkeys"} => Carries(e)'
  BY <1>1 DEF KeeperI, Promises, Promise, Keeps, Unsent
<1>4. pc[e] = "keys" \/ e \in Occurs(keys') => Carries(e)' \/ e \in foreign'
  BY <1>1 DEF KeeperI, Promises, Promise, Keeps, Unsent
<1>5. pc[e] = "keys" \/ (pc[e] = "wait" /\ e \in Occurs(keys')) => (served'[e] => e \in foreign')
  BY <1>1 DEF KeeperI, Promises, Promise, Keeps, Unsent
<1>6. pc[e] \in Late /\ e \in Occurs(keys') => e \in slips' \cup foreign'
  BY <1>1 DEF KeeperI, Promises, Promise, Keeps
<1>7. Occurs(todo'[e]) = Occurs(todo[e])
  OBVIOUS
<1>. QED  BY <1>2, <1>3, <1>4, <1>5, <1>6, <1>7 DEF Promise

\* No step of a transaction takes from another text what it was promised.
LEMMA KeepsCarried ==
  ASSUME KeeperI, NEW e \in Texts, got[e] = NoOne, Pasted' = Pasted,
         clip'[Pasted].val = clip[Pasted].val \/ Carried(Pasted) \subseteq slips' \/ e \in slips',
         e \in slips => e \in slips'
  PROVE  Carries(e) => Carries(e)'
  BY DEF Carries, Carried

LEMMA PastedIsSel == Pasted \in Sels
  BY DEF Pasted, Sels

LEMMA FixedStays ==
  ASSUME KeeperI, [Next]_vars
  PROVE  Pasted' = Pasted /\ SelSet' = SelSet /\ plat' = plat /\ plain' = plain /\ primary' = primary
<1>1. UNCHANGED fixed
  BY FixedRests
<1>. QED  BY <1>1, ShapeFixed DEF KeeperI, KeeperBase, Pasted, fixed

LEMMA OthersPromised ==
  ASSUME KeeperI, NEW d \in Texts, Send(d) \/ Step(d)
  PROVE  \A e \in Texts \ {d} : Promise(e)'
<1>0. Pasted' = Pasted /\ SelSet' = SelSet
  BY FixedStays DEF Next
<1>. SUFFICES ASSUME NEW e \in Texts, e # d PROVE Promise(e)'
  OBVIOUS
<1>1. pc'[e] = pc[e] /\ todo'[e] = todo[e]
  BY DEF Send, Lock, Open, Snapshot, Unread, Write, Untouched, Cleared, AfterWrite, BeforePaste, SendPaste, WaitEnds, Step, job,
         WaitTimesOut, Check, RestoreNext, Put, RestoreFails, Close, PlainWrite, PlainKeys, Go, KeeperI, KeeperBase, Shape
<1>2. e \in Occurs(keys') => e \in Occurs(keys)
  <2>1. keys' = keys \/ keys' = Append(keys, d)
    BY DEF Send, Lock, Open, Snapshot, Unread, Write, Untouched, Cleared, AfterWrite, BeforePaste, SendPaste, WaitEnds, Step,
           WaitTimesOut, Check, RestoreNext, Put, RestoreFails, Close, PlainWrite, PlainKeys
  <2>2. Occurs(Append(keys, d)) = Occurs(keys) \cup {d}
    BY OccursAppend DEF KeeperI, KeeperBase, Shape
  <2>. QED  BY <2>1, <2>2
<1>3. ASSUME got[e] = NoOne PROVE Keeps(e)
  <2>1. e \in slips => e \in slips'
    BY DEF Send, Lock, Open, Snapshot, Unread, Write, Untouched, Cleared, AfterWrite, BeforePaste, SendPaste, WaitEnds, Step, ghost,
           WaitTimesOut, Check, RestoreNext, Put, RestoreFails, Close, PlainWrite, PlainKeys
  <2>2. e \in foreign => e \in foreign'
    BY DEF Send, Lock, Open, Snapshot, Unread, Write, Untouched, Cleared, AfterWrite, BeforePaste, SendPaste, WaitEnds, Step, ghost,
           WaitTimesOut, Check, RestoreNext, Put, RestoreFails, Close, PlainWrite, PlainKeys
  <2>3. served'[e] => served[e]
    BY DEF Send, Lock, Open, Snapshot, Unread, Write, Untouched, Cleared, AfterWrite, BeforePaste, SendPaste, WaitEnds, Step, signal, KeeperI,
           WaitTimesOut, Check, RestoreNext, Put, RestoreFails, Close, PlainWrite, PlainKeys, KeeperBase, Shape
  <2>4. clip'[Pasted].val = clip[Pasted].val \/ Carried(Pasted) \subseteq slips' \/ e \in slips' \/ ~Carries(e)
    <3>1. CASE RestoreNext(d)
      <4>1. clip' = clip \/ \E s \in Sels : SetClip(s, "kept", snap[d][s]) /\ Own(s, d)
        <5>1. todo[d] # << >> => Head(todo[d]) \in Sels
          BY OccursHead, SelsWritten DEF KeeperI, KeeperBase, Shape
        <5>. QED  BY <3>1, <5>1 DEF RestoreNext, AtOnce, Skips, Lost
      <4>2. \A s \in Sels : SetClip(s, "kept", snap[d][s]) => \A t \in Sels \ {s} : clip'[t] = clip[t]
        <5>1. "kept" \in Owners /\ \A s \in Sels : snap[d][s] \in Values
          BY DEF Owners, KeeperI, KeeperBase, Shape
        <5>. QED  BY <5>1, SetTypes DEF KeeperI, KeeperBase
      <4>3. \A s \in Sels : Own(s, d) => clip[s].val = d
        BY DEF KeeperI, KeeperBase, Contents, OwnsIts, Own
      <4>4. clip' = clip \/ clip'[Pasted] = clip[Pasted] \/ clip[Pasted].val = d
        BY <4>1, <4>2, <4>3, PastedIsSel
      <4>. QED  BY <2>1, <4>4 DEF Carries
    <3>2. CASE Put(d)
      <4>1. Head(todo[d]) \in Sels
        BY <3>2, OccursHead, SelsWritten DEF Put, KeeperI, KeeperBase, Shape, Looked
      <4>2. PICK s \in Sels : SetClip(s, "kept", snap[d][s]) /\ slips' = slips \cup (Carried(s) \ {d})
        BY <3>2, <4>1 DEF Put
      <4>3. \A t \in Sels \ {s} : clip'[t] = clip[t]
        <5>1. "kept" \in Owners /\ snap[d][s] \in Values
          BY DEF Owners, KeeperI, KeeperBase, Shape
        <5>. QED  BY <4>2, <5>1, SetTypes DEF KeeperI, KeeperBase
      <4>4. s = Pasted => ~Carries(e) \/ e \in slips'
        BY <1>3, <4>2 DEF Carries, Carried
      <4>. QED  BY <4>3, <4>4, PastedIsSel
    <3>3. CASE Close(d)
      BY <3>3, PastedIsSel DEF Close
    <3>4. ASSUME NEW ok \in BOOLEAN, Write(d, ok) PROVE clip'[Pasted].val = clip[Pasted].val \/ Carried(Pasted) \subseteq slips'
      <4>1. CASE ok
        <5>1. PICK s : s = Head(todo[d])
          OBVIOUS
        <5>2. s \in Sels /\ SetClip(s, d, d) /\ slips' = slips \cup Carried(s)
          BY <3>4, <4>1, <5>1, OccursHead, SelsWritten DEF Write, Untouched, Cleared, KeeperI, KeeperBase, Shape
        <5>3. d \in Owners /\ d \in Values
          BY DEF Owners, Values
        <5>4. \A t \in Sels \ {s} : clip'[t] = clip[t]
          BY <5>2, <5>3, SetTypes DEF KeeperI, KeeperBase
        <5>. QED  BY <5>2, <5>4, PastedIsSel
      <4>2. CASE ~ok
        <5>1. PICK s : s = Head(todo[d])
          OBVIOUS
        <5>2. s \in Sels
          BY <3>4, <5>1, OccursHead, SelsWritten DEF Write, KeeperI, KeeperBase, Shape
        <5>3. clip' = clip \/ (SetClip(s, "none", Empty) /\ slips' = slips \cup Carried(s))
          BY <3>4, <4>2, <5>1 DEF Write, Untouched, Cleared
        <5>4. "none" \in Owners /\ Empty \in Values
          BY DEF Owners, Values
        <5>5. SetClip(s, "none", Empty) => \A t \in Sels \ {s} : clip'[t] = clip[t]
          BY <5>2, <5>4, SetTypes DEF KeeperI, KeeperBase
        <5>. QED  BY <5>3, <5>5, PastedIsSel
      <4>. QED  BY <4>1, <4>2
    <3>5. CASE AfterWrite(d)
      <4>1. clip' = clip \/ (SetClip("primary", "text", d) /\ slips' = slips \cup Carried("primary"))
        BY <3>5 DEF AfterWrite
      <4>2. "text" \in Owners /\ d \in Values /\ "primary" \in Sels
        BY DEF Owners, Values, Sels
      <4>3. SetClip("primary", "text", d) => \A t \in Sels \ {"primary"} : clip'[t] = clip[t]
        BY <4>2, SetTypes DEF KeeperI, KeeperBase
      <4>. QED  BY <4>1, <4>3, PastedIsSel
    <3>6. ASSUME NEW ok \in BOOLEAN, PlainWrite(d, ok) PROVE clip' = clip \/ Carried(Pasted) \subseteq slips'
      BY <3>6 DEF PlainWrite
    <3>7. CASE clip' = clip
      BY <3>7
    <3>. QED
      BY <3>1, <3>2, <3>3, <3>4, <3>5, <3>6, <3>7
         DEF Step, Send, Lock, Open, Snapshot, Unread, BeforePaste, SendPaste, WaitEnds, WaitTimesOut, Check, RestoreFails, PlainKeys
  <2>5. Carries(e) => Carries(e)'
    BY <1>0, <1>3, <2>1, <2>4, KeepsCarried
  <2>. QED  BY <2>1, <2>2, <2>3, <2>5 DEF Keeps
<1>. QED  BY <1>0, <1>1, <1>2, <1>3, Bystander

\* The steps of a transaction keep what its own text is promised.
LEMMA OwnStarts ==
  ASSUME KeeperI, NEW d \in Texts, Send(d) \/ Lock(d) \/ \E ok \in BOOLEAN : Open(d, ok) \/ Snapshot(d, ok)
  PROVE  Promise(d)'
<1>1. PICK l \in {"plain", "lock", "open", "save", "write"} : Go(d, l) /\ pc[d] \in Early
  BY DEF Send, Lock, Open, Snapshot, Unread, Early
<1>2. pc'[d] = l
  BY <1>1, GoOne DEF KeeperI, KeeperBase
<1>3. keys' = keys /\ d \notin Occurs(keys)
  BY <1>1 DEF Send, Lock, Open, Snapshot, Unread, KeeperI, KeeperBase, Sent, Unsent
<1>4. Occurs(keys') = Occurs(keys)
  BY <1>3
<1>5. l = "write" => SelSet' \subseteq Occurs(todo'[d])
  <2>1. SUFFICES ASSUME l = "write" PROVE SelSet' \subseteq Occurs(todo'[d])
    OBVIOUS
  <2>2. \E ok \in BOOLEAN : Snapshot(d, ok)
    BY <1>2, <2>1, GoOne DEF Send, Lock, Open, KeeperI, KeeperBase
  <2>3. todo'[d] = Selections /\ SelSet' = SelSet
    BY <2>2, ShapeFixed DEF Snapshot, Unread, KeeperI, KeeperBase, Shape
  <2>4. Occurs(Selections) = SelSet
    BY SelsWritten
  <2>5. Occurs(todo'[d]) = Occurs(Selections)
    BY <2>3
  <2>. QED  BY <2>3, <2>4, <2>5
<1>. QED  BY <1>2, <1>3, <1>4, <1>5 DEF Promise, Late

LEMMA OwnWrites ==
  ASSUME KeeperI, NEW d \in Texts, NEW ok \in BOOLEAN, Write(d, ok)
  PROVE  Promise(d)'
<1>0. pc[d] = "write" /\ keys' = keys /\ d \notin Occurs(keys) /\ got[d] = NoOne
  BY DEF Write, Untouched, Cleared, KeeperI, KeeperBase, Sent, Unsent
<1>a. Occurs(keys') = Occurs(keys)
  BY <1>0
<1>b. Pasted' = Pasted /\ SelSet' = SelSet
  BY FixedStays DEF Next, Step
<1>1. CASE ok
  <2>0. PICK h : h = Head(todo[d])
    OBVIOUS
  <2>1. /\ h \in Sels /\ SetClip(h, d, d) /\ todo' = [todo EXCEPT ![d] = Tail(@)]
        /\ todo[d] # << >> /\ pc' = pc /\ slips' = slips \cup Carried(h)
        /\ Occurs(todo[d]) = {h} \cup Occurs(Tail(todo[d]))
    BY <1>1, <2>0, OccursHead, SelsWritten DEF Write, Untouched, Cleared, KeeperI, KeeperBase, Shape
  <2>2. todo'[d] = Tail(todo[d])
    BY <2>1 DEF KeeperI, KeeperBase, Shape
  <2>3. d \in Owners /\ d \in Values
    BY DEF Owners, Values
  <2>4. clip'[h].val = d /\ \A t \in Sels \ {h} : clip'[t] = clip[t]
    BY <2>1, <2>3, SetTypes DEF KeeperI, KeeperBase
  <2>5. Pasted = h => Carries(d)'
    BY <1>b, <2>4 DEF Carries
  <2>6. Pasted # h /\ Carries(d) => Carries(d)'
    BY <1>b, <2>1, <2>4, PastedIsSel DEF Carries
  <2>7. Occurs(todo'[d]) = Occurs(Tail(todo[d]))
    BY <2>2
  <2>8. Pasted \in SelSet \ Occurs(todo'[d]) => Carries(d)'
    BY <1>0, <2>1, <2>5, <2>6, <2>7 DEF KeeperI, Promises, Promise
  <2>. QED  BY <1>0, <1>a, <1>b, <2>1, <2>8 DEF Promise, Late
<1>2. CASE ~ok
  <2>1. pc'[d] = "check"
    BY <1>2, GoOne DEF Write, Untouched, Cleared, KeeperI, KeeperBase
  <2>. QED  BY <1>0, <1>a, <2>1 DEF Promise, Late
<1>. QED  BY <1>1, <1>2

LEMMA OwnSettles ==
  ASSUME KeeperI, NEW d \in Texts, AfterWrite(d)
  PROVE  Promise(d)'
<1>0. /\ pc[d] = "write" /\ todo[d] = << >> /\ keys' = keys /\ d \notin Occurs(keys) /\ got[d] = NoOne
      /\ Go(d, "settle")
  BY DEF AfterWrite, KeeperI, KeeperBase, Sent, Unsent
<1>1. Occurs(keys') = Occurs(keys) /\ Occurs(todo[d]) = {} /\ pc'[d] = "settle"
  BY <1>0, GoOne DEF Occurs, KeeperI, KeeperBase
<1>2. Pasted' = Pasted
  BY FixedStays DEF Next, Step
<1>3. Pasted \in SelSet => Carries(d)
  BY <1>0, <1>1 DEF KeeperI, Promises, Promise
<1>4. Carries(d)'
  <2>1. CASE primary /\ ~HandlesPrimary
    <3>1. "text" \in Owners /\ d \in Values /\ "primary" \in Sels
      BY DEF Owners, Values, Sels
    <3>2. clip'["primary"].val = d
      BY <2>1, <3>1, SetTypes DEF AfterWrite, KeeperI, KeeperBase
    <3>3. Pasted = "primary"
      BY <2>1 DEF Pasted, KeeperI, KeeperBase, Shape, Places
    <3>. QED  BY <1>2, <3>2, <3>3 DEF Carries
  <2>2. CASE ~(primary /\ ~HandlesPrimary) /\ plain /\ ~primary
    BY <1>2, <2>2 DEF AfterWrite, Carries
  <2>3. CASE ~(primary /\ ~HandlesPrimary) /\ ~(plain /\ ~primary)
    <3>1. Pasted \in SelSet
      BY <2>3, SelsWritten DEF Pasted, HandlesPrimary, Sels, KeeperI, KeeperBase, Shape, Places
    <3>2. clip' = clip /\ slips' = slips
      BY <2>3 DEF AfterWrite
    <3>. QED  BY <1>2, <1>3, <3>1, <3>2 DEF Carries
  <2>. QED  BY <2>1, <2>2, <2>3
<1>. QED  BY <1>0, <1>1, <1>4 DEF Promise, Late

LEMMA OwnPastes ==
  ASSUME KeeperI, NEW d \in Texts, BeforePaste(d) \/ \E ok \in BOOLEAN : SendPaste(d, ok)
  PROVE  Promise(d)'
<1>0. Pasted' = Pasted
  BY FixedStays DEF Next, Step
<1>1. CASE BeforePaste(d)
  <2>1. /\ pc[d] = "settle" /\ clip' = clip /\ slips' = slips /\ keys' = keys /\ Go(d, "keys")
        /\ served' = [served EXCEPT ![d] = FALSE]
    BY <1>1 DEF BeforePaste, Baseline
  <2>2. pc'[d] = "keys" /\ ~served'[d]
    BY <2>1, GoOne DEF KeeperI, KeeperBase, Shape
  <2>3. Carries(d)'
    BY <1>0, <2>1 DEF KeeperI, Promises, Promise, Carries
  <2>. QED  BY <2>2, <2>3 DEF Promise, Late
<1>2. CASE SendPaste(d, TRUE)
  <2>1. /\ pc[d] = "keys" /\ clip' = clip /\ slips' = slips /\ foreign' = foreign /\ served' = served
        /\ Go(d, "wait")
    BY <1>2 DEF SendPaste, signal, ghost
  <2>2. pc'[d] = "wait"
    BY <2>1, GoOne DEF KeeperI, KeeperBase
  <2>3. Carries(d)' \/ d \in foreign'
    BY <1>0, <2>1 DEF KeeperI, Promises, Promise, Carries
  <2>4. served'[d] => d \in foreign'
    BY <2>1 DEF KeeperI, Promises, Promise
  <2>. QED  BY <2>2, <2>3, <2>4 DEF Promise, Late
<1>3. CASE SendPaste(d, FALSE)
  <2>1. keys' = keys /\ d \notin Occurs(keys) /\ Go(d, "check")
    BY <1>3 DEF SendPaste, KeeperI, KeeperBase, Sent, Unsent
  <2>2. pc'[d] = "check" /\ Occurs(keys') = Occurs(keys)
    BY <2>1, GoOne DEF KeeperI, KeeperBase
  <2>. QED  BY <2>1, <2>2 DEF Promise, Late
<1>4. \A ok \in BOOLEAN : ok = TRUE \/ ok = FALSE
  OBVIOUS
<1>. QED  BY <1>1, <1>2, <1>3, <1>4

\* A wait that ends early has noticed a read, which was not the target's if the
\* keys are not handled yet, or that the text is gone.
LEMMA OwnWaits ==
  ASSUME KeeperI, NEW d \in Texts, WaitEnds(d) \/ WaitTimesOut(d)
  PROVE  Promise(d)'
<1>0. /\ Pasted' = Pasted /\ pc[d] = "wait" /\ clip' = clip /\ slips \subseteq slips' /\ foreign' = foreign
      /\ keys' = keys /\ Go(d, "check")
  BY FixedStays DEF Next, Step, WaitEnds, WaitTimesOut, ghost
<1>1. pc'[d] = "check" /\ Occurs(keys') = Occurs(keys)
  BY <1>0, GoOne DEF KeeperI, KeeperBase
<1>2. d \in Occurs(keys) => Carries(d)' \/ d \in foreign'
  BY <1>0 DEF KeeperI, Promises, Promise, Carries
<1>3. d \in Occurs(keys) => d \in slips' \cup foreign'
  <2>1. CASE WaitTimesOut(d)
    BY <2>1 DEF WaitTimesOut
  <2>2. CASE WaitEnds(d) /\ served[d]
    BY <1>0, <2>2 DEF KeeperI, Promises, Promise
  <2>3. CASE WaitEnds(d) /\ Changed(d)
    <3>1. plat \in {"windows", "x11"} /\ todo[d] = << >> /\ SelSet \ Occurs(todo[d]) \subseteq wrote[d]
      BY <1>0, <2>3 DEF WaitEnds, HasReadSignal, KeeperI, KeeperBase, Written, Holding
    <3>2. SelSet \subseteq wrote[d]
      BY <3>1 DEF Occurs
    <3>3. Lost(d, Pasted)
      <4>1. CASE plat = "x11"
        <5>1. Pasted \in SelSet
          BY <4>1, SelsWritten DEF Pasted, Sels
        <5>. QED  BY <2>3, <3>2, <4>1, <5>1 DEF Changed
      <4>2. CASE plat = "windows"
        BY <2>3, <4>2 DEF Changed, Pasted, KeeperI, KeeperBase, Shape, Places
      <4>. QED  BY <3>1, <4>1, <4>2
    <3>4. clip[Pasted].val # d
      BY <1>0, <3>1, <3>3, PastedIsSel DEF Lost, Own, KeeperI, KeeperBase, Contents, HeldOwn, Holding
    <3>. QED  BY <1>0, <1>2, <3>4 DEF Carries
  <2>. QED  BY <2>1, <2>2, <2>3 DEF WaitEnds
<1>. QED  BY <1>1, <1>2, <1>3 DEF Promise

LEMMA OwnRestores ==
  ASSUME KeeperI, NEW d \in Texts, Check(d) \/ RestoreNext(d) \/ Put(d) \/ RestoreFails(d)
  PROVE  Promise(d)'
<1>0. /\ pc[d] \in Late /\ slips \subseteq slips' /\ foreign' = foreign /\ keys' = keys
  BY DEF Check, RestoreNext, Put, RestoreFails, ghost, Late
<1>1. UNCHANGED pc \/ \E l \in {"close", "restore", "put"} : Go(d, l)
  BY DEF Check, RestoreNext, Put, RestoreFails
<1>2. pc'[d] \in Late
  BY <1>0, <1>1, GoOne DEF KeeperI, KeeperBase, Late
<1>3. Occurs(keys') = Occurs(keys)
  BY <1>0
<1>4. d \in Occurs(keys) => d \in slips' \cup foreign'
  BY <1>0 DEF KeeperI, Promises, Promise
<1>. QED  BY <1>2, <1>3, <1>4 DEF Promise, Late, Carries

LEMMA OwnCloses ==
  ASSUME KeeperI, NEW d \in Texts, Close(d) \/ \E ok \in BOOLEAN : PlainWrite(d, ok) \/ PlainKeys(d, ok)
  PROVE  Promise(d)'
<1>0. Pasted' = Pasted /\ primary' = primary /\ plain' = plain
  BY FixedStays DEF Next, Step
<1>1. CASE Close(d)
  <2>1. pc[d] = "close" /\ slips \subseteq slips' /\ foreign' = foreign /\ keys' = keys /\ Go(d, "done")
    BY <1>1 DEF Close
  <2>2. pc'[d] = "done" /\ Occurs(keys') = Occurs(keys)
    BY <2>1, GoOne DEF KeeperI, KeeperBase
  <2>3. d \in Occurs(keys) => d \in slips' \cup foreign'
    BY <2>1 DEF KeeperI, Promises, Promise, Late
  <2>. QED  BY <2>2, <2>3 DEF Promise, Late, Carries
<1>2. ASSUME NEW ok \in BOOLEAN, PlainWrite(d, ok) PROVE Promise(d)'
  <2>1. keys' = keys /\ d \notin Occurs(keys)
    BY <1>2 DEF PlainWrite, KeeperI, KeeperBase, Sent, Unsent, Early
  <2>2. pc'[d] \in {"plainkeys", "done"} /\ Occurs(keys') = Occurs(keys)
    BY <1>2, <2>1, GoOne DEF PlainWrite, KeeperI, KeeperBase
  <2>3. pc'[d] = "plainkeys" => Carries(d)'
    <3>1. SUFFICES ASSUME pc'[d] = "plainkeys" PROVE Carries(d)'
      OBVIOUS
    <3>2. ok
      BY <1>2, <3>1, GoOne DEF PlainWrite, KeeperI, KeeperBase
    <3>3. CASE plain /\ ~primary
      BY <1>2, <3>2, <3>3 DEF PlainWrite, Carries
    <3>4. CASE ~(plain /\ ~primary)
      <4>1. clip'[Pasted] = [own |-> "text", val |-> d]
        BY <1>2, <3>2, <3>4, PastedIsSel DEF PlainWrite, Pasted, KeeperI, KeeperBase, Shape, Places
      <4>. QED  BY <1>0, <4>1 DEF Carries
    <3>. QED  BY <3>3, <3>4
  <2>. QED  BY <2>1, <2>2, <2>3 DEF Promise, Late
<1>3. ASSUME NEW ok \in BOOLEAN, PlainKeys(d, ok) PROVE Promise(d)'
  <2>1. pc[d] = "plainkeys" /\ clip' = clip /\ slips' = slips /\ Go(d, "done")
    BY <1>3 DEF PlainKeys, ghost
  <2>2. pc'[d] = "done"
    BY <2>1, GoOne DEF KeeperI, KeeperBase
  <2>3. Carries(d)'
    BY <1>0, <2>1 DEF KeeperI, Promises, Promise, Carries
  <2>. QED  BY <2>2, <2>3 DEF Promise, Late
<1>. QED  BY <1>1, <1>2, <1>3

\* The user and the clipboard manager.
LEMMA OthersPromise ==
  ASSUME KeeperI, (\E s \in Sels : Copy(s) \/ Watch(s)) \/ TargetIgnores \/ UNCHANGED vars
  PROVE  Promises'
<1>0. Pasted' = Pasted /\ SelSet' = SelSet /\ pc' = pc /\ todo' = todo
  BY FixedStays DEF Next, vars, job, Copy, Watch, TargetIgnores
<1>1. Occurs(keys') \subseteq Occurs(keys)
  <2>1. CASE TargetIgnores
    BY <2>1, KeysTail DEF KeeperI
  <2>2. CASE keys' = keys
    BY <2>2
  <2>. QED  BY <2>1, <2>2 DEF Copy, Watch, vars
<1>2. ASSUME NEW e \in Texts, got[e] = NoOne PROVE Keeps(e)
  <2>1. ASSUME NEW s \in Sels, Copy(s) PROVE Keeps(e)
    <3>1. copies' \in Values /\ "user" \in Owners
      BY <2>1, ShapeOthers DEF KeeperI, KeeperBase, Shape, Values, Owners
    <3>2. SetClip(s, "user", copies') /\ slips' = slips \cup Carried(s) /\ foreign' = foreign /\ served' = served
      BY <2>1 DEF Copy, signal
    <3>3. \A t \in Sels \ {s} : clip'[t] = clip[t]
      BY <3>1, <3>2, SetTypes DEF KeeperI, KeeperBase
    <3>4. clip'[Pasted].val = clip[Pasted].val \/ Carried(Pasted) \subseteq slips'
      BY <3>2, <3>3, PastedIsSel
    <3>5. Carries(e) => Carries(e)'
      BY <1>0, <1>2, <3>2, <3>4, KeepsCarried
    <3>. QED  BY <3>2, <3>5 DEF Keeps
  <2>2. ASSUME NEW s \in Sels, Watch(s) PROVE Keeps(e)
    <3>1. clip' = clip /\ slips' = slips
      BY <2>2 DEF Watch
    <3>2. foreign' = foreign \cup {j \in Texts : served'[j] /\ ~served[j] /\ got[j] = NoOne}
      BY <2>2 DEF Watch
    <3>3. Carries(e) => Carries(e)'
      BY <1>0, <3>1 DEF Carries
    <3>. QED  BY <1>2, <3>1, <3>2, <3>3 DEF Keeps
  <2>3. CASE TargetIgnores \/ UNCHANGED vars
    <3>1. clip' = clip /\ slips' = slips /\ foreign' = foreign /\ served' = served
      BY <2>3 DEF TargetIgnores, vars, ghost, signal
    <3>. QED  BY <1>0, <3>1 DEF Keeps, Carries
  <2>. QED  BY <2>1, <2>2, <2>3
<1>. SUFFICES ASSUME NEW e \in Texts PROVE Promise(e)'
  BY DEF Promises
<1>. QED  BY <1>0, <1>1, <1>2, Bystander

LEMMA ReadsPromise ==
  ASSUME KeeperI, TargetReads
  PROVE  Promises' /\ TargetGetsText'
<1>0. Pasted' = Pasted /\ SelSet' = SelSet /\ pc' = pc /\ todo' = todo /\ clip' = clip
  BY FixedStays DEF Next, vars, job, TargetReads
<1>1. PICK h : h = Head(keys)
  OBVIOUS
<1>2. /\ h \in Texts /\ h \in Occurs(keys) /\ Occurs(keys') = Occurs(keys) \ {h}
  BY <1>1, KeysTail DEF KeeperI
<1>3. /\ got' = [got EXCEPT ![h] = IF clip[Pasted].val = h THEN "right"
                                   ELSE IF h \in slips \cup foreign THEN "excused" ELSE "wrong"]
      /\ foreign' = (foreign \ {h}) \cup {j \in Texts \ {h} : served'[j] /\ ~served[j]}
      /\ slips' = slips \ {h}
  BY <1>1 DEF TargetReads
<1>4. TargetGetsText'
  <2>1. clip[Pasted].val = h \/ h \in slips \cup foreign
    BY <1>2 DEF KeeperI, Promises, Promise, Carries
  <2>2. got'[h] # "wrong" /\ \A e \in Texts \ {h} : got'[e] = got[e]
    BY <1>2, <1>3, <2>1 DEF KeeperI, KeeperBase, Shape
  <2>. QED  BY <2>2 DEF TargetGetsText, KeeperI
<1>5. ASSUME NEW e \in Texts, e # h PROVE Promise(e)'
  <2>1. Keeps(e)
    BY <1>0, <1>3, <1>5 DEF Keeps, Carries
  <2>. QED  BY <1>0, <1>2, <2>1, Bystander
<1>6. Promise(h)'
  <2>1. h \notin Occurs(keys') /\ pc[h] \notin Unsent
    BY <1>2 DEF KeeperI, KeeperBase, Sent
  <2>. QED  BY <1>0, <2>1 DEF Promise, Unsent
<1>. QED  BY <1>4, <1>5, <1>6 DEF Promises

LEMMA GotStays ==
  ASSUME KeeperI, [Next]_vars, ~TargetReads
  PROVE  TargetGetsText'
<1>1. ASSUME NEW d \in Texts, Step(d) PROVE got' = got
  <2>1. ASSUME NEW ok \in BOOLEAN, \/ Open(d, ok) \/ Snapshot(d, ok) \/ Write(d, ok) \/ SendPaste(d, ok)
                                    \/ PlainWrite(d, ok) \/ PlainKeys(d, ok)
        PROVE  got' = got
    BY <2>1 DEF Open, Snapshot, Unread, Write, Untouched, Cleared, SendPaste, PlainWrite, PlainKeys, ghost
  <2>2. CASE \/ Lock(d) \/ AfterWrite(d) \/ BeforePaste(d) \/ WaitEnds(d) \/ WaitTimesOut(d)
             \/ Check(d) \/ RestoreNext(d) \/ Put(d) \/ RestoreFails(d) \/ Close(d)
    BY <2>2 DEF Lock, AfterWrite, BeforePaste, WaitEnds, WaitTimesOut, Check, RestoreNext, Put, RestoreFails, Close, ghost
  <2>. QED  BY <1>1, <2>1, <2>2 DEF Step
<1>2. got' = got
  BY <1>1 DEF Next, Rest, Send, Copy, Watch, TargetIgnores, ghost, vars
<1>. QED  BY <1>2 DEF KeeperI, TargetGetsText

LEMMA KeeperStep == CopyI /\ KeeperI /\ [Next]_vars => KeeperI'
<1>. SUFFICES ASSUME CopyI, KeeperI, [Next]_vars PROVE KeeperI'
  OBVIOUS
<1>1. KeeperBase'
  <2>1. Shape' /\ Contents' /\ Sent' /\ Written'
    BY ShapeStep, ContentsStep, SentStep, WrittenStep DEF KeeperI, KeeperBase
  <2>2. Looked'
    BY CopyStep DEF CopyI
  <2>. QED  BY <2>1, <2>2 DEF KeeperBase
<1>2. ASSUME NEW d \in Texts, Send(d) \/ Step(d) PROVE Promises'
  <2>1. Promise(d)'
    <3>1. CASE Send(d) \/ Lock(d) \/ \E ok \in BOOLEAN : Open(d, ok) \/ Snapshot(d, ok)
      BY <3>1, OwnStarts
    <3>2. CASE AfterWrite(d) \/ \E ok \in BOOLEAN : Write(d, ok)
      BY <3>2, OwnSettles, OwnWrites
    <3>3. CASE BeforePaste(d) \/ \E ok \in BOOLEAN : SendPaste(d, ok)
      BY <3>3, OwnPastes
    <3>4. CASE WaitEnds(d) \/ WaitTimesOut(d)
      BY <3>4, OwnWaits
    <3>5. CASE Check(d) \/ RestoreNext(d) \/ Put(d) \/ RestoreFails(d)
      BY <3>5, OwnRestores
    <3>6. CASE Close(d) \/ \E ok \in BOOLEAN : PlainWrite(d, ok) \/ PlainKeys(d, ok)
      BY <3>6, OwnCloses
    <3>. QED  BY <1>2, <3>1, <3>2, <3>3, <3>4, <3>5, <3>6 DEF Step
  <2>2. \A e \in Texts \ {d} : Promise(e)'
    BY <1>2, OthersPromised
  <2>. QED  BY <2>1, <2>2 DEF Promises
<1>3. Promises'
  BY <1>2, OthersPromise, ReadsPromise DEF Next, Rest
<1>4. TargetGetsText'
  BY ReadsPromise, GotStays
<1>. QED  BY <1>1, <1>3, <1>4 DEF KeeperI

LEMMA KeeperStart == Init => KeeperI
<1>. SUFFICES ASSUME Init PROVE KeeperI
  OBVIOUS
<1>1. Occurs(keys) = {}
  BY DEF Init, Occurs
<1>2. Promises
  BY <1>1 DEF Init, Promises, Promise, Late
<1>3. TargetGetsText
  BY ClipboardAssumption DEF Init, TargetGetsText
<1>. QED  BY <1>2, <1>3, KeeperBaseStart DEF KeeperI

\* One transaction at a time is inside the lock, and the target pastes the text
\* its keys were sent for, but for the known cases: however late it reads, and
\* whoever else reads or writes the clipboard meanwhile.
THEOREM TargetRight == Spec => []KeeperInv
<1>1. KeeperI => KeeperInv
  <2>. SUFFICES ASSUME KeeperI PROVE KeeperInv
    OBVIOUS
  <2>1. TypeOK
    BY DEF KeeperI, KeeperBase, Shape, Turns, TypeOK, Owners, Labels
  <2>. QED  BY <2>1 DEF KeeperI, KeeperInv
<1>. QED  BY <1>1, CopyStart, CopyStep, KeeperStart, KeeperStep, PTL DEF Spec

=============================================================================
