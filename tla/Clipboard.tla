----------------------------- MODULE Clipboard -----------------------------
(* How a dictated text gets into the focused window (outputs.py) without the *)
(* user losing what was on the clipboard (clipboard_keeper.py and the        *)
(* sessions of Windows, X11, Wayland and pyperclip).  Every paste is a       *)
(* transaction of a thread of its own under one lock: save, write, send the  *)
(* keys, wait until the target has read, put back.  The user copies and      *)
(* selects, the target reads, and other programs watch the clipboard, all at *)
(* any time.                                                                  *)
EXTENDS Integers, Sequences, FiniteSets

CONSTANTS Texts,        \* dictated texts, each pasted once
          Senders,      \* who may send which: a set of functions to Callers
          Tools,        \* programs that may be installed
          MaxCopies, MaxWatches,
          Faults, MaxFaults,    \* of "open", "snapshot", "write", "keys", "restore"
          Empty, NoOne

Callers == {"worker", "dialog"}     \* the transcription worker, the history dialog
Sels == {"clipboard", "primary"}
Copies == 0..MaxCopies              \* what the user copied; 0 was there before

\* Texts, copies and the marks of who owns a selection are told apart.
ASSUME ClipboardAssumption ==
  /\ Senders \subseteq [Texts -> Callers] /\ MaxCopies \in Nat
  /\ Texts \cap Copies = {}
  /\ Texts \cap {Empty, NoOne, "user", "kept", "text", "none"} = {}
  /\ NoOne \notin {"right", "excused", "wrong"}

VARIABLES
  plat,         \* kind of session: "windows", "x11", "blind" (Wayland, pyperclip), "none"
  plain,        \* a terminal has the focus
  primary,      \* xclip is there to set PRIMARY for it
  by,           \* who pastes a text
  clip,         \* [Sels -> owner and value]
  caller,       \* [Callers -> text whose keys it waits for, or NoOne]
  lock,         \* ClipboardKeeper._lock
  pc, todo,     \* of the transaction; selections it has still to do
  snap, saved, wrote,         \* snapshot, outcome.saved, selections it has written
  served,       \* a read was noticed since before_paste
  rendered,     \* Windows: the text was rendered, further reads go unnoticed
  keys,         \* paste keys the target has not handled yet
  last,         \* ghost: what the user last copied or selected
  got,          \* ghost: what the target read for a text
  slips, foreign,  \* ghost: see TargetGetsText
  sure,         \* ghost: the text was still there when the session looked
  excused,      \* ghost: selections whose copy was lost in a known way
  copies, watches, faults

fixed == <<plat, plain, primary, by>>
job == <<pc, todo, snap, saved, wrote>>
signal == <<served, rendered>>
ghost == <<last, got, slips, foreign, sure, excused>>
count == <<copies, watches, faults>>
vars == <<fixed, clip, caller, lock, job, signal, keys, ghost, count>>

\* Sessions that know when the text was read; those that save PRIMARY.
HasReadSignal == plat \in {"windows", "x11"}
HandlesPrimary == plat = "x11"
Selections == IF HandlesPrimary /\ plain THEN <<"clipboard", "primary">> ELSE <<"clipboard">>
\* Shift+Insert pastes PRIMARY, Ctrl+V the clipboard.
Pasted == IF plain THEN "primary" ELSE "clipboard"

\* resolve_typing_backend: the first program that is installed.
Candidates(desktop) ==
  CASE desktop = "windows" -> <<"pynput">>
    [] desktop = "wayland" -> <<"wtype", "ydotool", "xdotool">>
    [] desktop = "x11"     -> <<"xdotool", "wtype", "ydotool">>
    [] desktop = "unknown" -> <<"xdotool", "wtype", "ydotool", "pynput">>
Typing(desktop, tools) ==
  LET candidates == Candidates(desktop)
      found == {i \in DOMAIN candidates : candidates[i] \in tools}
  IN IF found = {} THEN NoOne
     ELSE candidates[CHOOSE i \in found : \A j \in found : i <= j]

\* default_session_factory; without wl-paste nothing is saved.
Session(desktop, tools) ==
  CASE desktop = "windows" -> "windows"
    [] desktop = "wayland" /\ "wl-copy" \in tools -> IF "wl-paste" \in tools THEN "blind" ELSE "none"
    [] desktop # "windows" /\ ~(desktop = "wayland" /\ "wl-copy" \in tools) ->
         IF "xclip" \in tools THEN "x11" ELSE IF "pyperclip" \in tools THEN "blind" ELSE "none"

Init ==
  /\ \E desktop \in {"windows", "x11", "wayland", "unknown"}, tools \in SUBSET Tools :
       /\ Typing(desktop, tools) # NoOne /\ plat = Session(desktop, tools)
       /\ plat = "none" => tools \cap {"wl-copy", "xclip", "pyperclip"} # {}
       \* Only xdotool is asked for the focused window.
       /\ plain \in IF Typing(desktop, tools) = "xdotool" THEN BOOLEAN ELSE {FALSE}
       /\ primary = (plain /\ "xclip" \in tools)
  /\ by \in Senders
  /\ clip = [s \in Sels |-> [own |-> "user", val |-> 0]]
  /\ caller = [c \in Callers |-> NoOne] /\ lock = NoOne
  /\ pc = [d \in Texts |-> "new"] /\ todo = [d \in Texts |-> <<>>]
  /\ snap = [d \in Texts |-> [s \in Sels |-> Empty]]
  /\ saved = [d \in Texts |-> FALSE] /\ wrote = [d \in Texts |-> {}]
  /\ served = [d \in Texts |-> FALSE] /\ rendered = [d \in Texts |-> FALSE]
  /\ keys = <<>>
  /\ last = [s \in Sels |-> 0] /\ got = [d \in Texts |-> NoOne]
  /\ sure = [d \in Texts |-> FALSE]
  /\ slips = {} /\ foreign = {} /\ excused = {}
  /\ copies = 0 /\ watches = 0 /\ faults = 0

Go(d, l) == pc' = [pc EXCEPT ![d] = l]
Goes(what) == what \in Faults /\ faults < MaxFaults /\ faults' = faults + 1
Own(s, d) == clip[s].own = d
SetClip(s, o, v) == clip' = [clip EXCEPT ![s] = [own |-> o, val |-> v]]
SelSet == {Selections[i] : i \in DOMAIN Selections}

-----------------------------------------------------------------------------
(* One paste.                                                                 *)

\* paste: a thread for the transaction; the caller waits for the keys.
Send(d) ==
  /\ pc[d] = "new" /\ caller[by[d]] = NoOne
  /\ caller' = [caller EXCEPT ![by[d]] = d]
  /\ Go(d, IF plat = "none" THEN "plain" ELSE "lock")
  /\ UNCHANGED <<fixed, clip, lock, todo, snap, saved, wrote, signal, keys, ghost, count>>

Lock(d) ==
  /\ pc[d] = "lock" /\ lock = NoOne
  /\ lock' = d /\ Go(d, "open")
  /\ UNCHANGED <<fixed, clip, caller, todo, snap, saved, wrote, signal, keys, ghost, count>>

\* ClipboardKeeperUnavailable: the caller pastes without saving.
Open(d, ok) ==
  /\ pc[d] = "open"
  /\ IF ok THEN Go(d, "save") /\ UNCHANGED <<lock, faults>>
     ELSE Goes("open") /\ Go(d, "plain") /\ lock' = NoOne
  /\ UNCHANGED <<fixed, clip, caller, todo, snap, saved, wrote, signal, keys, ghost, copies, watches>>

\* A tool that ends with an error has read an empty clipboard, as far as the
\* sessions of X11 and Wayland can tell.
ReadsEmpty == plat \in {"x11", "blind"}
Unread(blank) == IF blank = {} THEN UNCHANGED faults ELSE ReadsEmpty /\ Goes("snapshot")

\* Without a snapshot the text is pasted all the same and nothing is put back.
Snapshot(d, ok) ==
  /\ pc[d] = "save"
  /\ IF ok THEN \E blank \in SUBSET Sels :
                  /\ Unread(blank) /\ saved' = [saved EXCEPT ![d] = TRUE]
                  /\ snap' = [snap EXCEPT ![d] = [s \in Sels |-> IF s \in blank THEN Empty ELSE clip[s].val]]
     ELSE Goes("snapshot") /\ UNCHANGED <<snap, saved>>
  /\ todo' = [todo EXCEPT ![d] = Selections] /\ Go(d, "write")
  /\ UNCHANGED <<fixed, clip, caller, lock, wrote, signal, keys, ghost, copies, watches>>

\* The text the target could still read there.
Carried(s) == {d \in Texts : s = Pasted /\ clip[s].val = d /\ got[d] = NoOne}

\* An xclip that is ended because it is not ready may have taken the selection.
Untouched == UNCHANGED <<clip, excused, slips>>
Cleared(s) ==
  /\ plat = "x11" /\ SetClip(s, "none", Empty)
  /\ excused' = excused \cup {s} /\ slips' = slips \cup Carried(s)

\* write_text, one selection.  A copy made since the snapshot, or one the
\* snapshot could not read, is lost.
Write(d, ok) ==
  /\ pc[d] = "write" /\ todo[d] # <<>>
  /\ LET s == Head(todo[d]) IN
       IF ok THEN /\ SetClip(s, d, d) /\ wrote' = [wrote EXCEPT ![d] = @ \cup {s}]
                  /\ todo' = [todo EXCEPT ![d] = Tail(@)]
                  /\ excused' = IF saved[d] /\ snap[d][s] = clip[s].val THEN excused
                                ELSE excused \cup {s}
                  /\ slips' = slips \cup Carried(s)
                  /\ UNCHANGED <<pc, faults>>
       ELSE /\ Goes("write") /\ Go(d, "check") /\ UNCHANGED <<wrote, todo>>
            /\ Untouched \/ Cleared(s)
  /\ UNCHANGED <<fixed, caller, lock, snap, saved, signal, keys, last, got, foreign, sure, copies, watches>>

\* set_primary: a session that does not save PRIMARY has it carry the text.
AfterWrite(d) ==
  /\ pc[d] = "write" /\ todo[d] = <<>>
  /\ IF primary /\ ~HandlesPrimary
       THEN /\ SetClip("primary", "text", d) /\ excused' = excused \cup {"primary"}
            /\ slips' = slips \cup Carried("primary")
       ELSE /\ slips' = IF plain /\ ~primary THEN slips \cup {d} ELSE slips
            /\ UNCHANGED <<clip, excused>>
  /\ Go(d, "settle")
  /\ UNCHANGED <<fixed, caller, lock, todo, snap, saved, wrote, signal, keys, last, got, foreign, sure, count>>

\* mutant: a read from before the keys counts
BaselineKept(d) == served[d]

\* Reads up to here were not the target's.
Baseline(d) == FALSE

BeforePaste(d) ==
  /\ pc[d] = "settle"
  /\ served' = [served EXCEPT ![d] = Baseline(d)] /\ foreign' = foreign \ {d}
  /\ Go(d, "keys")
  /\ UNCHANGED <<fixed, clip, caller, lock, todo, snap, saved, wrote, rendered, keys, last, got, slips, sure, excused, count>>

\* mutant: the caller is told of success only
ReleaseSent(d) == caller' = [c \in Callers |-> IF caller[c] = d /\ pc[d] = "keys" THEN NoOne ELSE caller[c]]

\* The caller goes on as soon as the keys are out, or with the error.
Release(d) == caller' = [c \in Callers |-> IF caller[c] = d THEN NoOne ELSE caller[c]]

SendPaste(d, ok) ==
  /\ pc[d] = "keys"
  /\ IF ok THEN keys' = Append(keys, d) /\ Go(d, "wait") /\ Release(d) /\ UNCHANGED faults
     ELSE /\ Goes("keys") /\ Go(d, "check")
          /\ UNCHANGED <<keys, caller>>
  /\ UNCHANGED <<fixed, clip, lock, todo, snap, saved, wrote, signal, ghost, copies, watches>>

\* changed_since_write: on X11 every selection that was written must be gone.
\* Nothing written reads as "not changed" there and as "changed" elsewhere.
Lost(d, s) == ~Own(s, d)
Changed(d) == IF plat = "x11" THEN wrote[d] # {} /\ \A s \in wrote[d] : Lost(d, s)
              ELSE Lost(d, "clipboard")

\* _wait_for_read: a read was noticed, somebody copied, or the time is over.
WaitEnds(d) ==
  /\ pc[d] = "wait" /\ HasReadSignal /\ (served[d] \/ Changed(d))
  /\ Go(d, "check")
  /\ UNCHANGED <<fixed, clip, caller, lock, todo, snap, saved, wrote, signal, keys, ghost, count>>

WaitTimesOut(d) ==
  /\ pc[d] = "wait"
  /\ Go(d, "check") /\ slips' = slips \cup {d}
  /\ UNCHANGED <<fixed, clip, caller, lock, todo, snap, saved, wrote, signal, keys, last, got, foreign, sure, excused, count>>

\* After the wait, and after an error before the keys.
Check(d) ==
  /\ pc[d] = "check"
  /\ IF ~saved[d] \/ Changed(d)
       THEN Go(d, "close") /\ UNCHANGED todo
       ELSE Go(d, "restore") /\ todo' = [todo EXCEPT ![d] = Selections]
  /\ sure' = [sure EXCEPT ![d] = Own("clipboard", d)]
  /\ UNCHANGED <<fixed, clip, caller, lock, snap, saved, wrote, signal, keys, last, got, slips, foreign, excused, count>>

\* mutant: nobody looks again before the restore
SkipsNever(d, s) == FALSE

\* Windows looks again with the clipboard open, X11 at each selection; the
\* others write what they saved.
Skips(d, s) == plat \in {"windows", "x11"} /\ Lost(d, s)
\* Windows writes with the clipboard open; an empty selection comes back on
\* X11 by ending its owner.  Nobody can copy in between.
AtOnce(d, s) == plat = "windows" \/ (plat = "x11" /\ snap[d][s] = Empty)

RestoreNext(d) ==
  /\ pc[d] = "restore"
  /\ IF todo[d] = <<>> THEN Go(d, "close") /\ UNCHANGED <<todo, clip, sure>>
     ELSE LET s == Head(todo[d]) IN
       IF s \notin wrote[d] \/ Skips(d, s)
         THEN todo' = [todo EXCEPT ![d] = Tail(@)] /\ UNCHANGED <<pc, clip, sure>>
       ELSE IF AtOnce(d, s)
         THEN /\ SetClip(s, "kept", snap[d][s]) /\ todo' = [todo EXCEPT ![d] = Tail(@)]
              /\ UNCHANGED <<pc, sure>>
       ELSE /\ Go(d, "put") /\ UNCHANGED <<todo, clip>>
            /\ sure' = [sure EXCEPT ![d] = IF plat = "x11" THEN Own(s, d) ELSE @]
  /\ UNCHANGED <<fixed, caller, lock, snap, saved, wrote, signal, keys, last, got, slips, foreign, excused, count>>

\* A copy made since the session looked is overwritten.
Put(d) ==
  /\ pc[d] = "put"
  /\ LET s == Head(todo[d]) IN
       /\ SetClip(s, "kept", snap[d][s])
       /\ excused' = IF sure[d] /\ ~Own(s, d) THEN excused \cup {s} ELSE excused
       /\ slips' = slips \cup (Carried(s) \ {d})
  /\ todo' = [todo EXCEPT ![d] = Tail(@)] /\ Go(d, "restore")
  /\ UNCHANGED <<fixed, caller, lock, snap, saved, wrote, signal, keys, last, got, foreign, sure, count>>

\* The clipboard stays busy or the tool fails: what is left is not restored.
RestoreFails(d) ==
  /\ pc[d] \in {"restore", "put"} /\ todo[d] # <<>> /\ Goes("restore")
  /\ excused' = excused \cup {s \in Sels : Own(s, d)}
  /\ Go(d, "close")
  /\ UNCHANGED <<fixed, clip, caller, lock, todo, snap, saved, wrote, signal, keys, last, got, slips, foreign, sure, copies, watches>>

\* close ends the xclip processes, and the server clears what they still own.
Close(d) ==
  /\ pc[d] = "close"
  /\ clip' = [s \in Sels |-> IF plat = "x11" /\ Own(s, d)
                               THEN [own |-> "none", val |-> Empty] ELSE clip[s]]
  /\ lock' = NoOne /\ Release(d) /\ Go(d, "done")
  /\ slips' = slips \cup (IF clip'[Pasted] # clip[Pasted] THEN Carried(Pasted) ELSE {})
  \* What the transaction kept goes with it.
  /\ todo' = [todo EXCEPT ![d] = <<>>] /\ snap' = [snap EXCEPT ![d] = [s \in Sels |-> Empty]]
  /\ saved' = [saved EXCEPT ![d] = FALSE] /\ wrote' = [wrote EXCEPT ![d] = {}]
  /\ served' = [served EXCEPT ![d] = FALSE] /\ rendered' = [rendered EXCEPT ![d] = FALSE]
  /\ sure' = [sure EXCEPT ![d] = FALSE] /\ foreign' = foreign
  /\ UNCHANGED <<fixed, keys, last, got, excused, count>>

\* No session: the caller itself writes the text and sends the keys, without
\* the lock; the text stays on the clipboard.
PlainWrite(d, ok) ==
  /\ pc[d] = "plain"
  /\ IF ok THEN /\ clip' = [s \in Sels |-> IF s = "clipboard" \/ primary
                                            THEN [own |-> "text", val |-> d] ELSE clip[s]]
                /\ excused' = excused \cup {s \in Sels : s = "clipboard" \/ primary}
                /\ slips' = slips \cup Carried(Pasted) \cup (IF plain /\ ~primary THEN {d} ELSE {})
                /\ Go(d, "plainkeys") /\ UNCHANGED <<caller, faults>>
     ELSE Goes("write") /\ Release(d) /\ Go(d, "done") /\ UNCHANGED <<clip, excused, slips>>
  /\ UNCHANGED <<fixed, lock, todo, snap, saved, wrote, signal, keys, last, got, foreign, sure, copies, watches>>

PlainKeys(d, ok) ==
  /\ pc[d] = "plainkeys" /\ Release(d) /\ Go(d, "done")
  /\ IF ok THEN keys' = Append(keys, d) /\ UNCHANGED faults ELSE Goes("keys") /\ UNCHANGED keys
  /\ UNCHANGED <<fixed, clip, lock, todo, snap, saved, wrote, signal, ghost, copies, watches>>

-----------------------------------------------------------------------------
(* Everybody else.                                                            *)

\* The user copies something, or selects it.
Copy(s) ==
  /\ copies < MaxCopies /\ copies' = copies + 1
  /\ SetClip(s, "user", copies') /\ last' = [last EXCEPT ![s] = copies']
  /\ slips' = slips \cup Carried(s) /\ excused' = excused \ {s}
  /\ UNCHANGED <<fixed, caller, lock, job, signal, keys, got, foreign, sure, watches, faults>>

\* xclip counts every read; Windows asks for the text once, and the session
\* looks whether it is the focused program that asked.
ToldByXclip == plat = "x11"
ToldByWindows(d, target) == plat = "windows" /\ target /\ ~rendered[d]

\* What the owners of a selection notice of a read.
Noticed(s, target) ==
  LET owners == {j \in Texts : Own(s, j) /\ pc[j] # "done"}
  IN /\ served' = [j \in Texts |-> served[j] \/ (j \in owners /\ (ToldByXclip \/ ToldByWindows(j, target)))]
     /\ rendered' = [j \in Texts |-> rendered[j] \/ (plat = "windows" /\ j \in owners)]

\* The target handles the paste keys; or it does not paste at all.
TargetReads ==
  /\ keys # <<>> /\ keys' = Tail(keys)
  /\ LET d == Head(keys) IN
       /\ got' = [got EXCEPT ![d] = IF clip[Pasted].val = d THEN "right"
                                   ELSE IF d \in slips \cup foreign THEN "excused" ELSE "wrong"]
       /\ Noticed(Pasted, TRUE)
       /\ foreign' = (foreign \ {d}) \cup {j \in Texts \ {d} : served'[j] /\ ~served[j]}
       /\ slips' = slips \ {d}
  /\ UNCHANGED <<fixed, clip, caller, lock, job, last, sure, excused, count>>

TargetIgnores ==
  /\ keys # <<>> /\ keys' = Tail(keys)
  /\ UNCHANGED <<fixed, clip, caller, lock, job, signal, ghost, count>>

\* A clipboard manager reads a selection.
Watch(s) ==
  /\ watches < MaxWatches /\ watches' = watches + 1
  /\ Noticed(s, FALSE)
  /\ foreign' = foreign \cup {j \in Texts : served'[j] /\ ~served[j] /\ got[j] = NoOne}
  /\ UNCHANGED <<fixed, clip, caller, lock, job, keys, last, got, slips, sure, excused, copies, faults>>

Step(d) ==
  \/ Lock(d) \/ AfterWrite(d) \/ BeforePaste(d) \/ WaitEnds(d) \/ WaitTimesOut(d)
  \/ Check(d) \/ RestoreNext(d) \/ Put(d) \/ RestoreFails(d) \/ Close(d)
  \/ \E ok \in BOOLEAN : \/ Open(d, ok) \/ Snapshot(d, ok) \/ Write(d, ok) \/ SendPaste(d, ok)
                         \/ PlainWrite(d, ok) \/ PlainKeys(d, ok)

\* No paste is under way.
Idle == \A d \in Texts : pc[d] \in {"new", "done"}
Rest == Idle /\ UNCHANGED vars

Next ==
  \/ \E d \in Texts : Send(d) \/ Step(d)
  \/ \E s \in Sels : Copy(s) \/ Watch(s)
  \/ TargetReads \/ TargetIgnores \/ Rest

Spec == Init /\ [][Next]_vars
\* Threads run, and every wait of a session ends by its own time limit.
FairSpec == Spec /\ \A d \in Texts : WF_vars(Step(d))

-----------------------------------------------------------------------------
Inside == {"open", "save", "write", "settle", "keys", "wait", "check", "restore", "put", "close"}
Values == Copies \cup Texts \cup {Empty}

\* The shape of the state; one transaction at a time is inside the lock.
TypeOK ==
  /\ clip \in [Sels -> [own : Texts \cup {"user", "kept", "text", "none"}, val : Values]]
  /\ \A d \in Texts : pc[d] \in Inside <=> lock = d
  /\ \A d \in Texts : pc[d] \in Inside \cup {"new", "lock", "plain", "plainkeys", "done"}
  /\ \A d \in Texts : wrote[d] \subseteq SelSet /\ snap[d] \in [Sels -> Values]
  /\ got \in [Texts -> {NoOne, "right", "excused", "wrong"}] /\ caller \in [Callers -> Texts \cup {NoOne}]
  /\ excused \subseteq Sels /\ slips \cup foreign \subseteq Texts

\* When no paste is under way, each selection holds what the user last put
\* there.  Excused: the platform could not save or restore it, or the user
\* copied between a look at the clipboard and the write that follows it.
CopyKept ==
  Idle => \A s \in Sels : s \notin excused => clip[s].val = last[s]

\* The target pastes the text the keys were sent for, unless it was slower
\* than the time limit, somebody wrote the clipboard meanwhile, or another
\* program's read was taken for the target's.
TargetGetsText ==
  \A d \in Texts : got[d] # "wrong"

\* Transactions take turns and each delivers its own text.
KeeperInv == TypeOK /\ TargetGetsText

\* Whoever sends a text gets on with its work, whatever fails.
CallerReturns == \A c \in Callers : (caller[c] # NoOne) ~> (caller[c] = NoOne)
=============================================================================
