----------------------------- MODULE UpdateLife -----------------------------
(* What the in-app update of a Linux package promises, without its threads:   *)
(* one update at a time, fetched, offered, installed on a second request.     *)
(* What was offered is what is installed, a package on offer is not withdrawn *)
(* by an old failure, and only a new engine forgets an installed one.         *)
CONSTANTS Versions, NoVersion
VARIABLES stage, target
vars == <<stage, target>>

Init == stage = "none" /\ target = NoVersion

Begin == stage \in {"none", "failed"} /\ stage' = "fetching" /\ target' = NoVersion
UpToDate == stage = "fetching" /\ stage' = "none" /\ UNCHANGED target
Offer == stage = "fetching" /\ stage' = "ready" /\ target' \in Versions
Install == stage = "ready" /\ stage' = "installing" /\ UNCHANGED target
Finish == stage = "installing" /\ stage' = "installed" /\ UNCHANGED target
Fail == stage \in {"fetching", "installing"} /\ stage' = "failed" /\ target' = NoVersion
NewEngine == stage' = "none" /\ target' = NoVersion

Next == Begin \/ UpToDate \/ Offer \/ Install \/ Finish \/ Fail \/ NewEngine

Spec == Init /\ [][Next]_vars
=============================================================================
