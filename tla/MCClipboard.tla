---------------------------- MODULE MCClipboard ----------------------------
(* Clipboard for TLC.  Texts are alike, so one assignment of two texts to the *)
(* two callers is enough; the other one has the worker send both.             *)
EXTENDS Clipboard, TLC

CONSTANTS t1, t2
MCSenders == {[d \in Texts |-> "worker"], t1 :> "worker" @@ t2 :> "dialog"}
=============================================================================
