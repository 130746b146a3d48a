------------------------------ MODULE MCDaemon ------------------------------
(* Daemon with small sets for TLC.  Two clients of the UI server behave alike. *)
EXTENDS Daemon, TLC

Clients == Permutations(UIs)
=============================================================================
