----------------------------- MODULE MCLibrary -----------------------------
(* Library for TLC: the dictations are alike, and so are the threads of the   *)
(* window.                                                                    *)
EXTENDS Library, TLC

Alike == Permutations(Dictations) \cup Permutations(Ui)
=============================================================================
