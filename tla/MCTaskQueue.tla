---------------------------- MODULE MCTaskQueue -----------------------------
(***************************************************************************)
(* Constants of TaskQueue for TLC: the server starts two HTTP threads.     *)
(***************************************************************************)
EXTENDS TaskQueue, TLC

Symmetry == Permutations(Http)
=============================================================================
