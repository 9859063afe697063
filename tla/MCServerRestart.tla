--------------------------- MODULE MCServerRestart ---------------------------
(***************************************************************************)
(* Constants of ServerRestart for TLC.                                     *)
(***************************************************************************)
EXTENDS ServerRestart, TLC

Symmetry ==
  Permutations(Slot) \cup Permutations(Port) \cup Permutations(Dest)
    \cup Permutations(Pid)

SamePort == [port \in Port |-> port]
=============================================================================
