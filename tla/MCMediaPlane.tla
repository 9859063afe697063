---------------------------- MODULE MCMediaPlane ----------------------------
(***************************************************************************)
(* Constants of MediaPlane for TLC.                                        *)
(***************************************************************************)
EXTENDS MediaPlane, TLC

Symmetry ==
  Permutations(Slot) \cup Permutations(Port) \cup Permutations(Dest)
    \cup Permutations(Pid)

\* Every port has 16 bits, or they are all the same port modulo 65536 (for which
\* the ports are not alike, so that SYMMETRY has to go).
SamePort == [port \in Port |-> port]
Truncated == [port \in Port |-> CHOOSE x \in Port : TRUE]
=============================================================================
