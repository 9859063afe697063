-------------------------- MODULE MCMediaEndpoint ---------------------------
(***************************************************************************)
(* Durations for TLC, in milliseconds: below 500 the timeout of an endpoint*)
(* is rounded down to 0 seconds.                                           *)
(***************************************************************************)
EXTENDS MediaEndpoint

Long == {500, 10000}
Short == {499}
Any == {0, 499, 500, 10000}
=============================================================================
