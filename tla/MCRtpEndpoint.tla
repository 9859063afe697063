--------------------------- MODULE MCRtpEndpoint ----------------------------
(***************************************************************************)
(* Durations for TLC, in milliseconds: below 500 the timeout of an endpoint*)
(* is rounded down to 0 seconds.                                           *)
(***************************************************************************)
EXTENDS RtpEndpoint

Long == {500}
Any == {0, 499, 500}

\* Short and long delays, and one beyond the limit.
SomeDelays == {0, 177, 178, 796, 2000}
=============================================================================
