------------------------------ MODULE Scenarios -------------------------------
(***************************************************************************)
(* What the orchestrator computes from the description of a scenario       *)
(* (SIPpScen/sippscen.py:189-232, sippscen_utils.py): how many media       *)
(* endpoints and numbers it needs, the ports and the numbers it gives to   *)
(* its calls.  SIPp takes them in turn: the call k uses those of line      *)
(* k % n of its files.                                                     *)
(*                                                                         *)
(* A rate "cps" is a ratio: c.calls in c.secs seconds.  A number is the    *)
(* sequence of its digits, as it is printed.                               *)
(***************************************************************************)
EXTENDS Naturals, Sequences

INTERCALL_GAP_SEC == 2

CeilDiv(a, b) == (a + b - 1) \div b

\* int(call_duration / 1_000)
Seconds(c) == c.duration \div 1000

\* Mutant: the gap is a second too short.
NPortsShortGap(c) ==
  LET needed == CeilDiv(c.calls * (Seconds(c) + INTERCALL_GAP_SEC - 1), c.secs)
      n == IF c.endpoints # 0 THEN c.endpoints ELSE needed
  IN  IF c.total # 0 /\ c.total < n THEN c.total ELSE n

\* n_ports: number-endpoints or, if there is none, what the rate needs; and no more
\* than total-calls, if there is a total.
NPorts(c) ==
  LET needed == CeilDiv(c.calls * (Seconds(c) + INTERCALL_GAP_SEC), c.secs)
      n == IF c.endpoints # 0 THEN c.endpoints ELSE needed
  IN  IF c.total # 0 /\ c.total < n THEN c.total ELSE n

\* The ports of a scenario, two for each endpoint.
First(c) == c.offset

Last(c) == c.offset + 2 * NPorts(c) - 1

-----------------------------------------------------------------------------
(***************************************************************************)
(* The numbers.                                                            *)
(***************************************************************************)
\* The powers of ten.
TenTo[d \in Nat] == IF d = 0 THEN 1 ELSE 10 * TenTo[d - 1]

\* How many digits n has.
NDigits(n) == CHOOSE d \in 1 .. n + 1 : n < TenTo[d] /\ (d = 1 \/ n >= TenTo[d - 1])

\* n printed with %0{width}d.
Printed(n, width) ==
  LET d == IF NDigits(n) > width THEN NDigits(n) ELSE width
  IN  [i \in 1 .. d |-> (n \div TenTo[d - i]) % 10]

Digits(n) == Printed(n, 1)

\* dn_prefix: the first position, from 0, where the digits of the first number and
\* of the one past the last number differ; or the last one they both have, if they
\* do not differ as far as the shorter of the two goes.
PrefixLength(start, n) ==
  LET a == Digits(start)
      b == Digits(start + n)
      differ == {i \in 1 .. Len(a) : a[i] # b[i]}
  IN  IF differ = {} THEN Len(a) - 1
                     ELSE (CHOOSE i \in differ : \A j \in differ : i <= j) - 1

\* The digits that change.
SuffixLength(start, n) == Len(Digits(start + n)) - PrefixLength(start, n)

\* The number on line k of the file, from 0: {prefix}%0{length}d of offset + k.
Dn(start, n, k) ==
  SubSeq(Digits(start), 1, PrefixLength(start, n))
    \o Printed((start % TenTo[SuffixLength(start, n)]) + k, SuffixLength(start, n))

=============================================================================
