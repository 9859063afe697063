--------------------------- MODULE MCOrchestrator ---------------------------
(***************************************************************************)
(* Configuration files for TLC: what a file may say of a scenario.         *)
(***************************************************************************)
EXTENDS Orchestrator

\* A scenario of one endpoint: two ports from the offset on.
Small(type, register, pattern, offset, ms, sip) ==
  [type |-> type, register |-> register, pattern |-> pattern, offset |-> offset,
   ms |-> ms, sip |-> sip, calls |-> 1, secs |-> 1, duration |-> 0,
   endpoints |-> 1, total |-> 0, dnStart |-> 1]

\* Ports that meet, that follow one another or that are those of another server, and
\* the SIP socket of another scenario.
SmallConfig ==
  {Small(type, register, pattern, place[1], place[2], place[3]) :
     type \in {"client", "server"}, register \in {"no", "register", "unregister"},
     pattern \in BOOLEAN,
     place \in {<<1, 1, 1>>, <<2, 1, 2>>, <<3, 1, 2>>, <<2, 2, 2>>}}

\* Clients of 2 to 14 endpoints, at a broken rate, whose calls are short or not whole
\* seconds.
LoadConfig ==
  {[Small("client", "no", FALSE, 1, 1, 2) EXCEPT
     !.calls = calls, !.secs = secs, !.duration = duration,
     !.endpoints = 0, !.total = total] :
   calls \in {2, 10}, secs \in {3}, duration \in {400, 2500}, total \in {0, 4}}

\* Numbers that are as long as each other, or not.
NumbersConfig == {[c EXCEPT !.dnStart = 95] : c \in LoadConfig}

AnyConfig == SmallConfig \cup LoadConfig
=============================================================================
