---------------------------- MODULE Orchestrator ----------------------------
(***************************************************************************)
(* The SIPpScen orchestrator (SIPpScen/sippscen.py, sippscen_utils.py) and *)
(* the SIPp instances it runs: it prepares the scenarios of its            *)
(* configuration file, checks that they do not use the same ports,         *)
(* registers their numbers, spawns a SIPp process for each, sleeps until   *)
(* the end of the run, and stops the clients, then the servers, and        *)
(* unregisters the numbers.                                                *)
(*                                                                         *)
(* Everything runs on one thread; the coroutines that stop the processes   *)
(* take turns where they await.  The SIPp processes do as they like: one   *)
(* may end at any time, and may ignore what it is told.                    *)
(*                                                                         *)
(* An exception that nothing catches ends the orchestrator ("crashed"), as *)
(* sys.exit does ("exited"); the SIPp processes live on.                   *)
(***************************************************************************)
EXTENDS Scenarios

CONSTANTS
  N,             \* number of scenarios of the configuration file
  Config,        \* what the file may say of one
  Checks         \* number of times a process that was told to quit is looked
                 \* for, 5 s apart: (duration + 5) / 5, rounded up

ASSUME OrchestratorAssumption ==
  /\ N \in Nat \ {0}
  /\ Checks \in Nat \ {0}
  /\ \A c \in Config :
       /\ c.type \in {"client", "server"}
       /\ c.register \in {"no", "register", "unregister"}
       /\ c.pattern \in BOOLEAN
       /\ c.offset \in Nat /\ c.duration \in Nat
       /\ c.calls \in Nat \ {0} /\ c.secs \in Nat \ {0}
       /\ c.endpoints \in Nat /\ c.total \in Nat /\ c.dnStart \in Nat

\* The scenarios, in the order of the file, which is the order of all the loops.
Scenario == 1 .. N

VARIABLES
  config,          \* the file
  phase, at,       \* where main is; the scenario a loop is at
  claims, sockets, \* scenarios in port_ranges and in sip_sockets
  dScenarios, dRegistrations, dUnregistrations, patterns,
  registered,      \* scenarios with numbers known to the registrar
  pids,            \* scenarios with a "pid"
  sipp,            \* each SIPp process: what it has been told last
  stop, checks     \* where the coroutine stop_scenario is for each scenario

dicts == <<claims, sockets, dScenarios, dRegistrations, dUnregistrations, patterns>>
vars == <<config, phase, at, dicts, registered, pids, sipp, stop, checks>>

Ended == {"done", "exited", "crashed"}

Running == {"running", "quit", "term", "kill"}

TypeOK ==
  /\ config \in [Scenario -> Config]
  /\ phase \in {"prepare", "validate", "register", "start", "run", "clients",
                "servers", "unregister"} \cup Ended
  /\ at \in Scenario
  /\ claims \subseteq Scenario
  /\ sockets \subseteq claims
  /\ dScenarios \subseteq sockets
  /\ dRegistrations \subseteq sockets
  /\ dUnregistrations \subseteq dRegistrations \cap dScenarios
  /\ patterns \subseteq dScenarios
  /\ registered \subseteq dRegistrations
  /\ pids \subseteq dScenarios
  /\ sipp \in [Scenario -> {"none", "ended"} \cup Running]
  /\ \A s \in Scenario : sipp[s] # "none" <=> s \in pids
  /\ stop \in [Scenario -> {"none", "wait", "term", "termed", "kill", "killed", "returned"}]
  /\ checks \in [Scenario -> 0 .. Checks]

Init ==
  /\ config \in [Scenario -> Config]
  /\ phase = "prepare"
  /\ at = 1
  /\ claims = {}
  /\ sockets = {}
  /\ dScenarios = {}
  /\ dRegistrations = {}
  /\ dUnregistrations = {}
  /\ patterns = {}
  /\ registered = {}
  /\ pids = {}
  /\ sipp = [s \in Scenario |-> "none"]
  /\ stop = [s \in Scenario |-> "none"]
  /\ checks = [s \in Scenario |-> 0]

\* The loop goes on to the next scenario, and from the last one to a new phase.
NextScenario(newPhase) ==
  IF at = N
    THEN at' = 1 /\ phase' = newPhase
    ELSE at' = at + 1 /\ UNCHANGED phase

-----------------------------------------------------------------------------
(***************************************************************************)
(* Preparation.  An exception is caught for each scenario, which leaves    *)
(* behind what has been done for it by then.                               *)
(***************************************************************************)
\* Its media server does not answer, or something is wrong before its ports
\* are known.
PrepareSkips(s) ==
  /\ phase = "prepare" /\ at = s
  /\ NextScenario("validate")
  /\ UNCHANGED <<config, dicts, registered, pids, sipp, stop, checks>>

\* Something is wrong afterwards: its ports count in the validation, and its SIP
\* socket may.  If what goes wrong is the copy of the unregister file, it does, and
\* the scenario will be registered too.
PrepareFails(s) ==
  /\ phase = "prepare" /\ at = s
  /\ claims' = claims \cup {s}
  /\ sockets' \in {sockets, sockets \cup {s}}
  /\ dRegistrations' \in
       {dRegistrations} \cup
       (IF config[s].register = "unregister" /\ s \in sockets'
          THEN {dRegistrations \cup {s}} ELSE {})
  /\ NextScenario("validate")
  /\ UNCHANGED <<config, dScenarios, dUnregistrations, patterns, registered, pids,
                 sipp, stop, checks>>

\* A pattern that is not well-formed is left out.
Prepare(s) ==
  /\ phase = "prepare" /\ at = s
  /\ claims' = claims \cup {s}
  /\ sockets' = sockets \cup {s}
  /\ dScenarios' = dScenarios \cup {s}
  /\ dRegistrations' =
       IF config[s].register # "no" THEN dRegistrations \cup {s} ELSE dRegistrations
  /\ dUnregistrations' =
       IF config[s].register = "unregister"
         THEN dUnregistrations \cup {s} ELSE dUnregistrations
  /\ patterns' \in
       {patterns} \cup (IF config[s].pattern THEN {patterns \cup {s}} ELSE {})
  /\ NextScenario("validate")
  /\ UNCHANGED <<config, registered, pids, sipp, stop, checks>>

\* v.sort: the scenarios of one media server, by their first port.
Before(s, t) ==
  \/ First(config[s]) < First(config[t])
  \/ First(config[s]) = First(config[t]) /\ s < t

PortRanges(ms) == {s \in claims : config[s].ms = ms}

\* Mutant: a range that begins at the last port of another is let through.
OverlapByMore ==
  \E ms \in {config[s].ms : s \in claims} : \E s, t \in PortRanges(ms) :
    /\ Before(s, t)
    /\ \A u \in PortRanges(ms) : ~(Before(s, u) /\ Before(u, t))
    /\ First(config[t]) < Last(config[s])

\* check_overlap: a range begins before the one that precedes it ends.  Only
\* neighbours are compared.
Overlap ==
  \E ms \in {config[s].ms : s \in claims} : \E s, t \in PortRanges(ms) :
    /\ Before(s, t)
    /\ \A u \in PortRanges(ms) : ~(Before(s, u) /\ Before(u, t))
    /\ First(config[t]) <= Last(config[s])

\* check_no_duplicate: two scenarios use the same SIP socket.
Duplicate == \E s, t \in sockets : s # t /\ config[s].sip = config[t].sip

Validate ==
  /\ phase = "validate"
  /\ phase' = IF Overlap \/ Duplicate \/ dScenarios = {} THEN "exited" ELSE "register"
  /\ UNCHANGED <<config, at, dicts, registered, pids, sipp, stop, checks>>

\* It was a dry run, or telegraf did not start.
ExitEarly ==
  /\ phase = "validate"
  /\ phase' = "exited"
  /\ UNCHANGED <<config, at, dicts, registered, pids, sipp, stop, checks>>

-----------------------------------------------------------------------------
(***************************************************************************)
(* Registration and start.                                                 *)
(***************************************************************************)
\* The numbers are registered, if the scenario is one of dRegistrations.
Register(s) ==
  /\ phase = "register" /\ at = s
  /\ registered' = registered \cup ({s} \cap dRegistrations)
  /\ NextScenario("start")
  /\ UNCHANGED <<config, dicts, pids, sipp, stop, checks>>

\* Mutant: a registration that fails does not end the run.
RegisterFailsGoesOn(s) ==
  /\ phase = "register" /\ at = s /\ s \in dRegistrations
  /\ NextScenario("start")
  /\ UNCHANGED <<config, dicts, registered, pids, sipp, stop, checks>>

\* SIPp returned neither 0 nor 99; it may have registered some numbers.
RegisterFails(s) ==
  /\ phase = "register" /\ at = s /\ s \in dRegistrations
  /\ registered' \in {registered, registered \cup {s}}
  /\ phase' = "exited"
  /\ UNCHANGED <<config, at, dicts, pids, sipp, stop, checks>>

\* Mutant: the pid is not kept.
StartForgetsPid(s) ==
  /\ phase = "start" /\ at = s /\ s \in dScenarios
  /\ sipp' = [sipp EXCEPT ![s] = "running"]
  /\ NextScenario("run")
  /\ UNCHANGED <<config, dicts, registered, pids, stop, checks>>

Start(s) ==
  /\ phase = "start" /\ at = s /\ s \in dScenarios
  /\ sipp' = [sipp EXCEPT ![s] = "running"]
  /\ pids' = pids \cup {s}
  /\ NextScenario("run")
  /\ UNCHANGED <<config, dicts, registered, stop, checks>>

\* The process could not be spawned, or had ended 0.5 s later; or it is not one
\* of dScenarios.
StartFails(s) ==
  /\ phase = "start" /\ at = s
  /\ NextScenario("run")
  /\ UNCHANGED <<config, dicts, registered, pids, sipp, stop, checks>>

\* A SIPp process ends: it has done its calls, has been told to, or has failed.
Ends(s) ==
  /\ sipp[s] \in Running
  /\ sipp' = [sipp EXCEPT ![s] = "ended"]
  /\ UNCHANGED <<config, phase, at, dicts, registered, pids, stop, checks>>

-----------------------------------------------------------------------------
(***************************************************************************)
(* The run, of more than 0 ms, and its patterns.                           *)
(***************************************************************************)
\* Nothing runs, or there is no pattern and main sleeps until the end.
Run ==
  /\ phase = "run"
  /\ pids = {} \/ patterns = {}
  /\ phase' = "clients"
  /\ UNCHANGED <<config, at, dicts, registered, pids, sipp, stop, checks>>

\* main sleeps until the first timepoint of a pattern and calls title() with
\* three arguments, of which it takes two: a TypeError.  The rate is never set.
ChangeRate ==
  /\ phase = "run"
  /\ pids # {} /\ patterns # {}
  /\ phase' = "crashed"
  /\ UNCHANGED <<config, at, dicts, registered, pids, sipp, stop, checks>>

-----------------------------------------------------------------------------
(***************************************************************************)
(* terminate() and stop_scenario().                                        *)
(***************************************************************************)
\* Mutant: all the scenarios are stopped at once.
StoppingAll == IF phase \in {"clients", "servers"} THEN dScenarios ELSE {}

\* The scenarios that are being stopped.
Stopping ==
  {s \in dScenarios : \/ phase = "clients" /\ config[s].type = "client"
                      \/ phase = "servers" /\ config[s].type = "server"}

\* A coroutine that has found its process running signals it before any other
\* coroutine gets a turn; the processes do not wait for that.
Turn(s, where) ==
  /\ s \in Stopping
  /\ stop[s] = where
  /\ \A t \in Stopping \ {s} : stop[t] \notin {"term", "kill"}

StopStep(s, to) ==
  /\ stop' = [stop EXCEPT ![s] = to]
  /\ UNCHANGED <<config, phase, at, dicts, registered, pids>>

\* A scenario that did not start has no pid.
NoPid(s) ==
  /\ Turn(s, "none")
  /\ s \notin pids
  /\ StopStep(s, "returned")
  /\ UNCHANGED <<sipp, checks>>

\* "quit" by UDP, which may be lost.
Quit(s) ==
  /\ Turn(s, "none")
  /\ s \in pids
  /\ sipp' \in {sipp, [sipp EXCEPT ![s] = IF @ = "running" THEN "quit" ELSE @]}
  /\ checks' = [checks EXCEPT ![s] = Checks]
  /\ StopStep(s, "wait")

\* Mutant: the process is waited for as long as it takes.
CheckForever(s) ==
  /\ Turn(s, "wait")
  /\ StopStep(s, IF sipp[s] \in Running THEN "wait" ELSE "returned")
  /\ UNCHANGED <<sipp, checks>>

\* The process is looked for after every 5 s.
Check(s) ==
  /\ Turn(s, "wait")
  /\ checks' = [checks EXCEPT ![s] = @ - 1]
  /\ StopStep(s, IF sipp[s] \notin Running THEN "returned"
                 ELSE IF checks[s] > 1 THEN "wait" ELSE "term")
  /\ UNCHANGED sipp

\* os.kill: a process that has ended since it was last seen is an exception,
\* which cancels the other coroutines and is caught nowhere.
Kill(s, signal, to) ==
  /\ Turn(s, signal)
  /\ IF sipp[s] \in Running
       THEN /\ sipp' = [sipp EXCEPT ![s] = signal]
            /\ StopStep(s, to)
       ELSE /\ phase' = "crashed"
            /\ UNCHANGED <<config, at, dicts, registered, pids, sipp, stop>>
  /\ UNCHANGED checks

Sigterm(s) == Kill(s, "term", "termed")

\* Mutant: a process that has been sent SIGTERM is taken for gone.
CheckTermTrusts(s) ==
  /\ Turn(s, "termed")
  /\ StopStep(s, "returned")
  /\ UNCHANGED <<sipp, checks>>

CheckTerm(s) ==
  /\ Turn(s, "termed")
  /\ StopStep(s, IF sipp[s] \in Running THEN "kill" ELSE "returned")
  /\ UNCHANGED <<sipp, checks>>

Sigkill(s) == Kill(s, "kill", "killed")

\* True or False is returned, which nobody looks at.
CheckKill(s) ==
  /\ Turn(s, "killed")
  /\ StopStep(s, "returned")
  /\ UNCHANGED <<sipp, checks>>

StopScenario(s) ==
  \/ NoPid(s) \/ Quit(s) \/ Check(s) \/ Sigterm(s) \/ CheckTerm(s)
  \/ Sigkill(s) \/ CheckKill(s)

\* gather() is complete.
Terminated ==
  /\ phase \in {"clients", "servers"}
  /\ \A s \in Stopping : stop[s] = "returned"
  /\ phase' = IF phase = "clients" THEN "servers" ELSE "unregister"
  /\ UNCHANGED <<config, at, dicts, registered, pids, sipp, stop, checks>>

\* A failure is reported, and no more.
Unregister(s) ==
  /\ phase = "unregister" /\ at = s
  /\ registered' \in {registered, registered \ ({s} \cap dUnregistrations)}
  /\ NextScenario("done")
  /\ UNCHANGED <<config, dicts, pids, sipp, stop, checks>>

Main(s) ==
  \/ PrepareSkips(s) \/ PrepareFails(s) \/ Prepare(s)
  \/ Register(s) \/ RegisterFails(s) \/ Start(s) \/ StartFails(s)
  \/ StopScenario(s) \/ Unregister(s)

MainNext ==
  \/ \E s \in Scenario : Main(s)
  \/ Validate \/ ExitEarly \/ Run \/ ChangeRate \/ Terminated

Next == MainNext \/ \E s \in Scenario : Ends(s)

Spec == Init /\ [][Next]_vars

\* The orchestrator runs, and the SIPp processes it waits for (those that
\* register) end.  Nothing says that a process ends because it is told to.
FairSpec == Spec /\ WF_vars(MainNext)

-----------------------------------------------------------------------------
(***************************************************************************)
(* Properties.                                                             *)
(***************************************************************************)
\* No server is told to stop while there are clients that can call it: every
\* client has ended, or has been sent SIGKILL in vain.
ClientsStopFirst ==
  \A s, c \in dScenarios :
    /\ config[s].type = "server" /\ stop[s] # "none"
    /\ config[c].type = "client"
    => sipp[c] \in {"none", "ended", "kill"}

\* Scenarios that run share no port of a media server, and no SIP socket, whatever
\* has failed in their preparation.
PortsDisjoint ==
  \A s, t \in pids : s # t =>
    /\ config[s].sip # config[t].sip
    /\ \/ config[s].ms # config[t].ms
       \/ Last(config[s]) < First(config[t]) \/ Last(config[t]) < First(config[s])

\* A port, or a number, is used again more than a second after the call that had it
\* is due to end, if calls start at the rate and take as long as they should: the
\* duration has been cut to whole seconds, and so has the rest of the gap.  (Call k
\* starts k * c.secs / c.calls seconds after the first one.)  Nothing says so where
\* number-endpoints limits the endpoints.
NumbersRest ==
  phase = "validate" => \A s \in claims :
    LET c == config[s]
        n == NPorts(c)
    IN  c.endpoints = 0 =>
          \A k, m \in 0 .. (IF c.total # 0 THEN c.total - 1 ELSE 2 * n) :
            k < m /\ k % n = m % n =>
              (m - k) * c.secs * 1000 > c.calls * (c.duration + 1000)

\* A scenario that registers its numbers is registered when it starts calling.
RegisteredFirst ==
  \A s \in pids : config[s].register # "no" /\ phase # "unregister" /\ phase # "done"
    => s \in registered

\* Numbers are unregistered when nothing uses them any more: every process that
\* was started has ended, or has been sent SIGKILL in vain.
StoppedBeforeUnregistering ==
  phase \in {"unregister", "done"} =>
    \A s \in pids : sipp[s] \in {"ended", "kill"}

\* The orchestrator comes to an end, whatever the processes do.
Terminates == <>(phase \in Ended)

-----------------------------------------------------------------------------
(***************************************************************************)
(* What the documentation says and the code does not do.                   *)
(***************************************************************************)
\* The processes are stopped "at the end of the run" (README.md:120), but for
\* those that survive SIGKILL.
StoppedAtEnd ==
  phase \in Ended => \A s \in pids : sipp[s] \in {"ended", "kill"}

\* The numbers that are written for a scenario are those that are announced, start ..
\* start+n-1 (sippscen.py:232), and that README.md:177 lets one expect.  They are
\* others if the number past the last one has more digits than the first one.
DnsAsAnnounced ==
  phase = "validate" => \A s \in claims :
    LET start == config[s].dnStart
        n == NPorts(config[s])
    IN  \A k \in 0 .. n - 1 : Dn(start, n, k) = Digits(start + k)

\* "Servers will start up first, followed by the Clients" (README.md:120).  They
\* start in the order of the file.
ServersStartFirst ==
  \A s, c \in dScenarios :
    config[s].type = "server" /\ config[c].type = "client" /\ c \in pids
      => phase # "start" \/ at > s

\* Those that register "finally unregister themselves, at the end of the run"
\* (README.md:182), if they have an unregister-file.
UnregisteredAtEnd ==
  phase = "exited" => \A s \in registered : config[s].register # "unregister"
=============================================================================
