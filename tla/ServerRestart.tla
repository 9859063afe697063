---------------------------- MODULE ServerRestart -----------------------------
(***************************************************************************)
(* A media server that is killed, or fails, and is started again while its *)
(* endpoints live on: each has a session of its own (setsid).  The segment *)
(* of the registry outlives the server, with the mutex as it was; the next *)
(* server maps it and calls initialize(), whoever else uses it.            *)
(*                                                                         *)
(* The steps are those of MediaPlane, but that an endpoint takes the mutex *)
(* in a step of its own: initialize(), which takes none, may come between  *)
(* the lock and the unlock, and so may the end of the process, when its    *)
(* second thread fails while the first one has the mutex.                  *)
(*                                                                         *)
(* What glibc and the code leave undefined is undefined here.  A thread    *)
(* that sleeps on a mutex that is initialised may never wake up (stuck).   *)
(* When a section of an endpoint meets initialize(), the count and the     *)
(* links of the list may be anything, and two threads may work on it at a  *)
(* time (torn): the specification stops there, and promises nothing of     *)
(* what follows.  A server that dies within initialize(), and a stop by    *)
(* SIGINT, after which the segment is removed, are not modelled.           *)
(***************************************************************************)
EXTENDS MediaPlane

CONSTANT
  MaxCrashes     \* bound: deaths of the server

ASSUME RestartAssumption == MaxCrashes \in Nat

VARIABLES
  server,        \* is it down, in initialize(), or up
  crashes,       \* how often it has died
  orphan,        \* processes of an earlier server
  stuck,         \* processes that sleep on the mutex for ever
  inside,        \* the endpoint that has the mutex, if one has
  lost,          \* who has ended with the mutex: nobody, a server, an endpoint
  torn           \* has a section of an endpoint met initialize()

faultVars == <<server, crashes, orphan, stuck, inside, lost, torn>>
restartVars == <<vars, faultVars>>

\* Where the main thread of an endpoint waits for the mutex, or has it.
Section == {"fetch", "remove"}

MutexFree == worker = "idle" /\ inside = {} /\ lost = "nobody"

\* As TypeOK of MediaPlane, but that a port may have become -1, in a node that is
\* not in the list and from there in a configuration.
AnyPort(S) == S \cup {[d EXCEPT !.port = NoPort] : d \in S}

RestartTypeOK ==
  /\ used \in SUBSET Slot
  /\ node \in [Slot -> AnyPort(Data) \cup {Blank}]
  /\ \A s \in used : node[s] \in Data
  /\ worker \in WorkerState
  /\ worker = "signal" <=> found \in Slot
  /\ worker = "add" <=> child \in Pid
  /\ main \in [Pid -> Serving \cup {"exit"} \cup Zombie \cup {"none"}]
  /\ conf \in [Pid -> AnyPort(Request) \cup {Blank}]
  /\ \A p \in Pid : ptr[p] # NoSlot => node[ptr[p]] # Blank
  /\ server \in {"down", "init", "up"}
  /\ crashes \in 0 .. MaxCrashes
  /\ orphan \in SUBSET {p \in Pid : main[p] # "none"}
  /\ stuck \in SUBSET {p \in Pid : main[p] \in Section}
  /\ inside \in SUBSET {p \in Pid \ stuck : main[p] \in Section}
  /\ lost \in {"nobody", "server", "endpoint"}
  /\ torn \in BOOLEAN

RestartInit ==
  /\ Init
  /\ server = "up"
  /\ crashes = 0
  /\ orphan = {}
  /\ stuck = {}
  /\ inside = {}
  /\ lost = "nobody"
  /\ torn = FALSE

-----------------------------------------------------------------------------
(***************************************************************************)
(* The server dies, and is started again.                                  *)
(***************************************************************************)
\* If the worker has the mutex it is not unlocked.
Crash ==
  /\ server = "up"
  /\ crashes < MaxCrashes
  /\ server' = "down"
  /\ crashes' = crashes + 1
  /\ orphan' = {p \in Pid : main[p] # "none"}
  /\ lost' = IF worker = "idle" THEN lost ELSE "server"
  /\ WorkerDone
  /\ sigchld' = [pending |-> FALSE, reaping |-> FALSE]
  /\ UNCHANGED <<registryVars, endpointVars, stuck, inside, torn>>

\* Processes that wait for the mutex.
Waiting == {p \in Pid \ inside : main[p] \in Section /\ ~MutexFree}

\* Mutant: the mutex is initialised by the first server only.
InitMutexOnce ==
  /\ torn' = (inside # {})
  /\ UNCHANGED <<stuck, lost>>

\* The mutex of the segment is initialised, whoever has it; threads that sleep on it
\* are not woken.
InitMutex ==
  /\ \E sleeping \in SUBSET Waiting : stuck' = stuck \cup sleeping
  /\ lost' = "nobody"
  /\ torn' = (inside # {})

\* Mutant: a list that is there already is kept.
KeepList == UNCHANGED used

EmptyList == used' = {}

\* initialize() begins.  The list counts as empty from here on; what is read of it
\* before the end is up to FetchWhileInit.
InitBegins ==
  /\ server = "down"
  /\ InitMutex
  /\ EmptyList
  /\ server' = "init"
  /\ UNCHANGED <<node, workerVars, endpointVars, sigchld, crashes, orphan, inside>>

\* initialize() ends.  The data of the nodes stay, but for the ports of all nodes
\* except the last one.
InitEnds ==
  /\ server = "init"
  /\ \E last \in Slot :
       node' = [s \in Slot |-> IF s = last THEN node[s]
                               ELSE [node[s] EXCEPT !.port = NoPort]]
  /\ server' = "up"
  /\ UNCHANGED <<used, workerVars, endpointVars, sigchld, crashes, orphan, stuck,
                 inside, lost, torn>>

\* Process 1 reaps what the server cannot.
InitReaps(p) ==
  /\ p \in orphan
  /\ main[p] \in Zombie
  /\ main' = [main EXCEPT ![p] = "none"]
  /\ orphan' = orphan \ {p}
  /\ UNCHANGED <<registryVars, workerVars, conf, ptr, pending, sock, sigchld, server,
                 crashes, stuck, inside, lost, torn>>

-----------------------------------------------------------------------------
(***************************************************************************)
(* The steps of MediaPlane.                                                *)
(***************************************************************************)
\* An idle worker needs the mutex for its next step.
WorkerStep ==
  /\ server = "up"
  /\ worker = "idle" => MutexFree
  /\ WorkerNext
  /\ UNCHANGED faultVars

SigchldStep ==
  /\ server = "up"
  /\ HandleSigchld
  /\ UNCHANGED faultVars

\* waitpid knows nothing of the children of another server.
ReapOwn(p) ==
  /\ server = "up"
  /\ p \notin orphan
  /\ Reap(p)
  /\ UNCHANGED faultVars

ReapOwnDone ==
  /\ server = "up"
  /\ sigchld.reaping
  /\ \A p \in Pid \ orphan : main[p] \notin Zombie
  /\ sigchld' = [sigchld EXCEPT !.reaping = FALSE]
  /\ UNCHANGED <<registryVars, workerVars, endpointVars, faultVars>>

\* Mutant: the mutex is tried and not waited for.
LockIfFree(p) ==
  /\ main[p] \in Section
  /\ p \notin inside \cup stuck
  /\ inside' = IF MutexFree THEN {p} ELSE inside
  /\ main' = IF MutexFree THEN main ELSE [main EXCEPT ![p] = "copy"]
  /\ UNCHANGED <<registryVars, workerVars, conf, ptr, pending, sock, sigchld,
                 server, crashes, orphan, stuck, lost, torn>>

\* Whatever relinks nodes while initialize() does, or looks for the port -1 that it
\* writes, is undefined.
Lock(p) ==
  /\ main[p] \in Section
  /\ p \notin stuck
  /\ MutexFree
  /\ inside' = {p}
  /\ torn' = (server = "init" /\ (main[p] = "remove" \/ conf[p].port = NoPort))
  /\ UNCHANGED <<vars, server, crashes, orphan, stuck, lost>>

\* fetch_element while initialize() writes: nothing, or any node that still has the
\* port, in the list or not.
FetchWhileInit(p) ==
  /\ main[p] = "fetch"
  /\ \E s \in {NoSlot} \cup {t \in Slot : node[t].port = conf[p].port} :
       ptr' = [ptr EXCEPT ![p] = s]
  /\ main' = [main EXCEPT ![p] = "copy"]
  /\ UNCHANGED <<registryVars, workerVars, conf, pending, sock, sigchld>>

\* What p does with the mutex, and the unlock.
LockedStep(p) ==
  /\ p \in inside
  /\ IF server = "init" THEN FetchWhileInit(p) ELSE SectionNext(p)
  /\ inside' = {}
  /\ UNCHANGED <<server, crashes, orphan, stuck, lost, torn>>

\* The second thread may end a process whose first one is stuck, or has the mutex.
\* An orphan that exits raises SIGCHLD for a server too, whose handler then finds
\* nothing.
EndpointStep(p) ==
  /\ OutsideNext(p)
  /\ IF main[p] \in Section /\ main'[p] \in Zombie
     THEN /\ stuck' = stuck \ {p}
          /\ inside' = inside \ {p}
          /\ lost' = IF p \in inside THEN "endpoint" ELSE lost
     ELSE UNCHANGED <<stuck, inside, lost>>
  /\ UNCHANGED <<server, crashes, orphan, torn>>

RestartNext ==
  /\ ~torn
  /\ \/ Crash \/ InitBegins \/ InitEnds
     \/ WorkerStep \/ SigchldStep \/ ReapOwnDone
     \/ \E p \in Pid :
          \/ ReapOwn(p) \/ InitReaps(p)
          \/ Lock(p) \/ LockedStep(p) \/ EndpointStep(p)

RestartSpec == RestartInit /\ [][RestartNext]_restartVars

\* What a server does that is not waiting for a request or for a signal.
ServerRuns == InitEnds \/ (worker # "idle" /\ WorkerStep)

\* What the main thread of p does that is not waiting for the mutex or for a signal.
MainRuns(p) ==
  \/ LockedStep(p)
  \/ (TakeSignal(p) \/ Copy(p) \/ CopyRest(p)) /\ EndpointStep(p)

\* Threads that run are scheduled, a pending SIGCHLD is delivered, who has exited is
\* reaped by its parent or by process 1, and a thread that waits for the mutex gets it
\* if it is free again and again (the worker lets it go between two requests).  Nothing
\* says that requests come, that an endpoint times out, that its second thread ends,
\* that anything fails, or that a server that has died is started again; and nobody
\* wakes a process that is stuck.
RestartFairness ==
  /\ WF_restartVars(ServerRuns)
  /\ WF_restartVars(SigchldStep)
  /\ \A p \in Pid :
       /\ WF_restartVars(ReapOwn(p) \/ InitReaps(p))
       /\ SF_restartVars(Lock(p))
       /\ WF_restartVars(MainRuns(p))

FairRestartSpec == RestartSpec /\ RestartFairness

-----------------------------------------------------------------------------
(***************************************************************************)
(* Properties, up to the moment at which a section of an endpoint meets    *)
(* initialize().                                                           *)
(***************************************************************************)
\* A server that has been started again does not take the processes of its
\* predecessor for its own: it signals, and forgets, only what it has launched.
EntriesAreOwn == server = "up" => \A s \in used : node[s].pid \notin orphan

\* As long as no endpoint works on the list while it is initialised, the entry of an
\* endpoint that serves is lost in two ways only: the list is initialised, or an
\* endpoint leaves that has no entry any more, and takes that of its successor at the
\* port.
OnlyTheUntrackedTake ==
  [][\A s \in used \ used' :
       \/ server = "down"
       \/ main[node[s].pid] \in {"none", "remove"}
       \/ \E p \in Pid : /\ main[p] = "remove" /\ main'[p] = "exit"
                         /\ conf[p].port = node[s].port /\ EntryOf(p) = {}]_restartVars

\* When a server comes up again, as often as it dies, the mutex that its predecessor
\* died with keeps no endpoint from leaving for ever, but for those that slept on it
\* when it was initialised.  That no endpoint ends with the mutex is assumed: nobody
\* would get it again.
LeaveCompletes ==
  []<>(server = "up") /\ []<>(lost # "endpoint") =>
     \A p \in Pid : main[p] = "remove" ~> main[p] \notin Serving \/ p \in stuck \/ torn

\* When the requests to the last server stop, every endpoint of its registry that
\* still serves ends up running with what the registry says.
Agrees(p) == \A s \in EntryOf(p) :
  conf[p].dest = node[s].dest /\ conf[p].duration = node[s].duration

EventuallyConsistent ==
  <>[](server = "up" /\ worker = "idle") /\ [](lost # "endpoint" /\ ~torn) =>
     <>[](\A p \in Pid : main[p] \in {"wait", "fetch", "copy", "copyRest"} => Agrees(p))

\* A process that exits is reaped, and its pid can be used again, also if the server
\* dies before its handler of SIGCHLD has run or has come to an end.
ZombiesReaped == \A p \in Pid : main[p] \in Zombie ~> main[p] = "none" \/ torn

-----------------------------------------------------------------------------
(***************************************************************************)
(* What nothing in the code provides for.                                  *)
(***************************************************************************)
\* The registry "keeps track of the already active Media endpoints" (README.md:16).
\* It is empty after a restart, while the endpoints go on; they hold their ports
\* and take the entries of their successors.
ActiveAreTracked == server = "up" => LiveRegistered

\* An endpoint keeps the port it was started with.  One that copies its node while
\* it is initialised ends up with port -1, under which it is never found again.
KeepsItsPort == \A p \in Pid : main[p] \in Serving => conf[p].port \in Port

\* The list is initialised while nobody works on it.  initialize() takes no lock, and
\* makes anew a mutex that an endpoint of an earlier server may have: a removal may
\* then count down from 0, or close the chain, and entries are lost in a third way.
InitialisedAlone == ~torn

\* Who ends does not have the mutex.  The second thread of an endpoint calls _exit(1)
\* (media_endpoint.cpp:104) whatever the first one does: if it looks for its entry then,
\* the worker and all endpoints wait for ever.
EndsWithoutMutex == lost # "endpoint"
=============================================================================
