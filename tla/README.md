# SIPpScen in TLA+

SIPpScen runs scenarios of SIP calls with real audio: an orchestrator
(`SIPpScen/sippscen.py`) spawns SIPp instances, whose call flows ask *media servers*
over HTTP for RTP endpoints; a media server (`src/media_server.cpp`) spawns a *media
endpoint* process (`src/media_endpoint.cpp`) for each local port, or asks the one that
serves the port to work with a new remote address. Server and endpoints share a
*registry* in POSIX shared memory (`src/shared_list.cpp`).

This directory specifies those parts, model-checks them on small instances with TLC and
proves the safety properties with TLAPS for every value of the constants. Line
numbers are those of the commit in `src/`.
Paths below are relative to the repository.

1. [Inventory](#1-inventory)
2. [Modules](#2-modules)
3. [Runs](#3-runs)
4. [Fairness](#4-fairness)
5. [Proofs](#5-proofs)
6. [Where the code does not do what is said](#6-where-the-code-does-not-do-what-is-said)
7. [Abstractions and what is not modelled](#7-abstractions-and-what-is-not-modelled)
8. [What is left](#8-what-is-left)

## 1. Inventory

| Component | Source | State | Operations | Interacts with |
|---|---|---|---|---|
| Registry (shared list) | `src/shared_list.cpp`, `h/shared_list.h` | array of nodes, one chain, `head`, `count`, a process-shared mutex | initialize, add, update, remove and fetch by port, print, lock and unlock | server's worker and `/status`, every endpoint |
| Media server: worker | `media_server.cpp:37-154` | one request, a pointer into the registry, a child's pid; the kernel's processes | fetch-or-launch; SIGCHLD handler | registry; SIGRTMIN to endpoints; fork/exec |
| Media server: threads | `media_server.cpp:30-33,103-226,242-310` | `taskQueue`, `queueMutex`, `queueCV`, `b_running` | HTTP handlers, worker's wait, SIGINT handler, `pause()` and join in main | SIPp (HTTP), the kernel |
| Media endpoint: main | `media_endpoint.cpp:109-246` | `conf`, a pointer into the registry, pending SIGRTMIN, the timeout | wait for a signal or time out, fetch and copy, leave | registry, worker, `endpoint_thread` |
| Media endpoint: `endpoint_thread` | `media_endpoint.cpp:53-106` | `cv_m`, `cv`, `b_running`, shared `conf` | one stream for each wake-up (client), one for good (server) | main, RTP endpoint |
| RTP endpoint | `rtp_endpoint.cpp` | transport (socket), remote address, last stream, master port, statistics | create, start and stop streams, MOS | `endpoint_thread`, the network |
| InfluxDB client | `influxdb_client.cpp` | connected or not | send a measurement | made and deleted by main, used by `endpoint_thread` |
| Orchestrator | `SIPpScen/sippscen.py` | scenario, registration and pattern tables, pids | prepare, validate, register, start, run, stop, unregister | SIPp processes, registrar |
| Process control, helpers | `SIPpScen/sippscen_utils.py` | none of its own | spawn, check a pid, stop with quit/SIGTERM/SIGKILL, compare ports and sockets, split numbers | orchestrator, SIPp processes |
| Call flows | `SIPpScen/scenarios/*` | SIPp's | generated XML | media servers |
| Configuration, packaging, test programs | `server.conf`, `debian/`, `telegraf/`, `elk-files/`, `src/test_*.cpp` | none | none | |

What is hard in it, and what makes it right:

* **Worker, registry and endpoint processes.** The worker holds the list's mutex from its
  lookup to its last update; endpoints hold it for a lookup and for a removal, and use
  the pointer they found without it. They time out, fail and exit at any time; signals
  come early, late and several at once; pids are reused. *Correct:* a port is listed
  once and served by one process; a process that serves is listed with its pid; a
  removal, which is by port, never hits the entry of another process; the pointer used
  without the mutex is to one's own entry; no update is missed; who still serves a port
  never keeps another from binding it.
* **The shared list.** The relinking of a removed node has four cases. *Correct:* no node
  is lost and none is in two places, the order is kept, and the operations do what the
  other modules assume.
* **The queue.** Notification after unlock, one notification for several requests,
  a signal handler that cannot lock. *Correct:* no lost wake-up, no pop of an empty queue,
  requests taken once and in order, and every one taken in the end.
* **The endpoint's two threads.** `cv.wait` has no predicate and `b_running` is tested
  without the mutex. *Correct:* no client sleeps with work it has missed, updates are
  streamed, and an endpoint that is told to end does.
* **What an endpoint streams with.** One transport for all the calls of a process, a stream
  for each, a master port for the first; a client object that main deletes; a port that
  the next process binds. *Correct:* a call goes to the address of its configuration, nothing is
  turned under a running clock thread, the socket is closed before the entry goes.
* **A server that dies.** Its endpoints live on, the segment too, with the mutex as it was;
  the next server initialises it under them, without a lock. *Correct:* it does not take its
  predecessor's endpoints for its own, an entry is not lost but for known reasons, and all
  endpoints can leave.
* **A run of the orchestrator.** Each scenario's preparation can fail half-way, and SIPp
  processes may end on their own or not at all. *Correct:* clients are stopped before
  servers, nothing is unregistered while it runs, scenarios that run share no ports and
  are registered, ports and numbers rest between two calls, and the orchestrator ends.

The hazards, line by line with the properties that cover them, are the `hazards` of
`PROJECT.json`.

## 2. Modules

| Module | Models | Uses |
|---|---|---|
| `Registry` | what the shared list promises: nodes in use, their contents, atomic operations | |
| `SharedList` | the array and the chain, implements `Registry` | `Registry` (INSTANCE) |
| `PortService` | what a media server promises: ports assigned to processes | |
| `MediaPlane` | the worker, the registry, all endpoint processes, signals and pids; implements `PortService` | `Registry` (EXTENDS), `PortService` (INSTANCE) |
| `ServerRestart` | the death of the server and the next one, under living endpoints | `MediaPlane` (EXTENDS) |
| `TaskQueue` | HTTP threads, queue, worker's wait, SIGINT, main | |
| `MediaEndpoint` | main and `endpoint_thread` of one endpoint | |
| `RtpEndpoint` | the same with `RTP_endpoint` and `InfluxDBClient`; implements `MediaEndpoint` | `MediaEndpoint` (EXTENDS) |
| `Scenarios` | how many endpoints and which numbers a scenario gets | |
| `Orchestrator` | one run of the orchestrator and its SIPp processes | `Scenarios` (EXTENDS) |
| `MC*` | constants for TLC | |
| `*Proofs` | theorems | |

**Registry / SharedList.** In `Registry` a node is a slot with contents (`node`), `used`
is what is in the list. A freed node keeps its bytes, which matters to those who hold
a pointer to it. `SharedList` has the code's variables (`data`, `next`, `head`,
`count`); `used` is the set of the first `count` nodes of the chain. That
`fetch_element` returns the *first* match is `FirstAt`; `remove_element`'s relinking is
`RemoveElement`, its walk to the last node included. The refinement is `RefinesRegistry`.

**MediaPlane.** `worker` is the position in `workerThread`, one step between any two
points at which another process can tell the difference: `TakeTask` (lock, fetch, update),
`Signal`/`SignalFails` (`sigqueue`, removal), `Launch`/`LaunchFails` (`fork`),
`Add` (`add_element`, unlock). `main[p]` is where process `p` is in `main`
of the endpoint: `exec` (SIGRTMIN not blocked yet), `wait` (`sigtimedwait`), `fetch`, `copy`
and `copyRest` (a `memcpy` without the mutex is two steps), `join`, `remove`, and `exit` from the unlock to the end of
the process, while the worker may launch a successor; or how `p`
ended, until it is reaped and its pid is `none`, free for the next `fork`. A signal on a process in `exec`
kills it, on one in `exit` or a zombie it is accepted and lost. `sock[p]` is the RTP socket of the second thread: closed, being
opened, or the port it is bound to. The destructor may leave it open until the end of the process (`CloseSocket`: it finds the
transport through the stream, and after a timeout of 0 s there may be none). SIGCHLD is one bit; the handler reaps until
there is nothing left. `uint16` is the endpoint's narrowing of the port
(`media_endpoint.cpp:133`) and `QueueMayFill` says whether `sigqueue` may fail with EAGAIN.

**PortService.** Three sets of records with a port, an address, a duration and a pid: `entries` is what
the server knows, `running` what the processes do, `starting` what is not entered yet. The
refinement mapping is `Entries`, `Running` and `Starting` of `MediaPlane`: the list's contents, the
configurations of the processes that have not exited, and the child that has been forked
and not added. The signal, the pointer, the mutex and the zombies are gone; that an
update reaches the process in two halves is not (`Adopt`).

**ServerRestart.** Its steps are those of `MediaPlane`, the server's while it is `up`, and `Crash`, `InitBegins` and
`InitEnds`. `Crash` comes anywhere in the worker. `initialize()` takes no lock and is not atomic: an endpoint therefore takes the mutex in a
step of its own (`Lock`, `inside`) before the step with which it reads the list, or removes its entry, and lets the mutex go (`LockedStep`).
`lost` says who has ended with the mutex: a server that died in its section, whose mutex `InitBegins` makes anew, or an
endpoint whose second thread calls `_exit` while the first one has the mutex, after which nobody gets it again. A lookup during
`initialize()` finds nothing, or any node that still has the port (`FetchWhileInit`). A *removal* during it, or a section that had begun
before it, is undefined: `count` may become -1, the chain may get a cycle, two threads may have the mutex. The specification says that this happens (`torn`)
and stops there. `orphan` are the processes of an earlier server, which process 1 reaps; `stuck` are those that slept on the mutex when
it was initialised, which is undefined too: any of them may sleep for ever.

**TaskQueue.** Each lock, test, wait and unlock of the worker is a step; the HTTP threads
own `queueMutex` for one. The worker between its test and being blocked (`block`) is what
a notification without the mutex can slip into. The handler of SIGINT runs on a thread of
`SigThread`, which does nothing else meanwhile. `taken` and `accepted` are history.

**MediaEndpoint.** `main` and `thread` are the positions of the two threads; `conf` and
`streamed` hold the number of the update that brought a configuration. `t1` owns `cv_m` in
`setup` and `call`. `g_server` and `spurious` are chosen once: which kind of endpoint it is, and whether
`cv.wait` may return for no reason in this behaviour. The timeout is
`duration * 2 / 1000` in integers, which is 0 below 500 ms.

**RtpEndpoint.** Every action conjoins one of `MediaEndpoint` with what it does to the transport
(`transport`, `remote`), the streams (`stream` counts them, `source` is the one that the master port
feeds), the master port (`playing`) and the client of InfluxDB (`influx`); `at` is the position inside a call:
`StartStreaming`, the sleep, `Send` (`get_MOS` and `send`), `SendReturns`, `StopStreaming` with the wait. The
destructor finds the transport through the last stream (`Destroy`). `MOS` is `compute_MOS` in integers.

**Scenarios.** `NPorts` is `sippscen.py:208-212` with `cps` as a ratio of integers; `Dn` is what SIPp prints from
the template of the DN file with the prefix and the length of `dn_prefix`.

**Orchestrator.** `phase` and `at` are where the main program is; the tables are sets of
scenarios. An exception in a preparation leaves the tables as they were at that point
(`PrepareSkips`, `PrepareFails`): its ports may count and its SIP socket not. `stop[s]` is where the coroutine `stop_scenario` is;
coroutines take turns only where they await, which is what `Turn` says, while the
processes go on at any time (`Ends`).

Operators that follow a comment "Mutant:" are wrong variants of the definition after
them. No specification uses them: they are the `mutants` of `PROJECT.json`, which show
that each property can tell such a bug.

## 3. Runs

Each run takes two minutes or less on two cores.

| Run | Instance | States | What it shows |
|---|---|---|---|
| `plane` | 2 nodes, 2 ports, 2 addresses, 3 pids, at most 2 signals pending | 438 k (symmetry) | `PortsUnique`, `LiveRegistered`, `OneEndpointPerPort`, `BoundByTheLeaving`, `PointerValid`, `ConfFresh`, `OnlyTheGoneAreForgotten`, `ImplementsService` |
| `plane_late` | as `plane`, 2 pids | | violation: `NotifiedIsServed` |
| `restart` | 2 nodes for 3 ports, 2 pids, 1 death of the server | 1.27M (symmetry) | `OnlyTheUntrackedCrash`, `EntriesAreOwn`, `OnlyTheUntrackedTake` |
| `restart_live` | 1 node, 1 port, durations 0 and 1, 2 pids, at most 1 death | 166 k | `LeaveCompletes`, `EventuallyConsistent`, `ZombiesReaped` |
| `list` | 4 nodes, 2 ports that may be listed twice, 2 pids | 32 k | `ChainComplete`, `OrderKept`, `RefinesRegistry` |
| `queue` | 2 HTTP threads, 3 requests, SIGINT on any thread | 39 k | `NoLostWakeup`, `PopsARequest`, `InOrder`, `Served`, `StopsAtNextRequest` |
| `queue_stop` | 1 request, SIGINT on main | | violation: `WorkerStops` |
| `endpoint` | durations 0, 499, 500; 4 updates, 2 streams before a wake-up for no reason, 5 delays | 68 k | `NothingMissed`, `CallGoesToConf`, `SocketClosedFirst`, `MosOnScale`, `UpdatesStreamed`, `EndCompletes` |
| `endpoint_short` | duration 499, without the streams | | violation: `AlwaysEnds` |
| `orchestrator` | 2 scenarios of any type, registration, pattern, ports and rate | 1.04M | `ClientsStopFirst`, `PortsDisjoint`, `RegisteredFirst`, `StoppedBeforeUnregistering`, `NumbersRest`, `Terminates` |
| `orchestrator_numbers` | 2 scenarios of 2 to 14 numbers from 95 on | | violation: `DnsAsAnnounced` |
| `orchestrator_pattern` | as `orchestrator` without rates, one check of a pid | | violation: `StoppedAtEnd` |

Besides, `plane`, `restart`, `list`, `endpoint` and `orchestrator` check a type invariant. `ZombieNoticed`,
`NoNewStreamWhilePlaying`, `ClientOutlivesThread` and the types of `TaskQueue` and `MediaEndpoint` are
proved, and no run repeats them.

Why the bounds are enough. Of the *media plane*, what can go wrong takes an entry of
one port and a process of another (two ports), a process on its way out, its successor and
a third one that gets a reused pid (three pids), a torn read (two fields, of which one differs: the address is
read first, so that an update that the half with the duration misses is missed by the first half too), and
a signal that comes while another is being worked on (one pending, one read). `MaxPending` stops the
worker from taking a request while some endpoint has that many signals; the others bound
nothing that runs. The proofs of `MediaPlaneProofs` do without any of these bounds.
*Restart*: fewer nodes than ports, so that an endpoint runs without an entry even before the
server dies, and one death, since another server meets nothing that the second does not meet
(orphans are orphans of any predecessor). The liveness run has one port because what a process waits for is only its own entry and
the mutex, and two durations, so that there is something to be told. The proofs of `ServerRestartProofs` do without the bounds. The *list* has one node more than the largest distance its code treats separately
(`count > 2`), and ports listed twice, which the code does not exclude. The *queue* has as many HTTP
threads as the server starts and one request more. *Endpoint*: updates during the set-up, a
call, the wait and the end; the second stream differs from the first as any later one does; delays on both sides of
the bend of the polynomial and of `MosLimit`. *Orchestrator*: every property is about a pair
of scenarios, and the loops treat each scenario alike. `SmallConfig` has ranges that meet, follow
one another, are those of another server, and a shared socket; `LoadConfig` has rates that are not whole,
durations that are not whole seconds, and totals below the need; `NumbersConfig` has numbers that get a digit
more, or do not.

`CHECK_DEADLOCK FALSE` is set where the program stops: a server after SIGINT, an endpoint that
has left, an orchestrator at its end; and in `restart` and `restart_live`, where everybody waits for ever for a mutex that an
endpoint has ended with, and where the specification stops by itself (`torn`). The media plane never stops: deadlock is checked there.

`SYMMETRY` is used for safety only. Slots, ports, addresses and pids are interchangeable: the
specifications compare them for equality and nothing else.

## 4. Fairness

* Threads that can run do, and sleeps end: weak fairness of the steps of each thread.
* A thread that waits for a mutex gets it if it is free again and again: strong fairness of
  `Lock` (the list's mutex), `Push` (`queueMutex`), `Copy` and `EndThread`
  (`cv_m`). The worker gives the list's mutex back for every request, and `t1` gives `cv_m`
  back between two calls, so a mutex that is never granted would be the scheduler starving
  one thread for ever.
* A pending SIGCHLD or SIGINT is delivered, and its handler runs on.
* Nobody is assumed to start a server that has died: under systemd (`Restart=on-failure`) the endpoints die with
  it, and a server run by hand is restarted by hand or not at all. `LeaveCompletes` is conditional on servers coming
  up again, `EventuallyConsistent` on one that stays. Both assume that no endpoint ends with the mutex (`lost`), which the code does not exclude
  (section 6).
* Nor is an endpoint assumed to time out, or its second thread to end, in `ServerRestart`; a process that has exited is reaped, by a server
  that is up or by process 1.
* `send` to InfluxDB returns (`RtpEndpoint`, `SendReturns`). It is the one demand on another program:
  curl is given no timeout, and a client sends with `cv_m` held, so a server of InfluxDB that
  accepts and never answers stops the call, the next update and the end of the endpoint.
* Nothing is assumed of what comes from outside: requests, SIGINT, timeouts, failures, spurious wake-ups,
  the end of a SIPp process (not even of one that has been told to quit). Where a
  property holds only if something comes, it says so (`StopsAtNextRequest`). The SIPp
  processes that register, which the orchestrator waits for, are assumed to end.

## 5. Proofs

Each module `XProofs` extends `X`, has the theorems as `THEOREM ... == Spec => []...`, and
rests on the assumptions `X` declares on its constants and, where it says so, on an explicit
limit (`WithinLimits`, `~QueueMayFill`). Run `tlapm XProofs.tla`; every obligation is proved.
Every invariant and every action property that a run checks, and both refinements, are
theorems; the liveness properties are not.

Several theorems restate properties that no run repeats (end of section 3), the others have a
run of the same name.

**SharedListProofs.** For an array of any size, `ListInv` adds to the types and to `Complete` (the chain goes through
every node once, and its last link is the one the walk of `remove_element` looks for) what is needed of the walk along the
chain itself: it is a function defined by recursion, and an operation that relinks the array has to be shown to yield another.
What a recursive function computes takes induction, and the induction theorems of the library have an operator for a
parameter, which the provers cannot instantiate. `SetInduction` states the same for a *set* of numbers, which they can: a
set that has no least counterexample has none (`LeastNatural`, from the well-foundedness of `<`). From it come `WalkUnique` (two walks
that start alike and step alike are one), `UnlinkedWalk` and `RelinkedWalk` (the walk after the two halves of a removal: the
nodes before the removed one stay, those behind it move up, it comes last) and `MovedComplete`. Theorems: `TypeCorrect`, `NoNodeIsLost`, `OrderIsKept`
and `ListIsARegistry`, by which every step of the array is an operation of `Registry` on the set of nodes in use.

**MediaPlaneProofs.** `TypeCorrect`, `PortsAreUnique`, `ZombiesAreNoticed` and `OnlyTheUntrackedCrashes` hold for any constants: no port
is listed twice even if the list is full, signals are lost and ports are cut, because the worker adds a port only in the
section in which it has not found it (`SectionInv`).
`LiveAreRegistered`, `PortsAreNotShared`, `SocketsAreOfTheLeaving`, `PointersAreValid`,
`EntriesAreKept` and `ConfigurationIsFresh` under `WithinLimits`: the list has a node for
every port, `sigqueue` does not fail for a process that exists, and ports have 16 bits. The
three are real limits of the code (section 6). The inductive invariant is

    SafetyInv == TypeOK /\ PortsUnique /\ WorkerSection /\ LiveRegistered /\ PointerValid

None of its parts is inductive alone. That `Add` keeps `PortsUnique` needs that the port is still
absent, although endpoints have been removing entries between the lookup and the addition
(`WorkerSection`). That `Leave`, which removes by port, takes no other process's entry
needs `LiveRegistered` and `PortsUnique`: the entry of the port is the leaving process's own. That
a pid handed out by `fork` may be in a stale entry, and that this entry is never taken for
the new process's, needs the port in `EntryOf`. Room for `Add` follows from `PortsUnique`
by counting (`WithinLimits`). `OneEndpointPerPort` and `OnlyTheGoneAreForgotten` follow
from the invariant. `BoundByTheLeaving` is about the sockets, and needs besides that one that is bound by a process that serves is that of
its configuration (`SockInv`), which a copy does not change because it is of the own entry: two processes at one port cannot both serve. `ConfFresh` is proved on top of it, as `FreshInv`: `SafetyInv` says the pointer
used without the mutex is to the process's own entry, so that the only writer that can tear
the read is a worker that is going to signal this process. `OnlyTheUntrackedCrash` needs no limit: it is
inductive once one knows that the worker enters a process that cannot have looked for its entry
yet (`CrashInv`). The types are stated for any sets of data and requests (`Types(D, R)`), and so are
the steps of `TypeOK`, `SectionInv` and `CrashInv`, so that `ServerRestartProofs` can use them with wider sets.

**ServerRestartProofs.** For any number of deaths of the server, anywhere, up to the moment at which a section of an endpoint meets `initialize()`
(`torn`). A node may lose its port while an endpoint copies it, so that
`TypeOK` does not hold and the steps of `MediaPlane` are taken with `Types(AnyPort(Data), AnyPort(Request))`. `RestartInv` is that, `FaultTypes` (who is
an orphan, stuck or has the mutex, and where), `InitInv`, and `SectionInv`, `CrashInv` and `OwnInv`, none of which speaks of what the death of a server breaks.
`InitInv` says that, while the list is initialised, it is empty, the worker is idle, and an endpoint that has the mutex is looking for a port that is not -1: what it finds
has then been an entry. `OwnInv` says that, while a server is up, neither the list nor the entry that the worker is about to add has the pid of an orphan. An orphan's pid gets into the list again only after
process 1 has reaped it, and then it is no orphan's. Theorems: `RestartTypeCorrect`, `EntriesAreTheServers`, `StillOnlyTheUntrackedCrash`,
and `OnlyTheUntrackedTakes` for `~QueueMayFill` (otherwise `SignalFails` takes the entry of a living endpoint, section 6).

**PortServiceProofs.** `PlaneImplementsService`: under `WithinLimits`, `MediaPlane!Spec` implies
`PortService!ServiceSpec` under the refinement mapping. From `SafetyInv`: `Launch` finds the port absent from
`entries` (`WorkerSection`) and from `running` (`OneEndpointPerPort`); `SignalFails` is a `Forget`, as no
process that runs has the entry; `Leave` takes the entry of the process itself and no other; an exit anywhere
else is a `Die`; a copy from the own entry is one or two steps `Adopt` (`PointerValid`).

**TaskQueueProofs.** `QueueInv == TypeOK /\ CountInv /\ BlocksOnEmpty /\ NoLostWakeup /\
PopsARequest /\ InOrder` for any finite set of HTTP threads and number of requests. `BlocksOnEmpty` is
why no wake-up is lost: while the worker has tested an empty queue and not blocked yet, it
holds the mutex that `Push` needs. `CountInv` bounds the requests in flight. Theorems:
`TypeCorrect`, `NoWakeupIsLost`, `PopsAreDefined`, `RequestsInOrder`.

**MediaEndpointProofs.** `EndpointInv == TypeOK /\ SignalsInv /\ CallIsCurrent /\
NothingMissed` for any durations and number of updates. A client in a call holds `cv_m`,
hence streams the current `conf` (`CallIsCurrent`); `conf` changes only while it waits or is
between two calls, and then `main` is about to notify. Theorems: `TypeCorrect` and
`NothingIsMissed`.

**RtpEndpointProofs.** `EndpointImplemented`: a behaviour of `RtpEndpoint` is one of `MediaEndpoint`, so
that what is proved there holds here. The invariant adds to `EndpointInv`: the master port runs in a call only, in
which the transport is turned to the address of the stream (`PlayingInv`); from the first stream on there is one to
find the transport by, and a timeout of a second or more comes after it (`StreamInv`); the
master port is made with the first stream (`SourceInv`); the client is made before `t1` and deleted when
it is joined (`ClientInv`). `ScoresAreOnScale` is about the polynomial of the MOS for every delay up to `MosLimit`, not the five
of the run: R does not grow with the delay and stays between `LowEnd` and `HighEnd` (`RScale`); between them the cubic
part falls nowhere faster than at the low end (`CubicSlope`), so that the linear part outweighs it, rounding included
(`ScoreGrows`); and the scores of the two ends are on the scale.

**OrchestratorProofs.** `LinesRest` is the arithmetic of `n_ports`: if `n` is at least the rate times duration plus gap,
rounded up, then the calls on one line are at least that far apart, for any integers. `NumbersAreRested` takes it to the
configurations. `PortsAreDisjoint` rests on `NeighboursSuffice`: sorted by the first port, if no range begins
before its predecessor ends, no two ranges of a server meet (the least range after a given one is its neighbour).
`RegisteredBeforeStart` follows the loops (`StartInv`); `ClientsStopBeforeServers` and
`StoppedWhenUnregistering` need that a coroutine has returned only if its process has ended or was sent
SIGKILL, and that the phases follow one another when all of them have (`GoneInv`, `OrderInv`).

`NumbersAreAnnounced` is the arithmetic of `dn_prefix`, for any first number and any number of lines: the numbers that are written are those that are
announced if and only if the number past the last one is as long as the first. If it is, the two have the prefix in common, and so has
every number between them (`SamePrefix`, by induction along
the digits); the rest is less than a power of ten and is printed with as many digits as are missing (`Announced`). If it is longer, so is
the first line (`NotAnnounced`), which is the finding of `orchestrator_numbers`. `TenTo` is a recursive function; what is needed of it (`TenToNext`, `TenSplit`, `TenGrows`) comes from
an induction in the form of `SetInduction`, like that of `SharedListProofs`.

Only model-checked: the liveness properties (`LeaveCompletes`, `EventuallyConsistent`, `ZombiesReaped`, `Served`, `StopsAtNextRequest`,
`UpdatesStreamed`, `EndCompletes`, `Terminates`), because fairness and `ENABLED` are out of the prover's reach; and, of course, the
violations of section 6. `WithinLimits` is assumed where the property is false without it.

## 6. Where the code does not do what is said

Findings, each with a run that finds a behaviour:

| Run | What happens |
|---|---|
| `plane_late` | A request that comes after an endpoint's timeout and before its removal is answered with 200 and never served: the entry is still there, the signal succeeds and nobody reads it. |
| `queue_stop` | SIGINT between the worker's test of the predicate and its wait is lost: the worker sleeps on until the next request, main with it in `join`. |
| `endpoint_short` | With a duration below 500 ms the timeout is 0 s. `endThread` notifies before `t1` waits, `t1` waits for ever, and so does main in `join`. The entry stays. |
| `orchestrator_numbers` | If the number past the last one has a digit more than the first, other numbers are written than those announced: for 7 from 95 on, `095` to `101`. |
| `orchestrator_pattern` | A scenario with a pattern ends the orchestrator with a `TypeError` at the first timepoint; the SIPp processes run on. |

More deviations, which the specifications reach too. To see one, change the
run's configuration as said and check the property alone (without `SYMMETRY` for a temporal one):

| Property | How | What happens |
|---|---|---|
| `LiveRegistered` | `plane` with `Slot = {s1}` | The worker forks before it finds the list full, and an endpoint runs without an entry. |
| `LiveRegistered` | `plane`, `uint16 <- Truncated` | A request for a port above 65535 starts an endpoint for another port than the one it is listed under. |
| `OnlyTheGoneAreForgotten` | `plane`, `QueueMayFill = TRUE` | `sigqueue` fails with EAGAIN, and the entry of a living endpoint is removed. |
| `NeverKilled` | `plane` | The entry is there from the fork on, SIGRTMIN is blocked after exec: a second request in between kills the endpoint. |
| `PortIsFree` | `plane` | An endpoint whose timeout was 0 s has removed its entry and not ended yet, with the socket open. Its successor fails to bind it and ends; the entry of the successor stays. |
| `MainReturns` | `queue_stop` | SIGINT between main's test of `b_running` and `pause()`: main sleeps until some other signal. |
| `FirstCallDone` | `endpoint_short` | A client with a duration below 500 ms may leave without a call. |
| `ServerHasDefault` | `endpoint_short`, `Duration <- Any` | A server requested without a duration, which "defaults to 60s lifetime" (`media_endpoint.cpp:194`), is started with `--duration 0` and rejects its arguments. |
| `SocketClosedFirst` without `timeout > 0` | `endpoint` | With a timeout of 0 s there may be no stream when the destructor runs: it does not find the transport, and the socket is open until the process ends, after the entry is removed. |
| `MeasuresTheCall` | `endpoint` | From its second call on, a client reads the statistics of the new stream, while the master port feeds the first one: no receipts, and a MOS of 0. |
| `MosOnScale` without `rtt <= MosLimit` | `endpoint` | Beyond 796 ms of delay the polynomial leaves the scale: below 1, then rising without bound. |
| `ActiveAreTracked` | `restart` | After a restart the registry is empty and the endpoints of the earlier server run on, untracked, on their ports. |
| `KeepsItsPort` | `restart` | An endpoint that copies its node while it is initialised ends up with port -1, looks for that from then on, and dereferences NULL at the next signal. |
| `InitialisedAlone` | `restart` | An endpoint of the earlier server has the mutex when `initialize()` makes it anew, or takes the new one and removes while the nodes are written. From there `count` may become -1 and the chain a cycle: entries are lost in a third way, besides those of `OnlyTheUntrackedTake`. |
| `EndsWithoutMutex` | `restart` | The second thread calls `_exit(1)` (`media_endpoint.cpp:104`) while the first one has the list's mutex: the worker and all endpoints wait for ever. |
| `ServerFollows` | `endpoint`, `Duration <- Long` | A server that is reused goes on with the address of its first request. |
| `StoppedAtEnd` | `orchestrator`, scenarios without patterns | `os.kill` on a process that has ended since it was seen raises an exception; nobody else is stopped. |
| `ServersStartFirst` | `orchestrator` | Processes start in the order of the file, not servers first (`src/README.md:120`). |
| `UnregisteredAtEnd` | `orchestrator` | A failing registration ends the run with the numbers registered before it. |

Two more are single expressions: the loss rate of `get_MOS` is a quotient of integers (`rtp_endpoint.cpp:293`, `303`), 0 unless
everything is lost; with `influx_URL` and without the rest of the environment, a string is
made of a null pointer and the endpoint aborts (`media_endpoint.cpp:204`, `StartFails`).

## 7. Abstractions and what is not modelled

* **Critical sections.** What an endpoint does under a mutex is one step in `MediaPlane`, and two in `ServerRestart` (lock, and the work with the
  unlock); the worker's
  section, which has system calls that others can see, is several, and locks the
  endpoints out (`ListFree`). The HTTP `/status` handler only reads. That an endpoint's second thread ends the process while the first one has the mutex is
  in `ServerRestart` only (`lost`); `MediaPlane` is about what holds until then. That a process is killed by its second thread *between two writes* of a removal
  is not modelled: it ends before or after it, and nobody gets the mutex again in either case, until a server is started again and empties the list.
* **Data.** A remote address is one value, in `MediaPlane` a configuration is read in two
  parts; `dest_port`'s width is not modelled, and ports that are a multiple of 65536 are
  left out of `uint16`. The `client` flag of an entry is `g_server` of `MediaEndpoint`.
* **The kernel.** Pids are reused as soon as they may be. `EINTR`, stopped processes, a `kill` from
  outside, and what glibc does when `notify_one` interrupts a thread inside `wait` are not modelled.
* **The segment's life.** `initialize()` begins and ends in `ServerRestart`; what it has written at a given moment in between is not modelled, but what a
  lookup may find of it is. What follows when an endpoint removes its entry meanwhile is not: see `torn`. A server that dies within `initialize()` is not modelled. A graceful stop (SIGINT) destroys the mutex and removes
  the name while the endpoints keep their mapping; the next server makes a new segment, and the two
  groups of processes never meet in the registry. It is not modelled. systemd kills the whole control group of a
  service, endpoints included (the service file leaves `KillMode` at its default), so that `ServerRestart` is about servers run by hand, and those
  whose unit keeps its processes. Two servers at once for one port are not modelled.
* **Streams.** PJSIP's pools, codecs and event manager are not modelled, nor packets. `Send` takes the statistics
  as they come: no receipts, or one of the delays in `Rtt`. The loss rate is 0 (section 6). A stream that fails in
  the middle of `createStream` ends the process (`Abort`). `print_stream_stat` and `good_number` are called nowhere.
* **Rates.** `cps` is a ratio of integers, in Python a float whose product may round up to one endpoint more.
* **Parsing.** A request is accepted or refused; a configuration file is what it says of
  each scenario. `initialize()` leaves the port of the last node as it was; nothing
  looks at it (`Registry`).
* **Time.** There is none, but for one thing: a timeout of a second or more does not run
  out while `t1` is between two sleeps (`MediaEndpoint`, `Timeout`). Timeouts in `MediaPlane` come at any
  time. Runs of the orchestrator last more than 0 ms.
* **Orchestrator.** telegraf's process, Ctrl-C, and the reuse of a SIPp process's pid by another
  program are not modelled. What comes after `title()` in the pattern loop cannot be reached.
  The UDP command to quit may be lost.
* **Not modelled.** The call flows of SIPp: their meaning is SIPp's, which is not in this repository; what
  they ask of the media servers comes in any order in `TaskQueue` and `MediaPlane`. `translate_time_signature`, a
  regular expression. Packaging, configuration, log shipping and the two test programs of the list, which have no
  state of their own.

## 8. What is left

In the order of what it would add:

1. **Composition** of `TaskQueue` and `MediaPlane`: the worker that pops is the one that works. Neither
   module looks at the other's state, so that the composition shows little more than its parts.
2. **A graceful stop** of the server in `ServerRestart`: the segment that is unlinked and not unmapped.
3. **Two servers for one port**, the second of which initialises the registry before it fails to bind.
4. **Proofs** of what is left of the media plane's safety without `WithinLimits`: which endpoints may serve a port that another one serves,
   and how an endpoint may lose its entry, in the way of `OnlyTheUntrackedCrash`. Then the invariants on which the liveness properties rest.

The suite has a run for each question worth asking of the system; the deviations of section 6 that have no run of their own stay as
properties in the modules.
