----------------------------- MODULE MediaPlane -----------------------------
(***************************************************************************)
(* One media server and the media endpoints it spawns: the worker thread   *)
(* of src/media_server.cpp, the main thread of each endpoint process       *)
(* (src/media_endpoint.cpp), the registry they share, and what they ask of *)
(* the kernel: fork and process ids, exit and SIGCHLD, SIGRTMIN.           *)
(*                                                                         *)
(* A request for a port either updates the registry entry of the endpoint  *)
(* that serves the port and signals it, or forks a new endpoint and adds   *)
(* an entry.  An endpoint that gets the signal fetches its entry again; one*)
(* that gets none for twice the duration of its first call leaves, and     *)
(* removes its entry by port.                                              *)
(*                                                                         *)
(* The sections an endpoint runs under the list's mutex are one step each; *)
(* the worker's, which talks to the kernel in the middle, is several.      *)
(* Process ids are reused as soon as the kernel may reuse them.            *)
(* The endpoint's second thread is reduced to the socket it binds; module  *)
(* MediaEndpoint has its interaction with the main thread.                 *)
(***************************************************************************)
EXTENDS Registry, Naturals

CONSTANTS
  NoSlot,        \* a NULL Data pointer
  NoPid,         \* no process
  MaxPending,    \* bound: no request is taken while an endpoint has this
                 \* many signals pending
  QueueMayFill,  \* may sigqueue fail with EAGAIN for an existing process
  uint16         \* the port an endpoint makes of its --local-port argument:
                 \* addTask takes any number, the endpoint keeps 16 bits of it

ASSUME PlaneAssumption ==
  /\ NoSlot \notin Slot
  /\ NoPid \notin Pid
  /\ Duration \subseteq Nat
  /\ {"closed", "opening"} \cap (Port \cup {NoPort}) = {}
  /\ MaxPending \in Nat \ {0}
  /\ QueueMayFill \in BOOLEAN
  /\ uint16 \in [Port -> Port]

VARIABLES
  worker,        \* where the worker thread is in its loop
  task,          \* the worker's "data", without its pid
  found,         \* the worker's "fetched_data"
  child,         \* the pid launch_background returned
  main,          \* where the main thread of process p is; how p ended
  conf,          \* the "conf" of p
  ptr,           \* the "new_conf" of p
  pending,       \* SIGRTMIN signals queued for p
  sock,          \* p's RTP socket: not open, being opened, or its port
  sigchld        \* SIGCHLD of the server: pending?  its handler running?

workerVars == <<worker, task, found, child>>
endpointVars == <<main, conf, ptr, pending, sock>>
vars == <<registryVars, workerVars, endpointVars, sigchld>>

\* A process that serves its port: from fork until it has removed its entry.
Serving == {"exec", "wait", "fetch", "copy", "copyRest", "join", "remove"}

\* Where a process may have its second thread.
ThreadRuns == Serving \ {"exec", "remove"}

Bound(p) == sock[p] \notin {"closed", "opening"}

\* A process that has exited and waits to be reaped, and how it ended.
Zombie == {"ended", "killed", "crashed"}

WorkerState == {"idle", "signal", "launch", "add"}

\* The mutex of the list is held by the worker from its lookup to its unlock.
ListFree == worker = "idle"

TypeOK ==
  /\ RegistryTypeOK
  /\ worker \in WorkerState
  /\ task \in Request \cup {Blank}
  /\ worker # "idle" => task \in Request
  /\ found \in Slot \cup {NoSlot}
  /\ worker = "signal" <=> found \in Slot
  /\ child \in Pid \cup {NoPid}
  /\ worker = "add" <=> child \in Pid
  /\ main \in [Pid -> Serving \cup {"exit"} \cup Zombie \cup {"none"}]
  /\ conf \in [Pid -> Request \cup {Blank}]
  /\ \A p \in Pid : main[p] \in Serving => conf[p] \in Request
  /\ ptr \in [Pid -> Slot \cup {NoSlot}]
  /\ \A p \in Pid : ptr[p] # NoSlot => node[ptr[p]] \in Data
  /\ \A p \in Pid : main[p] = "copyRest" => ptr[p] # NoSlot
  /\ pending \in [Pid -> Nat]
  /\ sock \in [Pid -> Port \cup {"closed", "opening"}]
  /\ \A p \in Pid : sock[p] = "opening" => main[p] \in ThreadRuns
  /\ \A p \in Pid : Bound(p) => main[p] \in ThreadRuns \cup {"remove", "exit"}
  /\ sigchld \in [pending: BOOLEAN, reaping: BOOLEAN]

Init ==
  /\ Initialize
  /\ worker = "idle"
  /\ task = Blank
  /\ found = NoSlot
  /\ child = NoPid
  /\ main = [p \in Pid |-> "none"]
  /\ conf = [p \in Pid |-> Blank]
  /\ ptr = [p \in Pid |-> NoSlot]
  /\ pending = [p \in Pid |-> 0]
  /\ sock = [p \in Pid |-> "closed"]
  /\ sigchld = [pending |-> FALSE, reaping |-> FALSE]

-----------------------------------------------------------------------------
(***************************************************************************)
(* The worker thread.                                                      *)
(***************************************************************************)
WithPid(request, p) ==
  [port |-> request.port, dest |-> request.dest,
   duration |-> request.duration, pid |-> p]

\* Mutant: the pid of the entry is not kept.
TakeTaskLosesPid(request) ==
  /\ worker = "idle"
  /\ \A p \in Pid : pending[p] < MaxPending
  /\ task' = request
  /\ \/ /\ Match(request.port) = {}
        /\ worker' = "launch"
        /\ UNCHANGED <<registryVars, found>>
     \/ \E s \in Match(request.port), p \in Pid :
          /\ found' = s
          /\ Write(s, WithPid(request, p))
          /\ worker' = "signal"
  /\ UNCHANGED <<child, endpointVars, sigchld>>

\* Take the mutex and fetch the entry of the request's port.  If there is one,
\* overwrite it, but keep the pid it has.
TakeTask(request) ==
  /\ worker = "idle"
  /\ \A p \in Pid : pending[p] < MaxPending
  /\ task' = request
  /\ \/ /\ Match(request.port) = {}
        /\ worker' = "launch"
        /\ UNCHANGED <<registryVars, found>>
     \/ \E s \in Match(request.port) :
          /\ found' = s
          /\ Write(s, WithPid(request, node[s].pid))
          /\ worker' = "signal"
  /\ UNCHANGED <<child, endpointVars, sigchld>>

WorkerDone ==
  /\ worker' = "idle"
  /\ task' = Blank
  /\ found' = NoSlot
  /\ child' = NoPid

\* Process p exits, and the kernel raises SIGCHLD for the server.
Exit(p, how) ==
  /\ main' = [main EXCEPT ![p] = how]
  /\ conf' = [conf EXCEPT ![p] = Blank]
  /\ ptr' = [ptr EXCEPT ![p] = NoSlot]
  /\ pending' = [pending EXCEPT ![p] = 0]
  /\ sock' = [sock EXCEPT ![p] = "closed"]
  /\ sigchld' = [sigchld EXCEPT !.pending = TRUE]

\* sigqueue(p, SIGRTMIN) when p exists.  The signal kills a process that has
\* not blocked it yet, is queued for one that has, and is lost on one that has
\* only to exit or has exited.
Deliver(p) ==
  \/ main[p] = "exec" /\ Exit(p, "killed")
  \/ /\ main[p] \in Serving \ {"exec"}
     /\ pending' = [pending EXCEPT ![p] = @ + 1]
     /\ UNCHANGED <<main, conf, ptr, sock, sigchld>>
  \/ main[p] \in Zombie \cup {"exit"} /\ UNCHANGED <<endpointVars, sigchld>>

\* Mutant: the endpoint is not notified.
SignalForgotten ==
  /\ worker = "signal"
  /\ main[node[found].pid] # "none"
  /\ WorkerDone
  /\ UNCHANGED <<registryVars, endpointVars, sigchld>>

\* sigqueue returned 0: the request has been handed to the endpoint.
Signal ==
  /\ worker = "signal"
  /\ Deliver(node[found].pid)
  /\ WorkerDone
  /\ UNCHANGED registryVars

\* Mutant: fetched_data is not reset.
SignalFailsKeepsPointer ==
  /\ worker = "signal"
  /\ main[node[found].pid] = "none" \/ QueueMayFill
  /\ Free(found)
  /\ worker' = "launch"
  /\ UNCHANGED <<task, found, child, endpointVars, sigchld>>

\* Mutant: the entry of the dead process stays.
SignalFailsKeepsEntry ==
  /\ worker = "signal"
  /\ main[node[found].pid] = "none" \/ QueueMayFill
  /\ found' = NoSlot
  /\ worker' = "launch"
  /\ UNCHANGED <<registryVars, task, child, endpointVars, sigchld>>

\* Mutant: the result of sigqueue is not looked at.
SignalFailsAlways ==
  /\ worker = "signal"
  /\ Free(found)
  /\ found' = NoSlot
  /\ worker' = "launch"
  /\ UNCHANGED <<task, child, endpointVars, sigchld>>

\* sigqueue returned -1, which the worker takes for "Non-existing process":
\* forget the entry and launch a new endpoint.
SignalFails ==
  /\ worker = "signal"
  /\ main[node[found].pid] = "none" \/ QueueMayFill
  /\ Free(found)
  /\ found' = NoSlot
  /\ worker' = "launch"
  /\ UNCHANGED <<task, child, endpointVars, sigchld>>

\* fork(), and in the child execvpe() with the request as arguments.
Launch(p) ==
  /\ worker = "launch"
  /\ main[p] = "none"
  /\ main' = [main EXCEPT ![p] = "exec"]
  /\ conf' = [conf EXCEPT ![p] = [task EXCEPT !.port = uint16[task.port]]]
  /\ child' = p
  /\ worker' = "add"
  /\ UNCHANGED <<registryVars, task, found, ptr, pending, sock, sigchld>>

\* fork() failed: the request is dropped.
LaunchFails ==
  /\ worker = "launch"
  /\ WorkerDone
  /\ UNCHANGED <<registryVars, endpointVars, sigchld>>

\* Record the new process.  When the list is full the process is left running
\* without an entry.
Add ==
  /\ worker = "add"
  /\ AddElement(WithPid(task, child))
  /\ WorkerDone
  /\ UNCHANGED <<endpointVars, sigchld>>

WorkerNext ==
  \/ \E request \in Request : TakeTask(request)
  \/ \E p \in Pid : Launch(p)
  \/ Signal \/ SignalFails \/ LaunchFails \/ Add

-----------------------------------------------------------------------------
(***************************************************************************)
(* The socket that endpoint p's second thread binds in the constructor of  *)
(* RTP_endpoint, and closes in its destructor if it has made a stream.     *)
(***************************************************************************)
PortHeld(port) == \E q \in Pid : sock[q] = port

OpenSocket(p) ==
  /\ sock[p] = "opening"
  /\ ~PortHeld(conf[p].port)
  /\ sock' = [sock EXCEPT ![p] = conf[p].port]
  /\ UNCHANGED <<registryVars, workerVars, main, conf, ptr, pending, sigchld>>

\* The destructor finds the transport through the stream.  After a timeout of 0 s
\* there may be none, and the socket stays bound until the process exits.
CloseSocket(p) ==
  \E left \in {"closed", sock[p]} : sock' = [sock EXCEPT ![p] = left]

\* The socket could not be bound, or a stream not be made: _exit(1).
ThreadFails(p) ==
  /\ main[p] \in ThreadRuns
  /\ sock[p] # "closed"
  /\ Exit(p, "ended")
  /\ UNCHANGED <<registryVars, workerVars>>

-----------------------------------------------------------------------------
(***************************************************************************)
(* The main thread of endpoint p.                                          *)
(***************************************************************************)

\* main() up to the creation of t1: the arguments are accepted and SIGRTMIN
\* is blocked.
Start(p) ==
  /\ main[p] = "exec"
  /\ conf[p].duration # 0
  /\ main' = [main EXCEPT ![p] = "wait"]
  /\ sock' = [sock EXCEPT ![p] = "opening"]
  /\ UNCHANGED <<registryVars, workerVars, conf, ptr, pending, sigchld>>

\* exec failed, an argument is invalid (a duration of 0), or the shared memory could
\* not be opened.
StartFails(p) ==
  /\ main[p] = "exec"
  /\ Exit(p, "ended")
  /\ UNCHANGED <<registryVars, workerVars>>

\* sigtimedwait returned a signal.
TakeSignal(p) ==
  /\ main[p] = "wait"
  /\ pending[p] > 0
  /\ pending' = [pending EXCEPT ![p] = @ - 1]
  /\ main' = [main EXCEPT ![p] = "fetch"]
  /\ UNCHANGED <<registryVars, workerVars, conf, ptr, sock, sigchld>>

\* lock, fetch_element(conf.port), unlock: the pointer outlives the mutex.
Fetch(p) ==
  /\ main[p] = "fetch"
  /\ ListFree
  /\ \/ /\ Match(conf[p].port) = {}
        /\ ptr' = [ptr EXCEPT ![p] = NoSlot]
     \/ \E s \in Match(conf[p].port) : ptr' = [ptr EXCEPT ![p] = s]
  /\ main' = [main EXCEPT ![p] = "copy"]
  /\ UNCHANGED <<registryVars, workerVars, conf, pending, sock, sigchld>>

\* memcpy(&conf, new_conf) without the list's mutex, in two parts because the
\* worker may overwrite the node meanwhile.
CopyStart(p) ==
  /\ main[p] = "copy"
  /\ ptr[p] # NoSlot
  /\ conf' = [conf EXCEPT ![p].port = node[ptr[p]].port,
                          ![p].dest = node[ptr[p]].dest]
  /\ main' = [main EXCEPT ![p] = "copyRest"]
  /\ UNCHANGED <<registryVars, workerVars, ptr, pending, sock, sigchld>>

CopyFromNull(p) ==
  /\ main[p] = "copy"
  /\ ptr[p] = NoSlot
  /\ Exit(p, "crashed")
  /\ UNCHANGED <<registryVars, workerVars>>

\* A NULL pointer is a crash.
Copy(p) == IF ptr[p] = NoSlot THEN CopyFromNull(p) ELSE CopyStart(p)

\* Mutant: what came in while the node was copied is taken as read.
CopyRestDrains(p) ==
  /\ main[p] = "copyRest"
  /\ conf' = [conf EXCEPT ![p].duration = node[ptr[p]].duration]
  /\ ptr' = [ptr EXCEPT ![p] = NoSlot]
  /\ pending' = [pending EXCEPT ![p] = 0]
  /\ main' = [main EXCEPT ![p] = "wait"]
  /\ UNCHANGED <<registryVars, workerVars, sock, sigchld>>

CopyRest(p) ==
  /\ main[p] = "copyRest"
  /\ conf' = [conf EXCEPT ![p].duration = node[ptr[p]].duration]
  /\ ptr' = [ptr EXCEPT ![p] = NoSlot]
  /\ main' = [main EXCEPT ![p] = "wait"]
  /\ UNCHANGED <<registryVars, workerVars, pending, sock, sigchld>>

\* Mutant: the entry is removed before the thread is joined.
TimeoutRemoves(p) ==
  /\ main[p] = "wait"
  /\ pending[p] = 0
  /\ ListFree
  /\ RemoveElement(conf[p].port)
  /\ main' = [main EXCEPT ![p] = "join"]
  /\ UNCHANGED <<workerVars, conf, ptr, pending, sock, sigchld>>

\* sigtimedwait timed out (EAGAIN): tell t1 to end, and join it.
Timeout(p) ==
  /\ main[p] = "wait"
  /\ pending[p] = 0
  /\ main' = [main EXCEPT ![p] = "join"]
  /\ UNCHANGED <<registryVars, workerVars, conf, ptr, pending, sock, sigchld>>

\* The thread saw b_running = false and has ended.
Join(p) ==
  /\ main[p] = "join"
  /\ sock[p] # "opening"
  /\ CloseSocket(p)
  /\ main' = [main EXCEPT ![p] = "remove"]
  /\ UNCHANGED <<registryVars, workerVars, conf, ptr, pending, sigchld>>

\* lock, remove_element(conf.port), unlock.  The process has no use any more for
\* its configuration and its signals.
Leave(p) ==
  /\ main[p] = "remove"
  /\ ListFree
  /\ RemoveElement(conf[p].port)
  /\ main' = [main EXCEPT ![p] = "exit"]
  /\ conf' = [conf EXCEPT ![p] = Blank]
  /\ ptr' = [ptr EXCEPT ![p] = NoSlot]
  /\ pending' = [pending EXCEPT ![p] = 0]
  /\ UNCHANGED <<workerVars, sock, sigchld>>

\* The end of main, and of a socket that was left open.  The worker may have
\* launched a successor already.
End(p) ==
  /\ main[p] = "exit"
  /\ Exit(p, "ended")
  /\ UNCHANGED <<registryVars, workerVars>>

\* What p does with the mutex of the list, and what it does without.
SectionNext(p) == Fetch(p) \/ Leave(p)

OutsideNext(p) ==
  \/ Start(p) \/ StartFails(p)
  \/ TakeSignal(p) \/ Copy(p) \/ CopyRest(p)
  \/ Timeout(p) \/ Join(p) \/ End(p)
  \/ OpenSocket(p) \/ ThreadFails(p)

EndpointNext(p) == SectionNext(p) \/ OutsideNext(p)

-----------------------------------------------------------------------------
(***************************************************************************)
(* sigchld_handler.  SIGCHLD does not queue: one run of the handler reaps  *)
(* whatever has exited by then.  A run that starts while another one is in *)
(* progress on another thread is merged with it.                           *)
(***************************************************************************)
HandleSigchld ==
  /\ sigchld.pending
  /\ sigchld' = [pending |-> FALSE, reaping |-> TRUE]
  /\ UNCHANGED <<registryVars, workerVars, endpointVars>>

\* Mutant: the handler calls waitpid once.
ReapOnce(p) ==
  /\ sigchld.reaping
  /\ main[p] \in Zombie
  /\ main' = [main EXCEPT ![p] = "none"]
  /\ sigchld' = [sigchld EXCEPT !.reaping = FALSE]
  /\ UNCHANGED <<registryVars, workerVars, conf, ptr, pending, sock>>

\* waitpid returned p, whose pid may be used again.
Reap(p) ==
  /\ sigchld.reaping
  /\ main[p] \in Zombie
  /\ main' = [main EXCEPT ![p] = "none"]
  /\ UNCHANGED <<registryVars, workerVars, conf, ptr, pending, sock, sigchld>>

\* waitpid returned 0 or -1.
ReapDone ==
  /\ sigchld.reaping
  /\ \A p \in Pid : main[p] \notin Zombie
  /\ sigchld' = [sigchld EXCEPT !.reaping = FALSE]
  /\ UNCHANGED <<registryVars, workerVars, endpointVars>>

Next ==
  \/ WorkerNext
  \/ \E p \in Pid : EndpointNext(p) \/ Reap(p)
  \/ HandleSigchld \/ ReapDone

Spec == Init /\ [][Next]_vars

-----------------------------------------------------------------------------
(***************************************************************************)
(* Properties.                                                             *)
(***************************************************************************)
\* The entry of the endpoint p.
EntryOf(p) == {s \in used : node[s].pid = p /\ node[s].port = conf[p].port}

\* The worker has forked p and has not added its entry yet.
BeingAdded(p) == worker = "add" /\ child = p

\* add_element does not look for duplicates: that no port is listed twice is
\* the work of the worker, which looks up, removes and adds without letting
\* the mutex go.
PortsUnique ==
  \A s, t \in used : node[s].port = node[t].port => s = t

\* What the worker knows of the list while it holds the mutex.
WorkerSection ==
  /\ worker = "signal" => found \in used /\ node[found].port = task.port
  /\ worker \in {"launch", "add"} => Match(task.port) = {}
  /\ worker = "add" /\ main[child] \in Serving => conf[child].port = task.port

\* The registry keeps track of every endpoint that runs: its entry, with its
\* own pid, is there until the process itself removes it, although every
\* removal is by port and stale entries of dead processes are removed too.
LiveRegistered ==
  \A p \in Pid : main[p] \in Serving => BeingAdded(p) \/ EntryOf(p) # {}

\* What these properties need: the list has a node for every port, the kernel
\* queues every signal, and ports have 16 bits.
WithinLimits ==
  /\ IsFiniteSet(Slot) /\ IsFiniteSet(Port)
  /\ Cardinality(Port) <= Cardinality(Slot)
  /\ ~QueueMayFill
  /\ \A port \in Port : uint16[port] = port

\* No two processes serve one port: while one does, from its fork to the removal
\* of its entry, the worker launches no other for the port.
OneEndpointPerPort ==
  \A p, q \in Pid :
    main[p] \in Serving /\ main[q] \in Serving /\ conf[p].port = conf[q].port
      => p = q

\* A process that is to bind the socket of its port finds it bound only by one that
\* has removed its entry and has only to exit: a predecessor that left its socket
\* open may still make its successor fail, one that still serves never does.
BoundByTheLeaving ==
  \A p, q \in Pid :
    sock[p] = "opening" /\ sock[q] = conf[p].port => main[q] = "exit"

\* The pointer an endpoint dereferences without the mutex is neither NULL nor
\* to a node that has been freed, or reused for another endpoint.
PointerValid ==
  \A p \in Pid :
    main[p] \in {"copy", "copyRest"} => ptr[p] \in EntryOf(p)

\* Even when the list is full, an endpoint that is about to use a NULL pointer is
\* one the registry has no entry for: it was signalled through the entry of an
\* earlier process with its pid.
OnlyTheUntrackedCrash ==
  \A p \in Pid : main[p] = "copy" /\ ptr[p] = NoSlot => EntryOf(p) = {}

\* The parts of its entry an endpoint has in conf, by where it is.
InStep(p, s) ==
  /\ main[p] \in {"exec", "wait", "copyRest"} => conf[p].dest = node[s].dest
  /\ main[p] \in {"exec", "wait"} => conf[p].duration = node[s].duration

\* An endpoint that does not run with what its entry says, because it has not
\* read the entry again or has read half an update, has a signal to come.
ConfFresh ==
  \A p \in Pid : main[p] \in Serving \ {"join", "remove"} =>
    \A s \in EntryOf(p) :
      InStep(p, s) \/ pending[p] > 0 \/ (worker = "signal" /\ found = s)

\* SIGCHLD does not queue, and yet no process that exits stays a zombie
\* without a run of the handler that is to come or in progress.
ZombieNoticed ==
  (\E p \in Pid : main[p] \in Zombie) => sigchld.pending \/ sigchld.reaping

\* An entry leaves the registry when its process is gone or is leaving, never
\* under a process that still serves.
OnlyTheGoneAreForgotten ==
  [][\A s \in used \ used' : main[node[s].pid] \in {"none", "remove"}]_vars

\* What the registry and the processes do together is what PortService promises:
\* ports are assigned to one process each, which follows its entry until it ends.
Entries == {node[s] : s \in used}

Running == {WithPid(conf[p], p) : p \in {q \in Pid : main[q] \in Serving}}

Starting == IF worker = "add" THEN {WithPid(task, child)} ELSE {}

Service == INSTANCE PortService WITH
  Assignment <- Data, entries <- Entries, running <- Running, starting <- Starting

ImplementsService == Service!ServiceSpec

-----------------------------------------------------------------------------
(***************************************************************************)
(* What the documentation or the comments say and the code does not do.    *)
(***************************************************************************)
\* An endpoint that was notified of a request runs it: "This mechanism allows
\* already spawned Media Endpoint processes to be reused" (README.md:16).  The
\* timeout does not look for a signal that came after it.
NotifiedIsServed ==
  \A p \in Pid : main[p] \in {"join", "remove"} => pending[p] = 0

\* An endpoint finds the socket of its port free.  The destructor closes the
\* transport "if (stream)" (rtp_endpoint.cpp:57), and the entry goes before the
\* process does: the successor may fail to bind, and its entry stays.
PortIsFree == \A p \in Pid : sock[p] = "opening" => ~PortHeld(conf[p].port)

\* SIGRTMIN does not kill an endpoint: "Block SIGRTMIN" (media_endpoint.cpp:186).
\* The worker may signal the process before it gets there.
NeverKilled == \A p \in Pid : main[p] # "killed"
=============================================================================
