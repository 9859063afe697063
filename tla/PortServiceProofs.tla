-------------------------- MODULE PortServiceProofs --------------------------
(***************************************************************************)
(* Proof that MediaPlane implements PortService within its limits: every   *)
(* step of a server and its endpoints is one of the service, or one that   *)
(* the service does not see.  The argument is SafetyInv of MediaPlaneProofs*)
(***************************************************************************)
EXTENDS MediaPlaneProofs

USE DEF Serving, Zombie

-----------------------------------------------------------------------------
(***************************************************************************)
(* What a step does to the sets of the service.                            *)
(***************************************************************************)
\* What the process p carries out.
RunBy(p) == WithPid(conf[p], p)

\* The assignments of two processes are different.
LEMMA RunByPid ==
  ASSUME NEW p PROVE RunBy(p).pid = p /\ RunBy(p).port = conf[p].port
BY DEF RunBy, WithPid

\* An assignment is one of a process that serves.
LEMMA RunningDef ==
  ASSUME NEW r PROVE r \in Running <=> \E p \in Pid : main[p] \in Serving /\ r = RunBy(p)
BY DEF Running, RunBy

\* Nothing that is seen of the processes changes.
LEMMA SameRunning ==
  ASSUME \A q \in Pid : (main'[q] \in Serving <=> main[q] \in Serving),
         \A q \in Pid : main[q] \in Serving => conf'[q] = conf[q]
  PROVE  Running' = Running
BY DEF Running

\* The process p begins to serve.
LEMMA MoreRunning ==
  ASSUME NEW p \in Pid, main[p] \notin Serving, main'[p] \in Serving,
         \A q \in Pid \ {p} : main'[q] = main[q] /\ conf'[q] = conf[q]
  PROVE  Running' = Running \cup {RunBy(p)'}
BY DEF Running, RunBy

\* The process p ends.
LEMMA LessRunning ==
  ASSUME NEW p \in Pid, main[p] \in Serving, main'[p] \notin Serving,
         \A q \in Pid \ {p} : main'[q] = main[q] /\ conf'[q] = conf[q]
  PROVE  Running' = Running \ {RunBy(p)} /\ RunBy(p) \in Running
<1>1. \A q \in Pid \ {p} : RunBy(q) # RunBy(p) /\ RunBy(q)' = RunBy(q)
  BY RunByPid DEF RunBy
<1>2. Running' = {RunBy(q)' : q \in {q \in Pid : main'[q] \in Serving}}
  BY DEF Running, RunBy
<1>3. Running = {RunBy(q) : q \in {q \in Pid : main[q] \in Serving}}
  BY DEF Running, RunBy
<1> QED BY <1>1, <1>2, <1>3

\* The process p serves with another configuration.
LEMMA OtherRunning ==
  ASSUME NEW p \in Pid, main[p] \in Serving, main'[p] \in Serving,
         \A q \in Pid \ {p} : main'[q] = main[q] /\ conf'[q] = conf[q]
  PROVE  Running' = (Running \ {RunBy(p)}) \cup {RunBy(p)'} /\ RunBy(p) \in Running
<1>1. \A q \in Pid \ {p} : RunBy(q) # RunBy(p) /\ RunBy(q)' = RunBy(q)
  BY RunByPid DEF RunBy
<1>2. Running' = {RunBy(q)' : q \in {q \in Pid : main'[q] \in Serving}}
  BY DEF Running, RunBy
<1>3. Running = {RunBy(q) : q \in {q \in Pid : main[q] \in Serving}}
  BY DEF Running, RunBy
<1> QED BY <1>1, <1>2, <1>3

\* A process that exits dies for the service, if it was alive.
LEMMA ExitIsDeath ==
  ASSUME TypeOK, NEW p \in Pid, NEW how \in Zombie, Exit(p, how),
         UNCHANGED <<Entries, Starting>>
  PROVE  [Service!ServiceNext]_Service!serviceVars
<1>1. main' = [main EXCEPT ![p] = how] /\ conf' = [conf EXCEPT ![p] = Blank]
  BY DEF Exit
<1>2. main'[p] \notin Serving /\ \A q \in Pid \ {p} : main'[q] = main[q] /\ conf'[q] = conf[q]
  BY <1>1 DEF TypeOK
<1>3. CASE main[p] \in Serving
  <2>1. Service!Die(RunBy(p)) /\ RunBy(p) \in Running
    BY <1>2, <1>3, LessRunning DEF Service!Die
  <2> QED BY <2>1 DEF Service!ServiceNext
<1>4. CASE main[p] \notin Serving
  <2>1. Running' = Running
    BY <1>2, <1>4, SameRunning
  <2> QED BY <2>1 DEF Service!serviceVars
<1> QED BY <1>3, <1>4

\* One entry is overwritten, or leaves the registry.
LEMMA OneEntry ==
  ASSUME RegistryTypeOK, PortsUnique, NEW s \in used
  PROVE  /\ node[s] \in Entries
         /\ \A t \in used \ {s} : node[t] # node[s]
         /\ \A d \in Data : Write(s, d) => Entries' = (Entries \ {node[s]}) \cup {d}
         /\ Free(s) => Entries' = Entries \ {node[s]}
<1>1. \A t \in used \ {s} : node[t] # node[s]
  BY DEF PortsUnique
<1>2. ASSUME NEW d \in Data, Write(s, d)
      PROVE  Entries' = (Entries \ {node[s]}) \cup {d}
  BY <1>1, <1>2 DEF Write, Entries, RegistryTypeOK
<1>3. Free(s) => Entries' = Entries \ {node[s]}
  BY <1>1 DEF Free, Entries
<1> QED BY <1>1, <1>2, <1>3 DEF Entries

\* A step that changes neither the registry nor who serves with what is not seen,
\* if it is not one of the worker's with a process that it is about to enter.
LEMMA NotSeen ==
  ASSUME UNCHANGED registryVars, worker # "add", worker' # "add",
         \A q \in Pid : (main'[q] \in Serving <=> main[q] \in Serving),
         \A q \in Pid : main[q] \in Serving => conf'[q] = conf[q]
  PROVE  UNCHANGED Service!serviceVars
<1>1. Running' = Running
  BY SameRunning
<1>2. Entries' = Entries
  BY DEF Entries, registryVars
<1>3. Starting' = Starting
  BY DEF Starting
<1> QED BY <1>1, <1>2, <1>3 DEF Service!serviceVars

\* The same for a step of a process.
LEMMA NotSeenOfProcess ==
  ASSUME UNCHANGED <<registryVars, workerVars>>,
         \A q \in Pid : (main'[q] \in Serving <=> main[q] \in Serving),
         \A q \in Pid : main[q] \in Serving => conf'[q] = conf[q]
  PROVE  UNCHANGED Service!serviceVars
<1>1. Running' = Running
  BY SameRunning
<1>2. Entries' = Entries /\ Starting' = Starting
  BY DEF Entries, Starting, registryVars, workerVars
<1> QED BY <1>1, <1>2 DEF Service!serviceVars

-----------------------------------------------------------------------------
(***************************************************************************)
(* The steps of the worker.                                                *)
(***************************************************************************)
\* A lookup is a redirection, or is not seen.
LEMMA TakeTaskImplements ==
  ASSUME SafetyInv, NEW request \in Request, TakeTask(request)
  PROVE  [Service!ServiceNext]_Service!serviceVars
<1>0. /\ TypeOK /\ RegistryTypeOK /\ PortsUnique
      /\ worker = "idle" /\ worker' \in {"launch", "signal"}
      /\ main' = main /\ conf' = conf
  BY DEF SafetyInv, TypeOK, TakeTask, endpointVars
<1>1. CASE UNCHANGED registryVars
  BY <1>0, <1>1, NotSeen
<1>2. ASSUME NEW t \in Match(request.port), Write(t, WithPid(request, node[t].pid))
      PROVE  Service!ServiceNext
  <2> DEFINE d == WithPid(request, node[t].pid)
  <2>1. t \in used /\ node[t] \in Data /\ node[t].port = request.port
    BY <1>0 DEF Match, RegistryTypeOK
  <2>2. d \in Data
    BY <2>1, WithPidType DEF Data
  <2>3. Service!Same(node[t], d)
    BY <2>1 DEF Service!Same, WithPid
  <2>4. node[t] \in Entries /\ Entries' = (Entries \ {node[t]}) \cup {d}
    BY <1>0, <1>2, <2>1, <2>2, OneEntry
  <2>5. Running' = Running /\ Starting' = Starting
    BY <1>0, SameRunning DEF Starting
  <2>6. Service!Redirect(node[t], d)
    BY <2>3, <2>4, <2>5 DEF Service!Redirect
  <2> QED BY <2>2, <2>4, <2>6 DEF Service!ServiceNext
<1> QED BY <1>1, <1>2 DEF TakeTask

\* A signal kills a process that has not blocked it yet, or is not seen.
LEMMA SignalImplements ==
  ASSUME SafetyInv, Signal
  PROVE  [Service!ServiceNext]_Service!serviceVars
<1> DEFINE p == node[found].pid
<1>1. TypeOK /\ worker = "signal" /\ worker' = "idle" /\ UNCHANGED registryVars /\ p \in Pid
  BY DEF SafetyInv, Signal, WorkerDone, TypeOK, RegistryTypeOK, WorkerSection, Data
<1>2. Entries' = Entries /\ Starting' = Starting
  BY <1>1 DEF Entries, Starting, registryVars
<1>3. CASE Exit(p, "killed")
  BY <1>1, <1>2, <1>3, ExitIsDeath
<1>4. CASE UNCHANGED <<main, conf>>
  BY <1>1, <1>4, NotSeen
<1> QED BY <1>3, <1>4 DEF Signal, Deliver, endpointVars

\* sigqueue fails when the process is gone, and its entry is forgotten.
LEMMA SignalFailsImplements ==
  ASSUME WithinLimits, SafetyInv, SignalFails
  PROVE  [Service!ServiceNext]_Service!serviceVars
<1>1. /\ RegistryTypeOK /\ PortsUnique /\ found \in used
      /\ main[node[found].pid] = "none" /\ Free(found)
      /\ worker = "signal" /\ worker' = "launch" /\ main' = main /\ conf' = conf
  BY DEF WithinLimits, SafetyInv, TypeOK, WorkerSection, SignalFails, endpointVars
<1>2. node[found] \in Entries /\ Entries' = Entries \ {node[found]}
  BY <1>1, OneEntry
<1>3. Running' = Running /\ Starting' = Starting
  BY <1>1, SameRunning DEF Starting
<1>4. \A r \in Running : ~Service!Same(node[found], r)
  BY <1>1, RunningDef, RunByPid DEF Service!Same
<1>5. Service!Forget(node[found])
  BY <1>2, <1>3, <1>4 DEF Service!Forget
<1> QED BY <1>2, <1>5 DEF Service!ServiceNext

\* A process is launched for a port that has no entry, and no process either: it
\* would have an entry.
LEMMA LaunchImplements ==
  ASSUME WithinLimits, SafetyInv, NEW p \in Pid, Launch(p)
  PROVE  [Service!ServiceNext]_Service!serviceVars
<1> DEFINE a == WithPid(task, p)
<1>1. /\ TypeOK /\ RegistryTypeOK /\ task \in Request /\ Match(task.port) = {}
      /\ worker = "launch" /\ main[p] = "none" /\ worker' = "add" /\ child' = p
      /\ UNCHANGED <<registryVars, task>>
  BY DEF SafetyInv, TypeOK, WorkerSection, Launch
<1>2. main' = [main EXCEPT ![p] = "exec"] /\ conf' = [conf EXCEPT ![p] = task]
  BY <1>1 DEF Launch, WithinLimits, Request
<1>3. a \in Data /\ a.port = task.port /\ a.pid = p
  BY <1>1, WithPidType DEF WithPid
<1>4. /\ main[p] \notin Serving /\ main'[p] \in Serving /\ conf'[p] = task
      /\ \A q \in Pid \ {p} : main'[q] = main[q] /\ conf'[q] = conf[q]
  BY <1>1, <1>2 DEF TypeOK
<1>5. Running' = Running \cup {a}
  BY <1>4, MoreRunning DEF RunBy
<1>6. Entries' = Entries /\ Starting = {} /\ Starting' = {a}
  BY <1>1 DEF Entries, Starting, registryVars
<1>7. \A e \in Entries : e.port # a.port
  BY <1>1, <1>3 DEF Entries, Match
<1>8. \A r \in Running : r.port # a.port /\ r.pid # a.pid
  <2> SUFFICES ASSUME NEW q \in Pid, main[q] \in Serving
               PROVE  conf[q].port # task.port /\ q # p
    BY <1>3, RunningDef, RunByPid
  <2>1. EntryOf(q) # {}
    BY <1>1 DEF SafetyInv, LiveRegistered, BeingAdded
  <2> QED BY <1>1, <2>1 DEF EntryOf, Match
<1>9. Service!Launch(a)
  BY <1>5, <1>6, <1>7, <1>8 DEF Service!Launch
<1> QED BY <1>3, <1>9 DEF Service!ServiceNext

\* There is room for the new entry.
LEMMA AddImplements ==
  ASSUME WithinLimits, SafetyInv, Add
  PROVE  [Service!ServiceNext]_Service!serviceVars
<1> DEFINE a == WithPid(task, child)
<1>1. /\ RegistryTypeOK /\ PortsUnique /\ task.port \in Port /\ Match(task.port) = {}
      /\ worker = "add" /\ worker' = "idle" /\ main' = main /\ conf' = conf
  BY DEF SafetyInv, TypeOK, WorkerSection, Add, WorkerDone, endpointVars, Request
<1>2. PICK s \in Slot \ used : used' = used \cup {s} /\ node' = [node EXCEPT ![s] = a]
  BY <1>1, RoomToAdd DEF Add, AddElement
<1>3. Entries' = Entries \cup {a}
  BY <1>1, <1>2 DEF Entries, RegistryTypeOK
<1>4. Starting = {a} /\ Starting' = {} /\ Running' = Running
  BY <1>1, SameRunning DEF Starting
<1>5. Service!Enter(a)
  BY <1>3, <1>4 DEF Service!Enter
<1> QED BY <1>4, <1>5 DEF Service!ServiceNext

-----------------------------------------------------------------------------
(***************************************************************************)
(* The steps of the endpoints.                                             *)
(***************************************************************************)
\* An endpoint reads its own entry, one part at a time.
LEMMA CopyImplements ==
  ASSUME SafetyInv, NEW p \in Pid, CopyStart(p) \/ CopyRest(p)
  PROVE  [Service!ServiceNext]_Service!serviceVars
<1> DEFINE e == node[ptr[p]]
           a == RunBy(p)'
<1>1. /\ TypeOK /\ main[p] \in {"copy", "copyRest"} /\ ptr[p] \in EntryOf(p)
      /\ UNCHANGED <<registryVars, workerVars>>
  BY DEF SafetyInv, PointerValid, CopyStart, CopyRest
<1>2. e \in Entries /\ e.pid = p /\ e.port = conf[p].port
  BY <1>1 DEF EntryOf, Entries
<1>3. conf[p] \in Request
  BY <1>1 DEF TypeOK
<1>4. /\ main'[p] \in Serving /\ main[p] \in Serving
      /\ \A q \in Pid \ {p} : main'[q] = main[q] /\ conf'[q] = conf[q]
  BY <1>1 DEF CopyStart, CopyRest, TypeOK
<1>5. \/ conf'[p] = [conf[p] EXCEPT !.port = e.port, !.dest = e.dest]
      \/ conf'[p] = [conf[p] EXCEPT !.duration = e.duration]
  BY <1>1 DEF CopyStart, CopyRest, TypeOK
<1>6. a \in {[RunBy(p) EXCEPT !.dest = e.dest], [RunBy(p) EXCEPT !.duration = e.duration]}
  <2>1. a = WithPid(conf'[p], p)
    BY DEF RunBy
  <2>2. \/ /\ conf'[p].port = conf[p].port /\ conf'[p].dest = e.dest
           /\ conf'[p].duration = conf[p].duration
        \/ /\ conf'[p].port = conf[p].port /\ conf'[p].dest = conf[p].dest
           /\ conf'[p].duration = e.duration
    BY <1>2, <1>3, <1>5 DEF Request
  <2>3. /\ [RunBy(p) EXCEPT !.dest = e.dest] =
             [port |-> conf[p].port, dest |-> e.dest,
              duration |-> conf[p].duration, pid |-> p]
        /\ [RunBy(p) EXCEPT !.duration = e.duration] =
             [port |-> conf[p].port, dest |-> conf[p].dest,
              duration |-> e.duration, pid |-> p]
    BY DEF RunBy, WithPid
  <2> QED BY <2>1, <2>2, <2>3 DEF WithPid
<1>7. Running' = (Running \ {RunBy(p)}) \cup {a} /\ RunBy(p) \in Running
  BY <1>4, OtherRunning
<1>8. Entries' = Entries /\ Starting' = Starting
  BY <1>1 DEF Entries, Starting, registryVars, workerVars
<1>9. Service!Adopt(RunBy(p), e)
  BY <1>2, <1>6, <1>7, <1>8, RunByPid DEF Service!Adopt, Service!Same
<1> QED BY <1>2, <1>7, <1>9 DEF Service!ServiceNext

\* An endpoint that leaves removes its own entry, although it does so by port.
LEMMA LeaveImplements ==
  ASSUME SafetyInv, NEW p \in Pid, Leave(p)
  PROVE  [Service!ServiceNext]_Service!serviceVars
<1>1. /\ TypeOK /\ RegistryTypeOK /\ PortsUnique /\ worker = "idle" /\ main[p] = "remove"
      /\ main' = [main EXCEPT ![p] = "exit"] /\ conf' = [conf EXCEPT ![p] = Blank]
      /\ RemoveElement(conf[p].port) /\ UNCHANGED workerVars
  BY DEF SafetyInv, TypeOK, Leave, ListFree
<1>2. PICK t \in EntryOf(p) : TRUE
  BY <1>1 DEF SafetyInv, LiveRegistered, BeingAdded
<1>3. t \in used /\ node[t].pid = p /\ node[t].port = conf[p].port
  BY <1>2 DEF EntryOf
<1>4. Free(t)
  BY <1>1, <1>3 DEF RemoveElement, Match, PortsUnique
<1>5. node[t] \in Entries /\ Entries' = Entries \ {node[t]}
  BY <1>1, <1>3, <1>4, OneEntry
<1>6. /\ main[p] \in Serving /\ main'[p] \notin Serving
      /\ \A q \in Pid \ {p} : main'[q] = main[q] /\ conf'[q] = conf[q]
  BY <1>1 DEF TypeOK
<1>7. Running' = Running \ {RunBy(p)} /\ RunBy(p) \in Running
  BY <1>6, LessRunning
<1>8. Starting' = Starting
  BY <1>1 DEF Starting, workerVars
<1>9. Service!Leave(RunBy(p), node[t])
  BY <1>3, <1>5, <1>7, <1>8, RunByPid DEF Service!Leave, Service!Same
<1> QED BY <1>5, <1>7, <1>9 DEF Service!ServiceNext

\* An endpoint fails, or does what the service does not see, or one of these two.
LEMMA EndpointImplements ==
  ASSUME SafetyInv, NEW p \in Pid, EndpointNext(p)
  PROVE  [Service!ServiceNext]_Service!serviceVars
<1>0. TypeOK
  BY DEF SafetyInv
<1>1. CASE CopyStart(p) \/ CopyRest(p)
  BY <1>1, CopyImplements
<1>2. CASE Leave(p)
  BY <1>2, LeaveImplements
<1>3. CASE StartFails(p) \/ CopyFromNull(p) \/ ThreadFails(p)
           \/ End(p)
  <2>1. UNCHANGED <<Entries, Starting>>
    BY <1>3
    DEF StartFails, CopyFromNull, ThreadFails, End, Entries, Starting,
        registryVars, workerVars
  <2>2. \E how \in Zombie : Exit(p, how)
    BY <1>3 DEF StartFails, CopyFromNull, ThreadFails, End
  <2> QED BY <1>0, <2>1, <2>2, ExitIsDeath
<1>4. CASE Start(p) \/ TakeSignal(p) \/ Fetch(p) \/ Timeout(p) \/ Join(p)
  <2>1. /\ UNCHANGED <<registryVars, workerVars, conf>>
        /\ \A q \in Pid : (main'[q] \in Serving <=> main[q] \in Serving)
    BY <1>0, <1>4 DEF Start, TakeSignal, Fetch, Timeout, Join, TypeOK
  <2> QED BY <2>1, NotSeenOfProcess
<1>5. CASE OpenSocket(p)
  <2>1. UNCHANGED <<registryVars, workerVars, main, conf>>
    BY <1>5 DEF OpenSocket
  <2> QED BY <2>1, NotSeenOfProcess
<1> QED BY <1>1, <1>2, <1>3, <1>4, <1>5 DEF EndpointNext, SectionNext, OutsideNext, Copy

-----------------------------------------------------------------------------
(***************************************************************************)
(* The refinement.                                                         *)
(***************************************************************************)
\* Every step of the media plane is one of the service, or not seen by it.
LEMMA StepImplements ==
  ASSUME WithinLimits, SafetyInv, [Next]_vars
  PROVE  [Service!ServiceNext]_Service!serviceVars
<1>0. TypeOK
  BY DEF SafetyInv
<1>1. CASE WorkerNext
  <2>1. CASE LaunchFails
    <3>1. worker # "add" /\ worker' # "add" /\ main' = main /\ conf' = conf
          /\ UNCHANGED registryVars
      BY <2>1 DEF LaunchFails, WorkerDone, endpointVars
    <3> QED BY <3>1, NotSeen
  <2> QED
    BY <1>1, <2>1, TakeTaskImplements, SignalImplements, SignalFailsImplements,
       LaunchImplements, AddImplements
    DEF WorkerNext
<1>2. ASSUME NEW p \in Pid, EndpointNext(p)
      PROVE  [Service!ServiceNext]_Service!serviceVars
  BY <1>2, EndpointImplements
<1>3. ASSUME NEW p \in Pid, Reap(p) PROVE UNCHANGED Service!serviceVars
  <2>1. /\ UNCHANGED <<registryVars, workerVars, conf>>
        /\ \A q \in Pid : (main'[q] \in Serving <=> main[q] \in Serving)
    BY <1>0, <1>3 DEF Reap, TypeOK
  <2> QED BY <2>1, NotSeenOfProcess
<1>4. CASE HandleSigchld \/ ReapDone \/ UNCHANGED vars
  <2>1. UNCHANGED <<registryVars, workerVars, main, conf>>
    BY <1>4 DEF HandleSigchld, ReapDone, endpointVars, vars
  <2> QED BY <2>1, NotSeenOfProcess
<1> QED BY <1>1, <1>2, <1>3, <1>4 DEF Next

\* A media server and its endpoints, however many, implement the service, if the
\* list has a node for every port, the kernel queues every signal and ports have
\* 16 bits.
THEOREM PlaneImplementsService ==
  ASSUME WithinLimits
  PROVE  Spec => ImplementsService
<1>1. Init => Service!ServiceInit
  BY DEF Init, Initialize, Service!ServiceInit, Entries, Running, Starting
<1>2. SafetyInv /\ [Next]_vars => [Service!ServiceNext]_Service!serviceVars
  BY StepImplements
<1> QED
  BY <1>1, <1>2, SafetyInvariant, PTL
  DEF Spec, ImplementsService, Service!ServiceSpec
=============================================================================
