-------------------------- MODULE MediaPlaneProofs --------------------------
(***************************************************************************)
(* Proofs of the safety properties of MediaPlane, for any number of ports, *)
(* nodes, processes and pending signals.                                   *)
(***************************************************************************)
EXTENDS MediaPlane, FiniteSetTheorems, TLAPS

USE DEF Serving, Zombie, WorkerState, ListFree

-----------------------------------------------------------------------------
(***************************************************************************)
(* Type correctness.                                                       *)
(***************************************************************************)
\* TypeOK without the sockets, and with what a node or a configuration may be: D and
\* R.  A media server that is started again writes -1 for a port, so that they are
\* more there.
Types(D, R) ==
  /\ used \in SUBSET Slot
  /\ node \in [Slot -> D \cup {Blank}]
  /\ \A s \in used : node[s] \in Data
  /\ worker \in WorkerState
  /\ task \in Request \cup {Blank}
  /\ worker # "idle" => task \in Request
  /\ found \in Slot \cup {NoSlot}
  /\ worker = "signal" <=> found \in Slot
  /\ child \in Pid \cup {NoPid}
  /\ worker = "add" <=> child \in Pid
  /\ main \in [Pid -> Serving \cup {"exit"} \cup Zombie \cup {"none"}]
  /\ conf \in [Pid -> R \cup {Blank}]
  /\ \A p \in Pid : main[p] \in Serving => conf[p] \in R
  /\ ptr \in [Pid -> Slot \cup {NoSlot}]
  /\ \A p \in Pid : ptr[p] # NoSlot => node[ptr[p]] \in D
  /\ \A p \in Pid : main[p] = "copyRest" => ptr[p] # NoSlot
  /\ pending \in [Pid -> Nat]
  /\ sigchld \in [pending: BOOLEAN, reaping: BOOLEAN]

\* There are nodes for all entries and configurations for all requests, and what
\* an endpoint makes of a configuration and a node is a configuration.
Widens(D, R) ==
  /\ Data \subseteq D /\ Request \subseteq R
  /\ \A r \in R, d \in D :
       /\ [r EXCEPT !.port = d.port, !.dest = d.dest] \in R
       /\ [r EXCEPT !.duration = d.duration] \in R

\* A socket is opened while the second thread may run, and is closed at the latest
\* when the process ends.
SockTypes ==
  /\ sock \in [Pid -> Port \cup {"closed", "opening"}]
  /\ \A p \in Pid : sock[p] = "opening" => main[p] \in ThreadRuns
  /\ \A p \in Pid : Bound(p) => main[p] \in ThreadRuns \cup {"remove", "exit"}

LEMMA TypeOKTypes == TypeOK <=> Types(Data, Request) /\ SockTypes
BY DEF TypeOK, RegistryTypeOK, Types, SockTypes

LEMMA DataWidens == Widens(Data, Request)
BY DEF Widens, Data, Request

\* Exit keeps the types, whatever process exits and however it does.
LEMMA ExitType ==
  ASSUME NEW D, NEW R, Types(D, R), NEW p, NEW how \in Zombie, Exit(p, how),
         UNCHANGED registryVars,
         worker' \in WorkerState, task' \in Request \cup {Blank},
         worker' # "idle" => task' \in Request,
         found' \in Slot \cup {NoSlot}, worker' = "signal" <=> found' \in Slot,
         child' \in Pid \cup {NoPid}, worker' = "add" <=> child' \in Pid
  PROVE  Types(D, R)'
BY PlaneAssumption DEF Types, Exit, registryVars

\* A pid makes a request an entry.
LEMMA WithPidType ==
  ASSUME NEW request \in Request, NEW p \in Pid
  PROVE  WithPid(request, p) \in Data
BY DEF WithPid, Request, Data

\* Every step keeps the types.
LEMMA TypesStep ==
  ASSUME NEW D, NEW R, Widens(D, R), Types(D, R), [Next]_vars
  PROVE  Types(D, R)'
<1>0. Data \subseteq D /\ Request \subseteq R
  BY DEF Widens
<1>1. ASSUME NEW request \in Request, TakeTask(request) PROVE Types(D, R)'
  <2>1. CASE Match(request.port) = {}
    BY <1>1, <2>1, PlaneAssumption
    DEF TakeTask, Types, registryVars, endpointVars
  <2>2. CASE Match(request.port) # {}
    <3>1. PICK s \in Match(request.port) :
            /\ found' = s
            /\ Write(s, WithPid(request, node[s].pid))
            /\ worker' = "signal"
      BY <1>1, <2>2 DEF TakeTask
    <3>2. s \in used /\ s \in Slot /\ node[s].pid \in Pid
      BY DEF Match, Types, Data
    <3>3. WithPid(request, node[s].pid) \in Data
      BY <3>2, WithPidType
    <3> QED
      BY <1>0, <1>1, <3>1, <3>2, <3>3, PlaneAssumption
      DEF TakeTask, Write, Types, endpointVars
  <2> QED BY <2>1, <2>2
<1>2. CASE Signal
  <2>1. CASE main[node[found].pid] = "exec" /\ Exit(node[found].pid, "killed")
    BY <1>2, <2>1, ExitType, PlaneAssumption DEF Signal, WorkerDone
  <2>2. CASE UNCHANGED <<main, conf, ptr, sock, sigchld>>
             /\ pending' = [pending EXCEPT ![node[found].pid] = @ + 1]
    <3> DEFINE target == node[found].pid
    <3>1. pending \in [Pid -> Nat] /\ pending' = [pending EXCEPT ![target] = @ + 1]
      BY <2>2 DEF Types
    <3> HIDE DEF target
    <3>2. \A q \in Pid : pending[q] \in Nat /\ pending[q] + 1 \in Nat
      BY <3>1
    <3>3. \A q \in Pid : pending'[q] = IF q = target THEN pending[q] + 1 ELSE pending[q]
      BY <3>1
    <3>4. pending' \in [Pid -> Nat]
      BY <3>1, <3>2, <3>3
    <3> QED
      BY <1>2, <2>2, <3>4, PlaneAssumption
      DEF Signal, WorkerDone, Types, registryVars
  <2>3. CASE UNCHANGED <<endpointVars, sigchld>>
    BY <1>2, <2>3, PlaneAssumption
    DEF Signal, WorkerDone, Types, registryVars, endpointVars
  <2> QED BY <1>2, <2>1, <2>2, <2>3 DEF Signal, Deliver
<1>3. CASE SignalFails
  BY <1>3, PlaneAssumption
  DEF SignalFails, Free, Types, endpointVars
<1>4. ASSUME NEW p \in Pid, Launch(p) PROVE Types(D, R)'
  BY <1>0, <1>4, PlaneAssumption DEF Launch, Types, registryVars, Request
<1>5. CASE LaunchFails
  BY <1>5, PlaneAssumption
  DEF LaunchFails, WorkerDone, Types, registryVars, endpointVars
<1>6. CASE Add
  <2>1. WithPid(task, child) \in Data
    BY <1>6, WithPidType DEF Add, Types
  <2> QED
    BY <1>0, <1>6, <2>1, PlaneAssumption
    DEF Add, AddElement, WorkerDone, Types, registryVars, endpointVars
<1>7. ASSUME NEW p \in Pid, EndpointNext(p) PROVE Types(D, R)'
  <2>1. CASE Start(p)
    BY <2>1 DEF Start, Types, registryVars, workerVars
  <2>2. CASE StartFails(p)
    BY <2>2, ExitType DEF StartFails, workerVars, Types
  <2>3. CASE TakeSignal(p)
    BY <2>3 DEF TakeSignal, Types, registryVars, workerVars
  <2>4. CASE Fetch(p)
    BY <1>0, <2>4, PlaneAssumption
    DEF Fetch, Match, Types, registryVars, workerVars
  <2>5. CASE CopyStart(p)
    <3>1. node[ptr[p]] \in D /\ conf[p] \in R
      BY <2>5 DEF CopyStart, Types
    <3>2. conf' = [conf EXCEPT ![p] = [@ EXCEPT !.port = node[ptr[p]].port,
                                                !.dest = node[ptr[p]].dest]]
      BY <2>5, <3>1 DEF CopyStart, Types
    <3>3. conf' \in [Pid -> R \cup {Blank}] /\ conf'[p] \in R
      BY <3>1, <3>2 DEF Types, Widens
    <3> QED
      BY <2>5, <3>3 DEF CopyStart, Types, registryVars, workerVars
  <2>6. CASE CopyRest(p)
    <3>1. node[ptr[p]] \in D /\ conf[p] \in R
      BY <2>6 DEF CopyRest, Types
    <3>2. conf' \in [Pid -> R \cup {Blank}] /\ conf'[p] \in R
      BY <2>6, <3>1 DEF CopyRest, Types, Widens
    <3> QED
      BY <2>6, <3>2 DEF CopyRest, Types, registryVars, workerVars
  <2>7. CASE CopyFromNull(p)
    BY <2>7, ExitType DEF CopyFromNull, workerVars, Types
  <2>8. CASE Timeout(p)
    BY <2>8 DEF Timeout, Types, registryVars, workerVars
  <2>9. CASE Join(p)
    BY <2>9 DEF Join, Types, registryVars, workerVars
  <2>10. CASE Leave(p)
    BY <2>10, PlaneAssumption
    DEF Leave, RemoveElement, Free, Types, registryVars, workerVars
  <2>11. CASE OpenSocket(p)
    BY <2>11 DEF OpenSocket, Types, registryVars, workerVars
  <2>12. CASE End(p)
    BY <2>12, ExitType DEF End, workerVars, Types
  <2>13. CASE ThreadFails(p)
    BY <2>13, ExitType DEF ThreadFails, workerVars, Types
  <2> QED
    BY <1>7, <2>1, <2>2, <2>3, <2>4, <2>5, <2>6, <2>7, <2>8, <2>9,
       <2>10, <2>11, <2>12, <2>13 DEF EndpointNext, SectionNext, OutsideNext, Copy
<1>8. ASSUME NEW p \in Pid, Reap(p) PROVE Types(D, R)'
  BY <1>8 DEF Reap, Types, registryVars, workerVars
<1>9. CASE HandleSigchld
  BY <1>9 DEF HandleSigchld, Types, registryVars, workerVars, endpointVars
<1>10. CASE ReapDone
  BY <1>10 DEF ReapDone, Types, registryVars, workerVars, endpointVars
<1>11. CASE UNCHANGED vars
  BY <1>11 DEF vars, Types, registryVars, workerVars, endpointVars
<1> QED
  BY <1>1, <1>2, <1>3, <1>4, <1>5, <1>6, <1>7, <1>8, <1>9, <1>10, <1>11
  DEF Next, WorkerNext

\* A process that exits has no socket.
LEMMA SockExit ==
  ASSUME SockTypes, NEW p, NEW how, Exit(p, how),
         main \in [Pid -> Serving \cup {"exit"} \cup Zombie \cup {"none"}]
  PROVE  SockTypes'
<1>1. sock' \in [Pid -> Port \cup {"closed", "opening"}]
  BY DEF SockTypes, Exit
<1>2. \A q \in Pid : \/ main'[q] = main[q] /\ sock'[q] = sock[q]
                     \/ sock'[q] = "closed"
  BY DEF SockTypes, Exit
<1> QED BY <1>1, <1>2 DEF SockTypes, Bound

\* Every step keeps the types of the sockets.
LEMMA SockTypesStep ==
  ASSUME TypeOK, [Next]_vars
  PROVE  SockTypes'
<1>0. SockTypes /\ main \in [Pid -> Serving \cup {"exit"} \cup Zombie \cup {"none"}]
  BY TypeOKTypes DEF TypeOK
<1>1. ASSUME UNCHANGED <<main, sock>> PROVE SockTypes'
  BY <1>0, <1>1 DEF SockTypes, Bound
<1>2. CASE WorkerNext
  <2>1. CASE Signal
    BY <1>0, <1>1, <2>1, SockExit DEF Signal, Deliver, endpointVars
  <2>2. ASSUME NEW p \in Pid, Launch(p) PROVE SockTypes'
    BY <1>0, <2>2 DEF Launch, SockTypes, Bound, ThreadRuns
  <2> QED
    BY <1>1, <1>2, <2>1, <2>2
    DEF WorkerNext, TakeTask, SignalFails, LaunchFails, Add, endpointVars
<1>3. ASSUME NEW p \in Pid, EndpointNext(p) PROVE SockTypes'
  <2>1. CASE StartFails(p) \/ CopyFromNull(p) \/ ThreadFails(p)
             \/ End(p)
    BY <1>0, <2>1, SockExit
    DEF StartFails, CopyFromNull, ThreadFails, End
  <2>2. CASE Start(p)
    BY <1>0, <2>2 DEF Start, SockTypes, Bound, ThreadRuns
  <2>3. CASE OpenSocket(p)
    <3>1. conf[p].port \in Port
      BY <1>0, <2>3 DEF OpenSocket, TypeOK, SockTypes, ThreadRuns, Request
    <3> QED BY <1>0, <2>3, <3>1 DEF OpenSocket, SockTypes, Bound
  <2>4. CASE Join(p)
    BY <1>0, <2>4 DEF Join, CloseSocket, SockTypes, Bound, ThreadRuns
  <2>5. CASE Leave(p)
    BY <1>0, <2>5 DEF Leave, SockTypes, Bound, ThreadRuns
  <2>6. CASE TakeSignal(p) \/ Fetch(p) \/ CopyStart(p) \/ CopyRest(p) \/ Timeout(p)
    <3>1. /\ main[p] \in ThreadRuns /\ main'[p] \in ThreadRuns /\ sock' = sock
          /\ \A q \in Pid \ {p} : main'[q] = main[q]
      BY <1>0, <2>6 DEF TakeSignal, Fetch, CopyStart, CopyRest, Timeout, ThreadRuns
    <3> QED BY <1>0, <3>1 DEF SockTypes, Bound
  <2> QED
    BY <1>3, <2>1, <2>2, <2>3, <2>4, <2>5, <2>6
    DEF EndpointNext, SectionNext, OutsideNext, Copy
<1>4. ASSUME NEW p \in Pid, Reap(p) PROVE SockTypes'
  BY <1>0, <1>4 DEF Reap, SockTypes, Bound, ThreadRuns
<1>5. CASE HandleSigchld \/ ReapDone \/ UNCHANGED vars
  BY <1>1, <1>5 DEF HandleSigchld, ReapDone, vars, endpointVars
<1> QED BY <1>2, <1>3, <1>4, <1>5 DEF Next

\* So the types of this module are kept.
LEMMA TypeStep == TypeOK /\ [Next]_vars => TypeOK'
<1> SUFFICES ASSUME TypeOK, [Next]_vars PROVE TypeOK'
  OBVIOUS
<1>1. Types(Data, Request)
  BY TypeOKTypes
<1>2. Types(Data, Request)' /\ SockTypes'
  BY <1>1, DataWidens, TypesStep, SockTypesStep
<1> QED BY <1>2 DEF TypeOK, RegistryTypeOK, Types, SockTypes

\* Every variable has its type, and a pointer that is dereferenced points to a
\* node that has been written.
THEOREM TypeCorrect == Spec => []TypeOK
<1>1. Init => TypeOK
  BY PlaneAssumption, PortAssumption DEF Init, Initialize, TypeOK, RegistryTypeOK, Bound
<1> QED
  BY <1>1, TypeStep, PTL DEF Spec

-----------------------------------------------------------------------------
(***************************************************************************)
(* The registry and the processes.  OneEndpointPerPort is not inductive,   *)
(* and neither is LiveRegistered alone: removals are by port, so that they *)
(* spare the entries of others needs PortsUnique, which needs what the     *)
(* worker knows of the list between its lookup and its unlock.             *)
(***************************************************************************)
SafetyInv ==
  TypeOK /\ PortsUnique /\ WorkerSection /\ LiveRegistered /\ PointerValid

\* A port that is not listed leaves a free node for it.
LEMMA RoomToAdd ==
  ASSUME WithinLimits, RegistryTypeOK, PortsUnique,
         NEW port \in Port, Match(port) = {}
  PROVE  used # Slot
<1> SUFFICES ASSUME used = Slot PROVE FALSE
  OBVIOUS
<1> DEFINE others == Port \ {port}
           portOf == [s \in Slot |-> node[s].port]
<1>1. portOf \in Injection(Slot, others)
  <2>1. \A s \in Slot : node[s].port \in others
    <3> TAKE s \in Slot
    <3>1. node[s] \in Data
      BY DEF RegistryTypeOK
    <3>2. node[s].port # port
      BY DEF Match
    <3> QED BY <3>1, <3>2 DEF Data
  <2>2. \A s, t \in Slot : portOf[s] = portOf[t] => s = t
    BY DEF PortsUnique
  <2>3. portOf \in [Slot -> others]
    BY <2>1
  <2> QED
    BY <2>2, <2>3 DEF Injection, IsInjective
<1>2. IsFiniteSet(others) /\ Cardinality(others) = Cardinality(Port) - 1
  BY FS_RemoveElement DEF WithinLimits
<1>3. Cardinality(Slot) <= Cardinality(others)
  BY <1>1, <1>2, FS_Injection
<1>4. Cardinality(Slot) \in Nat /\ Cardinality(Port) \in Nat
  BY FS_CardinalityType DEF WithinLimits
<1> QED
  BY <1>2, <1>3, <1>4 DEF WithinLimits

\* Two processes on one port would have two entries for it.
LEMMA OnePerPort == SafetyInv => OneEndpointPerPort
<1> SUFFICES ASSUME SafetyInv, NEW p \in Pid, NEW q \in Pid,
                    main[p] \in Serving, main[q] \in Serving,
                    conf[p].port = conf[q].port, p # q
             PROVE  FALSE
  BY DEF OneEndpointPerPort
<1>1. CASE BeingAdded(p) \/ BeingAdded(q)
  BY <1>1 DEF SafetyInv, WorkerSection, LiveRegistered, BeingAdded, EntryOf, Match
<1>2. CASE ~BeingAdded(p) /\ ~BeingAdded(q)
  BY <1>2 DEF SafetyInv, LiveRegistered, PortsUnique, EntryOf
<1> QED BY <1>1, <1>2

\* A step of one process, or of the worker letting the mutex go, that leaves
\* the registry alone and starts no process.
LEMMA LocalStep ==
  ASSUME SafetyInv, TypeOK', UNCHANGED registryVars,
         UNCHANGED workerVars \/ (worker # "add" /\ worker' = "idle"),
         \A q \in Pid : main'[q] \in Serving =>
            main[q] \in Serving /\ conf'[q].port = conf[q].port,
         \A q \in Pid : main'[q] \in {"copy", "copyRest"} => ptr'[q] \in EntryOf(q)
  PROVE  SafetyInv'
<1>1. PortsUnique'
  BY DEF SafetyInv, PortsUnique, registryVars
<1>2. WorkerSection'
  BY DEF SafetyInv, WorkerSection, TypeOK, Match, registryVars, workerVars
<1>3. \A q \in Pid : main'[q] \in Serving => EntryOf(q)' = EntryOf(q)
  BY DEF EntryOf, registryVars
<1>4. LiveRegistered'
  BY <1>3 DEF SafetyInv, LiveRegistered, BeingAdded, workerVars
<1>5. PointerValid'
  BY <1>3 DEF PointerValid
<1> QED
  BY <1>1, <1>2, <1>4, <1>5 DEF SafetyInv

\* A process that exits takes nothing with it.
LEMMA ExitStep ==
  ASSUME SafetyInv, TypeOK', UNCHANGED registryVars,
         UNCHANGED workerVars \/ (worker # "add" /\ worker' = "idle"),
         NEW p, NEW how \in Zombie, Exit(p, how)
  PROVE  SafetyInv'
<1>1. \A q \in Pid : main'[q] \in Serving =>
        main'[q] = main[q] /\ conf'[q] = conf[q] /\ ptr'[q] = ptr[q]
  BY DEF SafetyInv, TypeOK, Exit
<1> QED
  BY <1>1, LocalStep DEF SafetyInv, PointerValid

\* Every step keeps the invariant, if the list has a node for every port, the
\* kernel queues every signal and ports have 16 bits.
LEMMA SafetyStep ==
  ASSUME WithinLimits, SafetyInv, [Next]_vars
  PROVE  SafetyInv'
<1> USE DEF SafetyInv
<1>0. TypeOK /\ TypeOK'
  BY TypeStep
<1>1. ASSUME NEW request \in Request, TakeTask(request) PROVE SafetyInv'
  <2>1. CASE Match(request.port) = {}
    <3>1. UNCHANGED <<node, used, main, conf, ptr>> /\ worker = "idle" /\ worker' = "launch"
          /\ task' = request
      BY <1>1, <2>1 DEF TakeTask, registryVars, endpointVars
    <3> QED
      BY <1>0, <2>1, <3>1
      DEF PortsUnique, WorkerSection, LiveRegistered, PointerValid, EntryOf, Match, BeingAdded
  <2>2. ASSUME NEW s \in Match(request.port), found' = s,
               Write(s, WithPid(request, node[s].pid)), worker' = "signal"
        PROVE  SafetyInv'
    <3>1. UNCHANGED <<used, main, conf, ptr>> /\ worker = "idle" /\ task' = request
      BY <1>1, <2>2 DEF TakeTask, Write, endpointVars
    <3>2. s \in used /\ s \in Slot /\ node[s].port = request.port
      BY <1>0 DEF Match, TypeOK, RegistryTypeOK
    <3>3. \A t \in used : node'[t].port = node[t].port /\ node'[t].pid = node[t].pid
      BY <1>0, <2>2, <3>2 DEF Write, WithPid, TypeOK, RegistryTypeOK
    <3>4. \A q \in Pid : EntryOf(q)' = EntryOf(q)
      BY <3>1, <3>3 DEF EntryOf
    <3>5. PortsUnique' /\ WorkerSection'
      BY <2>2, <3>1, <3>2, <3>3 DEF PortsUnique, WorkerSection
    <3>6. LiveRegistered' /\ PointerValid'
      BY <3>1, <3>4 DEF LiveRegistered, PointerValid, BeingAdded
    <3> QED BY <1>0, <3>5, <3>6
  <2> QED BY <1>1, <2>1, <2>2 DEF TakeTask
<1>2. CASE Signal
  <2>1. UNCHANGED registryVars /\ worker # "add" /\ worker' = "idle"
    BY <1>2 DEF Signal, WorkerDone
  <2>2. CASE Exit(node[found].pid, "killed")
    BY <1>0, <2>1, <2>2, ExitStep
  <2>3. CASE UNCHANGED <<main, conf, ptr>>
    BY <1>0, <2>1, <2>3, LocalStep DEF PointerValid
  <2> QED BY <1>2, <2>2, <2>3 DEF Signal, Deliver, endpointVars
<1>3. CASE SignalFails
  <2>1. /\ UNCHANGED <<node, task, main, conf, ptr>>
        /\ worker = "signal" /\ worker' = "launch"
        /\ used' = used \ {found} /\ main[node[found].pid] = "none"
    BY <1>3 DEF SignalFails, Free, endpointVars, WithinLimits
  <2>2. found \in used /\ node[found].port = task.port
    BY <2>1 DEF WorkerSection
  <2>3. \A q \in Pid : main[q] \in Serving => EntryOf(q)' = EntryOf(q)
    BY <2>1 DEF EntryOf
  <2>4. PortsUnique'
    BY <2>1 DEF PortsUnique
  <2>5. WorkerSection'
    BY <2>1, <2>2 DEF WorkerSection, PortsUnique, Match
  <2>6. LiveRegistered' /\ PointerValid'
    BY <2>1, <2>3 DEF LiveRegistered, PointerValid, BeingAdded
  <2> QED BY <1>0, <2>4, <2>5, <2>6
<1>4. ASSUME NEW p \in Pid, Launch(p) PROVE SafetyInv'
  <2>1. /\ UNCHANGED <<node, used, task, ptr>>
        /\ worker = "launch" /\ worker' = "add" /\ child' = p
        /\ main[p] = "none" /\ main'[p] = "exec" /\ conf'[p] = task
        /\ \A q \in Pid \ {p} : main'[q] = main[q] /\ conf'[q] = conf[q]
    BY <1>0, <1>4 DEF Launch, registryVars, TypeOK, WithinLimits, Request
  <2>2. PortsUnique' /\ WorkerSection'
    BY <2>1 DEF PortsUnique, WorkerSection, Match
  <2>3. \A q \in Pid \ {p} : EntryOf(q)' = EntryOf(q)
    BY <2>1 DEF EntryOf
  <2>4. LiveRegistered' /\ PointerValid'
    BY <2>1, <2>3 DEF LiveRegistered, PointerValid, BeingAdded
  <2> QED BY <1>0, <2>2, <2>4
<1>5. CASE LaunchFails
  BY <1>0, <1>5, LocalStep DEF LaunchFails, WorkerDone, endpointVars, PointerValid
<1>6. CASE Add
  <2>1. /\ UNCHANGED <<main, conf, ptr>>
        /\ worker = "add" /\ worker' = "idle" /\ child \in Pid /\ task \in Request
    BY <1>0, <1>6 DEF Add, WorkerDone, endpointVars, TypeOK
  <2>2. Match(task.port) = {} /\ task.port \in Port
    BY <2>1 DEF WorkerSection, Request
  <2>3. used # Slot
    BY <1>0, <2>2, RoomToAdd DEF TypeOK
  <2>4. PICK s \in Slot \ used :
          used' = used \cup {s} /\ node' = [node EXCEPT ![s] = WithPid(task, child)]
    BY <1>6, <2>3 DEF Add, AddElement
  <2>5. /\ node'[s].port = task.port /\ node'[s].pid = child
        /\ \A t \in used : node'[t] = node[t]
    BY <1>0, <2>4 DEF TypeOK, RegistryTypeOK, WithPid
  <2>6. PortsUnique' /\ WorkerSection'
    BY <2>1, <2>2, <2>4, <2>5 DEF PortsUnique, WorkerSection, Match
  <2>7. \A q \in Pid : EntryOf(q) \subseteq EntryOf(q)'
    BY <2>1, <2>4, <2>5 DEF EntryOf
  <2>8. \A q \in Pid : q = child /\ main[q] \in Serving => s \in EntryOf(q)'
    BY <2>1, <2>4, <2>5 DEF WorkerSection, EntryOf
  <2>9. LiveRegistered' /\ PointerValid'
    BY <2>1, <2>7, <2>8 DEF LiveRegistered, PointerValid, BeingAdded
  <2> QED BY <1>0, <2>6, <2>9
<1>7. ASSUME NEW p \in Pid, EndpointNext(p) PROVE SafetyInv'
  <2>1. CASE StartFails(p) \/ CopyFromNull(p) \/ ThreadFails(p)
             \/ End(p)
    BY <1>0, <2>1, ExitStep
    DEF StartFails, CopyFromNull, ThreadFails, End
  <2>2. CASE Start(p) \/ TakeSignal(p) \/ Timeout(p) \/ Join(p) \/ OpenSocket(p)
    <3>1. UNCHANGED <<registryVars, workerVars, conf, ptr>>
      BY <2>2 DEF Start, TakeSignal, Timeout, Join, OpenSocket
    <3>2. \A q \in Pid : main'[q] \in Serving => main[q] \in Serving
      BY <1>0, <2>2
      DEF Start, TakeSignal, Timeout, Join, OpenSocket, TypeOK
    <3>3. \A q \in Pid : main'[q] \in {"copy", "copyRest"} => main'[q] = main[q]
      BY <1>0, <2>2
      DEF Start, TakeSignal, Timeout, Join, OpenSocket, TypeOK
    <3> QED
      BY <1>0, <3>1, <3>2, <3>3, LocalStep DEF PointerValid
  <2>3. CASE Fetch(p)
    <3>1. main[p] = "fetch" /\ worker = "idle" /\ UNCHANGED <<registryVars, workerVars, conf>>
      BY <2>3 DEF Fetch
    <3>2. PICK s \in EntryOf(p) : TRUE
      BY <3>1 DEF LiveRegistered, BeingAdded
    <3>3. Match(conf[p].port) = {s}
      BY <3>2 DEF Match, EntryOf, PortsUnique
    <3>4. ptr'[p] = s
      BY <1>0, <2>3, <3>3 DEF Fetch, TypeOK
    <3>5. \A q \in Pid : (main'[q] \in Serving => main[q] \in Serving)
            /\ (q # p => main'[q] = main[q] /\ ptr'[q] = ptr[q])
      BY <1>0, <2>3 DEF Fetch, TypeOK
    <3> QED
      BY <1>0, <3>1, <3>2, <3>4, <3>5, LocalStep DEF PointerValid
  <2>4. CASE CopyStart(p) \/ CopyRest(p)
    <3>1. /\ main[p] \in {"copy", "copyRest"} /\ main'[p] \in {"copyRest", "wait"}
          /\ main'[p] = "copyRest" => ptr'[p] = ptr[p]
          /\ UNCHANGED <<registryVars, workerVars>>
      BY <1>0, <2>4 DEF CopyStart, CopyRest, TypeOK
    <3>2. ptr[p] \in EntryOf(p)
      BY <3>1 DEF PointerValid
    <3>3. conf'[p].port = conf[p].port
      BY <1>0, <2>4, <3>1, <3>2 DEF CopyStart, CopyRest, EntryOf, TypeOK, Request
    <3>4. \A q \in Pid \ {p} :
            main'[q] = main[q] /\ conf'[q] = conf[q] /\ ptr'[q] = ptr[q]
      BY <1>0, <2>4 DEF CopyStart, CopyRest, TypeOK
    <3> QED
      BY <1>0, <3>1, <3>2, <3>3, <3>4, LocalStep DEF PointerValid
  <2>5. CASE Leave(p)
    <3>1. /\ main[p] = "remove" /\ worker = "idle" /\ UNCHANGED workerVars
          /\ main'[p] = "exit" /\ RemoveElement(conf[p].port)
          /\ \A q \in Pid \ {p} : main'[q] = main[q] /\ conf'[q] = conf[q] /\ ptr'[q] = ptr[q]
      BY <1>0, <2>5 DEF Leave, TypeOK
    <3>2. PICK s \in EntryOf(p) : TRUE
      BY <3>1 DEF LiveRegistered, BeingAdded
    <3>3. Match(conf[p].port) = {s}
      BY <3>2 DEF Match, EntryOf, PortsUnique
    <3>4. used' = used \ {s} /\ node' = node /\ node[s].pid = p
      BY <3>1, <3>2, <3>3 DEF RemoveElement, Free, EntryOf
    <3>5. \A q \in Pid \ {p} : EntryOf(q)' = EntryOf(q)
      BY <3>1, <3>4 DEF EntryOf
    <3>6. PortsUnique' /\ WorkerSection'
      BY <3>1, <3>4 DEF PortsUnique, WorkerSection, workerVars
    <3>7. LiveRegistered' /\ PointerValid'
      BY <3>1, <3>5 DEF LiveRegistered, PointerValid, BeingAdded, workerVars
    <3> QED BY <1>0, <3>6, <3>7
  <2> QED
    BY <1>7, <2>1, <2>2, <2>3, <2>4, <2>5 DEF EndpointNext, SectionNext, OutsideNext, Copy
<1>8. ASSUME NEW p \in Pid, Reap(p) PROVE SafetyInv'
  <2>1. \A q \in Pid : main'[q] \in Serving => main'[q] = main[q]
    BY <1>0, <1>8 DEF Reap, TypeOK
  <2> QED
    BY <1>0, <1>8, <2>1, LocalStep DEF Reap, PointerValid
<1>9. CASE HandleSigchld \/ ReapDone
  BY <1>0, <1>9, LocalStep DEF HandleSigchld, ReapDone, endpointVars, PointerValid
<1>10. CASE UNCHANGED vars
  BY <1>0, <1>10, LocalStep DEF vars, endpointVars, PointerValid
<1> QED
  BY <1>1, <1>2, <1>3, <1>4, <1>5, <1>6, <1>7, <1>8, <1>9, <1>10
  DEF Next, WorkerNext

\* The invariant holds initially: the list is empty and nothing runs.
LEMMA SafetyInit == Init => SafetyInv
<1>1. Init => TypeOK
  BY PlaneAssumption, PortAssumption DEF Init, Initialize, TypeOK, RegistryTypeOK, Bound
<1> QED
  BY <1>1
  DEF Init, Initialize, SafetyInv, PortsUnique, WorkerSection, LiveRegistered, PointerValid

\* The invariant holds in every state.
LEMMA SafetyInvariant ==
  ASSUME WithinLimits
  PROVE  Spec => []SafetyInv
<1>1. SafetyInv /\ [Next]_vars => SafetyInv'
  BY SafetyStep
<1> QED
  BY <1>1, SafetyInit, PTL DEF Spec

\* If the list has a node for every port, the kernel queues every signal and
\* ports have 16 bits:
\* every process that serves is listed with its own pid until it leaves,
THEOREM LiveAreRegistered ==
  ASSUME WithinLimits
  PROVE  Spec => []LiveRegistered
<1>1. SafetyInv => LiveRegistered
  BY DEF SafetyInv
<1> QED
  BY <1>1, SafetyInvariant, PTL

\* no two processes serve one port,
THEOREM PortsAreNotShared ==
  ASSUME WithinLimits
  PROVE  Spec => []OneEndpointPerPort
<1> QED
  BY OnePerPort, SafetyInvariant, PTL

\* and the pointer an endpoint uses without the mutex is to its own node.
THEOREM PointersAreValid ==
  ASSUME WithinLimits
  PROVE  Spec => []PointerValid
<1>1. SafetyInv => PointerValid
  BY DEF SafetyInv
<1> QED
  BY <1>1, SafetyInvariant, PTL

\* The socket of a process that serves is that of its port.
SockInv == \A p \in Pid : Bound(p) /\ main[p] \in Serving => sock[p] = conf[p].port

\* Every step keeps it, because what an endpoint copies is its own entry.
LEMMA SockStep ==
  ASSUME SafetyInv, SockInv, [Next]_vars
  PROVE  SockInv'
<1>0. /\ TypeOK /\ PointerValid
      /\ sock \in [Pid -> Port \cup {"closed", "opening"}]
      /\ main \in [Pid -> Serving \cup {"exit"} \cup Zombie \cup {"none"}]
      /\ \A p \in Pid : Bound(p) => main[p] # "none"
  BY PlaneAssumption DEF SafetyInv, TypeOK, ThreadRuns
<1>1. ASSUME \A q \in Pid : main'[q] \in Serving =>
               main[q] \in Serving /\ sock'[q] = sock[q] /\ conf'[q].port = conf[q].port
      PROVE  SockInv'
  BY <1>1 DEF SockInv, Bound
<1>2. ASSUME NEW p, NEW how \in Zombie, Exit(p, how) PROVE SockInv'
  <2>1. \A q \in Pid : main'[q] \in Serving =>
          main'[q] = main[q] /\ conf'[q] = conf[q] /\ sock'[q] = sock[q]
    BY <1>0, <1>2 DEF TypeOK, Exit
  <2> QED BY <1>1, <2>1
<1>3. CASE WorkerNext
  <2>1. CASE Signal
    BY <1>1, <1>2, <2>1 DEF Signal, Deliver, endpointVars
  <2>2. ASSUME NEW p \in Pid, Launch(p) PROVE SockInv'
    <3>1. /\ main[p] = "none" /\ sock' = sock
          /\ \A q \in Pid \ {p} : main'[q] = main[q] /\ conf'[q] = conf[q]
      BY <1>0, <2>2 DEF Launch, TypeOK
    <3> QED BY <1>0, <3>1 DEF SockInv, Bound
  <2> QED
    BY <1>1, <1>3, <2>1, <2>2
    DEF WorkerNext, TakeTask, SignalFails, LaunchFails, Add, endpointVars
<1>4. ASSUME NEW p \in Pid, EndpointNext(p) PROVE SockInv'
  <2>1. CASE StartFails(p) \/ CopyFromNull(p) \/ ThreadFails(p)
             \/ End(p)
    BY <1>2, <2>1 DEF StartFails, CopyFromNull, ThreadFails, End
  <2>2. CASE TakeSignal(p) \/ Fetch(p) \/ Timeout(p) \/ Leave(p)
    <3>1. \A q \in Pid : main'[q] \in Serving =>
            main[q] \in Serving /\ sock'[q] = sock[q] /\ conf'[q] = conf[q]
      BY <1>0, <2>2 DEF TakeSignal, Fetch, Timeout, Leave, TypeOK
    <3> QED BY <1>1, <3>1
  <2>3. CASE Start(p) \/ OpenSocket(p) \/ Join(p)
    <3>1. /\ conf' = conf /\ main[p] \in Serving
          /\ sock'[p] \in {"opening", "closed", sock[p], conf[p].port}
          /\ \A q \in Pid \ {p} : main'[q] = main[q] /\ sock'[q] = sock[q]
      BY <1>0, <2>3 DEF Start, OpenSocket, Join, CloseSocket, ThreadRuns, TypeOK
    <3>2. ASSUME NEW q \in Pid, Bound(q)', main'[q] \in Serving
          PROVE  sock'[q] = conf'[q].port
      <4>1. CASE q = p
        BY <3>1, <3>2, <4>1 DEF SockInv, Bound
      <4>2. CASE q # p
        BY <3>1, <3>2, <4>2 DEF SockInv, Bound
      <4> QED BY <4>1, <4>2
    <3> QED BY <3>2 DEF SockInv
  <2>4. CASE CopyStart(p) \/ CopyRest(p)
    <3>1. main[p] \in {"copy", "copyRest"} /\ sock' = sock
          /\ \A q \in Pid \ {p} : main'[q] = main[q] /\ conf'[q] = conf[q]
      BY <1>0, <2>4 DEF CopyStart, CopyRest, TypeOK
    <3>2. conf'[p].port = conf[p].port
      BY <1>0, <2>4, <3>1 DEF PointerValid, CopyStart, CopyRest, EntryOf, TypeOK, Request
    <3> QED BY <1>1, <3>1, <3>2
  <2> QED
    BY <1>4, <2>1, <2>2, <2>3, <2>4 DEF EndpointNext, SectionNext, OutsideNext, Copy
<1>5. ASSUME NEW p \in Pid, Reap(p) PROVE SockInv'
  <2>1. \A q \in Pid : main'[q] \in Serving => main'[q] = main[q]
    BY <1>0, <1>5 DEF Reap
  <2> QED BY <1>1, <1>5, <2>1 DEF Reap
<1>6. CASE HandleSigchld \/ ReapDone \/ UNCHANGED vars
  BY <1>1, <1>6 DEF HandleSigchld, ReapDone, vars, endpointVars
<1> QED BY <1>3, <1>4, <1>5, <1>6 DEF Next

\* A process that is to bind its port finds it bound by none that serves.
THEOREM SocketsAreOfTheLeaving ==
  ASSUME WithinLimits
  PROVE  Spec => []BoundByTheLeaving
<1>1. Init => SockInv
  BY DEF Init, SockInv
<1>2. SafetyInv /\ SockInv /\ [Next]_vars => SockInv'
  BY SockStep
<1>3. SafetyInv /\ SockInv => BoundByTheLeaving
  <2> SUFFICES ASSUME SafetyInv, SockInv, NEW p \in Pid, NEW q \in Pid,
                      sock[p] = "opening", sock[q] = conf[p].port
               PROVE  main[q] = "exit"
    BY DEF BoundByTheLeaving
  <2>1. TypeOK /\ OneEndpointPerPort
    BY OnePerPort DEF SafetyInv
  <2>2. main[p] \in Serving /\ conf[p].port \in Port
    BY <2>1 DEF TypeOK, ThreadRuns, Request
  <2>3. Bound(q) /\ p # q
    BY <2>2, PlaneAssumption DEF Bound
  <2>4. main[q] \in Serving => sock[q] = conf[q].port
    BY <2>3 DEF SockInv
  <2>5. main[q] \notin Serving
    BY <2>1, <2>2, <2>3, <2>4 DEF OneEndpointPerPort
  <2> QED BY <2>1, <2>3, <2>5 DEF TypeOK, ThreadRuns
<1> QED
  BY <1>1, <1>2, <1>3, SafetyInvariant, PTL DEF Spec

\* An entry goes only when its process is gone or removes it itself: what the
\* worker removes is the entry of a process that does not exist, and the one an
\* endpoint removes by its port is its own.
THEOREM EntriesAreKept ==
  ASSUME WithinLimits
  PROVE  Spec => OnlyTheGoneAreForgotten
<1>1. SafetyInv /\ [Next]_vars
        => [\A s \in used \ used' : main[node[s].pid] \in {"none", "remove"}]_vars
  <2> SUFFICES ASSUME SafetyInv, Next, NEW s \in used \ used'
               PROVE  main[node[s].pid] \in {"none", "remove"}
    OBVIOUS
  <2> USE DEF SafetyInv
  <2>1. CASE SignalFails
    BY <2>1 DEF SignalFails, Free, WithinLimits
  <2>2. ASSUME NEW p \in Pid, Leave(p) PROVE main[node[s].pid] = "remove"
    <3>1. main[p] = "remove" /\ worker = "idle" /\ RemoveElement(conf[p].port)
      BY <2>2 DEF Leave
    <3>2. PICK own \in EntryOf(p) : TRUE
      BY <3>1 DEF LiveRegistered, BeingAdded
    <3>3. Match(conf[p].port) = {own} /\ node[own].pid = p
      BY <3>2 DEF Match, EntryOf, PortsUnique
    <3> QED
      BY <3>1, <3>3 DEF RemoveElement, Free, registryVars
  <2>3. ASSUME used' = used PROVE FALSE
    BY <2>3
  <2>4. CASE WorkerNext
    BY <2>1, <2>3, <2>4
    DEF WorkerNext, TakeTask, Write, Signal, Launch, LaunchFails, Add, AddElement, registryVars
  <2>5. ASSUME NEW p \in Pid, EndpointNext(p) \/ Reap(p)
        PROVE  main[node[s].pid] = "remove"
    BY <2>2, <2>3, <2>5
    DEF EndpointNext, SectionNext, OutsideNext, Copy, Start, StartFails,
        TakeSignal, Fetch, CopyStart, CopyRest, CopyFromNull, Timeout, Join, End, OpenSocket,
        ThreadFails, Reap, registryVars
  <2>6. CASE HandleSigchld \/ ReapDone
    BY <2>3, <2>6 DEF HandleSigchld, ReapDone, registryVars
  <2> QED
    BY <2>4, <2>5, <2>6 DEF Next
<1> QED
  BY <1>1, SafetyInvariant, PTL DEF Spec, OnlyTheGoneAreForgotten

-----------------------------------------------------------------------------
(***************************************************************************)
(* That no port is listed twice needs no limit: it is the work of the      *)
(* worker alone, which holds the mutex from its lookup to its unlock.      *)
(***************************************************************************)
SectionInv ==
  /\ PortsUnique
  /\ worker = "signal" => found \in used /\ node[found].port = task.port
  /\ worker \in {"launch", "add"} => Match(task.port) = {}

\* Every step keeps it, whatever the nodes out of the list and the configurations
\* may be.
LEMMA SectionStep ==
  ASSUME NEW D, NEW R, Types(D, R), SectionInv, [Next]_vars
  PROVE  SectionInv'
<1> USE DEF SectionInv, PortsUnique, Match
<1>1. ASSUME NEW request \in Request, TakeTask(request) PROVE SectionInv'
  <2>1. CASE Match(request.port) = {}
    BY <1>1, <2>1 DEF TakeTask, registryVars
  <2>2. ASSUME NEW s \in Match(request.port), found' = s, worker' = "signal",
               Write(s, WithPid(request, node[s].pid))
        PROVE  SectionInv'
    <3>1. s \in used /\ s \in Slot /\ node[s].port = request.port
      BY DEF Types
    <3>2. used' = used /\ \A t \in used : node'[t].port = node[t].port
      BY <2>2, <3>1 DEF Write, WithPid, Types
    <3>3. task' = request
      BY <1>1 DEF TakeTask
    <3> QED BY <2>2, <3>1, <3>2, <3>3
  <2> QED BY <1>1, <2>1, <2>2 DEF TakeTask
<1>2. CASE Signal \/ LaunchFails
  BY <1>2 DEF Signal, LaunchFails, WorkerDone, registryVars
<1>3. CASE SignalFails
  BY <1>3 DEF SignalFails, Free
<1>4. ASSUME NEW p \in Pid, Launch(p) PROVE SectionInv'
  BY <1>4 DEF Launch, registryVars
<1>5. CASE Add
  <2>1. worker = "add" /\ worker' = "idle"
    BY <1>5 DEF Add, WorkerDone
  <2>2. CASE UNCHANGED registryVars
    BY <2>1, <2>2 DEF registryVars
  <2>3. ASSUME NEW s \in Slot \ used, used' = used \cup {s},
               node' = [node EXCEPT ![s] = WithPid(task, child)]
        PROVE  SectionInv'
    <3>1. node'[s].port = task.port /\ \A t \in used : node'[t] = node[t]
      BY <2>3 DEF Types, WithPid
    <3> QED BY <2>1, <2>3, <3>1
  <2> QED BY <1>5, <2>2, <2>3 DEF Add, AddElement
<1>6. ASSUME NEW p \in Pid, Leave(p) PROVE SectionInv'
  BY <1>6 DEF Leave, RemoveElement, Free, registryVars, workerVars
<1>7. ASSUME UNCHANGED <<registryVars, workerVars>> PROVE SectionInv'
  BY <1>7 DEF registryVars, workerVars
<1>8. ASSUME NEW p \in Pid, EndpointNext(p) PROVE SectionInv'
  BY <1>6, <1>7, <1>8
  DEF EndpointNext, SectionNext, OutsideNext, Copy, Start, StartFails,
      TakeSignal, Fetch, CopyStart, CopyRest, CopyFromNull, Timeout, Join, End, OpenSocket,
      ThreadFails
<1>9. ASSUME NEW p \in Pid, Reap(p) PROVE SectionInv'
  BY <1>7, <1>9 DEF Reap
<1>10. CASE HandleSigchld \/ ReapDone \/ UNCHANGED vars
  BY <1>7, <1>10 DEF HandleSigchld, ReapDone, vars
<1> QED
  BY <1>1, <1>2, <1>3, <1>4, <1>5, <1>8, <1>9, <1>10 DEF Next, WorkerNext

\* No port is listed twice, in a list of any size, with signals that are lost and
\* ports that are cut.
THEOREM PortsAreUnique == Spec => []PortsUnique
<1>1. Init => SectionInv
  BY DEF Init, Initialize, SectionInv, PortsUnique, Match
<1>2. TypeOK /\ SectionInv /\ [Next]_vars => SectionInv'
  BY TypeOKTypes, SectionStep
<1>3. SectionInv => PortsUnique
  BY DEF SectionInv
<1> QED BY <1>1, <1>2, <1>3, TypeCorrect, PTL DEF Spec

-----------------------------------------------------------------------------
(***************************************************************************)
(* The handler of SIGCHLD.                                                 *)
(***************************************************************************)
\* Whatever the constants, no zombie is overlooked.
THEOREM ZombiesAreNoticed == Spec => []ZombieNoticed
<1>1. Init => ZombieNoticed
  BY DEF Init, ZombieNoticed
<1>2. TypeOK /\ ZombieNoticed /\ [Next]_vars => ZombieNoticed'
  <2> SUFFICES ASSUME TypeOK, ZombieNoticed, [Next]_vars PROVE ZombieNoticed'
    OBVIOUS
  <2>1. ASSUME NEW p, NEW how, Exit(p, how) PROVE ZombieNoticed'
    BY <2>1 DEF Exit, ZombieNoticed, TypeOK
  <2>2. ASSUME UNCHANGED sigchld, NEW p,
               \A q \in Pid \ {p} : main'[q] = main[q],
               p \in Pid => main'[p] \notin Zombie \/ main'[p] = main[p]
        PROVE  ZombieNoticed'
    BY <2>2 DEF ZombieNoticed
  <2>3. CASE WorkerNext
    <3>1. CASE Signal
      BY <2>1, <2>2, <3>1 DEF Signal, Deliver, endpointVars
    <3>2. ASSUME NEW p \in Pid, Launch(p) PROVE ZombieNoticed'
      BY <2>2, <3>2 DEF Launch, TypeOK
    <3> QED
      BY <2>2, <2>3, <3>1, <3>2
      DEF WorkerNext, TakeTask, SignalFails, LaunchFails, Add, endpointVars
  <2>4. ASSUME NEW p \in Pid, EndpointNext(p) PROVE ZombieNoticed'
    <3>1. CASE StartFails(p) \/ CopyFromNull(p) \/ ThreadFails(p)
               \/ End(p)
      BY <2>1, <3>1
      DEF StartFails, CopyFromNull, ThreadFails, End
    <3>2. CASE Start(p) \/ TakeSignal(p) \/ Fetch(p) \/ CopyStart(p) \/ CopyRest(p)
               \/ Timeout(p) \/ Join(p) \/ Leave(p) \/ OpenSocket(p)
      BY <2>2, <3>2
      DEF Start, TakeSignal, Fetch, CopyStart, CopyRest, Timeout, Join, Leave, OpenSocket,
          TypeOK
    <3> QED BY <2>4, <3>1, <3>2 DEF EndpointNext, SectionNext, OutsideNext, Copy
  <2>5. ASSUME NEW p \in Pid, Reap(p) PROVE ZombieNoticed'
    BY <2>2, <2>5 DEF Reap, TypeOK
  <2>6. CASE HandleSigchld \/ ReapDone
    BY <2>6 DEF HandleSigchld, ReapDone, ZombieNoticed, endpointVars, TypeOK
  <2>7. CASE UNCHANGED vars
    BY <2>7 DEF vars, endpointVars, ZombieNoticed
  <2> QED
    BY <2>3, <2>4, <2>5, <2>6, <2>7 DEF Next
<1> QED
  BY <1>1, <1>2, TypeCorrect, PTL DEF Spec

-----------------------------------------------------------------------------
(***************************************************************************)
(* The configuration an endpoint runs with.  The process being added has   *)
(* no entry yet; that it runs with the worker's task makes its entry, once *)
(* it is there, what it runs with.                                         *)
(***************************************************************************)
ChildFresh ==
  worker = "add" /\ main[child] \in {"exec", "wait"} => conf[child] = task

FreshInv == ConfFresh /\ ChildFresh

\* A step that leaves the registry and the worker alone, and the
\* configuration and the signals of every process that goes on serving.
LEMMA LocalFresh ==
  ASSUME TypeOK, FreshInv, UNCHANGED registryVars,
         UNCHANGED workerVars \/ (worker = "launch" /\ worker' = "idle"),
         \A q \in Pid : main'[q] \in Serving \ {"join", "remove"} =>
            /\ main[q] \in Serving \ {"join", "remove"}
            /\ conf'[q] = conf[q] /\ pending'[q] = pending[q]
            /\ main'[q] \in {"exec", "wait"} => main[q] \in {"exec", "wait"}
            /\ main'[q] = "copyRest" => main[q] = "copyRest"
  PROVE  FreshInv'
<1>1. ConfFresh'
  BY DEF FreshInv, ConfFresh, InStep, EntryOf, registryVars, workerVars
<1>2. ChildFresh'
  BY DEF FreshInv, ChildFresh, TypeOK, workerVars
<1> QED BY <1>1, <1>2 DEF FreshInv

\* Every step keeps what an endpoint knows, or is to be told, of its entry.
LEMMA FreshStep ==
  ASSUME WithinLimits, SafetyInv, SafetyInv', FreshInv, [Next]_vars
  PROVE  FreshInv'
<1> USE DEF FreshInv
<1>0. TypeOK /\ TypeOK' /\ PortsUnique /\ WorkerSection /\ LiveRegistered /\ PointerValid
  BY DEF SafetyInv
<1>1. ASSUME NEW request \in Request, TakeTask(request) PROVE FreshInv'
  <2>1. UNCHANGED <<used, main, conf, pending>> /\ worker = "idle" /\ worker' # "add"
    BY <1>1 DEF TakeTask, Write, registryVars, endpointVars
  <2>2. \A t \in used :
          \/ node'[t] = node[t]
          \/ worker' = "signal" /\ found' = t
    BY <1>0, <1>1 DEF TakeTask, Write, registryVars, TypeOK, RegistryTypeOK
  <2>3. \A q \in Pid : \A t \in EntryOf(q)' : t \in used
    BY <2>1 DEF EntryOf
  <2>4. \A q \in Pid : \A t \in EntryOf(q)' : node'[t] = node[t] => t \in EntryOf(q)
    BY <2>1 DEF EntryOf
  <2>5. ConfFresh'
    BY <2>1, <2>2, <2>3, <2>4 DEF ConfFresh, InStep
  <2> QED BY <2>1, <2>5 DEF ChildFresh
<1>2. CASE Signal
  <2> DEFINE target == node[found].pid
  <2>1. UNCHANGED registryVars /\ worker = "signal" /\ worker' = "idle"
    BY <1>2 DEF Signal, WorkerDone
  <2>2. \A q \in Pid \ {target} :
          main'[q] = main[q] /\ conf'[q] = conf[q] /\ pending'[q] = pending[q]
    BY <1>0, <1>2 DEF Signal, Deliver, Exit, endpointVars, TypeOK
  <2>3. target \in Pid /\ main'[target] \in Serving => pending'[target] > 0
    BY <1>0, <1>2 DEF Signal, Deliver, Exit, endpointVars, TypeOK
  <2>4. \A q \in Pid : \A s \in EntryOf(q)' : q # target => s \in EntryOf(q) /\ s # found
    BY <2>1, <2>2 DEF EntryOf, registryVars
  <2>5. ConfFresh'
    BY <2>1, <2>2, <2>3, <2>4 DEF ConfFresh, InStep, registryVars
  <2> QED BY <2>1, <2>5 DEF ChildFresh
<1>3. CASE SignalFails
  <2>1. /\ UNCHANGED <<node, main, conf, pending>>
        /\ worker' = "launch" /\ used' = used \ {found}
    BY <1>3 DEF SignalFails, Free, endpointVars, WithinLimits
  <2>2. \A q \in Pid : \A s \in EntryOf(q)' : s \in EntryOf(q) /\ s # found
    BY <2>1 DEF EntryOf
  <2> QED BY <2>1, <2>2 DEF ConfFresh, InStep, ChildFresh
<1>4. ASSUME NEW p \in Pid, Launch(p) PROVE FreshInv'
  <2>1. /\ UNCHANGED <<node, used, task, pending>>
        /\ worker = "launch" /\ worker' = "add" /\ child' = p
        /\ conf'[p] = task
        /\ \A q \in Pid \ {p} : main'[q] = main[q] /\ conf'[q] = conf[q]
    BY <1>0, <1>4 DEF Launch, registryVars, TypeOK, WithinLimits, Request
  <2>2. EntryOf(p)' = {}
    BY <1>0, <2>1 DEF WorkerSection, EntryOf, Match
  <2>3. \A q \in Pid \ {p} : EntryOf(q)' = EntryOf(q)
    BY <2>1 DEF EntryOf
  <2> QED BY <2>1, <2>2, <2>3 DEF ConfFresh, InStep, ChildFresh
<1>5. CASE LaunchFails
  BY <1>0, <1>5, LocalFresh DEF LaunchFails, WorkerDone, endpointVars
<1>6. CASE Add
  <2>1. /\ UNCHANGED <<main, conf, pending>>
        /\ worker = "add" /\ worker' = "idle" /\ child \in Pid /\ task \in Request
        /\ Match(task.port) = {}
    BY <1>0, <1>6 DEF Add, WorkerDone, endpointVars, TypeOK, WorkerSection
  <2>2. CASE UNCHANGED registryVars
    BY <2>1, <2>2 DEF ConfFresh, InStep, ChildFresh, EntryOf, registryVars
  <2>3. ASSUME NEW s \in Slot \ used, used' = used \cup {s},
               node' = [node EXCEPT ![s] = WithPid(task, child)]
        PROVE  FreshInv'
    <3>1. /\ node'[s].dest = task.dest /\ node'[s].duration = task.duration
          /\ node'[s].pid = child
          /\ \A t \in used : node'[t] = node[t]
      BY <1>0, <2>3 DEF TypeOK, RegistryTypeOK, WithPid
    <3>2. \A q \in Pid : \A t \in EntryOf(q)' : t # s => t \in EntryOf(q)
      BY <2>1, <2>3, <3>1 DEF EntryOf
    <3>3. \A q \in Pid : s \in EntryOf(q)' => q = child
      BY <3>1 DEF EntryOf
    <3>4. main[child] \in Serving => EntryOf(child) = {}
      BY <1>0, <2>1 DEF WorkerSection, EntryOf, Match
    <3>5. main[child] # "copyRest"
      BY <1>0, <2>1, <3>4 DEF PointerValid
    <3>6. ConfFresh'
      <4> SUFFICES ASSUME NEW q \in Pid, main[q] \in Serving \ {"join", "remove"},
                          NEW t \in EntryOf(q)'
                   PROVE  InStep(q, t)' \/ pending[q] > 0
        BY <2>1 DEF ConfFresh
      <4>1. CASE t = s
        BY <2>1, <3>1, <3>3, <3>5, <4>1 DEF ChildFresh, InStep
      <4>2. CASE t # s
        <5>1. t \in EntryOf(q) /\ node'[t] = node[t]
          BY <3>1, <3>2, <4>2 DEF EntryOf
        <5>2. InStep(q, t) \/ pending[q] > 0
          BY <2>1, <5>1 DEF ConfFresh
        <5> QED BY <2>1, <5>1, <5>2 DEF InStep
      <4> QED BY <4>1, <4>2
    <3> QED BY <2>1, <3>6 DEF ChildFresh
  <2> QED BY <1>6, <2>2, <2>3 DEF Add, AddElement
<1>7. ASSUME NEW p \in Pid, EndpointNext(p) PROVE FreshInv'
  <2>1. CASE StartFails(p) \/ CopyFromNull(p) \/ ThreadFails(p)
             \/ End(p)
    <3>1. UNCHANGED <<registryVars, workerVars>> /\ main'[p] \in Zombie
          /\ \A q \in Pid \ {p} :
               main'[q] = main[q] /\ conf'[q] = conf[q] /\ pending'[q] = pending[q]
      BY <1>0, <2>1
      DEF StartFails, CopyFromNull, ThreadFails, End, Exit, TypeOK
    <3> QED BY <1>0, <3>1, LocalFresh
  <2>2. CASE Start(p) \/ Timeout(p) \/ Join(p) \/ OpenSocket(p)
    <3>1. UNCHANGED <<registryVars, workerVars, conf, pending>>
      BY <2>2 DEF Start, Timeout, Join, OpenSocket
    <3>2. \A q \in Pid : \/ main'[q] = main[q]
                         \/ main'[q] \in {"join", "remove"}
                         \/ main[q] = "exec" /\ main'[q] = "wait"
      BY <1>0, <2>2 DEF Start, Timeout, Join, OpenSocket, TypeOK
    <3> QED BY <1>0, <3>1, <3>2, LocalFresh
  <2>3. CASE TakeSignal(p) \/ Fetch(p)
    <3>1. UNCHANGED <<registryVars, workerVars, conf>>
          /\ main'[p] \in {"fetch", "copy"}
          /\ \A q \in Pid \ {p} : main'[q] = main[q] /\ pending'[q] = pending[q]
      BY <1>0, <2>3 DEF TakeSignal, Fetch, TypeOK
    <3>2. ConfFresh'
      BY <3>1 DEF ConfFresh, InStep, EntryOf, registryVars, workerVars
    <3> QED BY <1>0, <3>1, <3>2 DEF ChildFresh, workerVars, TypeOK
  <2>4. CASE CopyStart(p) \/ CopyRest(p)
    <3>1. /\ main[p] \in {"copy", "copyRest"}
          /\ UNCHANGED <<registryVars, workerVars, pending>>
          /\ \A q \in Pid \ {p} : main'[q] = main[q] /\ conf'[q] = conf[q]
      BY <1>0, <2>4 DEF CopyStart, CopyRest, TypeOK
    <3>2. ptr[p] \in EntryOf(p)
      BY <1>0, <3>1 DEF PointerValid
    <3>3. conf'[p].port = conf[p].port
      BY <1>0, <2>4, <3>1, <3>2 DEF CopyStart, CopyRest, EntryOf, TypeOK, Request
    <3>4. \A q \in Pid : EntryOf(q)' = EntryOf(q)
      BY <3>1, <3>3 DEF EntryOf, registryVars
    <3>5. EntryOf(p) = {ptr[p]}
      BY <1>0, <3>2 DEF EntryOf, PortsUnique
    <3>6. CASE CopyStart(p)
      <4>1. main'[p] = "copyRest" /\ conf'[p].dest = node[ptr[p]].dest
        BY <1>0, <3>6 DEF CopyStart, TypeOK, Request
      <4> QED
        BY <1>0, <3>1, <3>4, <3>5, <4>1
        DEF ConfFresh, InStep, ChildFresh, TypeOK, registryVars, workerVars
    <3>7. CASE CopyRest(p)
      <4>1. /\ main[p] = "copyRest" /\ main'[p] = "wait"
            /\ conf'[p].dest = conf[p].dest
            /\ conf'[p].duration = node[ptr[p]].duration
        BY <1>0, <3>7 DEF CopyRest, TypeOK, Request
      <4>2. ~(worker = "add" /\ child = p)
        BY <1>0, <3>2, <4>1 DEF WorkerSection, EntryOf, Match
      <4>3. ChildFresh'
        BY <1>0, <3>1, <4>2 DEF ChildFresh, workerVars, TypeOK
      <4>4. ConfFresh'
        BY <3>1, <3>4, <3>5, <4>1 DEF ConfFresh, InStep, registryVars, workerVars
      <4> QED BY <4>3, <4>4
    <3> QED BY <2>4, <3>6, <3>7
  <2>5. CASE Leave(p)
    <3>1. /\ UNCHANGED workerVars /\ main'[p] = "exit"
          /\ node' = node /\ used' \subseteq used
          /\ \A q \in Pid \ {p} :
               main'[q] = main[q] /\ conf'[q] = conf[q] /\ pending'[q] = pending[q]
      BY <1>0, <2>5 DEF Leave, RemoveElement, Free, TypeOK, registryVars
    <3>2. \A q \in Pid \ {p} : EntryOf(q)' \subseteq EntryOf(q)
      BY <3>1 DEF EntryOf
    <3>3. ChildFresh'
      BY <1>0, <3>1 DEF ChildFresh, TypeOK, workerVars
    <3>4. ConfFresh'
      BY <3>1, <3>2 DEF ConfFresh, InStep, workerVars
    <3> QED BY <3>3, <3>4
  <2> QED
    BY <1>7, <2>1, <2>2, <2>3, <2>4, <2>5 DEF EndpointNext, SectionNext, OutsideNext, Copy
<1>8. ASSUME NEW p \in Pid, Reap(p) PROVE FreshInv'
  <2>1. UNCHANGED <<registryVars, workerVars, conf, pending>>
        /\ \A q \in Pid : main'[q] \in Serving => main'[q] = main[q]
    BY <1>0, <1>8 DEF Reap, TypeOK
  <2> QED BY <1>0, <2>1, LocalFresh
<1>9. CASE HandleSigchld \/ ReapDone
  BY <1>0, <1>9, LocalFresh DEF HandleSigchld, ReapDone, endpointVars
<1>10. CASE UNCHANGED vars
  BY <1>0, <1>10, LocalFresh DEF vars, endpointVars
<1> QED
  BY <1>1, <1>2, <1>3, <1>4, <1>5, <1>6, <1>7, <1>8, <1>9, <1>10
  DEF Next, WorkerNext

\* An endpoint that does not run with what its entry says has a signal to
\* come: no update is lost while it serves.
THEOREM ConfigurationIsFresh ==
  ASSUME WithinLimits
  PROVE  Spec => []ConfFresh
<1>1. Init => FreshInv
  BY DEF Init, FreshInv, ConfFresh, ChildFresh
<1>2. SafetyInv /\ SafetyInv' /\ FreshInv /\ [Next]_vars => FreshInv'
  BY FreshStep
<1>3. FreshInv => ConfFresh
  BY DEF FreshInv
<1> QED
  BY <1>1, <1>2, <1>3, SafetyInvariant, PTL DEF Spec

-----------------------------------------------------------------------------
(***************************************************************************)
(* Null pointers.  No limit is needed: an entry that an endpoint has looked*)
(* for in vain is not added behind its back, because the worker enters a   *)
(* process that cannot have looked yet.                                    *)
(***************************************************************************)
CrashInv ==
  /\ OnlyTheUntrackedCrash
  /\ worker = "add" => main[child] \notin {"copy", "copyRest"}

\* A step that leaves the registry, the worker's section and the configurations
\* alone, and in which no process begins to copy.
LEMMA LocalCrash ==
  ASSUME CrashInv, UNCHANGED registryVars,
         worker' = "add" => worker = "add" /\ child' = child,
         child \in Pid \cup {NoPid}, worker = "add" => child \in Pid,
         \A q \in Pid : main'[q] = "copy" =>
           main[q] = "copy" /\ conf'[q] = conf[q] /\ ptr'[q] = ptr[q],
         \A q \in Pid : main'[q] = "copyRest" => main[q] \in {"copy", "copyRest"}
  PROVE  CrashInv'
BY DEF CrashInv, OnlyTheUntrackedCrash, EntryOf, registryVars

\* Every step keeps it.
LEMMA CrashStep ==
  ASSUME NEW D, NEW R, Types(D, R), CrashInv, [Next]_vars
  PROVE  CrashInv'
<1>1. ASSUME NEW request \in Request, TakeTask(request) PROVE CrashInv'
  <2>1. \A q \in Pid : EntryOf(q)' = {} \/ EntryOf(q) # {}
    <3>1. CASE UNCHANGED registryVars
      BY <1>1, <3>1 DEF TakeTask, endpointVars, EntryOf, registryVars
    <3>2. ASSUME NEW s \in Match(request.port), Write(s, WithPid(request, node[s].pid))
          PROVE  \A q \in Pid : EntryOf(q)' = {} \/ EntryOf(q) # {}
      <4>1. s \in Slot /\ node[s].port = request.port
        BY DEF Match, Types
      <4>2. \A t \in Slot : node'[t].pid = node[t].pid /\ node'[t].port = node[t].port
        BY <3>2, <4>1 DEF Write, WithPid, Types
      <4>3. used' = used /\ used \subseteq Slot /\ conf' = conf
        BY <1>1, <3>2 DEF Write, TakeTask, endpointVars, Types
      <4> QED BY <4>2, <4>3 DEF EntryOf
    <3> QED BY <1>1, <3>1, <3>2 DEF TakeTask
  <2>2. UNCHANGED <<main, ptr>> /\ worker' # "add"
    BY <1>1 DEF TakeTask, endpointVars
  <2> QED BY <2>1, <2>2 DEF CrashInv, OnlyTheUntrackedCrash
<1>2. CASE Signal
  <2>1. \A q \in Pid : \/ main'[q] = main[q] /\ conf'[q] = conf[q] /\ ptr'[q] = ptr[q]
                       \/ main'[q] = "killed"
    BY <1>2 DEF Signal, Deliver, Exit, Types, endpointVars
  <2> QED BY <1>2, <2>1, LocalCrash DEF Signal, WorkerDone, Types
<1>3. CASE SignalFails
  BY <1>3
  DEF SignalFails, Free, endpointVars, CrashInv, OnlyTheUntrackedCrash, EntryOf
<1>4. ASSUME NEW p \in Pid, Launch(p) PROVE CrashInv'
  BY <1>4
  DEF Launch, registryVars, Types, CrashInv, OnlyTheUntrackedCrash, EntryOf
<1>5. CASE LaunchFails
  BY <1>5, LocalCrash DEF LaunchFails, WorkerDone, endpointVars, Types
<1>6. CASE Add
  <2>1. child \in Pid /\ main[child] # "copy" /\ UNCHANGED <<main, conf, ptr>>
        /\ worker' = "idle"
    BY <1>6 DEF Add, WorkerDone, endpointVars, Types, CrashInv
  <2>2. \A q \in Pid : q # child => EntryOf(q)' \subseteq EntryOf(q)
    BY <1>6, <2>1
    DEF Add, AddElement, WithPid, registryVars, EntryOf, Types
  <2> QED BY <2>1, <2>2 DEF CrashInv, OnlyTheUntrackedCrash
<1>7. ASSUME NEW p \in Pid, Fetch(p) PROVE CrashInv'
  <2>1. worker = "idle" /\ UNCHANGED <<registryVars, worker, conf>>
        /\ \A q \in Pid \ {p} : main'[q] = main[q] /\ ptr'[q] = ptr[q]
    BY <1>7 DEF Fetch, workerVars, Types
  <2>2. ptr'[p] = NoSlot => EntryOf(p) = {}
    BY <1>7, PlaneAssumption DEF Fetch, Match, EntryOf, Types
  <2> QED
    BY <2>1, <2>2 DEF CrashInv, OnlyTheUntrackedCrash, EntryOf, registryVars
<1>8. ASSUME NEW p \in Pid, Leave(p) PROVE CrashInv'
  <2>1. worker' = "idle" /\ used' \subseteq used /\ node' = node
        /\ \A q \in Pid : main'[q] = "exit" \/
             (main'[q] = main[q] /\ conf'[q] = conf[q] /\ ptr'[q] = ptr[q])
    BY <1>8
    DEF Leave, RemoveElement, Free, Types, registryVars, workerVars
  <2> QED BY <2>1 DEF CrashInv, OnlyTheUntrackedCrash, EntryOf
<1>9. ASSUME NEW p \in Pid,
             \/ StartFails(p) \/ CopyFromNull(p) \/ ThreadFails(p)
             \/ End(p)
      PROVE  CrashInv'
  <2>1. \A q \in Pid : \/ main'[q] = main[q] /\ conf'[q] = conf[q] /\ ptr'[q] = ptr[q]
                       \/ main'[q] \in Zombie
    BY <1>9
    DEF StartFails, CopyFromNull, ThreadFails, End, Exit, Types
  <2> QED
    BY <1>9, <2>1, LocalCrash
    DEF StartFails, CopyFromNull, ThreadFails, End, workerVars, Types
<1>10. ASSUME NEW p \in Pid,
              \/ Start(p) \/ TakeSignal(p) \/ CopyStart(p) \/ CopyRest(p) \/ Timeout(p)
              \/ Join(p) \/ Reap(p)
       PROVE  CrashInv'
  <2>1. \A q \in Pid \ {p} : main'[q] = main[q] /\ conf'[q] = conf[q] /\ ptr'[q] = ptr[q]
    BY <1>10 DEF Start, TakeSignal, CopyStart, CopyRest, Timeout, Join, Reap, Types
  <2>2. main'[p] \in {"copy", "copyRest"} => main'[p] = "copyRest" /\ main[p] = "copy"
    BY <1>10 DEF Start, TakeSignal, CopyStart, CopyRest, Timeout, Join, Reap, Types
  <2>3. UNCHANGED <<registryVars, workerVars>>
    BY <1>10 DEF Start, TakeSignal, CopyStart, CopyRest, Timeout, Join, Reap
  <2> QED BY <2>1, <2>2, <2>3, LocalCrash DEF workerVars, Types
<1>11. ASSUME NEW p \in Pid, OpenSocket(p) PROVE CrashInv'
  BY <1>11, LocalCrash DEF OpenSocket, workerVars, Types
<1>12. CASE HandleSigchld \/ ReapDone \/ UNCHANGED vars
  BY <1>12, LocalCrash DEF HandleSigchld, ReapDone, endpointVars, workerVars, vars, Types
<1> QED
  BY <1>1, <1>2, <1>3, <1>4, <1>5, <1>6, <1>7, <1>8, <1>9, <1>10, <1>11, <1>12
  DEF Next, WorkerNext, EndpointNext, SectionNext, OutsideNext, Copy

\* An endpoint that is about to use a null pointer has no entry, in a list of any
\* size, with signals that are lost and ports that are cut.
THEOREM OnlyTheUntrackedCrashes == Spec => []OnlyTheUntrackedCrash
<1>1. Init => CrashInv
  BY DEF Init, CrashInv, OnlyTheUntrackedCrash
<1>2. TypeOK /\ CrashInv /\ [Next]_vars => CrashInv'
  BY TypeOKTypes, CrashStep
<1>3. CrashInv => OnlyTheUntrackedCrash
  BY DEF CrashInv
<1> QED BY <1>1, <1>2, <1>3, TypeCorrect, PTL DEF Spec
=============================================================================
