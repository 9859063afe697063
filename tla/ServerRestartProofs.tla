------------------------- MODULE ServerRestartProofs --------------------------
(***************************************************************************)
(* Proofs of the safety properties of ServerRestart, for any number of     *)
(* ports, nodes, processes and deaths of the server.  Most steps of a      *)
(* server and of the endpoints are those of MediaPlane, for which          *)
(* MediaPlaneProofs has shown what they keep even where a port may have    *)
(* become -1; the others are shown here to keep the same.                  *)
(***************************************************************************)
EXTENDS ServerRestart, MediaPlaneProofs

USE DEF Serving, Zombie, WorkerState, ListFree

-----------------------------------------------------------------------------
(***************************************************************************)
(* Nodes and configurations without a port.                                *)
(***************************************************************************)
\* If there are ports, an entry without one is a record like the others.
LEMMA AnyPortData ==
  ASSUME Port # {}
  PROVE  AnyPort(Data) =
           [port: Port \cup {NoPort}, dest: Dest, duration: Duration, pid: Pid]
<1> DEFINE Any == [port: Port \cup {NoPort}, dest: Dest, duration: Duration, pid: Pid]
<1>1. AnyPort(Data) \subseteq Any
  BY DEF AnyPort, Data
<1>2. ASSUME NEW d \in Any PROVE d \in AnyPort(Data)
  <2>1. CASE d.port \in Port
    BY <2>1 DEF AnyPort, Data
  <2>2. CASE d.port = NoPort
    <3>1. PICK port \in Port : TRUE
      OBVIOUS
    <3> DEFINE e == [d EXCEPT !.port = port]
    <3>2. e \in Data
      BY DEF Data
    <3>3. d = [e EXCEPT !.port = NoPort]
      BY <2>2
    <3> QED BY <3>2, <3>3 DEF AnyPort
  <2> QED BY <2>1, <2>2
<1> QED BY <1>1, <1>2

LEMMA AnyPortRequest ==
  ASSUME Port # {}
  PROVE  AnyPort(Request) =
           [port: Port \cup {NoPort}, dest: Dest, duration: Duration]
<1> DEFINE Any == [port: Port \cup {NoPort}, dest: Dest, duration: Duration]
<1>1. AnyPort(Request) \subseteq Any
  BY DEF AnyPort, Request
<1>2. ASSUME NEW d \in Any PROVE d \in AnyPort(Request)
  <2>1. CASE d.port \in Port
    BY <2>1 DEF AnyPort, Request
  <2>2. CASE d.port = NoPort
    <3>1. PICK port \in Port : TRUE
      OBVIOUS
    <3> DEFINE e == [d EXCEPT !.port = port]
    <3>2. e \in Request
      BY DEF Request
    <3>3. d = [e EXCEPT !.port = NoPort]
      BY <2>2
    <3> QED BY <3>2, <3>3 DEF AnyPort
  <2> QED BY <2>1, <2>2
<1> QED BY <1>1, <1>2

\* An endpoint makes of such records such a record.
LEMMA AnyPortWidens == Widens(AnyPort(Data), AnyPort(Request))
<1>1. Data \subseteq AnyPort(Data) /\ Request \subseteq AnyPort(Request)
  BY DEF AnyPort
<1>2. CASE Port = {}
  <2>1. Request = {}
    BY <1>2 DEF Request
  <2> QED BY <1>1, <2>1 DEF Widens, AnyPort
<1>3. CASE Port # {}
  <2> DEFINE D == [port: Port \cup {NoPort}, dest: Dest, duration: Duration, pid: Pid]
             R == [port: Port \cup {NoPort}, dest: Dest, duration: Duration]
  <2>1. AnyPort(Data) = D /\ AnyPort(Request) = R
    BY <1>3, AnyPortData, AnyPortRequest
  <2>2. ASSUME NEW r \in R, NEW d \in D
        PROVE  /\ [r EXCEPT !.port = d.port, !.dest = d.dest] \in R
               /\ [r EXCEPT !.duration = d.duration] \in R
    OBVIOUS
  <2> HIDE DEF D, R
  <2> QED BY <1>1, <2>1, <2>2 DEF Widens
<1> QED BY <1>2, <1>3

\* What initialize() makes of a node; one that has not been written stays so.
LEMMA PortLost ==
  /\ \A d \in AnyPort(Data) : [d EXCEPT !.port = NoPort] \in AnyPort(Data)
  /\ [Blank EXCEPT !.port = NoPort] = Blank
  /\ Blank \notin AnyPort(Data)
<1>1. ASSUME NEW d \in AnyPort(Data)
      PROVE  [d EXCEPT !.port = NoPort] \in AnyPort(Data)
  <2>1. CASE d \in Data
    BY <2>1 DEF AnyPort
  <2>2. ASSUME NEW e \in Data, d = [e EXCEPT !.port = NoPort]
        PROVE  [d EXCEPT !.port = NoPort] \in AnyPort(Data)
    <3>1. [d EXCEPT !.port = NoPort] = d
      BY <2>2 DEF Data
    <3> QED BY <3>1
  <2> QED BY <2>1, <2>2 DEF AnyPort
<1>2. [Blank EXCEPT !.port = NoPort] = Blank
  BY DEF Blank
<1>3. Blank \notin AnyPort(Data)
  <2>1. \A d \in AnyPort(Data) : "dest" \in DOMAIN d
    BY DEF AnyPort, Data
  <2>2. "dest" \notin DOMAIN Blank
    BY DEF Blank
  <2> QED BY <2>1, <2>2
<1> QED BY <1>1, <1>2, <1>3

-----------------------------------------------------------------------------
(***************************************************************************)
(* The invariant.                                                          *)
(***************************************************************************)
\* The types of all variables.
RestartTypes == Types(AnyPort(Data), AnyPort(Request))

FaultTypes ==
  /\ server \in {"down", "init", "up"}
  /\ crashes \in 0 .. MaxCrashes
  /\ orphan \subseteq Pid /\ \A p \in orphan : main[p] # "none"
  /\ stuck \subseteq Pid /\ \A p \in stuck : main[p] \in Section
  /\ inside \subseteq Pid \ stuck /\ \A p \in inside : main[p] \in Section
  /\ lost \in {"nobody", "server", "endpoint"}
  /\ torn \in BOOLEAN

\* Where there is no server nobody works on the list but the endpoints, and while it
\* is initialised those only look for ports that initialize() does not write.
InitInv ==
  /\ server # "up" => worker = "idle"
  /\ server = "init" => used = {}
  /\ server = "init" /\ ~torn =>
       \A p \in inside : main[p] = "fetch" /\ conf[p].port # NoPort

\* The entry that the worker is about to add is not that of an orphan either.
OwnInv ==
  server = "up" =>
    /\ \A s \in used : node[s].pid \notin orphan
    /\ worker = "add" => child \notin orphan

RestartInv ==
  RestartTypes /\ FaultTypes /\ InitInv /\ SectionInv /\ CrashInv /\ OwnInv

\* The invariant holds initially.
LEMMA RestartInitially == RestartInit => RestartInv
<1> SUFFICES ASSUME RestartInit PROVE RestartInv
  OBVIOUS
<1>1. RestartTypes
  <2>1. ASSUME NEW D, NEW R PROVE Types(D, R)
    <3>1. Init
      BY DEF RestartInit
    <3>2. used = {} /\ node \in [Slot -> D \cup {Blank}]
      BY <3>1 DEF Init, Initialize
    <3>3. \A p \in Pid : main[p] = "none" /\ ptr[p] = NoSlot
      BY <3>1 DEF Init
    <3>4. /\ main \in [Pid -> Serving \cup {"exit"} \cup Zombie \cup {"none"}]
          /\ conf \in [Pid -> R \cup {Blank}] /\ ptr \in [Pid -> Slot \cup {NoSlot}]
          /\ pending \in [Pid -> Nat]
          /\ sigchld \in [pending: BOOLEAN, reaping: BOOLEAN]
      BY <3>1 DEF Init
    <3>5. worker = "idle" /\ task = Blank /\ found = NoSlot /\ child = NoPid
      BY <3>1 DEF Init
    <3> QED BY <3>2, <3>3, <3>4, <3>5, PlaneAssumption DEF Types
  <2> QED BY <2>1 DEF RestartTypes
<1>2. FaultTypes
  <2>1. /\ server = "up" /\ crashes = 0 /\ orphan = {} /\ stuck = {} /\ inside = {}
        /\ lost = "nobody"
    BY DEF RestartInit
  <2>2. torn \in BOOLEAN
    BY DEF RestartInit
  <2> QED BY <2>1, <2>2, RestartAssumption DEF FaultTypes
<1>4. InitInv
  BY DEF RestartInit, InitInv
<1>3. SectionInv /\ CrashInv /\ OwnInv
  BY DEF RestartInit, Init, Initialize, SectionInv, PortsUnique, Match, CrashInv,
         OnlyTheUntrackedCrash, OwnInv
<1> QED BY <1>1, <1>2, <1>3, <1>4 DEF RestartInv

-----------------------------------------------------------------------------
(***************************************************************************)
(* What the invariants of MediaPlane become.                               *)
(***************************************************************************)
\* The steps that are those of MediaPlane.
PlaneStep ==
  \/ WorkerStep \/ SigchldStep
  \/ \E p \in Pid :
       ReapOwn(p) \/ Lock(p) \/ EndpointStep(p) \/ (server # "init" /\ LockedStep(p))
  \/ UNCHANGED restartVars

\* They keep what they keep there.
LEMMA PlaneKeeps ==
  ASSUME RestartInv, PlaneStep
  PROVE  RestartTypes' /\ SectionInv' /\ CrashInv'
<1>1. [Next]_vars
  BY DEF PlaneStep, WorkerStep, SigchldStep, ReapOwn, Lock, EndpointStep, LockedStep,
         Next, EndpointNext, restartVars
<1> QED
  BY <1>1, AnyPortWidens, TypesStep, SectionStep, CrashStep DEF RestartInv, RestartTypes

\* The steps that touch neither the list nor what a process that runs holds.
LEMMA QuietTypes ==
  ASSUME NEW D, NEW R, Types(D, R), Crash \/ ReapOwnDone \/ \E p \in Pid : InitReaps(p)
  PROVE  /\ Types(D, R)'
         /\ UNCHANGED <<registryVars, conf, ptr>>
         /\ UNCHANGED workerVars \/ worker' = "idle"
         /\ \A q \in Pid : main'[q] \in {"copy", "copyRest"} => main'[q] = main[q]
<1>1. CASE Crash
  BY <1>1, PlaneAssumption
  DEF Crash, WorkerDone, endpointVars, Types, registryVars
<1>2. CASE ReapOwnDone
  <2>1. sigchld' \in [pending: BOOLEAN, reaping: BOOLEAN]
    BY <1>2 DEF ReapOwnDone, Types
  <2> QED BY <1>2, <2>1 DEF ReapOwnDone, endpointVars, Types, registryVars, workerVars
<1>3. ASSUME NEW p \in Pid, InitReaps(p)
      PROVE  /\ Types(D, R)'
             /\ UNCHANGED <<registryVars, workerVars, conf, ptr>>
             /\ \A q \in Pid : main'[q] \in {"copy", "copyRest"} => main'[q] = main[q]
  <2>1. /\ UNCHANGED <<registryVars, workerVars, conf, ptr, pending, sock, sigchld>>
        /\ main' = [main EXCEPT ![p] = "none"]
    BY <1>3 DEF InitReaps
  <2>2. /\ main' \in [Pid -> Serving \cup {"exit"} \cup Zombie \cup {"none"}]
        /\ \A q \in Pid : main'[q] # "none" => main'[q] = main[q]
    BY <2>1 DEF Types
  <2>3. Types(D, R)'
    BY <2>1, <2>2 DEF Types, registryVars, workerVars
  <2> QED BY <2>1, <2>2, <2>3
<1> QED BY <1>1, <1>2, <1>3

LEMMA QuietKeeps ==
  ASSUME RestartInv, Crash \/ ReapOwnDone \/ \E p \in Pid : InitReaps(p)
  PROVE  RestartTypes' /\ SectionInv' /\ CrashInv'
<1>1. /\ RestartTypes'
      /\ UNCHANGED <<registryVars, conf, ptr>>
      /\ UNCHANGED workerVars \/ worker' = "idle"
      /\ \A q \in Pid : main'[q] \in {"copy", "copyRest"} => main'[q] = main[q]
  BY QuietTypes DEF RestartInv, RestartTypes
<1>2. worker = "add" => child \in Pid
  BY DEF RestartInv, RestartTypes, Types
<1>3. SectionInv' /\ CrashInv'
  BY <1>1, <1>2
  DEF RestartInv, SectionInv, PortsUnique, Match, CrashInv, OnlyTheUntrackedCrash,
      EntryOf, registryVars, workerVars
<1> QED BY <1>1, <1>3

\* initialize() leaves an empty list, of nodes that have their types.
LEMMA InitTypes ==
  ASSUME NEW D, NEW R, Types(D, R), InitBegins \/ (InitEnds /\ used = {}),
         \A d \in D : [d EXCEPT !.port = NoPort] \in D,
         [Blank EXCEPT !.port = NoPort] = Blank
  PROVE  Types(D, R)'
<1>1. used' = {} /\ UNCHANGED <<workerVars, endpointVars, sigchld>>
  BY DEF InitBegins, EmptyList, InitEnds
<1>2. /\ node' \in [Slot -> D \cup {Blank}]
      /\ \A s \in Slot : node[s] \in D => node'[s] \in D
  <2>1. CASE InitBegins
    BY <2>1 DEF InitBegins, Types
  <2>2. CASE InitEnds
    <3>1. PICK last \in Slot :
            node' = [s \in Slot |-> IF s = last THEN node[s]
                                    ELSE [node[s] EXCEPT !.port = NoPort]]
      BY <2>2 DEF InitEnds
    <3> QED BY <3>1 DEF Types
  <2> QED BY <2>1, <2>2
<1>3. \A p \in Pid : ptr'[p] # NoSlot => node'[ptr'[p]] \in D
  BY <1>1, <1>2 DEF Types, endpointVars
<1> QED BY <1>1, <1>2, <1>3 DEF Types, workerVars, endpointVars

LEMMA InitKeeps ==
  ASSUME RestartInv, InitBegins \/ InitEnds
  PROVE  RestartTypes' /\ SectionInv' /\ CrashInv'
<1>1. /\ used' = {} /\ worker' = "idle" /\ UNCHANGED <<main, ptr>>
      /\ InitEnds => used = {}
  BY DEF InitBegins, EmptyList, InitEnds, RestartInv, InitInv, workerVars, endpointVars
<1>2. RestartTypes'
  BY <1>1, PortLost, InitTypes DEF RestartInv, RestartTypes
<1>3. SectionInv' /\ CrashInv'
  BY <1>1 DEF SectionInv, PortsUnique, CrashInv, OnlyTheUntrackedCrash, EntryOf
<1> QED BY <1>2, <1>3

\* What an endpoint finds in the list while it is initialised has been an entry.
LEMMA FetchTypes ==
  ASSUME NEW D, NEW R, Types(D, R), NEW p \in Pid, FetchWhileInit(p),
         conf[p].port # NoPort
  PROVE  Types(D, R)'
<1>1. PICK s \in {NoSlot} \cup {t \in Slot : node[t].port = conf[p].port} :
        ptr' = [ptr EXCEPT ![p] = s]
  BY DEF FetchWhileInit
<1>2. s \in Slot => node[s] \in D
  <2>1. s \in Slot => node[s] # Blank
    BY <1>1, PlaneAssumption DEF Blank
  <2> QED BY <2>1 DEF Types
<1>3. /\ ptr' \in [Pid -> Slot \cup {NoSlot}]
      /\ \A q \in Pid : ptr'[q] # NoSlot => node[ptr'[q]] \in D
  BY <1>1, <1>2 DEF Types
<1>4. /\ main' = [main EXCEPT ![p] = "copy"] /\ main[p] = "fetch"
      /\ UNCHANGED <<registryVars, workerVars, conf, pending, sigchld>>
  BY DEF FetchWhileInit
<1>5. /\ main' \in [Pid -> Serving \cup {"exit"} \cup Zombie \cup {"none"}]
      /\ \A q \in Pid : q # p => main'[q] = main[q] /\ ptr'[q] = ptr[q]
      /\ main'[p] = "copy"
  BY <1>1, <1>4 DEF Types
<1> QED BY <1>3, <1>4, <1>5 DEF Types, registryVars, workerVars

LEMMA FetchKeeps ==
  ASSUME RestartInv, ~torn, server = "init", NEW p \in Pid, LockedStep(p)
  PROVE  RestartTypes' /\ SectionInv' /\ CrashInv'
<1>1. /\ FetchWhileInit(p) /\ conf[p].port # NoPort
      /\ used = {} /\ worker = "idle"
  BY DEF LockedStep, RestartInv, InitInv
<1>2. RestartTypes'
  BY <1>1, FetchTypes DEF RestartInv, RestartTypes
<1>3. used' = {} /\ worker' = "idle"
  BY <1>1 DEF FetchWhileInit, registryVars, workerVars
<1>4. SectionInv' /\ CrashInv'
  BY <1>3 DEF SectionInv, PortsUnique, CrashInv, OnlyTheUntrackedCrash, EntryOf
<1> QED BY <1>2, <1>4

-----------------------------------------------------------------------------
(***************************************************************************)
(* The parts of the invariant that are of this module.                     *)
(***************************************************************************)
\* The worker moves no process that uses the list, or has exited.
LEMMA WorkerMoves ==
  ASSUME NEW D, NEW R, Types(D, R), WorkerNext
  PROVE  \A q \in Pid : \/ main'[q] = main[q]
                        \/ main[q] \in {"exec", "none"} /\ main'[q] # "none"
BY DEF Types, WorkerNext, TakeTask, Signal, Deliver, Exit, SignalFails, Launch,
       LaunchFails, Add, endpointVars

\* An endpoint moves itself only, and does no more to the list than remove an entry.
\* Without the mutex it does not even that; where it waits for the mutex, or has it,
\* it then stays there with its configuration, or its process exits.
Moves(p) ==
  /\ \A q \in Pid \ {p} : main'[q] = main[q] /\ conf'[q] = conf[q]
  /\ main[p] # "none" => main'[p] # "none"
  /\ node' = node /\ used' \subseteq used /\ UNCHANGED workerVars

LEMMA OutsideMoves ==
  ASSUME NEW D, NEW R, Types(D, R), NEW p \in Pid, OutsideNext(p)
  PROVE  /\ Moves(p) /\ used' = used
         /\ main[p] \in Section => \/ main'[p] = main[p] /\ conf'[p] = conf[p]
                                   \/ main'[p] \in Zombie
<1>0. /\ main \in [Pid -> Serving \cup {"exit"} \cup Zombie \cup {"none"}]
      /\ DOMAIN conf = Pid
  BY DEF Types
<1>1. CASE StartFails(p) \/ CopyFromNull(p) \/ ThreadFails(p)
           \/ End(p)
  <2>1. UNCHANGED <<registryVars, workerVars>> /\ \E how \in Zombie : Exit(p, how)
    BY <1>1 DEF StartFails, CopyFromNull, ThreadFails, End
  <2>2. main'[p] \in Zombie
        /\ \A q \in Pid \ {p} : main'[q] = main[q] /\ conf'[q] = conf[q]
    BY <1>0, <2>1 DEF Exit, Types
  <2> QED BY <2>1, <2>2 DEF registryVars, Moves
<1>2. CASE Start(p) \/ TakeSignal(p) \/ CopyStart(p) \/ CopyRest(p) \/ Timeout(p) \/ Join(p)
  <2>1. UNCHANGED <<registryVars, workerVars>> /\ main[p] \notin Section
    BY <1>2 DEF Start, TakeSignal, CopyStart, CopyRest, Timeout, Join, Section
  <2>2. main'[p] # "none"
        /\ \A q \in Pid \ {p} : main'[q] = main[q] /\ conf'[q] = conf[q]
    BY <1>0, <1>2 DEF Start, TakeSignal, CopyStart, CopyRest, Timeout, Join, Types
  <2> QED BY <2>1, <2>2 DEF registryVars, Moves
<1>3. CASE OpenSocket(p)
  BY <1>0, <1>3 DEF OpenSocket, registryVars, Moves
<1> QED BY <1>1, <1>2, <1>3 DEF OutsideNext, Copy

LEMMA SectionMoves ==
  ASSUME NEW D, NEW R, Types(D, R), NEW p \in Pid, SectionNext(p) \/ FetchWhileInit(p)
  PROVE  Moves(p)
<1>0. /\ main \in [Pid -> Serving \cup {"exit"} \cup Zombie \cup {"none"}]
      /\ DOMAIN conf = Pid
  BY DEF Types
<1>1. CASE Fetch(p)
  BY <1>0, <1>1 DEF Fetch, registryVars, Moves
<1>2. CASE FetchWhileInit(p)
  BY <1>0, <1>2 DEF FetchWhileInit, registryVars, Moves
<1>3. CASE Leave(p)
  BY <1>0, <1>3 DEF Leave, RemoveElement, Free, registryVars, Moves
<1> QED BY <1>1, <1>2, <1>3 DEF SectionNext

\* The processes of an earlier server are there until process 1 reaps them, and who
\* is stuck, or has the mutex, is where he got so until his second thread ends him.
LEMMA FaultTypesKept ==
  ASSUME RestartInv, [RestartNext]_restartVars
  PROVE  FaultTypes'
<1> USE DEF FaultTypes, faultVars
<1>0. /\ FaultTypes
      /\ RestartTypes
      /\ main \in [Pid -> Serving \cup {"exit"} \cup Zombie \cup {"none"}]
  BY DEF RestartInv, RestartTypes, Types
<1>1. CASE Crash
  BY <1>0, <1>1, RestartAssumption DEF Crash, endpointVars
<1>2. CASE InitBegins
  <2>1. PICK sleeping \in SUBSET Waiting : stuck' = stuck \cup sleeping
    BY <1>2 DEF InitBegins, InitMutex
  <2> QED
    BY <1>0, <1>2, <2>1 DEF InitBegins, InitMutex, Waiting, endpointVars
<1>3. CASE InitEnds
  BY <1>0, <1>3 DEF InitEnds, endpointVars
<1>4. CASE WorkerStep
  BY <1>0, <1>4, WorkerMoves DEF WorkerStep, RestartTypes, Section
<1>5. CASE SigchldStep
  BY <1>0, <1>5 DEF SigchldStep, HandleSigchld, endpointVars
<1>6. CASE ReapOwnDone
  BY <1>0, <1>6 DEF ReapOwnDone, endpointVars
<1>7. ASSUME NEW p \in Pid, ReapOwn(p) PROVE FaultTypes'
  BY <1>0, <1>7 DEF ReapOwn, Reap, Section
<1>8. ASSUME NEW p \in Pid, InitReaps(p) PROVE FaultTypes'
  BY <1>0, <1>8 DEF InitReaps, Section
<1>9. ASSUME NEW p \in Pid, Lock(p) PROVE FaultTypes'
  BY <1>0, <1>9 DEF Lock, vars, endpointVars
<1>10. ASSUME NEW p \in Pid, LockedStep(p) PROVE FaultTypes'
  <2>1. Moves(p)
    BY <1>0, <1>10, SectionMoves DEF LockedStep, RestartTypes
  <2> QED BY <1>0, <1>10, <2>1 DEF LockedStep, Moves
<1>11. ASSUME NEW p \in Pid, EndpointStep(p) PROVE FaultTypes'
  <2>1. /\ \A q \in Pid \ {p} : main'[q] = main[q]
        /\ main[p] # "none" => main'[p] # "none"
        /\ main[p] \in Section => main'[p] = main[p] \/ main'[p] \in Zombie
        /\ UNCHANGED <<server, crashes, orphan, torn>>
    BY <1>0, <1>11, OutsideMoves DEF EndpointStep, RestartTypes, Moves
  <2>2. CASE main[p] \in Section /\ main'[p] \in Zombie
    <3>1. stuck' = stuck \ {p} /\ inside' = inside \ {p} /\ lost' \in {"endpoint", lost}
      BY <1>11, <2>2 DEF EndpointStep
    <3> QED BY <1>0, <2>1, <3>1
  <2>3. CASE ~(main[p] \in Section /\ main'[p] \in Zombie)
    <3>1. UNCHANGED <<stuck, inside, lost>>
      BY <1>11, <2>3 DEF EndpointStep
    <3> QED BY <1>0, <2>1, <2>3, <3>1
  <2> QED BY <2>2, <2>3
<1>12. CASE UNCHANGED restartVars
  BY <1>0, <1>12 DEF restartVars, vars, endpointVars
<1> QED
  BY <1>1, <1>2, <1>3, <1>4, <1>5, <1>6, <1>7, <1>8, <1>9, <1>10, <1>11, <1>12
  DEF RestartNext

\* Nobody comes to the list unnoticed while it is initialised.
LEMMA InitInvKept ==
  ASSUME RestartInv, [RestartNext]_restartVars
  PROVE  InitInv'
<1> USE DEF InitInv, faultVars
<1>0. InitInv /\ FaultTypes /\ RestartTypes
  BY DEF RestartInv
<1>1. CASE Crash
  BY <1>1 DEF Crash, WorkerDone
<1>2. CASE InitBegins
  BY <1>0, <1>2 DEF InitBegins, InitMutex, EmptyList, workerVars
<1>3. CASE InitEnds
  BY <1>3 DEF InitEnds
<1>4. CASE WorkerStep
  BY <1>4 DEF WorkerStep
<1>5. CASE SigchldStep \/ \E p \in Pid : ReapOwn(p)
  BY <1>5 DEF SigchldStep, ReapOwn
<1>6. CASE ReapOwnDone
  BY <1>6 DEF ReapOwnDone
<1>7. ASSUME NEW p \in Pid, InitReaps(p) PROVE InitInv'
  <2>1. \A q \in Pid : main[q] = "fetch" => main'[q] = "fetch"
    BY <1>0, <1>7 DEF InitReaps, RestartTypes, Types
  <2> QED
    BY <1>0, <1>7, <2>1 DEF InitReaps, FaultTypes, registryVars, workerVars
<1>8. ASSUME NEW p \in Pid, Lock(p) PROVE InitInv'
  BY <1>0, <1>8
  DEF Lock, vars, endpointVars, registryVars, workerVars, Section
<1>9. ASSUME NEW p \in Pid, LockedStep(p) PROVE InitInv'
  <2>1. CASE SectionNext(p) /\ server # "init"
    BY <1>0, <1>9, <2>1, SectionMoves DEF LockedStep, RestartTypes, workerVars, Moves
  <2>2. CASE FetchWhileInit(p)
    BY <1>0, <1>9, <2>2 DEF LockedStep, FetchWhileInit, registryVars, workerVars
  <2> QED BY <1>9, <2>1, <2>2 DEF LockedStep
<1>10. ASSUME NEW p \in Pid, EndpointStep(p) PROVE InitInv'
  <2>1. /\ \A q \in Pid \ {p} : main'[q] = main[q] /\ conf'[q] = conf[q]
        /\ main[p] \in Section =>
             \/ main'[p] = main[p] /\ conf'[p] = conf[p]
             \/ main'[p] \in Zombie
        /\ used' = used /\ worker' = worker
    BY <1>0, <1>10, OutsideMoves DEF EndpointStep, RestartTypes, workerVars, Moves
  <2>2. server' = server /\ torn' = torn /\ inside' \subseteq inside
    BY <1>10 DEF EndpointStep
  <2>3. p \in inside' => main'[p] = main[p] /\ conf'[p] = conf[p]
    BY <1>0, <1>10, <2>1 DEF EndpointStep, FaultTypes
  <2> QED BY <1>0, <2>1, <2>2, <2>3 DEF FaultTypes
<1>11. CASE UNCHANGED restartVars
  BY <1>0, <1>11 DEF restartVars, vars, endpointVars, registryVars, workerVars
<1> QED
  BY <1>1, <1>2, <1>3, <1>4, <1>5, <1>6, <1>7, <1>8, <1>9, <1>10, <1>11
  DEF RestartNext

\* A server lists, and signals, what it has launched.
LEMMA OwnStep ==
  ASSUME RestartInv, [RestartNext]_restartVars
  PROVE  OwnInv'
<1> USE DEF OwnInv, faultVars
<1>0. OwnInv /\ FaultTypes /\ RestartTypes /\ InitInv
  BY DEF RestartInv
<1>1. CASE Crash \/ InitBegins
  BY <1>1 DEF Crash, InitBegins
<1>2. CASE InitEnds
  BY <1>0, <1>2 DEF InitEnds, InitInv, workerVars
<1>3. CASE WorkerStep
  <2>0. server = "up" /\ UNCHANGED faultVars
    BY <1>3 DEF WorkerStep
  <2>1. ASSUME NEW request \in Request, TakeTask(request) PROVE OwnInv'
    <3>1. CASE UNCHANGED registryVars
      BY <1>0, <2>0, <2>1, <3>1 DEF TakeTask, registryVars
    <3>2. ASSUME NEW s \in Match(request.port), worker' = "signal",
                 Write(s, WithPid(request, node[s].pid))
          PROVE  OwnInv'
      <4>1. used' = used /\ \A t \in used : node'[t].pid = node[t].pid
        BY <1>0, <3>2 DEF Write, WithPid, RestartTypes, Types, Match
      <4> QED BY <1>0, <2>0, <3>2, <4>1
    <3> QED BY <2>1, <3>1, <3>2 DEF TakeTask
  <2>2. ASSUME NEW p \in Pid, Launch(p) PROVE OwnInv'
    BY <1>0, <2>0, <2>2 DEF Launch, registryVars, FaultTypes
  <2>3. CASE Signal \/ SignalFails \/ LaunchFails
    BY <1>0, <2>0, <2>3
    DEF Signal, SignalFails, LaunchFails, Free, WorkerDone, registryVars
  <2>4. CASE Add
    <3>1. worker = "add" /\ worker' = "idle"
      BY <2>4 DEF Add, WorkerDone
    <3>2. CASE UNCHANGED registryVars
      BY <1>0, <2>0, <3>1, <3>2 DEF registryVars
    <3>3. ASSUME NEW s \in Slot \ used, used' = used \cup {s},
                 node' = [node EXCEPT ![s] = WithPid(task, child)]
          PROVE  OwnInv'
      <4>1. node'[s].pid = child /\ \A t \in used : node'[t] = node[t]
        BY <1>0, <3>3 DEF RestartTypes, Types, WithPid
      <4> QED BY <1>0, <2>0, <3>1, <3>3, <4>1
    <3> QED BY <2>4, <3>2, <3>3 DEF Add, AddElement
  <2> QED BY <1>3, <2>1, <2>2, <2>3, <2>4 DEF WorkerStep, WorkerNext
<1>4. CASE SigchldStep
  BY <1>0, <1>4 DEF SigchldStep, HandleSigchld, registryVars, workerVars
<1>5. CASE ReapOwnDone
  BY <1>0, <1>5 DEF ReapOwnDone, registryVars, workerVars
<1>6. ASSUME NEW p \in Pid, ReapOwn(p) PROVE OwnInv'
  BY <1>0, <1>6 DEF ReapOwn, Reap, registryVars, workerVars
<1>7. ASSUME NEW p \in Pid, InitReaps(p) PROVE OwnInv'
  BY <1>0, <1>7 DEF InitReaps, registryVars, workerVars
<1>8. ASSUME NEW p \in Pid, Lock(p) PROVE OwnInv'
  BY <1>0, <1>8 DEF Lock, vars, registryVars, workerVars
<1>9. ASSUME NEW p \in Pid, LockedStep(p) PROVE OwnInv'
  <2>1. CASE SectionNext(p)
    BY <1>0, <1>9, <2>1, SectionMoves DEF LockedStep, RestartTypes, workerVars, Moves
  <2>2. CASE FetchWhileInit(p)
    BY <1>0, <1>9, <2>2 DEF LockedStep, FetchWhileInit, registryVars, workerVars
  <2> QED BY <1>9, <2>1, <2>2 DEF LockedStep
<1>10. ASSUME NEW p \in Pid, EndpointStep(p) PROVE OwnInv'
  BY <1>0, <1>10, OutsideMoves DEF EndpointStep, RestartTypes, workerVars, Moves
<1>11. CASE UNCHANGED restartVars
  BY <1>0, <1>11 DEF restartVars, vars, registryVars, workerVars
<1> QED
  BY <1>1, <1>2, <1>3, <1>4, <1>5, <1>6, <1>7, <1>8, <1>9, <1>10, <1>11
  DEF RestartNext

\* The invariant holds in every state.
LEMMA RestartInvariant == RestartSpec => []RestartInv
<1>1. RestartInv /\ [RestartNext]_restartVars => RestartInv'
  <2> SUFFICES ASSUME RestartInv, [RestartNext]_restartVars PROVE RestartInv'
    OBVIOUS
  <2>1. FaultTypes' /\ InitInv' /\ OwnInv'
    BY FaultTypesKept, InitInvKept, OwnStep
  <2>2. RestartTypes' /\ SectionInv' /\ CrashInv'
    <3>1. CASE PlaneStep
      BY <3>1, PlaneKeeps
    <3>2. ASSUME ~torn, NEW p \in Pid, LockedStep(p)
          PROVE  RestartTypes' /\ SectionInv' /\ CrashInv'
      BY <3>1, <3>2, FetchKeeps DEF PlaneStep
    <3> QED BY <3>1, <3>2, InitKeeps, QuietKeeps DEF RestartNext, PlaneStep
  <2> QED BY <2>1, <2>2 DEF RestartInv
<1> QED BY <1>1, RestartInitially, PTL DEF RestartSpec

-----------------------------------------------------------------------------
(***************************************************************************)
(* Theorems.                                                               *)
(***************************************************************************)
\* Whoever dies, the list holds entries of requests, an endpoint never copies a node
\* that has not been written, and only processes that wait for the mutex get stuck.
THEOREM RestartTypeCorrect == RestartSpec => []RestartTypeOK
<1>1. RestartInv => RestartTypeOK
  <2> SUFFICES ASSUME RestartInv PROVE RestartTypeOK
    OBVIOUS
  <2>1. FaultTypes
    BY DEF RestartInv
  <2>2. ASSUME NEW D, NEW R, Types(D, R), Blank \notin D
        PROVE  /\ used \in SUBSET Slot
               /\ node \in [Slot -> D \cup {Blank}]
               /\ \A s \in used : node[s] \in Data
               /\ worker \in WorkerState
               /\ worker = "signal" <=> found \in Slot
               /\ worker = "add" <=> child \in Pid
               /\ main \in [Pid -> Serving \cup {"exit"} \cup Zombie \cup {"none"}]
               /\ conf \in [Pid -> R \cup {Blank}]
               /\ \A p \in Pid : ptr[p] # NoSlot => node[ptr[p]] # Blank
    BY <2>2 DEF Types
  <2>3. Types(AnyPort(Data), AnyPort(Request)) /\ Blank \notin AnyPort(Data)
    BY PortLost DEF RestartInv, RestartTypes
  <2> QED BY <2>1, <2>2, <2>3 DEF RestartTypeOK, FaultTypes
<1> QED BY <1>1, RestartInvariant, PTL

\* A server that has been started again signals, and forgets, only what it has
\* launched itself.
THEOREM EntriesAreTheServers == RestartSpec => []EntriesAreOwn
<1>1. RestartInv => EntriesAreOwn
  BY DEF RestartInv, OwnInv, EntriesAreOwn
<1> QED BY <1>1, RestartInvariant, PTL

\* An endpoint that is about to use a null pointer has no entry, although the list
\* may be initialised, and ports lost, while it looks.
THEOREM StillOnlyTheUntrackedCrash == RestartSpec => []OnlyTheUntrackedCrash
<1>1. RestartInv => OnlyTheUntrackedCrash
  BY DEF RestartInv, CrashInv
<1> QED BY <1>1, RestartInvariant, PTL

\* If the kernel queues every signal, and until an endpoint works on the list while
\* it is initialised, an endpoint that serves loses its entry to initialize() or to a
\* predecessor at its port that is not in the list any more.
THEOREM OnlyTheUntrackedTakes ==
  ASSUME ~QueueMayFill
  PROVE  RestartSpec => OnlyTheUntrackedTake
<1> DEFINE Taken(s) ==
      \/ server = "down"
      \/ main[node[s].pid] \in {"none", "remove"}
      \/ \E p \in Pid : /\ main[p] = "remove" /\ main'[p] = "exit"
                        /\ conf[p].port = node[s].port /\ EntryOf(p) = {}
<1>1. RestartInv /\ [RestartNext]_restartVars
        => [\A s \in used \ used' : Taken(s)]_restartVars
  <2> SUFFICES ASSUME RestartInv, RestartNext, NEW s \in used \ used'
               PROVE  Taken(s)
    OBVIOUS
  <2>0. /\ PortsUnique /\ RestartTypes
        /\ main \in [Pid -> Serving \cup {"exit"} \cup Zombie \cup {"none"}]
    BY DEF RestartInv, SectionInv, RestartTypes, Types
  <2>1. ASSUME used' = used PROVE FALSE
    BY <2>1
  <2>2. CASE InitBegins
    BY <2>2 DEF InitBegins
  <2>3. CASE WorkerStep
    <3>1. CASE SignalFails
      BY <3>1 DEF SignalFails, Free
    <3> QED
      BY <2>1, <2>3, <3>1
      DEF WorkerStep, WorkerNext, TakeTask, Write, Signal, Launch, LaunchFails, Add,
          AddElement, registryVars
  <2>4. ASSUME NEW p \in Pid, Leave(p) PROVE Taken(s)
    <3>1. main[p] = "remove" /\ main'[p] = "exit" /\ RemoveElement(conf[p].port)
      BY <2>0, <2>4 DEF Leave
    <3>2. node[s].port = conf[p].port
      BY <2>1, <3>1 DEF RemoveElement, Match, Free, registryVars
    <3>3. EntryOf(p) # {} => node[s].pid = p
      BY <2>0, <3>2 DEF EntryOf, PortsUnique
    <3> QED BY <3>1, <3>2, <3>3
  <2>5. ASSUME NEW p \in Pid, LockedStep(p) PROVE Taken(s)
    BY <2>1, <2>4, <2>5 DEF LockedStep, SectionNext, Fetch, FetchWhileInit, registryVars
  <2>6. ASSUME NEW p \in Pid, EndpointStep(p) PROVE Taken(s)
    BY <2>0, <2>1, <2>6, OutsideMoves DEF EndpointStep, RestartTypes
  <2>7. CASE Crash \/ InitEnds \/ SigchldStep \/ ReapOwnDone
    BY <2>1, <2>7
    DEF Crash, InitEnds, SigchldStep, HandleSigchld, ReapOwnDone, registryVars
  <2>8. ASSUME NEW p \in Pid, ReapOwn(p) \/ InitReaps(p) \/ Lock(p) PROVE Taken(s)
    BY <2>1, <2>8 DEF ReapOwn, Reap, InitReaps, Lock, vars, registryVars
  <2> QED BY <2>2, <2>3, <2>5, <2>6, <2>7, <2>8 DEF RestartNext
<1> QED
  BY <1>1, RestartInvariant, PTL DEF RestartSpec, OnlyTheUntrackedTake
=============================================================================
