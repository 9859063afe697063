------------------------------ MODULE Registry ------------------------------
(***************************************************************************)
(* What the shared list of a media server (h/shared_list.h,                *)
(* src/shared_list.cpp) promises to the processes that map it: a fixed     *)
(* pool of MAX_NODES nodes, some of them in use, each holding the Data of  *)
(* one media endpoint.  The order of the list and the way free nodes are   *)
(* chained are not visible here: module SharedList has them and implements *)
(* this specification.                                                     *)
(*                                                                         *)
(* Every operation runs under the list's process-shared mutex, so each is  *)
(* one step.  A pointer to a node stays usable after the mutex is released *)
(* and after the node is freed: a freed node keeps its bytes, which is why *)
(* "node" is defined on every slot and "used" says which are in the list.  *)
(***************************************************************************)
EXTENDS FiniteSets

CONSTANTS
  Slot,        \* the nodes of the pool, MAX_NODES of them
  Port,        \* local RTP ports of the endpoints
  Dest,        \* remote address and port, dest_address and dest_port
  Duration,    \* duration of a call, in milliseconds
  Pid,         \* process identifiers
  NoPort       \* the port -1 that initialize() writes to every node

ASSUME PortAssumption == NoPort \notin Port

VARIABLES
  node,        \* the contents of each node
  used         \* the nodes that are in the list (count of them)

registryVars == <<node, used>>

\* The arguments of a request; "client" is left to the modules it matters to.
Request == [port: Port, dest: Dest, duration: Duration]

Data == [port: Port, dest: Dest, duration: Duration, pid: Pid]

\* initialize() sets the port of a node and leaves the rest of it alone.  It
\* stops one node short, which nothing can tell: only a node of the list is
\* looked at, and it has been written.
Blank == [port |-> NoPort]

\* The nodes fetch_element may return for a port; NULL when there is none.
Match(port) == {s \in used : node[s].port = port}

RegistryTypeOK ==
  /\ used \in SUBSET Slot
  /\ node \in [Slot -> Data \cup {Blank}]
  /\ \A s \in used : node[s] \in Data

Initialize ==
  /\ used = {}
  /\ node = [s \in Slot |-> Blank]

Write(s, d) ==
  /\ node' = [node EXCEPT ![s] = d]
  /\ UNCHANGED used

Free(s) ==
  /\ used' = used \ {s}
  /\ UNCHANGED node

\* ERROR, and no change, when all the nodes are in use.  Nothing checks that
\* the port is not in the list already.
AddElement(d) ==
  \/ /\ used = Slot
     /\ UNCHANGED registryVars
  \/ \E s \in Slot \ used :
       /\ used' = used \cup {s}
       /\ node' = [node EXCEPT ![s] = d]

UpdateElement(d) ==
  \/ /\ Match(d.port) = {}
     /\ UNCHANGED registryVars
  \/ \E s \in Match(d.port) : Write(s, d)

RemoveElement(port) ==
  \/ /\ Match(port) = {}
     /\ UNCHANGED registryVars
  \/ \E s \in Match(port) : Free(s)

RegistryNext ==
  \/ \E d \in Data : AddElement(d) \/ UpdateElement(d)
  \/ \E port \in Port : RemoveElement(port)

RegistrySpec == Initialize /\ [][RegistryNext]_registryVars
=============================================================================
