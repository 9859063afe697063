----------------------------- MODULE PortService ------------------------------
(***************************************************************************)
(* What a media server promises with its endpoints, and nothing of how:    *)
(* ports are assigned to processes.  "entries" is what the server knows,   *)
(* "running" what the processes do; both are sets of the same records, and *)
(* they are allowed to differ in three ways only.  A process may have been *)
(* started and not be entered yet, an entry may be that of a process that  *)
(* has died, and a process may not have taken over yet, wholly or in part, *)
(* what its entry says.  Module MediaPlane implements this within its      *)
(* limits.                                                                 *)
(***************************************************************************)
CONSTANTS
  Assignment     \* records with a port, a dest, a duration and a pid

VARIABLES
  entries,       \* the assignments the server knows of
  running,       \* those that processes carry out
  starting       \* the assignment of a process that is not entered yet, if any

serviceVars == <<entries, running, starting>>

\* The same process at the same port.
Same(a, b) == a.pid = b.pid /\ a.port = b.port

ServiceInit == entries = {} /\ running = {} /\ starting = {}

\* A process is started for a port that nobody has.
Launch(a) ==
  /\ starting = {} /\ starting' = {a}
  /\ \A e \in entries : e.port # a.port
  /\ \A r \in running : r.port # a.port /\ r.pid # a.pid
  /\ running' = running \cup {a}
  /\ UNCHANGED entries

\* It is entered, dead or alive.
Enter(a) ==
  /\ starting' = {}
  /\ entries' = entries \cup {a}
  /\ UNCHANGED running

\* A request for a port that is assigned goes to the process that has it.
Redirect(e, a) ==
  /\ Same(e, a)
  /\ entries' = (entries \ {e}) \cup {a}
  /\ UNCHANGED <<running, starting>>

\* A process takes over a part of what its entry says.
Adopt(r, e) ==
  /\ Same(r, e)
  /\ \E a \in {[r EXCEPT !.dest = e.dest], [r EXCEPT !.duration = e.duration]} :
       running' = (running \ {r}) \cup {a}
  /\ UNCHANGED <<entries, starting>>

\* The entry of a process that does not run is forgotten.
Forget(e) ==
  /\ \A r \in running : ~Same(e, r)
  /\ entries' = entries \ {e}
  /\ UNCHANGED <<running, starting>>

\* A process ends and takes its own entry along.
Leave(r, e) ==
  /\ Same(r, e)
  /\ entries' = entries \ {e}
  /\ running' = running \ {r}
  /\ UNCHANGED starting

\* A process dies, and its entry stays.
Die(r) ==
  /\ running' = running \ {r}
  /\ UNCHANGED <<entries, starting>>

ServiceNext ==
  \/ \E a \in Assignment : Launch(a)
  \/ \E a \in starting : Enter(a)
  \/ \E e \in entries, a \in Assignment : Redirect(e, a)
  \/ \E r \in running, e \in entries : Adopt(r, e) \/ Leave(r, e)
  \/ \E e \in entries : Forget(e)
  \/ \E r \in running : Die(r)

ServiceSpec == ServiceInit /\ [][ServiceNext]_serviceVars
=============================================================================
