----------------------------- MODULE SharedList -----------------------------
(***************************************************************************)
(* The shared list as h/shared_list.h and src/shared_list.cpp make it: an  *)
(* array of N nodes in one chain that starts at head and whose first       *)
(* "count" nodes are the list; the rest of the chain are the free nodes.   *)
(* Adding takes the first free node, which is where the list ends already. *)
(* Removing takes a node out of the chain and puts it back after the last  *)
(* node of the list.                                                       *)
(*                                                                         *)
(* It implements module Registry, which is what the other modules use.     *)
(***************************************************************************)
EXTENDS Integers, Sequences

CONSTANTS N, Port, Dest, Duration, Pid, NoPort

\* next is a short, so is count; a list of one node would be linked to its own
\* predecessor nodes[-1] by remove_element.
ASSUME ListAssumption == N \in 2 .. 32767

VARIABLES data, next, head, count

vars == <<data, next, head, count>>

Slot == 0 .. N - 1
Null == -1

\* The nodes met from h on, following nx.
Walk(h, nx) ==
  LET at[i \in 0 .. N] ==
        IF i = 0 THEN h
        ELSE IF at[i - 1] = Null THEN Null ELSE nx[at[i - 1]]
  IN  at

chain == Walk(head, next)

\* The registry that the chain stands for.
R == INSTANCE Registry WITH
       node <- data,
       used <- {chain[i] : i \in 0 .. count - 1}

\* What print_list prints.
Listing == [i \in 1 .. count |-> data[chain[i - 1]]]

TypeOK ==
  /\ data \in [Slot -> R!Data \cup {R!Blank}]
  /\ next \in [Slot -> Slot \cup {Null}]
  /\ head \in Slot
  /\ count \in 0 .. N

Init ==
  /\ data = [s \in Slot |-> R!Blank]
  /\ next = [s \in Slot |-> IF s = N - 1 THEN Null ELSE s + 1]
  /\ head = 0
  /\ count = 0

-----------------------------------------------------------------------------
\* The positions at which the loop of fetch_element stops, the first match.
FirstAt(port) ==
  {i \in 0 .. count - 1 :
     /\ data[chain[i]].port = port
     /\ \A j \in 0 .. i - 1 : data[chain[j]].port # port}

\* Mutant: the test for a full list is forgotten.
AddElementUnbounded(d) ==
  /\ data' = [data EXCEPT ![chain[count]] = d]
  /\ count' = count + 1
  /\ UNCHANGED <<next, head>>

\* Mutant: the walk stops at the last node of the list, not after it.
AddElementOverLast(d) ==
  IF count >= N
    THEN UNCHANGED vars
    ELSE /\ data' = [data EXCEPT ![chain[IF count = 0 THEN 0 ELSE count - 1]] = d]
         /\ count' = count + 1
         /\ UNCHANGED <<next, head>>

AddElement(d) ==
  IF count >= N
    THEN UNCHANGED vars
    ELSE /\ data' = [data EXCEPT ![chain[count]] = d]
         /\ count' = count + 1
         /\ UNCHANGED <<next, head>>

UpdateElement(d) ==
  \/ FirstAt(d.port) = {} /\ UNCHANGED vars
  \/ \E i \in FirstAt(d.port) :
       /\ data' = [data EXCEPT ![chain[i]] = d]
       /\ UNCHANGED <<next, head, count>>

\* Take node h, at position i, out of the chain.
Unlinked(i) ==
  IF i = 0 THEN next ELSE [next EXCEPT ![chain[i - 1]] = next[chain[i]]]

\* Mutant: the node goes to the end of the chain's list without its successor.
RemoveElementLeaks(port) ==
  \E i \in FirstAt(port) :
    LET h  == chain[i]
        nx == Unlinked(i)
        top == IF i = 0 THEN next[h] ELSE head
        last == Walk(top, nx)[IF count > 2 THEN count - 2 ELSE 0]
    IN  /\ head' = top
        /\ count' = count - 1
        /\ next' = [nx EXCEPT ![h] = Null, ![last] = h]
        /\ UNCHANGED data

\* Mutant: the last node is looked for one step short.
RemoveElementShort(port) ==
  \E i \in FirstAt(port) :
    LET h  == chain[i]
        nx == Unlinked(i)
        top == IF i = 0 THEN next[h] ELSE head
        last == Walk(top, nx)[IF count > 3 THEN count - 3 ELSE 0]
    IN  /\ head' = top
        /\ count' = count - 1
        /\ next' = [nx EXCEPT ![h] = nx[last], ![last] = h]
        /\ UNCHANGED data

\* Unlink the node, find the last node of what is left of the list (or the
\* first free one, if nothing is left) and link the node after it.
RemoveElement(port) ==
  \/ FirstAt(port) = {} /\ UNCHANGED vars
  \/ \E i \in FirstAt(port) :
       LET h  == chain[i]
           nx == Unlinked(i)
           top == IF i = 0 THEN next[h] ELSE head
           last == Walk(top, nx)[IF count > 2 THEN count - 2 ELSE 0]
       IN  /\ head' = top
           /\ count' = count - 1
           /\ next' = [nx EXCEPT ![h] = nx[last], ![last] = h]
           /\ UNCHANGED data

Next ==
  \/ \E d \in R!Data : AddElement(d) \/ UpdateElement(d)
  \/ \E port \in Port : RemoveElement(port)

Spec == Init /\ [][Next]_vars

-----------------------------------------------------------------------------
(***************************************************************************)
(* Properties.                                                             *)
(***************************************************************************)
\* Every node is in the chain, once: none is lost, none is in two places, and
\* the chain ends.
ChainComplete ==
  /\ \A s \in Slot : \E i \in 0 .. N - 1 : chain[i] = s
  /\ chain[N] = Null

\* The entries stay in the order in which they were added: a removal takes one
\* out and leaves the rest as it is.
OrderKept ==
  [][count' < count =>
       \E k \in 1 .. count :
         Listing' = SubSeq(Listing, 1, k - 1) \o SubSeq(Listing, k + 1, count)]_vars

\* The list does what the registry promises.
RefinesRegistry == R!RegistrySpec
=============================================================================
