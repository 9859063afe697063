-------------------------- MODULE SharedListProofs ---------------------------
(***************************************************************************)
(* Proofs that the array and its chain (SharedList) implement the registry *)
(* for any number of nodes, ports and processes.                           *)
(*                                                                         *)
(* A walk of the chain is a recursive function.  What is proved about it   *)
(* by induction is stated with a set, the numbers for which it holds, and  *)
(* proved from the least number outside of that set.                       *)
(***************************************************************************)
EXTENDS SharedList, WellFoundedInduction, SequenceTheorems, TLAPS

-----------------------------------------------------------------------------
(***************************************************************************)
(* Induction.                                                              *)
(***************************************************************************)
\* A set of natural numbers has a least element.
LEMMA LeastNatural ==
  ASSUME NEW T \in SUBSET Nat, T # {}
  PROVE  \E m \in T : \A k \in T : m <= k
<1> DEFINE Less == OpToRel(<, Nat)
<1>1. IsWellFoundedOn(Less, Nat)
  BY NatLessThanWellFounded
<1>2. \A a, b \in Nat : a < b => <<a, b>> \in Less
  BY DEF OpToRel
<1> HIDE DEF Less
<1>3. PICK m \in T : \A k \in T : ~ (<<k, m>> \in Less)
  BY <1>1, WFMin
<1>4. ASSUME NEW k \in T PROVE m <= k
  <2>1. k \in Nat /\ m \in Nat
    OBVIOUS
  <2>2. ~ (k < m)
    BY <1>2, <1>3, <2>1
  <2> QED BY <2>1, <2>2
<1> QED BY <1>4

\* A set that has 0 and the successor of every number it has, has them all.
LEMMA SetInduction ==
  ASSUME NEW T, 0 \in T, \A i \in Nat : i \in T => i + 1 \in T
  PROVE  Nat \subseteq T
<1> SUFFICES ASSUME Nat \ T # {} PROVE FALSE
  OBVIOUS
<1>1. PICK m \in Nat \ T : \A k \in Nat \ T : m <= k
  BY LeastNatural
<1>2. m # 0 /\ m - 1 \in Nat /\ m - 1 \in T
  BY <1>1
<1> QED BY <1>1, <1>2

-----------------------------------------------------------------------------
(***************************************************************************)
(* Walks of a chain.                                                       *)
(***************************************************************************)
\* c is the sequence of the nodes met from h on, following nx.
Follows(c, h, nx) ==
  c = [i \in 0 .. N |->
         IF i = 0 THEN h ELSE IF c[i - 1] = Null THEN Null ELSE nx[c[i - 1]]]

\* Every node is in c, once, and c ends.
Complete(c) ==
  /\ \A i \in 0 .. N - 1 : c[i] \in Slot
  /\ c[N] = Null
  /\ \A i, j \in 0 .. N - 1 : c[i] = c[j] => i = j
  /\ \A s \in Slot : \E i \in 0 .. N - 1 : c[i] = s

\* There is one such sequence for a head and its links.
LEMMA WalkUnique ==
  ASSUME NEW h, NEW nx, NEW c, Follows(c, h, nx)
  PROVE  Walk(h, nx) = c
<1> DEFINE w == Walk(h, nx)
<1>1. Follows(w, h, nx)
  <2>1. \E at : at = [i \in 0 .. N |->
           IF i = 0 THEN h ELSE IF at[i - 1] = Null THEN Null ELSE nx[at[i - 1]]]
    BY DEF Follows
  <2> QED BY <2>1 DEF Follows, Walk
<1> HIDE DEF w
<1> DEFINE T == {i \in Nat : i \in 0 .. N => w[i] = c[i]}
<1>2. 0 \in T
  <2>1. 0 \in 0 .. N
    BY ListAssumption
  <2>2. w[0] = h
    BY <1>1, <2>1 DEF Follows
  <2>3. c[0] = h
    BY <2>1 DEF Follows
  <2> QED BY <2>2, <2>3
<1>3. ASSUME NEW i \in Nat, i \in T PROVE i + 1 \in T
  <2> SUFFICES ASSUME i + 1 \in 0 .. N PROVE w[i + 1] = c[i + 1]
    OBVIOUS
  <2>1. i \in 0 .. N /\ w[i] = c[i] /\ (i + 1) - 1 = i /\ i + 1 # 0
    BY <1>3, ListAssumption
  <2>2. w[i + 1] = IF w[i] = Null THEN Null ELSE nx[w[i]]
    BY <1>1, <2>1 DEF Follows
  <2>3. c[i + 1] = IF c[i] = Null THEN Null ELSE nx[c[i]]
    BY <2>1 DEF Follows
  <2> QED BY <2>1, <2>2, <2>3
<1>4. Nat \subseteq T
  <2> HIDE DEF T
  <2> QED BY <1>2, <1>3, SetInduction
<1>5. \A i \in 0 .. N : w[i] = c[i]
  BY <1>4, ListAssumption
<1>6. w = [i \in 0 .. N |-> w[i]] /\ c = [i \in 0 .. N |-> c[i]]
  BY <1>1 DEF Follows
<1> QED BY <1>5, <1>6 DEF w

\* How a walk goes on from each of its nodes.
LEMMA WalkSteps ==
  ASSUME NEW c, NEW h, NEW nx, Follows(c, h, nx), Complete(c)
  PROVE  /\ c[0] = h
         /\ \A a \in 0 .. N - 1 : c[a] # Null /\ c[a + 1] = nx[c[a]]
<1>1. c[0] = h
  <2>1. 0 \in 0 .. N
    BY ListAssumption
  <2> QED BY <2>1 DEF Follows
<1>2. ASSUME NEW a \in 0 .. N - 1 PROVE c[a] # Null /\ c[a + 1] = nx[c[a]]
  <2>1. a + 1 \in 0 .. N /\ a + 1 # 0 /\ (a + 1) - 1 = a
    BY ListAssumption
  <2>2. c[a] # Null
    BY ListAssumption DEF Complete, Slot, Null
  <2>3. c[a + 1] = IF c[a] = Null THEN Null ELSE nx[c[a]]
    BY <2>1 DEF Follows
  <2> QED BY <2>2, <2>3
<1> QED BY <1>1, <1>2

-----------------------------------------------------------------------------
(***************************************************************************)
(* What remove_element makes of the chain.                                 *)
(***************************************************************************)
\* The links and the head when node i is taken out of c.
Skip(c, i, nx) == IF i = 0 THEN nx ELSE [nx EXCEPT ![c[i - 1]] = nx[c[i]]]

Top(c, i, h, nx) == IF i = 0 THEN nx[c[i]] ELSE h

\* c without its node i, and c with its node i moved to position l.
Without(c, i) ==
  [j \in 0 .. N |-> IF j < i THEN c[j] ELSE IF j < N THEN c[j + 1] ELSE Null]

Moved(c, i, l) ==
  [j \in 0 .. N |-> IF j < i \/ j > l THEN c[j] ELSE IF j = l THEN c[i] ELSE c[j + 1]]

\* The links when node i is put back after the node at position l - 1 of the rest.
Relink(c, i, l, nx) ==
  [Skip(c, i, nx) EXCEPT ![c[i]] = Skip(c, i, nx)[Without(c, i)[l - 1]],
                         ![Without(c, i)[l - 1]] = c[i]]

\* Where the links lead once node i has been taken out.
LEMMA SkipSteps ==
  ASSUME NEW c, NEW h, NEW nx \in [Slot -> Slot \cup {Null}],
         Follows(c, h, nx), Complete(c), NEW i \in 0 .. N - 1
  PROVE  \A a \in 0 .. N - 1 :
           Skip(c, i, nx)[c[a]] = IF a = i - 1 THEN c[i + 1] ELSE c[a + 1]
<1> SUFFICES ASSUME NEW a \in 0 .. N - 1
             PROVE  Skip(c, i, nx)[c[a]] = IF a = i - 1 THEN c[i + 1] ELSE c[a + 1]
  OBVIOUS
<1>1. c[a] \in Slot /\ c[a + 1] = nx[c[a]] /\ c[i + 1] = nx[c[i]]
  BY WalkSteps DEF Complete
<1>2. CASE i = 0
  BY <1>1, <1>2 DEF Skip
<1>3. CASE i # 0
  <2>1. i - 1 \in 0 .. N - 1
    BY <1>3, ListAssumption
  <2>2. c[a] = c[i - 1] <=> a = i - 1
    BY <2>1 DEF Complete
  <2>3. Skip(c, i, nx) = [nx EXCEPT ![c[i - 1]] = nx[c[i]]]
    BY <1>3 DEF Skip
  <2> QED BY <1>1, <2>2, <2>3
<1> QED BY <1>2, <1>3

\* Taking node i out leaves the walk without it.
LEMMA UnlinkedWalk ==
  ASSUME NEW c, NEW h, NEW nx \in [Slot -> Slot \cup {Null}],
         Follows(c, h, nx), Complete(c), NEW i \in 0 .. N - 1
  PROVE  Walk(Top(c, i, h, nx), Skip(c, i, nx)) = Without(c, i)
<1> DEFINE e == Without(c, i)
           x == Skip(c, i, nx)
<1>1. e[0] = Top(c, i, h, nx)
  <2>1. 0 \in 0 .. N /\ 0 \in 0 .. N - 1 /\ 0 < N
    BY ListAssumption
  <2>2. e[0] = IF 0 < i THEN c[0] ELSE c[0 + 1]
    BY <2>1 DEF Without
  <2>3. c[0] = h /\ c[0 + 1] = nx[c[0]]
    BY <2>1, WalkSteps
  <2> QED BY <2>2, <2>3 DEF Top
<1>2. ASSUME NEW j \in 1 .. N
      PROVE  e[j] = IF e[j - 1] = Null THEN Null ELSE x[e[j - 1]]
  <2> HIDE DEF x
  <2>1. \A a \in 0 .. N - 1 : x[c[a]] = IF a = i - 1 THEN c[i + 1] ELSE c[a + 1]
    BY SkipSteps DEF x
  <2>2. \A a \in 0 .. N - 1 : c[a] # Null
    BY WalkSteps
  <2>3. c[N] = Null
    BY DEF Complete
  <2>4. j \in 0 .. N /\ j - 1 \in 0 .. N /\ j - 1 < N
    BY ListAssumption
  <2>5. e[j] = IF j < i THEN c[j] ELSE IF j < N THEN c[j + 1] ELSE Null
    BY <2>4 DEF Without
  <2>6. e[j - 1] = IF j - 1 < i THEN c[j - 1] ELSE c[j]
    BY <2>4 DEF Without
  <2> HIDE DEF e
  <2>7. CASE j <= i
    BY <2>1, <2>2, <2>5, <2>6, <2>7, ListAssumption
  <2>8. CASE j > i /\ j < N
    BY <2>1, <2>2, <2>5, <2>6, <2>8, ListAssumption
  <2>9. CASE j > i /\ j = N
    BY <2>3, <2>5, <2>6, <2>9, ListAssumption
  <2> QED BY <2>7, <2>8, <2>9, ListAssumption
<1>3. Follows(e, Top(c, i, h, nx), x)
  <2>1. e = [j \in 0 .. N |-> e[j]]
    BY DEF Without
  <2> HIDE DEF e, x
  <2>2. \A j \in 0 .. N :
          e[j] = IF j = 0 THEN Top(c, i, h, nx)
                 ELSE IF e[j - 1] = Null THEN Null ELSE x[e[j - 1]]
    BY <1>1, <1>2
  <2> QED BY <2>1, <2>2 DEF Follows
<1> QED BY <1>3, WalkUnique

\* Putting node i back after the node at position l - 1 of what is left moves it
\* to position l.
LEMMA RelinkedWalk ==
  ASSUME NEW c, NEW h, NEW nx \in [Slot -> Slot \cup {Null}],
         Follows(c, h, nx), Complete(c), NEW i \in 0 .. N - 1,
         NEW l \in 1 .. N - 1, i <= l
  PROVE  /\ Follows(Moved(c, i, l), Top(c, i, h, nx), Relink(c, i, l, nx))
         /\ Walk(Top(c, i, h, nx), Relink(c, i, l, nx)) = Moved(c, i, l)
<1> DEFINE m == Moved(c, i, l)
           last == Without(c, i)[l - 1]
           nx2 == Relink(c, i, l, nx)
           k == IF l = i THEN i - 1 ELSE l
           x == Skip(c, i, nx)
<1>1. k \in 0 .. N - 1 /\ k # i /\ last = c[k]
  <2>1. l - 1 \in 0 .. N /\ l - 1 < N
    BY ListAssumption
  <2>2. last = IF l - 1 < i THEN c[l - 1] ELSE c[(l - 1) + 1]
    BY <2>1 DEF Without
  <2> HIDE DEF last
  <2>3. CASE l = i
    <3>1. l - 1 < i /\ k = l - 1
      BY <2>3, ListAssumption
    <3> QED BY <2>2, <2>3, <3>1, ListAssumption
  <2>4. CASE l # i
    <3>1. ~ (l - 1 < i) /\ (l - 1) + 1 = l /\ k = l
      BY <2>4, ListAssumption
    <3> QED BY <2>2, <2>4, <3>1, ListAssumption
  <2> QED BY <2>3, <2>4
<1> HIDE DEF k, last, nx2
<1>2. \A a \in 0 .. N - 1 : x[c[a]] = IF a = i - 1 THEN c[i + 1] ELSE c[a + 1]
  BY SkipSteps
<1>3. x \in [Slot -> Slot \cup {Null}] \/ DOMAIN x = Slot
  BY DEF Skip
<1> HIDE DEF x
<1>4. \A a, b \in 0 .. N - 1 : c[a] = c[b] => a = b
  BY DEF Complete
<1>5. \A a \in 0 .. N - 1 : c[a] \in Slot /\ c[a] # Null
  BY WalkSteps DEF Complete
<1>6. \A a \in 0 .. N - 1 :
        nx2[c[a]] = IF a = k THEN c[i] ELSE IF a = i THEN x[c[k]] ELSE x[c[a]]
  <2>1. nx2 = [x EXCEPT ![c[i]] = x[c[k]], ![c[k]] = c[i]]
    BY <1>1 DEF x, nx2, last, Relink
  <2>2. c[i] \in Slot /\ c[k] \in Slot /\ DOMAIN x = Slot
    BY <1>1, <1>3, <1>5
  <2> QED BY <2>1, <2>2, <1>1, <1>4, <1>5
<1>7. x[c[k]] = c[l + 1]
  BY <1>1, <1>2, ListAssumption DEF k
<1>8. m[0] = Top(c, i, h, nx)
  <2>1. 0 \in 0 .. N /\ 0 \in 0 .. N - 1 /\ 0 < l
    BY ListAssumption
  <2>2. m[0] = IF 0 < i THEN c[0] ELSE c[0 + 1]
    BY <2>1, ListAssumption DEF Moved
  <2>3. c[0] = h /\ c[0 + 1] = nx[c[0]]
    BY <2>1, WalkSteps
  <2> QED BY <2>2, <2>3 DEF Top
<1>9. ASSUME NEW j \in 1 .. N
      PROVE  m[j] = IF m[j - 1] = Null THEN Null ELSE nx2[m[j - 1]]
  <2>1. j \in 0 .. N /\ j - 1 \in 0 .. N - 1 /\ (j - 1) + 1 = j
    BY ListAssumption
  <2>2. m[j] = IF j < i \/ j > l THEN c[j] ELSE IF j = l THEN c[i] ELSE c[j + 1]
    BY <2>1 DEF Moved
  <2>3. j - 1 \in 0 .. N
    BY <2>1, ListAssumption
  <2>4. m[j - 1] = IF j - 1 < i \/ j - 1 > l THEN c[j - 1]
                   ELSE IF j - 1 = l THEN c[i] ELSE c[(j - 1) + 1]
    BY <2>3 DEF Moved
  <2> HIDE DEF m
  <2>5. CASE j <= i
    <3>1. m[j - 1] = c[j - 1]
      BY <2>4, <2>5, ListAssumption
    <3>2. nx2[c[j - 1]] = IF j - 1 = k THEN c[i] ELSE x[c[j - 1]]
      BY <1>6, <2>1, <2>5, ListAssumption
    <3>3. x[c[j - 1]] = IF j = i THEN c[i + 1] ELSE c[j]
      BY <1>2, <2>1, ListAssumption
    <3> QED
      BY <1>5, <2>1, <2>2, <2>5, <3>1, <3>2, <3>3, ListAssumption DEF k
  <2>6. CASE j > i /\ j <= l
    <3>1. m[j - 1] = c[j] /\ j \in 0 .. N - 1
      BY <2>1, <2>4, <2>6, ListAssumption
    <3>2. nx2[c[j]] = IF j = k THEN c[i] ELSE x[c[j]]
      BY <1>6, <2>6, <3>1, ListAssumption
    <3>3. x[c[j]] = c[j + 1]
      BY <1>2, <2>6, <3>1, ListAssumption
    <3> QED
      BY <1>5, <2>2, <2>6, <3>1, <3>2, <3>3, ListAssumption DEF k
  <2>7. CASE j = l + 1
    <3>1. m[j - 1] = c[i]
      BY <2>4, <2>7, ListAssumption
    <3>2. nx2[c[i]] = c[l + 1]
      BY <1>1, <1>6, <1>7
    <3> QED
      BY <1>5, <2>2, <2>7, <3>1, <3>2, ListAssumption
  <2>8. CASE j > l + 1
    <3>1. m[j - 1] = c[j - 1] /\ m[j] = c[j]
      BY <2>2, <2>4, <2>8, ListAssumption
    <3>2. j - 1 # k /\ j - 1 # i /\ j - 1 # i - 1
      BY <2>8, ListAssumption DEF k
    <3>3. nx2[c[j - 1]] = c[j]
      BY <1>2, <1>6, <2>1, <3>2
    <3> QED
      BY <1>5, <2>1, <3>1, <3>3
  <2> QED BY <2>5, <2>6, <2>7, <2>8, ListAssumption
<1>10. Follows(m, Top(c, i, h, nx), nx2)
  <2>1. m = [j \in 0 .. N |-> m[j]]
    BY DEF Moved
  <2> HIDE DEF m
  <2>2. \A j \in 0 .. N :
          m[j] = IF j = 0 THEN Top(c, i, h, nx)
                 ELSE IF m[j - 1] = Null THEN Null ELSE nx2[m[j - 1]]
    BY <1>8, <1>9
  <2> QED BY <2>1, <2>2 DEF Follows
<1> QED BY <1>10, WalkUnique DEF nx2

\* Moving a node loses none.
LEMMA MovedComplete ==
  ASSUME NEW c, Complete(c), NEW i \in 0 .. N - 1, NEW l \in 1 .. N - 1, i <= l
  PROVE  Complete(Moved(c, i, l))
<1> DEFINE m == Moved(c, i, l)
           from == [j \in 0 .. N - 1 |-> IF j < i \/ j > l THEN j ELSE IF j = l THEN i ELSE j + 1]
<1>1. \A j \in 0 .. N - 1 : from[j] \in 0 .. N - 1 /\ m[j] = c[from[j]]
  BY ListAssumption DEF Moved
<1>2. m[N] = c[N]
  <2>1. N \in 0 .. N /\ N > l
    BY ListAssumption
  <2> QED BY <2>1 DEF Moved
<1>3. \A a, b \in 0 .. N - 1 : from[a] = from[b] => a = b
  BY ListAssumption
<1>4. \A a \in 0 .. N - 1 : \E j \in 0 .. N - 1 : from[j] = a
  <2> SUFFICES ASSUME NEW a \in 0 .. N - 1
               PROVE  \E j \in 0 .. N - 1 : from[j] = a
    OBVIOUS
  <2>1. CASE a < i \/ a > l
    BY <2>1
  <2>2. CASE a = i
    BY <2>2, ListAssumption
  <2>3. CASE a > i /\ a <= l
    <3>1. a - 1 \in 0 .. N - 1 /\ from[a - 1] = a
      BY <2>3, ListAssumption
    <3> QED BY <3>1
  <2> QED BY <2>1, <2>2, <2>3, ListAssumption
<1> HIDE DEF m, from
<1>5. \A j \in 0 .. N - 1 : m[j] \in Slot
  BY <1>1 DEF Complete
<1>6. \A a, b \in 0 .. N - 1 : m[a] = m[b] => a = b
  BY <1>1, <1>3 DEF Complete
<1>7. \A s \in Slot : \E j \in 0 .. N - 1 : m[j] = s
  BY <1>1, <1>4 DEF Complete
<1> QED BY <1>2, <1>5, <1>6, <1>7 DEF Complete, m

-----------------------------------------------------------------------------
(***************************************************************************)
(* The invariant.                                                          *)
(***************************************************************************)
\* The types, a chain that is a walk and has every node once, and entries in the
\* nodes of the list.
ListInv ==
  /\ TypeOK
  /\ Follows(chain, head, next)
  /\ Complete(chain)
  /\ \A i \in 0 .. count - 1 : data[chain[i]] \in R!Data

\* The walk from a head along links that some complete sequence follows.
LEMMA ChainIs ==
  ASSUME NEW c, NEW h, NEW nx, Follows(c, h, nx), Complete(c)
  PROVE  Follows(Walk(h, nx), h, nx) /\ Complete(Walk(h, nx)) /\ Walk(h, nx) = c
BY WalkUnique

LEMMA ListInit == Init => ListInv
<1> SUFFICES ASSUME Init PROVE ListInv
  OBVIOUS
<1> DEFINE c == [i \in 0 .. N |-> IF i = N THEN Null ELSE i]
<1>1. Follows(c, head, next)
  <2>1. c = [i \in 0 .. N |-> c[i]]
    OBVIOUS
  <2>2. ASSUME NEW i \in 0 .. N
        PROVE  c[i] = IF i = 0 THEN head ELSE IF c[i - 1] = Null THEN Null ELSE next[c[i - 1]]
    <3>1. CASE i = 0
      BY <3>1, ListAssumption DEF Init
    <3>2. CASE i # 0
      <4>1. i - 1 \in Slot /\ c[i - 1] = i - 1 /\ i - 1 # Null
        BY <3>2, ListAssumption DEF Slot, Null
      <4>2. next[i - 1] = IF i - 1 = N - 1 THEN Null ELSE (i - 1) + 1
        BY <4>1 DEF Init
      <4> QED BY <3>2, <4>1, <4>2, ListAssumption
    <3> QED BY <3>1, <3>2
  <2> HIDE DEF c
  <2> QED BY <2>1, <2>2 DEF Follows
<1>2. Complete(c)
  <2>1. \A i \in 0 .. N - 1 : c[i] = i
    BY ListAssumption
  <2>2. c[N] = Null
    BY ListAssumption
  <2> HIDE DEF c
  <2> QED BY <2>1, <2>2 DEF Complete, Slot
<1>3. Follows(chain, head, next) /\ Complete(chain)
  BY <1>1, <1>2, ChainIs DEF chain
<1>4. TypeOK
  BY ListAssumption DEF Init, TypeOK, Slot
<1>5. 0 .. count - 1 = {}
  BY DEF Init
<1> QED BY <1>3, <1>4, <1>5 DEF ListInv
\* Where remove_element puts a node back: after the list, or after the first free
\* node when the list becomes empty.
Place == IF count > 1 THEN count - 1 ELSE 1

\* Removing the entry at position i moves its node behind the list.
LEMMA Removed ==
  ASSUME ListInv, NEW port, NEW i \in FirstAt(port),
         head' = Top(chain, i, head, next),
         next' = Relink(chain, i, Place, next)
  PROVE  /\ i \in 0 .. count - 1 /\ i \in 0 .. N - 1
         /\ Place \in 1 .. N - 1 /\ i <= Place
         /\ chain' = Moved(chain, i, Place)
         /\ Follows(chain', head', next')
         /\ Complete(chain')
<1>1. /\ i \in 0 .. count - 1 /\ i \in 0 .. N - 1
      /\ Place \in 1 .. N - 1 /\ i <= Place
  <2>1. i \in 0 .. count - 1
    BY DEF FirstAt
  <2>2. count \in 0 .. N
    BY DEF ListInv, TypeOK
  <2> QED BY <2>1, <2>2, ListAssumption DEF Place
<1>2. next \in [Slot -> Slot \cup {Null}] /\ Follows(chain, head, next) /\ Complete(chain)
  BY DEF ListInv, TypeOK
<1>3. /\ Follows(Moved(chain, i, Place), head', next')
      /\ Walk(head', next') = Moved(chain, i, Place)
  BY <1>1, <1>2, RelinkedWalk
<1>4. Complete(Moved(chain, i, Place))
  BY <1>1, <1>2, MovedComplete
<1> QED BY <1>1, <1>3, <1>4 DEF chain

\* What a step of RemoveElement does when the port is listed.
LEMMA RemoveStep ==
  ASSUME ListInv, NEW port, RemoveElement(port), FirstAt(port) # {}
  PROVE  \E i \in FirstAt(port) :
           /\ head' = Top(chain, i, head, next)
           /\ next' = Relink(chain, i, Place, next)
           /\ count' = count - 1
           /\ data' = data
<1>1. PICK i \in FirstAt(port) :
        LET h  == chain[i]
            nx == Unlinked(i)
            top == IF i = 0 THEN next[h] ELSE head
            last == Walk(top, nx)[IF count > 2 THEN count - 2 ELSE 0]
        IN  /\ head' = top
            /\ count' = count - 1
            /\ next' = [nx EXCEPT ![h] = nx[last], ![last] = h]
            /\ UNCHANGED data
  BY DEF RemoveElement
<1>2. Unlinked(i) = Skip(chain, i, next)
  BY DEF Unlinked, Skip
<1>3. (IF i = 0 THEN next[chain[i]] ELSE head) = Top(chain, i, head, next)
  BY DEF Top
<1>4. Walk(Top(chain, i, head, next), Skip(chain, i, next)) = Without(chain, i)
  <2>1. i \in 0 .. N - 1
    <3>1. i \in 0 .. count - 1
      BY DEF FirstAt
    <3>2. count \in 0 .. N
      BY DEF ListInv, TypeOK
    <3> QED BY <3>1, <3>2, ListAssumption
  <2>2. next \in [Slot -> Slot \cup {Null}] /\ Follows(chain, head, next) /\ Complete(chain)
    BY DEF ListInv, TypeOK
  <2> QED BY <2>1, <2>2, UnlinkedWalk
<1>5. (IF count > 2 THEN count - 2 ELSE 0) = Place - 1
  BY DEF Place, FirstAt, ListInv, TypeOK
<1> QED BY <1>1, <1>2, <1>3, <1>4, <1>5 DEF Relink

\* Every step keeps the invariant.
LEMMA ListStep == ListInv /\ [Next]_vars => ListInv'
<1> SUFFICES ASSUME ListInv, [Next]_vars PROVE ListInv'
  OBVIOUS
<1>1. ASSUME NEW d \in R!Data, AddElement(d) PROVE ListInv'
  <2>1. CASE count >= N
    BY <1>1, <2>1 DEF AddElement, vars, ListInv, TypeOK, chain
  <2>2. CASE ~ (count >= N)
    <3>1. /\ data' = [data EXCEPT ![chain[count]] = d]
          /\ count' = count + 1
          /\ UNCHANGED <<next, head>>
      BY <1>1, <2>2 DEF AddElement
    <3>2. chain' = chain
      BY <3>1 DEF chain
    <3>3. count \in 0 .. N - 1 /\ chain[count] \in Slot
      BY <2>2, ListAssumption DEF ListInv, TypeOK, Complete
    <3>4. TypeOK'
      BY <3>1, <3>3, ListAssumption DEF ListInv, TypeOK
    <3>5. ASSUME NEW i \in 0 .. count' - 1 PROVE data'[chain[i]] \in R!Data
      <4>1. i \in 0 .. N - 1 /\ chain[i] \in Slot
        BY <3>1, <3>3, ListAssumption DEF ListInv, Complete
      <4>2. CASE i = count
        BY <3>1, <3>3, <4>2 DEF ListInv, TypeOK
      <4>3. CASE i # count
        <5>1. i \in 0 .. count - 1
          BY <3>1, <3>3, <4>3
        <5> QED BY <3>1, <3>3, <4>1, <5>1 DEF ListInv, TypeOK
      <4> QED BY <4>2, <4>3
    <3> QED BY <3>1, <3>2, <3>4, <3>5 DEF ListInv
  <2> QED BY <2>1, <2>2
<1>2. ASSUME NEW d \in R!Data, UpdateElement(d) PROVE ListInv'
  <2>1. CASE FirstAt(d.port) = {}
    BY <1>2, <2>1 DEF UpdateElement, vars, ListInv, TypeOK, chain
  <2>2. ASSUME NEW i \in FirstAt(d.port),
               data' = [data EXCEPT ![chain[i]] = d], UNCHANGED <<next, head, count>>
        PROVE  ListInv'
    <3>1. chain' = chain
      BY <2>2 DEF chain
    <3>2. TypeOK'
      BY <2>2 DEF ListInv, TypeOK
    <3>3. ASSUME NEW j \in 0 .. count - 1 PROVE data'[chain[j]] \in R!Data
      <4>1. j \in 0 .. N - 1 /\ chain[j] \in Slot
        BY ListAssumption DEF ListInv, Complete, TypeOK
      <4> QED BY <2>2, <4>1 DEF ListInv, TypeOK
    <3> QED BY <2>2, <3>1, <3>2, <3>3 DEF ListInv
  <2> QED BY <1>2, <2>1, <2>2 DEF UpdateElement
<1>3. ASSUME NEW port \in Port, RemoveElement(port) PROVE ListInv'
  <2>1. CASE FirstAt(port) = {}
    BY <1>3, <2>1 DEF RemoveElement, vars, ListInv, TypeOK, chain
  <2>2. CASE FirstAt(port) # {}
    <3>1. PICK i \in FirstAt(port) :
            /\ head' = Top(chain, i, head, next)
            /\ next' = Relink(chain, i, Place, next)
            /\ count' = count - 1
            /\ data' = data
      BY <1>3, <2>2, RemoveStep
    <3>2. /\ i \in 0 .. count - 1 /\ i \in 0 .. N - 1
          /\ Place \in 1 .. N - 1 /\ i <= Place
          /\ chain' = Moved(chain, i, Place)
          /\ Follows(chain', head', next')
          /\ Complete(chain')
      BY <3>1, Removed
    <3>3. head' \in Slot
      <4>1. 0 \in 0 .. N - 1
        BY ListAssumption
      <4>2. chain'[0] = head' /\ chain'[0] \in Slot
        BY <3>2, <4>1, WalkSteps DEF Complete
      <4> QED BY <4>2
    <3>4. next' \in [Slot -> Slot \cup {Null}]
      <4>1. next' = Relink(chain, i, Place, next)
        BY <3>1
      <4>2. next \in [Slot -> Slot \cup {Null}]
        BY DEF ListInv, TypeOK
      <4>3. chain[i] \in Slot /\ i + 1 \in 0 .. N
        BY <3>2, ListAssumption DEF ListInv, Complete
      <4>4. Skip(chain, i, next) \in [Slot -> Slot \cup {Null}]
        <5>1. next[chain[i]] \in Slot \cup {Null}
          BY <4>2, <4>3
        <5> QED BY <4>2, <5>1 DEF Skip
      <4>5. Without(chain, i)[Place - 1] \in Slot
        <5>1. Place - 1 \in 0 .. N /\ Place - 1 < N
          BY <3>2, ListAssumption
        <5>2. Without(chain, i)[Place - 1] =
                IF Place - 1 < i THEN chain[Place - 1] ELSE chain[(Place - 1) + 1]
          BY <5>1 DEF Without
        <5>3. Place - 1 \in 0 .. N - 1 /\ (Place - 1) + 1 \in 0 .. N - 1
          BY <3>2, ListAssumption
        <5> QED BY <5>2, <5>3 DEF ListInv, Complete
      <4> QED BY <4>1, <4>3, <4>4, <4>5 DEF Relink
    <3>5. ASSUME NEW j \in 0 .. count' - 1 PROVE data[chain'[j]] \in R!Data
      <4>1. count \in 0 .. N /\ count' = count - 1 /\ Place = count - 1
        BY <3>1, <3>2, ListAssumption DEF Place, ListInv, TypeOK
      <4>2. j \in 0 .. N /\ ~ (j > Place) /\ j # Place
        BY <4>1, ListAssumption
      <4>3. chain'[j] = IF j < i THEN chain[j] ELSE chain[j + 1]
        BY <3>2, <4>2 DEF Moved
      <4>4. j \in 0 .. count - 1 /\ j + 1 \in 0 .. count - 1
        BY <4>1
      <4> QED BY <4>3, <4>4 DEF ListInv
    <3>6. count' \in 0 .. N
      BY <3>1, <3>2, ListAssumption DEF ListInv, TypeOK
    <3> QED
      BY <3>1, <3>2, <3>3, <3>4, <3>5, <3>6 DEF ListInv, TypeOK
  <2> QED BY <2>1, <2>2
<1>4. CASE UNCHANGED vars
  BY <1>4 DEF vars, ListInv, TypeOK, chain
<1> QED BY <1>1, <1>2, <1>3, <1>4 DEF Next

\* The invariant holds throughout.
LEMMA ListInvariant == Spec => []ListInv
BY ListInit, ListStep, PTL DEF Spec
-----------------------------------------------------------------------------
(***************************************************************************)
(* The theorems.                                                           *)
(***************************************************************************)
\* The links stay within the array and the count within its bounds, for every
\* size of the array and however often entries are added and removed
\* (shared_list.cpp:97-181): no operation writes to nodes[-1] or nodes[N].
THEOREM TypeCorrect == Spec => []TypeOK
<1>1. ListInv => TypeOK
  BY DEF ListInv
<1> QED BY ListInvariant, <1>1, PTL

\* No removal loses a node or puts one into the chain twice, and the chain ends
\* (shared_list.cpp:137-181), so that the loops over it do too.
THEOREM NoNodeIsLost == Spec => []ChainComplete
<1>1. ListInv => ChainComplete
  BY DEF ListInv, Complete, ChainComplete
<1> QED BY ListInvariant, <1>1, PTL

\* The nodes of the list.
Listed == {chain[i] : i \in 0 .. count - 1}

\* An addition takes a node that is not in the list.
LEMMA RefinesAdd ==
  ASSUME ListInv, NEW d \in R!Data, AddElement(d), count < N
  PROVE  /\ chain[count] \in Slot \ Listed
         /\ Listed' = Listed \cup {chain[count]}
         /\ data' = [data EXCEPT ![chain[count]] = d]
<1>1. /\ data' = [data EXCEPT ![chain[count]] = d]
      /\ count' = count + 1
      /\ chain' = chain
      /\ count \in 0 .. N - 1
  BY ListAssumption DEF AddElement, chain, ListInv, TypeOK
<1>2. /\ \A i \in 0 .. N - 1 : chain[i] \in Slot
      /\ \A i, j \in 0 .. N - 1 : chain[i] = chain[j] => i = j
  BY DEF ListInv, Complete
<1>3. chain[count] \in Slot \ Listed
  <2>1. ASSUME NEW i \in 0 .. count - 1, chain[i] = chain[count] PROVE FALSE
    BY <1>1, <1>2, <2>1, ListAssumption
  <2> QED BY <1>1, <1>2, <2>1 DEF Listed
<1>4. Listed' = Listed \cup {chain[count]}
  <2>1. 0 .. count' - 1 = (0 .. count - 1) \cup {count}
    BY <1>1, ListAssumption
  <2> QED BY <1>1, <2>1 DEF Listed
<1> QED BY <1>1, <1>3, <1>4

\* A removal takes the node of the entry, and no other, out of the list.
LEMMA RefinesRemove ==
  ASSUME ListInv, NEW port, NEW i \in FirstAt(port),
         head' = Top(chain, i, head, next),
         next' = Relink(chain, i, Place, next),
         count' = count - 1
  PROVE  Listed' = Listed \ {chain[i]}
<1>1. /\ i \in 0 .. count - 1 /\ i \in 0 .. N - 1
      /\ Place \in 1 .. N - 1 /\ i <= Place
      /\ chain' = Moved(chain, i, Place)
  BY Removed
<1>2. count \in 0 .. N
  BY DEF ListInv, TypeOK
<1>3. \A a, b \in 0 .. N - 1 : chain[a] = chain[b] => a = b
  BY DEF ListInv, Complete
<1>4. ASSUME NEW j \in 0 .. count' - 1
      PROVE  chain'[j] = IF j < i THEN chain[j] ELSE chain[j + 1]
  <2>1. Place = count - 1 /\ j \in 0 .. N /\ ~ (j > Place) /\ j # Place
    BY <1>1, <1>2, ListAssumption DEF Place
  <2> QED BY <1>1, <2>1 DEF Moved
<1>5. ASSUME NEW s \in Listed' PROVE s \in Listed \ {chain[i]}
  <2>1. PICK j \in 0 .. count' - 1 : s = chain'[j]
    BY DEF Listed
  <2>2. PICK k \in {j, j + 1} : s = chain[k] /\ k # i
    <3>1. CASE j < i
      BY <1>4, <2>1, <3>1, <1>2
    <3>2. CASE ~ (j < i)
      <4>1. j + 1 # i
        BY <3>2, <1>1, <1>2
      <4> QED BY <1>4, <2>1, <3>2, <4>1
    <3> QED BY <3>1, <3>2
  <2>3. k \in 0 .. count - 1 /\ k \in 0 .. N - 1
    BY <1>2, ListAssumption
  <2> QED BY <1>1, <1>3, <2>2, <2>3 DEF Listed
<1>6. ASSUME NEW s \in Listed \ {chain[i]} PROVE s \in Listed'
  <2>1. PICK k \in 0 .. count - 1 : s = chain[k] /\ k # i
    BY DEF Listed
  <2>2. CASE k < i
    <3>1. k \in 0 .. count' - 1
      BY <1>1, <1>2, <2>2
    <3> QED BY <1>4, <2>1, <2>2, <3>1 DEF Listed
  <2>3. CASE k > i
    <3>1. k - 1 \in 0 .. count' - 1 /\ ~ (k - 1 < i) /\ (k - 1) + 1 = k
      BY <1>1, <1>2, <2>3
    <3>2. chain'[k - 1] = chain[k]
      BY <1>4, <3>1
    <3> QED BY <2>1, <3>1, <3>2 DEF Listed
  <2> QED BY <1>1, <1>2, <2>1, <2>2, <2>3
<1> QED BY <1>5, <1>6
\* A step of the array is a step of the registry, or none.
LEMMA RefinesStep ==
  ListInv /\ [Next]_vars => [R!RegistryNext]_(R!registryVars)
<1> SUFFICES ASSUME ListInv, [Next]_vars
             PROVE  [R!RegistryNext]_(R!registryVars)
  OBVIOUS
<1>1. \A port : R!Match(port) = {s \in Listed : data[s].port = port}
  BY DEF R!Match, Listed
<1>2. UNCHANGED vars => UNCHANGED <<data, Listed>>
  BY DEF vars, Listed, chain
<1>3. UNCHANGED <<data, Listed>> => UNCHANGED R!registryVars
  BY DEF R!registryVars, Listed
<1>4. ASSUME NEW d \in R!Data, AddElement(d) PROVE [R!RegistryNext]_(R!registryVars)
  <2>1. CASE count >= N
    BY <1>2, <1>3, <1>4, <2>1 DEF AddElement
  <2>2. CASE count < N
    <3>1. /\ chain[count] \in Slot \ Listed
          /\ Listed' = Listed \cup {chain[count]}
          /\ data' = [data EXCEPT ![chain[count]] = d]
      BY <1>4, <2>2, RefinesAdd
    <3>2. R!AddElement(d)
      BY <3>1 DEF R!AddElement, Listed
    <3> QED BY <3>2 DEF R!RegistryNext
  <2> QED BY <2>1, <2>2, ListAssumption DEF ListInv, TypeOK
<1>5. ASSUME NEW d \in R!Data, UpdateElement(d) PROVE [R!RegistryNext]_(R!registryVars)
  <2>1. CASE FirstAt(d.port) = {}
    BY <1>2, <1>3, <1>5, <2>1 DEF UpdateElement
  <2>2. ASSUME NEW i \in FirstAt(d.port),
               data' = [data EXCEPT ![chain[i]] = d], UNCHANGED <<next, head, count>>
        PROVE  [R!RegistryNext]_(R!registryVars)
    <3>1. i \in 0 .. count - 1 /\ data[chain[i]].port = d.port
      BY DEF FirstAt
    <3>2. chain[i] \in R!Match(d.port)
      BY <1>1, <3>1 DEF Listed
    <3>3. Listed' = Listed
      BY <2>2 DEF Listed, chain
    <3>4. R!Write(chain[i], d)
      BY <2>2, <3>3 DEF R!Write, Listed
    <3>5. R!UpdateElement(d)
      BY <3>2, <3>4 DEF R!UpdateElement
    <3> QED BY <3>5 DEF R!RegistryNext
  <2> QED BY <1>5, <2>1, <2>2 DEF UpdateElement
<1>6. ASSUME NEW port \in Port, RemoveElement(port) PROVE [R!RegistryNext]_(R!registryVars)
  <2>1. CASE FirstAt(port) = {}
    BY <1>2, <1>3, <1>6, <2>1 DEF RemoveElement
  <2>2. CASE FirstAt(port) # {}
    <3>1. PICK i \in FirstAt(port) :
            /\ head' = Top(chain, i, head, next)
            /\ next' = Relink(chain, i, Place, next)
            /\ count' = count - 1
            /\ data' = data
      BY <1>6, <2>2, RemoveStep
    <3>2. i \in 0 .. count - 1 /\ data[chain[i]].port = port
      BY DEF FirstAt
    <3>3. chain[i] \in R!Match(port)
      BY <1>1, <3>2 DEF Listed
    <3>4. Listed' = Listed \ {chain[i]}
      BY <3>1, RefinesRemove
    <3>5. PICK s : s = chain[i]
      OBVIOUS
    <3>6. s \in R!Match(port) /\ R!Free(s)
      BY <3>1, <3>3, <3>4, <3>5 DEF R!Free, Listed
    <3>7. R!RemoveElement(port)
      BY <3>6 DEF R!RemoveElement
    <3> QED BY <3>7 DEF R!RegistryNext
  <2> QED BY <2>1, <2>2
<1> QED BY <1>2, <1>3, <1>4, <1>5, <1>6 DEF Next

\* The array, its chain and its count are an implementation of the registry that
\* the other modules use (shared_list.cpp): an entry that is added is there until
\* it is removed by its port, whatever else is added, removed or moved in the
\* chain.
THEOREM ListIsARegistry == Spec => RefinesRegistry
<1>1. Init => R!Initialize
  <2> SUFFICES ASSUME Init PROVE R!Initialize
    OBVIOUS
  <2>1. 0 .. count - 1 = {}
    BY DEF Init
  <2> QED BY <2>1 DEF Init, R!Initialize
<1> QED BY <1>1, RefinesStep, ListInvariant, PTL DEF Spec, RefinesRegistry, R!RegistrySpec
-----------------------------------------------------------------------------
\* A sequence without its element k.
LEMMA CutOut ==
  ASSUME NEW S, NEW s \in Seq(S), NEW n \in Nat, n = Len(s), NEW k \in 1 .. n,
         NEW t \in Seq(S), Len(t) = n - 1,
         \A j \in 1 .. n - 1 : t[j] = IF j < k THEN s[j] ELSE s[j + 1]
  PROVE  t = SubSeq(s, 1, k - 1) \o SubSeq(s, k + 1, n)
<1> DEFINE s1 == SubSeq(s, 1, k - 1)
           s2 == SubSeq(s, k + 1, n)
<1>1. \A j \in 1 .. n : s[j] \in S
  BY ElementOfSeq
<1>2. /\ s1 \in Seq(S)
      /\ Len(s1) = k - 1
      /\ \A j \in 1 .. k - 1 : s1[j] = s[j]
  <2>1. /\ SubSeq(s, 1, k - 1) \in Seq(S)
        /\ Len(SubSeq(s, 1, k - 1)) = IF 1 <= k - 1 THEN k - 1 - 1 + 1 ELSE 0
        /\ \A j \in 1 .. k - 1 - 1 + 1 : SubSeq(s, 1, k - 1)[j] = s[1 + j - 1]
    BY <1>1, SubSeqProperties
  <2> QED BY <2>1
<1>3. /\ s2 \in Seq(S)
      /\ Len(s2) = n - k
      /\ \A j \in 1 .. n - k : s2[j] = s[k + j]
  <2>1. /\ SubSeq(s, k + 1, n) \in Seq(S)
        /\ Len(SubSeq(s, k + 1, n)) = IF k + 1 <= n THEN n - (k + 1) + 1 ELSE 0
        /\ \A j \in 1 .. n - (k + 1) + 1 : SubSeq(s, k + 1, n)[j] = s[k + 1 + j - 1]
    BY <1>1, SubSeqProperties
  <2>2. Len(SubSeq(s, k + 1, n)) = n - k
    BY <2>1
  <2>3. ASSUME NEW j \in 1 .. n - k PROVE SubSeq(s, k + 1, n)[j] = s[k + j]
    <3>1. j \in 1 .. n - (k + 1) + 1 /\ k + 1 + j - 1 = k + j
      OBVIOUS
    <3> QED BY <2>1, <3>1
  <2> QED BY <2>1, <2>2, <2>3
<1> HIDE DEF s1, s2
<1>4. /\ s1 \o s2 \in Seq(S)
      /\ Len(s1 \o s2) = Len(s1) + Len(s2)
      /\ \A j \in 1 .. Len(s1) + Len(s2) :
           (s1 \o s2)[j] = IF j <= Len(s1) THEN s1[j] ELSE s2[j - Len(s1)]
  BY <1>2, <1>3, ConcatProperties
<1>5. Len(s1 \o s2) = n - 1
  BY <1>2, <1>3, <1>4
<1>6. ASSUME NEW j \in 1 .. n - 1 PROVE (s1 \o s2)[j] = t[j]
  <2>1. (s1 \o s2)[j] = IF j <= k - 1 THEN s1[j] ELSE s2[j - (k - 1)]
    BY <1>2, <1>3, <1>4
  <2>2. CASE j < k
    <3>1. j \in 1 .. k - 1 /\ j <= k - 1
      BY <2>2
    <3> QED BY <1>2, <2>1, <2>2, <3>1
  <2>3. CASE ~ (j < k)
    <3>1. j - (k - 1) \in 1 .. n - k /\ k + (j - (k - 1)) = j + 1 /\ ~ (j <= k - 1)
      BY <2>3
    <3>2. s2[j - (k - 1)] = s[j + 1]
      BY <1>3, <3>1
    <3> QED BY <2>1, <2>3, <3>1, <3>2
  <2> QED BY <2>2, <2>3
<1>7. s1 \o s2 = t
  BY <1>4, <1>5, <1>6, SeqEqual
<1> QED BY <1>7 DEF s1, s2

\* What print_list prints is a sequence of entries.
ListingOK ==
  /\ Listing \in Seq(R!Data) /\ Len(Listing) = count
  /\ \A j \in 1 .. count : Listing[j] = data[chain[j - 1]]

LEMMA ListingType == ListInv => ListingOK
<1> SUFFICES ASSUME ListInv PROVE ListingOK
  OBVIOUS
<1>1. count \in Nat /\ count \in 0 .. N
  BY ListAssumption DEF ListInv, TypeOK
<1>2. \A j \in 1 .. count : data[chain[j - 1]] \in R!Data
  <2>1. ASSUME NEW j \in 1 .. count PROVE data[chain[j - 1]] \in R!Data
    <3>1. j - 1 \in 0 .. count - 1
      BY <1>1
    <3> QED BY <3>1 DEF ListInv
  <2> QED BY <2>1
<1>3. Listing \in [1 .. count -> R!Data]
  BY <1>2 DEF Listing
<1> QED BY <1>1, <1>3 DEF Listing, ListingOK

LEMMA ListingTypeNext == ListInv' => ListingOK'
BY ListingType, PTL

\* Only a removal makes the list shorter, and it takes one entry out of the
\* listing and leaves the order of the others as it is (shared_list.cpp:150-181).
THEOREM OrderIsKept == Spec => OrderKept
<1> DEFINE Kept == count' < count =>
             \E k \in 1 .. count :
               Listing' = SubSeq(Listing, 1, k - 1) \o SubSeq(Listing, k + 1, count)
<1>1. ListInv /\ ListInv' /\ [Next]_vars => [Kept]_vars
  <2> SUFFICES ASSUME ListInv, ListInv', Next, count' < count
               PROVE  \E k \in 1 .. count :
                 Listing' = SubSeq(Listing, 1, k - 1) \o SubSeq(Listing, k + 1, count)
    OBVIOUS
  <2>1. count \in 0 .. N /\ count' \in 0 .. N
    BY DEF ListInv, TypeOK
  <2>2. PICK port \in Port : RemoveElement(port) /\ FirstAt(port) # {}
    <3>1. ASSUME NEW d \in R!Data, AddElement(d) PROVE FALSE
      BY <2>1, <3>1, ListAssumption DEF AddElement, vars
    <3>2. ASSUME NEW d \in R!Data, UpdateElement(d) PROVE FALSE
      BY <2>1, <3>2, ListAssumption DEF UpdateElement, vars
    <3>3. PICK port \in Port : RemoveElement(port)
      BY <3>1, <3>2 DEF Next
    <3>4. FirstAt(port) # {}
      <4>1. ASSUME FirstAt(port) = {} PROVE FALSE
        <5>1. count' = count
          BY <3>3, <4>1 DEF RemoveElement, vars
        <5> QED BY <2>1, <5>1, ListAssumption
      <4> QED BY <4>1
    <3> QED BY <3>3, <3>4
  <2>3. PICK i \in FirstAt(port) :
          /\ head' = Top(chain, i, head, next)
          /\ next' = Relink(chain, i, Place, next)
          /\ count' = count - 1
          /\ data' = data
    BY <2>2, RemoveStep
  <2>4. /\ i \in 0 .. count - 1 /\ i \in 0 .. N - 1
        /\ Place \in 1 .. N - 1 /\ i <= Place
        /\ chain' = Moved(chain, i, Place)
    BY <2>3, Removed
  <2>5. /\ Listing \in Seq(R!Data) /\ Len(Listing) = count
        /\ \A j \in 1 .. count : Listing[j] = data[chain[j - 1]]
    BY ListingType DEF ListingOK
  <2>6. /\ Listing' \in Seq(R!Data) /\ Len(Listing') = count'
        /\ \A j \in 1 .. count' : Listing'[j] = data'[chain'[j - 1]]
    BY ListingTypeNext DEF ListingOK
  <2>7. ASSUME NEW j \in 1 .. count - 1
        PROVE  Listing'[j] = IF j < i + 1 THEN Listing[j] ELSE Listing[j + 1]
    <3>1. /\ count \in Nat /\ Place = count - 1 /\ j - 1 \in 0 .. N
          /\ ~ (j - 1 > Place) /\ j - 1 # Place
      BY <2>1, <2>4, ListAssumption DEF Place
    <3>2. chain'[j - 1] = IF j - 1 < i THEN chain[j - 1] ELSE chain[(j - 1) + 1]
      BY <2>4, <3>1 DEF Moved
    <3>3. j \in 1 .. count /\ j + 1 \in 1 .. count /\ (j + 1) - 1 = (j - 1) + 1
      BY <3>1
    <3>4. Listing[j] = data[chain[j - 1]] /\ Listing[j + 1] = data[chain[(j - 1) + 1]]
      BY <2>5, <3>3
    <3>5. Listing'[j] = data[chain'[j - 1]]
      BY <2>3, <2>6
    <3>6. j - 1 < i <=> j < i + 1
      BY <2>4, <3>1
    <3> QED BY <3>2, <3>4, <3>5, <3>6
  <2>8. i + 1 \in 1 .. count /\ count \in Nat /\ (i + 1) - 1 = i
    BY <2>1, <2>4, ListAssumption
  <2> DEFINE s == Listing
             t == Listing'
  <2>9. /\ s \in Seq(R!Data) /\ Len(s) = count
        /\ t \in Seq(R!Data) /\ Len(t) = count - 1
        /\ \A j \in 1 .. count - 1 : t[j] = IF j < i + 1 THEN s[j] ELSE s[j + 1]
    BY <2>3, <2>5, <2>6, <2>7
  <2> HIDE DEF s, t
  <2>10. t = SubSeq(s, 1, (i + 1) - 1) \o SubSeq(s, (i + 1) + 1, count)
    BY <2>8, <2>9, CutOut
  <2> QED BY <2>8, <2>10 DEF s, t
<1> QED BY <1>1, ListInvariant, PTL DEF Spec, OrderKept
=============================================================================
