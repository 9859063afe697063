-------------------------- MODULE TaskQueueProofs ---------------------------
(***************************************************************************)
(* Proofs of the safety properties of TaskQueue, for any number of HTTP    *)
(* threads and of requests.                                                *)
(***************************************************************************)
EXTENDS TaskQueue, FiniteSetTheorems, SequenceTheorems, TLAPS

\* Requests that are being pushed are within the bound.
CountInv == accepted + Cardinality(Pushing) <= MaxRequests

\* The worker goes to sleep on an empty queue: it has seen it empty under the
\* mutex and has not let the mutex go since.
BlocksOnEmpty == worker = "block" => taskQueue = << >>

QueueInv ==
  TypeOK /\ CountInv /\ BlocksOnEmpty /\ NoLostWakeup /\ PopsARequest /\ InOrder

\* The number of requests that are being pushed is a number, and is not 0 when
\* there is one.
LEMMA PushingCount ==
  ASSUME TypeOK
  PROVE  /\ IsFiniteSet(Pushing)
         /\ Cardinality(Pushing) \in Nat
         /\ \A h \in Pushing : Cardinality(Pushing \ {h}) = Cardinality(Pushing) - 1
         /\ \A h \in Http \ Pushing :
              Cardinality(Pushing \cup {h}) = Cardinality(Pushing) + 1
<1>1. Pushing \in SUBSET Http
  BY DEF Pushing
<1>2. IsFiniteSet(Pushing)
  BY <1>1, FS_Subset, QueueAssumption
<1>3. Cardinality(Pushing) \in Nat
  BY <1>2, FS_CardinalityType
<1>4. \A h \in Pushing : Cardinality(Pushing \ {h}) = Cardinality(Pushing) - 1
  BY <1>2, FS_RemoveElement
<1>5. \A h \in Http \ Pushing : Cardinality(Pushing \cup {h}) = Cardinality(Pushing) + 1
  BY <1>2, FS_AddElement
<1> QED BY <1>2, <1>3, <1>4, <1>5

\* A request that goes to the back of the queue comes after those accepted
\* before it.
LEMMA PushInOrder ==
  ASSUME TypeOK, InOrder,
         taskQueue' = Append(taskQueue, accepted + 1),
         accepted' = accepted + 1, taken' = taken
  PROVE  InOrder'
<1> DEFINE all == taken \o taskQueue
<1>0. accepted \in Nat /\ taskQueue \in Seq(Nat) /\ taken \in Seq(Nat)
  <2>1. 1 .. MaxRequests \subseteq Nat /\ 0 .. MaxRequests \subseteq Nat
    BY QueueAssumption
  <2> QED BY <2>1, SeqMonotonic DEF TypeOK
<1>1. taskQueue' = taskQueue \o <<accepted + 1>>
  BY <1>0, AppendIsConcat
<1>2. <<accepted + 1>> \in Seq(Nat)
  BY <1>0
<1>3. taken' \o taskQueue' = all \o <<accepted + 1>>
  BY <1>0, <1>1, <1>2, ConcatAssociative
<1>4. all = [n \in 1 .. accepted |-> n]
  BY DEF InOrder
<1>5. all \o <<accepted + 1>> = [n \in 1 .. accepted + 1 |-> n]
  BY <1>0, <1>4
<1> QED BY <1>3, <1>5 DEF InOrder

\* A request that is taken from the front is the next in the order.
LEMMA PopInOrder ==
  ASSUME TypeOK, InOrder, taskQueue # << >>,
         taskQueue' = Tail(taskQueue),
         taken' = Append(taken, Head(taskQueue)), accepted' = accepted
  PROVE  InOrder'
<1> DEFINE S == 1 .. MaxRequests
<1>0. taskQueue \in Seq(S) /\ taken \in Seq(S)
  BY DEF TypeOK
<1>1. /\ Head(taskQueue) \in S
      /\ Tail(taskQueue) \in Seq(S)
      /\ taskQueue = <<Head(taskQueue)>> \o Tail(taskQueue)
  <2>1. Head(taskQueue) \in S /\ Tail(taskQueue) \in Seq(S)
    BY <1>0, HeadTailProperties
  <2>2. Len(taskQueue) \in Nat \ {0}
    BY <1>0, EmptySeq
  <2>3. taskQueue = SubSeq(taskQueue, 1, Len(taskQueue))
    BY <1>0, SubSeqFull
  <2>4. SubSeq(taskQueue, 1, Len(taskQueue))
          = <<taskQueue[1]>> \o SubSeq(taskQueue, 2, Len(taskQueue))
    BY <1>0, <2>2, SubSeqRecursiveFirst
  <2>5. Head(taskQueue) = taskQueue[1]
    BY <1>0, <2>2
  <2>6. Tail(taskQueue) = SubSeq(taskQueue, 2, Len(taskQueue))
    BY <1>0, TailIsSubSeq
  <2> QED BY <2>1, <2>3, <2>4, <2>5, <2>6
<1>2. <<Head(taskQueue)>> \in Seq(S)
  BY <1>1
<1>3. taken' = taken \o <<Head(taskQueue)>>
  BY <1>1, AppendIsConcat DEF TypeOK
<1>4. taken' \o taskQueue' = taken \o (<<Head(taskQueue)>> \o Tail(taskQueue))
  BY <1>1, <1>2, <1>3, ConcatAssociative DEF TypeOK
<1> QED BY <1>1, <1>4 DEF InOrder

\* The steps that leave the queue, its requests and those who hold them alone.
LEMMA QuietStep ==
  ASSUME QueueInv, TypeOK',
         UNCHANGED <<taskQueue, accepted, taken>>,
         \A h \in Http : http[h] = "push" <=> http'[h] = "push",
         \A h \in Http : http[h] = "notify" => http'[h] = "notify",
         b_running' => b_running,
         worker' \in {"block", "waiting", "pop"} => worker' = worker
  PROVE  QueueInv'
<1>1. Pushing' = Pushing
  BY DEF Pushing
<1>2. CountInv'
  BY <1>1 DEF QueueInv, CountInv
<1> QED
  BY <1>2 DEF QueueInv, BlocksOnEmpty, NoLostWakeup, PopsARequest, InOrder

\* The invariant holds initially.
LEMMA QueueInit == Init => QueueInv
<1> SUFFICES ASSUME Init PROVE QueueInv
  OBVIOUS
<1>1. Pushing = {}
  BY DEF Init, Pushing
<1>2. CountInv
  BY <1>1, FS_EmptySet, QueueAssumption DEF Init, CountInv
<1>3. TypeOK
  BY QueueAssumption DEF Init, TypeOK
<1>4. InOrder
  BY DEF Init, InOrder
<1> QED BY <1>2, <1>3, <1>4 DEF Init, QueueInv, BlocksOnEmpty, NoLostWakeup, PopsARequest

\* Every step keeps the invariant.
LEMMA QueueStep == QueueInv /\ [Next]_vars => QueueInv'
<1> SUFFICES ASSUME QueueInv, [Next]_vars PROVE QueueInv'
  OBVIOUS
<1> USE DEF NotifyOne
<1>0. TypeOK
  BY DEF QueueInv
<1>1. ASSUME NEW h \in Http, Refuse(h) \/ Respond(h) PROVE QueueInv'
  <2>1. TypeOK'
    BY <1>0, <1>1 DEF TypeOK, Refuse, Respond
  <2> QED BY <1>0, <1>1, <2>1, QuietStep DEF TypeOK, Refuse, Respond
<1>2. ASSUME NEW h \in Http, Accept(h) PROVE QueueInv'
  <2>1. TypeOK'
    BY <1>0, <1>2 DEF TypeOK, Accept
  <2>2. Pushing' = Pushing \cup {h} /\ h \in Http \ Pushing
    BY <1>0, <1>2 DEF TypeOK, Accept, Pushing
  <2>3. CountInv'
    <3>1. /\ Cardinality(Pushing) \in Nat
          /\ Cardinality(Pushing') = Cardinality(Pushing) + 1
      BY <1>0, <2>2, PushingCount
    <3> QED BY <1>0, <1>2, <3>1, QueueAssumption DEF Accept, CountInv, TypeOK
  <2> QED
    BY <1>0, <1>2, <2>1, <2>3
    DEF QueueInv, TypeOK, Accept, BlocksOnEmpty, NoLostWakeup, PopsARequest, InOrder
<1>3. ASSUME NEW h \in Http, Push(h) PROVE QueueInv'
  <2>1. Pushing' = Pushing \ {h} /\ h \in Pushing
    BY <1>0, <1>3 DEF TypeOK, Push, Pushing
  <2>2. Cardinality(Pushing) \in Nat /\ Cardinality(Pushing') = Cardinality(Pushing) - 1
    BY <1>0, <2>1, PushingCount
  <2>3. accepted + Cardinality(Pushing) <= MaxRequests
    BY DEF QueueInv, CountInv
  <2>4. Cardinality(Pushing) > 0
    BY <1>0, <2>1, PushingCount, FS_EmptySet
  <2>5. accepted + 1 \in 1 .. MaxRequests /\ CountInv'
    BY <1>0, <1>3, <2>2, <2>3, <2>4, QueueAssumption DEF Push, CountInv, TypeOK
  <2>6. TypeOK'
    BY <1>0, <1>3, <2>5 DEF TypeOK, Push
  <2>7. InOrder'
    BY <1>0, <1>3, PushInOrder DEF QueueInv, Push
  <2> QED
    BY <1>0, <1>3, <2>5, <2>6, <2>7
    DEF QueueInv, TypeOK, Push, WorkerHolds, BlocksOnEmpty, NoLostWakeup, PopsARequest
<1>4. ASSUME NEW h \in Http, Notify(h) PROVE QueueInv'
  <2>1. TypeOK'
    BY <1>0, <1>4 DEF TypeOK, Notify
  <2>2. Pushing' = Pushing
    BY <1>0, <1>4 DEF TypeOK, Notify, Pushing
  <2>3. CountInv'
    BY <1>4, <2>2 DEF QueueInv, CountInv, Notify
  <2> QED
    BY <1>0, <1>4, <2>1, <2>3
    DEF QueueInv, TypeOK, Notify, BlocksOnEmpty, NoLostWakeup, PopsARequest, InOrder
<1>5. ASSUME Loop \/ Lock \/ WakeUp \/ Break \/ Work PROVE QueueInv'
  <2>1. TypeOK'
    <3>1. CASE Loop
      <4>1. worker = "loop" /\ worker' \in {"lock", "ended"}
        BY <3>1 DEF Loop, WorkerStep
      <4> QED BY <1>0, <3>1, <4>1 DEF TypeOK, Loop, WorkerStep
    <3>2. CASE Lock \/ WakeUp \/ Break
      BY <1>0, <3>2 DEF TypeOK, Lock, WakeUp, Break, WorkerStep
    <3>3. CASE Work
      BY <1>0, <3>3, QueueAssumption DEF TypeOK, Work, WorkerStep
    <3> QED BY <1>5, <3>1, <3>2, <3>3
  <2>2. /\ worker' \in {"lock", "ended", "test", "loop"}
        /\ UNCHANGED <<taskQueue, accepted, taken, http, b_running>>
    BY <1>5 DEF Loop, Lock, WakeUp, Break, Work, WorkerStep
  <2> QED BY <2>1, <2>2, QuietStep
<1>6. ASSUME Test \/ Block PROVE QueueInv'
  <2>1. TypeOK'
    BY <1>0, <1>6 DEF TypeOK, Test, Block, WorkerStep
  <2>2. CountInv'
    BY <1>6 DEF QueueInv, CountInv, Pushing, Test, Block, WorkerStep
  <2> QED
    BY <1>6, <2>1, <2>2
    DEF QueueInv, Test, Block, WorkerStep, BlocksOnEmpty, NoLostWakeup, PopsARequest,
        InOrder
<1>7. ASSUME Pop PROVE QueueInv'
  <2>1. taskQueue # << >>
    BY <1>7 DEF QueueInv, PopsARequest, Pop, WorkerStep
  <2>2. Head(taskQueue) \in 1 .. MaxRequests /\ Tail(taskQueue) \in Seq(1 .. MaxRequests)
    BY <1>0, <2>1, HeadTailProperties DEF TypeOK
  <2>3. TypeOK'
    BY <1>0, <1>7, <2>2 DEF TypeOK, Pop, WorkerStep
  <2>4. CountInv'
    BY <1>7 DEF QueueInv, CountInv, Pushing, Pop, WorkerStep
  <2>5. InOrder'
    BY <1>0, <1>7, <2>1, PopInOrder DEF QueueInv, Pop, WorkerStep
  <2> QED
    BY <1>7, <2>3, <2>4, <2>5
    DEF QueueInv, Pop, WorkerStep, BlocksOnEmpty, NoLostWakeup, PopsARequest
<1>8. ASSUME NEW thread \in SigThread, Interrupt(thread) PROVE QueueInv'
  <2>1. TypeOK'
    BY <1>0, <1>8, QueueAssumption DEF TypeOK, Interrupt
  <2> QED BY <1>0, <1>8, <2>1, QuietStep DEF TypeOK, Interrupt
<1>9. ASSUME CleanupStop \/ CleanupNotify PROVE QueueInv'
  <2>1. TypeOK'
    BY <1>0, <1>9 DEF TypeOK, CleanupStop, CleanupNotify
  <2> QED BY <1>0, <1>9, <2>1, QuietStep DEF TypeOK, CleanupStop, CleanupNotify
<1>10. ASSUME Check \/ Pause \/ ChildSignal \/ JoinWorker PROVE QueueInv'
  <2>1. TypeOK'
    BY <1>0, <1>10 DEF TypeOK, Check, Pause, ChildSignal, JoinWorker, MainStep
  <2> QED
    BY <1>0, <1>10, <2>1, QuietStep
    DEF TypeOK, Check, Pause, ChildSignal, JoinWorker, MainStep
<1>11. CASE UNCHANGED vars
  <2>1. TypeOK'
    BY <1>0, <1>11 DEF TypeOK, vars
  <2> QED BY <1>0, <1>11, <2>1, QuietStep DEF TypeOK, vars
<1> QED
  BY <1>1, <1>2, <1>3, <1>4, <1>5, <1>6, <1>7, <1>8, <1>9, <1>10, <1>11
  DEF Next, WorkerNext

\* The invariant holds in every state.
LEMMA QueueInvariant == Spec => []QueueInv
BY QueueInit, QueueStep, PTL DEF Spec

-----------------------------------------------------------------------------
(***************************************************************************)
(* Theorems.                                                               *)
(***************************************************************************)
\* Every variable has its type: the queue holds requests only, and the worker
\* has one exactly while it works.
THEOREM TypeCorrect == Spec => []TypeOK
<1>1. QueueInv => TypeOK
  BY DEF QueueInv
<1> QED BY <1>1, QueueInvariant, PTL

\* The worker never sleeps on a queue with requests in it, but for the time a
\* thread takes from the end of the mutex to its notification.
THEOREM NoWakeupIsLost == Spec => []NoLostWakeup
<1>1. QueueInv => NoLostWakeup
  BY DEF QueueInv
<1> QED BY <1>1, QueueInvariant, PTL

\* The worker never pops an empty queue, whenever b_running changes.
THEOREM PopsAreDefined == Spec => []PopsARequest
<1>1. QueueInv => PopsARequest
  BY DEF QueueInv
<1> QED BY <1>1, QueueInvariant, PTL

\* Requests are taken once each, in the order in which they were queued.
THEOREM RequestsInOrder == Spec => []InOrder
<1>1. QueueInv => InOrder
  BY DEF QueueInv
<1> QED BY <1>1, QueueInvariant, PTL
=============================================================================
