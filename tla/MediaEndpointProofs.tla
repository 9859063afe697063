------------------------ MODULE MediaEndpointProofs -------------------------
(***************************************************************************)
(* Proofs of the safety properties of MediaEndpoint, for any durations and *)
(* any number of updates, spurious wake-ups included.                      *)
(***************************************************************************)
EXTENDS MediaEndpoint, TLAPS

\* There is at most one signal for every update of the entry.
SignalsInv == pending <= entry - 1

\* A call is made with the configuration that main has last copied: main copies
\* under cv_m, which the call holds.
CallIsCurrent == ~g_server /\ thread = "call" => streamed = conf

EndpointInv == TypeOK /\ SignalsInv /\ CallIsCurrent /\ NothingMissed

\* The invariant holds initially.
LEMMA EndpointInit == Init => EndpointInv
BY EndpointAssumption
DEF Init, EndpointInv, TypeOK, SignalsInv, CallIsCurrent, NothingMissed

\* Every step keeps the types.
LEMMA TypeStep == TypeOK /\ SignalsInv /\ [Next]_vars => TypeOK' /\ SignalsInv'
<1> SUFFICES ASSUME TypeOK, SignalsInv, [Next]_vars PROVE TypeOK' /\ SignalsInv'
  OBVIOUS
<1> USE EndpointAssumption DEF TypeOK, SignalsInv, NotifyOne, given
<1>1. CASE Update
  BY <1>1 DEF Update
<1>2. ASSUME NEW duration \in Duration, Start(duration)
      PROVE  TypeOK' /\ SignalsInv'
  <2>1. duration \in Nat
    OBVIOUS
  <2>2. (duration * 2) \div 1000 \in Nat
    BY <2>1
  <2> QED BY <1>2, <2>2 DEF Start
<1>3. CASE TakeSignal \/ Copy \/ Timeout
  BY <1>3 DEF TakeSignal, Copy, Timeout
<1>4. CASE NotifyThread \/ EndThread
  BY <1>4 DEF NotifyThread, EndThread
<1>5. CASE Join \/ Leave \/ StartFails \/ ThreadFails
  BY <1>5 DEF Join, Leave, StartFails, ThreadFails
<1>6. CASE Construct \/ Lock \/ Call \/ WakeUp \/ Relock \/ Serve
  BY <1>6 DEF Construct, Lock, Call, WakeUp, Relock, Serve, ThreadStep
<1>7. CASE Check \/ SetUp
  BY <1>7 DEF Check, SetUp, ThreadStep
<1>8. CASE UNCHANGED vars
  BY <1>8 DEF vars
<1> QED
  BY <1>1, <1>2, <1>3, <1>4, <1>5, <1>6, <1>7, <1>8 DEF Next, MainNext, ThreadNext

\* Every step keeps the invariant.
LEMMA EndpointStep == EndpointInv /\ [Next]_vars => EndpointInv'
<1> SUFFICES ASSUME EndpointInv, [Next]_vars
             PROVE  CallIsCurrent' /\ NothingMissed'
  BY TypeStep DEF EndpointInv
<1> USE DEF EndpointInv, CallIsCurrent, NothingMissed, NotifyOne, given
<1>1. CASE Update \/ TakeSignal \/ Timeout
  BY <1>1 DEF Update, TakeSignal, Timeout
<1>2. ASSUME NEW duration \in Duration, Start(duration)
      PROVE  CallIsCurrent' /\ NothingMissed'
  BY <1>2 DEF Start
<1>3. CASE Copy
  BY <1>3 DEF Copy, ThreadHolds
<1>4. CASE NotifyThread \/ EndThread
  BY <1>4 DEF NotifyThread, EndThread
<1>5. CASE Join \/ Leave \/ StartFails
  BY <1>5 DEF Join, Leave, StartFails
<1>6. CASE ThreadFails
  BY <1>6 DEF ThreadFails
<1>7. CASE Construct \/ Lock \/ WakeUp \/ Relock \/ Serve
  BY <1>7 DEF Construct, Lock, WakeUp, Relock, Serve, ThreadStep
<1>8. CASE Check \/ SetUp \/ Call
  BY <1>8 DEF Check, SetUp, Call, ThreadStep
<1>9. CASE UNCHANGED vars
  BY <1>9 DEF vars
<1> QED
  BY <1>1, <1>2, <1>3, <1>4, <1>5, <1>6, <1>7, <1>8, <1>9
  DEF Next, MainNext, ThreadNext

\* The invariant holds in every state.
LEMMA EndpointInvariant == Spec => []EndpointInv
BY EndpointInit, EndpointStep, PTL DEF Spec

-----------------------------------------------------------------------------
(***************************************************************************)
(* Theorems.                                                               *)
(***************************************************************************)
\* Every variable has its type; no more signals are pending than updates made.
THEOREM TypeCorrect == Spec => []TypeOK
<1>1. EndpointInv => TypeOK
  BY DEF EndpointInv
<1> QED BY <1>1, EndpointInvariant, PTL

\* A client never waits for work with a configuration that it has not streamed
\* and of which nobody is about to tell it, although its wait has no predicate.
THEOREM NothingIsMissed == Spec => []NothingMissed
<1>1. EndpointInv => NothingMissed
  BY DEF EndpointInv
<1> QED BY <1>1, EndpointInvariant, PTL
=============================================================================
