------------------------- MODULE RtpEndpointProofs --------------------------
(***************************************************************************)
(* Proofs of the safety properties of RtpEndpoint, for any durations, any  *)
(* number of updates and of streams.  A behaviour of RtpEndpoint is one of *)
(* MediaEndpoint, so that what MediaEndpointProofs has shown holds here.   *)
(***************************************************************************)
EXTENDS RtpEndpoint, MediaEndpointProofs

-----------------------------------------------------------------------------
(***************************************************************************)
(* RtpEndpoint implements MediaEndpoint.                                   *)
(***************************************************************************)
\* Every step is one of MediaEndpoint, or leaves its variables alone.
LEMMA StepImplements == [RtpNext]_rtpVars => [Next]_vars
<1> SUFFICES ASSUME [RtpNext]_rtpVars PROVE [Next]_vars
  OBVIOUS
<1> USE DEF Next, MainNext, ThreadNext
<1>1. ASSUME NEW duration \in Duration, StartWithClient(duration) PROVE Next
  BY <1>1 DEF StartWithClient
<1>2. CASE EndThreadOnly \/ LeaveWithClient \/ OtherMain
  BY <1>2 DEF EndThreadOnly, LeaveWithClient, OtherMain
<1>3. CASE OpenTransport \/ CheckRunning \/ OtherThread \/ SetUpStream
  BY <1>3 DEF OpenTransport, CheckRunning, OtherThread, SetUpStream
<1>4. CASE StartStreaming \/ Send \/ SendReturns \/ NextRound
  BY <1>4 DEF StartStreaming, Send, SendReturns, NextRound, InCall
<1>5. CASE StopStreaming \/ EndServer
  BY <1>5 DEF StopStreaming, EndServer
<1>6. CASE WakeUpBounded \/ Abort
  BY <1>6 DEF WakeUpBounded, Abort
<1>7. CASE UNCHANGED rtpVars
  BY <1>7 DEF rtpVars
<1> QED
  BY <1>1, <1>2, <1>3, <1>4, <1>5, <1>6, <1>7 DEF RtpNext, RtpThread

\* Whatever the streams do, the two threads behave as MediaEndpoint says.
THEOREM EndpointImplemented == RtpSpec => Spec
<1>1. RtpInit => Init
  BY DEF RtpInit
<1> QED BY <1>1, StepImplements, PTL DEF RtpSpec, Spec

-----------------------------------------------------------------------------
(***************************************************************************)
(* The invariant.                                                          *)
(***************************************************************************)
\* The master port of a client runs in a call only, in which the transport is
\* attached to the address of the stream that was made for it.
PlayingInv ==
  /\ playing => thread = "call" /\ ~g_server
  /\ thread = "call" => ~g_server /\ remote = streamed
  /\ thread = "serve" => at # "ready"

\* From the first stream on the destructor finds the transport; a timeout of a
\* second or more does not come before that.
StreamInv ==
  /\ thread \in {"call", "waiting", "woken", "serve"} => stream # 0
  /\ main \in {"end", "join", "remove"} /\ timeout > 0 => stream # 0
  /\ thread = "ended" /\ stream # 0 => transport = "closed"
  /\ main = "remove" => thread = "ended"

\* The master port of a client is made with its first stream.
SourceInv == ~g_server /\ source = 0 => stream = 0

\* main makes the client of InfluxDB before t1 and deletes it at the end.
ClientInv ==
  /\ main = "args" => thread = "none"
  /\ Alive /\ main # "args" => influx \in {"off", "on"}

RtpInv ==
  EndpointInv /\ RtpTypeOK /\ PlayingInv /\ StreamInv /\ SourceInv /\ ClientInv

\* The invariant holds initially.
LEMMA RtpInitially == RtpInit => RtpInv
<1>1. RtpInit => EndpointInv
  BY EndpointInit DEF RtpInit
<1>2. ASSUME RtpInit PROVE RtpTypeOK
  <2>1. playing \in BOOLEAN
    BY <1>2 DEF RtpInit
  <2>2. remote = 0 /\ stream = 0 /\ source = 0
    BY <1>2 DEF RtpInit
  <2>3. remote \in 0 .. MaxUpdates + 1 /\ stream \in Nat /\ source \in 0 .. 1
    BY <2>2, EndpointAssumption
  <2> QED BY <1>2, <2>1, <2>3 DEF RtpInit, RtpTypeOK
<1>3. RtpInit => PlayingInv /\ StreamInv /\ SourceInv /\ ClientInv
  BY DEF RtpInit, Init, PlayingInv, StreamInv, SourceInv, ClientInv
<1> QED BY <1>1, <1>2, <1>3 DEF RtpInv

\* Every step keeps the types, and what of them rests on the order of the streams.
LEMMA RtpTypeStep == RtpInv /\ [RtpNext]_rtpVars => RtpTypeOK' /\ SourceInv'
<1> SUFFICES ASSUME RtpInv, [RtpNext]_rtpVars PROVE RtpTypeOK' /\ SourceInv'
  OBVIOUS
<1>0. TypeOK /\ RtpTypeOK /\ SourceInv
  BY DEF RtpInv, EndpointInv
<1> USE <1>0, EndpointAssumption DEF RtpTypeOK, SourceInv, TypeOK, rtp, given
<1>1. ASSUME NEW duration \in Duration, StartWithClient(duration)
      PROVE  RtpTypeOK' /\ SourceInv'
  BY <1>1 DEF StartWithClient, Start
<1>2. CASE EndThreadOnly \/ LeaveWithClient
  BY <1>2 DEF EndThreadOnly, EndThread, LeaveWithClient, Leave
<1>3. CASE OtherMain
  BY <1>3
  DEF OtherMain, TakeSignal, Copy, NotifyThread, Timeout, Join, StartFails, Update
<1>4. CASE OpenTransport \/ CheckRunning \/ OtherThread
  BY <1>4
  DEF OpenTransport, Construct, CheckRunning, Check, OtherThread, Lock, Relock,
      Destroy, ThreadStep
<1>5. CASE SetUpStream
  BY <1>5 DEF SetUpStream, SetUp, ThreadStep, CreateStream, StartStream
<1>6. CASE StartStreaming \/ Send \/ SendReturns \/ NextRound
  BY <1>6 DEF StartStreaming, Send, SendReturns, NextRound, InCall, vars
<1>7. CASE StopStreaming \/ EndServer
  BY <1>7 DEF StopStreaming, Call, EndServer, Serve, Destroy, ThreadStep
<1>8. CASE WakeUpBounded \/ Abort
  BY <1>8 DEF WakeUpBounded, WakeUp, Abort, ThreadFails, ThreadStep
<1>9. CASE UNCHANGED rtpVars
  BY <1>9 DEF rtpVars, vars
<1> QED
  BY <1>1, <1>2, <1>3, <1>4, <1>5, <1>6, <1>7, <1>8, <1>9 DEF RtpNext, RtpThread

\* Every step keeps what relates the threads, the streams and the client.
LEMMA RtpStep == RtpInv /\ [RtpNext]_rtpVars => RtpInv'
<1> SUFFICES ASSUME RtpInv, [RtpNext]_rtpVars
             PROVE  PlayingInv' /\ StreamInv' /\ ClientInv'
  BY StepImplements, EndpointStep, RtpTypeStep DEF RtpInv
<1>0. TypeOK /\ RtpTypeOK /\ CallIsCurrent /\ PlayingInv /\ StreamInv /\ ClientInv
  BY DEF RtpInv, EndpointInv
<1> DEFINE Goal == PlayingInv' /\ StreamInv' /\ ClientInv'
<1> USE <1>0
    DEF PlayingInv, StreamInv, ClientInv, CallIsCurrent, TypeOK, RtpTypeOK, Alive, rtp,
        given
<1>1. ASSUME NEW duration \in Duration, StartWithClient(duration) PROVE Goal
  BY <1>1 DEF StartWithClient, Start
<1>2. CASE EndThreadOnly \/ LeaveWithClient
  BY <1>2 DEF EndThreadOnly, EndThread, NotifyOne, LeaveWithClient, Leave, ThreadHolds
<1>3. CASE OtherMain
  <2>1. CASE TakeSignal \/ Copy \/ NotifyThread
    BY <1>3, <2>1 DEF OtherMain, TakeSignal, Copy, NotifyThread, NotifyOne
  <2>2. CASE Timeout \/ Join \/ StartFails \/ Update
    BY <1>3, <2>2 DEF OtherMain, Timeout, Join, StartFails, Update
  <2> QED BY <1>3, <2>1, <2>2 DEF OtherMain
<1>4. CASE OpenTransport \/ CheckRunning \/ OtherThread
  <2>1. CASE OpenTransport \/ OtherThread
    BY <1>4, <2>1 DEF OpenTransport, Construct, OtherThread, Lock, Relock, ThreadStep
  <2>2. CASE CheckRunning
    BY <2>2 DEF CheckRunning, Check, Destroy, ThreadStep
  <2> QED BY <1>4, <2>1, <2>2
<1>5. CASE SetUpStream
  BY <1>5 DEF SetUpStream, SetUp, ThreadStep, CreateStream
<1>6. CASE StartStreaming \/ Send \/ SendReturns \/ NextRound
  BY <1>6 DEF StartStreaming, Send, SendReturns, NextRound, InCall, vars
<1>7. CASE StopStreaming \/ EndServer
  BY <1>7 DEF StopStreaming, Call, EndServer, Serve, Destroy, ThreadStep
<1>8. CASE WakeUpBounded \/ Abort
  BY <1>8 DEF WakeUpBounded, WakeUp, Abort, ThreadFails, ThreadStep
<1>9. CASE UNCHANGED rtpVars
  BY <1>9 DEF rtpVars, vars
<1> QED
  BY <1>1, <1>2, <1>3, <1>4, <1>5, <1>6, <1>7, <1>8, <1>9 DEF RtpNext, RtpThread

\* The invariant holds in every state.
LEMMA RtpInvariant == RtpSpec => []RtpInv
BY RtpInitially, RtpStep, PTL DEF RtpSpec

-----------------------------------------------------------------------------
(***************************************************************************)
(* Scores.                                                                 *)
(***************************************************************************)
\* Rounding down loses less than one.
LEMMA RoundedDown ==
  ASSUME NEW a \in Int, NEW d \in Nat \ {0}
  PROVE  a \div d \in Int /\ d * (a \div d) <= a /\ a < d * (a \div d) + d
OBVIOUS

\* R, in tenths, of the longest delay that is judged, and of none.
LowEnd == 70
HighEnd == 942
Scale == LowEnd .. HighEnd

\* For delays up to MosLimit, R is on this scale and does not grow with the delay.
LEMMA RScale ==
  ASSUME NEW a \in 0 .. MosLimit, NEW b \in a .. MosLimit
  PROVE  /\ RThousandths(a) \div 100 \in Scale
         /\ RThousandths(b) \div 100 \in Scale
         /\ RThousandths(b) \div 100 <= RThousandths(a) \div 100
<1> DEFINE u == RThousandths(a)
           v == RThousandths(b)
<1>1. a \in Int /\ b \in Int /\ 0 <= a /\ a <= b /\ b <= 796
  <2>1. MosLimit \in Int /\ MosLimit <= 796
    BY SMT DEF MosLimit
  <2> QED BY <2>1, SMT
<1>2. u \in Int /\ v \in Int /\ 7000 <= v /\ v <= u /\ u <= 94200
  BY <1>1, SMT DEF RThousandths
<1> HIDE DEF u, v
<1>3. u \div 100 \in Int /\ 100 * (u \div 100) <= u /\ u < 100 * (u \div 100) + 100
  BY <1>2, RoundedDown, SMT
<1>4. v \div 100 \in Int /\ 100 * (v \div 100) <= v /\ v < 100 * (v \div 100) + 100
  BY <1>2, RoundedDown, SMT
<1>5. 70 <= v \div 100 /\ v \div 100 <= u \div 100 /\ u \div 100 <= 942
  BY <1>2, <1>3, <1>4, SMT
<1>6. LowEnd <= v \div 100 /\ u \div 100 <= HighEnd /\ LowEnd \in Int /\ HighEnd \in Int
  BY <1>5, SMT DEF LowEnd, HighEnd
<1>7. u \div 100 \in Scale /\ v \div 100 \in Scale
  BY <1>3, <1>4, <1>5, <1>6, SMT DEF Scale
<1> QED BY <1>5, <1>7 DEF u, v

\* The cubic part of the score, and the score, of R in tenths.
Cubic(r) == r * (r - 600) * (1000 - r)

Score(r) == 10000 + 35 * r + (((Cubic(r) \div 1000) * 7) \div 100)

NoWorse(a, b) == Score(b) <= Score(a)

LEMMA ScaleTyped ==
  ASSUME NEW r \in Scale
  PROVE  r \in Int /\ 70 <= r /\ r <= 942
BY SMT DEF Scale, LowEnd, HighEnd

LEMMA ScoreTyped ==
  ASSUME NEW r \in Scale
  PROVE  Score(r) \in Int
<1>1. Cubic(r) \in Int
  BY ScaleTyped, SMT DEF Cubic
<1>2. PICK u \in Int : u = Cubic(r)
  BY <1>1, SMT
<1>3. u \div 1000 \in Int
  BY RoundedDown, SMT
<1>4. ((u \div 1000) * 7) \div 100 \in Int
  BY <1>3, RoundedDown, SMT
<1>5. Score(r) = 10000 + 35 * r + (((u \div 1000) * 7) \div 100)
  BY <1>2, SMT DEF Score
<1>6. r \in Int
  BY ScaleTyped
<1> QED BY <1>4, <1>5, <1>6, SMT

\* The cubic falls nowhere faster than at the low end of the scale.
LEMMA CubicSlope ==
  ASSUME NEW a \in Scale, NEW b \in Scale, a <= b
  PROVE  Cubic(b) - Cubic(a) >= -390700 * (b - a)
<1> DEFINE slope == 1600 * (a + b) - 600000 - (a * a + a * b + b * b)
<1>0. a \in Int /\ b \in Int /\ 70 <= a /\ b <= 942
  BY ScaleTyped
<1>1. Cubic(b) - Cubic(a) = (b - a) * slope
  BY <1>0, SMT DEF Cubic
<1>2. (a - 70) * (942 - a) >= 0 /\ (b - 70) * (942 - b) >= 0
  BY <1>0, SMT
<1>3. (a - 70) * (942 - b) >= 0 /\ (b - 70) * (942 - a) >= 0
  BY <1>0, SMT
<1>4. slope >= -390700
  BY <1>0, <1>2, <1>3, SMT
<1>5. slope \in Int /\ b - a \in Nat
  BY <1>0, SMT
<1> HIDE DEF slope
<1> QED BY <1>1, <1>4, <1>5, SMT

\* So the linear part outweighs it, rounding included.
LEMMA ScoreGrows ==
  ASSUME NEW a \in Scale, NEW b \in Scale, a <= b
  PROVE  NoWorse(b, a)
<1>0. a \in Int /\ b \in Int
  BY ScaleTyped
<1>1. CASE a = b
  BY <1>1, ScoreTyped, SMT DEF NoWorse
<1>2. CASE a # b
  <2> DEFINE A == Cubic(a) \div 1000
             B == Cubic(b) \div 1000
             X == (A * 7) \div 100
             Y == (B * 7) \div 100
  <2>1. Cubic(a) \in Int /\ Cubic(b) \in Int
    BY <1>0, SMT DEF Cubic
  <2>2. A \in Int /\ B \in Int /\ 1000 * A <= Cubic(a) /\ Cubic(b) < 1000 * B + 1000
    BY <2>1, RoundedDown, SMT
  <2> HIDE DEF A, B
  <2>3. A * 7 \in Int /\ B * 7 \in Int
    BY <2>2, SMT
  <2>4. X \in Int /\ Y \in Int /\ 100 * X <= A * 7 /\ B * 7 < 100 * Y + 100
    BY <2>3, RoundedDown, SMT
  <2>5. Score(a) = 10000 + 35 * a + X /\ Score(b) = 10000 + 35 * b + Y
    BY SMT DEF Score, A, B
  <2> HIDE DEF X, Y
  <2>6. 1000 * B + 1000 > 1000 * A - 390700 * (b - a)
    <3> DEFINE u == Cubic(a)
               v == Cubic(b)
    <3>1. v - u >= -390700 * (b - a)
      BY CubicSlope, SMT
    <3>2. u \in Int /\ v \in Int /\ 1000 * A <= u /\ v < 1000 * B + 1000
      BY <2>1, <2>2
    <3> HIDE DEF u, v
    <3> QED BY <1>0, <2>2, <3>1, <3>2, SMT
  <2>7. b - a >= 1
    BY <1>0, <1>2, SMT
  <2>8. Score(a) <= Score(b)
    BY <1>0, <2>2, <2>4, <2>5, <2>6, <2>7, SMT
  <2> QED BY <2>8, Zenon DEF NoWorse
<1> QED BY <1>1, <1>2

\* The ends of the scale.
LEMMA ScoreLow == 10000 <= Score(LowEnd)
<1> DEFINE u == Cubic(70)
           v == u \div 1000
           w == v * 7
           x == w \div 100
<1>1. Score(70) = 10000 + 35 * 70 + x
  BY SMT DEF Score
<1>2. u \in Int /\ u >= -34503000
  BY SMT DEF Cubic
<1> HIDE DEF u
<1>3. v \in Int /\ u < 1000 * v + 1000
  BY <1>2, RoundedDown, SMT
<1> HIDE DEF v
<1>4. w \in Int /\ 1000 * w > -241528000
  BY <1>2, <1>3, SMT DEF w
<1> HIDE DEF w
<1>5. x \in Int /\ w < 100 * x + 100
  BY <1>4, RoundedDown, SMT
<1> HIDE DEF x
<1>6. x >= -2450
  BY <1>4, <1>5, SMT
<1> QED BY <1>1, <1>5, <1>6, SMT DEF LowEnd

LEMMA ScoreHigh == Score(HighEnd) <= 45000
<1>1. Cubic(942) = 18685512
  BY SMT DEF Cubic
<1> QED BY <1>1, SMT DEF Score, HighEnd

LEMMA ScoreRange ==
  ASSUME NEW r \in Scale
  PROVE  Score(r) \in MinMOS .. MaxMOS
<1>1. LowEnd \in Scale /\ HighEnd \in Scale /\ LowEnd <= r /\ r <= HighEnd
  BY SMT DEF Scale, LowEnd, HighEnd
<1>2. NoWorse(r, LowEnd) /\ NoWorse(HighEnd, r)
  BY <1>1, ScoreGrows, Zenon
<1>3. Score(LowEnd) \in Int /\ Score(r) \in Int /\ Score(HighEnd) \in Int
  BY <1>1, ScoreTyped, Zenon
<1> DEFINE s == Score(r)
           l == Score(LowEnd)
           h == Score(HighEnd)
<1>4. l <= s /\ s <= h
  BY <1>2, Zenon DEF NoWorse
<1>5. 10000 <= l /\ h <= 45000
  BY ScoreLow, ScoreHigh, SMT
<1>6. l \in Int /\ s \in Int /\ h \in Int
  BY <1>3, Zenon
<1> HIDE DEF s, l, h
<1>7. 10000 <= s /\ s <= 45000
  BY <1>4, <1>5, <1>6, SMT
<1>8. MinMOS <= s /\ s <= MaxMOS /\ MinMOS \in Int /\ MaxMOS \in Int
  BY <1>7, SMT DEF MinMOS, MaxMOS
<1>9. s \in MinMOS .. MaxMOS
  BY <1>6, <1>8, SMT
<1> QED BY <1>9, Zenon DEF s

\* The MOS is the score of the R of the delay.
LEMMA MosIsScore ==
  ASSUME NEW x
  PROVE  MOS(x) = Score(RThousandths(x) \div 100)
BY SMT DEF MOS, Score, Cubic

-----------------------------------------------------------------------------
(***************************************************************************)
(* Theorems.                                                               *)
(***************************************************************************)
\* Every variable has its type; the master port feeds the first stream or none.
THEOREM RtpTypeCorrect == RtpSpec => []RtpTypeOK
<1>1. RtpInv => RtpTypeOK
  BY DEF RtpInv
<1> QED BY <1>1, RtpInvariant, PTL

\* What a client plays goes to the address of its configuration, in every call.
THEOREM CallsGoToConf == RtpSpec => []CallGoesToConf
<1>1. RtpInv => CallGoesToConf
  BY DEF RtpInv, EndpointInv, PlayingInv, CallIsCurrent, CallGoesToConf
<1> QED BY <1>1, RtpInvariant, PTL

\* No stream is made, and the transport is not turned, while the client plays.
THEOREM StreamsDoNotChangeInACall == RtpSpec => NoNewStreamWhilePlaying
<1>1. RtpInv /\ [RtpNext]_rtpVars
        => [stream' # stream \/ remote' # remote => ~playing]_rtpVars
  <2> SUFFICES ASSUME RtpInv, RtpNext, stream' # stream \/ remote' # remote
               PROVE  ~playing
    OBVIOUS
  <2>1. ASSUME NEW duration \in Duration, StartWithClient(duration) PROVE FALSE
    BY <2>1 DEF StartWithClient, rtp
  <2>2. CASE EndThreadOnly \/ LeaveWithClient \/ OtherMain
    BY <2>2 DEF EndThreadOnly, LeaveWithClient, OtherMain, rtp
  <2>3. CASE RtpThread
    BY <2>3
    DEF RtpThread, OpenTransport, CheckRunning, OtherThread, SetUpStream, SetUp,
        StartStreaming, Send, StopStreaming, NextRound, EndServer, Destroy, InCall,
        ThreadStep, rtp, RtpInv, PlayingInv
  <2>4. CASE SendReturns \/ WakeUpBounded \/ Abort
    BY <2>4 DEF SendReturns, InCall, WakeUpBounded, Abort, rtp
  <2> QED BY <2>1, <2>2, <2>3, <2>4 DEF RtpNext
<1> QED
  BY <1>1, RtpInvariant, PTL DEF RtpSpec, NoNewStreamWhilePlaying

\* The port is free before the entry is removed, whatever fails and however often
\* the endpoint has been reused, if its first duration is 500 ms or more.
THEOREM SocketsAreClosedFirst == RtpSpec => []SocketClosedFirst
<1>1. RtpInv => SocketClosedFirst
  BY DEF RtpInv, StreamInv, SocketClosedFirst
<1> QED BY <1>1, RtpInvariant, PTL

\* t1 never uses the client of InfluxDB before it is made or after it is deleted.
THEOREM ClientsOutliveThreads == RtpSpec => []ClientOutlivesThread
<1>1. RtpInv => ClientOutlivesThread
  BY DEF RtpInv, ClientInv, ClientOutlivesThread
<1> QED BY <1>1, RtpInvariant, PTL

\* Every delay of at most MosLimit milliseconds gets a score on the scale, and a
\* longer one, up to it, gets no better score: all the delays there may be, not those
\* of a run only (rtp_endpoint.cpp, compute_MOS).
THEOREM ScoresAreOnScale == RtpSpec => []MosOnScale
<1>1. ASSUME RtpTypeOK, NEW rtt \in receipts, rtt <= MosLimit
      PROVE  /\ MOS(rtt) \in MinMOS .. MaxMOS
             /\ \A longer \in rtt .. MosLimit : MOS(longer) <= MOS(rtt)
  <2>1. MosLimit \in Nat
    BY DEF MosLimit
  <2>2. rtt \in 0 .. MosLimit /\ rtt \in rtt .. MosLimit
    BY <1>1, <2>1, RtpAssumption DEF RtpTypeOK
  <2>3. ASSUME NEW longer \in rtt .. MosLimit
        PROVE  MOS(longer) <= MOS(rtt) /\ MOS(rtt) \in MinMOS .. MaxMOS
    <3> DEFINE R == RThousandths(rtt) \div 100
               Rlonger == RThousandths(longer) \div 100
    <3>1. R \in Scale /\ Rlonger \in Scale /\ Rlonger <= R
      BY <2>2, RScale, Zenon
    <3>2. MOS(rtt) = Score(R) /\ MOS(longer) = Score(Rlonger)
      BY MosIsScore, Zenon
    <3> HIDE DEF R, Rlonger
    <3>3. Score(Rlonger) <= Score(R)
      BY <3>1, ScoreGrows, Zenon DEF NoWorse
    <3>4. Score(R) \in MinMOS .. MaxMOS
      BY <3>1, ScoreRange, Zenon
    <3> QED BY <3>2, <3>3, <3>4, Zenon
  <2> QED BY <2>2, <2>3, Zenon
<1>2. RtpTypeOK => MosOnScale
  BY <1>1, Zenon DEF MosOnScale
<1> QED BY <1>2, RtpTypeCorrect, PTL
=============================================================================
