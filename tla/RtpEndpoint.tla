----------------------------- MODULE RtpEndpoint ------------------------------
(***************************************************************************)
(* The two threads of MediaEndpoint with what t1 works on: its RTP_endpoint*)
(* (src/rtp_endpoint.cpp) and the InfluxDBClient (src/influxdb_client.cpp) *)
(* that it reports to, which main makes and deletes.                       *)
(*                                                                         *)
(* An RTP_endpoint has one UDP transport for its life.  Every call makes a *)
(* new stream on it, which turns the transport to the remote address of    *)
(* conf.  A client plays its file through a master port, which is made with*)
(* the first stream and feeds that one for good; the statistics are read   *)
(* from the stream made last.                                              *)
(*                                                                         *)
(* Every action conjoins one of MediaEndpoint with what it does here, or   *)
(* is a step inside one of its states; a remote address is the number of   *)
(* the configuration that it came with.                                    *)
(***************************************************************************)
EXTENDS MediaEndpoint, Integers

CONSTANTS
  MaxStreams,    \* bound: no wait returns by itself once there are so many
  Rtt            \* mean round-trip delays, in ms, a call may have

ASSUME RtpAssumption == MaxStreams \in Nat /\ Rtt \subseteq Nat

VARIABLES
  influx,        \* g_pInfluxdb: made without a connection or with one, deleted
  transport,     \* its socket
  remote,        \* the address it sends to, 0 if it has never been attached
  stream,        \* the stream made last, which is how many there are
  source,        \* the stream the master port feeds, 0 if there is none
  playing,       \* does the master port run
  at,            \* where t1 is in a call, or in a round of a server
  receipts       \* the delay the RTCP receipts tell, none if none have come

rtp == <<transport, remote, stream, source, playing, receipts>>
rtpVars == <<vars, influx, rtp, at>>

RtpTypeOK ==
  /\ influx \in {"none", "off", "on", "deleted"}
  /\ transport \in {"none", "open", "closed"}
  /\ remote \in 0 .. MaxUpdates + 1
  /\ stream \in Nat
  /\ source \in 0 .. 1
  /\ playing \in BOOLEAN
  /\ at \in {"ready", "sleep", "send", "sent"}
  /\ receipts \in {{}} \cup {{rtt} : rtt \in Rtt}

RtpInit ==
  /\ Init
  /\ influx = "none"
  /\ transport = "none"
  /\ remote = 0
  /\ stream = 0
  /\ source = 0
  /\ playing = FALSE
  /\ at = "ready"
  /\ receipts = {}

-----------------------------------------------------------------------------
(***************************************************************************)
(* compute_MOS, in ten-thousandths.  get_MOS divides the lost packets by   *)
(* the packets as integers: the loss rate it passes is 0, and so is "le",  *)
(* unless as many packets are lost as are sent.                            *)
(***************************************************************************)
\* Mutant: the extra weight is not for long delays only.
RThousandthsAlways(rtt) == 94200 + 19503 - 134 * rtt

\* R, in thousandths; delays of more than 177.3 ms weigh more.
RThousandths(rtt) ==
  94200 - 24 * rtt - (IF rtt > 177 THEN 110 * rtt - 19503 ELSE 0)

MOS(rtt) ==
  LET r == RThousandths(rtt) \div 100
  IN  10000 + 35 * r + ((((r * (r - 600) * (1000 - r)) \div 1000) * 7) \div 100)

-----------------------------------------------------------------------------
(***************************************************************************)
(* main.                                                                   *)
(***************************************************************************)
\* The client of InfluxDB is made before t1, and has no connection if there is
\* no influx_URL or curl cannot be initialised.
StartWithClient(duration) ==
  /\ Start(duration)
  /\ influx' \in IF duration = 0 THEN {"none"} ELSE {"off", "on"}
  /\ UNCHANGED <<rtp, at>>

EndThreadOnly == EndThread /\ UNCHANGED <<influx, rtp, at>>

\* The process ends, and whatever it has open is closed.
LeaveWithClient ==
  /\ Leave
  /\ influx' = "deleted"
  /\ transport' = "closed"
  /\ UNCHANGED <<remote, stream, source, playing, at, receipts>>

OtherMain ==
  /\ TakeSignal \/ Copy \/ NotifyThread \/ Timeout \/ Join \/ StartFails \/ Update
  /\ UNCHANGED <<influx, rtp, at>>

-----------------------------------------------------------------------------
(***************************************************************************)
(* endpoint_thread.                                                        *)
(***************************************************************************)
\* The transport is created; its socket is bound to conf.port.
OpenTransport ==
  /\ Construct
  /\ transport' = "open"
  /\ UNCHANGED <<influx, remote, stream, source, playing, at, receipts>>

\* Mutant: the master port is all that the destructor looks at.
DestroyPlayer ==
  /\ transport' = IF source # 0 THEN "closed" ELSE transport
  /\ playing' = FALSE
  /\ UNCHANGED <<influx, remote, stream, source, at, receipts>>

\* The destructor destroys the master port and the last stream; it knows its
\* transport by that stream.
Destroy ==
  /\ transport' = IF stream # 0 THEN "closed" ELSE transport
  /\ playing' = FALSE
  /\ UNCHANGED <<influx, remote, stream, source, at, receipts>>

\* while (b_running); after it, endpoint goes out of scope.
CheckRunning ==
  /\ Check
  /\ IF b_running THEN UNCHANGED <<influx, rtp, at>> ELSE Destroy

\* Mutant: there is one stream for all the calls.
CreateStreamOnce ==
  /\ stream' = 1
  /\ remote' = IF stream = 0 THEN conf ELSE remote

\* setRemoteAddr and createStream, which leaves an earlier stream as it is.
CreateStream ==
  /\ stream' = stream + 1
  /\ remote' = conf

\* Mutant: a master port for every call.
StartStreamAgain == source' = IF g_server THEN source ELSE stream'

\* startStream: the file and the master port are made once.
StartStream ==
  source' = IF ~g_server /\ source = 0 THEN stream' ELSE source

SetUpStream ==
  /\ SetUp
  /\ CreateStream
  /\ StartStream
  /\ at' = IF g_server THEN "sleep" ELSE "ready"
  /\ UNCHANGED <<influx, transport, playing, receipts>>

InCall(from, to) ==
  /\ Alive
  /\ thread \in {"call", "serve"}
  /\ at = from
  /\ at' = to
  /\ UNCHANGED <<vars, influx, transport, remote, stream, source>>

StartStreaming == InCall("ready", "sleep") /\ playing' = TRUE /\ UNCHANGED receipts

\* The sleep is over: get_MOS of the last stream, and send.
Send ==
  /\ InCall("sleep", "send")
  /\ receipts' \in {{}} \cup {{rtt} : rtt \in Rtt}
  /\ UNCHANGED playing

\* send has returned: nothing is connected, or the server has answered, or curl
\* has given up, which it does not if the server neither answers nor closes.
SendReturns == InCall("send", "sent") /\ receipts' = {} /\ UNCHANGED playing

\* stopStreaming, and the wait.
StopStreaming ==
  /\ at = "sent"
  /\ Call
  /\ playing' = FALSE
  /\ at' = "ready"
  /\ UNCHANGED <<influx, transport, remote, stream, source, receipts>>

\* A server that still runs sleeps again; one that does not returns.
NextRound == b_running /\ thread = "serve" /\ InCall("sent", "sleep") /\ UNCHANGED <<playing, receipts>>

EndServer == at = "sent" /\ Serve /\ Destroy

\* A wait that returns for no reason.
WakeUpBounded == WakeUp /\ stream < MaxStreams /\ UNCHANGED <<influx, rtp, at>>

OtherThread == (Lock \/ Relock) /\ UNCHANGED <<influx, rtp, at>>

\* _exit(1), which closes what is open.
Abort ==
  /\ ThreadFails
  /\ transport' = "closed"
  /\ UNCHANGED <<influx, remote, stream, source, playing, at, receipts>>

RtpThread ==
  \/ OpenTransport \/ CheckRunning \/ OtherThread \/ SetUpStream
  \/ StartStreaming \/ Send \/ StopStreaming \/ NextRound \/ EndServer

RtpNext ==
  \/ \E duration \in Duration : StartWithClient(duration)
  \/ EndThreadOnly \/ LeaveWithClient \/ OtherMain
  \/ RtpThread \/ SendReturns \/ WakeUpBounded \/ Abort

RtpSpec == RtpInit /\ [][RtpNext]_rtpVars

\* As in MediaEndpoint.  That send returns is a demand on the server of InfluxDB:
\* curl is given no timeout.
RtpFairness ==
  /\ WF_rtpVars(TakeSignal /\ OtherMain) /\ SF_rtpVars(Copy /\ OtherMain)
  /\ WF_rtpVars(NotifyThread /\ OtherMain)
  /\ SF_rtpVars(EndThreadOnly) /\ WF_rtpVars(Join /\ OtherMain)
  /\ WF_rtpVars(LeaveWithClient)
  /\ WF_rtpVars(RtpThread) /\ WF_rtpVars(SendReturns)

FairRtpSpec == RtpSpec /\ RtpFairness

-----------------------------------------------------------------------------
(***************************************************************************)
(* Properties.                                                             *)
(***************************************************************************)
\* While a client plays, its packets go to the address of its configuration,
\* although the master port still feeds the stream of the first call.
CallGoesToConf == playing => remote = conf

\* The transport is not turned to another address, and no stream is made on it,
\* while the clock thread of the master port sends.
NoNewStreamWhilePlaying ==
  [][stream' # stream \/ remote' # remote => ~playing]_rtpVars

\* The socket is closed before the entry of the endpoint is removed, so that the
\* process that is launched for the next request can bind the port.  With a
\* timeout of 0 s there may be no stream yet to find the transport by.
SocketClosedFirst == main = "remove" /\ timeout > 0 => transport = "closed"

\* t1 does not use the client of InfluxDB after main has deleted it.
ClientOutlivesThread ==
  Alive /\ thread \in {"call", "serve"} => influx \in {"off", "on"}

\* A score is on the scale of 1 to 4.5, and no call with a longer delay gets a
\* better one, for delays up to the MosLimit; beyond it the polynomial, which has
\* no lower end, dips below 1 and then rises without bound.
MosLimit == 796
MinMOS == 10000
MaxMOS == 45000

MosOnScale ==
  \A rtt \in receipts : rtt <= MosLimit =>
    /\ MOS(rtt) \in MinMOS .. MaxMOS
    /\ \A longer \in rtt .. MosLimit : MOS(longer) <= MOS(rtt)

-----------------------------------------------------------------------------
(***************************************************************************)
(* What the documentation says and the code does not do.                   *)
(***************************************************************************)
\* What is sent at the end of a call is the MOS of that call: "endpoint will
\* calculate MOS scores, based on RTCP receipts" (README.md:53).  From its second
\* call on, a client reads them from a stream that it has sent nothing through.
MeasuresTheCall == ~g_server /\ at = "send" => stream = source
=============================================================================
