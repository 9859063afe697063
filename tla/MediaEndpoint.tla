--------------------------- MODULE MediaEndpoint ----------------------------
(***************************************************************************)
(* One media endpoint process (src/media_endpoint.cpp) with its two        *)
(* threads: main, which waits for SIGRTMIN and copies the registry entry   *)
(* into conf, and endpoint_thread (t1), which streams what conf says.  They*)
(* share conf under cv_m, the condition variable cv, whose wait has no     *)
(* predicate, and the atomic flag b_running, which t1 tests without cv_m.  *)
(*                                                                         *)
(* A client holds cv_m for a whole call and waits on cv between two calls; *)
(* a server sets one stream up and lets cv_m go for good.                  *)
(*                                                                         *)
(* A configuration is the number of the update of the entry that brought   *)
(* it; module MediaPlane has the registry and the reading of the entry.    *)
(* Time is not modelled but for one thing: a timeout of a second or more   *)
(* does not run out while t1 is on its way from one sleep to the next.     *)
(***************************************************************************)
EXTENDS Naturals

CONSTANTS
  Duration,      \* the --duration the media server passes, in milliseconds
  MaxUpdates     \* bound: updates of the entry in a behaviour

ASSUME EndpointAssumption == Duration \subseteq Nat /\ MaxUpdates \in Nat

VARIABLES
  g_server,      \* started with --server
  spurious,      \* may cv.wait() return without a notification
  timeout,       \* tv_sec of the timeout of sigtimedwait
  main,          \* where main is
  thread,        \* where t1 is
  entry,         \* the configuration in the registry
  pending,       \* SIGRTMIN signals pending
  conf,
  streamed,      \* the configuration of the last stream, 0 if none
  b_running

given == <<g_server, spurious>>
vars == <<given, timeout, main, thread, entry, pending, conf, streamed, b_running>>

\* t1 holds cv_m; main holds it for one step only.
ThreadHolds == thread \in {"setup", "call"}

Alive == main \notin {"rejected", "failed", "exited"}

TypeOK ==
  /\ g_server \in BOOLEAN
  /\ spurious \in BOOLEAN
  /\ timeout \in Nat
  /\ main \in {"args", "wait", "copy", "notify", "end", "join", "remove",
               "rejected", "failed", "exited"}
  /\ thread \in {"none", "construct", "check", "lock", "setup", "call", "waiting",
                 "woken", "serve", "ended"}
  /\ entry \in 1 .. MaxUpdates + 1
  /\ pending \in 0 .. MaxUpdates
  /\ conf \in 1 .. MaxUpdates + 1
  /\ streamed \in 0 .. MaxUpdates + 1
  /\ b_running \in BOOLEAN

Init ==
  /\ g_server \in BOOLEAN
  /\ spurious \in BOOLEAN
  /\ timeout = 0
  /\ main = "args"
  /\ thread = "none"
  /\ entry = 1
  /\ pending = 0
  /\ conf = 1
  /\ streamed = 0
  /\ b_running = TRUE

\* notify_one: lost unless t1 waits.
NotifyOne == thread' = IF thread = "waiting" THEN "woken" ELSE thread

-----------------------------------------------------------------------------
(***************************************************************************)
(* The media server's worker: update_element, then sigqueue.  A signal that*)
(* comes before main has blocked SIGRTMIN kills the process (MediaPlane).  *)
(***************************************************************************)
Update ==
  /\ main \in {"wait", "copy", "notify", "end", "join", "remove"}
  /\ entry <= MaxUpdates
  /\ entry' = entry + 1
  /\ pending' = pending + 1
  /\ UNCHANGED <<given, timeout, main, thread, conf, streamed, b_running>>

-----------------------------------------------------------------------------
(***************************************************************************)
(* main.                                                                   *)
(***************************************************************************)
Start(duration) ==
  /\ main = "args"
  /\ IF duration = 0
       THEN main' = "rejected" /\ UNCHANGED <<timeout, thread>>
       ELSE /\ main' = "wait"
            /\ timeout' = (duration * 2) \div 1000
            /\ thread' = "construct"
  /\ UNCHANGED <<given, entry, pending, conf, streamed, b_running>>

\* The shared memory cannot be opened, or the environment has influx_URL and not
\* all that goes with it.
StartFails ==
  /\ main = "args"
  /\ main' = "failed"
  /\ UNCHANGED <<given, timeout, thread, entry, pending, conf, streamed, b_running>>

\* Mutant: a signal stands for all those that are pending, and is only taken
\* when t1 waits.
TakeAllWhenWaiting ==
  /\ main = "wait"
  /\ pending > 0
  /\ pending' = 0
  /\ main' = IF thread = "waiting" THEN "copy" ELSE "wait"
  /\ UNCHANGED <<given, timeout, thread, entry, conf, streamed, b_running>>

TakeSignal ==
  /\ main = "wait"
  /\ pending > 0
  /\ pending' = pending - 1
  /\ main' = "copy"
  /\ UNCHANGED <<given, timeout, thread, entry, conf, streamed, b_running>>

\* memcpy(&conf, new_conf) with cv_m.
Copy ==
  /\ main = "copy"
  /\ ~ThreadHolds
  /\ conf' = entry
  /\ main' = "notify"
  /\ UNCHANGED <<given, timeout, thread, entry, pending, streamed, b_running>>

\* Mutant: t1 is not notified.
NotifyForgotten ==
  /\ main = "notify"
  /\ main' = "wait"
  /\ UNCHANGED <<given, timeout, thread, entry, pending, conf, streamed, b_running>>

NotifyThread ==
  /\ main = "notify"
  /\ NotifyOne
  /\ main' = "wait"
  /\ UNCHANGED <<given, timeout, entry, pending, conf, streamed, b_running>>

Timeout ==
  /\ main = "wait"
  /\ pending = 0
  /\ timeout > 0 => thread \in {"call", "waiting", "serve"}
  /\ main' = "end"
  /\ UNCHANGED <<given, timeout, thread, entry, pending, conf, streamed, b_running>>

\* Mutant: the flag is set without a notification.
EndThreadSilent ==
  /\ main = "end"
  /\ ~ThreadHolds
  /\ b_running' = FALSE
  /\ main' = "join"
  /\ UNCHANGED <<given, timeout, thread, entry, pending, conf, streamed>>

EndThread ==
  /\ main = "end"
  /\ ~ThreadHolds
  /\ b_running' = FALSE
  /\ NotifyOne
  /\ main' = "join"
  /\ UNCHANGED <<given, timeout, entry, pending, conf, streamed>>

Join ==
  /\ main = "join"
  /\ thread = "ended"
  /\ main' = "remove"
  /\ UNCHANGED <<given, timeout, thread, entry, pending, conf, streamed, b_running>>

Leave ==
  /\ main = "remove"
  /\ main' = "exited"
  /\ UNCHANGED <<given, timeout, thread, entry, pending, conf, streamed, b_running>>

-----------------------------------------------------------------------------
(***************************************************************************)
(* endpoint_thread.                                                        *)
(***************************************************************************)
ThreadStep(from, to) ==
  /\ Alive
  /\ thread = from
  /\ thread' = to
  /\ UNCHANGED <<given, timeout, main, entry, pending, conf, b_running>>

\* The constructor of RTP_endpoint binds the port.
Construct == ThreadStep("construct", "check") /\ UNCHANGED streamed

\* while (b_running)
Check ==
  /\ ThreadStep("check", IF b_running THEN "lock" ELSE "ended")
  /\ UNCHANGED streamed

Lock == ThreadStep("lock", "setup") /\ UNCHANGED streamed

\* setRemoteAddr, createStream and startStream; a server unlocks cv_m.
SetUp ==
  /\ ThreadStep("setup", IF g_server THEN "serve" ELSE "call")
  /\ streamed' = conf

\* startStreaming, the sleep, the MOS, stopStreaming, and cv.wait(lk).
Call == ThreadStep("call", "waiting") /\ UNCHANGED streamed

\* wait() may return for no reason.
WakeUp == spurious /\ ThreadStep("waiting", "woken") /\ UNCHANGED streamed

\* wait() returns with cv_m, which the end of the loop's body lets go.
Relock == ThreadStep("woken", "check") /\ UNCHANGED streamed

\* A sleep of 10 seconds, the MOS, and if (!b_running) return.
Serve ==
  /\ ~b_running
  /\ ThreadStep("serve", "ended")
  /\ UNCHANGED streamed

\* An exception of RTP_endpoint: _exit(1).
ThreadFails ==
  /\ Alive
  /\ thread \in {"construct", "setup", "call"}
  /\ main' = "failed"
  /\ UNCHANGED <<given, timeout, thread, entry, pending, conf, streamed, b_running>>

MainNext ==
  \/ \E duration \in Duration : Start(duration)
  \/ StartFails \/ TakeSignal \/ Copy \/ NotifyThread \/ Timeout \/ EndThread \/ Join \/ Leave

ThreadNext ==
  \/ Construct \/ Check \/ Lock \/ SetUp \/ Call \/ WakeUp \/ Relock \/ Serve
  \/ ThreadFails

Next == Update \/ MainNext \/ ThreadNext

Spec == Init /\ [][Next]_vars

\* Both threads are scheduled, sleeps end, and main gets cv_m if it is free
\* again and again.  Nothing says that the entry is updated, that the timeout
\* runs out, that wait() returns for no reason or that anything fails.
Fairness ==
  /\ WF_vars(TakeSignal) /\ SF_vars(Copy) /\ WF_vars(NotifyThread)
  /\ SF_vars(EndThread) /\ WF_vars(Join) /\ WF_vars(Leave)
  /\ WF_vars(Construct \/ Check \/ Lock \/ SetUp \/ Call \/ Relock \/ Serve)

FairSpec == Spec /\ Fairness

-----------------------------------------------------------------------------
(***************************************************************************)
(* Properties.                                                             *)
(***************************************************************************)
\* A client does not wait for work with a configuration it has not streamed,
\* unless main is about to notify it; the wait has no predicate to catch a
\* notification that came too early.
NothingMissed ==
  ~g_server /\ thread = "waiting" => streamed = conf \/ main = "notify"

\* A client streams every update it has not overwritten with a newer one, unless
\* it ends first or fails.
UpdatesStreamed ==
  \A n \in 1 .. MaxUpdates + 1 :
    ~g_server /\ entry >= n /\ main = "wait" ~> streamed >= n \/ ~b_running \/ ~Alive

\* A process that has timed out leaves, if its first duration is 500 ms or more
\* and the wait does not return by itself: then the timeout finds t1 in a call
\* or waiting, and not between its test of b_running and its lock of cv_m.
EndCompletes == main = "join" /\ timeout > 0 /\ ~spurious ~> ~Alive

-----------------------------------------------------------------------------
(***************************************************************************)
(* What the documentation or the comments say and the code does not do.    *)
(***************************************************************************)
\* An endpoint that is started for a server without a duration lives 60s:
\* "server defaults to 60s lifetime" (media_endpoint.cpp:194).  The media server
\* passes --duration 0 then, which is an invalid argument.
ServerHasDefault == g_server => main # "rejected"

\* The registry "keeps track of the already active Media endpoints" so that they
\* can be reused (README.md:16), and an endpoint that is told to end does, which
\* takes its entry away.  With a timeout of 0 s, t1 may be told before it waits.
AlwaysEnds == main = "join" ~> ~Alive

\* A client does the call it was started for: "Call duration (ms)"
\* (media_endpoint.cpp:22).  Below 500 ms the timeout is 0 s, and main ends t1
\* before it has begun.
FirstCallDone == ~g_server /\ main = "exited" => streamed > 0

\* An endpoint that is reused as a server uses the new remote address: "allows
\* already spawned Media Endpoint processes to be reused" (README.md:16).  The
\* loop of a server never looks at conf again.
ServerFollows ==
  \A n \in 1 .. MaxUpdates + 1 :
    g_server /\ entry >= n /\ main = "wait" ~> streamed >= n \/ ~b_running \/ ~Alive
=============================================================================
