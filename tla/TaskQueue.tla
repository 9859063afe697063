----------------------------- MODULE TaskQueue ------------------------------
(***************************************************************************)
(* The threads of a media server (src/media_server.cpp): the HTTP threads  *)
(* that queue requests (addTask), the worker that takes them (workerThread,*)
(* of which module MediaPlane has the core work), main, which sleeps in    *)
(* pause(), and the handler of SIGINT that asks them all to stop (cleanup).*)
(*                                                                         *)
(* taskQueue is guarded by queueMutex and signalled through queueCV; the   *)
(* flag b_running is atomic, and the handler writes it and notifies        *)
(* without the mutex, since a signal handler cannot take it.  Waiting on a *)
(* condition variable is atomic for those who hold the mutex only: a       *)
(* thread without it can notify between the test of the predicate and the  *)
(* moment the waiter can be woken.                                         *)
(***************************************************************************)
EXTENDS Naturals, Sequences, FiniteSets

CONSTANTS
  Http,          \* the threads of the HTTP endpoint
  MaxRequests,   \* bound: requests accepted in a behaviour
  SigThread      \* the threads the kernel may run the handler of SIGINT on

ASSUME QueueAssumption ==
  /\ IsFiniteSet(Http)
  /\ MaxRequests \in Nat \ {0}
  /\ SigThread \subseteq {"main", "worker", "http"}

VARIABLES
  taskQueue,     \* the queue, of the numbers of the requests accepted
  b_running,
  http,          \* where each HTTP thread is
  worker,        \* where the worker is
  data,          \* the request the worker is at work on, 0 if none
  main,          \* where main is
  sigint,        \* where the handler of SIGINT is
  sigThread,     \* the thread it runs on
  accepted,      \* number of requests accepted (answered or to be, with 200)
  taken          \* the requests the worker has taken, in order

vars == <<taskQueue, b_running, http, worker, data, main, sigint, sigThread,
          accepted, taken>>

\* The worker owns queueMutex; the HTTP threads own it for one step only.
WorkerHolds == worker \in {"test", "block", "pop"}

\* The requests that are parsed and not queued yet.
Pushing == {h \in Http : http[h] = "push"}

\* A thread the handler runs on does nothing else meanwhile.
Interrupted(thread) == sigint \in {"stop", "notify"} /\ sigThread = thread

TypeOK ==
  /\ taskQueue \in Seq(1 .. MaxRequests)
  /\ b_running \in BOOLEAN
  /\ http \in [Http -> {"idle", "push", "notify", "respond", "refused"}]
  /\ worker \in {"loop", "lock", "test", "block", "waiting", "pop", "work", "ended"}
  /\ data \in 0 .. MaxRequests
  /\ worker = "work" <=> data # 0
  /\ main \in {"check", "pause", "paused", "join", "done"}
  /\ sigint \in {"none", "stop", "notify", "returned"}
  /\ sigThread \in {"main", "worker", "http"}
  /\ accepted \in 0 .. MaxRequests
  /\ taken \in Seq(1 .. MaxRequests)

Init ==
  /\ taskQueue = << >>
  /\ b_running = TRUE
  /\ http = [h \in Http |-> "idle"]
  /\ worker = "loop"
  /\ data = 0
  /\ main = "check"
  /\ sigint = "none"
  /\ sigThread = "main"
  /\ accepted = 0
  /\ taken = << >>

-----------------------------------------------------------------------------
(***************************************************************************)
(* notify_one: wakes the worker if it is blocked, and is lost if it is not.*)
(***************************************************************************)
NotifyOne == worker' = IF worker = "waiting" THEN "lock" ELSE worker

\* A request is parsed.  A missing or wrong argument is answered with 400, one
\* that is no number with 500, and neither is queued.
Refuse(h) ==
  /\ main # "done"
  /\ http[h] = "idle"
  /\ http' = [http EXCEPT ![h] = "refused"]
  /\ UNCHANGED <<taskQueue, b_running, worker, data, main, sigint, sigThread, accepted, taken>>

Accept(h) ==
  /\ main # "done"
  /\ http[h] = "idle"
  /\ accepted + Cardinality(Pushing) < MaxRequests
  /\ http' = [http EXCEPT ![h] = "push"]
  /\ UNCHANGED <<taskQueue, b_running, worker, data, main, sigint, sigThread, accepted, taken>>

\* Mutant: the queue is pushed to without the mutex.
PushUnlocked(h) ==
  /\ http[h] = "push"
  /\ accepted' = accepted + 1
  /\ taskQueue' = Append(taskQueue, accepted + 1)
  /\ http' = [http EXCEPT ![h] = "notify"]
  /\ UNCHANGED <<b_running, worker, data, main, sigint, sigThread, taken>>

Push(h) ==
  /\ http[h] = "push"
  /\ ~WorkerHolds
  /\ accepted' = accepted + 1
  /\ taskQueue' = Append(taskQueue, accepted + 1)
  /\ http' = [http EXCEPT ![h] = "notify"]
  /\ UNCHANGED <<b_running, worker, data, main, sigint, sigThread, taken>>

\* Mutant: only the request that finds the queue empty notifies.
NotifyIfFirst(h) ==
  /\ http[h] = "notify"
  /\ IF Len(taskQueue) = 1 THEN NotifyOne ELSE UNCHANGED worker
  /\ http' = [http EXCEPT ![h] = "respond"]
  /\ UNCHANGED <<taskQueue, b_running, data, main, sigint, sigThread, accepted, taken>>

Notify(h) ==
  /\ http[h] = "notify"
  /\ NotifyOne
  /\ http' = [http EXCEPT ![h] = "respond"]
  /\ UNCHANGED <<taskQueue, b_running, data, main, sigint, sigThread, accepted, taken>>

\* The answer is sent: 200 for a request that was queued.
Respond(h) ==
  /\ http[h] \in {"respond", "refused"}
  /\ http' = [http EXCEPT ![h] = "idle"]
  /\ UNCHANGED <<taskQueue, b_running, worker, data, main, sigint, sigThread, accepted, taken>>

-----------------------------------------------------------------------------
(***************************************************************************)
(* The worker thread.                                                      *)
(***************************************************************************)
WorkerStep(from, to) ==
  /\ ~Interrupted("worker")
  /\ worker = from
  /\ worker' = to
  /\ UNCHANGED <<b_running, http, main, sigint, sigThread, accepted>>

\* while (b_running)
Loop ==
  /\ WorkerStep("loop", IF b_running THEN "lock" ELSE "ended")
  /\ UNCHANGED <<taskQueue, data, taken>>

\* Mutant: the predicate is not tested.
LockAndPop ==
  /\ WorkerStep("lock", "pop")
  /\ UNCHANGED <<taskQueue, data, taken>>

\* The constructor of unique_lock, or the end of wait().
Lock ==
  /\ WorkerStep("lock", "test")
  /\ UNCHANGED <<taskQueue, data, taken>>

\* The predicate of wait(), with the mutex.
Test ==
  /\ WorkerStep("test", IF taskQueue # << >> \/ ~b_running THEN "pop" ELSE "block")
  /\ UNCHANGED <<taskQueue, data, taken>>

\* The mutex is released and the thread can be notified, in one step.
Block ==
  /\ WorkerStep("block", "waiting")
  /\ UNCHANGED <<taskQueue, data, taken>>

\* wait() may wake up for no reason.
WakeUp ==
  /\ WorkerStep("waiting", "lock")
  /\ UNCHANGED <<taskQueue, data, taken>>

\* if (!b_running) break;
Break ==
  /\ ~b_running
  /\ WorkerStep("pop", "ended")
  /\ UNCHANGED <<taskQueue, data, taken>>

\* Mutant: the request is taken from the back of the queue.
PopBack ==
  /\ b_running
  /\ WorkerStep("pop", "work")
  /\ data' = taskQueue[Len(taskQueue)]
  /\ taskQueue' = SubSeq(taskQueue, 1, Len(taskQueue) - 1)
  /\ taken' = Append(taken, taskQueue[Len(taskQueue)])

\* front() and pop(), which are undefined on an empty queue.
Pop ==
  /\ b_running
  /\ WorkerStep("pop", "work")
  /\ data' = Head(taskQueue)
  /\ taskQueue' = Tail(taskQueue)
  /\ taken' = Append(taken, Head(taskQueue))

\* The core work, under the mutex of the shared list.
Work ==
  /\ WorkerStep("work", "loop")
  /\ data' = 0
  /\ UNCHANGED <<taskQueue, taken>>

WorkerNext ==
  Loop \/ Lock \/ Test \/ Block \/ WakeUp \/ Break \/ Pop \/ Work

-----------------------------------------------------------------------------
(***************************************************************************)
(* SIGINT, once, and main.  pause() returns when a handler has run on the  *)
(* main thread; a signal that is handled before main pauses is too early.  *)
(***************************************************************************)
Interrupt(thread) ==
  /\ sigint = "none"
  /\ sigint' = "stop"
  /\ sigThread' = thread
  /\ UNCHANGED <<taskQueue, b_running, http, worker, data, main, accepted, taken>>

CleanupStop ==
  /\ sigint = "stop"
  /\ b_running' = FALSE
  /\ sigint' = "notify"
  /\ UNCHANGED <<taskQueue, http, worker, data, main, sigThread, accepted, taken>>

CleanupNotify ==
  /\ sigint = "notify"
  /\ NotifyOne
  /\ sigint' = "returned"
  /\ main' = IF sigThread = "main" /\ main = "paused" THEN "check" ELSE main
  /\ UNCHANGED <<taskQueue, b_running, http, data, sigThread, accepted, taken>>

MainStep(from, to) ==
  /\ ~Interrupted("main")
  /\ main = from
  /\ main' = to
  /\ UNCHANGED <<taskQueue, b_running, http, worker, data, sigint, sigThread, accepted, taken>>

\* while (b_running)
Check == MainStep("check", IF b_running THEN "pause" ELSE "join")

\* The call of pause(), which sleeps until the next signal.
Pause == MainStep("pause", "paused")

\* SIGCHLD was handled on the main thread: pause() returns.
ChildSignal == MainStep("paused", "check")

JoinWorker == worker = "ended" /\ MainStep("join", "done")

Next ==
  \/ \E h \in Http : Refuse(h) \/ Accept(h) \/ Push(h) \/ Notify(h) \/ Respond(h)
  \/ WorkerNext
  \/ \E thread \in SigThread : Interrupt(thread)
  \/ CleanupStop \/ CleanupNotify \/ Check \/ Pause \/ ChildSignal \/ JoinWorker

Spec == Init /\ [][Next]_vars

\* Threads that can run do, and a thread that waits for queueMutex gets it if
\* it is free again and again.  Nothing says that requests or SIGINT come,
\* that a child exits or that wait() wakes up for no reason.
Fairness ==
  /\ \A h \in Http : SF_vars(Push(h)) /\ WF_vars(Notify(h)) /\ WF_vars(Respond(h))
  /\ WF_vars(Loop \/ Lock \/ Test \/ Block \/ Break \/ Pop \/ Work)
  /\ WF_vars(CleanupStop) /\ WF_vars(CleanupNotify)
  /\ WF_vars(Check) /\ WF_vars(Pause) /\ WF_vars(JoinWorker)

FairSpec == Spec /\ Fairness

-----------------------------------------------------------------------------
(***************************************************************************)
(* Properties.                                                             *)
(***************************************************************************)
\* The worker does not sleep on a queue with requests in it, unless the thread
\* that pushed one is still to notify.  The notification comes after the mutex
\* is let go, and only one thread is ever woken.
NoLostWakeup ==
  worker = "waiting" /\ taskQueue # << >> => \E h \in Http : http[h] = "notify"

\* The worker pops a queue that has a request in it, although it looks at the
\* queue and at b_running, which changes without the mutex, at different times.
PopsARequest == worker = "pop" /\ b_running => taskQueue # << >>

\* The requests accepted, which are answered with 200, are taken once each and
\* in the order in which they were accepted, or are still queued.
InOrder == taken \o taskQueue = [n \in 1 .. accepted |-> n]

\* A request that is accepted is taken by the worker, unless SIGINT comes.
Served ==
  \A n \in 1 .. MaxRequests :
    accepted >= n ~> Len(taken) >= n \/ ~b_running

\* A worker that missed the notification of cleanup ends with the next request
\* that is queued, if there is one.
StopsAtNextRequest ==
  ~b_running /\ Pushing # {} ~> worker = "ended"

-----------------------------------------------------------------------------
(***************************************************************************)
(* What the comments say and the code does not do.                         *)
(***************************************************************************)
\* The worker ends after SIGINT: "Wait for a task or shutdown signal"
\* (media_server.cpp:108).  cleanup notifies without the mutex.
WorkerStops == ~b_running ~> worker = "ended"

\* The server ends once the worker has: "Register termination signal"
\* (media_server.cpp:268).  SIGINT may come between the test of b_running and
\* pause(), and main then sleeps until some other signal.
MainReturns == worker = "ended" ~> main = "done"
=============================================================================
