---------------------------- MODULE MThreadPool -----------------------------
(***************************************************************************)
(* base/ThreadPool.{h,cpp}: MThreadPool, as MainServer uses it.            *)
(*                                                                         *)
(* The main thread starts the workers, hands them tasks, and at the end    *)
(* tells the long running tasks to end and stops the pool (~MainServer).   *)
(* Some tasks are loops (IOThread, RedisPool and TimerManager run theirs   *)
(* on pool threads): they occupy a worker until ~MainServer breaks them,   *)
(* and while they run they submit further tasks (TConnection::read_request *)
(* calls MainServer::run).  So a worker is a consumer of the queue and,    *)
(* inside a task, a producer that run() can put to sleep.                  *)
(*                                                                         *)
(* A critical section of mutex_ is one step (Mutex.tla shows that it is    *)
(* exclusive); the read of running_ in runInThread takes no lock and is a  *)
(* step of its own.                                                        *)
(***************************************************************************)
EXTENDS Naturals, Sequences, FiniteSets

CONSTANTS Workers,     \* the threads start() may create
          Main,        \* the thread that runs MainServer
          Tasks,       \* the task objects
          Loops,       \* those that run until ~MainServer ends them
          MaxQueue,    \* maxQueueSize_, 0 for no bound
          NoTask       \* an empty std::function

ASSUME PoolAssumption ==
  /\ IsFiniteSet(Workers)
  /\ Main \notin Workers
  /\ Loops \subseteq Tasks
  /\ MaxQueue \in Nat
  /\ NoTask \notin Tasks

VARIABLES running,     \* running_
          queue,       \* queue_
          pc,          \* where each thread is
          arg,         \* the argument of the run() a thread is in
          task,        \* the task a worker executes
          offered,     \* tasks ever passed to run()
          finished     \* tasks that have returned

vars == <<running, queue, pc, arg, task, offered, finished>>

Threads == Workers \cup {Main}

(* Workers: "unborn" not created; "loop" reads running_ in runInThread;    *)
(* "take" awake in take(), about to evaluate its loop condition with the   *)
(* mutex; "starved" asleep on notEmpty_; "body" inside a task; "exited".   *)
(* Main: "starting" in start(); "serving"; "breaking" in ~MainServer;      *)
(* "joining" in stop(); "joined".                                          *)
(* Both: "enter" awake in run(), about to evaluate isFull() with the       *)
(* mutex; "blocked" asleep on notFull_.                                    *)
WorkerAt == {"unborn", "loop", "take", "starved", "body", "enter", "blocked", "exited"}
MainAt   == {"starting", "serving", "enter", "blocked", "breaking", "joining", "joined"}

At(p) == {th \in Threads : pc[th] = p}

(* threadVector *)
Started == {w \in Workers : pc[w] # "unborn"}

QueuedTasks == {queue[i] : i \in DOMAIN queue}
ActiveTasks == {task[w] : w \in Workers} \ {NoTask}
CallTasks   == {arg[th] : th \in Threads} \ {NoTask}

(* Main has told the loops to end: IOThread::breakLoop, RedisPool::exit,   *)
(* TimerManager::stop in ~MainServer.                                      *)
Broken == pc[Main] \in {"breaking", "joining", "joined"}

Init == /\ running = TRUE      \* first statement of start()
        /\ queue = <<>>
        /\ pc = [th \in Threads |-> IF th = Main THEN "starting" ELSE "unborn"]
        /\ arg = [th \in Threads |-> NoTask]
        /\ task = [w \in Workers |-> NoTask]
        /\ offered = {}
        /\ finished = {}

-----------------------------------------------------------------------------
(* One turn of the loop of start(): Thread::start returns when the new     *)
(* thread has begun to run.                                                *)
StartThread(w) ==
  /\ pc[Main] = "starting"
  /\ pc[w] = "unborn"
  /\ pc' = [pc EXCEPT ![w] = "loop"]
  /\ UNCHANGED <<running, queue, arg, task, offered, finished>>

(* start(numThreads) returns, for any numThreads. *)
StartReturns ==
  /\ pc[Main] = "starting"
  /\ pc' = [pc EXCEPT ![Main] = "serving"]
  /\ UNCHANGED <<running, queue, arg, task, offered, finished>>

-----------------------------------------------------------------------------
isFull == MaxQueue > 0 /\ Len(queue) >= MaxQueue

(* notify() on a Condition whose sleepers stand at "from" and go on at     *)
(* "to": one of them, if there is any.  q is pc as the caller leaves it.   *)
Signal(q, from, to) ==
  LET asleep == {th \in Threads : q[th] = from}
  IN IF asleep = {} THEN {q} ELSE {[q EXCEPT ![s] = to] : s \in asleep}

(* The threads that submit: Main, and a worker inside a loop. *)
MayCall(th) ==
  \/ th = Main /\ pc[th] = "serving"
  \/ th \in Workers /\ pc[th] = "body" /\ task[th] \in Loops

(* Where run() returns to. *)
Resume(th) == IF th = Main THEN "serving" ELSE "body"

(* run() with threadVector.empty(): the task runs in the call.  A loop     *)
(* would never return from it.                                             *)
RunInline(t) ==
  /\ MayCall(Main)
  /\ Started = {}
  /\ t \notin offered \cup Loops
  /\ offered' = offered \cup {t}
  /\ finished' = finished \cup {t}
  /\ UNCHANGED <<running, queue, pc, arg, task>>

(* run() with threads: the caller goes for the mutex. *)
CallRun(th, t) ==
  /\ MayCall(th)
  /\ Started # {}
  /\ t \notin offered
  /\ offered' = offered \cup {t}
  /\ arg' = [arg EXCEPT ![th] = t]
  /\ pc' = [pc EXCEPT ![th] = "enter"]
  /\ UNCHANGED <<running, queue, task, finished>>

(* run(), with the mutex: notFull_.wait(). *)
RunWaits(th) ==
  /\ pc[th] = "enter"
  /\ isFull
  /\ pc' = [pc EXCEPT ![th] = "blocked"]
  /\ UNCHANGED <<running, queue, arg, task, offered, finished>>

(* A run() that forgets notEmpty_.notify(). *)
RunPushes_Silent(th) ==
  /\ pc[th] = "enter"
  /\ ~isFull
  /\ queue' = Append(queue, arg[th])
  /\ arg' = [arg EXCEPT ![th] = NoTask]
  /\ pc' = [pc EXCEPT ![th] = Resume(th)]
  /\ UNCHANGED <<running, task, offered, finished>>

(* run(), with the mutex: push_back, notEmpty_.notify(), return. *)
RunPushes(th) ==
  /\ pc[th] = "enter"
  /\ ~isFull
  /\ queue' = Append(queue, arg[th])
  /\ arg' = [arg EXCEPT ![th] = NoTask]
  /\ pc' \in Signal([pc EXCEPT ![th] = Resume(th)], "starved", "take")
  /\ UNCHANGED <<running, task, offered, finished>>

-----------------------------------------------------------------------------
(* runInThread: while (running_), read without the mutex. *)
Loop(w) ==
  /\ pc[w] = "loop"
  /\ pc' = [pc EXCEPT ![w] = IF running THEN "take" ELSE "exited"]
  /\ UNCHANGED <<running, queue, arg, task, offered, finished>>

(* take(), with the mutex: notEmpty_.wait(). *)
TakeWaits(w) ==
  /\ pc[w] = "take"
  /\ queue = <<>> /\ running
  /\ pc' = [pc EXCEPT ![w] = "starved"]
  /\ UNCHANGED <<running, queue, arg, task, offered, finished>>

(* take() returns an empty Task: the pool is stopping. *)
TakeNothing(w) ==
  /\ pc[w] = "take"
  /\ queue = <<>> /\ ~running
  /\ pc' = [pc EXCEPT ![w] = "loop"]
  /\ UNCHANGED <<running, queue, arg, task, offered, finished>>

(* A take() that forgets notFull_.notify(). *)
TakePops_Silent(w) ==
  /\ pc[w] = "take"
  /\ queue # <<>>
  /\ task' = [task EXCEPT ![w] = Head(queue)]
  /\ queue' = Tail(queue)
  /\ pc' = [pc EXCEPT ![w] = "body"]
  /\ UNCHANGED <<running, arg, offered, finished>>

(* A take() without pop_front(). *)
TakePops_KeepFront(w) ==
  /\ pc[w] = "take"
  /\ queue # <<>>
  /\ task' = [task EXCEPT ![w] = Head(queue)]
  /\ pc' \in IF MaxQueue > 0
             THEN Signal([pc EXCEPT ![w] = "body"], "blocked", "enter")
             ELSE {[pc EXCEPT ![w] = "body"]}
  /\ UNCHANGED <<running, queue, arg, offered, finished>>

(* A take() that takes the newest task. *)
TakePops_Back(w) ==
  /\ pc[w] = "take"
  /\ queue # <<>>
  /\ task' = [task EXCEPT ![w] = queue[Len(queue)]]
  /\ queue' = SubSeq(queue, 1, Len(queue) - 1)
  /\ pc' \in IF MaxQueue > 0
             THEN Signal([pc EXCEPT ![w] = "body"], "blocked", "enter")
             ELSE {[pc EXCEPT ![w] = "body"]}
  /\ UNCHANGED <<running, arg, offered, finished>>

(* take() returns the oldest task and signals notFull_; runInThread calls  *)
(* the task.                                                               *)
TakePops(w) ==
  /\ pc[w] = "take"
  /\ queue # <<>>
  /\ task' = [task EXCEPT ![w] = Head(queue)]
  /\ queue' = Tail(queue)
  /\ pc' \in IF MaxQueue > 0
             THEN Signal([pc EXCEPT ![w] = "body"], "blocked", "enter")
             ELSE {[pc EXCEPT ![w] = "body"]}
  /\ UNCHANGED <<running, arg, offered, finished>>

(* The task returns; a loop does so only once it has been broken. *)
TaskReturns(w) ==
  /\ pc[w] = "body"
  /\ task[w] \in Loops => Broken
  /\ finished' = finished \cup {task[w]}
  /\ task' = [task EXCEPT ![w] = NoTask]
  /\ pc' = [pc EXCEPT ![w] = "loop"]
  /\ UNCHANGED <<running, queue, arg, offered>>

(* pthread_cond_wait may return without a signal. *)
SpuriousWakeup(th) ==
  /\ pc[th] \in {"starved", "blocked"}
  /\ pc' = [pc EXCEPT ![th] = IF pc[th] = "starved" THEN "take" ELSE "enter"]
  /\ UNCHANGED <<running, queue, arg, task, offered, finished>>

-----------------------------------------------------------------------------
(* ~MainServer breaks the loops before it stops the pool. *)
BreakLoops ==
  /\ pc[Main] = "serving"
  /\ pc' = [pc EXCEPT ![Main] = "breaking"]
  /\ UNCHANGED <<running, queue, arg, task, offered, finished>>

(* A stop() that wakes one worker instead of all. *)
Stop_NotifyOne ==
  /\ pc[Main] = "breaking"
  /\ running' = FALSE
  /\ pc' \in Signal([pc EXCEPT ![Main] = "joining"], "starved", "take")
  /\ UNCHANGED <<queue, arg, task, offered, finished>>

(* stop(), with the mutex: running_ = false and notEmpty_.notifyAll().     *)
(* notFull_ is not notified.                                               *)
Stop ==
  /\ pc[Main] = "breaking"
  /\ running' = FALSE
  /\ pc' = [th \in Threads |-> IF th = Main THEN "joining"
                               ELSE IF pc[th] = "starved" THEN "take" ELSE pc[th]]
  /\ UNCHANGED <<queue, arg, task, offered, finished>>

(* stop() returns when every thread of threadVector has been joined. *)
StopReturns ==
  /\ pc[Main] = "joining"
  /\ \A w \in Started : pc[w] = "exited"
  /\ pc' = [pc EXCEPT ![Main] = "joined"]
  /\ UNCHANGED <<running, queue, arg, task, offered, finished>>

-----------------------------------------------------------------------------
Run(th) == RunWaits(th) \/ RunPushes(th)
Take(w) == TakeWaits(w) \/ TakeNothing(w) \/ TakePops(w)

Next ==
  \/ StartReturns \/ BreakLoops \/ Stop \/ StopReturns
  \/ \E t \in Tasks : RunInline(t)
  \/ \E w \in Workers : StartThread(w) \/ Loop(w) \/ Take(w) \/ TaskReturns(w)
  \/ \E th \in Threads : Run(th) \/ SpuriousWakeup(th)
                         \/ \E t \in Tasks : CallRun(th, t)

Spec == Init /\ [][Next]_vars

(* Every thread that can run does run: a worker goes on from "loop" and    *)
(* "take", a caller from "enter" (the mutex is never withheld for ever), a *)
(* task that may return returns, and ~MainServer, once begun, goes on.     *)
(* Nothing makes callers call, Main shut down, or waits end by themselves. *)
FairSpec ==
  /\ Spec
  /\ \A w \in Workers : WF_vars(Loop(w)) /\ WF_vars(Take(w)) /\ WF_vars(TaskReturns(w))
  /\ \A th \in Threads : WF_vars(Run(th))
  /\ WF_vars(Stop) /\ WF_vars(StopReturns)

-----------------------------------------------------------------------------
TypeOK ==
  /\ running \in BOOLEAN
  /\ queue \in Seq(Tasks)
  /\ pc \in [Threads -> WorkerAt \cup MainAt]
  /\ pc[Main] \in MainAt
  /\ \A w \in Workers : pc[w] \in WorkerAt
  /\ arg \in [Threads -> Tasks \cup {NoTask}]
  /\ task \in [Workers -> Tasks \cup {NoTask}]
  /\ offered \subseteq Tasks
  /\ finished \subseteq Tasks

(* run() leaves the queue within its bound, whoever else submitted while   *)
(* the caller slept (ThreadPool.cpp:71-74, the assert after the wait).     *)
QueueBound == MaxQueue > 0 => Len(queue) <= MaxQueue

(* A task passed to run() is in exactly one place: in the hands of its     *)
(* caller, at one position of the queue, at one worker, or finished.       *)
(* Nothing is lost, run twice, or run by two workers.                      *)
OnePlace ==
  /\ offered = CallTasks \cup QueuedTasks \cup ActiveTasks \cup finished
  /\ CallTasks \cap (QueuedTasks \cup ActiveTasks \cup finished) = {}
  /\ QueuedTasks \cap (ActiveTasks \cup finished) = {}
  /\ ActiveTasks \cap finished = {}
  /\ \A i, j \in DOMAIN queue : queue[i] = queue[j] => i = j
  /\ \A v, w \in Workers : task[v] = task[w] /\ task[v] # NoTask => v = w
  /\ \A a, b \in Threads : arg[a] = arg[b] /\ arg[a] # NoTask => a = b

(* What the pool does with tasks, whatever is interleaved: none is lost or *)
(* doubled, and the queue keeps its bound.                                 *)
TasksKept == TypeOK /\ QueueBound /\ OnePlace

(* No lost wakeup on notEmpty_: while a worker sleeps, every queued task   *)
(* has an awake worker in take() that will fetch it; and nobody sleeps     *)
(* once running_ is false, so stop() leaves no worker behind.              *)
NoStarvedWorker ==
  At("starved") # {} => running /\ Len(queue) <= Cardinality(At("take"))

(* No lost wakeup on notFull_: while a caller sleeps, every free place has *)
(* an awake caller in run() that will fill it.                             *)
NoBlockedCaller ==
  At("blocked") # {} => MaxQueue - Len(queue) <= Cardinality(At("enter"))

(* No wakeup is lost on either Condition, although each notify() wakes one *)
(* thread and run() and take() notify only when they have changed a queue. *)
NoLostWakeup == NoStarvedWorker /\ NoBlockedCaller

(* The pool implements the abstract task queue. *)
Abs == INSTANCE TaskQueue

ImplementsTaskQueue == Abs!Spec

(* With more workers than loops, a queued task starts unless the pool is   *)
(* stopped first: the loops cannot occupy every worker.                    *)
QueuedTaskStarts ==
  \A t \in Tasks :
    t \in QueuedTasks /\ Cardinality(Started) > Cardinality(Loops)
      ~> t \notin QueuedTasks \/ ~running

(* A caller that run() has put to sleep gets its task queued unless the    *)
(* pool is stopped first, under the same condition.                        *)
BlockedCallReturns ==
  \A th \in Threads :
    pc[th] = "blocked" /\ Cardinality(Started) > Cardinality(Loops)
      ~> pc[th] \notin {"enter", "blocked"} \/ ~running

(* With a worker to spare the pool makes progress at both of its ends.     *)
PoolProgress == QueuedTaskStarts /\ BlockedCallReturns

(* Once stop() waits in join(), every worker exits, except one that sleeps *)
(* in run().                                                               *)
WorkersExit ==
  \A w \in Workers :
    pc[Main] = "joining" /\ w \in Started ~> pc[w] \in {"exited", "blocked"}
=============================================================================
