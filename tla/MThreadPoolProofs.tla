------------------------- MODULE MThreadPoolProofs --------------------------
(***************************************************************************)
(* What MThreadPool guarantees for every number of workers, tasks, loops   *)
(* and every maxQueueSize_.                                                *)
(***************************************************************************)
EXTENDS MThreadPool, QueueLemmas, FiniteSetTheorems, TLAPS

(* A thread holds an argument exactly while it is in run(), and a worker   *)
(* holds a task exactly while it executes one, calls of run() from the     *)
(* task included.                                                          *)
HandsMatchPc ==
  /\ \A th \in Threads : arg[th] # NoTask <=> pc[th] \in {"enter", "blocked"}
  /\ \A w \in Workers : task[w] # NoTask <=> pc[w] \in {"body", "enter", "blocked"}

(* Only the conjuncts HandsMatchPc has to be added to the properties of    *)
(* the runs to make them inductive.                                        *)
Inv == TypeOK /\ HandsMatchPc /\ QueueBound /\ OnePlace

-----------------------------------------------------------------------------
(* Condition::notify on the sleepers of one condition variable.            *)
LEMMA SignalCases ==
  ASSUME NEW q, NEW from, NEW to, NEW r \in Signal(q, from, to)
  PROVE  \/ (\A th \in Threads : q[th] # from) /\ r = q
         \/ \E s \in Threads : q[s] = from /\ r = [q EXCEPT ![s] = to]
BY DEF Signal

-----------------------------------------------------------------------------
(* Inv holds at the first statement of start(). *)
LEMMA InitInv == Init => Inv
BY PoolAssumption
   DEF Init, Inv, TypeOK, HandsMatchPc, QueueBound, OnePlace, Threads, WorkerAt, MainAt,
       CallTasks, QueuedTasks, ActiveTasks

(* Steps that leave queue, arg, task, offered and finished alone. *)
LEMMA QuietStep ==
  ASSUME TypeOK, QueueBound, OnePlace, UNCHANGED <<queue, arg, task, offered, finished>>
  PROVE  QueueBound' /\ OnePlace'
<1>1. /\ QueuedTasks' = QueuedTasks
      /\ ActiveTasks' = ActiveTasks
      /\ CallTasks' = CallTasks
  BY DEF QueuedTasks, ActiveTasks, CallTasks
<1> QED
  BY <1>1 DEF QueueBound, OnePlace

(* A signal moves sleepers inside run() or inside take(): it changes       *)
(* neither the type of pc nor what the threads hold.                       *)
LEMMA SignalStarved ==
  ASSUME NEW q \in [Threads -> WorkerAt \cup MainAt],
         q[Main] \in MainAt, \A w \in Workers : q[w] \in WorkerAt,
         NEW r \in Signal(q, "starved", "take")
  PROVE  /\ r \in [Threads -> WorkerAt \cup MainAt]
         /\ r[Main] \in MainAt
         /\ \A w \in Workers : r[w] \in WorkerAt
         /\ \A th \in Threads : r[th] # q[th] => q[th] = "starved" /\ r[th] = "take"
BY SignalCases DEF Threads, WorkerAt, MainAt

LEMMA SignalBlocked ==
  ASSUME NEW q \in [Threads -> WorkerAt \cup MainAt],
         q[Main] \in MainAt, \A w \in Workers : q[w] \in WorkerAt,
         NEW r \in Signal(q, "blocked", "enter")
  PROVE  /\ r \in [Threads -> WorkerAt \cup MainAt]
         /\ r[Main] \in MainAt
         /\ \A w \in Workers : r[w] \in WorkerAt
         /\ \A th \in Threads : r[th] # q[th] => q[th] = "blocked" /\ r[th] = "enter"
BY SignalCases DEF Threads, WorkerAt, MainAt

(* Every step of the pool preserves Inv. *)
LEMMA NextInv == Inv /\ [Next]_vars => Inv'
<1> USE PoolAssumption
<1> SUFFICES ASSUME Inv, [Next]_vars
             PROVE  Inv'
  OBVIOUS
<1> USE DEF Inv
<1>1. CASE UNCHANGED vars
  <2>1. QueueBound' /\ OnePlace'
    BY <1>1, QuietStep DEF vars
  <2> QED
    BY <1>1, <2>1 DEF vars, TypeOK, HandsMatchPc
<1>2. CASE StartReturns
  <2>1. QueueBound' /\ OnePlace'
    BY <1>2, QuietStep DEF StartReturns
  <2> QED
    BY <1>2, <2>1 DEF StartReturns, TypeOK, HandsMatchPc, Threads, WorkerAt, MainAt
<1>3. CASE BreakLoops
  <2>1. QueueBound' /\ OnePlace'
    BY <1>3, QuietStep DEF BreakLoops
  <2> QED
    BY <1>3, <2>1 DEF BreakLoops, TypeOK, HandsMatchPc, Threads, WorkerAt, MainAt
<1>4. CASE Stop
  <2>1. QueueBound' /\ OnePlace'
    BY <1>4, QuietStep DEF Stop
  <2> QED
    BY <1>4, <2>1 DEF Stop, TypeOK, HandsMatchPc, Threads, WorkerAt, MainAt
<1>5. CASE StopReturns
  <2>1. QueueBound' /\ OnePlace'
    BY <1>5, QuietStep DEF StopReturns
  <2> QED
    BY <1>5, <2>1 DEF StopReturns, TypeOK, HandsMatchPc, Threads, WorkerAt, MainAt
<1>6. ASSUME NEW t \in Tasks, RunInline(t)
      PROVE  Inv'
  <2>1. /\ QueuedTasks' = QueuedTasks
        /\ ActiveTasks' = ActiveTasks
        /\ CallTasks' = CallTasks
    BY <1>6 DEF RunInline, QueuedTasks, ActiveTasks, CallTasks
  <2>2. OnePlace'
    BY <1>6, <2>1 DEF RunInline, OnePlace
  <2> QED
    BY <1>6, <2>2 DEF RunInline, TypeOK, HandsMatchPc, QueueBound
<1>7. ASSUME NEW w \in Workers, StartThread(w)
      PROVE  Inv'
  <2>1. QueueBound' /\ OnePlace'
    BY <1>7, QuietStep DEF StartThread
  <2> QED
    BY <1>7, <2>1 DEF StartThread, TypeOK, HandsMatchPc, Threads, WorkerAt, MainAt
<1>8. ASSUME NEW w \in Workers, Loop(w)
      PROVE  Inv'
  <2>1. QueueBound' /\ OnePlace'
    BY <1>8, QuietStep DEF Loop
  <2> QED
    BY <1>8, <2>1 DEF Loop, TypeOK, HandsMatchPc, Threads, WorkerAt, MainAt
<1>9. ASSUME NEW w \in Workers, TakeWaits(w) \/ TakeNothing(w)
      PROVE  Inv'
  <2>1. QueueBound' /\ OnePlace'
    BY <1>9, QuietStep DEF TakeWaits, TakeNothing
  <2> QED
    BY <1>9, <2>1 DEF TakeWaits, TakeNothing, TypeOK, HandsMatchPc, Threads, WorkerAt, MainAt
<1>10. ASSUME NEW w \in Workers, TakePops(w)
       PROVE  Inv'
  <2> DEFINE q == [pc EXCEPT ![w] = "body"]
             h == Head(queue)
  <2>1. /\ w \in Threads /\ w # Main
        /\ pc[w] = "take"
        /\ task[w] = NoTask
        /\ q \in [Threads -> WorkerAt \cup MainAt]
        /\ q[Main] \in MainAt
        /\ \A v \in Workers : q[v] \in WorkerAt
    BY <1>10 DEF TakePops, TypeOK, HandsMatchPc, Threads, WorkerAt
  <2>2. /\ pc' \in [Threads -> WorkerAt \cup MainAt]
        /\ pc'[Main] \in MainAt
        /\ \A v \in Workers : pc'[v] \in WorkerAt
        /\ \A th \in Threads : pc'[th] # q[th] => q[th] = "blocked" /\ pc'[th] = "enter"
    BY <1>10, <2>1, SignalBlocked DEF TakePops
  <2>3. /\ queue' \in Seq(Tasks)
        /\ h \in Tasks
        /\ h \in QueuedTasks
        /\ Len(queue') = Len(queue) - 1
        /\ QueuedTasks' = QueuedTasks \ {h}
        /\ \A i, j \in DOMAIN queue' : queue'[i] = queue'[j] => i = j
    <3>1. /\ queue \in Seq(Tasks)
          /\ queue # <<>>
          /\ queue' = Tail(queue)
          /\ \A i, j \in DOMAIN queue : queue[i] = queue[j] => i = j
      BY <1>10 DEF TakePops, TypeOK, OnePlace
    <3>2. /\ Tail(queue) \in Seq(Tasks)
          /\ Head(queue) \in Tasks
          /\ Head(queue) \in {queue[i] : i \in DOMAIN queue}
          /\ Len(Tail(queue)) = Len(queue) - 1
          /\ {Tail(queue)[i] : i \in DOMAIN Tail(queue)}
               = {queue[i] : i \in DOMAIN queue} \ {Head(queue)}
          /\ \A i, j \in DOMAIN Tail(queue) : Tail(queue)[i] = Tail(queue)[j] => i = j
      BY <3>1, TailElements, Zenon
    <3> QED
      BY <3>1, <3>2 DEF QueuedTasks
  <2>4. task' = [task EXCEPT ![w] = h] /\ UNCHANGED <<arg, offered, finished, running>>
    BY <1>10 DEF TakePops
  <2>5. TypeOK'
    BY <2>2, <2>3, <2>4 DEF TypeOK
  <2>6. HandsMatchPc'
    <3>1. \A th \in Threads : arg'[th] # NoTask <=> pc'[th] \in {"enter", "blocked"}
      BY <2>1, <2>2, <2>4 DEF HandsMatchPc, TypeOK
    <3>2. \A v \in Workers : task'[v] # NoTask <=> pc'[v] \in {"body", "enter", "blocked"}
      <4>1. h # NoTask
        BY <2>3
      <4> QED
        BY <2>1, <2>2, <2>4, <4>1 DEF HandsMatchPc, TypeOK, Threads
    <3> QED
      BY <3>1, <3>2 DEF HandsMatchPc
  <2>7. QueueBound'
    BY <2>3, <2>4 DEF QueueBound, TypeOK
  <2>8. ActiveTasks' = ActiveTasks \cup {h} /\ CallTasks' = CallTasks
    BY <2>1, <2>3, <2>4 DEF ActiveTasks, CallTasks, TypeOK
  <2>9. \A u, v \in Workers : task'[u] = task'[v] /\ task'[u] # NoTask => u = v
    <3>1. \A v \in Workers : task[v] # h
      BY <2>3 DEF OnePlace, ActiveTasks, TypeOK
    <3> QED
      BY <3>1, <2>3, <2>4 DEF OnePlace, TypeOK
  <2>10. OnePlace'
    BY <2>3, <2>4, <2>8, <2>9 DEF OnePlace
  <2> QED
    BY <2>5, <2>6, <2>7, <2>10
<1>11. ASSUME NEW w \in Workers, TaskReturns(w)
       PROVE  Inv'
  <2>1. task[w] \in Tasks /\ task[w] # NoTask
    BY <1>11 DEF TaskReturns, TypeOK, HandsMatchPc
  <2>2. TypeOK' /\ HandsMatchPc' /\ QueueBound'
    BY <1>11, <2>1 DEF TaskReturns, TypeOK, HandsMatchPc, QueueBound, Threads, WorkerAt, MainAt
  <2>3. /\ ActiveTasks' = ActiveTasks \ {task[w]}
        /\ task[w] \in ActiveTasks
        /\ CallTasks' = CallTasks
        /\ QueuedTasks' = QueuedTasks
    BY <1>11, <2>1 DEF TaskReturns, ActiveTasks, CallTasks, QueuedTasks, OnePlace, TypeOK
  <2>4. \A u, v \in Workers : task'[u] = task'[v] /\ task'[u] # NoTask => u = v
    BY <1>11 DEF TaskReturns, OnePlace, TypeOK
  <2>5. finished' = finished \cup {task[w]} /\ UNCHANGED <<queue, arg, offered>>
    BY <1>11 DEF TaskReturns
  <2>6. OnePlace'
    BY <2>3, <2>4, <2>5 DEF OnePlace
  <2> QED
    BY <2>2, <2>6
<1>12. ASSUME NEW th \in Threads, NEW t \in Tasks, CallRun(th, t)
       PROVE  Inv'
  <2>1. arg[th] = NoTask /\ t # NoTask
    BY <1>12 DEF CallRun, MayCall, HandsMatchPc, Threads
  <2>2. TypeOK' /\ HandsMatchPc' /\ QueueBound'
    <3>1. th \in Workers => task[th] # NoTask
      BY <1>12 DEF CallRun, MayCall, HandsMatchPc
    <3> QED
      BY <1>12, <2>1, <3>1
         DEF CallRun, TypeOK, HandsMatchPc, QueueBound, Threads, WorkerAt, MainAt
  <2>3. /\ CallTasks' = CallTasks \cup {t}
        /\ ActiveTasks' = ActiveTasks
        /\ QueuedTasks' = QueuedTasks
    BY <1>12, <2>1 DEF CallRun, CallTasks, ActiveTasks, QueuedTasks, TypeOK
  <2>4. t \notin CallTasks
    BY <1>12 DEF CallRun, OnePlace
  <2>5. \A a, b \in Threads : arg'[a] = arg'[b] /\ arg'[a] # NoTask => a = b
    BY <1>12, <2>1, <2>4 DEF CallRun, OnePlace, TypeOK, CallTasks
  <2>6. t \notin offered /\ offered' = offered \cup {t} /\ UNCHANGED <<queue, task, finished>>
    BY <1>12 DEF CallRun
  <2>7. OnePlace'
    BY <2>3, <2>4, <2>5, <2>6 DEF OnePlace
  <2> QED
    BY <2>2, <2>7
<1>13. ASSUME NEW th \in Threads, RunWaits(th)
       PROVE  Inv'
  <2>1. QueueBound' /\ OnePlace'
    BY <1>13, QuietStep DEF RunWaits
  <2> QED
    BY <1>13, <2>1 DEF RunWaits, TypeOK, HandsMatchPc, Threads, WorkerAt, MainAt
<1>14. ASSUME NEW th \in Threads, RunPushes(th)
       PROVE  Inv'
  <2> DEFINE q == [pc EXCEPT ![th] = Resume(th)]
             t == arg[th]
  <2>1. /\ t \in Tasks /\ t # NoTask
        /\ pc[th] = "enter"
        /\ q \in [Threads -> WorkerAt \cup MainAt]
        /\ q[Main] \in MainAt
        /\ \A v \in Workers : q[v] \in WorkerAt
    BY <1>14 DEF RunPushes, Resume, TypeOK, HandsMatchPc, Threads, WorkerAt, MainAt
  <2>2. /\ pc' \in [Threads -> WorkerAt \cup MainAt]
        /\ pc'[Main] \in MainAt
        /\ \A v \in Workers : pc'[v] \in WorkerAt
        /\ \A u \in Threads : pc'[u] # q[u] => q[u] = "starved" /\ pc'[u] = "take"
    BY <1>14, <2>1, SignalStarved DEF RunPushes
  <2>3. /\ queue' \in Seq(Tasks)
        /\ Len(queue') = Len(queue) + 1
        /\ QueuedTasks' = QueuedTasks \cup {t}
    <3>1. queue \in Seq(Tasks) /\ queue' = Append(queue, t)
      BY <1>14 DEF RunPushes, TypeOK
    <3>2. /\ Append(queue, t) \in Seq(Tasks)
          /\ Len(Append(queue, t)) = Len(queue) + 1
          /\ {Append(queue, t)[i] : i \in DOMAIN Append(queue, t)}
               = {queue[i] : i \in DOMAIN queue} \cup {t}
      BY <2>1, <3>1, AppendElements
    <3> QED
      BY <3>1, <3>2 DEF QueuedTasks
  <2>4. arg' = [arg EXCEPT ![th] = NoTask] /\ UNCHANGED <<task, offered, finished, running>>
    BY <1>14 DEF RunPushes
  <2>5. TypeOK'
    BY <2>2, <2>3, <2>4 DEF TypeOK
  <2>6. HandsMatchPc'
    BY <2>1, <2>2, <2>4 DEF HandsMatchPc, TypeOK, Threads, Resume
  <2>7. QueueBound'
    BY <1>14, <2>3 DEF RunPushes, isFull, QueueBound, TypeOK
  <2>8. /\ t \in CallTasks
        /\ CallTasks' = CallTasks \ {t}
        /\ ActiveTasks' = ActiveTasks
    BY <2>1, <2>4 DEF CallTasks, ActiveTasks, OnePlace, TypeOK
  <2>9. \A a, b \in Threads : arg'[a] = arg'[b] /\ arg'[a] # NoTask => a = b
    BY <2>4 DEF OnePlace, TypeOK
  <2>10. \A i, j \in DOMAIN queue' : queue'[i] = queue'[j] => i = j
    <3>1. /\ queue' = Append(queue, t)
          /\ DOMAIN queue = 1..Len(queue)
          /\ DOMAIN queue' = 1..(Len(queue) + 1)
          /\ Len(queue) \in Nat
          /\ \A i \in 1..Len(queue) : queue'[i] = queue[i]
          /\ queue'[Len(queue) + 1] = t
      BY <1>14, <2>1 DEF RunPushes, TypeOK
    <3>2. \A i \in 1..Len(queue) : queue[i] # t
      BY <2>8, <3>1 DEF OnePlace, QueuedTasks
    <3>3. \A i \in 1..(Len(queue) + 1) : i \in 1..Len(queue) \/ i = Len(queue) + 1
      BY <3>1
    <3> QED
      BY <3>1, <3>2, <3>3 DEF OnePlace
  <2>11. OnePlace'
    BY <2>3, <2>4, <2>8, <2>9, <2>10 DEF OnePlace
  <2> QED
    BY <2>5, <2>6, <2>7, <2>11
<1>15. ASSUME NEW th \in Threads, SpuriousWakeup(th)
       PROVE  Inv'
  <2>1. QueueBound' /\ OnePlace'
    BY <1>15, QuietStep DEF SpuriousWakeup
  <2> QED
    BY <1>15, <2>1 DEF SpuriousWakeup, TypeOK, HandsMatchPc, Threads, WorkerAt, MainAt
<1> QED
  BY <1>1, <1>2, <1>3, <1>4, <1>5, <1>6, <1>7, <1>8, <1>9, <1>10, <1>11, <1>12,
     <1>13, <1>14, <1>15
     DEF Next, Run, Take

(* Inv is an invariant of the pool. *)
THEOREM InvHolds == Spec => []Inv
BY InitInv, NextInv, PTL DEF Spec

(* A submitted task is in exactly one place, its caller's hands, one       *)
(* position of the queue, one worker, or finished, and the queue never     *)
(* exceeds maxQueueSize_.                                                  *)
THEOREM TasksAreKept == Spec => []TasksKept
<1>1. Inv => TasksKept
  BY DEF Inv, TasksKept
<1> QED
  BY <1>1, InvHolds, PTL


-----------------------------------------------------------------------------
(* The threads at one place can be counted, before and after a step. *)
LEMMA AtFinite ==
  ASSUME NEW p
  PROVE  /\ IsFiniteSet(At(p)) /\ Cardinality(At(p)) \in Nat
         /\ IsFiniteSet(At(p)') /\ Cardinality(At(p)') \in Nat
<1>1. IsFiniteSet(Threads)
  BY PoolAssumption, FS_AddElement DEF Threads
<1>2. At(p) \in SUBSET Threads /\ At(p)' \in SUBSET Threads
  BY DEF At
<1> QED
  BY <1>1, <1>2, FS_Subset, FS_CardinalityType

(* Steps that put no worker to sleep and take none out of take(). *)
LEMMA NoStarvedQuiet ==
  ASSUME TypeOK, NoStarvedWorker, UNCHANGED <<queue, running>>,
         At("starved")' \subseteq At("starved"),
         At("take") \subseteq At("take")'
  PROVE  NoStarvedWorker'
<1>1. Cardinality(At("take")) <= Cardinality(At("take")')
  BY AtFinite, FS_Subset
<1>2. /\ Cardinality(At("take")) \in Nat
      /\ Cardinality(At("take")') \in Nat
      /\ Len(queue) \in Nat
      /\ Len(queue') = Len(queue)
  BY AtFinite DEF TypeOK
<1> QED
  BY <1>1, <1>2 DEF NoStarvedWorker

(* Every step preserves NoStarvedWorker: push_back wakes a sleeper, the    *)
(* worker that leaves take() has removed a task, a worker falls asleep     *)
(* only when there is none, and stop() wakes them all.                     *)
LEMMA NextNoStarved == Inv /\ NoStarvedWorker /\ [Next]_vars => NoStarvedWorker'
<1> USE PoolAssumption
<1> SUFFICES ASSUME Inv, NoStarvedWorker, [Next]_vars
             PROVE  NoStarvedWorker'
  OBVIOUS
<1>a. TypeOK /\ HandsMatchPc
  BY DEF Inv
<1>b. /\ Cardinality(At("take")) \in Nat
      /\ Cardinality(At("take")') \in Nat
      /\ Len(queue) \in Nat
  BY <1>a, AtFinite DEF TypeOK
<1>1. CASE UNCHANGED vars
  BY <1>1, <1>a, NoStarvedQuiet DEF vars, At
<1>2. CASE StartReturns \/ BreakLoops \/ StopReturns
  BY <1>2, <1>a, NoStarvedQuiet
     DEF StartReturns, BreakLoops, StopReturns, At, TypeOK, Threads, MainAt
<1>3. CASE Stop
  <2>1. At("starved")' = {}
    BY <1>3 DEF Stop, At
  <2> QED
    BY <2>1 DEF NoStarvedWorker
<1>4. ASSUME NEW t \in Tasks, RunInline(t)
      PROVE  NoStarvedWorker'
  BY <1>4, <1>a, NoStarvedQuiet DEF RunInline, At
<1>5. ASSUME NEW w \in Workers, StartThread(w) \/ Loop(w) \/ TaskReturns(w)
      PROVE  NoStarvedWorker'
  BY <1>5, <1>a, NoStarvedQuiet
     DEF StartThread, Loop, TaskReturns, At, TypeOK, Threads
<1>6. ASSUME NEW w \in Workers, TakeWaits(w)
      PROVE  NoStarvedWorker'
  <2>1. running' /\ Len(queue') = 0
    BY <1>6, <1>a DEF TakeWaits, TypeOK
  <2> QED
    BY <2>1, <1>b DEF NoStarvedWorker
<1>7. ASSUME NEW w \in Workers, TakeNothing(w)
      PROVE  NoStarvedWorker'
  <2>1. At("starved") = {}
    BY <1>7 DEF TakeNothing, NoStarvedWorker
  <2>2. At("starved")' = {}
    BY <1>7, <1>a, <2>1 DEF TakeNothing, At, TypeOK, Threads
  <2> QED
    BY <2>2 DEF NoStarvedWorker
<1>8. ASSUME NEW w \in Workers, TakePops(w)
      PROVE  NoStarvedWorker'
  <2> DEFINE q == [pc EXCEPT ![w] = "body"]
  <2>1. /\ w \in Threads
        /\ pc[w] = "take"
        /\ q \in [Threads -> WorkerAt \cup MainAt]
        /\ q[Main] \in MainAt
        /\ \A v \in Workers : q[v] \in WorkerAt
    BY <1>8, <1>a DEF TakePops, TypeOK, Threads, WorkerAt
  <2>2. \A th \in Threads : pc'[th] # q[th] => q[th] = "blocked" /\ pc'[th] = "enter"
    BY <1>8, <2>1, SignalBlocked DEF TakePops
  <2>3. /\ At("starved")' = At("starved")
        /\ At("take")' = At("take") \ {w}
        /\ w \in At("take")
    BY <2>1, <2>2, <1>a DEF At, TypeOK
  <2>4. Cardinality(At("take")') = Cardinality(At("take")) - 1
    BY <2>3, AtFinite, FS_RemoveElement
  <2>5. Len(queue') = Len(queue) - 1 /\ running' = running
    BY <1>8, <1>a DEF TakePops, TypeOK
  <2> QED
    BY <2>3, <2>4, <2>5, <1>b DEF NoStarvedWorker
<1>9. ASSUME NEW th \in Threads, RunPushes(th)
      PROVE  NoStarvedWorker'
  <2> DEFINE q == [pc EXCEPT ![th] = Resume(th)]
  <2>1. /\ pc[th] = "enter"
        /\ q \in [Threads -> WorkerAt \cup MainAt]
        /\ pc' \in Signal(q, "starved", "take")
        /\ \A u \in Threads : q[u] = "starved" <=> pc[u] = "starved"
        /\ \A u \in Threads : q[u] = "take" <=> pc[u] = "take"
    BY <1>9, <1>a DEF RunPushes, Resume, TypeOK, Threads, WorkerAt, MainAt
  <2>2. Len(queue') = Len(queue) + 1 /\ running' = running
    BY <1>9, <1>a DEF RunPushes, TypeOK, HandsMatchPc
  <2>3. CASE (\A u \in Threads : q[u] # "starved") /\ pc' = q
    BY <2>1, <2>3 DEF NoStarvedWorker, At
  <2>4. ASSUME NEW s \in Threads, q[s] = "starved", pc' = [q EXCEPT ![s] = "take"]
        PROVE  NoStarvedWorker'
    <3>1. /\ At("take")' = At("take") \cup {s}
          /\ s \notin At("take")
          /\ s \in At("starved")
      BY <2>1, <2>4 DEF At
    <3>2. Cardinality(At("take")') = Cardinality(At("take")) + 1
      BY <3>1, AtFinite, FS_AddElement
    <3>3. running /\ Len(queue) <= Cardinality(At("take"))
      BY <3>1 DEF NoStarvedWorker
    <3> QED
      BY <3>2, <3>3, <2>2, <1>b DEF NoStarvedWorker
  <2> HIDE DEF q
  <2>5. \/ (\A u \in Threads : q[u] # "starved") /\ pc' = q
        \/ \E s \in Threads : q[s] = "starved" /\ pc' = [q EXCEPT ![s] = "take"]
    BY <2>1, SignalCases
  <2> QED
    BY <2>3, <2>4, <2>5
<1>10. ASSUME NEW th \in Threads,
              RunWaits(th) \/ SpuriousWakeup(th) \/ \E t \in Tasks : CallRun(th, t)
       PROVE  NoStarvedWorker'
  BY <1>10, <1>a, NoStarvedQuiet
     DEF RunWaits, SpuriousWakeup, CallRun, MayCall, At, TypeOK, Threads
<1> QED
  BY <1>1, <1>2, <1>3, <1>4, <1>5, <1>6, <1>7, <1>8, <1>9, <1>10 DEF Next, Run, Take

(* ThreadPool.cpp:76-88: no worker sleeps on notEmpty_ while a task waits  *)
(* that no awake worker is going to fetch, and none sleeps once stop() has *)
(* cleared running_.                                                       *)
THEOREM WorkersAreWoken == Spec => []NoStarvedWorker
<1>1. Init => NoStarvedWorker
  BY PoolAssumption DEF Init, NoStarvedWorker, At
<1> QED
  BY <1>1, InvHolds, NextNoStarved, PTL DEF Spec

-----------------------------------------------------------------------------
(* Steps that put no caller to sleep and take none out of run(). *)
LEMMA NoBlockedQuiet ==
  ASSUME TypeOK, NoBlockedCaller, UNCHANGED queue,
         At("blocked")' \subseteq At("blocked"),
         At("enter") \subseteq At("enter")'
  PROVE  NoBlockedCaller'
<1>1. Cardinality(At("enter")) <= Cardinality(At("enter")')
  BY AtFinite, FS_Subset
<1>2. /\ Cardinality(At("enter")) \in Nat
      /\ Cardinality(At("enter")') \in Nat
      /\ Len(queue) \in Nat
      /\ Len(queue') = Len(queue)
  BY AtFinite DEF TypeOK
<1> QED
  BY <1>1, <1>2, PoolAssumption DEF NoBlockedCaller

(* Every step preserves NoBlockedCaller: pop_front wakes a sleeper, the    *)
(* caller that leaves run() has filled a place, and a caller falls asleep  *)
(* only when there is none.                                                *)
LEMMA NextNoBlocked == Inv /\ NoBlockedCaller /\ [Next]_vars => NoBlockedCaller'
<1> USE PoolAssumption
<1> SUFFICES ASSUME Inv, NoBlockedCaller, [Next]_vars
             PROVE  NoBlockedCaller'
  OBVIOUS
<1>a. TypeOK /\ HandsMatchPc
  BY DEF Inv
<1>b. /\ Cardinality(At("enter")) \in Nat
      /\ Cardinality(At("enter")') \in Nat
      /\ Len(queue) \in Nat
      /\ MaxQueue \in Nat
  BY <1>a, AtFinite DEF TypeOK
<1>1. CASE UNCHANGED vars
  BY <1>1, <1>a, NoBlockedQuiet DEF vars, At
<1>2. CASE StartReturns \/ BreakLoops \/ StopReturns \/ Stop
  BY <1>2, <1>a, NoBlockedQuiet
     DEF StartReturns, BreakLoops, StopReturns, Stop, At, TypeOK, Threads, MainAt
<1>3. ASSUME NEW t \in Tasks, RunInline(t)
      PROVE  NoBlockedCaller'
  BY <1>3, <1>a, NoBlockedQuiet DEF RunInline, At
<1>4. ASSUME NEW w \in Workers,
             StartThread(w) \/ Loop(w) \/ TaskReturns(w) \/ TakeWaits(w) \/ TakeNothing(w)
      PROVE  NoBlockedCaller'
  BY <1>4, <1>a, NoBlockedQuiet
     DEF StartThread, Loop, TaskReturns, TakeWaits, TakeNothing, At, TypeOK, Threads
<1>5. ASSUME NEW w \in Workers, TakePops(w)
      PROVE  NoBlockedCaller'
  <2> DEFINE q == [pc EXCEPT ![w] = "body"]
  <2>1. /\ w \in Threads
        /\ q \in [Threads -> WorkerAt \cup MainAt]
        /\ \A u \in Threads : q[u] = "blocked" <=> pc[u] = "blocked"
        /\ \A u \in Threads : q[u] = "enter" <=> pc[u] = "enter"
    BY <1>5, <1>a DEF TakePops, TypeOK, Threads, WorkerAt
  <2>2. Len(queue') = Len(queue) - 1 /\ Len(queue') \in Nat
    BY <1>5, <1>a DEF TakePops, TypeOK
  <2>3. CASE MaxQueue = 0
    BY <2>2, <2>3, <1>b DEF NoBlockedCaller
  <2>4. CASE MaxQueue > 0
    <3>1. pc' \in Signal(q, "blocked", "enter")
      BY <1>5, <2>4 DEF TakePops
    <3>2. CASE (\A u \in Threads : q[u] # "blocked") /\ pc' = q
      BY <3>2 DEF NoBlockedCaller, At
    <3>3. ASSUME NEW s \in Threads, q[s] = "blocked", pc' = [q EXCEPT ![s] = "enter"]
          PROVE  NoBlockedCaller'
      <4>1. /\ At("enter")' = At("enter") \cup {s}
            /\ s \notin At("enter")
            /\ s \in At("blocked")
        BY <2>1, <3>3 DEF At
      <4>2. Cardinality(At("enter")') = Cardinality(At("enter")) + 1
        BY <4>1, AtFinite, FS_AddElement
      <4>3. MaxQueue - Len(queue) <= Cardinality(At("enter"))
        BY <4>1 DEF NoBlockedCaller
      <4> QED
        BY <4>2, <4>3, <2>2, <1>b DEF NoBlockedCaller
    <3> HIDE DEF q
    <3>4. \/ (\A u \in Threads : q[u] # "blocked") /\ pc' = q
          \/ \E s \in Threads : q[s] = "blocked" /\ pc' = [q EXCEPT ![s] = "enter"]
      BY <3>1, SignalCases
    <3> QED
      BY <3>2, <3>3, <3>4
  <2> QED
    BY <2>3, <2>4, <1>b
<1>6. ASSUME NEW th \in Threads, RunWaits(th)
      PROVE  NoBlockedCaller'
  <2>1. MaxQueue - Len(queue') <= 0
    BY <1>6, <1>b DEF RunWaits, isFull
  <2>2. Len(queue') = Len(queue)
    BY <1>6 DEF RunWaits
  <2> QED
    BY <2>1, <2>2, <1>b DEF NoBlockedCaller
<1>7. ASSUME NEW th \in Threads, RunPushes(th)
      PROVE  NoBlockedCaller'
  <2> DEFINE q == [pc EXCEPT ![th] = Resume(th)]
  <2>1. /\ pc[th] = "enter"
        /\ q \in [Threads -> WorkerAt \cup MainAt]
        /\ q[Main] \in MainAt
        /\ \A v \in Workers : q[v] \in WorkerAt
        /\ q[th] \notin {"enter", "blocked"}
    BY <1>7, <1>a DEF RunPushes, Resume, TypeOK, Threads, WorkerAt, MainAt
  <2>2. \A u \in Threads : pc'[u] # q[u] => q[u] = "starved" /\ pc'[u] = "take"
    BY <1>7, <2>1, SignalStarved DEF RunPushes
  <2>3. /\ At("blocked")' = At("blocked")
        /\ At("enter")' = At("enter") \ {th}
        /\ th \in At("enter")
    BY <2>1, <2>2, <1>a DEF At, TypeOK
  <2>4. Cardinality(At("enter")') = Cardinality(At("enter")) - 1
    BY <2>3, AtFinite, FS_RemoveElement
  <2>5. Len(queue') = Len(queue) + 1
    BY <1>7, <1>a DEF RunPushes, TypeOK, HandsMatchPc
  <2> QED
    BY <2>3, <2>4, <2>5, <1>b DEF NoBlockedCaller
<1>8. ASSUME NEW th \in Threads, SpuriousWakeup(th) \/ \E t \in Tasks : CallRun(th, t)
      PROVE  NoBlockedCaller'
  BY <1>8, <1>a, NoBlockedQuiet DEF SpuriousWakeup, CallRun, MayCall, At, TypeOK, Threads
<1> QED
  BY <1>1, <1>2, <1>3, <1>4, <1>5, <1>6, <1>7, <1>8 DEF Next, Run, Take

(* ThreadPool.cpp:71-73, 94-96: no caller sleeps on notFull_ while there   *)
(* is a free place that no awake caller is going to fill.                  *)
THEOREM CallersAreWoken == Spec => []NoBlockedCaller
<1>1. Init => NoBlockedCaller
  BY PoolAssumption DEF Init, NoBlockedCaller, At
<1> QED
  BY <1>1, InvHolds, NextNoBlocked, PTL DEF Spec

(* While a worker sleeps on notEmpty_, every queued task has an awake      *)
(* worker, and while a caller sleeps on notFull_, every free place has an  *)
(* awake caller (Mutex.h:111, ThreadPool.cpp:71-97).                       *)
THEOREM NoWakeupIsLost == Spec => []NoLostWakeup
<1> QED
  BY WorkersAreWoken, CallersAreWoken, PTL DEF NoLostWakeup

-----------------------------------------------------------------------------
(* Every step of the pool is a step of the abstract task queue or leaves   *)
(* its variables alone.                                                    *)
LEMMA NextImplements == Inv /\ [Next]_vars => [Abs!Next]_<<queue, task, finished>>
<1> SUFFICES ASSUME Inv, [Next]_vars
             PROVE  [Abs!Next]_<<queue, task, finished>>
  OBVIOUS
<1> USE DEF Inv
<1>1. CASE UNCHANGED <<queue, task, finished>>
  BY <1>1
<1>2. ASSUME NEW t \in Tasks, RunInline(t)
      PROVE  Abs!Inline(t)
  <2>1. Abs!Fresh(t)
    BY <1>2, PoolAssumption DEF RunInline, OnePlace, Abs!Fresh, QueuedTasks, ActiveTasks
  <2> QED
    BY <1>2, <2>1 DEF RunInline, Abs!Inline
<1>3. ASSUME NEW w \in Workers, TakePops(w)
      PROVE  Abs!Start(w)
  BY <1>3 DEF TakePops, HandsMatchPc, Abs!Start
<1>4. ASSUME NEW w \in Workers, TaskReturns(w)
      PROVE  Abs!Finish(w)
  BY <1>4 DEF TaskReturns, HandsMatchPc, Abs!Finish
<1>5. ASSUME NEW th \in Threads, RunPushes(th)
      PROVE  /\ arg[th] \in Tasks
             /\ Abs!Submit(arg[th])
  <2>1. arg[th] \in CallTasks /\ arg[th] \in Tasks
    BY <1>5 DEF RunPushes, HandsMatchPc, CallTasks, TypeOK
  <2>2. Abs!Fresh(arg[th])
    BY <2>1, PoolAssumption DEF OnePlace, Abs!Fresh, QueuedTasks, ActiveTasks
  <2>3. MaxQueue = 0 \/ Len(queue) < MaxQueue
    BY <1>5, PoolAssumption DEF RunPushes, isFull, TypeOK
  <2> QED
    BY <1>5, <2>1, <2>2, <2>3 DEF RunPushes, Abs!Submit
<1>6. CASE UNCHANGED vars
  BY <1>6, <1>1 DEF vars
<1> QED
  BY <1>1, <1>2, <1>3, <1>4, <1>5, <1>6
     DEF Next, StartReturns, BreakLoops, Stop, StopReturns, StartThread, Loop, Take,
         TakeWaits, TakeNothing, Run, RunWaits, SpuriousWakeup, CallRun, Abs!Next

(* MThreadPool implements the abstract task queue: bounded, first in first *)
(* out, each task executed at most once and by one worker, with callers    *)
(* that block, signals, spurious wakeups and stop() at any moment.         *)
THEOREM Implementation == Spec => ImplementsTaskQueue
<1>1. Init => Abs!Init
  BY DEF Init, Abs!Init
<1> QED
  BY InvHolds, <1>1, NextImplements, PTL DEF Spec, ImplementsTaskQueue, Abs!Spec
=============================================================================
