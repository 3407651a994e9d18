----------------------------- MODULE TaskQueue ------------------------------
(***************************************************************************)
(* What MThreadPool promises its callers: a submitted task waits at most   *)
(* once, in a queue of bounded length; tasks leave the queue in the order  *)
(* in which they entered it; each is executed at most once, by one thread, *)
(* and a thread executes one task at a time.                               *)
(***************************************************************************)
EXTENDS Naturals, Sequences

CONSTANTS Tasks,
          Workers,    \* threads that execute tasks
          MaxQueue,   \* longest queue, 0 when it has no bound
          NoTask

VARIABLES queue,      \* submitted and not started, oldest first
          task,       \* the task each worker executes, or NoTask
          finished

Fresh(t) == /\ \A i \in DOMAIN queue : queue[i] # t
            /\ \A w \in Workers : task[w] # t
            /\ t \notin finished

Init == /\ queue = <<>>
        /\ task = [w \in Workers |-> NoTask]
        /\ finished = {}

Submit(t) ==
  /\ Fresh(t)
  /\ MaxQueue = 0 \/ Len(queue) < MaxQueue
  /\ queue' = Append(queue, t)
  /\ UNCHANGED <<task, finished>>

(* A pool without threads runs the task in the call. *)
Inline(t) ==
  /\ Fresh(t)
  /\ finished' = finished \cup {t}
  /\ UNCHANGED <<queue, task>>

Start(w) ==
  /\ queue # <<>>
  /\ task[w] = NoTask
  /\ task' = [task EXCEPT ![w] = Head(queue)]
  /\ queue' = Tail(queue)
  /\ UNCHANGED finished

Finish(w) ==
  /\ task[w] # NoTask
  /\ finished' = finished \cup {task[w]}
  /\ task' = [task EXCEPT ![w] = NoTask]
  /\ UNCHANGED queue

Next == \/ \E t \in Tasks : Submit(t) \/ Inline(t)
        \/ \E w \in Workers : Start(w) \/ Finish(w)

Spec == Init /\ [][Next]_<<queue, task, finished>>
=============================================================================
