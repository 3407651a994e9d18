----------------------------- MODULE ServerLife -----------------------------
(***************************************************************************)
(* The beginning and the end of the server: MainServer::init starts the    *)
(* pool's threads, each with the handshake of base/Thread.cpp, and submits *)
(* the IO threads' loops and those of RedisPool and TimerManager without   *)
(* waiting for them; serve() accepts at once and ends with "over" on the   *)
(* console; ~MainServer tells the loops to end, deletes the connections    *)
(* without connMutex and joins the pool.                                   *)
(*                                                                         *)
(* The pool is the queue that MThreadPool.tla shows it to be; what happens *)
(* to connections between accept and close is in Connections.tla, with     *)
(* every step of it: here a close is two steps, before and after connMutex *)
(* is taken. What a callback does with a deleted connection is undefined   *)
(* and not followed. Of RedisPool.tla and TimerManager.tla there is what   *)
(* the join depends on: the test of the flag, the wait, and the end.       *)
(***************************************************************************)
EXTENDS Naturals, Sequences, FiniteSets, Vector

CONSTANTS
    NWorkers,       \* POOL_SIZE
    NLoops,         \* IOTHREAD_SIZE, and iothreadSize_ of the configuration
    Conns,          \* TConnection objects
    Null,           \* the pointer that ends a loop
    None            \* nothing

ASSUME LifeAssumption ==
    /\ NWorkers \in Nat \ {0}
    /\ NLoops \in Nat \ {0}
    /\ {Null, None} \cap Conns = {}
    /\ None \notin 1 .. NLoops + 2

Workers == 1 .. NWorkers
Loops == 1 .. NLoops

(* What init() submits, in its order *)
Redis == NLoops + 1
Timers == NLoops + 2
Services == {Redis, Timers}
TaskIds == 1 .. NLoops + 2

VARIABLES
    mpc,        \* where the main thread is
    step,       \* the index of the loop it is in
    started,    \* Thread::started_ of each thread
    tid,        \* whether its tid_ is set
    count,      \* count_ of its latch
    wpc,        \* where each worker is
    task,       \* the loop it runs, of an IO thread or a service
    running,    \* running_ of the pool
    queue,      \* queue_ of the pool
    lpc,        \* where each loop is
    inbox,      \* what is in its pipe
    closing,    \* the connection its callback closes
    spc,        \* where the loops of RedisPool and TimerManager are
    stopped,    \* those whose flag is set: RedisPool::stop, TimerManager::bexit_
    sel,        \* selectIOThread_
    active,     \* activeTConnectionVector
    reuse,      \* ReuseConnectionQueue
    conn,       \* conn of handlerConn
    ioOf,       \* iothread_ of each connection made
    based,      \* the connections whose base_ is not NULL
    enabled,    \* the connections that are listened to
    deletes,    \* how often each was deleted
    unsent,     \* history: notify() found no pipe
    dropped,    \* history: isActive() said no
    late        \* history: returned after ~MainServer began to collect

threads == <<started, tid, count>>
pool == <<wpc, task, running, queue>>
loops == <<lpc, inbox, closing>>
services == <<spc, stopped>>
lists == <<active, reuse>>
objects == <<ioOf, based, enabled, deletes>>
history == <<unsent, dropped, late>>
vars == <<mpc, step, threads, pool, loops, services, sel, lists, conn, objects, history>>

Members(s) == {s[i] : i \in DOMAIN s}
HasBase(l) == lpc[l] # "unrun"
HasPipe(l) == lpc[l] \notin {"unrun", "begun"}

Init ==
    /\ mpc = "start" /\ step = 1
    /\ started = [w \in Workers |-> FALSE]
    /\ tid = [w \in Workers |-> FALSE]
    /\ count = [w \in Workers |-> 1]
    /\ wpc = [w \in Workers |-> "unborn"]
    /\ task = [w \in Workers |-> None]
    /\ running = TRUE /\ queue = <<>>
    /\ lpc = [l \in Loops |-> "unrun"]
    /\ inbox = [l \in Loops |-> <<>>]
    /\ closing = [l \in Loops |-> None]
    /\ spc = [s \in Services |-> "test"] /\ stopped = {}
    /\ sel = 0
    /\ active = <<>> /\ reuse = <<>> /\ conn = None
    /\ ioOf = [c \in Conns |-> None]
    /\ based = {} /\ enabled = {} /\ unsent = {} /\ dropped = {} /\ late = {}
    /\ deletes = [c \in Conns |-> 0]

Goto(place, index) == mpc' = place /\ step' = index

----------------------------------------------------------------------------
(* MThreadPool::start, Thread::start, CountDownLatch::wait *)

CreateThread ==
    /\ mpc = "start" /\ step \in Workers
    /\ started' = [started EXCEPT ![step] = TRUE]
    /\ wpc' = [wpc EXCEPT ![step] = "born"]
    /\ Goto("latch", step)
    /\ UNCHANGED <<tid, count, task, running, queue, loops, services, sel, lists, conn, objects, history>>

(* pthread_create fails; the pool keeps the thread object all the same. *)
CreateFails ==
    /\ mpc = "start" /\ step \in Workers
    /\ Goto("start", step + 1)
    /\ UNCHANGED <<threads, pool, loops, services, sel, lists, conn, objects, history>>

(* The test of count_ with the latch's mutex *)
LatchWait ==
    /\ mpc = "latch"
    /\ IF count[step] > 0 THEN Goto("asleep", step) ELSE Goto("check", step)
    /\ UNCHANGED <<threads, pool, loops, services, sel, lists, conn, objects, history>>

Spurious ==
    /\ mpc = "asleep"
    /\ Goto("latch", step)
    /\ UNCHANGED <<threads, pool, loops, services, sel, lists, conn, objects, history>>

(* assert(tid_ > 0) *)
ThreadStarted ==
    /\ mpc = "check"
    /\ Goto("start", step + 1)
    /\ UNCHANGED <<threads, pool, loops, services, sel, lists, conn, objects, history>>

(* Mutant: the latch is counted down before tid_ is written. *)
SetTid_Late(w) ==
    /\ wpc[w] = "born"
    /\ count' = [count EXCEPT ![w] = 0]
    /\ wpc' = [wpc EXCEPT ![w] = "named"]
    /\ UNCHANGED <<mpc, step, started, tid, task, running, queue, loops, services, sel, lists, conn, objects, history>>

(* ThreadData::runInThread *)
SetTid(w) ==
    /\ wpc[w] = "born"
    /\ tid' = [tid EXCEPT ![w] = TRUE]
    /\ wpc' = [wpc EXCEPT ![w] = "named"]
    /\ UNCHANGED <<mpc, step, started, count, task, running, queue, loops, services, sel, lists, conn, objects, history>>

CountDown(w) ==
    /\ wpc[w] = "named"
    /\ count' = [count EXCEPT ![w] = 0]
    /\ wpc' = [wpc EXCEPT ![w] = "pool"]
    /\ IF mpc = "asleep" /\ step = w THEN Goto("latch", step)
                                     ELSE UNCHANGED <<mpc, step>>
    /\ UNCHANGED <<started, tid, task, running, queue, loops, services, sel, lists, conn, objects, history>>

----------------------------------------------------------------------------
(* The workers of the pool *)

TestRunning(w) ==
    /\ wpc[w] = "pool"
    /\ wpc' = [wpc EXCEPT ![w] = IF running THEN "take" ELSE "exited"]
    /\ UNCHANGED <<mpc, step, threads, task, running, queue, loops, services, sel, lists, conn, objects, history>>

Take(w) ==
    /\ wpc[w] = "take"
    /\ queue # <<>>
    /\ queue' = Tail(queue)
    /\ task' = [task EXCEPT ![w] = queue[1]]
    /\ wpc' = [wpc EXCEPT ![w] = "body"]
    /\ UNCHANGED <<mpc, step, threads, running, loops, services, sel, lists, conn, objects, history>>

TakeNothing(w) ==
    /\ wpc[w] = "take"
    /\ queue = <<>> /\ ~ running
    /\ wpc' = [wpc EXCEPT ![w] = "pool"]
    /\ UNCHANGED <<mpc, step, threads, task, running, queue, loops, services, sel, lists, conn, objects, history>>

TaskReturns(w) ==
    /\ wpc[w] = "body"
    /\ IF task[w] \in Services THEN spc[task[w]] = "ended" ELSE lpc[task[w]] = "ended"
    /\ wpc' = [wpc EXCEPT ![w] = "pool"]
    /\ task' = [task EXCEPT ![w] = None]
    /\ UNCHANGED <<mpc, step, threads, running, queue, loops, services, sel, lists, conn, objects, history>>

----------------------------------------------------------------------------
(* IOThread::runInThread *)

RunMoves(l, from, to) ==
    /\ lpc[l] = from
    /\ lpc' = [lpc EXCEPT ![l] = to]
    /\ UNCHANGED <<mpc, step, threads, pool, inbox, closing, services, sel, lists, conn, objects, history>>

(* threadId_ and base_ *)
RunBegins(w) ==
    wpc[w] = "body" /\ task[w] \in Loops /\ RunMoves(task[w], "unrun", "begun")

createNotificationPipe(l) == RunMoves(l, "begun", "piped")

(* Mutant: the pipe is made once more before the event is added. *)
AddEvent_NewPipe(l) ==
    /\ lpc[l] = "piped"
    /\ lpc' = [lpc EXCEPT ![l] = "dispatch"]
    /\ inbox' = [inbox EXCEPT ![l] = <<>>]
    /\ UNCHANGED <<mpc, step, threads, pool, closing, services, sel, lists, conn, objects, history>>

(* event_add, and event_base_dispatch *)
AddEvent(l) == RunMoves(l, "piped", "dispatch")

(* isActive searches without connMutex: it may miss an element while       *)
(* push_back or the erase of another loop moves the vector.                *)
Moving(l) == mpc = "push" \/ \E m \in Loops \ {l} : lpc[m] = "close"

IsActive(l, c) ==
    IF c \notin Members(active) THEN {FALSE}
    ELSE IF Moving(l) THEN BOOLEAN ELSE {TRUE}

(* One turn of notifyHandler. A pointer in the pipe of a connection that   *)
(* is in the vector leads to transition(), which fails to enable a         *)
(* bufferevent without a base.                                             *)
Receive(l) ==
    LET c == inbox[l][1] IN
    /\ lpc[l] = "dispatch"
    /\ inbox[l] # <<>>
    /\ inbox' = [inbox EXCEPT ![l] = Tail(@)]
    /\ IF c = Null
       THEN lpc' = [lpc EXCEPT ![l] = "ended"] /\ UNCHANGED <<enabled, dropped>>
       ELSE /\ \E found \in IsActive(l, c) :
                 /\ enabled' = IF found /\ c \in based /\ deletes[c] = 0
                               THEN enabled \cup {c} ELSE enabled
                 /\ dropped' = IF found THEN dropped ELSE dropped \cup {c}
            /\ UNCHANGED lpc
    /\ UNCHANGED <<mpc, step, threads, pool, closing, services, sel, lists, conn, ioOf, based, deletes, unsent, late>>

(* read_request submits to a full queue from which nobody will take again: *)
(* run() waits for ever (MThreadPool!RunWaits). A run() that comes back is *)
(* a delay of the loop only; so is, up to this moment, one that began to   *)
(* wait before. Whether the workers will take again is left open.          *)
RunWaits(l) ==
    /\ mpc = "collect"
    /\ \E c \in enabled : ioOf[c] = l
    /\ RunMoves(l, "dispatch", "run")

(* error_cb: close() frees the bufferevent, ... *)
HangUp(l, c) ==
    /\ lpc[l] = "dispatch"
    /\ c \in enabled /\ ioOf[c] = l
    /\ enabled' = enabled \ {c}
    /\ closing' = [closing EXCEPT ![l] = c]
    /\ lpc' = [lpc EXCEPT ![l] = "close"]
    /\ UNCHANGED <<mpc, step, threads, pool, inbox, services, sel, lists, conn, ioOf, based, deletes, history>>

(* Mutant: the connection stays in the vector. *)
returnTConnection_KeepActive(l) ==
    /\ lpc[l] = "close"
    /\ mpc \notin {"send", "push"}
    /\ reuse' = Append(reuse, closing[l])
    /\ late' = IF mpc \in {"collect", "delete", "stop", "join", "done"}
               THEN late \cup {closing[l]} ELSE late
    /\ closing' = [closing EXCEPT ![l] = None]
    /\ lpc' = [lpc EXCEPT ![l] = "dispatch"]
    /\ UNCHANGED <<mpc, step, threads, pool, inbox, services, sel, active, conn, objects, unsent, dropped>>

(* ... and returnTConnection takes connMutex, which handlerConn holds. *)
returnTConnection(l) ==
    /\ lpc[l] = "close"
    /\ mpc \notin {"send", "push"}
    /\ active' = EraseAll(active, closing[l])
    /\ reuse' = Append(reuse, closing[l])
    /\ late' = IF mpc \in {"collect", "delete", "stop", "join", "done"}
               THEN late \cup {closing[l]} ELSE late
    /\ closing' = [closing EXCEPT ![l] = None]
    /\ lpc' = [lpc EXCEPT ![l] = "dispatch"]
    /\ UNCHANGED <<mpc, step, threads, pool, inbox, services, sel, conn, objects, unsent, dropped>>

----------------------------------------------------------------------------
(* RedisPool::runInThread and TimerManager::runInThread with no timer in   *)
(* use, as nobody grabs one. Between the test of the flag and the wait     *)
(* ("window") a notification is lost ("missed"), and the wait that follows *)
(* is one that nobody means to end ("forgotten").                          *)

ServiceMoves(s, from, to) ==
    /\ spc[s] = from
    /\ spc' = [spc EXCEPT ![s] = to]
    /\ UNCHANGED <<mpc, step, threads, pool, loops, stopped, sel, lists, conn, objects, history>>

ServiceTests(w) ==
    LET s == task[w] IN
    /\ wpc[w] = "body" /\ s \in Services
    /\ ServiceMoves(s, "test", IF s \in stopped THEN "ended" ELSE "window")

ServiceWaits(w) ==
    LET s == task[w] IN
    /\ wpc[w] = "body" /\ s \in Services
    /\ ServiceMoves(s, "window", "asleep") \/ ServiceMoves(s, "missed", "forgotten")

(* pop_front does not wait when a broken connection is queued. *)
PopsAtOnce(w) ==
    /\ wpc[w] = "body" /\ task[w] = Redis
    /\ \E from \in {"window", "missed"} : ServiceMoves(Redis, from, "test")

(* A connection breaks, or the wakeup is spurious. *)
ServiceWakes(s) == \E from \in {"asleep", "forgotten"} : ServiceMoves(s, from, "test")

----------------------------------------------------------------------------
(* MainServer::init, after the pool has been started *)

StartReturns ==
    /\ mpc = "start" /\ step \notin Workers
    /\ Goto("submit", 1)
    /\ UNCHANGED <<threads, pool, loops, services, sel, lists, conn, objects, history>>

Submit ==
    /\ mpc = "submit" /\ step \in TaskIds
    /\ queue' = Append(queue, step)
    /\ Goto("submit", step + 1)
    /\ UNCHANGED <<threads, wpc, task, running, loops, services, sel, lists, conn, objects, history>>

InitDone ==
    /\ mpc = "submit" /\ step \notin TaskIds
    /\ Goto("listen", 1)
    /\ UNCHANGED <<threads, pool, loops, services, sel, lists, conn, objects, history>>

(* serve(): clients are taken whatever has become of the loops. *)
Serve ==
    /\ mpc = "listen"
    /\ Goto("serve", 1)
    /\ UNCHANGED <<threads, pool, loops, services, sel, lists, conn, objects, history>>

(* The port is taken: assert(false), with the workers running. *)
ListenFails ==
    /\ mpc = "listen"
    /\ Goto("aborted", 1)
    /\ UNCHANGED <<threads, pool, loops, services, sel, lists, conn, objects, history>>

(* The object that new allocates: which one makes no difference. *)
Fresh ==
    LET unmade == {c \in Conns : ioOf[c] = None}
    IN IF unmade = {} THEN {} ELSE {CHOOSE c \in unmade : TRUE}

(* handlerConn with connMutex: a new connection copies the base_ of its IO *)
(* thread, a used one keeps what it has; ...                               *)
AcceptNew(c) ==
    /\ mpc = "serve" /\ reuse = <<>>
    /\ ioOf[c] = None
    /\ sel' = (sel + 1) % NLoops
    /\ ioOf' = [ioOf EXCEPT ![c] = sel' + 1]
    /\ based' = IF HasBase(sel' + 1) THEN based \cup {c} ELSE based
    /\ conn' = c
    /\ Goto("send", 1)
    /\ UNCHANGED <<threads, pool, loops, services, lists, enabled, deletes, history>>

AcceptReuse ==
    /\ mpc = "serve" /\ reuse # <<>>
    /\ conn' = reuse[1]
    /\ reuse' = Tail(reuse)
    /\ Goto("send", 1)
    /\ unsent' = unsent \ {conn'} /\ dropped' = dropped \ {conn'}
    /\ UNCHANGED <<threads, pool, loops, services, sel, active, objects, late>>

notify(l, message) == inbox' = [inbox EXCEPT ![l] = Append(@, message)]

(* ... notify() does nothing without a pipe; ... *)
AcceptSends ==
    /\ mpc = "send"
    /\ IF HasPipe(ioOf[conn]) THEN notify(ioOf[conn], conn) /\ UNCHANGED unsent
       ELSE unsent' = unsent \cup {conn} /\ UNCHANGED inbox
    /\ Goto("push", 1)
    /\ UNCHANGED <<threads, pool, lpc, closing, services, sel, lists, conn, objects, dropped, late>>

AcceptPushes ==
    /\ mpc = "push"
    /\ active' = Append(active, conn)
    /\ conn' = None
    /\ Goto("serve", 1)
    /\ UNCHANGED <<threads, pool, loops, services, sel, reuse, objects, history>>

(* "over" on the console *)
Over ==
    /\ mpc = "serve"
    /\ Goto("break", 1)
    /\ UNCHANGED <<threads, pool, loops, services, sel, lists, conn, objects, history>>

----------------------------------------------------------------------------
(* ~MainServer *)

BreakLoop ==
    /\ mpc = "break" /\ step \in Loops
    /\ IF HasPipe(step) THEN notify(step, Null) ELSE UNCHANGED inbox
    /\ Goto("break", step + 1)
    /\ UNCHANGED <<threads, pool, lpc, closing, services, sel, lists, conn, objects, history>>

BreakDone ==
    /\ mpc = "break" /\ step \notin Loops
    /\ Goto("tell", Redis)
    /\ UNCHANGED <<threads, pool, loops, services, sel, lists, conn, objects, history>>

(* RedisPool::exit and TimerManager::stop set the flag ...                 *)
Tell ==
    /\ mpc = "tell" /\ step \in Services
    /\ stopped' = stopped \cup {step}
    /\ Goto("wake", step)
    /\ UNCHANGED <<threads, pool, loops, spc, sel, lists, conn, objects, history>>

(* Mutant: nobody is notified. *)
Wake_Silent ==
    /\ mpc = "wake"
    /\ spc' = [spc EXCEPT ![step] = IF @ = "window" THEN "missed" ELSE @]
    /\ Goto("tell", step + 1)
    /\ UNCHANGED <<threads, pool, loops, stopped, sel, lists, conn, objects, history>>

(* ... and notify whoever waits at that moment. *)
Wake ==
    /\ mpc = "wake"
    /\ spc' = [spc EXCEPT ![step] = CASE @ = "asleep" -> "test"
                                      [] @ = "window" -> "missed"
                                      [] OTHER -> @]
    /\ Goto("tell", step + 1)
    /\ UNCHANGED <<threads, pool, loops, stopped, sel, lists, conn, objects, history>>

TellDone ==
    /\ mpc = "tell" /\ step \notin Services
    /\ Goto("collect", 1)
    /\ UNCHANGED <<threads, pool, loops, services, sel, lists, conn, objects, history>>

(* The loop over the vector, whose size is read at each turn *)
Collect ==
    /\ mpc = "collect" /\ step <= Len(active)
    /\ reuse' = Append(reuse, active[step])
    /\ Goto("collect", step + 1)
    /\ UNCHANGED <<threads, pool, loops, services, sel, active, conn, objects, history>>

CollectDone ==
    /\ mpc = "collect" /\ step > Len(active)
    /\ Goto("delete", 1)
    /\ UNCHANGED <<threads, pool, loops, services, sel, lists, conn, objects, history>>

Delete ==
    /\ mpc = "delete" /\ reuse # <<>>
    /\ reuse' = Tail(reuse)
    /\ deletes' = [deletes EXCEPT ![reuse[1]] = @ + 1]
    /\ enabled' = enabled \ {reuse[1]}
    /\ UNCHANGED <<mpc, step, threads, pool, loops, services, sel, active, conn, ioOf, based, history>>

DeleteDone ==
    /\ mpc = "delete" /\ reuse = <<>>
    /\ Goto("stop", 1)
    /\ UNCHANGED <<threads, pool, loops, services, sel, lists, conn, objects, history>>

StopPool ==
    /\ mpc = "stop"
    /\ running' = FALSE
    /\ Goto("join", 1)
    /\ UNCHANGED <<threads, wpc, task, queue, loops, services, sel, lists, conn, objects, history>>

(* Mutant: a thread is detached, and not waited for. *)
Join_Detach ==
    /\ mpc = "join" /\ step \in Workers
    /\ IF started[step] THEN Goto("join", step + 1) ELSE Goto("aborted", step)
    /\ UNCHANGED <<threads, pool, loops, services, sel, lists, conn, objects, history>>

(* assert(started_) and pthread_join *)
Join ==
    /\ mpc = "join" /\ step \in Workers
    /\ started[step] => wpc[step] = "exited"
    /\ IF started[step] THEN Goto("join", step + 1) ELSE Goto("aborted", step)
    /\ UNCHANGED <<threads, pool, loops, services, sel, lists, conn, objects, history>>

Joined ==
    /\ mpc = "join" /\ step \notin Workers
    /\ Goto("free", 1)
    /\ UNCHANGED <<threads, pool, loops, services, sel, lists, conn, objects, history>>

(* ~IOThread, when the members of MainServer go: the base and the pipe. *)
FreeLoop ==
    /\ mpc = "free" /\ step \in Loops
    /\ lpc' = [lpc EXCEPT ![step] = "freed"]
    /\ inbox' = [inbox EXCEPT ![step] = <<>>]
    /\ Goto("free", step + 1)
    /\ UNCHANGED <<threads, pool, closing, services, sel, lists, conn, objects, history>>

FreeDone ==
    /\ mpc = "free" /\ step \notin Loops
    /\ Goto("done", 1)
    /\ UNCHANGED <<threads, pool, loops, services, sel, lists, conn, objects, history>>

----------------------------------------------------------------------------
MainStep ==
    \/ CreateThread \/ LatchWait \/ ThreadStarted \/ StartReturns
    \/ Submit \/ InitDone \/ Serve \/ AcceptSends \/ AcceptPushes
    \/ BreakLoop \/ BreakDone \/ Tell \/ Wake \/ TellDone
    \/ Collect \/ CollectDone \/ Delete \/ DeleteDone
    \/ StopPool \/ Join \/ Joined \/ FreeLoop \/ FreeDone

WorkerStep(w) ==
    \/ SetTid(w) \/ CountDown(w) \/ RunBegins(w)
    \/ TestRunning(w) \/ Take(w) \/ TakeNothing(w) \/ TaskReturns(w)
    \/ ServiceTests(w) \/ ServiceWaits(w) \/ PopsAtOnce(w)

LoopStep(l) ==
    createNotificationPipe(l) \/ AddEvent(l) \/ Receive(l) \/ returnTConnection(l)

(* After an assertion has failed the process is gone. *)
Next ==
    /\ mpc # "aborted"
    /\ \/ MainStep
       \/ CreateFails \/ ListenFails \/ Spurious \/ Over \/ AcceptReuse
       \/ \E c \in Fresh : AcceptNew(c)
       \/ \E l \in Loops : RunWaits(l) \/ \E c \in Conns : HangUp(l, c)
       \/ \E s \in Services : ServiceWakes(s)
       \/ \E w \in Workers : WorkerStep(w)
       \/ \E l \in Loops : LoopStep(l)

Spec == Init /\ [][Next]_vars

(* Every thread is scheduled. Clients, the console, failures and spurious  *)
(* wakeups may come or not.                                                *)
FairSpec ==
    /\ Spec
    /\ WF_vars(mpc # "aborted" /\ MainStep)
    /\ \A w \in Workers : WF_vars(mpc # "aborted" /\ WorkerStep(w))
    /\ \A l \in Loops : WF_vars(mpc # "aborted" /\ LoopStep(l))

----------------------------------------------------------------------------
(* Properties *)

TypeOK ==
    /\ mpc \in {"start", "latch", "asleep", "check", "submit", "listen", "serve", "send",
                "push", "break", "tell", "wake", "collect", "delete", "stop", "join",
                "free", "done", "aborted"}
    /\ step \in Nat \ {0}
    /\ started \in [Workers -> BOOLEAN] /\ tid \in [Workers -> BOOLEAN]
    /\ count \in [Workers -> 0 .. 1]
    /\ wpc \in [Workers -> {"unborn", "born", "named", "pool", "take", "body", "exited"}]
    /\ task \in [Workers -> TaskIds \cup {None}]
    /\ running \in BOOLEAN /\ queue \in Seq(TaskIds)
    /\ lpc \in [Loops -> {"unrun", "begun", "piped", "dispatch", "run", "close", "ended", "freed"}]
    /\ spc \in [Services -> {"test", "window", "asleep", "missed", "forgotten", "ended"}]
    /\ stopped \subseteq Services
    /\ inbox \in [Loops -> Seq(Conns \cup {Null})]
    /\ closing \in [Loops -> Conns \cup {None}]
    /\ sel \in 0 .. (NLoops - 1)
    /\ active \in Seq(Conns) /\ reuse \in Seq(Conns)
    /\ conn \in Conns \cup {None}
    /\ ioOf \in [Conns -> Loops \cup {None}]
    /\ deletes \in [Conns -> 0 .. 2]
    /\ based \cup enabled \cup unsent \cup dropped \cup late \subseteq Conns

(* assert(tid_ > 0) in Thread::start (Thread.cpp:162): wait() does not     *)
(* return before the new thread has written tid_, also when it wakes up    *)
(* spuriously or does not sleep at all.                                    *)
TidKnown == mpc = "check" => tid[step]

(* A client that is not listened to has one of three reasons: its          *)
(* connection was made before the loop's base (TConnection.cpp:56, which   *)
(* holds for its later clients too), or its pointer was sent before there  *)
(* was a pipe (IOThread.cpp:146), or isActive did not find it: before      *)
(* push_back (MainServer.cpp:180, 182) or while the vector moved (:198).   *)
(* Nothing that was sent gets lost.                                        *)
UnservedHasReason ==
    \A c \in Members(active) :
        \/ c \in enabled
        \/ c \in Members(inbox[ioOf[c]]) \/ closing[ioOf[c]] = c
        \/ c \notin based \/ c \in unsent \/ c \in dropped
        \/ deletes[c] > 0

(* No client is lost on its way to its loop, while loops start and end.    *)
ClientsAccounted == TypeOK /\ UnservedHasReason

(* ~MainServer (MainServer.cpp:122-132) deletes every connection once, as  *)
(* long as no close() gets its turn while it collects and deletes them;    *)
(* and whatever happens, only a connection that is returned then can be    *)
(* deleted twice.                                                          *)
DeletedOnce ==
    mpc \in {"stop", "join", "free", "done", "aborted"} =>
        /\ late = {} => \A c \in Conns : deletes[c] = (IF ioOf[c] = None THEN 0 ELSE 1)
        /\ \A c \in Conns : deletes[c] > 1 => c \in late

(* An event base and its pipe are freed (IOThread.cpp:43) only when no     *)
(* worker runs the loop or has it in hand, and no connection that is still *)
(* listened to was made for it: all were deleted before. (A close() that   *)
(* erases from the vector while ~MainServer walks it makes it pass one by.)*)
FreedAfterUse ==
    \A l \in Loops : lpc[l] = "freed" =>
        /\ \A w \in Workers : task[w] # l
        /\ late = {} => \A c \in enabled : ioOf[c] = l => deletes[c] > 0

(* init() returns: no thread's signal is missed by the latch.              *)
InitReturns == <>(mpc = "listen")

(* Two ways in which the join never ends: a service whose notification     *)
(* came between its test and its wait, and a loop that waits in run().     *)
Forgotten == \E s \in Services : spc[s] = "forgotten"
StuckInRun == \E l \in Loops : lpc[l] = "run"

(* Once every loop has its pipe, the main thread joins all threads         *)
(* (MainServer.cpp:111-134, ThreadPool.cpp:53), unless one could not be    *)
(* created, whose join() asserts, or it waits for ever for a thread in one *)
(* of these two ways: there is no third one. (A loop that has no pipe yet  *)
(* does not hear of the end and holds the join as well.)                   *)
ShutdownReturns ==
    (mpc = "break" /\ step = 1 /\ \A l \in Loops : HasPipe(l))
        ~> (mpc \in {"done", "aborted"} \/ [](mpc = "join" /\ (Forgotten \/ StuckInRun)))

(* The server gets through its start, and through its end.                 *)
StartAndEnd == InitReturns /\ ShutdownReturns
=============================================================================
