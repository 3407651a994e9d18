----------------------------- MODULE RedisPool ------------------------------
(***************************************************************************)
(* Cedis: RedisPool, Redis and Queue_s.                                    *)
(*                                                                         *)
(* A thread that needs Redis takes a connection from the pool in turn      *)
(* (grabCedis, which returns a connection and not its ownership) and runs  *)
(* a command on it under the mutex of the connection.  When the command    *)
(* fails, it marks the connection unusable and moves it to a queue; one    *)
(* pool thread (runInThread) takes connections from that queue, reconnects *)
(* them, without their mutex, and marks them usable.                       *)
(*                                                                         *)
(* A critical section of the queue is one step.  The others are not: a     *)
(* command takes time, and grabCedis keeps the mutex of the pool until it  *)
(* has found a usable connection.                                          *)
(***************************************************************************)
EXTENDS Naturals, Sequences

CONSTANTS NConns,      \* redisVec.size() after init(): the slots are 0..NConns-1
          Users,       \* the threads that run commands
          Null

Conns == 0..(NConns - 1)

(* init() keeps the connections that succeed; grabCedis divides by their   *)
(* number.                                                                 *)
ASSUME RedisAssumption == NConns \in Nat \ {0} /\ Null \notin Users \cup Conns

VARIABLES useable,     \* Redis::useable
          linked,      \* connections whose redisContext has no error
          mutex,       \* Redis::mutex_ of each connection: who has it
          poolMutex,   \* RedisPool::mutex_
          idx,         \* the counter of grabCedis, modulo NConns
          queue,       \* RedisPool::queue
          stop,        \* RedisPool::stop
          pc,          \* where each user is
          held,        \* the connection each user has grabbed
          rpc,         \* where the thread in runInThread is
          tmp,         \* ... the connection it has taken from the queue
          waking       \* exit() has set stop and not yet called wake_all

userVars == <<poolMutex, idx, pc, held>>
threadVars == <<rpc, tmp>>
exitVars == <<stop, waking>>
vars == <<useable, linked, mutex, queue, userVars, threadVars, exitVars>>

Queued == {queue[i] : i \in DOMAIN queue}

Init ==
  /\ useable = [r \in Conns |-> TRUE] /\ linked = Conns
  /\ mutex = [r \in Conns |-> Null] /\ poolMutex = Null
  /\ idx = 0 /\ queue = <<>> /\ stop = FALSE /\ waking = FALSE
  /\ pc = [u \in Users |-> "idle"] /\ held = [u \in Users |-> Null]
  /\ rpc = "loop" /\ tmp = Null

-----------------------------------------------------------------------------
(* The Redis server or the network breaks a connection. *)
Drop(r) ==
  /\ linked' = linked \ {r}
  /\ UNCHANGED <<useable, mutex, queue, userVars, threadVars, exitVars>>

-----------------------------------------------------------------------------
(* Users.  grabCedis takes the mutex of the pool ... *)
Grab(u) ==
  /\ pc[u] = "idle"
  /\ poolMutex = Null
  /\ poolMutex' = u
  /\ pc' = [pc EXCEPT ![u] = "look"]
  /\ UNCHANGED <<useable, linked, mutex, queue, idx, held, threadVars, exitVars>>

(* ... and looks at one connection after the other until one is usable. *)
Look(u) ==
  /\ pc[u] = "look"
  /\ idx' = (idx + 1) % NConns
  /\ IF useable[idx]
     THEN /\ held' = [held EXCEPT ![u] = idx]
          /\ poolMutex' = Null
          /\ pc' = [pc EXCEPT ![u] = "grabbed"]
     ELSE UNCHANGED <<held, poolMutex, pc>>
  /\ UNCHANGED <<useable, linked, mutex, queue, threadVars, exitVars>>

(* executeCommand or run, with the mutex of the connection: it has become  *)
(* unusable since it was grabbed.                                          *)
Refused(u) ==
  /\ pc[u] = "grabbed"
  /\ mutex[held[u]] = Null /\ ~useable[held[u]]
  /\ pc' = [pc EXCEPT ![u] = "idle"]
  /\ held' = [held EXCEPT ![u] = Null]
  /\ UNCHANGED <<useable, linked, mutex, poolMutex, idx, queue, threadVars, exitVars>>

(* A command that begins without looking at useable. *)
Begin_Unchecked(u) ==
  /\ pc[u] = "grabbed"
  /\ mutex[held[u]] = Null
  /\ mutex' = [mutex EXCEPT ![held[u]] = u]
  /\ \E p \in {"command", "ping"} : pc' = [pc EXCEPT ![u] = p]
  /\ UNCHANGED <<useable, linked, poolMutex, idx, held, queue, threadVars, exitVars>>

(* ... or it is usable: executeCommand sends its command, run a ping. *)
Begin(u) ==
  /\ pc[u] = "grabbed"
  /\ mutex[held[u]] = Null /\ useable[held[u]]
  /\ mutex' = [mutex EXCEPT ![held[u]] = u]
  /\ \E p \in {"command", "ping"} : pc' = [pc EXCEPT ![u] = p]
  /\ UNCHANGED <<useable, linked, poolMutex, idx, held, queue, threadVars, exitVars>>

(* The reply has come, and the mutex is released. *)
Done(u) ==
  /\ pc[u] = "command" /\ held[u] \in linked
  /\ mutex' = [mutex EXCEPT ![held[u]] = Null]
  /\ pc' = [pc EXCEPT ![u] = "idle"]
  /\ held' = [held EXCEPT ![u] = Null]
  /\ UNCHANGED <<useable, linked, poolMutex, idx, queue, threadVars, exitVars>>

(* run: the ping was answered; the command follows. *)
PingAnswered(u) ==
  /\ pc[u] = "ping" /\ held[u] \in linked
  /\ pc' = [pc EXCEPT ![u] = "reply"]
  /\ UNCHANGED <<useable, linked, mutex, poolMutex, idx, held, queue, threadVars, exitVars>>

(* run: get_reply, which does not look whether the connection has failed   *)
(* (its reply is uninitialised then; it is not used further here).         *)
GetReply(u) ==
  /\ pc[u] = "reply"
  /\ mutex' = [mutex EXCEPT ![held[u]] = Null]
  /\ pc' = [pc EXCEPT ![u] = "idle"]
  /\ held' = [held EXCEPT ![u] = Null]
  /\ UNCHANGED <<useable, linked, poolMutex, idx, queue, threadVars, exitVars>>

(* No reply: the connection is marked unusable ... *)
Fail(u) ==
  /\ pc[u] \in {"command", "ping"} /\ held[u] \notin linked
  /\ useable' = [useable EXCEPT ![held[u]] = FALSE]
  /\ pc' = [pc EXCEPT ![u] = "move"]
  /\ UNCHANGED <<linked, mutex, poolMutex, idx, held, queue, threadVars, exitVars>>

(* A push that does not notify. *)
Move_Silent(u) ==
  /\ pc[u] = "move"
  /\ queue' = Append(queue, held[u])
  /\ mutex' = [mutex EXCEPT ![held[u]] = Null]
  /\ pc' = [pc EXCEPT ![u] = "idle"]
  /\ held' = [held EXCEPT ![u] = Null]
  /\ UNCHANGED <<useable, linked, poolMutex, idx, threadVars, exitVars>>

(* ... and moved to the queue, whose push notifies; then the mutex is      *)
(* released.                                                               *)
Move(u) ==
  /\ pc[u] = "move"
  /\ queue' = Append(queue, held[u])
  /\ rpc' = IF rpc = "asleep" THEN "woken" ELSE rpc
  /\ mutex' = [mutex EXCEPT ![held[u]] = Null]
  /\ pc' = [pc EXCEPT ![u] = "idle"]
  /\ held' = [held EXCEPT ![u] = Null]
  /\ UNCHANGED <<useable, linked, poolMutex, idx, tmp, exitVars>>

-----------------------------------------------------------------------------
(* The thread in runInThread: while (!stop). *)
Loop ==
  /\ rpc = "loop"
  /\ rpc' = IF stop THEN "exited" ELSE "pop"
  /\ UNCHANGED <<useable, linked, mutex, queue, userVars, tmp, exitVars>>

(* Queue_s::pop_front on an empty queue: wait, once. *)
PopWaits ==
  /\ rpc = "pop" /\ queue = <<>>
  /\ rpc' = "asleep"
  /\ UNCHANGED <<useable, linked, mutex, queue, userVars, tmp, exitVars>>

SpuriousWakeup ==
  /\ rpc = "asleep"
  /\ rpc' = "woken"
  /\ UNCHANGED <<useable, linked, mutex, queue, userVars, tmp, exitVars>>

(* pop_front takes the front.  *)
Pop ==
  /\ rpc \in {"pop", "woken"} /\ queue # <<>>
  /\ tmp' = Head(queue)
  /\ queue' = Tail(queue)
  /\ rpc' = "reconnect"
  /\ UNCHANGED <<useable, linked, mutex, userVars, exitVars>>

(* pop_front has been woken for nothing: bstat is false. *)
PopNothing ==
  /\ rpc = "woken" /\ queue = <<>>
  /\ rpc' = "loop"
  /\ UNCHANGED <<useable, linked, mutex, queue, userVars, tmp, exitVars>>

(* A reuseCedis that marks the connection usable before it reconnects. *)
Reconnect_Late ==
  /\ rpc = "reconnect"
  /\ useable' = [useable EXCEPT ![tmp] = TRUE]
  /\ linked' \in {linked, linked \cup {tmp}}
  /\ rpc' = "enable"
  /\ UNCHANGED <<mutex, queue, userVars, tmp, exitVars>>

(* reuseCedis: redisReconnect, which may fail. *)
Reconnect ==
  /\ rpc = "reconnect"
  /\ linked' \in {linked, linked \cup {tmp}}
  /\ rpc' = "enable"
  /\ UNCHANGED <<useable, mutex, queue, userVars, tmp, exitVars>>

(* A reuseCedis that forgets setUseable(). *)
Enable_Forget ==
  /\ rpc = "enable"
  /\ tmp' = Null
  /\ rpc' = "loop"
  /\ UNCHANGED <<useable, linked, mutex, queue, userVars, exitVars>>

(* reuseCedis: setUseable, whether or not the connection was restored. *)
Enable ==
  /\ rpc = "enable"
  /\ useable' = [useable EXCEPT ![tmp] = TRUE]
  /\ tmp' = Null
  /\ rpc' = "loop"
  /\ UNCHANGED <<linked, mutex, queue, userVars, exitVars>>

-----------------------------------------------------------------------------
(* exit(), called by ~MainServer: stop, and then wake_all, which does not  *)
(* take the mutex of the queue.                                            *)
Exit ==
  /\ ~stop
  /\ stop' = TRUE /\ waking' = TRUE
  /\ UNCHANGED <<useable, linked, mutex, queue, userVars, threadVars>>

(* Mutant: one waiting thread is taken for granted. *)
WakeAll_Nobody ==
  /\ waking
  /\ waking' = FALSE
  /\ UNCHANGED <<useable, linked, mutex, queue, userVars, rpc, tmp, stop>>

WakeAll ==
  /\ waking
  /\ waking' = FALSE
  /\ rpc' = IF rpc = "asleep" THEN "woken" ELSE rpc
  /\ UNCHANGED <<useable, linked, mutex, queue, userVars, tmp, stop>>

-----------------------------------------------------------------------------
Command(u) == \/ Refused(u) \/ Begin(u) \/ Done(u) \/ PingAnswered(u) \/ GetReply(u)
              \/ Fail(u) \/ Move(u)

ThreadStep == Loop \/ PopWaits \/ Pop \/ PopNothing \/ Reconnect \/ Enable

Next == \/ \E r \in Conns : Drop(r)
        \/ \E u \in Users : Grab(u) \/ Look(u) \/ Command(u)
        \/ ThreadStep \/ SpuriousWakeup
        \/ Exit \/ WakeAll

Spec == Init /\ [][Next]_vars

(* Commands are answered or fail, reconnecting ends, and the threads go    *)
(* on.  Nothing breaks a connection, starts a command or ends the program  *)
(* by itself.                                                              *)
FairSpec ==
  /\ Spec
  /\ \A u \in Users : WF_vars(Look(u)) /\ WF_vars(Command(u))
  /\ WF_vars(ThreadStep) /\ WF_vars(WakeAll)

-----------------------------------------------------------------------------
TypeOK ==
  /\ useable \in [Conns -> BOOLEAN]
  /\ linked \subseteq Conns
  /\ mutex \in [Conns -> Users \cup {Null}]
  /\ poolMutex \in Users \cup {Null}
  /\ idx \in Conns
  /\ queue \in Seq(Conns)
  /\ stop \in BOOLEAN /\ waking \in BOOLEAN
  /\ pc \in [Users -> {"idle", "look", "grabbed", "command", "ping", "reply", "move"}]
  /\ held \in [Users -> Conns \cup {Null}]
  /\ rpc \in {"loop", "pop", "asleep", "woken", "reconnect", "enable", "exited"}
  /\ tmp \in Conns \cup {Null}

Moving == {r \in Conns : \E u \in Users : pc[u] = "move" /\ held[u] = r}

(* An unusable connection is in exactly one place, from where the pool     *)
(* thread will restore it: about to be moved, in the queue once, or in the *)
(* hands of that thread.  A usable one is in none, so it is not            *)
(* reconnected under its users.                                            *)
UnusableInOnePlace ==
  /\ {r \in Conns : ~useable[r]} = Moving \cup Queued \cup ({tmp} \ {Null})
  /\ Moving \cap Queued = {} /\ tmp \notin Moving \cup Queued
  /\ \A i, j \in DOMAIN queue : queue[i] = queue[j] => i = j

(* The threads inside hiredis with the redisContext of r. *)
Inside(r) == {u \in Users : pc[u] \in {"command", "ping", "reply"} /\ held[u] = r}

(* A redisContext is used by one thread at a time, reconnecting included,  *)
(* although reconnecting takes no mutex (Redis.cpp:82, 106).               *)
ContextExclusive ==
  /\ \A r \in Conns : \A u, v \in Inside(r) : u = v
  /\ rpc \in {"reconnect", "enable"} => Inside(tmp) = {}

(* The thread does not sleep while a connection waits for it. *)
NoLostPush == rpc = "asleep" => queue = <<>>

(* An unusable connection is kept until it is restored, and the thread     *)
(* that restores it is awake while one waits.                              *)
UnusableKept == TypeOK /\ UnusableInOnePlace /\ NoLostPush

(* An unusable connection is marked usable again unless the pool is        *)
(* stopped.                                                                *)
UnusableIsRestored == \A r \in Conns : ~useable[r] ~> useable[r] \/ stop

(* A grabCedis, which spins with the mutex of the pool held, ends unless   *)
(* the pool is stopped, even when every connection is down as it begins    *)
(* (RedisPool.cpp:59 asks what happens then).                              *)
GrabReturns == \A u \in Users : pc[u] = "look" ~> pc[u] # "look" \/ stop

(* The thread that sleeps in pop_front when exit() is called is woken and  *)
(* ends, whatever it finds in the queue. (RedisPool.cpp:75; exit() does    *)
(* not take the mutex, so a thread that is about to sleep may miss it.)    *)
ExitEndsSleeper == waking /\ rpc = "asleep" ~> rpc = "exited"
=============================================================================
