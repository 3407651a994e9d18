------------------------------- MODULE Mutex --------------------------------
(***************************************************************************)
(* base/Mutex.h: class Mutex (a pthread mutex plus holder_, the tid of the *)
(* thread that believes it has it), MutexGuard and Condition.              *)
(*                                                                         *)
(* holder_ and the pthread mutex change in separate steps: lock() takes    *)
(* the mutex and then writes holder_, unlock() clears holder_ and then     *)
(* gives the mutex back, and Condition::wait() clears holder_ in the       *)
(* constructor of UnassignGuard, sleeps (pthread_cond_wait releases the    *)
(* mutex and goes to sleep in one step), takes the mutex again and writes  *)
(* holder_ in the destructor of UnassignGuard.  The assertions of the code *)
(* (MThreadPool::isFull calls assertLocked, ~Mutex asserts holder_ == 0)   *)
(* read holder_ without knowing which of these steps has been reached.     *)
(***************************************************************************)
CONSTANTS Threads,   \* threads that lock the mutex or wait on it
          Conds,     \* the Condition objects built on the mutex
          NoThread   \* holder_ == 0, and nobody owns the pthread mutex

ASSUME NoThreadAssumption == NoThread \notin Threads

VARIABLES owner,     \* who owns the pthread mutex
          holder,    \* Mutex::holder_
          pc,        \* where each thread is
          cond       \* the Condition a thread waits on or last waited on

MutexVars == <<owner, holder, pc, cond>>

(* "out"       outside every critical section                              *)
(* "acquired"  owns the pthread mutex, holder_ not written yet             *)
(* "inside"    in the body of a MutexGuard                                 *)
(* "releasing" unlock() has cleared holder_                                *)
(* "prewait"   wait() has cleared holder_, the thread is still awake       *)
(* "waiting"   asleep in pthread_cond_wait                                 *)
(* "woken"     signalled, timed out or woken spuriously; wants the mutex   *)
Where == {"out", "acquired", "inside", "releasing", "prewait", "waiting", "woken"}

(* A thread that owns the pthread mutex. *)
Owning == {"acquired", "inside", "releasing", "prewait"}

(* The constructors of Mutex and of its Conditions. *)
MutexInit ==
  /\ owner = NoThread
  /\ holder = NoThread
  /\ pc = [t \in Threads |-> "out"]
  /\ cond \in [Threads -> Conds]

(* Mutex::lock, and the return from pthread_cond_wait: the mutex is taken  *)
(* when it is free.                                                        *)
Lock(t) ==
  /\ pc[t] \in {"out", "woken"}
  /\ owner = NoThread
  /\ owner' = t
  /\ pc' = [pc EXCEPT ![t] = "acquired"]
  /\ UNCHANGED <<holder, cond>>

(* Mutex::assignHolder, the second half of lock() and the destructor of    *)
(* UnassignGuard.                                                          *)
AssignHolder(t) ==
  /\ pc[t] = "acquired"
  /\ holder' = t
  /\ pc' = [pc EXCEPT ![t] = "inside"]
  /\ UNCHANGED <<owner, cond>>

(* unlock() that gives the mutex back before it clears holder_. *)
UnassignHolder_AfterUnlock(t) ==
  /\ pc[t] = "inside"
  /\ owner' = NoThread
  /\ pc' = [pc EXCEPT ![t] = "releasing"]
  /\ UNCHANGED <<holder, cond>>

(* Mutex::unassignHolder, the first half of unlock(). *)
UnassignHolder(t) ==
  /\ pc[t] = "inside"
  /\ holder' = NoThread
  /\ pc' = [pc EXCEPT ![t] = "releasing"]
  /\ UNCHANGED <<owner, cond>>

(* The second half of unlock(): pthread_mutex_unlock. *)
Unlock(t) ==
  /\ pc[t] = "releasing"
  /\ owner' = NoThread
  /\ pc' = [pc EXCEPT ![t] = "out"]
  /\ UNCHANGED <<holder, cond>>

(* wait() without an UnassignGuard: holder_ still names the sleeper. *)
BeginWait_NoGuard(t, c) ==
  /\ pc[t] = "inside"
  /\ cond' = [cond EXCEPT ![t] = c]
  /\ pc' = [pc EXCEPT ![t] = "prewait"]
  /\ UNCHANGED <<owner, holder>>

(* Condition::wait and waitForSeconds: UnassignGuard clears holder_. *)
BeginWait(t, c) ==
  /\ pc[t] = "inside"
  /\ holder' = NoThread
  /\ cond' = [cond EXCEPT ![t] = c]
  /\ pc' = [pc EXCEPT ![t] = "prewait"]
  /\ UNCHANGED owner

(* pthread_cond_wait releases the mutex and sleeps in one step. *)
CondWait(t) ==
  /\ pc[t] = "prewait"
  /\ owner' = NoThread
  /\ pc' = [pc EXCEPT ![t] = "waiting"]
  /\ UNCHANGED <<holder, cond>>

Sleepers(c) == {t \in Threads : pc[t] = "waiting" /\ cond[t] = c}

(* Condition::notify (pthread_cond_signal): some sleeper, if there is one. *)
(* Nothing requires the caller to hold the mutex.                          *)
Notify(t, c) ==
  /\ pc[t] \in {"out", "inside"}
  /\ \E s \in Sleepers(c) : pc' = [pc EXCEPT ![s] = "woken"]
  /\ UNCHANGED <<owner, holder, cond>>

(* Condition::notifyAll (pthread_cond_broadcast). *)
NotifyAll(t, c) ==
  /\ pc[t] \in {"out", "inside"}
  /\ pc' = [s \in Threads |-> IF s \in Sleepers(c) THEN "woken" ELSE pc[s]]
  /\ UNCHANGED <<owner, holder, cond>>

(* The timeout of waitForSeconds, or a spurious wakeup of either wait. *)
WakeUp(t) ==
  /\ pc[t] = "waiting"
  /\ pc' = [pc EXCEPT ![t] = "woken"]
  /\ UNCHANGED <<owner, holder, cond>>

Step(t) ==
  \/ Lock(t) \/ AssignHolder(t) \/ UnassignHolder(t) \/ Unlock(t)
  \/ CondWait(t) \/ WakeUp(t)
  \/ \E c \in Conds : BeginWait(t, c) \/ Notify(t, c) \/ NotifyAll(t, c)

MutexNext == \E t \in Threads : Step(t)

MutexSpec == MutexInit /\ [][MutexNext]_MutexVars

-----------------------------------------------------------------------------
MutexTypeOK ==
  /\ owner \in Threads \cup {NoThread}
  /\ holder \in Threads \cup {NoThread}
  /\ pc \in [Threads -> Where]
  /\ cond \in [Threads -> Conds]

(* The pthread mutex is owned exactly by the thread whose position says so. *)
OwnerIsOwning == \A t \in Threads : (owner = t) <=> (pc[t] \in Owning)

(* Mutex::isLockedByThisThread, read by assertLocked: the answer is right  *)
(* for every thread in every state.  In particular assertLocked in         *)
(* MThreadPool::isFull, evaluated between two waits, never fails, and a    *)
(* thread that sleeps or is outside is never told that it has the lock.    *)
AssertLockedExact == \A t \in Threads : (holder = t) <=> (pc[t] = "inside")

(* holder_ and the pthread mutex tell the truth about the threads: owner is *)
(* who has the mutex, holder_ who may be told so.                          *)
OwnershipExact == MutexTypeOK /\ OwnerIsOwning /\ AssertLockedExact

(* ~Mutex asserts holder_ == 0: true as soon as no thread owns the mutex,  *)
(* whatever threads have done before, waits included.                      *)
DestructorAssert == owner = NoThread => holder = NoThread

(* holder_ behaves like an abstract lock although it is written outside    *)
(* the atomic steps of the pthread mutex.                                  *)
Abs == INSTANCE AbstractLock WITH has <- holder

ImplementsLock == Abs!Spec

=============================================================================
