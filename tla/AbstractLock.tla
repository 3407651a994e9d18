---------------------------- MODULE AbstractLock ----------------------------
(***************************************************************************)
(* What a lock promises: at any moment at most one thread has it, and it   *)
(* goes from one thread to another only by being given up in between.      *)
(* Condition::wait gives the lock up and takes it back, so a thread that   *)
(* sleeps in a monitor is, here, a thread that does not have the lock.     *)
(***************************************************************************)
CONSTANTS Threads,   \* the threads that use the lock
          NoThread   \* nobody has it

VARIABLE has         \* the thread that has the lock, or NoThread

Init == has = NoThread

Take(t) == has = NoThread /\ has' = t

Give(t) == has = t /\ has' = NoThread

Next == \E t \in Threads : Take(t) \/ Give(t)

Spec == Init /\ [][Next]_has
=============================================================================
