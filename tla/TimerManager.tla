---------------------------- MODULE TimerManager ----------------------------
(***************************************************************************)
(* base/TimerManager.cpp and base/Timer.cpp: threads that take timers,     *)
(* start them and return them, the thread that dispatches their timeouts,  *)
(* and the main thread, which stops the manager.                           *)
(*                                                                         *)
(* A critical section of mutex_ is one step. What the code does without    *)
(* the mutex is a step for each access: the test of timerStack_.empty(),   *)
(* the push_back of a new timer, event_add, the push_back to eventVec_,    *)
(* notify_one, the tests of vtimer_.size() and of bexit_. libevent runs    *)
(* without locks here (evthread_use_pthreads is never called): event_add   *)
(* does not wake the loop, and event_free does not wait for a callback.    *)
(***************************************************************************)
EXTENDS Integers, Sequences, FiniteSets, Vector

CONSTANTS
    Timers,         \* Timer objects; those not yet made are not live
    Ids,            \* struct event objects
    Users,          \* threads that use timers
    InitialStack,   \* the timers that init() makes, 10 in the code
    StackLimit,     \* TIMER_STACK_SIZE
    None            \* no timer

ASSUME TimerAssumption ==
    /\ None \notin Timers
    /\ StackLimit \in Nat
    /\ InitialStack \in Seq(Timers)
    /\ \A i, j \in DOMAIN InitialStack :
          InitialStack[i] = InitialStack[j] => i = j

Kinds == {"TIMER_ONCE", "TIMER_PERSIST"}

(* What event_new makes; it persists if the timer's type_ says so then. *)
EventObjects == [timer : Timers, id : Ids, kind : Kinds]

VARIABLES
    live,       \* the timers in memory; Timer::counter is their number
    stack,      \* timerStack_, its top last
    vtimer,     \* vtimer_, the timers that have been taken out
    eventVec,   \* eventVec_, the events (each knows its timer)
    type,       \* type_ of each timer
    armed,      \* the events in the base that have not fired (or persist)
    bexit,      \* bexit_
    pipe,       \* whether there is something in breakloop[0]
    timed,      \* whether the dispatcher sleeps in poll with a timeout
    pc,         \* where the users are
    hand,       \* the timer a user works with
    adding,     \* the event a user has added and not yet saved, in a set
    dpc,        \* where the dispatcher is
    running,    \* the timer whose task it runs
    stopped,    \* where stop() is: "no", "begun", "done"
    lost        \* history: timers returned while the stack was full

vars == <<live, stack, vtimer, eventVec, type, armed, bexit, pipe,
          timed, pc, hand, adding, dpc, running, stopped, lost>>
objects == <<live, stack, vtimer, lost>>
events == <<eventVec, armed>>
userState == <<pc, hand, adding>>
loopState == <<timed, dpc, running, pipe>>
stopState == <<bexit, stopped>>

InStack == {stack[i] : i \in DOMAIN stack}
Hands == {hand[u] : u \in {v \in Users : pc[v] = "push"}}
InVec == {eventVec[i] : i \in DOMAIN eventVec}
UsedIds == {e.id : e \in armed \cup InVec \cup UNION {adding[u] : u \in Users}}

Init ==
    /\ stack = InitialStack
    /\ live = InStack
    /\ vtimer = {} /\ eventVec = <<>> /\ armed = {} /\ lost = {}
    /\ type = [t \in Timers |-> "TIMER_ONCE"]
    /\ bexit = FALSE /\ pipe = FALSE /\ timed = FALSE
    /\ pc = [u \in Users |-> "idle"]
    /\ hand = [u \in Users |-> None]
    /\ adding = [u \in Users |-> {}]
    /\ dpc = "test" /\ running = None /\ stopped = "no"

----------------------------------------------------------------------------
(* grabTimer *)

(* The stack is empty: a new timer, ... *)
GrabAllocates(u) ==
    /\ pc[u] = "idle"
    /\ stack = <<>>
    /\ \E t \in Timers \ live :
        /\ live' = live \cup {t}
        /\ hand' = [hand EXCEPT ![u] = t]
    /\ pc' = [pc EXCEPT ![u] = "push"]
    /\ UNCHANGED <<stack, vtimer, lost, events, type, adding, loopState, stopState>>

(* ... which goes into the vector without the mutex. *)
GrabPushes(u) ==
    /\ pc[u] = "push"
    /\ vtimer' = vtimer \cup {hand[u]}
    /\ pc' = [pc EXCEPT ![u] = "held"]
    /\ UNCHANGED <<live, stack, lost, events, type, hand, adding, loopState, stopState>>

(* The stack is not empty, as far as this thread can see. *)
GrabLooks(u) ==
    /\ pc[u] = "idle"
    /\ stack # <<>>
    /\ pc' = [pc EXCEPT ![u] = "top"]
    /\ UNCHANGED <<objects, events, type, hand, adding, loopState, stopState>>

(* With the mutex: top(), push_back and pop(). What top() of an empty      *)
(* stack does is undefined; the thread is not followed any further.        *)
GrabTop(u) ==
    /\ pc[u] = "top"
    /\ stack # <<>>
    /\ hand' = [hand EXCEPT ![u] = stack[Len(stack)]]
    /\ vtimer' = vtimer \cup {stack[Len(stack)]}
    /\ stack' = SubSeq(stack, 1, Len(stack) - 1)
    /\ pc' = [pc EXCEPT ![u] = "held"]
    /\ UNCHANGED <<live, lost, events, type, adding, loopState, stopState>>

----------------------------------------------------------------------------
(* Timer::start and addTimer, once for a timer that was taken *)

(* task_, interval_ and type_ are set, the event is made and added. *)
StartAdds(u, kind) ==
    /\ pc[u] = "held"
    /\ Ids \ UsedIds # {}
    /\ LET e == [timer |-> hand[u], id |-> CHOOSE i \in Ids \ UsedIds : TRUE,
                 kind |-> kind]
       IN  /\ armed' = armed \cup {e}
           /\ adding' = [adding EXCEPT ![u] = {e}]
    /\ type' = [type EXCEPT ![hand[u]] = kind]
    /\ pc' = [pc EXCEPT ![u] = "save"]
    /\ UNCHANGED <<objects, eventVec, hand, loopState, stopState>>

StartSaves(u) ==
    /\ pc[u] = "save"
    /\ \E e \in adding[u] : eventVec' = Append(eventVec, e)
    /\ adding' = [adding EXCEPT ![u] = {}]
    /\ pc' = [pc EXCEPT ![u] = "notify"]
    /\ UNCHANGED <<objects, armed, type, hand, loopState, stopState>>

(* expired_cond_.notify_one() *)
Wakes == IF dpc = "asleep" THEN "relock" ELSE dpc

StartNotifies(u) ==
    /\ pc[u] = "notify"
    /\ dpc' = Wakes
    /\ pc' = [pc EXCEPT ![u] = "started"]
    /\ UNCHANGED <<objects, events, type, hand, adding, timed, running, pipe, stopState>>

----------------------------------------------------------------------------
(* returnTimer *)

(* removeEvent(t): its first entry goes, and the event with it. *)
Entries(t) == {i \in DOMAIN eventVec : eventVec[i].timer = t}
FirstEntry(t) == CHOOSE i \in Entries(t) : \A j \in Entries(t) : i <= j

(* Mutant: the event is forgotten without event_free. *)
removeEvent_KeepEvent(t) ==
    IF Entries(t) = {} THEN UNCHANGED events
    ELSE /\ eventVec' = EraseAt(eventVec, {FirstEntry(t)})
         /\ UNCHANGED armed

removeEvent(t) ==
    IF Entries(t) = {} THEN UNCHANGED events
    ELSE /\ armed' = armed \ {eventVec[FirstEntry(t)]}
         /\ eventVec' = EraseAt(eventVec, {FirstEntry(t)})

(* Mutant: the timer stays in the vector. *)
returnTimer_NoErase(t) ==
    IF t \in vtimer
    THEN /\ IF Len(stack) < StackLimit
            THEN stack' = Append(stack, t) /\ lost' = lost
            ELSE stack' = stack /\ lost' = lost \cup {t}
         /\ UNCHANGED <<live, vtimer>>
         /\ removeEvent(t)
    ELSE UNCHANGED <<objects, events>>

returnTimer(t) ==
    IF t \in vtimer
    THEN /\ vtimer' = vtimer \ {t}
         /\ IF Len(stack) < StackLimit
            THEN stack' = Append(stack, t) /\ lost' = lost
            ELSE stack' = stack /\ lost' = lost \cup {t}
         /\ UNCHANGED live
         /\ removeEvent(t)
    ELSE UNCHANGED <<objects, events>>

(* A user returns a timer that it has started, or not even started; or it  *)
(* leaves that to the callback.                                            *)
UserReturns(u) ==
    /\ pc[u] \in {"held", "started"}
    /\ returnTimer(hand[u])
    /\ pc' = [pc EXCEPT ![u] = "idle"]
    /\ hand' = [hand EXCEPT ![u] = None]
    /\ UNCHANGED <<type, adding, loopState, stopState>>

UserForgets(u) ==
    /\ pc[u] = "started"
    /\ pc' = [pc EXCEPT ![u] = "idle"]
    /\ hand' = [hand EXCEPT ![u] = None]
    /\ UNCHANGED <<objects, events, type, adding, loopState, stopState>>

----------------------------------------------------------------------------
(* runInThread *)

Goto(place) ==
    /\ dpc' = place
    /\ UNCHANGED <<objects, events, type, userState, stopState>>

(* The test of vtimer_.size(); event_base_dispatch sleeps until the first  *)
(* of the timeouts that it knows, or for ever.                             *)
Dispatch ==
    /\ dpc = "test"
    /\ vtimer # {}
    /\ Goto("poll")
    /\ timed' = (armed # {})
    /\ UNCHANGED <<running, pipe>>

NoTimers ==
    /\ dpc = "test"
    /\ vtimer = {}
    /\ Goto("exit?")
    /\ UNCHANGED <<timed, running, pipe>>

(* A timeout. An event that does not persist leaves the base first. *)
Fire(e) ==
    /\ dpc = "poll" /\ timed
    /\ e \in armed
    /\ dpc' = "task"
    /\ running' = e.timer
    /\ armed' = IF e.kind = "TIMER_ONCE" THEN armed \ {e} ELSE armed
    /\ UNCHANGED <<objects, eventVec, type, userState, stopState, timed, pipe>>

(* The timeout that the loop slept for is gone. *)
PollAgain ==
    /\ dpc = "poll" /\ timed
    /\ armed = {}
    /\ timed' = FALSE
    /\ UNCHANGED <<objects, events, type, userState, stopState, dpc, running, pipe>>

(* run() has returned; type_ is read. The memory of a timer that stop()    *)
(* has deleted meanwhile may show either kind.                             *)
AfterTask ==
    /\ dpc = "task"
    /\ \E kind \in Kinds :
        /\ running \in live => kind = type[running]
        /\ IF kind = "TIMER_ONCE" THEN returnTimer(running)
                                  ELSE UNCHANGED <<objects, events>>
    /\ dpc' = "poll"
    /\ running' = None
    /\ timed' = (armed' # {})
    /\ UNCHANGED <<type, userState, stopState, pipe>>

(* eventBreakLoop *)
BreakLoop ==
    /\ dpc = "poll"
    /\ pipe
    /\ pipe' = FALSE
    /\ Goto("exit?")
    /\ UNCHANGED <<timed, running>>

Exit ==
    /\ dpc \in {"exit?", "relock"}
    /\ bexit
    /\ Goto("done")
    /\ UNCHANGED <<timed, running, pipe>>

GoesOn ==
    /\ ~ bexit
    /\ \/ dpc = "exit?" /\ Goto("lock")
       \/ dpc = "relock" /\ Goto("test")
    /\ UNCHANGED <<timed, running, pipe>>

(* The mutex is taken and wait() begins, without a test in between. *)
Sleep ==
    /\ dpc = "lock"
    /\ Goto("asleep")
    /\ UNCHANGED <<timed, running, pipe>>

Spurious ==
    /\ dpc = "asleep"
    /\ Goto("relock")
    /\ UNCHANGED <<timed, running, pipe>>

----------------------------------------------------------------------------
(* stop *)

StopBegins ==
    /\ stopped = "no"
    /\ bexit' = TRUE
    /\ stopped' = "begun"
    /\ UNCHANGED <<objects, events, type, userState, loopState>>

(* Mutant: nothing is written to the pipe. *)
StopRemoves_NoPipe ==
    LET gone == {FirstEntry(t) : t \in {v \in vtimer : Entries(v) # {}}}
    IN  /\ stopped = "begun"
        /\ armed' = armed \ {eventVec[i] : i \in gone}
        /\ eventVec' = EraseAt(eventVec, gone)
        /\ live' = live \ (vtimer \cup InStack)
        /\ vtimer' = {}
        /\ stack' = <<>>
        /\ dpc' = Wakes
        /\ stopped' = "done"
        /\ UNCHANGED <<lost, type, userState, timed, running, bexit, pipe>>

(* With the mutex: every timer of the vector loses its first entry and is  *)
(* deleted, the stack is emptied, "exit" is written, the loop is notified. *)
StopRemoves ==
    LET gone == {FirstEntry(t) : t \in {v \in vtimer : Entries(v) # {}}}
    IN  /\ stopped = "begun"
        /\ armed' = armed \ {eventVec[i] : i \in gone}
        /\ eventVec' = EraseAt(eventVec, gone)
        /\ live' = live \ (vtimer \cup InStack)
        /\ vtimer' = {}
        /\ stack' = <<>>
        /\ pipe' = TRUE
        /\ dpc' = Wakes
        /\ stopped' = "done"
        /\ UNCHANGED <<lost, type, userState, timed, running, bexit>>

----------------------------------------------------------------------------
UserStep(u) ==
    GrabPushes(u) \/ GrabTop(u) \/ StartSaves(u) \/ StartNotifies(u)

UserCall(u) ==
    \/ GrabAllocates(u) \/ GrabLooks(u)
    \/ \E kind \in Kinds : StartAdds(u, kind)
    \/ UserReturns(u) \/ UserForgets(u)

LoopStep ==
    Dispatch \/ NoTimers \/ PollAgain \/ AfterTask \/ BreakLoop \/ Exit
        \/ GoesOn \/ Sleep

Next ==
    \/ \E u \in Users : UserCall(u) \/ UserStep(u)
    \/ LoopStep
    \/ \E e \in armed : Fire(e)
    \/ Spurious
    \/ StopBegins \/ StopRemoves

Spec == Init /\ [][Next]_vars

(* Threads go on with what they have begun, timeouts come, and the loop    *)
(* sees its pipe whatever else it is busy with. Nobody has to call anything. *)
FairSpec ==
    /\ Spec
    /\ \A u \in Users : WF_vars(UserStep(u))
    /\ WF_vars(LoopStep)
    /\ WF_vars(\E e \in armed : Fire(e))
    /\ SF_vars(BreakLoop)
    /\ WF_vars(StopRemoves)

----------------------------------------------------------------------------
(* Properties *)

TypeOK ==
    /\ live \subseteq Timers
    /\ stack \in Seq(Timers)
    /\ Len(stack) <= StackLimit \/ Len(stack) <= Len(InitialStack)
    /\ vtimer \subseteq Timers
    /\ type \in [Timers -> Kinds]
    /\ armed \subseteq EventObjects
    /\ bexit \in BOOLEAN /\ pipe \in BOOLEAN /\ timed \in BOOLEAN
    /\ pc \in [Users -> {"idle", "push", "held", "top", "save", "notify", "started"}]
    /\ hand \in [Users -> Timers \cup {None}]
    /\ adding \in [Users -> SUBSET EventObjects]
    /\ dpc \in {"test", "poll", "task", "exit?", "lock", "asleep", "relock", "done"}
    /\ running \in Timers \cup {None}
    /\ stopped \in {"no", "begun", "done"}
    /\ lost \subseteq Timers

(* Every timer in memory is in the stack once, or in the vector, or on its *)
(* way there from new, or was returned while the stack was full and is     *)
(* leaked (TimerManager.cpp:115); and in one of these only. So no timer is *)
(* handed out twice, or deleted twice by stop().                           *)
TimersAccounted ==
    /\ live = InStack \cup vtimer \cup Hands \cup lost
    /\ \A i, j \in DOMAIN stack : stack[i] = stack[j] => i = j
    /\ InStack \cap vtimer = {}
    /\ (InStack \cup vtimer) \cap (Hands \cup lost) = {}
    /\ Hands \cap lost = {}

(* An event in the base is known to removeEvent, but for the moment        *)
(* between event_add and the push_back (TimerManager.cpp:103, 105): none   *)
(* goes on firing that can neither be returned nor stopped.                *)
ArmedIsKnown ==
    /\ eventVec \in Seq(EventObjects)
    /\ \A e \in armed : e \in InVec \/ \E u \in Users : e \in adding[u]

(* The test of empty() before the mutex (TimerManager.cpp:75, 80) is good  *)
(* for one thread that takes timers: only stop() empties the stack under   *)
(* it. (With two such threads, either can take the other's last timer.)    *)
TopIsThere ==
    \A u \in Users : pc[u] = "top" /\ Users = {u} => stack # <<>> \/ bexit

(* No timer is lost, doubled, or taken from an empty stack.                *)
TimersKept == TypeOK /\ TimersAccounted /\ TopIsThere

(* The thread ends after stop(), except when it has tested bexit_ and not  *)
(* yet begun to wait as stop() notifies (TimerManager.cpp:165-169).        *)
StopEndsThread == (stopped = "begun" /\ dpc # "lock") ~> (dpc = "done")

(* While a timer is in the base the loop goes on firing, once it polls     *)
(* with a timeout: the one it slept for may be returned under it, and each *)
(* callback leads back to poll. (A timer that is added while the loop      *)
(* polls without a timeout waits for another event.)                       *)
LoopFires ==
    /\ (dpc = "poll" /\ timed /\ armed # {})
          ~> (dpc = "task" \/ armed = {} \/ bexit)
    /\ (dpc = "task" /\ armed # {})
          ~> ((dpc = "poll" /\ timed) \/ armed = {} \/ bexit)

(* The dispatcher thread neither stops firing while there are timers nor   *)
(* outlives stop(), but for the window named above.                        *)
DispatcherLives == StopEndsThread /\ LoopFires
=============================================================================
