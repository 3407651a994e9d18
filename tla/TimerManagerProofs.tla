------------------------ MODULE TimerManagerProofs -------------------------
(***************************************************************************)
(* Every timer is accounted for: TimersKept, for any number of timers,     *)
(* events and users, any initial stack and any limit of the stack.         *)
(***************************************************************************)
EXTENDS TimerManager, QueueLemmas, SequenceTheorems, TLAPS

(* The top of a stack without repetitions, and what is left without it. *)
LEMMA PopElements ==
  ASSUME NEW S, NEW s \in Seq(S), s # <<>>,
         \A i, j \in DOMAIN s : s[i] = s[j] => i = j
  PROVE  LET t == SubSeq(s, 1, Len(s) - 1)
             top == s[Len(s)]
         IN  /\ t \in Seq(S)
             /\ Len(t) <= Len(s)
             /\ top \in S /\ top \in {s[i] : i \in DOMAIN s}
             /\ {t[i] : i \in DOMAIN t} = {s[i] : i \in DOMAIN s} \ {top}
             /\ \A i, j \in DOMAIN t : t[i] = t[j] => i = j
<1> DEFINE t == SubSeq(s, 1, Len(s) - 1)
           n == Len(s)
<1>1. /\ n \in Nat \ {0} /\ DOMAIN s = 1 .. n
      /\ \A i \in 1 .. n : s[i] \in S
  BY EmptySeq
<1>2. /\ t \in Seq(S)
      /\ Len(t) = n - 1
      /\ \A i \in 1 .. (n - 1) : t[i] = s[i]
  <2>1. \A i \in 1 .. (n - 1) : s[i] \in S
    BY <1>1
  <2>2. 1 \in Int /\ n - 1 \in Int
    BY <1>1
  <2>3. /\ t \in Seq(S)
        /\ Len(t) = IF 1 <= n - 1 THEN (n - 1) - 1 + 1 ELSE 0
        /\ \A i \in 1 .. (n - 1) - 1 + 1 : t[i] = s[1 + i - 1]
    BY <2>1, <2>2, SubSeqProperties
  <2> HIDE DEF t, n
  <2> QED
    BY <1>1, <2>3
<1>3. DOMAIN t = 1 .. (n - 1)
  BY <1>2
<1> HIDE DEF t, n
<1>4. {t[i] : i \in DOMAIN t} = {s[i] : i \in DOMAIN s} \ {s[n]}
  <2>1. \A i \in 1 .. n : i = n \/ i \in 1 .. (n - 1)
    BY <1>1
  <2>2. \A i \in 1 .. (n - 1) : i \in 1 .. n /\ i # n
    BY <1>1
  <2>3. n \in 1 .. n
    BY <1>1
  <2> QED
    BY <1>1, <1>2, <1>3, <2>1, <2>2, <2>3
<1>5. \A i, j \in DOMAIN t : t[i] = t[j] => i = j
  <2>1. \A i \in 1 .. (n - 1) : i \in 1 .. n
    BY <1>1
  <2> QED
    BY <1>1, <1>2, <1>3, <2>1
<1>6. s[n] \in S /\ s[n] \in {s[i] : i \in DOMAIN s} /\ Len(t) <= n
  BY <1>1, <1>2
<1> QED
  BY <1>2, <1>4, <1>5, <1>6 DEF t, n

-----------------------------------------------------------------------------
(* What the users hold: a timer from grabTimer on, each its own as long as *)
(* it is not in the vector yet.                                            *)
Holding ==
  /\ \A u \in Users : pc[u] \notin {"idle", "top"} => hand[u] \in Timers
  /\ \A u, v \in Users : pc[u] = "push" /\ pc[v] = "push" /\ hand[u] = hand[v] => u = v

(* stop() has set bexit_ before it takes anything away. *)
StopFlag == stopped # "no" => bexit

Inv == TypeOK /\ TimersAccounted /\ TopIsThere /\ Holding /\ StopFlag

LEMMA InitInv == Init => Inv
<1> SUFFICES ASSUME Init PROVE Inv
  OBVIOUS
<1>1. /\ InitialStack \in Seq(Timers)
      /\ \A i, j \in DOMAIN InitialStack : InitialStack[i] = InitialStack[j] => i = j
  BY TimerAssumption
<1>2. InStack \subseteq Timers
  BY <1>1 DEF Init, InStack
<1>3. Hands = {}
  BY DEF Init, Hands
<1>4. TypeOK
  <2>1. type \in [Timers -> Kinds]
    BY DEF Init, Kinds
  <2>2. /\ pc \in [Users -> {"idle", "push", "held", "top", "save", "notify", "started"}]
        /\ hand \in [Users -> Timers \cup {None}]
        /\ adding \in [Users -> SUBSET EventObjects]
    BY DEF Init
  <2>3. live \subseteq Timers /\ stack \in Seq(Timers) /\ Len(stack) <= Len(InitialStack)
    BY <1>1, <1>2 DEF Init
  <2>4. /\ vtimer \subseteq Timers /\ armed \subseteq EventObjects /\ lost \subseteq Timers
        /\ bexit \in BOOLEAN /\ pipe \in BOOLEAN /\ timed \in BOOLEAN
        /\ dpc = "test" /\ running = None /\ stopped = "no"
    BY DEF Init
  <2> QED
    BY <2>1, <2>2, <2>3, <2>4 DEF TypeOK
<1>5. TimersAccounted
  <2>1. live = InStack /\ vtimer = {} /\ lost = {} /\ stack = InitialStack
    BY DEF Init
  <2> QED
    BY <1>1, <1>3, <2>1 DEF TimersAccounted
<1>6. TopIsThere /\ Holding /\ StopFlag
  BY DEF Init, TopIsThere, Holding, StopFlag
<1> QED
  BY <1>4, <1>5, <1>6 DEF Inv

-----------------------------------------------------------------------------
(* Steps that leave the places of the timers alone. *)
LEMMA PlacesKept ==
  ASSUME Inv, UNCHANGED objects, Hands' = Hands
  PROVE  TimersAccounted' /\ InStack' = InStack
BY DEF Inv, TimersAccounted, InStack, objects

(* returnTimer puts a timer of the vector on the stack, or loses it, and   *)
(* touches no other.                                                       *)
LEMMA TimerReturned ==
  ASSUME Inv, NEW t, returnTimer(t), Hands' = Hands
  PROVE  /\ TimersAccounted'
         /\ live' \subseteq Timers /\ vtimer' \subseteq Timers /\ lost' \subseteq Timers
         /\ stack' \in Seq(Timers)
         /\ Len(stack') <= StackLimit \/ Len(stack') <= Len(InitialStack)
         /\ armed' \subseteq EventObjects
         /\ stack # <<>> => stack' # <<>>
<1>1. CASE t \notin vtimer
  <2>1. UNCHANGED <<objects, events>>
    BY <1>1 DEF returnTimer
  <2> QED
    BY <2>1, PlacesKept DEF Inv, TypeOK, objects, events
<1>2. CASE t \in vtimer
  <2>1. /\ live' = live /\ vtimer' = vtimer \ {t}
        /\ armed' \subseteq armed
    BY <1>2 DEF returnTimer, removeEvent, events
  <2>2. t \in Timers /\ t \notin InStack /\ t \notin Hands /\ t \notin lost
    BY <1>2 DEF Inv, TypeOK, TimersAccounted
  <2>3. stack \in Seq(Timers) /\ \A i, j \in DOMAIN stack : stack[i] = stack[j] => i = j
    BY DEF Inv, TypeOK, TimersAccounted
  <2>4. CASE Len(stack) < StackLimit
    <3>1. stack' = Append(stack, t) /\ lost' = lost
      BY <1>2, <2>4 DEF returnTimer
    <3>2. /\ stack' \in Seq(Timers) /\ Len(stack') = Len(stack) + 1
          /\ InStack' = InStack \cup {t}
      BY <2>2, <2>3, <3>1, AppendElements DEF InStack
    <3>3. \A i, j \in DOMAIN stack' : stack'[i] = stack'[j] => i = j
      BY <2>2, <2>3, <3>1, AppendNoRepeat DEF InStack
    <3>4. Len(stack') <= StackLimit /\ stack' # <<>>
      BY <2>3, <2>4, <3>2, TimerAssumption
    <3>5. TimersAccounted'
      BY <1>2, <2>1, <2>2, <3>1, <3>2, <3>3 DEF Inv, TimersAccounted
    <3> QED
      BY <2>1, <3>1, <3>2, <3>4, <3>5 DEF Inv, TypeOK
  <2>5. CASE ~(Len(stack) < StackLimit)
    <3>1. stack' = stack /\ lost' = lost \cup {t} /\ InStack' = InStack
      BY <1>2, <2>5 DEF returnTimer, InStack
    <3>2. TimersAccounted'
      BY <1>2, <2>1, <2>2, <3>1 DEF Inv, TimersAccounted
    <3> QED
      BY <2>1, <2>2, <3>1, <3>2 DEF Inv, TypeOK
  <2> QED
    BY <2>4, <2>5
<1> QED
  BY <1>1, <1>2

-----------------------------------------------------------------------------
(* grabTimer *)

LEMMA GrabAllocatesInv == ASSUME Inv, NEW u \in Users, GrabAllocates(u) PROVE Inv'
<1>1. PICK t \in Timers \ live : live' = live \cup {t} /\ hand' = [hand EXCEPT ![u] = t]
  BY DEF GrabAllocates
<1>2. /\ pc[u] = "idle" /\ pc' = [pc EXCEPT ![u] = "push"]
      /\ UNCHANGED <<stack, vtimer, lost, eventVec, armed, type, adding, timed, dpc,
                     running, pipe, bexit, stopped>>
  BY DEF GrabAllocates, events, loopState, stopState
<1>3. InStack' = InStack
  BY <1>2 DEF InStack
<1>4. /\ pc'[u] = "push" /\ hand'[u] = t
      /\ \A v \in Users \ {u} : pc'[v] = pc[v] /\ hand'[v] = hand[v]
  BY <1>1, <1>2 DEF Inv, TypeOK
<1>5. Hands' = Hands \cup {t}
  BY <1>2, <1>4 DEF Hands
<1>6. TypeOK'
  BY <1>1, <1>2 DEF Inv, TypeOK
<1>7. TimersAccounted'
  BY <1>1, <1>2, <1>3, <1>5 DEF Inv, TimersAccounted
<1>8. Holding'
  <2>1. \A v \in Users : pc[v] = "push" => hand[v] # t
    BY <1>1 DEF Inv, TimersAccounted, Hands
  <2> QED
    BY <1>1, <1>4, <2>1 DEF Inv, Holding
<1>9. TopIsThere' /\ StopFlag'
  BY <1>2, <1>4 DEF Inv, TopIsThere, StopFlag
<1> QED
  BY <1>6, <1>7, <1>8, <1>9 DEF Inv

LEMMA GrabPushesInv == ASSUME Inv, NEW u \in Users, GrabPushes(u) PROVE Inv'
<1>1. /\ pc[u] = "push" /\ vtimer' = vtimer \cup {hand[u]}
      /\ pc' = [pc EXCEPT ![u] = "held"]
      /\ UNCHANGED <<live, stack, lost, eventVec, armed, type, hand, adding, timed, dpc,
                     running, pipe, bexit, stopped>>
  BY DEF GrabPushes, events, loopState, stopState
<1>2. InStack' = InStack
  BY <1>1 DEF InStack
<1>3. /\ pc'[u] = "held"
      /\ \A v \in Users \ {u} : pc'[v] = pc[v]
  BY <1>1 DEF Inv, TypeOK
<1>4. hand[u] \in Timers /\ hand[u] \in Hands
  BY <1>1 DEF Inv, Holding, Hands
<1>5. Hands' = Hands \ {hand[u]}
  <2>1. \A v \in Users \ {u} : pc[v] = "push" => hand[v] # hand[u]
    BY <1>1 DEF Inv, Holding
  <2> QED
    BY <1>1, <1>3, <2>1 DEF Hands
<1>6. TypeOK'
  BY <1>1, <1>4 DEF Inv, TypeOK
<1>7. TimersAccounted'
  BY <1>1, <1>2, <1>4, <1>5 DEF Inv, TimersAccounted
<1>8. Holding' /\ TopIsThere' /\ StopFlag'
  BY <1>1, <1>3 DEF Inv, Holding, TopIsThere, StopFlag
<1> QED
  BY <1>6, <1>7, <1>8 DEF Inv

LEMMA GrabTopInv == ASSUME Inv, NEW u \in Users, GrabTop(u) PROVE Inv'
<1> DEFINE top == stack[Len(stack)]
<1>1. /\ pc[u] = "top" /\ stack # <<>>
      /\ hand' = [hand EXCEPT ![u] = top]
      /\ vtimer' = vtimer \cup {top}
      /\ stack' = SubSeq(stack, 1, Len(stack) - 1)
      /\ pc' = [pc EXCEPT ![u] = "held"]
      /\ UNCHANGED <<live, lost, eventVec, armed, type, adding, timed, dpc, running,
                     pipe, bexit, stopped>>
  BY DEF GrabTop, events, loopState, stopState
<1>2. stack \in Seq(Timers) /\ \A i, j \in DOMAIN stack : stack[i] = stack[j] => i = j
  BY DEF Inv, TypeOK, TimersAccounted
<1>3. /\ stack' \in Seq(Timers) /\ Len(stack') <= Len(stack)
      /\ top \in Timers /\ top \in InStack
      /\ InStack' = InStack \ {top}
      /\ \A i, j \in DOMAIN stack' : stack'[i] = stack'[j] => i = j
  <2> DEFINE t == SubSeq(stack, 1, Len(stack) - 1)
  <2>1. /\ t \in Seq(Timers) /\ Len(t) <= Len(stack)
        /\ top \in Timers /\ top \in {stack[i] : i \in DOMAIN stack}
        /\ {t[i] : i \in DOMAIN t} = {stack[i] : i \in DOMAIN stack} \ {top}
        /\ \A i, j \in DOMAIN t : t[i] = t[j] => i = j
    BY <1>1, <1>2, PopElements
  <2>2. stack' = t
    BY <1>1
  <2> HIDE DEF t, top
  <2> QED
    BY <2>1, <2>2 DEF InStack
<1> HIDE DEF top
<1>4. /\ pc'[u] = "held" /\ hand'[u] = top
      /\ \A v \in Users \ {u} : pc'[v] = pc[v] /\ hand'[v] = hand[v]
  BY <1>1 DEF Inv, TypeOK
<1>5. Hands' = Hands
  BY <1>1, <1>4 DEF Hands
<1>6. TypeOK'
  <2>1. Len(stack') <= StackLimit \/ Len(stack') <= Len(InitialStack)
    <3>1. /\ Len(stack') \in Nat /\ Len(stack) \in Nat
          /\ StackLimit \in Nat /\ Len(InitialStack) \in Nat
      BY <1>2, <1>3, TimerAssumption
    <3> QED
      BY <1>3, <3>1 DEF Inv, TypeOK
  <2> QED
    BY <1>1, <1>3, <2>1 DEF Inv, TypeOK
<1>7. TimersAccounted'
  BY <1>1, <1>3, <1>5 DEF Inv, TimersAccounted
<1>8. Holding' /\ TopIsThere' /\ StopFlag'
  BY <1>1, <1>3, <1>4 DEF Inv, Holding, TopIsThere, StopFlag
<1> QED
  BY <1>6, <1>7, <1>8 DEF Inv

-----------------------------------------------------------------------------
(* A step that leaves the timers where they are keeps the invariant, if    *)
(* the types stay, no timer is taken by the step and no user comes to the  *)
(* top of an empty stack.                                                  *)
LEMMA QuietStep ==
  ASSUME Inv, UNCHANGED objects, UNCHANGED hand, TypeOK',
         \A u \in Users : pc'[u] = "push" <=> pc[u] = "push",
         \A u \in Users : pc[u] \in {"idle", "top"} => pc'[u] \in {"idle", "top"},
         \A u \in Users : pc'[u] = "top" => pc[u] = "top" \/ stack # <<>>,
         bexit => bexit', StopFlag'
  PROVE  Inv'
<1>1. Hands' = Hands
  BY DEF Hands
<1>2. TimersAccounted'
  BY <1>1, PlacesKept
<1>3. Holding'
  BY DEF Inv, Holding
<1>4. TopIsThere'
  BY DEF Inv, TopIsThere, objects
<1> QED
  BY <1>2, <1>3, <1>4 DEF Inv

(* The dispatcher's steps that touch no timer. *)
LEMMA LoopInv ==
  ASSUME Inv, UNCHANGED objects, UNCHANGED userState, UNCHANGED stopState,
         TypeOK'
  PROVE  Inv'
BY QuietStep DEF userState, stopState, Inv, StopFlag

LEMMA GotoInv ==
  ASSUME Inv,
         NEW place \in {"test", "poll", "task", "exit?", "lock", "asleep", "relock", "done"},
         Goto(place), timed' \in BOOLEAN, pipe' \in BOOLEAN, running' = running
  PROVE  Inv'
<1>1. TypeOK'
  BY DEF Inv, TypeOK, Goto, objects, events, userState, stopState
<1> QED
  BY <1>1, LoopInv DEF Goto

LEMMA FireInv == ASSUME Inv, NEW e \in armed, Fire(e) PROVE Inv'
<1>1. e.timer \in Timers /\ armed' \subseteq EventObjects
  BY DEF Fire, Inv, TypeOK, EventObjects
<1>2. TypeOK'
  BY <1>1 DEF Fire, Inv, TypeOK, objects, userState, stopState
<1> QED
  BY <1>2, LoopInv DEF Fire

LEMMA AfterTaskInv == ASSUME Inv, AfterTask PROVE Inv'
<1>1. PICK kind \in Kinds :
         IF kind = "TIMER_ONCE" THEN returnTimer(running) ELSE UNCHANGED <<objects, events>>
  BY DEF AfterTask
<1>2. /\ dpc' = "poll" /\ running' = None /\ timed' = (armed' # {})
      /\ UNCHANGED <<type, pc, hand, adding, bexit, stopped, pipe>>
  BY DEF AfterTask, userState, stopState
<1>3. CASE returnTimer(running)
  <2>1. Hands' = Hands
    BY <1>2 DEF Hands
  <2>2. /\ TimersAccounted'
        /\ live' \subseteq Timers /\ vtimer' \subseteq Timers /\ lost' \subseteq Timers
        /\ stack' \in Seq(Timers)
        /\ Len(stack') <= StackLimit \/ Len(stack') <= Len(InitialStack)
        /\ armed' \subseteq EventObjects
        /\ stack # <<>> => stack' # <<>>
    BY <1>3, <2>1, TimerReturned
  <2>3. TypeOK'
    BY <1>2, <2>2 DEF Inv, TypeOK
  <2>4. Holding' /\ TopIsThere' /\ StopFlag'
    BY <1>2, <2>2 DEF Inv, Holding, TopIsThere, StopFlag
  <2> QED
    BY <2>2, <2>3, <2>4 DEF Inv
<1>4. CASE UNCHANGED <<objects, events>>
  <2>1. TypeOK'
    BY <1>2, <1>4 DEF Inv, TypeOK, objects, events
  <2> QED
    BY <1>2, <1>4, <2>1, LoopInv DEF userState, stopState
<1> QED
  BY <1>1, <1>3, <1>4

-----------------------------------------------------------------------------
(* start, and the ways in which a user is done with a timer *)

LEMMA WakesType ==
  ASSUME Inv
  PROVE  Wakes \in {"test", "poll", "task", "exit?", "lock", "asleep", "relock", "done"}
BY DEF Inv, TypeOK, Wakes

(* A user goes to another place with what it holds. *)
LEMMA UserMoves ==
  ASSUME Inv, NEW u \in Users, NEW place, pc' = [pc EXCEPT ![u] = place],
         UNCHANGED objects, UNCHANGED hand, UNCHANGED stopState, TypeOK',
         pc[u] # "push", place # "push",
         place = "top" => stack # <<>>,
         pc[u] \in {"idle", "top"} => place \in {"idle", "top"}
  PROVE  Inv'
<1>1. pc'[u] = place /\ \A v \in Users \ {u} : pc'[v] = pc[v]
  BY DEF Inv, TypeOK
<1> QED
  BY <1>1, QuietStep DEF stopState, Inv, StopFlag

LEMMA GrabLooksInv == ASSUME Inv, NEW u \in Users, GrabLooks(u) PROVE Inv'
<1>1. TypeOK'
  BY DEF GrabLooks, Inv, TypeOK, objects, events, loopState, stopState
<1> QED
  BY <1>1, UserMoves DEF GrabLooks

LEMMA StartAddsInv ==
  ASSUME Inv, NEW u \in Users, NEW kind \in Kinds, StartAdds(u, kind) PROVE Inv'
<1> DEFINE e == [timer |-> hand[u], id |-> CHOOSE i \in Ids \ UsedIds : TRUE, kind |-> kind]
<1>1. /\ pc[u] = "held" /\ pc' = [pc EXCEPT ![u] = "save"]
      /\ armed' = armed \cup {e} /\ adding' = [adding EXCEPT ![u] = {e}]
      /\ type' = [type EXCEPT ![hand[u]] = kind]
      /\ UNCHANGED <<objects, eventVec, hand, loopState, stopState>>
  BY DEF StartAdds
<1>2. hand[u] \in Timers
  BY <1>1 DEF Inv, Holding
<1>3. e \in EventObjects
  <2>1. (CHOOSE i \in Ids \ UsedIds : TRUE) \in Ids
    BY DEF StartAdds
  <2> QED
    BY <1>2, <2>1 DEF EventObjects
<1> HIDE DEF e
<1>4. TypeOK'
  <2>1. armed' \subseteq EventObjects /\ adding' \in [Users -> SUBSET EventObjects]
    BY <1>1, <1>3 DEF Inv, TypeOK
  <2> QED
    BY <1>1, <2>1 DEF Inv, TypeOK, objects, loopState, stopState
<1> QED
  BY <1>1, <1>4, UserMoves

LEMMA StartSavesInv == ASSUME Inv, NEW u \in Users, StartSaves(u) PROVE Inv'
<1>1. TypeOK'
  BY DEF StartSaves, Inv, TypeOK, objects, loopState, stopState
<1> QED
  BY <1>1, UserMoves DEF StartSaves

LEMMA StartNotifiesInv == ASSUME Inv, NEW u \in Users, StartNotifies(u) PROVE Inv'
<1>1. TypeOK'
  BY WakesType DEF StartNotifies, Inv, TypeOK, objects, events, stopState
<1> QED
  BY <1>1, UserMoves DEF StartNotifies

(* A user is done: it holds nothing from here on. *)
LEMMA UserDone ==
  ASSUME Inv, NEW u \in Users, pc[u] \in {"held", "started"},
         pc' = [pc EXCEPT ![u] = "idle"], hand' = [hand EXCEPT ![u] = None],
         UNCHANGED stopState, stack # <<>> => stack' # <<>>
  PROVE  Hands' = Hands /\ Holding' /\ TopIsThere' /\ StopFlag'
<1>1. /\ pc'[u] = "idle"
      /\ \A v \in Users \ {u} : pc'[v] = pc[v] /\ hand'[v] = hand[v]
  BY DEF Inv, TypeOK
<1>2. Hands' = Hands
  BY <1>1 DEF Hands
<1>3. Holding'
  BY <1>1 DEF Inv, Holding
<1>4. TopIsThere' /\ StopFlag'
  BY <1>1 DEF Inv, TopIsThere, StopFlag, stopState
<1> QED
  BY <1>2, <1>3, <1>4

LEMMA UserReturnsInv == ASSUME Inv, NEW u \in Users, UserReturns(u) PROVE Inv'
<1>1. /\ pc[u] \in {"held", "started"} /\ returnTimer(hand[u])
      /\ pc' = [pc EXCEPT ![u] = "idle"] /\ hand' = [hand EXCEPT ![u] = None]
      /\ UNCHANGED <<type, adding, timed, dpc, running, pipe, bexit, stopped>>
  BY DEF UserReturns, loopState, stopState
<1>2. Hands' = Hands
  BY <1>1 DEF Hands, Inv, TypeOK
<1>3. /\ TimersAccounted'
      /\ live' \subseteq Timers /\ vtimer' \subseteq Timers /\ lost' \subseteq Timers
      /\ stack' \in Seq(Timers)
      /\ Len(stack') <= StackLimit \/ Len(stack') <= Len(InitialStack)
      /\ armed' \subseteq EventObjects
      /\ stack # <<>> => stack' # <<>>
  BY <1>1, <1>2, TimerReturned
<1>4. TypeOK'
  BY <1>1, <1>3 DEF Inv, TypeOK
<1>5. Holding' /\ TopIsThere' /\ StopFlag'
  BY <1>1, <1>3, UserDone DEF stopState
<1> QED
  BY <1>3, <1>4, <1>5 DEF Inv

LEMMA UserForgetsInv == ASSUME Inv, NEW u \in Users, UserForgets(u) PROVE Inv'
<1>1. Hands' = Hands /\ Holding' /\ TopIsThere' /\ StopFlag'
  BY UserDone DEF UserForgets, objects
<1>2. TypeOK'
  BY DEF UserForgets, Inv, TypeOK, objects, events, loopState, stopState
<1>3. TimersAccounted'
  BY <1>1, PlacesKept DEF UserForgets
<1> QED
  BY <1>1, <1>2, <1>3 DEF Inv

-----------------------------------------------------------------------------
(* stop *)

LEMMA StopBeginsInv == ASSUME Inv, StopBegins PROVE Inv'
<1>1. TypeOK'
  BY DEF StopBegins, Inv, TypeOK, objects, events, userState, loopState
<1>2. StopFlag'
  BY DEF StopBegins, StopFlag
<1> QED
  BY <1>1, <1>2, QuietStep DEF StopBegins, userState

LEMMA StopRemovesInv == ASSUME Inv, StopRemoves PROVE Inv'
<1>1. /\ stopped = "begun" /\ armed' \subseteq armed
      /\ live' = live \ (vtimer \cup InStack) /\ vtimer' = {} /\ stack' = <<>>
      /\ pipe' = TRUE /\ dpc' = Wakes /\ stopped' = "done"
      /\ UNCHANGED <<lost, type, pc, hand, adding, timed, running, bexit>>
  BY DEF StopRemoves, userState
<1>2. bexit
  BY <1>1 DEF Inv, StopFlag
<1>3. InStack' = {} /\ Hands' = Hands
  BY <1>1 DEF InStack, Hands
<1>4. TypeOK'
  <2>1. stack' \in Seq(Timers) /\ Len(stack') = 0 /\ StackLimit \in Nat
    BY <1>1, TimerAssumption
  <2> QED
    BY <1>1, <2>1, WakesType DEF Inv, TypeOK
<1>5. TimersAccounted'
  <2>1. \A i, j \in DOMAIN stack' : stack'[i] = stack'[j] => i = j
    BY <1>1
  <2> QED
    BY <1>1, <1>3, <2>1 DEF Inv, TimersAccounted
<1>6. Holding' /\ TopIsThere' /\ StopFlag'
  BY <1>1, <1>2 DEF Inv, Holding, TopIsThere, StopFlag
<1> QED
  BY <1>4, <1>5, <1>6 DEF Inv

-----------------------------------------------------------------------------
LEMMA UserInv ==
  ASSUME Inv, NEW u \in Users, UserCall(u) \/ UserStep(u) PROVE Inv'
<1>1. CASE GrabAllocates(u)
  BY <1>1, GrabAllocatesInv
<1>2. CASE GrabLooks(u)
  BY <1>2, GrabLooksInv
<1>3. ASSUME NEW kind \in Kinds, StartAdds(u, kind) PROVE Inv'
  BY <1>3, StartAddsInv
<1>4. CASE UserReturns(u)
  BY <1>4, UserReturnsInv
<1>5. CASE UserForgets(u)
  BY <1>5, UserForgetsInv
<1>6. CASE GrabPushes(u)
  BY <1>6, GrabPushesInv
<1>7. CASE GrabTop(u)
  BY <1>7, GrabTopInv
<1>8. CASE StartSaves(u)
  BY <1>8, StartSavesInv
<1>9. CASE StartNotifies(u)
  BY <1>9, StartNotifiesInv
<1> QED
  BY <1>1, <1>2, <1>3, <1>4, <1>5, <1>6, <1>7, <1>8, <1>9 DEF UserCall, UserStep

LEMMA LoopStepInv == ASSUME Inv, LoopStep \/ Spurious PROVE Inv'
<1>1. CASE AfterTask
  BY <1>1, AfterTaskInv
<1>2. CASE PollAgain
  <2>1. TypeOK'
    BY <1>2 DEF PollAgain, Inv, TypeOK, objects, events, userState, stopState
  <2> QED
    BY <1>2, <2>1, LoopInv DEF PollAgain
<1>3. CASE Dispatch \/ NoTimers \/ BreakLoop \/ Exit \/ GoesOn \/ Sleep \/ Spurious
  <2>1. timed \in BOOLEAN /\ pipe \in BOOLEAN
    BY DEF Inv, TypeOK
  <2> QED
    BY <1>3, <2>1, GotoInv
       DEF Dispatch, NoTimers, BreakLoop, Exit, GoesOn, Sleep, Spurious
<1> QED
  BY <1>1, <1>2, <1>3 DEF LoopStep

(* Every step keeps the invariant. *)
LEMMA NextInv == Inv /\ [Next]_vars => Inv'
<1> SUFFICES ASSUME Inv, [Next]_vars PROVE Inv'
  OBVIOUS
<1>1. ASSUME NEW u \in Users, UserCall(u) \/ UserStep(u) PROVE Inv'
  BY <1>1, UserInv
<1>2. CASE LoopStep \/ Spurious
  BY <1>2, LoopStepInv
<1>3. ASSUME NEW e \in armed, Fire(e) PROVE Inv'
  BY <1>3, FireInv
<1>4. CASE StopBegins \/ StopRemoves
  BY <1>4, StopBeginsInv, StopRemovesInv
<1>5. CASE UNCHANGED vars
  <2>1. TypeOK'
    BY <1>5 DEF vars, Inv, TypeOK
  <2> QED
    BY <1>5, <2>1, LoopInv DEF vars, objects, userState, stopState
<1> QED
  BY <1>1, <1>2, <1>3, <1>4, <1>5 DEF Next

(* No timer is lost but on a full stack, none is in two places, and a      *)
(* single thread that takes timers never meets an empty stack at top()     *)
(* before stop(): grabTimer, returnTimer and stop of base/TimerManager.cpp *)
(* in any interleaving with the callbacks.                                 *)
THEOREM TimersAreKept == Spec => []TimersKept
<1>1. Inv => TimersKept
  BY DEF Inv, TimersKept
<1> QED
  BY InitInv, NextInv, <1>1, PTL DEF Spec

-----------------------------------------------------------------------------
(* ArmedIsKnown. Between event_add and the push_back the event is the one  *)
(* that its user is about to save.                                         *)
Adding ==
  \A u \in Users :
     adding[u] # {} => pc[u] = "save" /\ \E e \in EventObjects : adding[u] = {e}

Known == ArmedIsKnown /\ Adding

(* A step that adds no event and takes none from the vector. *)
LEMMA KnownStays ==
  ASSUME Known, armed' \subseteq armed, eventVec' = eventVec, adding' = adding,
         \A u \in Users : pc[u] = "save" => pc'[u] = "save"
  PROVE  Known'
BY DEF Known, ArmedIsKnown, Adding, InVec

(* A user that has nothing to save goes to another place. *)
LEMMA KnownMoves ==
  ASSUME Inv, Known, NEW u \in Users, NEW place, pc' = [pc EXCEPT ![u] = place],
         pc[u] # "save", armed' \subseteq armed, eventVec' = eventVec, adding' = adding
  PROVE  Known'
<1>1. \A v \in Users \ {u} : pc'[v] = pc[v]
  BY DEF Inv, TypeOK
<1> QED
  BY <1>1, KnownStays

(* removeEvent frees the event of the entry that it takes out. *)
LEMMA EventRemoved ==
  ASSUME Known, NEW t, removeEvent(t), adding' = adding,
         \A u \in Users : pc[u] = "save" => pc'[u] = "save"
  PROVE  Known'
<1>1. CASE Entries(t) = {}
  BY <1>1, KnownStays DEF removeEvent, events
<1>2. CASE Entries(t) # {}
  <2> DEFINE k == FirstEntry(t)
  <2>1. eventVec \in Seq(EventObjects)
    BY DEF Known, ArmedIsKnown
  <2>2. Entries(t) \in SUBSET Nat
    BY <2>1 DEF Entries
  <2>3. \E i \in Entries(t) : \A j \in Entries(t) : i <= j
    BY <1>2, <2>2, LeastExists
  <2>4. k \in DOMAIN eventVec
    BY <2>3 DEF FirstEntry, Entries
  <2>5. armed' = armed \ {eventVec[k]} /\ eventVec' = EraseAt(eventVec, {k})
    BY <1>2 DEF removeEvent
  <2> HIDE DEF k
  <2>6. /\ eventVec' \in Seq(EventObjects)
        /\ InVec \subseteq InVec' \cup {eventVec[k]}
    <3> DEFINE gone == {k}
    <3>1. eventVec' = EraseAt(eventVec, gone)
      BY <2>5
    <3> HIDE DEF gone
    <3>2. /\ eventVec' \in Seq(EventObjects)
          /\ \A i \in DOMAIN eventVec \ gone :
                \E n \in DOMAIN eventVec' : eventVec'[n] = eventVec[i]
      BY <2>1, <3>1, EraseAtElements
    <3> QED
      BY <3>2 DEF InVec, gone
  <2>7. ArmedIsKnown'
    BY <2>5, <2>6 DEF Known, ArmedIsKnown
  <2> QED
    BY <2>7 DEF Known, Adding
<1> QED
  BY <1>1, <1>2

LEMMA KnownReturn ==
  ASSUME Known, NEW t, returnTimer(t), adding' = adding,
         \A u \in Users : pc[u] = "save" => pc'[u] = "save"
  PROVE  Known'
<1>1. CASE t \in vtimer
  BY <1>1, EventRemoved DEF returnTimer
<1>2. CASE t \notin vtimer
  BY <1>2, KnownStays DEF returnTimer, events
<1> QED
  BY <1>1, <1>2

LEMMA StartAddsKnown ==
  ASSUME Inv, Known, NEW u \in Users, NEW kind \in Kinds, StartAdds(u, kind)
  PROVE  Known'
<1> DEFINE e == [timer |-> hand[u], id |-> CHOOSE i \in Ids \ UsedIds : TRUE, kind |-> kind]
<1>1. /\ pc[u] = "held" /\ pc' = [pc EXCEPT ![u] = "save"]
      /\ armed' = armed \cup {e} /\ adding' = [adding EXCEPT ![u] = {e}]
      /\ eventVec' = eventVec
  BY DEF StartAdds
<1>2. e \in EventObjects
  <2>1. (CHOOSE i \in Ids \ UsedIds : TRUE) \in Ids
    BY DEF StartAdds
  <2>2. hand[u] \in Timers
    BY <1>1 DEF Inv, Holding
  <2> QED
    BY <2>1, <2>2 DEF EventObjects
<1> HIDE DEF e
<1>3. /\ pc'[u] = "save" /\ adding'[u] = {e}
      /\ \A v \in Users \ {u} : pc'[v] = pc[v] /\ adding'[v] = adding[v]
  BY <1>1 DEF Inv, TypeOK
<1>4. adding[u] = {}
  BY <1>1 DEF Known, Adding
<1>5. Adding'
  BY <1>2, <1>3 DEF Known, Adding
<1>6. ArmedIsKnown'
  BY <1>1, <1>3, <1>4 DEF Known, ArmedIsKnown, InVec
<1> QED
  BY <1>5, <1>6 DEF Known

LEMMA StartSavesKnown ==
  ASSUME Inv, Known, NEW u \in Users, StartSaves(u) PROVE Known'
<1>1. PICK e \in adding[u] : eventVec' = Append(eventVec, e)
  BY DEF StartSaves
<1>2. /\ adding' = [adding EXCEPT ![u] = {}] /\ pc' = [pc EXCEPT ![u] = "notify"]
      /\ armed' = armed
  BY DEF StartSaves
<1>3. adding[u] = {e} /\ e \in EventObjects
  BY <1>1 DEF Known, Adding
<1>4. /\ adding'[u] = {}
      /\ \A v \in Users \ {u} : pc'[v] = pc[v] /\ adding'[v] = adding[v]
  BY <1>2 DEF Inv, TypeOK
<1>5. eventVec' \in Seq(EventObjects) /\ InVec' = InVec \cup {e}
  BY <1>1, <1>3, AppendElements DEF Known, ArmedIsKnown, InVec
<1>6. Adding'
  BY <1>4 DEF Known, Adding
<1>7. ArmedIsKnown'
  BY <1>2, <1>3, <1>4, <1>5 DEF Known, ArmedIsKnown
<1> QED
  BY <1>6, <1>7 DEF Known

LEMMA StopRemovesKnown == ASSUME Inv, Known, StopRemoves PROVE Known'
<1> DEFINE gone == {FirstEntry(t) : t \in {v \in vtimer : Entries(v) # {}}}
<1>1. /\ armed' = armed \ {eventVec[i] : i \in gone}
      /\ eventVec' = EraseAt(eventVec, gone)
      /\ UNCHANGED <<pc, adding>>
  BY DEF StopRemoves, userState
<1> HIDE DEF gone
<1>2. eventVec \in Seq(EventObjects)
  BY DEF Known, ArmedIsKnown
<1>3. eventVec' \in Seq(EventObjects)
  BY <1>1, <1>2, EraseAtElements
<1>4. ASSUME NEW e \in armed', e \in InVec
      PROVE  e \in InVec'
  <2>1. PICK k \in DOMAIN eventVec : e = eventVec[k]
    BY <1>4 DEF InVec
  <2>2. k \notin gone
    BY <1>1, <2>1
  <2> QED
    BY <1>1, <1>2, <2>1, <2>2, EraseAtElements DEF InVec
<1>5. ArmedIsKnown'
  BY <1>1, <1>3, <1>4 DEF Known, ArmedIsKnown
<1> QED
  BY <1>1, <1>5 DEF Known, Adding

LEMMA KnownNext == Inv /\ Known /\ [Next]_vars => Known'
<1> SUFFICES ASSUME Inv, Known, [Next]_vars PROVE Known'
  OBVIOUS
<1>1. ASSUME NEW u \in Users, UserCall(u) \/ UserStep(u) PROVE Known'
  <2>1. CASE \/ GrabAllocates(u) \/ GrabPushes(u) \/ GrabLooks(u) \/ GrabTop(u)
             \/ StartNotifies(u) \/ UserForgets(u)
    BY <2>1, KnownMoves
       DEF GrabAllocates, GrabPushes, GrabLooks, GrabTop, StartNotifies, UserForgets, events
  <2>2. ASSUME NEW kind \in Kinds, StartAdds(u, kind) PROVE Known'
    BY <2>2, StartAddsKnown
  <2>3. CASE StartSaves(u)
    BY <2>3, StartSavesKnown
  <2>4. CASE UserReturns(u)
    <3>1. \A v \in Users : pc[v] = "save" => pc'[v] = "save"
      BY <2>4 DEF UserReturns, Inv, TypeOK
    <3> QED
      BY <2>4, <3>1, KnownReturn DEF UserReturns
  <2> QED
    BY <1>1, <2>1, <2>2, <2>3, <2>4 DEF UserCall, UserStep
<1>2. CASE LoopStep \/ Spurious
  <2>1. CASE AfterTask
    <3>1. UNCHANGED <<pc, adding>>
      BY <2>1 DEF AfterTask, userState
    <3>2. returnTimer(running) \/ UNCHANGED events
      BY <2>1 DEF AfterTask
    <3> QED
      BY <3>1, <3>2, KnownReturn, KnownStays DEF events
  <2>2. CASE \/ Dispatch \/ NoTimers \/ PollAgain \/ BreakLoop \/ Exit \/ GoesOn
             \/ Sleep \/ Spurious
    <3>1. UNCHANGED <<events, userState>>
      BY <2>2 DEF Dispatch, NoTimers, PollAgain, BreakLoop, Exit, GoesOn, Sleep, Spurious, Goto
    <3> QED
      BY <3>1, KnownStays DEF events, userState
  <2> QED
    BY <1>2, <2>1, <2>2 DEF LoopStep
<1>3. ASSUME NEW e \in armed, Fire(e) PROVE Known'
  BY <1>3, KnownStays DEF Fire, userState
<1>4. CASE StopBegins
  BY <1>4, KnownStays DEF StopBegins, events, userState
<1>5. CASE StopRemoves
  BY <1>5, StopRemovesKnown
<1>6. CASE UNCHANGED vars
  BY <1>6, KnownStays DEF vars
<1> QED
  BY <1>1, <1>2, <1>3, <1>4, <1>5, <1>6 DEF Next

(* No event goes on firing that can neither be returned nor stopped:       *)
(* removeEvent finds every event of the base in eventVec_, but for the one *)
(* that a thread has added and not yet pushed back (TimerManager.cpp:103). *)
THEOREM EventsAreKnown == Spec => []ArmedIsKnown
<1>1. Init => Known
  BY DEF Init, Known, ArmedIsKnown, Adding
<1>2. Known => ArmedIsKnown
  BY DEF Known
<1> QED
  BY InitInv, NextInv, KnownNext, <1>1, <1>2, PTL DEF Spec
=============================================================================
