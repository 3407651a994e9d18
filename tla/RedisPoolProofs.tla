-------------------------- MODULE RedisPoolProofs ---------------------------
(***************************************************************************)
(* What RedisPool guarantees for every number of connections and of        *)
(* threads that use them.                                                  *)
(***************************************************************************)
EXTENDS RedisPool, QueueLemmas, TLAPS

(* Where a thread is inside the critical section of a connection, and      *)
(* where it is inside hiredis.                                             *)
Locked == {"command", "ping", "reply", "move"}
Talking == {"command", "ping", "reply"}

(* A user knows a connection from grabCedis to the end of its command, and *)
(* the pool thread from pop_front to setUseable.                           *)
HandsMatchPc ==
  /\ \A u \in Users : held[u] # Null <=> pc[u] \in Locked \cup {"grabbed"}
  /\ tmp # Null <=> rpc \in {"reconnect", "enable"}

(* The mutex of a connection belongs to the thread in its critical section. *)
LocksMatchPc ==
  \A r \in Conns, u \in Users : mutex[r] = u <=> pc[u] \in Locked /\ held[u] = r

(* useable was tested under the mutex, and only the owner of the mutex     *)
(* resets it.                                                              *)
TalksWhileUsable == \A u \in Users : pc[u] \in Talking => useable[held[u]]

Hands == TypeOK /\ HandsMatchPc /\ LocksMatchPc

Inv == Hands /\ TalksWhileUsable /\ UnusableInOnePlace /\ NoLostPush

-----------------------------------------------------------------------------
LEMMA InitInv == Init => Inv
<1> SUFFICES ASSUME Init PROVE Inv
  OBVIOUS
<1> USE RedisAssumption DEF Init
<1>1. TypeOK
  BY DEF TypeOK, Conns
<1>2. HandsMatchPc /\ LocksMatchPc /\ TalksWhileUsable /\ NoLostPush
  BY DEF HandsMatchPc, LocksMatchPc, TalksWhileUsable, NoLostPush, Locked, Talking
<1>3. Moving = {} /\ Queued = {}
  BY DEF Moving, Queued
<1>4. UnusableInOnePlace
  BY <1>3 DEF UnusableInOnePlace
<1> QED
  BY <1>1, <1>2, <1>4 DEF Inv, Hands

(* Types, hands and locks depend on each other only. *)
LEMMA HandsInv == Hands /\ [Next]_vars => Hands'
<1> SUFFICES ASSUME Hands, [Next]_vars PROVE Hands'
  OBVIOUS
<1> USE RedisAssumption
    DEF Hands, HandsMatchPc, LocksMatchPc, Locked, TypeOK, userVars, threadVars, exitVars
<1>1. CASE UNCHANGED vars
  BY <1>1 DEF vars
<1>2. ASSUME NEW r \in Conns, Drop(r) PROVE Hands'
  BY <1>2 DEF Drop
<1>3. ASSUME NEW u \in Users, Grab(u) PROVE Hands'
  BY <1>3 DEF Grab
<1>4. ASSUME NEW u \in Users, Look(u) PROVE Hands'
  <2>1. idx' \in Conns
    BY <1>4 DEF Look, Conns
  <2>2. CASE useable[idx]
    BY <1>4, <2>1, <2>2 DEF Look
  <2>3. CASE ~useable[idx]
    BY <1>4, <2>1, <2>3 DEF Look
  <2> QED
    BY <2>2, <2>3
<1>5. ASSUME NEW u \in Users, Refused(u) PROVE Hands'
  BY <1>5 DEF Refused
<1>6. ASSUME NEW u \in Users, Begin(u) PROVE Hands'
  BY <1>6 DEF Begin
<1>7. ASSUME NEW u \in Users, Done(u) \/ GetReply(u) PROVE Hands'
  BY <1>7 DEF Done, GetReply
<1>8. ASSUME NEW u \in Users, PingAnswered(u) PROVE Hands'
  BY <1>8 DEF PingAnswered
<1>9. ASSUME NEW u \in Users, Fail(u) PROVE Hands'
  <2>1. useable' \in [Conns -> BOOLEAN]
    <3>1. FALSE \in BOOLEAN
      OBVIOUS
    <3> QED
      BY <1>9, <3>1, Zenon DEF Fail
  <2> QED
    BY <1>9, <2>1 DEF Fail
<1>10. ASSUME NEW u \in Users, Move(u) PROVE Hands'
  <2>1. held[u] \in Conns
    BY <1>10 DEF Move
  <2>2. queue' \in Seq(Conns)
    BY <1>10, <2>1, AppendElements DEF Move
  <2> QED
    BY <1>10, <2>1, <2>2 DEF Move
<1>11. CASE Loop \/ PopWaits \/ PopNothing \/ SpuriousWakeup
  BY <1>11 DEF Loop, PopWaits, PopNothing, SpuriousWakeup
<1>12. CASE Pop
  <2>1. Head(queue) \in Conns /\ Tail(queue) \in Seq(Conns)
    BY <1>12, TailElements DEF Pop
  <2> QED
    BY <1>12, <2>1 DEF Pop
<1>13. CASE Reconnect
  BY <1>13 DEF Reconnect
<1>14. CASE Enable
  <2>1. useable' \in [Conns -> BOOLEAN]
    BY <1>14, Zenon DEF Enable
  <2> QED
    BY <1>14, <2>1 DEF Enable
<1>15. CASE Exit
  <2>1. stop' \in BOOLEAN /\ waking' \in BOOLEAN
    BY <1>15 DEF Exit
  <2> QED
    BY <1>15, <2>1 DEF Exit
<1>16. CASE WakeAll
  <2>1. waking' \in BOOLEAN
    BY <1>16 DEF WakeAll
  <2> QED
    BY <1>16, <2>1 DEF WakeAll
<1> QED
  BY <1>1, <1>2, <1>3, <1>4, <1>5, <1>6, <1>7, <1>8, <1>9, <1>10, <1>11, <1>12, <1>13,
     <1>14, <1>15, <1>16 DEF Next, Command, ThreadStep

-----------------------------------------------------------------------------
(* Steps that touch neither useable nor the places of the unusable         *)
(* connections.                                                            *)
LEMMA QuietStep ==
  ASSUME UnusableInOnePlace, UNCHANGED <<useable, queue, tmp, held>>,
         \A u \in Users : pc[u] = "move" <=> pc'[u] = "move"
  PROVE  UnusableInOnePlace'
<1>1. Moving' = Moving /\ Queued' = Queued
  BY DEF Moving, Queued
<1> QED
  BY <1>1 DEF UnusableInOnePlace

(* The connection u is about to move, and nobody else is. *)
LEMMA MoverIsAlone ==
  ASSUME Hands, NEW u \in Users, pc[u] \in Locked
  PROVE  /\ held[u] \in Conns
         /\ \A v \in Users : pc[v] \in Locked /\ held[v] = held[u] => v = u
BY RedisAssumption DEF Hands, TypeOK, HandsMatchPc, LocksMatchPc

(* The rest of Inv is preserved where Hands is. *)
LEMMA PlacesInv == Inv /\ Hands' /\ [Next]_vars => UnusableInOnePlace'
<1> SUFFICES ASSUME Inv, Hands', [Next]_vars PROVE UnusableInOnePlace'
  OBVIOUS
<1> USE RedisAssumption DEF Inv, userVars, threadVars, exitVars
<1>1. CASE UNCHANGED vars
  BY <1>1, QuietStep DEF vars
<1>2. ASSUME NEW r \in Conns, Drop(r) PROVE UnusableInOnePlace'
  BY <1>2, QuietStep DEF Drop
<1>3. ASSUME NEW u \in Users, Grab(u) \/ Look(u) \/ Refused(u) \/ Done(u) \/ GetReply(u)
      PROVE  UnusableInOnePlace'
  <2>1. pc[u] # "move" /\ pc'[u] # "move"
    BY <1>3 DEF Grab, Look, Refused, Done, GetReply, Hands, TypeOK
  <2>2. /\ \A v \in Users : pc[v] = "move" <=> pc'[v] = "move"
        /\ \A v \in Users \ {u} : held'[v] = held[v]
        /\ UNCHANGED <<useable, queue, tmp>>
    BY <1>3, <2>1 DEF Grab, Look, Refused, Done, GetReply, Hands, TypeOK
  <2>3. Moving' = Moving /\ Queued' = Queued
    BY <2>1, <2>2 DEF Moving, Queued
  <2> QED
    BY <2>2, <2>3 DEF UnusableInOnePlace
<1>4. ASSUME NEW u \in Users, Begin(u) \/ PingAnswered(u) PROVE UnusableInOnePlace'
  BY <1>4, QuietStep DEF Begin, PingAnswered, Hands, TypeOK
<1>5. ASSUME NEW u \in Users, Fail(u) PROVE UnusableInOnePlace'
  <2> DEFINE h == held[u]
  <2>1. h \in Conns /\ useable[h]
    BY <1>5, MoverIsAlone DEF Fail, Locked, Talking, TalksWhileUsable
  <2>2. h \notin Moving \cup Queued \cup ({tmp} \ {Null})
    BY <2>1 DEF UnusableInOnePlace
  <2>3. Moving' = Moving \cup {h} /\ Queued' = Queued
    BY <1>5, <2>1 DEF Fail, Moving, Queued, Hands, TypeOK
  <2>4. {r \in Conns : ~useable'[r]} = {r \in Conns : ~useable[r]} \cup {h}
    BY <1>5, <2>1 DEF Fail, Hands, TypeOK
  <2>5. h # tmp
    BY <2>1, <2>2 DEF Conns
  <2> QED
    BY <1>5, <2>2, <2>3, <2>4, <2>5 DEF Fail, UnusableInOnePlace
<1>6. ASSUME NEW u \in Users, Move(u) PROVE UnusableInOnePlace'
  <2> DEFINE h == held[u]
  <2>1. /\ h \in Conns
        /\ \A v \in Users : pc[v] \in Locked /\ held[v] = h => v = u
    BY <1>6, MoverIsAlone DEF Move, Locked
  <2>2. h \in Moving /\ h \notin Queued /\ tmp # h
    BY <1>6, <2>1 DEF Move, Moving, UnusableInOnePlace
  <2>3. Moving' = Moving \ {h}
    <3>1. \A v \in Users : pc[v] = "move" /\ held[v] = h => v = u
      BY <2>1 DEF Locked
    <3>2. \A v \in Users : /\ pc'[v] = "move" <=> pc[v] = "move" /\ v # u
                           /\ v # u => held'[v] = held[v]
      BY <1>6 DEF Move, Hands, TypeOK
    <3> QED
      BY <3>1, <3>2, <1>6 DEF Moving, Move
  <2>4. /\ Queued' = Queued \cup {h}
        /\ \A i, j \in DOMAIN queue' : queue'[i] = queue'[j] => i = j
    <3>1. queue \in Seq(Conns) /\ queue' = Append(queue, h)
      BY <1>6 DEF Move, Hands, TypeOK
    <3>2. \A i \in DOMAIN queue : queue[i] # h
      BY <2>2 DEF Queued
    <3>3. {queue'[i] : i \in DOMAIN queue'} = {queue[i] : i \in DOMAIN queue} \cup {h}
      BY <2>1, <3>1, AppendElements
    <3>4. \A i, j \in DOMAIN queue : queue[i] = queue[j] => i = j
      BY DEF UnusableInOnePlace
    <3>5. \A i, j \in DOMAIN queue' : queue'[i] = queue'[j] => i = j
      BY <2>1, <3>1, <3>2, <3>4, AppendNoRepeat
    <3> QED
      BY <3>3, <3>5 DEF Queued
  <2> QED
    BY <1>6, <2>2, <2>3, <2>4 DEF Move, UnusableInOnePlace
<1>7. CASE Loop \/ PopWaits \/ PopNothing \/ SpuriousWakeup \/ Reconnect \/ Exit \/ WakeAll
  BY <1>7, QuietStep DEF Loop, PopWaits, PopNothing, SpuriousWakeup, Reconnect, Exit, WakeAll
<1>8. CASE Pop
  <2>1. Moving' = Moving /\ tmp = Null /\ tmp' = Head(queue)
    BY <1>8 DEF Pop, Moving, Hands, HandsMatchPc
  <2>2. /\ queue \in Seq(Conns) /\ queue # <<>> /\ queue' = Tail(queue)
        /\ \A i, j \in DOMAIN queue : queue[i] = queue[j] => i = j
    BY <1>8 DEF Pop, Hands, TypeOK, UnusableInOnePlace
  <2>3. /\ Head(queue) \in Conns
        /\ Head(queue) \in {queue[i] : i \in DOMAIN queue}
        /\ {queue'[i] : i \in DOMAIN queue'} = {queue[i] : i \in DOMAIN queue} \ {Head(queue)}
        /\ \A i, j \in DOMAIN queue' : queue'[i] = queue'[j] => i = j
    BY <2>2, TailElements
  <2>4. Queued' = Queued \ {tmp'} /\ tmp' \in Queued /\ tmp' # Null
    BY <2>1, <2>3 DEF Queued
  <2> QED
    BY <1>8, <2>1, <2>3, <2>4 DEF Pop, UnusableInOnePlace
<1>9. CASE Enable
  <2>1. tmp \in Conns /\ tmp \notin Moving \cup Queued
    BY <1>9 DEF Enable, Hands, TypeOK, HandsMatchPc, UnusableInOnePlace
  <2>2. Moving' = Moving /\ Queued' = Queued /\ tmp' = Null
    BY <1>9 DEF Enable, Moving, Queued
  <2>3. {r \in Conns : ~useable'[r]} = {r \in Conns : ~useable[r]} \ {tmp}
    BY <1>9, <2>1 DEF Enable, Hands, TypeOK
  <2>4. Null \notin Moving \cup Queued
    BY DEF UnusableInOnePlace
  <2> QED
    BY <1>9, <2>1, <2>2, <2>3, <2>4 DEF Enable, UnusableInOnePlace
<1> QED
  BY <1>1, <1>2, <1>3, <1>4, <1>5, <1>6, <1>7, <1>8, <1>9 DEF Next, Command, ThreadStep

(* useable is reset by the owner of the mutex, who is then past its        *)
(* command, and set only where it was reset.                               *)
LEMMA TalksInv == Inv /\ [Next]_vars => TalksWhileUsable'
<1> SUFFICES ASSUME Inv, [Next]_vars PROVE TalksWhileUsable'
  OBVIOUS
<1> USE RedisAssumption
    DEF Inv, Hands, TypeOK, TalksWhileUsable, Talking, userVars, threadVars, exitVars
<1>1. CASE UNCHANGED vars
  BY <1>1 DEF vars
<1>2. CASE \E r \in Conns : Drop(r)
  BY <1>2 DEF Drop
<1>3. ASSUME NEW u \in Users, Grab(u) \/ Look(u) \/ Refused(u) \/ Begin(u) \/ Done(u)
      PROVE  TalksWhileUsable'
  BY <1>3 DEF Grab, Look, Refused, Begin, Done
<1>4. ASSUME NEW u \in Users, PingAnswered(u) \/ GetReply(u) \/ Move(u)
      PROVE  TalksWhileUsable'
  BY <1>4 DEF PingAnswered, GetReply, Move
<1>5. ASSUME NEW u \in Users, Fail(u) PROVE TalksWhileUsable'
  <2>1. \A v \in Users : pc[v] \in Talking /\ held[v] = held[u] => v = u
    BY <1>5, MoverIsAlone DEF Fail, Locked
  <2>2. \A v \in Users : pc[v] \in Talking => held[v] \in Conns
    BY DEF HandsMatchPc, Locked
  <2> QED
    BY <1>5, <2>1, <2>2 DEF Fail
<1>6. CASE Loop \/ PopWaits \/ Pop \/ PopNothing \/ SpuriousWakeup \/ Reconnect \/ Exit \/ WakeAll
  BY <1>6 DEF Loop, PopWaits, Pop, PopNothing, SpuriousWakeup, Reconnect, Exit, WakeAll
<1>7. CASE Enable
  <2>1. tmp \in Conns
    BY <1>7 DEF Enable, HandsMatchPc
  <2>2. \A v \in Users : pc[v] \in Talking => held[v] \in Conns
    BY DEF HandsMatchPc, Locked
  <2> QED
    BY <1>7, <2>1, <2>2 DEF Enable
<1> QED
  BY <1>1, <1>2, <1>3, <1>4, <1>5, <1>6, <1>7 DEF Next, Command, ThreadStep

(* push notifies the sleeper. *)
LEMMA SleepInv == Inv /\ [Next]_vars => NoLostPush'
<1> SUFFICES ASSUME Inv, [Next]_vars PROVE NoLostPush'
  OBVIOUS
<1> USE DEF Inv, NoLostPush, userVars, threadVars, exitVars
<1>1. CASE UNCHANGED vars
  BY <1>1 DEF vars
<1>2. ASSUME NEW u \in Users, Grab(u) \/ Look(u) \/ Command(u) PROVE NoLostPush'
  BY <1>2 DEF Grab, Look, Command, Refused, Begin, Done, PingAnswered, GetReply, Fail, Move
<1>3. CASE ThreadStep \/ SpuriousWakeup
  BY <1>3 DEF ThreadStep, SpuriousWakeup, Loop, PopWaits, Pop, PopNothing, Reconnect, Enable
<1>4. CASE Exit \/ WakeAll \/ \E r \in Conns : Drop(r)
  BY <1>4 DEF Exit, WakeAll, Drop
<1> QED
  BY <1>1, <1>2, <1>3, <1>4 DEF Next

LEMMA NextInv == Inv /\ [Next]_vars => Inv'
BY HandsInv, PlacesInv, TalksInv, SleepInv DEF Inv

(* The mutex keeps two users apart, useable the user and the pool thread.  *)
LEMMA InvExclusive == Inv => ContextExclusive
<1> SUFFICES ASSUME Inv PROVE ContextExclusive
  OBVIOUS
<1>1. \A r \in Conns : \A u, v \in Inside(r) : u = v
  BY MoverIsAlone DEF Inside, Inv, Locked
<1>2. ASSUME rpc \in {"reconnect", "enable"} PROVE Inside(tmp) = {}
  <2>1. tmp \in Conns /\ ~useable[tmp]
    BY <1>2 DEF Inv, Hands, TypeOK, HandsMatchPc, UnusableInOnePlace
  <2> QED
    BY <2>1 DEF Inside, Inv, TalksWhileUsable, Talking
<1> QED
  BY <1>1, <1>2 DEF ContextExclusive

THEOREM InvHolds == Spec => []Inv
<1>1. Init => Inv
  BY InitInv
<1>2. Inv /\ [Next]_vars => Inv'
  BY NextInv
<1> QED
  BY <1>1, <1>2, PTL DEF Spec


(* hiredis works on a context for one thread at a time, the thread that    *)
(* reconnects without the mutex included.                                  *)
THEOREM ContextsHaveOneUser == Spec => []ContextExclusive
<1> QED
  BY InvExclusive, InvHolds, PTL

(* An unusable connection is about to be moved, queued once, or in the     *)
(* hands of the pool thread, a usable one is in none of these places, and  *)
(* the pool thread does not sleep while a connection waits for it.         *)
THEOREM UnusableAreKept == Spec => []UnusableKept
<1>1. Inv => UnusableKept
  BY DEF Inv, Hands, UnusableKept
<1> QED
  BY <1>1, InvHolds, PTL
=============================================================================
