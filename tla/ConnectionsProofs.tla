------------------------- MODULE ConnectionsProofs --------------------------
(***************************************************************************)
(* What Connections guarantees for every number of clients, connections,   *)
(* descriptors and IO threads, every pipe capacity, with and without heart *)
(* beats.                                                                  *)
(***************************************************************************)
EXTENDS Connections, QueueLemmas

(* What the main thread holds where it is. *)
MainHands ==
  /\ mpc \in {"wrap", "handle", "notify", "push"} => mfd # Null
  /\ mpc \in {"handle", "notify", "push"} => msock # Null
  /\ mpc = "handle" => sockFd[msock] = mfd.fd
  /\ mpc \in {"notify", "push", "beatNotify"} => mconn \in Created
  /\ todo \subseteq Created
  /\ mutex = Main <=> mpc \in {"notify", "push"}

(* The IO threads inside close(). *)
Closers == {t \in IOs : pc[t] \in {"lock", "return"}}

(* What an IO thread holds where it is; and a pipe carries only pointers   *)
(* to connections of its own thread.                                       *)
IOHands ==
  /\ \A t \in IOs : pc[t] # "loop" => cur[t] \in Created
  /\ \A t \in IOs : mutex = t <=> pc[t] = "return"
  /\ \A t \in Closers : bev[cur[t]] = Null
  /\ \A t \in IOs : \A i \in DOMAIN pipe[t] : pipe[t][i] \in Created /\ io[pipe[t][i]] = t

(* A connection in use has a TSocket, and a bufferevent until its own IO   *)
(* thread closes it.                                                       *)
Wired ==
  \A k \in active \cup InHand :
    /\ sock[k] # Null
    /\ bev[k] # Null \/ \E t \in Closers : cur[t] = k

Places == ConnInOnePlace /\ ReusedIsClean /\ EnabledIsActive /\ Wired

Inv == /\ TypeOK /\ MainHands /\ IOHands /\ Places
       /\ ClosingHasSocket /\ SocketsUnshared /\ SocketMatchesBev

-----------------------------------------------------------------------------
(* No connection, no TSocket and no client exists at the start of serve(). *)
LEMMA InitInv == Init => Inv
BY ConnectionsAssumption
   DEF Init, Inv, Places, TypeOK, MainHands, IOHands, Closers, Wired, ConnInOnePlace,
       ReusedIsClean, EnabledIsActive, ClosingHasSocket, SocketsUnshared, SocketMatchesBev,
       Created, Reused, InHand, NoRepeat, Releasing, Holders, Queued, IOs

(* Steps of clients, of the kernel and of the pool: the containers and the *)
(* threads do not see them.                                                *)
LEMMA OutsideStep ==
  ASSUME Inv, TypeOK',
         UNCHANGED <<listenerVars, connVars, serverVars, mainVars, pc, cur, pipe>>
  PROVE  Inv'
<1> USE DEF listenerVars, connVars, serverVars, mainVars
<1>1. /\ Created' = Created /\ Reused' = Reused /\ InHand' = InHand
      /\ Closers' = Closers /\ Releasing' = Releasing
  BY DEF Created, Reused, InHand, Closers, Releasing
<1>2. MainHands' /\ IOHands'
  BY <1>1 DEF Inv, MainHands, IOHands
<1>3. Places'
  BY <1>1 DEF Inv, Places, ConnInOnePlace, ReusedIsClean, EnabledIsActive, Wired, NoRepeat
<1>4. ClosingHasSocket' /\ SocketMatchesBev'
  BY DEF Inv, ClosingHasSocket, SocketMatchesBev
<1>5. SocketsUnshared'
  BY <1>1 DEF Inv, SocketsUnshared, NoRepeat, Holders, Queued
<1> QED
  BY <1>2, <1>3, <1>4, <1>5 DEF Inv

LEMMA OutsideSteps ==
  ASSUME Inv,
         \/ UNCHANGED vars
         \/ \E c \in Clients : Connect(c) \/ HangUp(c)
         \/ \E t \in IOs : FinalizeBev(t)
         \/ \E task \in tasks : ProcessTask(task)
  PROVE  Inv'
<1>1. CASE UNCHANGED vars
  <2>1. TypeOK'
    BY <1>1 DEF Inv, TypeOK, vars, kernelVars, listenerVars, connVars, serverVars, mainVars,
                ioVars, poolVars
  <2> QED
    BY <1>1, <2>1, OutsideStep DEF vars, ioVars
<1>2. ASSUME NEW c \in Clients, Connect(c) \/ HangUp(c)
      PROVE  Inv'
  <2>1. TypeOK'
    BY <1>2 DEF Inv, TypeOK, Connect, HangUp, listenerVars, connVars, serverVars, mainVars,
                ioVars, poolVars
  <2> QED
    BY <1>2, <2>1, OutsideStep DEF Connect, HangUp, ioVars
<1>3. ASSUME NEW t \in IOs, FinalizeBev(t)
      PROVE  Inv'
  <2>1. TypeOK'
    BY <1>3 DEF Inv, TypeOK, FinalizeBev, CloseFds, listenerVars, connVars, serverVars,
                mainVars, poolVars
  <2> QED
    BY <1>3, <2>1, OutsideStep DEF FinalizeBev
<1>4. ASSUME NEW task \in tasks, ProcessTask(task)
      PROVE  Inv'
  <2>0. task.peer \in Clients /\ task.conn \in Conns
    BY <1>4 DEF Inv, TypeOK
  <2>2. got' \in [Clients -> SUBSET Clients] /\ tasks' \subseteq tasks
    <3>1. CASE UNCHANGED got
      BY <1>4, <3>1 DEF Inv, TypeOK, ProcessTask
    <3>2. CASE ~UNCHANGED got
      <4>1. bev[task.conn] \in Bufferevents
        BY <1>4, <2>0, <3>2 DEF Inv, TypeOK, ProcessTask
      <4>2. bev[task.conn].fd \in Fds
        BY <4>1 DEF Bufferevents
      <4>3. PICK c \in Clients : got' = [got EXCEPT ![c] = @ \cup {task.peer}]
        BY <1>4, <3>2, <4>2 DEF Inv, TypeOK, ProcessTask
      <4>4. got' \in [Clients -> SUBSET Clients]
        BY <2>0, <4>3 DEF Inv, TypeOK
      <4> QED
        BY <1>4, <4>4 DEF ProcessTask
    <3> QED
      BY <3>1, <3>2
  <2>1. TypeOK'
    BY <1>4, <2>2 DEF Inv, TypeOK, ProcessTask, kernelVars, listenerVars, connVars, serverVars,
                mainVars, ioVars
  <2> QED
    BY <1>4, <2>1, OutsideStep DEF ProcessTask, ioVars
<1> QED
  BY <1>1, <1>2, <1>3, <1>4

(* Steps that leave the TSockets where they are. *)
LEMMA SocketsFrame ==
  ASSUME SocketsUnshared, UNCHANGED <<sockFd, sockQueue, sock>>, Releasing \subseteq Releasing',
         mpc' = "handle" => UNCHANGED <<mpc, msock>>
  PROVE  SocketsUnshared'
BY DEF SocketsUnshared, NoRepeat, Holders, Queued

-----------------------------------------------------------------------------
(* Main thread: accepting a client. *)
LEMMA AcceptInv == ASSUME Inv, NEW c \in Clients, Accept(c) PROVE Inv'
<1> USE DEF Accept, listenerVars, connVars, serverVars, ioVars, poolVars
<1>1. /\ mpc = "loop" /\ mpc' = "wrap"
      /\ mfd' \in Bufferevents /\ mfd' # Null
      /\ UNCHANGED <<asked, listenerVars, connVars, serverVars, msock, mconn, todo, ioVars, poolVars>>
  BY ConnectionsAssumption DEF Bufferevents
<1>2. TypeOK'
  BY <1>1 DEF Inv, TypeOK
<1>3. /\ Created' = Created /\ Reused' = Reused /\ InHand = {} /\ InHand' = {}
      /\ Closers' = Closers /\ Releasing' = Releasing
  BY <1>1 DEF Created, Reused, InHand, Closers, Releasing
<1>4. MainHands' /\ IOHands'
  BY <1>1, <1>3 DEF Inv, MainHands, IOHands
<1>5. Places'
  BY <1>1, <1>3 DEF Inv, Places, ConnInOnePlace, ReusedIsClean, EnabledIsActive, Wired, NoRepeat
<1>6. ClosingHasSocket' /\ SocketMatchesBev'
  BY <1>1 DEF Inv, ClosingHasSocket, SocketMatchesBev
<1>7. SocketsUnshared'
  BY <1>1, <1>3 DEF Inv, SocketsUnshared, NoRepeat, Holders, Queued
<1> QED
  BY <1>2, <1>4, <1>5, <1>6, <1>7 DEF Inv

(* PortListener::ReuseTSocket: the TSocket that handlerConn receives is in *)
(* nobody's hands.                                                         *)
LEMMA ReuseTSocketInv == ASSUME Inv, ReuseTSocket PROVE Inv'
<1> USE DEF ReuseTSocket, kernelVars, connVars, serverVars, ioVars, poolVars
<1>1. /\ mpc = "wrap" /\ mpc' = "handle"
      /\ mfd \in Bufferevents /\ mfd.fd \in Fds
      /\ UNCHANGED <<kernelVars, connVars, serverVars, mfd, mconn, todo, ioVars, poolVars>>
  BY DEF Inv, TypeOK, MainHands, Bufferevents
<1>2. PICK s \in Socks :
        /\ IF sockQueue = <<>> THEN s \notin UsedSocks ELSE s = Head(sockQueue)
        /\ sockQueue' = IF sockQueue = <<>> THEN <<>> ELSE Tail(sockQueue)
        /\ sockFd' = [sockFd EXCEPT ![s] = mfd.fd]
        /\ sockets' = Insert(sockets, mfd.fd, s)
        /\ msock' = s
  BY DEF Fresh
<1>3. /\ sockQueue' \in Seq(Socks)
      /\ NoRepeat(sockQueue')
      /\ \A r \in Socks : Queued(r)' => Queued(r) /\ r # s
      /\ Holders(s) = {}
  <2>1. CASE sockQueue = <<>>
    BY <1>2, <2>1 DEF UsedSocks, Queued, NoRepeat, Holders
  <2>2. CASE sockQueue # <<>>
    <3>1. /\ Tail(sockQueue) \in Seq(Socks)
          /\ Head(sockQueue) \in {sockQueue[i] : i \in DOMAIN sockQueue}
          /\ LET t == Tail(sockQueue)
             IN /\ {t[i] : i \in DOMAIN t}
                     = {sockQueue[i] : i \in DOMAIN sockQueue} \ {Head(sockQueue)}
                /\ \A i, j \in DOMAIN t : t[i] = t[j] => i = j
      BY <2>2, TailElements DEF Inv, TypeOK, SocketsUnshared, NoRepeat
    <3>2. Queued(s)
      BY <1>2, <2>2, <3>1 DEF Queued
    <3> QED
      BY <1>2, <2>2, <3>1, <3>2 DEF Inv, SocketsUnshared, Queued, NoRepeat
  <2> QED
    BY <2>1, <2>2
<1>4. TypeOK'
  BY <1>1, <1>2, <1>3 DEF Inv, TypeOK, Insert
<1>5. /\ Created' = Created /\ Reused' = Reused /\ InHand = {} /\ InHand' = {}
      /\ Closers' = Closers /\ Releasing' = Releasing
      /\ \A r \in Socks : Holders(r)' = Holders(r)
  BY <1>1 DEF Created, Reused, InHand, Closers, Releasing, Holders
<1>6. MainHands' /\ IOHands'
  BY <1>1, <1>2, <1>5, ConnectionsAssumption DEF Inv, TypeOK, MainHands, IOHands
<1>7. Places'
  BY <1>1, <1>5 DEF Inv, Places, ConnInOnePlace, ReusedIsClean, EnabledIsActive, Wired, NoRepeat
<1>8. SocketsUnshared'
  BY <1>1, <1>2, <1>3, <1>5 DEF Inv, TypeOK, SocketsUnshared
<1>9. SocketMatchesBev'
  <2> SUFFICES ASSUME NEW k \in Conns, bev[k] # Null
               PROVE  sock[k] # Null /\ sockFd'[sock[k]] = bev[k].fd
    BY <1>1 DEF SocketMatchesBev
  <2>1. sock[k] \in Socks /\ sockFd[sock[k]] = bev[k].fd
    BY DEF Inv, TypeOK, SocketMatchesBev
  <2>2. k \notin Releasing
    BY DEF Inv, IOHands, Closers, Releasing
  <2>3. sock[k] # s
    BY <1>3, <2>2 DEF Holders
  <2> QED
    BY <1>2, <2>1, <2>3, ConnectionsAssumption DEF Inv, TypeOK
<1>10. ClosingHasSocket'
  <2>1. ASSUME NEW t \in IOs, pc[t] = "lock"
        PROVE  sockFd'[sock[cur[t]]] # Null
    <3>1. cur[t] \in Conns /\ sock[cur[t]] \in Socks /\ sockFd[sock[cur[t]]] # Null
      BY <2>1 DEF Inv, TypeOK, ClosingHasSocket
    <3> QED
      BY <1>1, <1>2, <3>1, ConnectionsAssumption DEF Inv, TypeOK
  <2> QED
    BY <1>1, <2>1 DEF Inv, ClosingHasSocket
<1> QED
  BY <1>4, <1>6, <1>7, <1>8, <1>9, <1>10 DEF Inv

(* handlerConn puts the TSocket into a connection that is neither active   *)
(* nor, from now on, queued.                                               *)
LEMMA InitConnInv ==
  ASSUME Inv, NEW k \in Conns, mpc = "handle", mutex = Null,
         k \notin Created \/ k \in Reused, InitConn(k),
         mconn' = k, mutex' = Main, mpc' = "notify", selectIO' \in IOs,
         reuse' \in Seq(Conns), NoRepeat(reuse'), Reused' = Reused \ {k},
         io' \in [Conns -> IOs], \A l \in Created : io'[l] = io[l],
         UNCHANGED <<active, kernelVars, listenerVars, mfd, msock, todo, ioVars, poolVars>>
  PROVE  Inv'
<1> USE DEF kernelVars, listenerVars, ioVars, poolVars
<1>1. /\ mfd \in Bufferevents /\ mfd # Null /\ msock \in Socks /\ msock # Null
      /\ sockFd[msock] = mfd.fd
  BY DEF Inv, TypeOK, MainHands
<1>2. /\ sock' = [sock EXCEPT ![k] = msock]
      /\ bev' = [bev EXCEPT ![k] = mfd]
      /\ enabled' = enabled \ {k}
      /\ app' = [app EXCEPT ![k] = "TRANS_INIT"]
  BY DEF InitConn
<1>3. k \notin active
  BY DEF Inv, Places, ConnInOnePlace
<1>4. TypeOK'
  BY <1>1, <1>2 DEF Inv, TypeOK, AppStates
<1>5. /\ Created' = Created \cup {k}
      /\ InHand = {} /\ InHand' = {k}
      /\ Closers' = Closers
  BY <1>2 DEF Inv, TypeOK, Created, InHand, Closers
<1>6. Releasing = {} /\ Releasing' = {}
  BY ConnectionsAssumption DEF Inv, IOHands, Releasing
<1>7. \A t \in Closers : cur[t] # k
  BY <1>3 DEF Inv, ClosingHasSocket, Closers
<1>8. MainHands'
  BY <1>1, <1>5 DEF Inv, MainHands
<1>9. IOHands'
  <2>1. \A t \in IOs : mutex' # t /\ pc[t] # "return"
    BY ConnectionsAssumption DEF Inv, IOHands
  <2>2. \A t \in Closers : bev'[cur[t]] = Null
    BY <1>2, <1>7 DEF Inv, TypeOK, IOHands, Closers
  <2> QED
    BY <1>5, <2>1, <2>2 DEF Inv, IOHands
<1>10. Places'
  <2>1. ConnInOnePlace'
    BY <1>3, <1>5 DEF Inv, Places, ConnInOnePlace
  <2>5. Reused \subseteq Conns
    BY DEF Inv, Places, ConnInOnePlace, Created
  <2>2. ReusedIsClean'
    BY <1>2, <2>5 DEF Inv, TypeOK, Places, ReusedIsClean
  <2>3. EnabledIsActive'
    BY <1>2 DEF Inv, TypeOK, Places, EnabledIsActive
  <2>4. Wired'
    BY <1>1, <1>2, <1>5, <1>7 DEF Inv, TypeOK, Places, Wired
  <2> QED
    BY <2>1, <2>2, <2>3, <2>4 DEF Places
<1>11. ClosingHasSocket'
  <2>1. \A t \in Closers : cur[t] \in Created /\ cur[t] \in Conns
    BY DEF Inv, IOHands, Closers, Created
  <2>2. \A t \in Closers : sock'[cur[t]] = sock[cur[t]] /\ io'[cur[t]] = io[cur[t]]
    BY <1>2, <1>7, <2>1 DEF Inv, TypeOK
  <2> QED
    BY <2>2 DEF Inv, ClosingHasSocket, Closers
<1>12. SocketsUnshared'
  <2>1. /\ ~Queued(msock) /\ Holders(msock) = {}
    BY <1>1 DEF Inv, SocketsUnshared
  <2>2. \A s \in Socks : Holders(s)' = IF s = msock THEN {k} ELSE Holders(s) \ {k}
    BY <1>2, <1>6, <2>1 DEF Inv, TypeOK, Holders
  <2>3. \A s \in Socks : Queued(s)' <=> Queued(s)
    BY DEF Queued
  <2> QED
    BY <2>1, <2>2, <2>3 DEF Inv, SocketsUnshared, NoRepeat
<1>13. SocketMatchesBev'
  BY <1>1, <1>2 DEF Inv, TypeOK, SocketMatchesBev
<1> QED
  BY <1>4, <1>8, <1>9, <1>10, <1>11, <1>12, <1>13 DEF Inv

LEMMA HandleNewInv == ASSUME Inv, HandleNew PROVE Inv'
<1>1. selectIO' \in IOs
  BY ConnectionsAssumption DEF Inv, TypeOK, HandleNew, IOs
<1>2. PICK k \in Conns \ Created :
        /\ InitConn(k)
        /\ io' = [io EXCEPT ![k] = selectIO']
        /\ mconn' = k
  BY DEF HandleNew, Fresh
<1>3. Reused = {} /\ Reused' = {}
  BY DEF HandleNew, Reused
<1>4. io' \in [Conns -> IOs] /\ \A l \in Created : io'[l] = io[l]
  BY <1>1, <1>2 DEF Inv, TypeOK, Created
<1>5. /\ mpc = "handle" /\ mutex = Null /\ mutex' = Main /\ mpc' = "notify"
      /\ UNCHANGED <<active, reuse, kernelVars, listenerVars, mfd, msock, todo,
                     ioVars, poolVars>>
  BY DEF HandleNew
<1>6. reuse' \in Seq(Conns) /\ NoRepeat(reuse')
  BY <1>5 DEF Inv, TypeOK, Places, ConnInOnePlace, NoRepeat
<1> QED
  BY <1>1, <1>2, <1>3, <1>4, <1>5, <1>6, InitConnInv

LEMMA HandleReuseInv == ASSUME Inv, HandleReuse PROVE Inv'
<1>1. /\ reuse \in Seq(Conns) /\ reuse # <<>>
      /\ \A i, j \in DOMAIN reuse : reuse[i] = reuse[j] => i = j
  BY DEF HandleReuse, Inv, TypeOK, Places, ConnInOnePlace, NoRepeat
<1>2. /\ Tail(reuse) \in Seq(Conns)
      /\ Head(reuse) \in Conns /\ Head(reuse) \in Reused
      /\ NoRepeat(Tail(reuse))
      /\ {Tail(reuse)[i] : i \in DOMAIN Tail(reuse)} = Reused \ {Head(reuse)}
  BY <1>1, TailElements DEF NoRepeat, Reused
<1>3. reuse' = Tail(reuse) /\ Reused' = Reused \ {Head(reuse)}
  BY <1>2 DEF HandleReuse, Reused
<1> QED
  BY <1>2, <1>3, InitConnInv DEF HandleReuse, Inv, TypeOK

-----------------------------------------------------------------------------
(* A pointer is sent to the thread of its connection. *)
LEMMA SendPipes ==
  ASSUME Inv, NEW k \in Created, Send(k)
  PROVE  /\ pipe' \in [IOs -> Seq(Conns)]
         /\ \A t \in IOs : \A i \in DOMAIN pipe'[t] :
              pipe'[t][i] \in Created /\ io[pipe'[t][i]] = t
<1>1. k \in Conns /\ io[k] \in IOs /\ pipe \in [IOs -> Seq(Conns)]
  BY DEF Inv, TypeOK, Created
<1>2. pipe' = [pipe EXCEPT ![io[k]] = Append(@, k)]
  BY DEF Send
<1>3. pipe' \in [IOs -> Seq(Conns)]
  BY <1>1, <1>2
<1>4. ASSUME NEW t \in IOs, NEW i \in DOMAIN pipe'[t]
      PROVE  pipe'[t][i] \in Created /\ io[pipe'[t][i]] = t
  <2>1. CASE t # io[k]
    BY <1>1, <1>2, <1>4, <2>1 DEF Inv, IOHands
  <2>2. CASE t = io[k]
    <3>1. pipe'[t] = Append(pipe[t], k) /\ pipe[t] \in Seq(Conns)
      BY <1>1, <1>2, <2>2
    <3>2. pipe'[t][i] \in {pipe[t][j] : j \in DOMAIN pipe[t]} \cup {k}
      BY <1>1, <1>4, <3>1, AppendElements
    <3> QED
      BY <2>2, <3>2 DEF Inv, IOHands
  <2> QED
    BY <2>1, <2>2
<1> QED
  BY <1>3, <1>4

(* handlerConn: the connection, in hand until then, becomes active. *)
LEMMA NotifyConnInv == ASSUME Inv, NotifyConn PROVE Inv'
<1> USE DEF NotifyConn, kernelVars, listenerVars, connVars, serverVars, poolVars
<1>1. /\ pipe' \in [IOs -> Seq(Conns)]
      /\ \A t \in IOs : \A i \in DOMAIN pipe'[t] :
           pipe'[t][i] \in Created /\ io[pipe'[t][i]] = t
  BY SendPipes DEF Inv, MainHands
<1>2. TypeOK'
  BY <1>1 DEF Inv, TypeOK
<1>3. /\ Created' = Created /\ Reused' = Reused /\ InHand' = InHand
      /\ Closers' = Closers /\ Releasing' = Releasing
  BY DEF Created, Reused, InHand, Closers, Releasing
<1>4. MainHands' /\ IOHands'
  BY <1>1, <1>3 DEF Inv, MainHands, IOHands
<1>5. Places'
  BY <1>3 DEF Inv, Places, ConnInOnePlace, ReusedIsClean, EnabledIsActive, Wired, NoRepeat
<1>6. ClosingHasSocket' /\ SocketMatchesBev'
  BY DEF Inv, ClosingHasSocket, SocketMatchesBev
<1>7. SocketsUnshared'
  BY <1>3, SocketsFrame DEF Inv
<1> QED
  BY <1>2, <1>4, <1>5, <1>6, <1>7 DEF Inv

LEMMA PushConnInv == ASSUME Inv, PushConn PROVE Inv'
<1> USE DEF PushConn, kernelVars, listenerVars, connVars, ioVars, poolVars
<1>1. /\ mpc = "push" /\ mpc' = "loop" /\ mutex = Main /\ mutex' = Null
      /\ mconn \in Created /\ mconn \in Conns /\ active' = active \cup {mconn}
  BY DEF Inv, MainHands, Created
<1>2. TypeOK'
  BY <1>1 DEF Inv, TypeOK
<1>3. /\ Created' = Created /\ Reused' = Reused /\ InHand = {mconn} /\ InHand' = {}
      /\ Closers' = Closers /\ Releasing' = Releasing
  BY <1>1 DEF Created, Reused, InHand, Closers, Releasing
<1>4. MainHands'
  BY <1>1, <1>3, ConnectionsAssumption DEF Inv, MainHands
<1>5. IOHands'
  BY <1>1, <1>3, ConnectionsAssumption DEF Inv, IOHands
<1>6. Places'
  BY <1>1, <1>3
     DEF Inv, Places, ConnInOnePlace, ReusedIsClean, EnabledIsActive, Wired, NoRepeat
<1>7. ClosingHasSocket' /\ SocketMatchesBev'
  BY <1>1 DEF Inv, ClosingHasSocket, SocketMatchesBev
<1>8. SocketsUnshared'
  BY <1>1, <1>3, SocketsFrame DEF Inv
<1> QED
  BY <1>2, <1>4, <1>5, <1>6, <1>7, <1>8 DEF Inv

-----------------------------------------------------------------------------
(* Main thread: the heart beat disturbs appstate and the pipes only. *)
LEMMA HeartBeatInv ==
  ASSUME Inv, HeartBeat \/ (\E k \in Conns : Beat(k)) \/ BeatNotify
  PROVE  Inv'
<1> USE DEF kernelVars, listenerVars, connVars, serverVars, ioVars, poolVars
<1> DEFINE Effect ==
      /\ mpc \in {"loop", "beat", "beatNotify"} /\ mpc' \in {"loop", "beat", "beatNotify"}
      /\ UNCHANGED <<kernelVars, listenerVars, sock, bev, enabled, io, serverVars, mfd, msock,
                     pc, cur, deferred, poolVars>>
      /\ app' \in [Conns -> AppStates \cup {"none"}] /\ Created' = Created
      /\ todo' \subseteq Created
      /\ mconn' \in Conns \cup {Null}
      /\ mpc' = "beatNotify" => mconn' \in Created
      /\ pipe' \in [IOs -> Seq(Conns)]
      /\ \A t \in IOs : \A i \in DOMAIN pipe'[t] :
           pipe'[t][i] \in Created /\ io[pipe'[t][i]] = t
<1>1. Effect
  <2>1. CASE HeartBeat
    BY <2>1 DEF HeartBeat, Inv, TypeOK, MainHands, IOHands, Places, ConnInOnePlace, Created
  <2>2. ASSUME NEW k \in Conns, Beat(k)
        PROVE  Effect
    <3>1. k \in Created /\ app' = [app EXCEPT ![k] = "APP_CLOSE_CONNECTION"]
      BY <2>2 DEF Beat, Inv, MainHands
    <3>2. app' \in [Conns -> AppStates \cup {"none"}] /\ Created' = Created
      BY <3>1 DEF Inv, TypeOK, Created, AppStates
    <3> QED
      BY <2>2, <3>1, <3>2 DEF Beat, Inv, TypeOK, MainHands, IOHands
  <2>3. CASE BeatNotify
    <3>1. /\ pipe' \in [IOs -> Seq(Conns)]
          /\ \A t \in IOs : \A i \in DOMAIN pipe'[t] :
               pipe'[t][i] \in Created /\ io[pipe'[t][i]] = t
      BY <2>3, SendPipes DEF BeatNotify, Inv, MainHands
    <3>2. Created' = Created
      BY <2>3 DEF BeatNotify, Created
    <3>3. mpc' \in {"loop", "beat"} /\ mconn' = Null
      BY <2>3 DEF BeatNotify
    <3> QED
      BY <2>3, <3>1, <3>2, <3>3 DEF BeatNotify, Inv, TypeOK, MainHands
  <2> QED
    BY <2>1, <2>2, <2>3
<1>2. TypeOK'
  BY <1>1 DEF Inv, TypeOK, Created
<1>3. /\ Reused' = Reused /\ InHand = {} /\ InHand' = {}
      /\ Closers' = Closers /\ Releasing' = Releasing
  BY <1>1 DEF Reused, InHand, Closers, Releasing
<1>4. MainHands' /\ IOHands'
  BY <1>1, <1>3 DEF Inv, MainHands, IOHands
<1>5. Places'
  BY <1>1, <1>3
     DEF Inv, Places, ConnInOnePlace, ReusedIsClean, EnabledIsActive, Wired, NoRepeat
<1>6. ClosingHasSocket' /\ SocketMatchesBev'
  BY <1>1 DEF Inv, ClosingHasSocket, SocketMatchesBev
<1>7. SocketsUnshared'
  BY <1>1, <1>3, SocketsFrame DEF Inv
<1> QED
  BY <1>2, <1>4, <1>5, <1>6, <1>7 DEF Inv

-----------------------------------------------------------------------------
(* IO threads.  A pointer received from the pipe is one that was sent.     *)
LEMMA ReceivePipes ==
  ASSUME Inv, NEW t \in IOs, Receive(t)
  PROVE  /\ pipe' \in [IOs -> Seq(Conns)]
         /\ Head(pipe[t]) \in Created /\ io[Head(pipe[t])] = t
         /\ \A u \in IOs : \A i \in DOMAIN pipe'[u] :
              pipe'[u][i] \in Created /\ io[pipe'[u][i]] = u
<1>1. /\ pipe \in [IOs -> Seq(Conns)] /\ pipe[t] \in Seq(Conns) /\ pipe[t] # <<>>
      /\ pipe' = [pipe EXCEPT ![t] = Tail(pipe[t])]
  BY DEF Receive, Inv, TypeOK
<1>2. /\ Tail(pipe[t]) \in Seq(Conns) /\ Head(pipe[t]) = pipe[t][1]
      /\ 1 \in DOMAIN pipe[t]
      /\ \A i \in DOMAIN Tail(pipe[t]) :
           i + 1 \in DOMAIN pipe[t] /\ Tail(pipe[t])[i] = pipe[t][i + 1]
  BY <1>1
<1>3. pipe' \in [IOs -> Seq(Conns)]
  BY <1>1, <1>2
<1>4. Head(pipe[t]) \in Created /\ io[Head(pipe[t])] = t
  BY <1>2 DEF Inv, IOHands
<1>5. ASSUME NEW u \in IOs, NEW i \in DOMAIN pipe'[u]
      PROVE  pipe'[u][i] \in Created /\ io[pipe'[u][i]] = u
  BY <1>1, <1>2, <1>5 DEF Inv, IOHands
<1> QED
  BY <1>3, <1>4, <1>5

(* A connection of a thread that is not inside close() has its             *)
(* bufferevent, if it is in use.                                           *)
LEMMA OwnIsWired ==
  ASSUME Inv, NEW t \in IOs, pc[t] = "loop", NEW k \in active, io[k] = t
  PROVE  bev[k] # Null /\ sock[k] # Null
BY DEF Inv, Places, Wired, Closers, ClosingHasSocket

(* notifyHandler enables a connection, or ignores the pointer. *)
LEMMA NotifyEnableInv == ASSUME Inv, NEW t \in IOs, NotifyEnable(t) PROVE Inv'
<1> DEFINE k == Head(pipe[t])
<1> USE DEF kernelVars, listenerVars, serverVars, mainVars, poolVars
<1>1. /\ pipe' \in [IOs -> Seq(Conns)]
      /\ k \in Created /\ k \in Conns /\ io[k] = t
      /\ \A u \in IOs : \A i \in DOMAIN pipe'[u] :
           pipe'[u][i] \in Created /\ io[pipe'[u][i]] = u
  BY ReceivePipes DEF NotifyEnable, Created
<1>2. /\ k \in active /\ pc[t] = "loop"
      /\ app' = [app EXCEPT ![k] = "APP_READ_FRAME_SIZE"]
      /\ enabled' = enabled \cup {k}
      /\ UNCHANGED <<kernelVars, listenerVars, sock, bev, io, serverVars, mainVars,
                     pc, cur, deferred, poolVars>>
  BY DEF NotifyEnable, Receive
<1>3. bev[k] # Null
  BY <1>1, <1>2, OwnIsWired
<1>4. app' \in [Conns -> AppStates \cup {"none"}] /\ Created' = Created
  BY <1>1, <1>2 DEF Inv, TypeOK, Created, AppStates
<1>5. TypeOK'
  BY <1>1, <1>2, <1>4 DEF Inv, TypeOK
<1>6. /\ Reused' = Reused /\ InHand' = InHand
      /\ Closers' = Closers /\ Releasing' = Releasing
  BY <1>2 DEF Reused, InHand, Closers, Releasing
<1>7. MainHands' /\ IOHands'
  BY <1>1, <1>2, <1>4, <1>6 DEF Inv, MainHands, IOHands
<1>8. Places'
  BY <1>2, <1>3, <1>4, <1>6
     DEF Inv, Places, ConnInOnePlace, ReusedIsClean, EnabledIsActive, Wired, NoRepeat
<1>9. ClosingHasSocket' /\ SocketMatchesBev'
  BY <1>2 DEF Inv, ClosingHasSocket, SocketMatchesBev
<1>10. SocketsUnshared'
  BY <1>2, <1>6, SocketsFrame DEF Inv
<1> QED
  BY <1>5, <1>7, <1>8, <1>9, <1>10 DEF Inv

LEMMA NotifyIgnoreInv == ASSUME Inv, NEW t \in IOs, NotifyIgnore(t) PROVE Inv'
<1> USE DEF kernelVars, listenerVars, connVars, serverVars, mainVars, poolVars
<1>1. /\ pipe' \in [IOs -> Seq(Conns)]
      /\ \A u \in IOs : \A i \in DOMAIN pipe'[u] :
           pipe'[u][i] \in Created /\ io[pipe'[u][i]] = u
      /\ UNCHANGED <<kernelVars, listenerVars, connVars, serverVars, mainVars,
                     pc, cur, deferred, poolVars>>
  BY ReceivePipes DEF NotifyIgnore
<1>2. TypeOK'
  BY <1>1 DEF Inv, TypeOK
<1>3. /\ Created' = Created /\ Reused' = Reused /\ InHand' = InHand
      /\ Closers' = Closers /\ Releasing' = Releasing
  BY <1>1 DEF Created, Reused, InHand, Closers, Releasing
<1>4. MainHands' /\ IOHands'
  BY <1>1, <1>3 DEF Inv, MainHands, IOHands
<1>5. Places'
  BY <1>1, <1>3
     DEF Inv, Places, ConnInOnePlace, ReusedIsClean, EnabledIsActive, Wired, NoRepeat
<1>6. ClosingHasSocket' /\ SocketMatchesBev'
  BY <1>1 DEF Inv, ClosingHasSocket, SocketMatchesBev
<1>7. SocketsUnshared'
  BY <1>1, <1>3, SocketsFrame DEF Inv
<1> QED
  BY <1>2, <1>4, <1>5, <1>6, <1>7 DEF Inv

(* A request is handed to the pool, and run() returns. *)
LEMMA RequestInv ==
  ASSUME Inv, NEW t \in IOs, RequestDone(t) \/ \E k \in Conns : ReadRequest(t, k)
  PROVE  Inv'
<1> USE DEF kernelVars, listenerVars, connVars, serverVars, mainVars, poolVars
<1> DEFINE Effect ==
      /\ pc[t] \in {"loop", "inRun"} /\ \E p \in {"loop", "inRun"} : pc' = [pc EXCEPT ![t] = p]
      /\ \E k \in Conns \cup {Null} : cur' = [cur EXCEPT ![t] = k]
      /\ pc'[t] # "loop" => cur'[t] \in Created
      /\ app' \in [Conns -> AppStates \cup {"none"}] /\ Created' = Created
      /\ asked' \subseteq Clients /\ tasks' \subseteq [conn : Conns, peer : Clients]
      /\ UNCHANGED <<client, fdOf, got, listenerVars, sock, bev, enabled, io, serverVars,
                     mainVars, pipe, deferred>>
<1>1. Effect
  <2>1. CASE RequestDone(t)
    <3>1. cur[t] \in Created /\ app' = [app EXCEPT ![cur[t]] = "APP_READ_FRAME_SIZE"]
      BY <2>1 DEF RequestDone, Inv, IOHands
    <3>2. app' \in [Conns -> AppStates \cup {"none"}] /\ Created' = Created
      BY <3>1 DEF Inv, TypeOK, Created, AppStates
    <3> QED
      BY <2>1, <3>2 DEF RequestDone, Inv, TypeOK
  <2>2. ASSUME NEW k \in Conns, ReadRequest(t, k)
        PROVE  Effect
    <3>1. bev[k] \in Bufferevents
      BY <2>2 DEF ReadRequest, Watching, Inv, TypeOK
    <3>2. k \in Created /\ Created' = Created
      BY <2>2 DEF ReadRequest, Created
    <3>3. /\ asked' = asked \cup {bev[k].peer}
          /\ tasks' = tasks \cup {[conn |-> k, peer |-> bev[k].peer]}
      BY <2>2 DEF ReadRequest
    <3>4. asked' \subseteq Clients /\ tasks' \subseteq [conn : Conns, peer : Clients]
      BY <3>1, <3>3 DEF Bufferevents, Inv, TypeOK
    <3> QED
      BY <2>2, <3>2, <3>4 DEF ReadRequest, Inv, TypeOK
  <2> QED
    BY <2>1, <2>2
<1>2. TypeOK'
  BY <1>1 DEF Inv, TypeOK
<1>3. /\ Reused' = Reused /\ InHand' = InHand
      /\ Closers' = Closers /\ t \notin Closers
      /\ \A u \in IOs : u # t => pc'[u] = pc[u] /\ cur'[u] = cur[u]
  BY <1>1 DEF Reused, InHand, Closers, Inv, TypeOK
<1>4. Releasing' = Releasing
  BY <1>1, <1>3 DEF Releasing, Inv, TypeOK
<1>5. MainHands' /\ IOHands'
  BY <1>1, <1>3 DEF Inv, TypeOK, MainHands, IOHands, Closers
<1>6. Places'
  BY <1>1, <1>3
     DEF Inv, Places, ConnInOnePlace, ReusedIsClean, EnabledIsActive, Wired, NoRepeat, Closers
<1>7. ClosingHasSocket' /\ SocketMatchesBev'
  BY <1>1, <1>3 DEF Inv, ClosingHasSocket, SocketMatchesBev, Closers
<1>8. SocketsUnshared'
  BY <1>1, <1>4, SocketsFrame DEF Inv
<1> QED
  BY <1>2, <1>5, <1>6, <1>7, <1>8 DEF Inv

-----------------------------------------------------------------------------
(* TConnection::close begins on an active connection of the own thread. *)
LEMMA FreeBevInv ==
  ASSUME Inv, NEW t \in IOs, NEW k \in active, io[k] = t, pc[t] = "loop", FreeBev(t, k),
         pipe' \in [IOs -> Seq(Conns)],
         \A u \in IOs : \A i \in DOMAIN pipe'[u] :
           pipe'[u][i] \in Created /\ io[pipe'[u][i]] = u,
         asked' \subseteq Clients,
         UNCHANGED <<client, listenerVars, sock, app, io, serverVars, mainVars, poolVars>>
  PROVE  Inv'
<1> USE DEF listenerVars, serverVars, mainVars, poolVars
<1>1. /\ bev' = [bev EXCEPT ![k] = Null]
      /\ enabled' = enabled \ {k}
      /\ pc' = [pc EXCEPT ![t] = "lock"]
      /\ cur' = [cur EXCEPT ![t] = k]
  BY DEF FreeBev
<1>2. k \in Conns /\ k \in Created
  BY DEF Inv, TypeOK, Places, ConnInOnePlace
<1>3. /\ bev[k] \in Bufferevents /\ bev[k].fd \in Fds /\ bev[k].fd # Null
      /\ sock[k] # Null /\ sockFd[sock[k]] = bev[k].fd
  <2>1. bev[k] \in Bufferevents /\ bev[k] # Null /\ sock[k] # Null
    BY <1>2, OwnIsWired DEF Inv, TypeOK
  <2>2. bev[k].fd \in Fds
    BY <2>1 DEF Bufferevents
  <2> QED
    BY <1>2, <2>1, <2>2, ConnectionsAssumption DEF Inv, SocketMatchesBev
<1>4. /\ fdOf' \in [Fds -> Clients \cup {Null}]
      /\ deferred' \in [IOs -> SUBSET Fds]
  <2>1. /\ fdOf' = CloseFds({bev[k].fd}) \/ fdOf' = fdOf
        /\ deferred' = [deferred EXCEPT ![t] = @ \cup {bev[k].fd}] \/ deferred' = deferred
    BY DEF FreeBev
  <2>2. CloseFds({bev[k].fd}) \in [Fds -> Clients \cup {Null}]
    BY DEF CloseFds, Inv, TypeOK
  <2>3. [deferred EXCEPT ![t] = @ \cup {bev[k].fd}] \in [IOs -> SUBSET Fds]
    BY <1>3 DEF Inv, TypeOK
  <2>4. fdOf \in [Fds -> Clients \cup {Null}] /\ deferred \in [IOs -> SUBSET Fds]
    BY DEF Inv, TypeOK
  <2>5. fdOf' \in [Fds -> Clients \cup {Null}]
    BY <2>1, <2>2, <2>4
  <2>6. deferred' \in [IOs -> SUBSET Fds]
    BY <2>1, <2>3, <2>4
  <2> QED
    BY <2>5, <2>6
<1>5. TypeOK'
  BY <1>1, <1>2, <1>4 DEF Inv, TypeOK
<1>6. /\ Created' = Created /\ Reused' = Reused /\ InHand' = InHand
      /\ Closers' = Closers \cup {t} /\ t \notin Closers
      /\ \A u \in IOs \ {t} : pc'[u] = pc[u] /\ cur'[u] = cur[u]
      /\ pc'[t] = "lock" /\ cur'[t] = k
  BY <1>1 DEF Created, Reused, InHand, Closers, Inv, TypeOK
<1>7. Releasing' = Releasing
  BY SMTT(30), <1>6 DEF Releasing
<1>8. \A u \in Closers : u # t /\ cur'[u] = cur[u] /\ cur[u] # k
  BY <1>6 DEF Inv, ClosingHasSocket, Closers
<1>9. MainHands'
  BY <1>6 DEF Inv, MainHands
<1>10. IOHands'
  <2>1. \A u \in IOs : pc'[u] # "loop" => cur'[u] \in Created
    BY <1>2, <1>6 DEF Inv, IOHands
  <2>2. \A u \in IOs : mutex = u <=> pc'[u] = "return"
    BY <1>6 DEF Inv, IOHands
  <2>3. \A u \in Closers \cup {t} : bev'[cur'[u]] = Null
    BY <1>1, <1>2, <1>6, <1>8 DEF Inv, TypeOK, IOHands
  <2> QED
    BY <1>6, <2>1, <2>2, <2>3 DEF IOHands
<1>11. Places'
  <2>1. ConnInOnePlace'
    BY <1>6 DEF Inv, Places, ConnInOnePlace, NoRepeat
  <2>5. Reused \subseteq Conns
    BY DEF Inv, Places, ConnInOnePlace, Created
  <2>2. ReusedIsClean'
    BY <1>1, <1>6, <2>5 DEF Inv, TypeOK, Places, ReusedIsClean
  <2>3. EnabledIsActive'
    BY <1>1 DEF Inv, TypeOK, Places, EnabledIsActive
  <2>4. Wired'
    <3>1. InHand \subseteq Conns
      BY DEF Inv, Places, ConnInOnePlace, Created
    <3>2. \A l \in active \cup InHand : l # k => bev'[l] = bev[l]
      BY <1>1, <3>1 DEF Inv, TypeOK
    <3> SUFFICES ASSUME NEW l \in active \cup InHand
                 PROVE  sock[l] # Null /\ (bev'[l] # Null \/ \E u \in Closers' : cur'[u] = l)
      BY <1>6 DEF Wired
    <3>3. CASE l = k
      BY <1>3, <1>6, <3>3
    <3>4. CASE l # k
      <4>1. sock[l] # Null /\ (bev[l] # Null \/ \E u \in Closers : cur[u] = l)
        BY DEF Inv, Places, Wired
      <4> QED
        BY <1>6, <1>8, <3>2, <3>4, <4>1
    <3> QED
      BY <3>3, <3>4
  <2> QED
    BY <2>1, <2>2, <2>3, <2>4 DEF Places
<1>12. ClosingHasSocket'
  <2>1. \A u \in Closers' : cur'[u] \in active /\ sock[cur'[u]] # Null /\ io[cur'[u]] = u
    BY <1>3, <1>6, <1>8 DEF Inv, ClosingHasSocket, Closers
  <2>2. \A u \in IOs : pc'[u] = "lock" => sockFd[sock[cur'[u]]] # Null
    BY <1>3, <1>6 DEF Inv, ClosingHasSocket
  <2> QED
    BY <2>1, <2>2 DEF ClosingHasSocket, Closers
<1>13. SocketMatchesBev'
  BY <1>1 DEF Inv, TypeOK, SocketMatchesBev
<1>14. SocketsUnshared'
  BY <1>7, SocketsFrame DEF Inv
<1> QED
  BY <1>5, <1>9, <1>10, <1>11, <1>12, <1>13, <1>14 DEF Inv

LEMMA CloseBeginsInv ==
  ASSUME Inv, NEW t \in IOs,
         NotifyClose(t) \/ \E k \in Conns : ReadClose(t, k) \/ ErrorCb(t, k)
  PROVE  Inv'
<1>1. CASE NotifyClose(t)
  <2>1. /\ pipe' \in [IOs -> Seq(Conns)]
        /\ io[Head(pipe[t])] = t
        /\ \A u \in IOs : \A i \in DOMAIN pipe'[u] :
             pipe'[u][i] \in Created /\ io[pipe'[u][i]] = u
    BY <1>1, ReceivePipes DEF NotifyClose
  <2> QED
    BY <1>1, <2>1, FreeBevInv DEF NotifyClose, Receive, Inv, TypeOK
<1>2. ASSUME NEW k \in Conns, ReadClose(t, k) \/ ErrorCb(t, k)
      PROVE  Inv'
  <2>1. k \in active /\ bev[k] \in Bufferevents
    BY <1>2 DEF ReadClose, ErrorCb, Watching, Inv, TypeOK, Places, EnabledIsActive
  <2>2. asked' \subseteq Clients
    BY <1>2, <2>1 DEF ReadClose, ErrorCb, Bufferevents, Inv, TypeOK
  <2>3. /\ UNCHANGED <<client, listenerVars, sock, app, io, serverVars, mainVars, pipe, poolVars>>
        /\ FreeBev(t, k) /\ io[k] = t /\ pc[t] = "loop"
    BY <1>2 DEF ReadClose, ErrorCb
  <2> QED
    <3>1. /\ pipe' \in [IOs -> Seq(Conns)]
          /\ \A u \in IOs : \A i \in DOMAIN pipe'[u] :
               pipe'[u][i] \in Created /\ io[pipe'[u][i]] = u
      BY <2>3 DEF Inv, TypeOK, IOHands
    <3> QED
      BY <2>1, <2>2, <2>3, <3>1, FreeBevInv
<1> QED
  BY <1>1, <1>2

-----------------------------------------------------------------------------
(* returnTConnection, first the TSocket: its connection is the only one    *)
(* that used it, and does not count any more.                              *)
LEMMA ReturnSocketInv == ASSUME Inv, NEW t \in IOs, ReturnSocket(t) PROVE Inv'
<1> DEFINE k == cur[t]
           s == sock[k]
           f == sockFd[s]
<1> USE DEF connVars, mainVars, poolVars
<1>1. /\ k \in active /\ k \in Conns /\ s \in Socks /\ f \in Fds /\ io[k] = t
  BY DEF ReturnSocket, Inv, TypeOK, ClosingHasSocket
<1>2. /\ pc[t] = "lock" /\ pc' = [pc EXCEPT ![t] = "return"]
      /\ mutex = Null /\ mutex' = t
      /\ sockets' = [sockets EXCEPT ![f] = Null]
      /\ fdOf' = CloseFds({f})
      /\ sockFd' = [sockFd EXCEPT ![s] = Null]
      /\ sockQueue' = Append(sockQueue, s)
      /\ UNCHANGED <<client, asked, connVars, active, reuse, selectIO, mainVars,
                     cur, pipe, deferred, poolVars>>
  BY DEF ReturnSocket
<1>3. /\ sockQueue' \in Seq(Socks)
      /\ {sockQueue'[i] : i \in DOMAIN sockQueue'}
           = {sockQueue[i] : i \in DOMAIN sockQueue} \cup {s}
  <2>1. sockQueue \in Seq(Socks) /\ s \in Socks
    BY <1>1 DEF Inv, TypeOK
  <2> HIDE DEF s
  <2>2. LET q == Append(sockQueue, s)
        IN  /\ q \in Seq(Socks)
            /\ {q[i] : i \in DOMAIN q} = {sockQueue[i] : i \in DOMAIN sockQueue} \cup {s}
    BY <2>1, AppendElements
  <2>3. sockQueue' = Append(sockQueue, s)
    BY <1>2
  <2> QED
    BY <2>2, <2>3
<1>4. TypeOK'
  <2>1. CloseFds({f}) \in [Fds -> Clients \cup {Null}]
    BY DEF CloseFds, Inv, TypeOK
  <2> QED
    BY <1>1, <1>2, <1>3, <2>1 DEF Inv, TypeOK
<1>5. /\ Created' = Created /\ Reused' = Reused /\ Closers' = Closers
      /\ InHand = {} /\ InHand' = {} /\ mpc \notin {"notify", "push"}
  BY <1>2, ConnectionsAssumption
     DEF Created, Reused, Closers, InHand, Inv, TypeOK, MainHands
<1>6. Releasing = {} /\ Releasing' = {k}
  <2>1. \A u \in IOs : pc[u] # "return"
    BY <1>2, ConnectionsAssumption DEF Inv, IOHands
  <2> QED
    BY <1>2, <2>1 DEF Releasing, Inv, TypeOK
<1>7. /\ Holders(s) = {k} /\ ~Queued(s) /\ ~(mpc = "handle" /\ msock = s)
      /\ \A r \in Socks : Holders(r)' = Holders(r) \ {k}
      /\ \A r \in Socks : Queued(r)' <=> Queued(r) \/ r = s
  <2>1. k \in Holders(s)
    BY <1>1, <1>6 DEF Holders
  <2>2. Holders(s) = {k} /\ ~Queued(s) /\ ~(mpc = "handle" /\ msock = s)
    BY <1>1, <2>1 DEF Inv, SocketsUnshared
  <2>3. \A r \in Socks : Holders(r)' = Holders(r) \ {k}
    BY <1>2, <1>6 DEF Holders
  <2>4. \A r \in Socks : Queued(r)' <=> Queued(r) \/ r = s
    BY <1>3 DEF Queued
  <2> QED
    BY <2>2, <2>3, <2>4
<1>8. MainHands'
  <2>1. t # Main /\ t # Null
    BY ConnectionsAssumption
  <2>2. mpc = "handle" => msock \in Socks /\ msock # s
    BY <1>7 DEF Inv, TypeOK, MainHands
  <2> QED
    BY <1>1, <1>2, <1>5, <2>1, <2>2 DEF Inv, TypeOK, MainHands
<1>9. IOHands'
  BY <1>2, <1>5, ConnectionsAssumption DEF Inv, TypeOK, IOHands
<1>10. Places'
  BY <1>2, <1>5
     DEF Inv, Places, ConnInOnePlace, ReusedIsClean, EnabledIsActive, Wired, NoRepeat
<1>11. ClosingHasSocket'
  <2>1. \A u \in Closers : cur[u] \in active /\ sock[cur[u]] # Null /\ io[cur[u]] = u
    BY DEF Inv, ClosingHasSocket, Closers
  <2>2. ASSUME NEW u \in IOs, pc'[u] = "lock"
        PROVE  sockFd'[sock[cur[u]]] # Null
    <3>1. u # t /\ pc[u] = "lock" /\ u \in Closers
      BY <1>2, <2>2 DEF Inv, TypeOK, Closers
    <3>2. cur[u] \in Conns /\ sock[cur[u]] \in Socks /\ cur[u] # k
      BY <1>1, <2>1, <3>1 DEF Inv, TypeOK
    <3>3. cur[u] \in Holders(sock[cur[u]])
      BY <1>6, <3>2 DEF Holders
    <3>4. sock[cur[u]] # s
      BY <1>7, <3>2, <3>3
    <3> QED
      BY <1>1, <1>2, <3>1, <3>2, <3>4 DEF Inv, TypeOK, ClosingHasSocket
  <2> QED
    BY <1>2, <1>5, <2>1, <2>2 DEF ClosingHasSocket, Closers
<1>12. SocketMatchesBev'
  <2> SUFFICES ASSUME NEW l \in Conns, bev[l] # Null
               PROVE  sock[l] # Null /\ sockFd'[sock[l]] = bev[l].fd
    BY <1>2 DEF SocketMatchesBev
  <2>1. sock[l] # Null /\ sock[l] \in Socks /\ sockFd[sock[l]] = bev[l].fd
    BY DEF Inv, TypeOK, SocketMatchesBev
  <2>2. l # k
    BY <1>2 DEF Inv, IOHands, Closers
  <2>3. sock[l] # s
    BY <1>6, <1>7, <2>1, <2>2 DEF Holders
  <2> QED
    BY <1>1, <1>2, <2>1, <2>3 DEF Inv, TypeOK
<1>13. SocketsUnshared'
  <2>1. NoRepeat(sockQueue)'
    BY <1>1, <1>2, <1>7, AppendNoRepeat DEF Inv, TypeOK, SocketsUnshared, NoRepeat, Queued
  <2>2. \A r \in Socks : sockFd'[r] = IF r = s THEN Null ELSE sockFd[r]
    BY <1>2 DEF Inv, TypeOK
  <2> QED
    BY <1>2, <1>7, <2>1, <2>2 DEF Inv, SocketsUnshared
<1> QED
  BY <1>4, <1>8, <1>9, <1>10, <1>11, <1>12, <1>13 DEF Inv

(* returnTConnection, then the connection: from active to reusable. *)
LEMMA ReturnConnInv == ASSUME Inv, NEW t \in IOs, ReturnConn(t) PROVE Inv'
<1> DEFINE k == cur[t]
<1> USE DEF kernelVars, listenerVars, poolVars
<1>1. /\ k \in active /\ k \in Conns /\ k \in Created /\ bev[k] = Null /\ sock[k] # Null
  BY DEF ReturnConn, LeaveReturn, Inv, TypeOK, ClosingHasSocket, IOHands, Closers, Created
<1>2. /\ pc[t] = "return" /\ pc' = [pc EXCEPT ![t] = "late"]
      /\ mutex = t /\ mutex' = Null
      /\ active' = active \ {k}
      /\ sock' = [sock EXCEPT ![k] = Null]
      /\ reuse' = Append(reuse, k)
      /\ UNCHANGED <<kernelVars, listenerVars, bev, enabled, app, io, selectIO,
                     mpc, mfd, msock, mconn, cur, pipe, deferred, poolVars>>
  BY DEF ReturnConn, LeaveReturn, Inv, IOHands
<1>3. todo' \subseteq todo \cup active
  BY DEF ReturnConn, LeaveReturn, Shifted
<1>4. /\ reuse' \in Seq(Conns)
      /\ Reused' = Reused \cup {k}
  <2>1. reuse \in Seq(Conns) /\ k \in Conns
    BY <1>1 DEF Inv, TypeOK
  <2> HIDE DEF k
  <2>2. LET q == Append(reuse, k)
        IN  /\ q \in Seq(Conns)
            /\ {q[i] : i \in DOMAIN q} = {reuse[i] : i \in DOMAIN reuse} \cup {k}
    BY <2>1, AppendElements
  <2> QED
    BY <1>2, <2>2 DEF Reused
<1>5. TypeOK'
  BY <1>1, <1>2, <1>3, <1>4 DEF Inv, TypeOK
<1>6. /\ Created' = Created /\ InHand' = InHand /\ mpc \notin {"notify", "push"}
      /\ InHand = {}
  BY <1>2, ConnectionsAssumption DEF Created, InHand, Inv, TypeOK, MainHands
<1>7. /\ \A u \in IOs \ {t} : pc'[u] = pc[u]
      /\ pc'[t] = "late"
      /\ Closers' = Closers \ {t} /\ t \in Closers
  BY <1>2 DEF Closers, Inv, TypeOK
<1>8. \A u \in Closers' : cur[u] # k
  BY <1>7 DEF Inv, ClosingHasSocket, Closers
<1>9. \A u \in IOs : u # t => pc[u] # "return"
  BY <1>2 DEF Inv, IOHands
<1>10. Releasing = {k} /\ Releasing' = {}
  BY <1>2, <1>7, <1>9 DEF Releasing
<1>11. MainHands'
  <2>1. todo' \subseteq Created
    BY <1>3 DEF Inv, MainHands, Places, ConnInOnePlace
  <2> QED
    BY <1>2, <1>6, <2>1, ConnectionsAssumption DEF Inv, MainHands
<1>12. IOHands'
  <2>1. \A u \in IOs : pc'[u] # "loop" => cur[u] \in Created
    BY <1>1, <1>7 DEF Inv, IOHands
  <2>2. \A u \in IOs : Null = u <=> pc'[u] = "return"
    BY <1>7, <1>9, ConnectionsAssumption
  <2> QED
    BY <1>2, <1>6, <1>7, <2>1, <2>2 DEF Inv, IOHands
<1>13. Places'
  <2>1. k \notin Reused
    BY <1>1 DEF Inv, Places, ConnInOnePlace
  <2>2. NoRepeat(reuse)'
    BY SMTT(30), <1>1, <1>2, <2>1, AppendNoRepeat
       DEF Inv, TypeOK, Places, ConnInOnePlace, NoRepeat, Reused
  <2>3. ConnInOnePlace'
    BY <1>1, <1>2, <1>4, <1>6, <2>1, <2>2 DEF Inv, Places, ConnInOnePlace
  <2>4. k \notin enabled
    BY <1>1 DEF Inv, Places, EnabledIsActive
  <2>5. ReusedIsClean'
    <3>1. Reused \subseteq Conns
      BY DEF Inv, Places, ConnInOnePlace, Created
    <3> QED
      BY <1>1, <1>2, <1>4, <2>4, <3>1 DEF Inv, TypeOK, Places, ReusedIsClean
  <2>6. EnabledIsActive'
    BY <1>2, <2>4 DEF Inv, Places, EnabledIsActive
  <2>7. Wired'
    <3>1. \A l \in active \ {k} : l \in Conns /\ sock'[l] = sock[l]
      BY <1>2 DEF Inv, TypeOK
    <3>2. \A u \in Closers : cur[u] # k => u \in Closers'
      BY <1>7
    <3> QED
      BY <1>2, <1>6, <3>1, <3>2 DEF Inv, Places, Wired
  <2> QED
    BY <2>3, <2>5, <2>6, <2>7 DEF Places
<1>14. ClosingHasSocket'
  <2>1. \A u \in Closers' : cur[u] \in active \ {k} /\ sock[cur[u]] # Null /\ io[cur[u]] = u
    BY <1>7, <1>8 DEF Inv, ClosingHasSocket, Closers
  <2>2. \A u \in Closers' : cur[u] \in Conns /\ sock'[cur[u]] = sock[cur[u]]
    BY <1>2, <2>1 DEF Inv, TypeOK
  <2>3. \A u \in IOs : pc'[u] = "lock" => u \in Closers' /\ pc[u] = "lock"
    BY <1>7 DEF Closers
  <2> QED
    BY <1>2, <2>1, <2>2, <2>3 DEF Inv, ClosingHasSocket, Closers
<1>15. SocketMatchesBev'
  BY <1>1, <1>2 DEF Inv, TypeOK, SocketMatchesBev
<1>16. SocketsUnshared'
  <2>1. \A r \in Socks : Holders(r)' = Holders(r)
    <3>1. \A l \in Conns : sock'[l] = IF l = k THEN Null ELSE sock[l]
      BY <1>2 DEF Inv, TypeOK
    <3> QED
      BY <1>10, <3>1, ConnectionsAssumption DEF Holders
  <2>2. \A r \in Socks : Queued(r)' <=> Queued(r)
    BY <1>2 DEF Queued
  <2> QED
    BY <1>2, <2>1, <2>2 DEF Inv, SocketsUnshared, NoRepeat
<1> QED
  BY <1>5, <1>11, <1>12, <1>13, <1>14, <1>15, <1>16 DEF Inv

(* close() ends with its late assignment to appstate. *)
LEMMA CloseReturnsInv == ASSUME Inv, NEW t \in IOs, CloseReturns(t) PROVE Inv'
<1> USE DEF kernelVars, listenerVars, serverVars, mainVars, poolVars
<1>1. /\ pc[t] = "late" /\ pc' = [pc EXCEPT ![t] = "loop"]
      /\ cur' = [cur EXCEPT ![t] = Null]
      /\ cur[t] \in Created /\ app' = [app EXCEPT ![cur[t]] = "APP_CLOSE_CONNECTION"]
      /\ UNCHANGED <<kernelVars, listenerVars, sock, bev, enabled, io, serverVars, mainVars,
                     pipe, deferred, poolVars>>
  BY DEF CloseReturns, Inv, IOHands
<1>2. app' \in [Conns -> AppStates \cup {"none"}] /\ Created' = Created
  BY <1>1 DEF Inv, TypeOK, Created, AppStates
<1>3. TypeOK'
  BY <1>1, <1>2 DEF Inv, TypeOK
<1>4. /\ Reused' = Reused /\ InHand' = InHand
      /\ Closers' = Closers /\ t \notin Closers
      /\ \A u \in IOs : u # t => pc'[u] = pc[u] /\ cur'[u] = cur[u]
      /\ pc'[t] = "loop"
  BY <1>1 DEF Reused, InHand, Closers, Inv, TypeOK
<1>5. Releasing' = Releasing
  BY <1>1, <1>4 DEF Releasing
<1>6. MainHands' /\ IOHands'
  BY <1>1, <1>2, <1>4 DEF Inv, MainHands, IOHands, Closers
<1>7. Places'
  BY <1>1, <1>2, <1>4
     DEF Inv, Places, ConnInOnePlace, ReusedIsClean, EnabledIsActive, Wired, NoRepeat, Closers
<1>8. ClosingHasSocket' /\ SocketMatchesBev'
  BY <1>1, <1>4 DEF Inv, ClosingHasSocket, SocketMatchesBev
<1>9. SocketsUnshared'
  BY <1>1, <1>5, SocketsFrame DEF Inv
<1> QED
  BY <1>3, <1>6, <1>7, <1>8, <1>9 DEF Inv

-----------------------------------------------------------------------------
LEMMA NextInv == Inv /\ [Next]_vars => Inv'
<1> SUFFICES ASSUME Inv, [Next]_vars
             PROVE  Inv'
  OBVIOUS
<1>1. CASE \/ UNCHANGED vars
           \/ \E c \in Clients : Connect(c) \/ HangUp(c)
           \/ \E t \in IOs : FinalizeBev(t)
           \/ \E task \in tasks : ProcessTask(task)
  BY <1>1, OutsideSteps
<1>2. CASE \E c \in Clients : Accept(c)
  BY <1>2, AcceptInv
<1>3. CASE HeartBeat \/ MainStep
  BY <1>3, HeartBeatInv, ReuseTSocketInv, HandleNewInv, HandleReuseInv, NotifyConnInv,
     PushConnInv DEF MainStep
<1>4. ASSUME NEW t \in IOs, IOStep(t), ~FinalizeBev(t)
      PROVE  Inv'
  BY <1>4, NotifyEnableInv, NotifyIgnoreInv, CloseBeginsInv, RequestInv, ReturnSocketInv,
     ReturnConnInv, CloseReturnsInv DEF IOStep, Notified, Closing
<1> QED
  BY <1>1, <1>2, <1>3, <1>4 DEF Next

(* The inductive invariant: the six properties below and what the threads  *)
(* hold between their steps.                                               *)
THEOREM InvHolds == Spec => []Inv
BY InitInv, NextInv, PTL DEF Spec

(* A TConnection is active, queued once for reuse, or in handlerConn's     *)
(* hands; the queued one has no bufferevent and no TSocket; and no round   *)
(* robin selects an IO thread that does not exist.                         *)
THEOREM ConnectionsAreSound == Spec => []ConnectionsSound
<1>1. Inv => ConnectionsSound
  BY DEF Inv, Places, ConnectionsSound
<1> QED
  BY <1>1, InvHolds, PTL

(* Callbacks of a connection run only while it is active, and close()      *)
(* returns an active connection with a TSocket, from its own thread, once. *)
THEOREM CallbacksAreSound == Spec => []CallbacksSound
<1>1. Inv => CallbacksSound
  BY DEF Inv, Places, CallbacksSound
<1> QED
  BY <1>1, InvHolds, PTL

(* A TSocket has one user, and a connection's TSocket and bufferevent hold *)
(* the same descriptor.                                                    *)
THEOREM SocketsAreSound == Spec => []SocketsSound
<1>1. Inv => SocketsSound
  BY DEF Inv, SocketsSound
<1> QED
  BY <1>1, InvHolds, PTL
=============================================================================
