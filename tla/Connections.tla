---------------------------- MODULE Connections -----------------------------
(***************************************************************************)
(* The life of a client connection: main/MainServer.cpp, PortListener.cpp, *)
(* TConnection.cpp, TSocket.cpp and IOThread.cpp together.                 *)
(*                                                                         *)
(*   - The main thread accepts a descriptor, wraps it in a TSocket         *)
(*     (PortListener), puts that in a new or reused TConnection and sends  *)
(*     the TConnection through a pipe to the IO thread it belongs to       *)
(*     (MainServer::handlerConn).  The command "hb" on stdin makes it walk *)
(*     the active connections (MainServer::heartBeat).                     *)
(*   - An IO thread runs a libevent loop: the pipe (notifyHandler), and    *)
(*     the bufferevents of its connections (read_cb, error_cb).            *)
(*   - A pool worker executes the ProcessTask of a request and writes the  *)
(*     answer to the connection the request was read from.                 *)
(*                                                                         *)
(* connMutex of MainServer guards the two containers in handlerConn and    *)
(* returnTConnection; isActive, heartBeat and ProcessTask take no lock.    *)
(* A step is what one thread does between two points where another thread  *)
(* can observe or change what it uses.  Parsing is left to the framing     *)
(* modules: a request is one token.  The pool is a set of pending tasks    *)
(* (MThreadPool.tla); all IO threads have created their pipes.             *)
(***************************************************************************)
EXTENDS Naturals, Sequences, FiniteSets

CONSTANTS Clients,     \* the peers; each connects at most once
          Conns,       \* TConnection objects the server can allocate
          Socks,       \* TSocket objects it can allocate
          NFds,        \* descriptors are 1..NFds
          NIO,         \* IO threads are 0..NIO-1
          PipeSize,    \* pointers a notification pipe can hold
          Commands,    \* what may be typed on stdin
          Main,        \* the main thread
          Null         \* NULL, INVALID_SOCKET, nobody

Fds == 1..NFds
IOs == 0..(NIO - 1)

(* A bufferevent: the descriptor it works on, and the client the           *)
(* descriptor was accepted for when the bufferevent was created.           *)
Bufferevents == [fd : Fds, peer : Clients]

ASSUME ConnectionsAssumption ==
  /\ NFds \in Nat /\ NIO \in Nat \ {0} /\ PipeSize \in Nat \ {0}
  /\ Main \notin IOs
  /\ Null \notin Clients \cup Conns \cup Socks \cup Fds \cup IOs \cup {Main}
  /\ Null \notin Bufferevents

AppStates == {"TRANS_INIT", "APP_READ_FRAME_SIZE", "APP_CLOSE_CONNECTION"}

VARIABLES
  client,    \* "away", "backlog", "open" or "hung" (it has hung up)
  fdOf,      \* kernel: the client a descriptor leads to, Null when closed
  asked,     \* clients that have sent their request
  got,       \* got[c]: whose requests the answers sent to c are for
  sockFd,    \* TSocket::socket_
  sockets,   \* PortListener::activeSocket
  sockQueue, \* PortListener::reuseSocketQueue
  sock,      \* TConnection::socket_
  bev,       \* TConnection::bev
  enabled,   \* connections whose bufferevent is enabled
  app,       \* TConnection::appstate, "none" before construction
  io,        \* TConnection::iothread_
  active,    \* MainServer::activeTConnectionVector
  reuse,     \* MainServer::ReuseConnectionQueue
  selectIO,  \* MainServer::selectIOThread_
  mutex,     \* MainServer::connMutex: who has it
  mpc,       \* where the main thread is
  mfd,       \* ... the descriptor it has accepted
  msock,     \* ... its TSocket
  mconn,     \* ... the TConnection it works on
  todo,      \* ... the connections heartBeat has still to visit
  pc,        \* where each IO thread is
  cur,       \* the connection an IO thread works on
  pipe,      \* pointers sent to each IO thread and not received
  deferred,  \* descriptors libevent will close in a later turn of its loop
  tasks      \* ProcessTasks not executed: connection and request

kernelVars == <<client, fdOf, asked>>
listenerVars == <<sockFd, sockets, sockQueue>>
connVars == <<sock, bev, enabled, app, io>>
serverVars == <<active, reuse, selectIO, mutex>>
mainVars == <<mpc, mfd, msock, mconn, todo>>
ioVars == <<pc, cur, pipe, deferred>>
poolVars == <<tasks, got>>
vars == <<kernelVars, listenerVars, connVars, serverVars, mainVars, ioVars, poolVars>>

Created == {k \in Conns : app[k] # "none"}
UsedSocks == {sockQueue[i] : i \in DOMAIN sockQueue} \cup {sock[k] : k \in Conns}
               \cup {msock} \cup {sockets[f] : f \in Fds}
Reused == {reuse[i] : i \in DOMAIN reuse}

(* The object that new allocates: which one makes no difference. *)
Fresh(S) == IF S = {} THEN {} ELSE {CHOOSE x \in S : TRUE}

(* The server is in serve(): every IO thread waits in its event loop. *)
Init ==
  /\ client = [c \in Clients |-> "away"]
  /\ fdOf = [f \in Fds |-> Null]
  /\ asked = {} /\ got = [c \in Clients |-> {}] /\ tasks = {}
  /\ sockFd = [s \in Socks |-> Null]
  /\ sockets = [f \in Fds |-> Null] /\ sockQueue = <<>>
  /\ sock = [k \in Conns |-> Null] /\ bev = [k \in Conns |-> Null]
  /\ enabled = {} /\ app = [k \in Conns |-> "none"] /\ io = [k \in Conns |-> 0]
  /\ active = {} /\ reuse = <<>> /\ selectIO = 0 /\ mutex = Null
  /\ mpc = "loop" /\ mfd = Null /\ msock = Null /\ mconn = Null /\ todo = {}
  /\ pc = [t \in IOs |-> "loop"] /\ cur = [t \in IOs |-> Null]
  /\ pipe = [t \in IOs |-> <<>>] /\ deferred = [t \in IOs |-> {}]

-----------------------------------------------------------------------------
(* Clients and the kernel. *)

Connect(c) ==
  /\ client[c] = "away"
  /\ client' = [client EXCEPT ![c] = "backlog"]
  /\ UNCHANGED <<fdOf, asked, listenerVars, connVars, serverVars, mainVars, ioVars, poolVars>>

HangUp(c) ==
  /\ client[c] = "open"
  /\ client' = [client EXCEPT ![c] = "hung"]
  /\ UNCHANGED <<fdOf, asked, listenerVars, connVars, serverVars, mainVars, ioVars, poolVars>>

(* close(2) on a number: whatever it leads to is closed. *)
CloseFds(F) == [f \in Fds |-> IF f \in F THEN Null ELSE fdOf[f]]

(* libevent delivers events of a bufferevent while its descriptor has not  *)
(* been closed: a closed descriptor has left the epoll set, and its number *)
(* coming back for another client does not bring the events back.          *)
Watching(k) == /\ k \in enabled /\ bev[k] # Null
               /\ fdOf[bev[k].fd] = bev[k].peer

-----------------------------------------------------------------------------
(* Main thread: accepting. *)

(* accept(2) in libevent's listener: the lowest free descriptor. *)
Accept(c) ==
  /\ mpc = "loop"
  /\ client[c] = "backlog"
  /\ \E f \in Fds :
       /\ fdOf[f] = Null /\ \A g \in Fds : g < f => fdOf[g] # Null
       /\ fdOf' = [fdOf EXCEPT ![f] = c]
       /\ mfd' = [fd |-> f, peer |-> c]
  /\ client' = [client EXCEPT ![c] = "open"]
  /\ mpc' = "wrap"
  /\ UNCHANGED <<asked, listenerVars, connVars, serverVars, msock, mconn, todo, ioVars, poolVars>>

(* std::map::insert: a key that is there already keeps its value. *)
Insert(m, f, s) == IF m[f] = Null THEN [m EXCEPT ![f] = s] ELSE m

(* A ReuseTSocket that forgets to pop the queue. *)
ReuseTSocket_NoPop ==
  /\ mpc = "wrap"
  /\ \E s \in Socks :
       /\ s \in (IF sockQueue = <<>> THEN Fresh(Socks \ UsedSocks) ELSE {Head(sockQueue)})
       /\ sockFd' = [sockFd EXCEPT ![s] = mfd.fd]
       /\ sockets' = Insert(sockets, mfd.fd, s)
       /\ msock' = s
  /\ mpc' = "handle"
  /\ UNCHANGED <<sockQueue, kernelVars, connVars, serverVars, mfd, mconn, todo, ioVars, poolVars>>

(* PortListener::ReuseTSocket.  setSocketFD finds INVALID_SOCKET in a      *)
(* TSocket of the queue, so it closes nothing.                             *)
ReuseTSocket ==
  /\ mpc = "wrap"
  /\ \E s \in Socks :
       /\ s \in (IF sockQueue = <<>> THEN Fresh(Socks \ UsedSocks) ELSE {Head(sockQueue)})
       /\ sockQueue' = IF sockQueue = <<>> THEN <<>> ELSE Tail(sockQueue)
       /\ sockFd' = [sockFd EXCEPT ![s] = mfd.fd]
       /\ sockets' = Insert(sockets, mfd.fd, s)
       /\ msock' = s
  /\ mpc' = "handle"
  /\ UNCHANGED <<kernelVars, connVars, serverVars, mfd, mconn, todo, ioVars, poolVars>>

(* TConnection::init on connection k: a disabled bufferevent. *)
InitConn(k) ==
  /\ sock' = [sock EXCEPT ![k] = msock]
  /\ bev' = [bev EXCEPT ![k] = mfd]
  /\ enabled' = enabled \ {k}
  /\ app' = [app EXCEPT ![k] = "TRANS_INIT"]

(* handlerConn takes connMutex.  No connection to reuse: a new one on the  *)
(* next IO thread.                                                         *)
HandleNew ==
  /\ mpc = "handle" /\ mutex = Null
  /\ reuse = <<>>
  /\ selectIO' = (selectIO + 1) % NIO
  /\ \E k \in Fresh(Conns \ Created) :
       /\ InitConn(k)
       /\ io' = [io EXCEPT ![k] = selectIO']
       /\ mconn' = k
  /\ mutex' = Main
  /\ mpc' = "notify"
  /\ UNCHANGED <<active, reuse, kernelVars, listenerVars, mfd, msock, todo, ioVars, poolVars>>

(* handlerConn takes connMutex and reuses the oldest returned connection,  *)
(* which stays with the IO thread it was created for.                      *)
HandleReuse ==
  /\ mpc = "handle" /\ mutex = Null
  /\ reuse # <<>>
  /\ InitConn(Head(reuse))
  /\ mconn' = Head(reuse)
  /\ reuse' = Tail(reuse)
  /\ mutex' = Main
  /\ mpc' = "notify"
  /\ UNCHANGED <<active, selectIO, io, kernelVars, listenerVars, mfd, msock, todo, ioVars, poolVars>>

(* IOThread::notify: select blocks until the pipe has room. *)
Send(k) == /\ Len(pipe[io[k]]) < PipeSize
           /\ pipe' = [pipe EXCEPT ![io[k]] = Append(@, k)]

(* handlerConn, conn->notify() with connMutex held. *)
NotifyConn ==
  /\ mpc = "notify"
  /\ Send(mconn)
  /\ mpc' = "push"
  /\ UNCHANGED <<kernelVars, listenerVars, connVars, serverVars, mfd, msock, mconn, todo,
                 pc, cur, deferred, poolVars>>

(* handlerConn: push_back, and connMutex is released. *)
PushConn ==
  /\ mpc = "push"
  /\ active' = active \cup {mconn}
  /\ mutex' = Null
  /\ mpc' = "loop" /\ mfd' = Null /\ msock' = Null /\ mconn' = Null
  /\ UNCHANGED <<reuse, selectIO, kernelVars, listenerVars, connVars, todo, ioVars, poolVars>>

-----------------------------------------------------------------------------
(* Main thread: the command "hb". *)

(* MainServer::heartBeat walks the vector without connMutex: it visits     *)
(* what is there, in any order, unless an IO thread erases meanwhile       *)
(* (Shifted, below).                                                       *)
HeartBeat ==
  /\ mpc = "loop" /\ "hb" \in Commands
  /\ active # {}
  /\ todo' = active
  /\ mpc' = "beat"
  /\ UNCHANGED <<kernelVars, listenerVars, connVars, serverVars, mfd, msock, mconn, ioVars, poolVars>>

(* TConnection::heartBeat: appstate first, then the test of lastUpdate_,   *)
(* which may come out either way.                                          *)
Beat(k) ==
  /\ mpc = "beat" /\ k \in todo
  /\ app' = [app EXCEPT ![k] = "APP_CLOSE_CONNECTION"]
  /\ todo' = todo \ {k}
  /\ \/ mpc' = "beatNotify" /\ mconn' = k
     \/ UNCHANGED mconn /\ mpc' = (IF todo' = {} THEN "loop" ELSE "beat")
  /\ UNCHANGED <<kernelVars, listenerVars, sock, bev, enabled, io, serverVars, mfd, msock,
                 ioVars, poolVars>>

(* ... notify(): with a pipe in place it succeeds once there is room.  (It *)
(* returns false, and heartBeat closes the connection on the main thread,  *)
(* TConnection.cpp:247-250, when select or send fails on the descriptor of *)
(* the pipe, which nobody closes while the server serves.)                 *)
BeatNotify ==
  /\ mpc = "beatNotify"
  /\ Send(mconn)
  /\ mpc' = IF todo = {} THEN "loop" ELSE "beat"
  /\ mconn' = Null
  /\ UNCHANGED <<kernelVars, listenerVars, connVars, serverVars, mfd, msock, todo,
                 pc, cur, deferred, poolVars>>

-----------------------------------------------------------------------------
(* IO thread t. *)

(* TConnection::close, first half: bufferevent_free (bev is never NULL     *)
(* here: ClosingHasSocket and SocketMatchesBev).  The bufferevent was  *)
(* made with BEV_OPT_CLOSE_ON_FREE, so libevent closes the descriptor: at  *)
(* once, or from a callback it runs later on the same loop, according to   *)
(* its version.                                                            *)
FreeBev(t, k) ==
  /\ bev' = [bev EXCEPT ![k] = Null]
  /\ enabled' = enabled \ {k}
  /\ \/ /\ fdOf' = CloseFds({bev[k].fd})
        /\ UNCHANGED deferred
     \/ /\ deferred' = [deferred EXCEPT ![t] = @ \cup {bev[k].fd}]
        /\ UNCHANGED fdOf
  /\ pc' = [pc EXCEPT ![t] = "lock"]
  /\ cur' = [cur EXCEPT ![t] = k]

(* The loop runs a close that libevent has put off. *)
FinalizeBev(t) ==
  /\ pc[t] = "loop"
  /\ \E f \in deferred[t] :
       /\ fdOf' = CloseFds({f})
       /\ deferred' = [deferred EXCEPT ![t] = @ \ {f}]
  /\ UNCHANGED <<client, asked, listenerVars, connVars, serverVars, mainVars, pc, cur, pipe, poolVars>>

Receive(t) == /\ pc[t] = "loop"
              /\ pipe[t] # <<>>
              /\ pipe' = [pipe EXCEPT ![t] = Tail(@)]

(* notifyHandler, transition() in TRANS_INIT: the bufferevent is enabled;  *)
(* the input is empty, so APP_INIT leads straight to APP_READ_FRAME_SIZE.  *)
NotifyEnable(t) ==
  /\ Receive(t)
  /\ LET k == Head(pipe[t])
     IN /\ k \in active
        /\ app[k] = "TRANS_INIT"
        /\ app' = [app EXCEPT ![k] = "APP_READ_FRAME_SIZE"]
        /\ enabled' = enabled \cup {k}
  /\ UNCHANGED <<kernelVars, listenerVars, sock, bev, io, serverVars, mainVars,
                 pc, cur, deferred, poolVars>>

(* isActive searches the vector without connMutex, and may miss what it    *)
(* looks for while another thread reallocates or shifts it (a data race).  *)
Moving(t) == mpc = "push" \/ \E u \in IOs \ {t} : pc[u] = "return"

(* A notifyHandler that leaves a pointer in the pipe until its connection  *)
(* is active, so that no push_back comes too late.                         *)
NotifyIgnore_Await(t) ==
  /\ Receive(t)
  /\ Head(pipe[t]) \in active
  /\ app[Head(pipe[t])] = "APP_READ_FRAME_SIZE"
  /\ UNCHANGED <<kernelVars, listenerVars, connVars, serverVars, mainVars,
                 pc, cur, deferred, poolVars>>

(* notifyHandler: isActive fails, or the pointer is a second one for a     *)
(* connection that is enabled already (transition() in                     *)
(* APP_READ_FRAME_SIZE with an empty input comes back to it).              *)
NotifyIgnore(t) ==
  /\ Receive(t)
  /\ LET k == Head(pipe[t])
     IN k \in active => app[k] = "APP_READ_FRAME_SIZE" \/ Moving(t)
  /\ UNCHANGED <<kernelVars, listenerVars, connVars, serverVars, mainVars,
                 pc, cur, deferred, poolVars>>

(* notifyHandler without the isActive test, on a connection to be closed. *)
NotifyClose_Unchecked(t) ==
  /\ Receive(t)
  /\ app[Head(pipe[t])] = "APP_CLOSE_CONNECTION"
  /\ IF bev[Head(pipe[t])] # Null
     THEN FreeBev(t, Head(pipe[t]))
     ELSE /\ pc' = [pc EXCEPT ![t] = "lock"]
          /\ cur' = [cur EXCEPT ![t] = Head(pipe[t])]
          /\ UNCHANGED <<bev, enabled, fdOf, deferred>>
  /\ UNCHANGED <<client, asked, listenerVars, sock, app, io, serverVars, mainVars, poolVars>>

(* notifyHandler, transition() in APP_CLOSE_CONNECTION: close(). *)
NotifyClose(t) ==
  /\ Receive(t)
  /\ LET k == Head(pipe[t])
     IN /\ k \in active
        /\ app[k] = "APP_CLOSE_CONNECTION"
        /\ FreeBev(t, k)
  /\ UNCHANGED <<client, asked, listenerVars, sock, app, io, serverVars, mainVars, poolVars>>

(* read_cb, a request is complete: transition() to read_request, which     *)
(* hands a ProcessTask to the pool ...                                     *)
ReadRequest(t, k) ==
  /\ pc[t] = "loop" /\ io[k] = t
  /\ Watching(k)
  /\ bev[k].peer \notin asked
  /\ app[k] = "APP_READ_FRAME_SIZE"
  /\ asked' = asked \cup {bev[k].peer}
  /\ tasks' = tasks \cup {[conn |-> k, peer |-> bev[k].peer]}
  /\ pc' = [pc EXCEPT ![t] = "inRun"]
  /\ cur' = [cur EXCEPT ![t] = k]
  /\ UNCHANGED <<client, fdOf, listenerVars, connVars, serverVars, mainVars, pipe, deferred, got>>

(* ... and, when run() has returned, goes on to the next frame.            *)
RequestDone(t) ==
  /\ pc[t] = "inRun"
  /\ app' = [app EXCEPT ![cur[t]] = "APP_READ_FRAME_SIZE"]
  /\ pc' = [pc EXCEPT ![t] = "loop"]
  /\ cur' = [cur EXCEPT ![t] = Null]
  /\ UNCHANGED <<kernelVars, listenerVars, sock, bev, enabled, io, serverVars, mainVars,
                 pipe, deferred, poolVars>>

(* read_cb on a connection that heartBeat has marked: transition() closes  *)
(* it and the request is dropped.                                          *)
ReadClose(t, k) ==
  /\ pc[t] = "loop" /\ io[k] = t
  /\ Watching(k)
  /\ bev[k].peer \notin asked
  /\ app[k] = "APP_CLOSE_CONNECTION"
  /\ asked' = asked \cup {bev[k].peer}
  /\ FreeBev(t, k)
  /\ UNCHANGED <<client, listenerVars, sock, app, io, serverVars, mainVars, pipe, poolVars>>

(* error_cb: the peer has hung up; close(). *)
ErrorCb(t, k) ==
  /\ pc[t] = "loop" /\ io[k] = t
  /\ Watching(k)
  /\ client[bev[k].peer] = "hung"
  /\ FreeBev(t, k)
  /\ UNCHANGED <<client, asked, listenerVars, sock, app, io, serverVars, mainVars, pipe, poolVars>>

(* MainServer::returnTConnection takes connMutex and calls                 *)
(* PortListener::returnTSocket: the entry of the descriptor leaves the     *)
(* map, TSocket::close closes the number once more, and the TSocket is     *)
(* queued for reuse.                                                       *)
ReturnSocket(t) ==
  /\ pc[t] = "lock" /\ mutex = Null
  /\ mutex' = t
  /\ LET s == sock[cur[t]]
         f == sockFd[s]
     IN /\ sockets' = [sockets EXCEPT ![f] = Null]
        /\ fdOf' = CloseFds({f})
        /\ sockFd' = [sockFd EXCEPT ![s] = Null]
        /\ sockQueue' = Append(sockQueue, s)
  /\ pc' = [pc EXCEPT ![t] = "return"]
  /\ UNCHANGED <<client, asked, connVars, active, reuse, selectIO, mainVars,
                 cur, pipe, deferred, poolVars>>

(* What heartBeat has still to visit when the vector is shifted under its  *)
(* iterator (a data race): as many connections as before at most, each one *)
(* any that was or is in the vector.                                       *)
Shifted == IF todo = {} THEN {{}} ELSE (SUBSET (todo \cup active)) \ {{}}

LeaveReturn(t) ==
  /\ pc[t] = "return"
  /\ pc' = [pc EXCEPT ![t] = "late"]
  /\ todo' \in Shifted
  /\ UNCHANGED <<kernelVars, listenerVars, bev, enabled, app, io, selectIO,
                 mpc, mfd, msock, mconn, cur, pipe, deferred, poolVars>>

(* A returnTConnection that does not remove the connection from the vector. *)
ReturnConn_KeepActive(t) ==
  /\ LeaveReturn(t) /\ UNCHANGED active
  /\ sock' = [sock EXCEPT ![cur[t]] = Null]
  /\ reuse' = Append(reuse, cur[t])
  /\ mutex' = Null

(* A returnTConnection that forgets the queue. *)
ReturnConn_Lost(t) ==
  /\ LeaveReturn(t) /\ UNCHANGED reuse
  /\ active' = active \ {cur[t]}
  /\ sock' = [sock EXCEPT ![cur[t]] = Null]
  /\ mutex' = Null

(* The rest of returnTConnection: out of the active connections, without   *)
(* a TSocket, queued for reuse; connMutex is released.                     *)
ReturnConn(t) ==
  /\ LeaveReturn(t)
  /\ active' = active \ {cur[t]}
  /\ sock' = [sock EXCEPT ![cur[t]] = Null]
  /\ reuse' = Append(reuse, cur[t])
  /\ mutex' = Null

(* The last statement of close(): appstate, of a connection that another   *)
(* client may already have been given.                                     *)
CloseReturns(t) ==
  /\ pc[t] = "late"
  /\ app' = [app EXCEPT ![cur[t]] = "APP_CLOSE_CONNECTION"]
  /\ pc' = [pc EXCEPT ![t] = "loop"]
  /\ cur' = [cur EXCEPT ![t] = Null]
  /\ UNCHANGED <<kernelVars, listenerVars, sock, bev, enabled, io, serverVars, mainVars,
                 pipe, deferred, poolVars>>

-----------------------------------------------------------------------------
(* A pool worker executes a ProcessTask.  The adapter may have no answer;  *)
(* else transMessage writes it to the bufferevent the connection has now,  *)
(* that is, to whoever its descriptor leads to.  (Without a bufferevent    *)
(* the call is undefined: here the answer is lost.)                        *)
ProcessTask(task) ==
  /\ task \in tasks
  /\ tasks' = tasks \ {task}
  /\ LET b == bev[task.conn]
     IN \/ UNCHANGED got
        \/ /\ b # Null /\ fdOf[b.fd] # Null
           /\ got' = [got EXCEPT ![fdOf[b.fd]] = @ \cup {task.peer}]
  /\ UNCHANGED <<kernelVars, listenerVars, connVars, serverVars, mainVars, ioVars>>

-----------------------------------------------------------------------------
MainStep ==
  \/ ReuseTSocket \/ HandleNew \/ HandleReuse \/ NotifyConn \/ PushConn
  \/ (\E k \in Conns : Beat(k)) \/ BeatNotify

Notified(t) == NotifyEnable(t) \/ NotifyIgnore(t) \/ NotifyClose(t)

Closing(t) == ReturnSocket(t) \/ ReturnConn(t) \/ CloseReturns(t)

IOStep(t) ==
  \/ FinalizeBev(t) \/ Notified(t) \/ Closing(t) \/ RequestDone(t)
  \/ \E k \in Conns : ReadRequest(t, k) \/ ReadClose(t, k) \/ ErrorCb(t, k)

Next ==
  \/ \E c \in Clients : Connect(c) \/ HangUp(c) \/ Accept(c)
  \/ HeartBeat \/ MainStep
  \/ \E t \in IOs : IOStep(t)
  \/ \E task \in tasks : ProcessTask(task)

Spec == Init /\ [][Next]_vars

(* Threads go on with what they have begun, event loops deliver what is    *)
(* ready, waiting clients are accepted and run() returns.  Clients and the *)
(* console may stay silent for ever.                                       *)
Fairness ==
  /\ WF_vars(MainStep) /\ \A c \in Clients : WF_vars(Accept(c))
  /\ \A t \in IOs :
       /\ WF_vars(Notified(t)) /\ WF_vars(FinalizeBev(t))
       /\ WF_vars(Closing(t)) /\ WF_vars(RequestDone(t))
       /\ \A k \in Conns : WF_vars(ErrorCb(t, k))

FairSpec == Spec /\ Fairness

-----------------------------------------------------------------------------
TypeOK ==
  /\ client \in [Clients -> {"away", "backlog", "open", "hung"}]
  /\ fdOf \in [Fds -> Clients \cup {Null}]
  /\ asked \subseteq Clients
  /\ got \in [Clients -> SUBSET Clients]
  /\ sockFd \in [Socks -> Fds \cup {Null}]
  /\ sockets \in [Fds -> Socks \cup {Null}]
  /\ sockQueue \in Seq(Socks)
  /\ sock \in [Conns -> Socks \cup {Null}]
  /\ bev \in [Conns -> Bufferevents \cup {Null}]
  /\ enabled \subseteq Conns
  /\ app \in [Conns -> AppStates \cup {"none"}]
  /\ io \in [Conns -> IOs]
  /\ active \subseteq Conns
  /\ reuse \in Seq(Conns)
  /\ selectIO \in IOs
  /\ mutex \in IOs \cup {Main, Null}
  /\ mpc \in {"loop", "wrap", "handle", "notify", "push", "beat", "beatNotify"}
  /\ mfd \in Bufferevents \cup {Null}
  /\ msock \in Socks \cup {Null}
  /\ mconn \in Conns \cup {Null}
  /\ todo \subseteq Conns
  /\ pc \in [IOs -> {"loop", "inRun", "lock", "return", "late"}]
  /\ cur \in [IOs -> Conns \cup {Null}]
  /\ pipe \in [IOs -> Seq(Conns)]
  /\ deferred \in [IOs -> SUBSET Fds]
  /\ tasks \subseteq [conn : Conns, peer : Clients]

(* The connection the main thread is setting up with connMutex held. *)
InHand == IF mpc \in {"notify", "push"} THEN {mconn} ELSE {}

NoRepeat(q) == \A i, j \in DOMAIN q : q[i] = q[j] => i = j

(* A TConnection is in exactly one place: active, queued once for reuse,   *)
(* or in the hands of handlerConn.  None leaks and none is given to two    *)
(* clients, whatever stale pointers the pipes hold.                        *)
ConnInOnePlace ==
  /\ Created = active \cup Reused \cup InHand
  /\ active \cap Reused = {} /\ active \cap InHand = {} /\ Reused \cap InHand = {}
  /\ NoRepeat(reuse)

(* What handlerConn takes from the queue has been taken apart completely:  *)
(* no bufferevent that could still call back, and no TSocket.              *)
ReusedIsClean ==
  \A k \in Reused : sock[k] = Null /\ bev[k] = Null /\ k \notin enabled

(* The life of a TConnection: kept in one place, and reused only when it   *)
(* has been taken apart.                                                   *)
ConnectionsSound == TypeOK /\ ConnInOnePlace /\ ReusedIsClean

(* A thread that is about to return a connection returns an active one,    *)
(* with a TSocket, and no other thread is returning it: returnTSocket is   *)
(* never called with NULL and no connection is returned twice.             *)
ClosingHasSocket ==
  /\ \A t \in IOs : pc[t] \in {"lock", "return"} =>
       cur[t] \in active /\ sock[cur[t]] # Null /\ io[cur[t]] = t
  /\ \A t \in IOs : pc[t] = "lock" => sockFd[sock[cur[t]]] # Null
  /\ \A t, u \in IOs :
       pc[t] \in {"lock", "return"} /\ pc[u] \in {"lock", "return"} /\ cur[t] = cur[u] => t = u

(* Connections whose TSocket has been returned already and which drop it   *)
(* in the next statement.                                                  *)
Releasing == {cur[t] : t \in {u \in IOs : pc[u] = "return"}}

Holders(s) == {k \in Conns \ Releasing : sock[k] = s}
Queued(s) == \E i \in DOMAIN sockQueue : sockQueue[i] = s

(* A TSocket has one user: a connection, or the queue, where it holds no   *)
(* descriptor, or handlerConn, which has just received it.                 *)
SocketsUnshared ==
  /\ NoRepeat(sockQueue)
  /\ \A s \in Socks :
       /\ \A k, l \in Holders(s) : k = l
       /\ Queued(s) => sockFd[s] = Null /\ Holders(s) = {}
       /\ mpc = "handle" /\ msock = s => ~Queued(s) /\ Holders(s) = {}

(* A connection and its TSocket talk about the same descriptor for as long *)
(* as the connection has a bufferevent.                                    *)
SocketMatchesBev ==
  \A k \in Conns : bev[k] # Null => sock[k] # Null /\ sockFd[sock[k]] = bev[k].fd

(* The life of a TSocket: one user, and the descriptor that this user has. *)
SocketsSound == SocketsUnshared /\ SocketMatchesBev

(* Callbacks run only on active connections: no stale pointer enables a    *)
(* connection that waits for reuse or that handlerConn is setting up.      *)
EnabledIsActive ==
  /\ enabled \subseteq active
  /\ \A k \in enabled : bev[k] # Null

(* Callbacks, notified ones included, find the connection they are for:    *)
(* active, with a TSocket, and closed by one thread, once.                 *)
CallbacksSound == EnabledIsActive /\ ClosingHasSocket

(* The deadlock that IOThread::notify can lead to (IOThread.cpp:168): it    *)
(* waits with connMutex for room in the pipe of a thread that waits for    *)
(* connMutex to return a connection.                                       *)
Jammed ==
  /\ mpc = "notify" /\ Len(pipe[io[mconn]]) = PipeSize
  /\ pc[io[mconn]] = "lock"

(* A connection that hears its client hang up is queued for reuse in the   *)
(* end, whatever stale pointers and heart beats its loop is busy with,     *)
(* unless its descriptor is closed under it or the server is jammed.       *)
HungConnIsReused ==
  \A k \in Conns :
    Watching(k) /\ client[bev[k].peer] = "hung"
      ~> k \in Reused \/ (bev[k] # Null /\ ~Watching(k)) \/ Jammed

(* "The write pipe can always be written" (IOThread.cpp:182) is not true:  *)
(* heart beats fill it.  But a heart beat always ends, as it waits for     *)
(* room without connMutex, and an accept ends unless it closes the cycle   *)
(* of Jammed: no other way of threads and pipes keeps the main thread.     *)
MainReturns == mpc # "loop" ~> mpc = "loop" \/ Jammed

-----------------------------------------------------------------------------
(* main/README.md:31: the pointer goes through the pipe, "and transition() *)
(* is completed in the IOThread: the bufferevent is enabled".  A client    *)
(* that has been accepted and stays is listened to in the end.             *)
AcceptedIsEnabled ==
  \A c \in Clients :
    client[c] = "open"
      ~> client[c] # "open" \/ \E k \in enabled : bev[k].peer = c
=============================================================================
