------------------------------- MODULE SignIn -------------------------------
(***************************************************************************)
(* A request on its way through a worker thread: the adapter that its      *)
(* package calls for, the account that a sign-in inserts over a pooled     *)
(* connection to MySQL, and the frame that answers it                      *)
(* (main/TConnection.cpp, Package/Adapter, Mysql, Package/ChatPackage.cpp).*)
(*                                                                         *)
(* What the frames consist of is in SignInFrames. A MysqlConn is a number, *)
(* used again after its deletion, and 0 is NULL. The MySQL server is       *)
(* external: it may stop and start, and refuse a connection or a statement *)
(* at any time.                                                            *)
(***************************************************************************)
EXTENDS Integers, Sequences, FiniteSets

CONSTANTS
    Threads,     \* the workers of the thread pool
    NoThread,
    Preload,     \* the connections that setParameter makes, 5 in the code
    MaxConnect   \* MAX_CONNECT, 20 in MainServer::init

ASSUME SignInAssumption ==
    /\ IsFiniteSet(Threads) /\ NoThread \notin Threads
    /\ Preload \in Nat
    /\ MaxConnect \in Nat

VARIABLES
    stage,       \* where each thread is
    conn,        \* the connection its MysqlWrapper holds, if any
    inserted,    \* history: the INSERT of its request succeeded
    answer,      \* what createAccount returned: the text of an id, or NULL
    response,    \* the frame to send, by the id that it answers
    stack,       \* stack_, its top last
    live,        \* the MysqlConn objects that are connected and not deleted
    count,       \* connect_count
    holder,      \* the thread inside grab() with mutex_, or NoThread
    up,          \* external: the server runs
    sessions,    \* external: the connections that the server knows
    refused,     \* history: a connection could not be made
    down         \* the process is gone: a NULL was used

SignInVars == <<stage, conn, inserted, answer, response, stack, live,
                count, holder, up, sessions, refused, down>>

NULL == 0
NoConn == -1
NoId == 0
Texts == {49, 63}     \* an id, and what freed memory may hold instead
NoFrame == -1
Conns == 1 .. (Preload + Cardinality(Threads))

-----------------------------------------------------------------------------
(* Adapters *)

(* A package: its factoryCode, and of a chat package whether its data is   *)
(* JSON, its "cmd", and what a sign-in asks for: a password for its "id",  *)
(* or an account for its "phone". "throws" is a value that asString()      *)
(* refuses.                                                                *)
Packages ==
    {[code |-> "Echo", json |-> FALSE, cmd |-> "none", asks |-> "none"],
     [code |-> "WanJunChat", json |-> FALSE, cmd |-> "none", asks |-> "none"]}
    \cup [code : {"WanJunChat"}, json : {TRUE},
          cmd : {"signin", "message", "other", "throws"},
          asks : {"password", "account", "throws"}]

adapterArry == {"WanJunChat", "Echo"}
processArry == {"signin", "message"}

queryAdapter(package) == package.code \in adapterArry

(* ChatAdapter::adapter and ChatSignIn::process up to the pool: the        *)
(* packages that are answered. Everything else gets nullptr.               *)
Answered(package) ==
    /\ package.code = "WanJunChat"
    /\ package.json
    /\ package.cmd \in processArry
    /\ package.cmd = "signin" /\ package.asks = "account"

-----------------------------------------------------------------------------
(* The pool of connections *)

TopOfStack == stack[Len(stack)]
Popped == SubSeq(stack, 1, Len(stack) - 1)

(* The address of the next MysqlConn. *)
Fresh == CHOOSE c \in Conns \ live : \A d \in Conns \ live : c <= d

(* setParameter: Preload connections, each of which may be NULL. *)
SignInInit ==
    /\ stage = [t \in Threads |-> "idle"]
    /\ conn = [t \in Threads |-> NoConn]
    /\ inserted = [t \in Threads |-> FALSE]
    /\ answer = [t \in Threads |-> NoId]
    /\ response = [t \in Threads |-> NoFrame]
    /\ live \in SUBSET (1 .. Preload)
    /\ stack = [i \in 1 .. Preload |-> IF i \in live THEN i ELSE NULL]
    /\ count = Cardinality(live)
    /\ holder = NoThread
    /\ up = TRUE
    /\ sessions = live
    /\ refused = (live # 1 .. Preload)
    /\ down = FALSE

At(t, p) == ~down /\ stage[t] = p
Goto(t, p) == stage' = [stage EXCEPT ![t] = p]

server == <<up, sessions>>
pool == <<stack, live, count, holder, refused>>

(* A task of the pool: ProcessTask::run with the adapter of its package. *)
Dispatch(t) ==
    /\ At(t, "idle")
    /\ \E p \in Packages :
          /\ queryAdapter(p)
          /\ Goto(t, IF Answered(p) THEN "grab" ELSE "idle")
    /\ UNCHANGED <<conn, inserted, answer, response, pool, server, down>>

(* Mutant: the top is read and stays. *)
Grab_NoPop(t) ==
    /\ At(t, "grab") /\ holder = NoThread
    /\ stack # <<>>
    /\ conn' = [conn EXCEPT ![t] = TopOfStack]
    /\ Goto(t, "insert")
    /\ UNCHANGED <<inserted, answer, response, stack, live, count,
                   holder, refused, server, down>>

(* grab() with a connection on the stack. *)
Grab(t) ==
    /\ At(t, "grab") /\ holder = NoThread
    /\ stack # <<>>
    /\ conn' = [conn EXCEPT ![t] = TopOfStack]
    /\ stack' = Popped
    /\ Goto(t, "insert")
    /\ UNCHANGED <<inserted, answer, response, live, count, holder,
                   refused, server, down>>

(* grab() with an empty stack: the connection is made under the mutex. *)
GrabEmpty(t) ==
    /\ At(t, "grab") /\ holder = NoThread
    /\ stack = <<>>
    /\ holder' = t
    /\ Goto(t, "connect")
    /\ UNCHANGED <<conn, inserted, answer, response, stack, live,
                   count, refused, server, down>>

(* createOneConnect: a MysqlConn whose connect fails is left behind. *)
createOneConnect(t) ==
    /\ At(t, "connect")
    /\ \/ /\ up
          /\ conn' = [conn EXCEPT ![t] = Fresh]
          /\ live' = live \cup {Fresh}
          /\ sessions' = sessions \cup {Fresh}
          /\ count' = count + 1
          /\ UNCHANGED refused
       \/ /\ conn' = [conn EXCEPT ![t] = NULL]
          /\ refused' = TRUE
          /\ UNCHANGED <<live, sessions, count>>
    /\ holder' = NoThread
    /\ Goto(t, "insert")
    /\ UNCHANGED <<inserted, answer, response, stack, up, down>>

-----------------------------------------------------------------------------
(* createAccount *)

(* mysql_query over this connection may succeed. A session that the server *)
(* has ended is not made again.                                            *)
CanQuery(t) == up /\ conn[t] \in sessions

(* What execute() may say: the statement failed, or it is ok with a row,   *)
(* or ok without one, also when the result of a SELECT cannot be stored.   *)
execute(t) ==
    {[ok |-> FALSE, row |-> FALSE]}
        \cup IF CanQuery(t) THEN [ok : {TRUE}, row : BOOLEAN] ELSE {}

(* execute() on a NULL connection reads its member. *)
UseOfNull(t) ==
    /\ At(t, "insert") /\ conn[t] = NULL
    /\ down' = TRUE
    /\ UNCHANGED <<stage, conn, inserted, answer, response, pool, server>>

(* Mutant: ok is not looked at after the INSERT. *)
Insert_IgnoreOk(t) ==
    /\ At(t, "insert") /\ conn[t] # NULL
    /\ \/ CanQuery(t) /\ inserted' = [inserted EXCEPT ![t] = TRUE]
       \/ UNCHANGED inserted
    /\ Goto(t, "select")
    /\ UNCHANGED <<conn, answer, response, pool, server, down>>

(* Mutant: an INSERT that fails is tried again. *)
Insert_Retry(t) ==
    /\ At(t, "insert") /\ conn[t] # NULL
    /\ \/ /\ CanQuery(t)
          /\ inserted' = [inserted EXCEPT ![t] = TRUE]
          /\ Goto(t, "select")
       \/ UNCHANGED <<inserted, stage>>
    /\ UNCHANGED <<conn, answer, response, pool, server, down>>

Insert(t) ==
    /\ At(t, "insert") /\ conn[t] # NULL
    /\ \E result \in execute(t) :
          IF result.ok
          THEN /\ inserted' = [inserted EXCEPT ![t] = TRUE]
               /\ Goto(t, "select")
               /\ UNCHANGED answer
          ELSE /\ answer' = [answer EXCEPT ![t] = NoId]
               /\ Goto(t, "release")
               /\ UNCHANGED inserted
    /\ UNCHANGED <<conn, response, pool, server, down>>

(* The id is a pointer into a result that execute() has freed: its text    *)
(* is the id or something else. Without a row the first element of an      *)
(* empty vector is read: the process is gone, or it is any pointer.        *)
Select(t) ==
    /\ At(t, "select")
    /\ \E result \in execute(t) :
          \/ /\ \E id \in IF result.ok THEN Texts \cup {NoId} ELSE {NoId} :
                   answer' = [answer EXCEPT ![t] = id]
             /\ Goto(t, "release")
             /\ UNCHANGED down
          \/ /\ result.ok /\ ~result.row
             /\ down' = TRUE
             /\ UNCHANGED <<answer, stage>>
    /\ UNCHANGED <<conn, inserted, response, pool, server>>

(* ~MysqlWrapper: release() *)
Release(t) ==
    /\ At(t, "release") /\ holder = NoThread
    /\ IF Len(stack) > MaxConnect
       THEN /\ count' = count - 1
            /\ live' = live \ {conn[t]}
            /\ sessions' = sessions \ {conn[t]}
            /\ UNCHANGED stack
       ELSE /\ stack' = Append(stack, conn[t])
            /\ UNCHANGED <<count, live, sessions>>
    /\ conn' = [conn EXCEPT ![t] = NoConn]
    /\ Goto(t, "respond")
    /\ UNCHANGED <<inserted, answer, response, holder, refused, up, down>>

-----------------------------------------------------------------------------
(* The answer *)

(* The answer is composed into a frame (SignInFrames), or NULL into one.   *)
Respond(t) ==
    /\ At(t, "respond")
    /\ response' = [response EXCEPT ![t] = answer[t]]
    /\ Goto(t, "send")
    /\ UNCHANGED <<conn, inserted, answer, pool, server, down>>

(* transMessage, and delete out. *)
Send(t) ==
    /\ At(t, "send")
    /\ response' = [response EXCEPT ![t] = NoFrame]
    /\ answer' = [answer EXCEPT ![t] = NoId]
    /\ inserted' = [inserted EXCEPT ![t] = FALSE]
    /\ Goto(t, "idle")
    /\ UNCHANGED <<conn, pool, server, down>>

(* External: the server stops, which ends every session, and starts. *)
ServerStops ==
    /\ ~down /\ up
    /\ up' = FALSE /\ sessions' = {}
    /\ UNCHANGED <<stage, conn, inserted, answer, response, pool, down>>

ServerStarts ==
    /\ ~down /\ ~up
    /\ up' = TRUE
    /\ UNCHANGED <<stage, conn, inserted, answer, response, pool,
                   sessions, down>>

Step(t) ==
    \/ Grab(t) \/ GrabEmpty(t) \/ createOneConnect(t)
    \/ UseOfNull(t) \/ Insert(t) \/ Select(t) \/ Release(t)
    \/ Respond(t) \/ Send(t)

SignInNext ==
    \/ \E t \in Threads : Dispatch(t) \/ Step(t)
    \/ ServerStops \/ ServerStarts

(* A thread with a task goes on; mysql_real_connect and mysql_query        *)
(* return. Nothing is asked of mutex_ here: with more than two threads, a  *)
(* release could be overtaken for ever by threads that make connections.   *)
Fairness == \A t \in Threads : WF_SignInVars(Step(t))

SignInSpec == SignInInit /\ [][SignInNext]_SignInVars /\ Fairness

-----------------------------------------------------------------------------
(* Properties *)

(* The variables have the values that the comments above give them. *)
SignInTypeOK ==
    /\ stage \in [Threads -> {"idle", "grab", "connect", "insert", "select",
                           "release", "respond", "send"}]
    /\ conn \in [Threads -> Conns \cup {NULL, NoConn}]
    /\ inserted \in [Threads -> BOOLEAN]
    /\ answer \in [Threads -> Texts \cup {NoId}]
    /\ response \in [Threads -> Texts \cup {NoId, NoFrame}]
    /\ \A t \in Threads : response[t] = NoFrame <=> stage[t] # "send"
    /\ stack \in Seq(Conns \cup {NULL})
    /\ live \subseteq Conns /\ sessions \subseteq live
    /\ count \in Int
    /\ holder \in Threads \cup {NoThread}
    /\ \A t \in Threads : holder = t <=> stage[t] = "connect"
    /\ {up, refused, down} \subseteq BOOLEAN

(* The connections on the stack, and those with a thread. *)
Stacked == {stack[i] : i \in 1 .. Len(stack)} \ {NULL}
InUse == {conn[t] : t \in Threads} \ {NULL, NoConn}

(* Every connection of the pool is in exactly one place, on the stack once *)
(* or with one thread, and nothing else is: two threads never speak over   *)
(* one connection, none is lost, and none is handed out or spoken over     *)
(* after its deletion. (MysqlPool::grab, MysqlPool::release)               *)
ConnInOnePlace ==
    /\ live = Stacked \cup InUse
    /\ Stacked \cap InUse = {}
    /\ \A i, j \in 1 .. Len(stack) : stack[i] = stack[j] /\ stack[i] # NULL => i = j
    /\ \A t, u \in Threads : conn[t] = conn[u] /\ conn[t] \in InUse => t = u

(* connect_count is the number of connections, NULLs left out: createOne-  *)
(* Connect, which counts only the good ones, and release, which counts     *)
(* whatever it deletes, agree because a NULL never comes back.             *)
CountMatches == count = Cardinality(live)

(* The stack never holds more than it was given at first, or one           *)
(* connection more than MAX_CONNECT, which release compares with >.        *)
StackBound == Len(stack) <= Preload \/ Len(stack) <= MaxConnect + 1

(* The process is brought down by a connection of the pool only when a     *)
(* connection could not be made, now or by setParameter: a pool that is    *)
(* empty, or busy, makes a connection and never hands out NULL.            *)
NullHasCause == (\E t \in Threads : conn[t] = NULL) => refused

(* The pool of MySQL connections keeps account of what it has handed out.  *)
PoolAccounted ==
    SignInTypeOK /\ ConnInOnePlace /\ CountMatches /\ StackBound /\ NullHasCause

(* An answer with an id is given only after the account of its own request *)
(* was inserted. (MysqlWrapper::createAccount, ChatSignIn::process)        *)
AccountBeforeId ==
    \A t \in Threads : answer[t] # NoId => inserted[t]

(* A sign-in that is taken up is answered, and its connection given back,  *)
(* unless the process is gone. (ChatSignIn::process, ~MysqlWrapper)        *)
SignInAnswered ==
    \A t \in Threads :
        stage[t] = "grab" ~> (stage[t] = "send" /\ conn[t] = NoConn) \/ down
=============================================================================
