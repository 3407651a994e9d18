-------------------------- MODULE ServerLifeProofs --------------------------
(***************************************************************************)
(* The server's start and end, for any number of threads, loops and        *)
(* connections.                                                            *)
(***************************************************************************)
EXTENDS ServerLife, QueueLemmas, SequenceTheorems, TLAPS

(* Threads are created one after the other. *)
Creating ==
  /\ mpc = "start" => \A w \in Workers : w >= step => wpc[w] = "unborn"
  /\ mpc \in {"latch", "asleep", "check"} =>
        step \in Workers /\ \A w \in Workers : w > step => wpc[w] = "unborn"

(* What the latch tells the main thread: once it is down, tid_ is written. *)
Latch ==
  /\ mpc = "check" => count[step] = 0
  /\ \A w \in Workers : wpc[w] = "named" \/ count[w] = 0 => tid[w]

(* A loop between its begin and its end is the task of a worker; a worker  *)
(* that is not in a task has none; those that were joined have exited.     *)
Tasks ==
  /\ \A w \in Workers : wpc[w] # "body" => task[w] = None
  /\ \A w \in Workers : wpc[w] = "body" => task[w] \in TaskIds
  /\ \A l \in Loops : lpc[l] \in {"begun", "piped", "dispatch", "run", "close"}
                         => \E w \in Workers : task[w] = l
  /\ mpc = "join" => \A w \in Workers : w < step => wpc[w] = "exited"
  /\ mpc \in {"free", "done"} => \A w \in Workers : wpc[w] = "exited"
  /\ \A l \in Loops : lpc[l] = "freed" => mpc \in {"free", "done"}

(* ~MainServer has come past the breakLoop of loop l. *)
Ending == {"collect", "delete", "stop", "join", "free", "done", "aborted"}
Told(l) == mpc \in Ending \cup {"tell", "wake"} \/ (mpc = "break" /\ l < step)

(* A pipe holds pointers to connections of its loop, and NULL only as the  *)
(* last; there is nothing in it before it is made and after NULL was read. *)
Pipes ==
  /\ \A l \in Loops : lpc[l] \in {"unrun", "begun", "ended", "freed"} => inbox[l] = <<>>
  /\ \A l \in Loops : \A i \in DOMAIN inbox[l] :
        \/ inbox[l][i] = Null /\ i = Len(inbox[l]) /\ Told(l)
        \/ inbox[l][i] \in Conns /\ ioOf[inbox[l][i]] = l
  /\ \A l \in Loops : lpc[l] = "ended" => Told(l)

(* How often a connection is in a list. *)
Once(s, c) == \A i, j \in DOMAIN s : s[i] = c /\ s[j] = c => i = j
Twice(s, c) == \A i, j, k \in DOMAIN s :
                  s[i] = c /\ s[j] = c /\ s[k] = c => i = j \/ i = k \/ j = k

(* The connection is in the queue at most n times. *)
Queued(c, n) ==
  /\ n = 0 => c \notin Members(reuse)
  /\ n = 1 => Once(reuse, c)
  /\ n = 2 => Twice(reuse, c)

Made(c) == ioOf[c] # None
Early == {"start", "latch", "asleep", "check", "submit", "listen"}
Serving == {"serve", "send", "push", "break", "tell", "wake"}

(* The vector has no connection twice, and only what was made; a           *)
(* connection that is listened to or being closed is in it.                *)
Vectors ==
  /\ \A i, j \in DOMAIN active : active[i] = active[j] => i = j
  /\ \A c \in Members(active) \cup Members(reuse) : Made(c)
  /\ conn # None => Made(conn)
  /\ conn # None <=> mpc \in {"send", "push"}
  /\ enabled \subseteq Members(active)
  /\ \A l \in Loops : closing[l] # None <=> lpc[l] = "close"
  /\ \A l \in Loops : closing[l] # None =>
        /\ closing[l] \in Members(active) /\ ioOf[closing[l]] = l
        /\ closing[l] \notin enabled
  /\ mpc \in Early => \A c \in Conns : ~ Made(c)
  /\ late # {} => mpc \in Ending
  /\ \A c \in late : c \notin Members(active) /\ Made(c)
  /\ \A c \in Conns : ~ Made(c) => deletes[c] = 0

(* While the server serves, each connection is in one place. *)
InService ==
  mpc \in Early \cup Serving =>
     \A c \in Conns :
        /\ deletes[c] = 0
        /\ Once(reuse, c)
        /\ c \in Members(reuse) => c \notin Members(active) /\ c # conn
        /\ c \in Members(active) => c # conn
        /\ Made(c) => c \in Members(active) \cup Members(reuse) \cup {conn}

(* ~MainServer puts what it finds in the vector into the queue once, and   *)
(* deletes what is in the queue; a close() meanwhile adds one more.        *)
Collected ==
  /\ mpc = "collect" => \A c \in Conns :
        /\ deletes[c] = 0
        /\ c \notin late => Once(reuse, c)
        /\ \A i \in DOMAIN active : i >= step => active[i] \notin Members(reuse)
        /\ late = {} /\ Made(c) =>
              c \in Members(reuse) \/ \E i \in DOMAIN active : i >= step /\ active[i] = c
  /\ mpc = "delete" => \A c \in Conns :
        /\ c \notin late => deletes[c] \in {0, 1} /\ Queued(c, 1 - deletes[c])
        /\ late = {} /\ Made(c) => c \in Members(reuse) \/ deletes[c] = 1
  /\ mpc \in {"collect", "delete"} => \A c \in late : Queued(c, 2 - deletes[c])
  /\ mpc \in {"stop", "join", "free", "done"} => \A c \in Conns :
        /\ c \notin late => deletes[c] \in {0, 1}
        /\ late = {} /\ Made(c) => deletes[c] = 1
  /\ mpc = "aborted" => \A c \in Conns :
        /\ c \notin late => deletes[c] \in {0, 1}
        /\ late = {} /\ Made(c) => deletes[c] = 1

(* Why a client may wait, also between notify() and push_back. *)
Reason(c) ==
  \/ c \in enabled
  \/ c \in Members(inbox[ioOf[c]]) \/ closing[ioOf[c]] = c
  \/ c \notin based \/ c \in unsent \/ c \in dropped
  \/ deletes[c] > 0

Waiting ==
  /\ \A c \in Members(active) : Reason(c)
  /\ mpc = "push" => conn \in Members(inbox[ioOf[conn]]) \/ conn \notin based
                        \/ conn \in unsent \cup dropped

Inv ==
  /\ TypeOK /\ Creating /\ Latch /\ Tasks /\ Pipes
  /\ Vectors /\ InService /\ Collected /\ Waiting

-----------------------------------------------------------------------------
(* The actions by what they change. *)

(* Steps of the main thread that change nothing of threads, loops and      *)
(* connections but where it is.                                            *)
MainMoves ==
  \/ CreateFails \/ LatchWait \/ Spurious \/ ThreadStarted \/ StartReturns
  \/ Submit \/ InitDone \/ StopPool \/ Tell \/ Wake \/ TellDone
  \/ Serve \/ ListenFails \/ Over \/ BreakDone \/ CollectDone \/ DeleteDone
  \/ Join \/ Joined \/ FreeDone

(* ... and where it goes. *)
MainPath ==
  \/ mpc = "start" /\ step \in Workers /\ mpc' = "start" /\ step' = step + 1
  \/ mpc = "start" /\ step \notin Workers /\ mpc' = "submit" /\ step' = 1
  \/ mpc = "latch" /\ count[step] > 0 /\ mpc' = "asleep" /\ step' = step
  \/ mpc = "latch" /\ ~ (count[step] > 0) /\ mpc' = "check" /\ step' = step
  \/ mpc = "asleep" /\ mpc' = "latch" /\ step' = step
  \/ mpc = "check" /\ mpc' = "start" /\ step' = step + 1
  \/ mpc = "submit" /\ step \in TaskIds /\ mpc' = "submit" /\ step' = step + 1
  \/ mpc = "submit" /\ step \notin TaskIds /\ mpc' = "listen" /\ step' = 1
  \/ mpc = "listen" /\ mpc' \in {"serve", "aborted"} /\ step' = 1
  \/ mpc = "serve" /\ mpc' = "break" /\ step' = 1
  \/ mpc = "break" /\ step \notin Loops /\ mpc' = "tell" /\ step' = Redis
  \/ mpc = "tell" /\ step \in Services /\ mpc' = "wake" /\ step' = step
  \/ mpc = "wake" /\ mpc' = "tell" /\ step' = step + 1
  \/ mpc = "tell" /\ step \notin Services /\ mpc' = "collect" /\ step' = 1
  \/ mpc = "collect" /\ step > Len(active) /\ mpc' = "delete" /\ step' = 1
  \/ mpc = "delete" /\ reuse = <<>> /\ mpc' = "stop" /\ step' = 1
  \/ mpc = "stop" /\ mpc' = "join" /\ step' = 1
  \/ mpc = "join" /\ step \in Workers /\ started[step] /\ wpc[step] = "exited"
        /\ mpc' = "join" /\ step' = step + 1
  \/ mpc = "join" /\ step \in Workers /\ mpc' = "aborted" /\ step' = step
  \/ mpc = "join" /\ step \notin Workers /\ mpc' = "free" /\ step' = 1
  \/ mpc = "free" /\ step \notin Loops /\ mpc' = "done" /\ step' = 1

LEMMA MainPathTaken == MainMoves => MainPath
BY DEF MainPath, MainMoves, Goto, CreateFails, LatchWait, Spurious, ThreadStarted,
       StartReturns, Submit, InitDone, StopPool, Tell, Wake, TellDone, Serve, ListenFails, Over, BreakDone,
       CollectDone, DeleteDone, Join, Joined, FreeDone

SpcStates == {"test", "window", "asleep", "missed", "forgotten", "ended"}

LEMMA TypeMain == ASSUME TypeOK, MainMoves PROVE TypeOK'
<1>1. mpc' \in {"start", "latch", "asleep", "check", "submit", "listen", "serve", "send",
                "push", "break", "tell", "wake", "collect", "delete", "stop", "join", "free",
                "done", "aborted"}
      /\ step' \in Nat \ {0}
  BY MainPathTaken, LifeAssumption DEF MainPath, TypeOK, Redis
<1>2. UNCHANGED <<threads, wpc, task, loops, sel, lists, conn, objects, history>>
  BY DEF TypeOK, MainMoves, Goto, CreateFails, LatchWait, Spurious, ThreadStarted,
         StartReturns, Submit, InitDone, StopPool, Tell, Wake, TellDone, Serve, ListenFails,
         Over, BreakDone, CollectDone, DeleteDone, Join, Joined, FreeDone, pool
<1>3. running' \in BOOLEAN /\ queue' \in Seq(TaskIds)
  <2>1. CASE Submit
    BY <2>1 DEF Submit, TypeOK
  <2>2. CASE ~ Submit
    BY <2>2 DEF TypeOK, MainMoves, CreateFails, LatchWait, Spurious, ThreadStarted,
                StartReturns, InitDone, StopPool, Tell, Wake, TellDone, Serve, ListenFails,
                Over, BreakDone, CollectDone, DeleteDone, Join, Joined, FreeDone, pool
  <2> QED
    BY <2>1, <2>2
<1>4. spc' \in [Services -> SpcStates] /\ stopped' \subseteq Services
  <2>0. spc \in [Services -> SpcStates] /\ stopped \subseteq Services
    BY DEF TypeOK, SpcStates
  <2>1. CASE Tell
    BY <2>0, <2>1 DEF Tell
  <2>2. CASE Wake
    BY <2>0, <2>2 DEF Wake, SpcStates
  <2>3. CASE ~ Tell /\ ~ Wake
    BY <2>0, <2>3 DEF MainMoves, CreateFails, LatchWait, Spurious, ThreadStarted,
                StartReturns, Submit, InitDone, StopPool, TellDone, Serve, ListenFails,
                Over, BreakDone, CollectDone, DeleteDone, Join, Joined, FreeDone, services
  <2> QED
    BY <2>1, <2>2, <2>3
<1> QED
  BY <1>1, <1>2, <1>3, <1>4 DEF TypeOK, SpcStates, threads, loops, lists, objects, history

LEMMA MainRest == ASSUME MainMoves
  PROVE  UNCHANGED <<started, tid, count, wpc, task, lpc, inbox, closing, sel, active, reuse,
                     conn, ioOf, based, enabled, deletes, unsent, dropped, late>>
BY DEF MainMoves, Goto, CreateFails, LatchWait, Spurious, ThreadStarted, StartReturns,
       Submit, InitDone, StopPool, Tell, Wake, TellDone, Serve, ListenFails, Over, BreakDone, CollectDone,
       DeleteDone, Join, Joined, FreeDone, threads, pool, loops, lists, objects, history

LEMMA LatchMain == ASSUME Inv, MainMoves PROVE Creating' /\ Latch'
<1>1. Creating'
  <2>1. \A w \in Workers : /\ w >= step + 1 => w > step
                           /\ w > step => w >= step + 1 /\ w >= step
    BY DEF Inv, TypeOK, Workers
  <2> QED
    BY <2>1, MainRest, MainPathTaken DEF MainPath, Inv, Creating
<1>2. mpc' = "check" => mpc = "latch" /\ ~ (count[step] > 0) /\ step' = step /\ count[step] = 0
  BY MainPathTaken DEF MainPath, Inv, TypeOK, Creating
<1>3. mpc' = "check" => count'[step'] = 0
  BY <1>2, MainRest
<1> QED
  BY <1>1, <1>3, MainRest DEF Inv, Latch

LEMMA TasksMain == ASSUME Inv, MainMoves PROVE Tasks'
<1>1. mpc' = "join" => \A w \in Workers : w < step' => wpc[w] = "exited"
  BY MainRest, MainPathTaken DEF MainPath, Inv, TypeOK, Latch, Tasks, Workers
<1>2. mpc' \in {"free", "done"} => \A w \in Workers : wpc[w] = "exited"
  <2>1. CASE mpc = "join" /\ step \notin Workers
    <3>1. mpc = "join" /\ step \in Nat /\ ~ (step \in 1 .. NWorkers) /\ step # 0
      BY <2>1 DEF Inv, TypeOK, Workers
    <3>2. \A w \in Workers : w < step
      BY <3>1, LifeAssumption DEF Workers
    <3> QED
      BY <3>1, <3>2 DEF Inv, Tasks
  <2>2. CASE ~ (mpc = "join" /\ step \notin Workers)
    BY <2>2, MainPathTaken DEF MainPath, Inv, TypeOK, Tasks
  <2> QED
    BY <2>1, <2>2
<1>3. \A l \in Loops : lpc[l] = "freed" => mpc' \in {"free", "done"}
  BY MainRest, MainPathTaken DEF MainPath, Inv, TypeOK, Latch, Tasks, Workers
<1> QED
  BY <1>1, <1>2, <1>3, MainRest DEF Inv, Tasks

LEMMA PipesMain == ASSUME Inv, MainMoves PROVE Pipes'
<1>1. \A l \in Loops : Told(l) => Told(l)'
  BY MainPathTaken DEF MainPath, Inv, TypeOK, Told, Ending, Workers, Loops
<1> QED
  BY <1>1, MainRest DEF Inv, Pipes

LEMMA VectorsMain == ASSUME Inv, MainMoves PROVE Vectors'
<1>1. /\ mpc' \in Early => mpc \in Early
      /\ mpc \in Ending => mpc' \in Ending
      /\ mpc' \in {"send", "push"} <=> mpc \in {"send", "push"}
  BY MainPathTaken DEF MainPath, Inv, TypeOK, Early, Ending
<1> QED
  BY <1>1, MainRest DEF Inv, Vectors, Members, Made

LEMMA InServiceMain == ASSUME Inv, MainMoves PROVE InService'
<1>1. mpc' \in Early \cup Serving => mpc \in Early \cup Serving
  BY MainPathTaken DEF MainPath, Inv, TypeOK, Early, Serving
<1> QED
  BY <1>1, MainRest DEF Inv, InService, Members, Made, Once

LEMMA CollectedMain == ASSUME Inv, MainMoves PROVE Collected'
<1>1. \A c \in Conns : deletes[c] \in 0..2
  BY DEF Inv, TypeOK
<1>2. CASE TellDone
  <2>1. mpc = "tell" /\ mpc' = "collect" /\ step' = 1
    BY <1>2 DEF TellDone, Goto
  <2>2. late = {}
    BY <2>1 DEF Inv, Vectors, Ending
  <2>3. \A i \in DOMAIN active : i >= 1 /\ active[i] \in Conns
    BY DEF Inv, TypeOK
  <2>4. conn = None
    BY <2>1 DEF Inv, Vectors
  <2>5. ASSUME NEW c \in Conns
        PROVE  /\ deletes[c] = 0 /\ Once(reuse, c)
               /\ c \in Members(reuse) => c \notin Members(active)
               /\ Made(c) => c \in Members(active) \cup Members(reuse)
    BY <2>1, <2>4, LifeAssumption DEF Inv, InService, Serving
  <2> QED
    BY <2>1, <2>2, <2>3, <2>5, MainRest DEF Collected, Once, Members, Made
<1>3. CASE CollectDone
  <2>1. mpc = "collect" /\ mpc' = "delete" /\ step > Len(active)
    BY <1>3 DEF CollectDone, Goto
  <2>2. \A i \in DOMAIN active : ~(i >= step)
    BY <2>1 DEF Inv, TypeOK
  <2>3. ASSUME NEW c \in Conns PROVE
        /\ c \notin late => deletes[c] \in {0, 1} /\ Queued(c, 1 - deletes[c])
        /\ late = {} /\ Made(c) => c \in Members(reuse) \/ deletes[c] = 1
        /\ c \in late => Queued(c, 2 - deletes[c])
    <3>1. deletes[c] = 0 /\ (c \notin late => Once(reuse, c))
       BY <2>1 DEF Inv, Collected
    <3>2. late = {} /\ Made(c) => c \in Members(reuse)
       BY <2>1, <2>2 DEF Inv, Collected
    <3>3. c \in late => Queued(c, 2 - deletes[c])
       BY <2>1 DEF Inv, Collected
    <3> QED
      BY <3>1, <3>2, <3>3 DEF Queued
  <2>4. late \subseteq Conns
    BY DEF Inv, TypeOK
  <2> QED
    BY <2>1, <2>3, <2>4, MainRest DEF Collected, Queued, Once, Twice, Members, Made
<1>4. CASE DeleteDone
  <2>1. mpc = "delete" /\ mpc' = "stop" /\ reuse = <<>>
    BY <1>4 DEF DeleteDone, Goto
  <2>2. Members(reuse) = {}
    BY <2>1 DEF Members
  <2> QED
    BY <2>1, <2>2, MainRest DEF Inv, Collected, Made
<1>5. CASE ListenFails
  BY <1>5, MainRest DEF Inv, TypeOK, ListenFails, Goto, InService, Vectors, Collected,
                        Early, Ending, Made
<1>6. CASE StopPool \/ Join \/ Joined \/ FreeDone
  BY <1>6, MainRest DEF Inv, TypeOK, StopPool, Join, Joined, FreeDone, Goto, Collected,
                        Made
<1>7. CASE \/ CreateFails \/ LatchWait \/ Spurious \/ ThreadStarted \/ StartReturns
           \/ Submit \/ InitDone \/ Serve \/ Over \/ BreakDone \/ Tell \/ Wake
  BY <1>7, MainRest DEF Inv, TypeOK, CreateFails, LatchWait, Spurious, ThreadStarted,
                        StartReturns, Submit, InitDone, Serve, Over, BreakDone, Tell, Wake, Goto,
                        Collected
<1> QED
  BY <1>2, <1>3, <1>4, <1>5, <1>6, <1>7 DEF MainMoves

LEMMA WaitingMain == ASSUME Inv, MainMoves PROVE Waiting'
<1>1. mpc' # "push"
  BY MainPathTaken DEF MainPath, Inv, TypeOK
<1> QED
  BY <1>1, MainRest DEF Inv, Waiting, Members, Reason

-----------------------------------------------------------------------------
(* push, and what it does to the number of times an element is there. *)
LEMMA AppendCounts ==
  ASSUME NEW S, NEW s \in Seq(S), NEW e \in S
  PROVE  /\ Append(s, e) \in Seq(S)
         /\ Members(Append(s, e)) = Members(s) \cup {e}
         /\ \A c : c # e => /\ Once(s, c) => Once(Append(s, e), c)
                            /\ Twice(s, c) => Twice(Append(s, e), c)
         /\ e \notin Members(s) => Once(Append(s, e), e)
         /\ Once(s, e) => Twice(Append(s, e), e)
<1> DEFINE n == Len(s)
           t == Append(s, e)
<1>1. /\ n \in Nat /\ DOMAIN s = 1 .. n /\ t \in Seq(S)
      /\ DOMAIN t = 1 .. (n + 1)
      /\ \A i \in 1 .. n : t[i] = s[i]
      /\ t[n + 1] = e
  OBVIOUS
<1>2. \A i \in 1 .. (n + 1) : i \in 1 .. n \/ i = n + 1
  BY <1>1
<1>3. (\A i \in 1 .. n : i \in 1 .. (n + 1)) /\ n + 1 \in 1 .. (n + 1)
  BY <1>1
<1> HIDE DEF n, t
<1>4. Members(t) = Members(s) \cup {e}
  BY <1>1, <1>2, <1>3 DEF Members
<1>5. ASSUME NEW c, c # e
      PROVE  /\ Once(s, c) => Once(t, c)
             /\ Twice(s, c) => Twice(t, c)
  <2>1. \A i \in 1 .. (n + 1) : t[i] = c => i \in 1 .. n /\ s[i] = c
    BY <1>1, <1>2, <1>5
  <2> QED
    BY <1>1, <2>1 DEF Once, Twice
<1>6. e \notin Members(s) => Once(t, e)
  BY <1>1, <1>2 DEF Members, Once
<1>7. Once(s, e) => Twice(t, e)
  BY <1>1, <1>2 DEF Once, Twice
<1> QED
  BY <1>1, <1>4, <1>5, <1>6, <1>7 DEF t

(* pop. *)
LEMMA TailCounts ==
  ASSUME NEW S, NEW s \in Seq(S), s # <<>>
  PROVE  /\ Tail(s) \in Seq(S) /\ s[1] \in S /\ s[1] \in Members(s)
         /\ Members(s) = Members(Tail(s)) \cup {s[1]}
         /\ \A c : /\ Once(s, c) => Once(Tail(s), c)
                   /\ Twice(s, c) => Twice(Tail(s), c)
         /\ Once(s, s[1]) => s[1] \notin Members(Tail(s))
         /\ Twice(s, s[1]) => Once(Tail(s), s[1])
<1> DEFINE n == Len(s)
           t == Tail(s)
<1>1. /\ n \in Nat \ {0} /\ DOMAIN s = 1 .. n /\ t \in Seq(S)
      /\ DOMAIN t = 1 .. (n - 1)
      /\ \A i \in 1 .. (n - 1) : t[i] = s[i + 1]
      /\ \A i \in 1 .. n : s[i] \in S
  OBVIOUS
<1>2. \A i \in 1 .. n : i = 1 \/ (i - 1 \in 1 .. (n - 1) /\ i = (i - 1) + 1)
  BY <1>1
<1>3. (\A i \in 1 .. (n - 1) : i + 1 \in 1 .. n /\ i + 1 # 1) /\ 1 \in 1 .. n
  BY <1>1
<1>4. \A i, j \in 1 .. (n - 1) : i + 1 = j + 1 => i = j
  BY <1>1
<1> HIDE DEF n, t
<1>5. Members(s) = Members(t) \cup {s[1]}
  <2>1. ASSUME NEW i \in DOMAIN s PROVE s[i] \in Members(t) \cup {s[1]}
    <3>1. CASE i - 1 \in 1 .. (n - 1) /\ i = (i - 1) + 1
      <4>1. t[i - 1] = s[i] /\ i - 1 \in DOMAIN t
        BY <1>1, <3>1
      <4> QED
        BY <4>1 DEF Members
    <3> QED
      BY <1>1, <1>2, <3>1
  <2>2. \A i \in DOMAIN t : t[i] \in Members(s)
    BY <1>1, <1>3 DEF Members
  <2>3. s[1] \in Members(s)
    BY <1>1, <1>3 DEF Members
  <2> QED
    BY <2>1, <2>2, <2>3 DEF Members
<1>6. ASSUME NEW c
      PROVE  /\ Once(s, c) => Once(t, c)
             /\ Twice(s, c) => Twice(t, c)
  <2>1. \A i \in DOMAIN t : t[i] = c => i + 1 \in DOMAIN s /\ s[i + 1] = c
    BY <1>1, <1>3
  <2>2. ASSUME Once(s, c), NEW i \in DOMAIN t, NEW j \in DOMAIN t, t[i] = c, t[j] = c
        PROVE  i = j
    <3>1. i + 1 = j + 1
      BY <2>1, <2>2 DEF Once
    <3> QED
      BY <1>1, <1>4, <3>1
  <2>3. ASSUME Twice(s, c), NEW i \in DOMAIN t, NEW j \in DOMAIN t, NEW k \in DOMAIN t,
               t[i] = c, t[j] = c, t[k] = c
        PROVE  i = j \/ i = k \/ j = k
    <3>1. i + 1 = j + 1 \/ i + 1 = k + 1 \/ j + 1 = k + 1
      BY <2>1, <2>3 DEF Twice
    <3> QED
      BY <1>1, <1>4, <3>1
  <2> QED
    BY <2>2, <2>3 DEF Once, Twice
<1>7. ASSUME Once(s, s[1]), NEW i \in DOMAIN t
      PROVE  t[i] # s[1]
  <2>1. i + 1 \in 1 .. n /\ i + 1 # 1 /\ 1 \in 1 .. n /\ t[i] = s[i + 1]
    BY <1>1, <1>3
  <2> QED
    BY <1>1, <1>7, <2>1 DEF Once
<1>8. ASSUME Twice(s, s[1]), NEW i \in DOMAIN t, NEW j \in DOMAIN t,
             t[i] = s[1], t[j] = s[1]
      PROVE  i = j
  <2>1. /\ i + 1 \in 1 .. n /\ i + 1 # 1 /\ 1 \in 1 .. n /\ t[i] = s[i + 1]
        /\ j + 1 \in 1 .. n /\ j + 1 # 1 /\ t[j] = s[j + 1]
    BY <1>1, <1>3
  <2>2. i + 1 = j + 1
    BY <1>1, <1>8, <2>1 DEF Twice
  <2> QED
    BY <1>1, <1>4, <2>2
<1>9. Once(s, s[1]) => s[1] \notin Members(t)
  BY <1>7 DEF Members
<1>10. Twice(s, s[1]) => Once(t, s[1])
  BY <1>8 DEF Once
<1> QED
  BY <1>1, <1>3, <1>5, <1>6, <1>9, <1>10 DEF t

(* std::remove and erase. *)
LEMMA EraseCounts ==
  ASSUME NEW S, NEW s \in Seq(S), NEW e
  PROVE  /\ EraseAll(s, e) \in Seq(S)
         /\ Members(EraseAll(s, e)) = Members(s) \ {e}
         /\ \A n \in DOMAIN EraseAll(s, e) :
               \E k \in DOMAIN s : n <= k /\ EraseAll(s, e)[n] = s[k]
         /\ (\A j, k \in DOMAIN s : s[j] = s[k] => j = k)
               => \A m, n \in DOMAIN EraseAll(s, e) :
                     EraseAll(s, e)[m] = EraseAll(s, e)[n] => m = n
<1> DEFINE gone == {i \in DOMAIN s : s[i] = e}
           t == EraseAll(s, e)
<1>1. gone \subseteq DOMAIN s /\ \A k \in DOMAIN s : k \in gone <=> s[k] = e
  OBVIOUS
<1>2. t = EraseAt(s, gone)
  BY DEF EraseAll
<1> HIDE DEF gone, t
<1>3. /\ t \in Seq(S)
      /\ \A k \in DOMAIN s \ gone : \E n \in DOMAIN t : t[n] = s[k]
      /\ \A n \in DOMAIN t : \E k \in DOMAIN s \ gone : n <= k /\ t[n] = s[k]
      /\ (\A j, k \in DOMAIN s : s[j] = s[k] => j = k)
            => \A m, n \in DOMAIN t : t[m] = t[n] => m = n
  <2>1. /\ EraseAt(s, gone) \in Seq(S)
        /\ \A k \in DOMAIN s \ gone :
              \E n \in DOMAIN EraseAt(s, gone) : EraseAt(s, gone)[n] = s[k]
        /\ \A n \in DOMAIN EraseAt(s, gone) :
              \E k \in DOMAIN s \ gone : n <= k /\ EraseAt(s, gone)[n] = s[k]
        /\ (\A j, k \in DOMAIN s : s[j] = s[k] => j = k)
              => \A m, n \in DOMAIN EraseAt(s, gone) :
                    EraseAt(s, gone)[m] = EraseAt(s, gone)[n] => m = n
    BY <1>1, EraseAtElements
  <2> QED
    BY <1>2, <2>1
<1>4. Members(t) = Members(s) \ {e}
  <2>1. \A n \in DOMAIN t : t[n] \in Members(s) \ {e}
    BY <1>1, <1>3 DEF Members
  <2>2. \A k \in DOMAIN s : s[k] # e => s[k] \in Members(t)
    BY <1>1, <1>3 DEF Members
  <2> QED
    BY <2>1, <2>2 DEF Members
<1>5. \A n \in DOMAIN t : \E k \in DOMAIN s : n <= k /\ t[n] = s[k]
  BY <1>3
<1> QED
  BY <1>3, <1>4, <1>5 DEF t

-----------------------------------------------------------------------------
(* The steps of threads and loops change nothing of the connections. *)
LEMMA ConnectionsKept ==
  ASSUME Inv, UNCHANGED <<mpc, step, lists, conn, objects, history, inbox, closing>>,
         \A l \in Loops : lpc'[l] = "close" <=> lpc[l] = "close"
  PROVE  Vectors' /\ InService' /\ Collected' /\ Waiting'
<1>1. Vectors'
  BY DEF Inv, Vectors, Members, Made, lists, objects, history
<1>2. InService'
  BY DEF Inv, InService, Members, Made, Once, lists, objects
<1>3. Collected'
  BY DEF Inv, Collected, Members, Made, Once, Twice, Queued, lists, objects, history
<1>4. Waiting'
  BY DEF Inv, Waiting, Members, Reason, lists, objects, history
<1> QED
  BY <1>1, <1>2, <1>3, <1>4

LEMMA PipesKept ==
  ASSUME Inv, UNCHANGED <<mpc, step, ioOf, inbox, lpc>>
  PROVE  Pipes'
BY DEF Inv, Pipes, Told

(* Steps of a worker between its creation and its loop. *)
LEMMA WorkerInv ==
  ASSUME Inv, NEW w \in Workers,
         \/ SetTid(w) \/ TestRunning(w) \/ Take(w) \/ TakeNothing(w) \/ TaskReturns(w)
  PROVE  Inv'
<1>1. TypeOK'
  <2>1. CASE Take(w)
    <3>1. queue' \in Seq(TaskIds) /\ queue[1] \in TaskIds
      BY <2>1 DEF Take, Inv, TypeOK
    <3> QED
      BY <2>1, <3>1 DEF Take, Inv, TypeOK, threads, loops, lists, objects, history, services
  <2>2. CASE SetTid(w) \/ TestRunning(w) \/ TakeNothing(w) \/ TaskReturns(w)
    BY <2>2 DEF SetTid, TestRunning, TakeNothing, TaskReturns, Inv, TypeOK,
                threads, loops, lists, objects, history, services
  <2> QED
    BY <2>1, <2>2
<1>2. Creating' /\ Latch'
  <2>1. /\ UNCHANGED <<mpc, step, count>>
        /\ \A v \in Workers \ {w} : wpc'[v] = wpc[v] /\ tid'[v] = tid[v]
        /\ wpc[w] # "unborn"
        /\ tid[w] => tid'[w]
        /\ wpc'[w] = "named" => tid'[w]
    BY DEF SetTid, TestRunning, Take, TakeNothing, TaskReturns, Inv, TypeOK, threads, services
  <2> QED
    BY <2>1 DEF Inv, Creating, Latch
<1>3. Tasks'
  <2>1. /\ UNCHANGED <<mpc, step, lpc>>
        /\ \A v \in Workers \ {w} : wpc'[v] = wpc[v] /\ task'[v] = task[v]
        /\ wpc[w] # "exited"
    BY DEF SetTid, TestRunning, Take, TakeNothing, TaskReturns, Inv, TypeOK, loops
  <2>2. /\ wpc'[w] # "body" => task'[w] = None
        /\ wpc'[w] = "body" => task'[w] \in TaskIds
    <3>1. CASE Take(w)
      <4>1. queue[1] \in TaskIds
        BY <3>1 DEF Take, Inv, TypeOK
      <4> QED
        BY <3>1, <4>1 DEF Take, Inv, TypeOK
    <3>2. CASE SetTid(w) \/ TestRunning(w) \/ TakeNothing(w) \/ TaskReturns(w)
      BY <3>2 DEF SetTid, TestRunning, TakeNothing, TaskReturns, Inv, TypeOK, Tasks
    <3> QED
      BY <3>1, <3>2
  <2>3. ASSUME NEW l \in Loops, lpc[l] \in {"begun", "piped", "dispatch", "run", "close"}
        PROVE  \E v \in Workers : task'[v] = l
    <3>1. PICK v \in Workers : task[v] = l
      BY <2>3 DEF Inv, Tasks
    <3>2. l # None
      BY LifeAssumption DEF Loops
    <3>3. CASE v = w
      <4>1. wpc[w] = "body" /\ ~ TaskReturns(w)
        <5>1. l \notin Services
          BY LifeAssumption DEF Loops, Services, Redis, Timers
        <5> QED
          BY <2>3, <3>1, <3>2, <3>3, <5>1 DEF Inv, Tasks, TaskReturns
      <4> QED
        BY <3>1, <3>3, <4>1 DEF SetTid, TestRunning, Take, TakeNothing
    <3> QED
      BY <2>1, <3>1, <3>3
  <2> QED
    BY <2>1, <2>2, <2>3 DEF Inv, Tasks
<1>4. UNCHANGED <<mpc, step, loops, lists, conn, objects, history>>
  BY DEF SetTid, TestRunning, Take, TakeNothing, TaskReturns
<1>5. Pipes' /\ Vectors' /\ InService' /\ Collected' /\ Waiting'
  BY <1>4, ConnectionsKept, PipesKept DEF loops, objects
<1> QED
  BY <1>1, <1>2, <1>3, <1>5 DEF Inv

(* While there are no connections. *)
LEMMA EarlyKept ==
  ASSUME Inv, mpc \in Early, mpc' \in Early, UNCHANGED <<loops, lists, conn, objects, history>>
  PROVE  Pipes' /\ Vectors' /\ InService' /\ Collected' /\ Waiting'
<1>1. Pipes'
  BY DEF Inv, Pipes, Told, Ending, Early, loops, objects
<1>2. Vectors' /\ InService' /\ Collected' /\ Waiting'
  BY DEF Inv, Vectors, InService, Collected, Waiting, Early, Serving, Ending, Made,
         Members, Once, Reason, loops, lists, objects, history
<1> QED
  BY <1>1, <1>2

LEMMA CreateThreadInv == ASSUME Inv, CreateThread PROVE Inv'
<1>1. TypeOK'
  BY DEF CreateThread, Goto, Inv, TypeOK, loops, lists, objects, history, services
<1>2. Creating' /\ Latch' /\ Tasks'
  <2>1. Creating' /\ Latch'
    BY DEF CreateThread, Goto, Inv, TypeOK, Creating, Latch, Workers
  <2>2. wpc[step] = "unborn"
    BY DEF CreateThread, Inv, TypeOK, Creating, Workers
  <2> QED
    BY <2>1, <2>2 DEF CreateThread, Goto, Inv, TypeOK, Tasks, loops
<1>3. Pipes' /\ Vectors' /\ InService' /\ Collected' /\ Waiting'
  BY EarlyKept DEF CreateThread, Goto, Early
<1> QED
  BY <1>1, <1>2, <1>3 DEF Inv

LEMMA CountDownInv == ASSUME Inv, NEW w \in Workers, CountDown(w) PROVE Inv'
<1>1. /\ wpc[w] = "named" /\ wpc' = [wpc EXCEPT ![w] = "pool"]
      /\ count' = [count EXCEPT ![w] = 0]
      /\ UNCHANGED <<started, tid, task, running, queue, loops, services, sel, lists, conn, objects, history>>
      /\ \/ mpc = "asleep" /\ mpc' = "latch" /\ step' = step
         \/ UNCHANGED <<mpc, step>>
  BY DEF CountDown, Goto
<1>2. TypeOK'
  BY <1>1 DEF Inv, TypeOK, loops, lists, objects, history, services
<1>3. Creating' /\ Latch'
  BY <1>1 DEF Inv, TypeOK, Creating, Latch
<1>4. Tasks'
  BY <1>1 DEF Inv, TypeOK, Tasks, loops
<1>5. Pipes' /\ Vectors' /\ InService' /\ Collected' /\ Waiting'
  <2>1. CASE mpc = "asleep" /\ mpc' = "latch"
    BY <1>1, <2>1, EarlyKept DEF Early
  <2>2. CASE UNCHANGED <<mpc, step>>
    BY <1>1, <2>2, ConnectionsKept, PipesKept DEF loops, objects
  <2> QED
    BY <1>1, <2>1, <2>2
<1> QED
  BY <1>2, <1>3, <1>4, <1>5 DEF Inv

-----------------------------------------------------------------------------
(* The main thread and the workers are where they were. *)
LEMMA ThreadsKept ==
  ASSUME Inv, UNCHANGED <<mpc, step, threads, wpc>>
  PROVE  Creating' /\ Latch'
BY DEF Inv, Creating, Latch, threads

(* The main thread is past the start. *)
LEMMA StartPast ==
  ASSUME Inv, UNCHANGED <<threads, wpc>>,
         mpc' \notin {"start", "latch", "asleep", "check"}
  PROVE  Creating' /\ Latch'
BY DEF Inv, Creating, Latch, threads

(* A loop goes on. *)
LEMMA TasksKept ==
  ASSUME Inv, UNCHANGED <<wpc, task>>,
         \/ UNCHANGED <<mpc, step>>
         \/ mpc' \notin {"join", "free", "done"} /\ mpc \notin {"free", "done"},
         \A l \in Loops : lpc'[l] \in {"begun", "piped", "dispatch", "run", "close"}
                             => \E w \in Workers : task[w] = l,
         \A l \in Loops : lpc'[l] = "freed" => lpc[l] = "freed"
  PROVE  Tasks'
BY DEF Inv, Tasks

(* threadId_ and base_, the pipe, event_add. *)
LEMMA RunMovesInv ==
  ASSUME Inv, NEW l \in Loops, NEW from, NEW to, RunMoves(l, from, to),
         from # "close",
         to \in {"begun", "piped", "dispatch", "run"},
         to = "begun" => from = "unrun",
         \E w \in Workers : task[w] = l
  PROVE  Inv'
<1>1. /\ lpc[l] = from /\ lpc'[l] = to
      /\ \A k \in Loops \ {l} : lpc'[k] = lpc[k]
      /\ UNCHANGED <<mpc, step, threads, pool, inbox, closing, services, sel, lists, conn, objects, history>>
  BY DEF RunMoves, Inv, TypeOK
<1>2. TypeOK'
  BY DEF RunMoves, Inv, TypeOK, threads, pool, lists, objects, history, services
<1>3. Creating' /\ Latch' /\ Tasks'
  BY <1>1, ThreadsKept, TasksKept DEF pool, Inv, Tasks
<1>4. Pipes'
  BY <1>1 DEF Inv, Pipes, Told, objects
<1>5. Vectors' /\ InService' /\ Collected' /\ Waiting'
  BY <1>1, ConnectionsKept
<1> QED
  BY <1>2, <1>3, <1>4, <1>5 DEF Inv

LEMMA RunInv ==
  ASSUME Inv,
         \/ \E w \in Workers : RunBegins(w)
         \/ \E l \in Loops : createNotificationPipe(l) \/ AddEvent(l) \/ RunWaits(l)
  PROVE  Inv'
<1>1. ASSUME NEW w \in Workers, RunBegins(w) PROVE Inv'
  <2>1. task[w] \in Loops
    BY <1>1 DEF RunBegins
  <2> QED
    BY <1>1, <2>1, RunMovesInv DEF RunBegins
<1>2. ASSUME NEW l \in Loops, createNotificationPipe(l) \/ AddEvent(l) \/ RunWaits(l)
      PROVE  Inv'
  <2>1. \E w \in Workers : task[w] = l
    BY <1>2 DEF createNotificationPipe, AddEvent, RunWaits, RunMoves, Inv, Tasks
  <2> QED
    BY <1>2, <2>1, RunMovesInv DEF createNotificationPipe, AddEvent, RunWaits
<1> QED
  BY <1>1, <1>2

(* The services touch nothing else. *)
LEMMA ServiceMovesInv ==
  ASSUME Inv, NEW s \in Services, NEW from, NEW to \in SpcStates, ServiceMoves(s, from, to)
  PROVE  Inv'
<1>1. UNCHANGED <<mpc, step, threads, pool, loops, stopped, sel, lists, conn, objects, history>>
  BY DEF ServiceMoves
<1>2. spc' \in [Services -> SpcStates]
  BY DEF ServiceMoves, Inv, TypeOK, SpcStates
<1>3. TypeOK'
  BY <1>1, <1>2 DEF Inv, TypeOK, SpcStates, threads, pool, loops, lists, objects, history
<1>4. Creating' /\ Latch' /\ Tasks'
  BY <1>1, ThreadsKept, TasksKept DEF Inv, Tasks, pool, loops
<1>5. Pipes' /\ Vectors' /\ InService' /\ Collected' /\ Waiting'
  BY <1>1, PipesKept, ConnectionsKept DEF loops, objects
<1> QED
  BY <1>3, <1>4, <1>5 DEF Inv

LEMMA ServiceInv ==
  ASSUME Inv,
         \/ \E w \in Workers : ServiceTests(w) \/ ServiceWaits(w) \/ PopsAtOnce(w)
         \/ \E s \in Services : ServiceWakes(s)
  PROVE  Inv'
<1>1. Redis \in Services
  BY DEF Services
<1> QED
  BY <1>1, ServiceMovesInv
     DEF ServiceTests, ServiceWaits, PopsAtOnce, ServiceWakes, SpcStates

-----------------------------------------------------------------------------
(* The loops *)

LEMMA ReceiveInv == ASSUME Inv, NEW l \in Loops, Receive(l) PROVE Inv'
<1> DEFINE e == inbox[l][1]
<1>1. /\ lpc[l] = "dispatch" /\ inbox[l] # <<>>
      /\ inbox' = [inbox EXCEPT ![l] = Tail(@)]
      /\ UNCHANGED <<mpc, step, threads, pool, closing, services, sel, lists, conn, ioOf, based,
                     deletes, unsent, late>>
  BY DEF Receive
<1>2. inbox[l] \in Seq(Conns \cup {Null})
  BY DEF Inv, TypeOK
<1>3. /\ Tail(inbox[l]) \in Seq(Conns \cup {Null}) /\ e \in Conns \cup {Null}
      /\ Members(inbox[l]) = Members(Tail(inbox[l])) \cup {e}
  BY <1>1, <1>2, TailCounts
<1>4. /\ inbox'[l] = Tail(inbox[l])
      /\ \A k \in Loops \ {l} : inbox'[k] = inbox[k]
  BY <1>1 DEF Inv, TypeOK
<1>5. \/ /\ e = Null /\ lpc' = [lpc EXCEPT ![l] = "ended"]
         /\ UNCHANGED <<enabled, dropped>>
      \/ /\ e # Null /\ lpc' = lpc
         /\ \/ dropped' = dropped \cup {e} /\ enabled' = enabled
            \/ /\ e \in Members(active) /\ dropped' = dropped
               /\ enabled' = IF e \in based /\ deletes[e] = 0
                             THEN enabled \cup {e} ELSE enabled
  BY DEF Receive, IsActive
<1> HIDE DEF e
<1>6. TypeOK'
  <2>1. /\ lpc' \in [Loops -> {"unrun", "begun", "piped", "dispatch", "run", "close", "ended", "freed"}]
        /\ inbox' \in [Loops -> Seq(Conns \cup {Null})]
        /\ enabled' \subseteq Conns /\ dropped' \subseteq Conns
    BY <1>1, <1>3, <1>5 DEF Inv, TypeOK
  <2> QED
    BY <1>1, <2>1 DEF Inv, TypeOK, threads, pool, lists, services
<1>7. Creating' /\ Latch' /\ Tasks'
  <2>1. \E w \in Workers : task[w] = l
    BY <1>1 DEF Inv, Tasks
  <2>2. \A k \in Loops : lpc'[k] = lpc[k] \/ lpc'[k] = "ended"
    BY <1>5 DEF Inv, TypeOK
  <2> QED
    BY <1>1, <2>1, <2>2, ThreadsKept, TasksKept DEF pool, Inv, Tasks
<1>8. Pipes'
  <2>1. e = Null => Tail(inbox[l]) = <<>> /\ Told(l)
    <3>1. 1 \in DOMAIN inbox[l]
      BY <1>1, <1>2
    <3>2. e = Null => 1 = Len(inbox[l]) /\ Told(l)
      BY <3>1, LifeAssumption DEF Inv, Pipes, e
    <3>3. Len(inbox[l]) = 1 => Tail(inbox[l]) = <<>>
      <4>1. Len(inbox[l]) = 1 => Len(Tail(inbox[l])) = 0
        BY <1>1, <1>2
      <4> QED
        BY <1>3, <4>1, EmptySeq
    <3> QED
      BY <3>2, <3>3
  <2>2. \A i \in DOMAIN Tail(inbox[l]) :
           \/ Tail(inbox[l])[i] = Null /\ i = Len(Tail(inbox[l])) /\ Told(l)
           \/ Tail(inbox[l])[i] \in Conns /\ ioOf[Tail(inbox[l])[i]] = l
    <3>1. ASSUME NEW i \in DOMAIN Tail(inbox[l])
          PROVE  /\ i + 1 \in DOMAIN inbox[l] /\ Tail(inbox[l])[i] = inbox[l][i + 1]
                 /\ i + 1 = Len(inbox[l]) => i = Len(Tail(inbox[l]))
      BY <1>1, <1>2
    <3> QED
      BY <3>1 DEF Inv, Pipes
  <2>3. \A k \in Loops : Told(k)' <=> Told(k)
    BY <1>1 DEF Told
  <2>4. \A k \in Loops \ {l} : lpc'[k] = lpc[k]
    BY <1>5 DEF Inv, TypeOK
  <2>5. lpc'[l] = "dispatch" \/ (lpc'[l] = "ended" /\ e = Null)
    BY <1>1, <1>5 DEF Inv, TypeOK
  <2>6. \A k \in Loops : lpc'[k] \in {"unrun", "begun", "ended", "freed"} => inbox'[k] = <<>>
    BY <1>4, <2>1, <2>4, <2>5 DEF Inv, Pipes
  <2>7. \A k \in Loops : lpc'[k] = "ended" => Told(k)
    BY <2>1, <2>4, <2>5 DEF Inv, Pipes
  <2> QED
    BY <1>1, <1>4, <2>2, <2>3, <2>6, <2>7 DEF Inv, Pipes
<1>9. Vectors'
  <2>1. \A k \in Loops : lpc'[k] = "close" <=> lpc[k] = "close"
    BY <1>1, <1>5 DEF Inv, TypeOK
  <2>2. enabled' \subseteq Members(active)
    BY <1>5 DEF Inv, Vectors
  <2>3. \A k \in Loops : closing[k] # None => closing[k] \notin enabled'
    <3>1. ASSUME NEW k \in Loops, closing[k] # None
          PROVE  closing[k] # e \/ e = Null
      <4>1. ioOf[closing[k]] = k /\ k # l
        BY <1>1, <3>1 DEF Inv, Vectors
      <4>2. e # Null => ioOf[e] = l
        BY <1>1, <1>2, <1>3 DEF Inv, Pipes, e
      <4> QED
        BY <4>1, <4>2
    <3> QED
      BY <1>5, <3>1 DEF Inv, Vectors
  <2> QED
    BY <1>1, <2>1, <2>2, <2>3 DEF Inv, Vectors, Members, Made, lists
<1>10. InService' /\ Collected'
  BY <1>1 DEF Inv, InService, Collected, Members, Made, Once, Twice, Queued, lists
<1>11. Waiting'
  <2>1. ASSUME NEW c \in Members(active)
        PROVE  Reason(c)'
    <3>1. c \in Conns /\ c # Null /\ ioOf[c] \in Loops
      BY <2>1, LifeAssumption DEF Inv, TypeOK, Vectors, Members, Made
    <3>2. Reason(c)
      BY DEF Inv, Waiting
    <3>3. CASE c = e
      <4>1. deletes[c] = 0 \/ deletes[c] > 0
        <5>1. deletes[c] \in 0 .. 2
          BY <3>1 DEF Inv, TypeOK
        <5> QED
          BY <5>1
      <4>2. c \in enabled' \/ c \notin based \/ deletes[c] > 0 \/ c \in dropped'
        BY <1>5, <2>1, <3>1, <3>3, <4>1
      <4> QED
        BY <1>1, <4>2 DEF Reason
    <3>4. CASE c # e
      <4>1. c \in Members(inbox[ioOf[c]]) => c \in Members(inbox'[ioOf[c]])
        BY <1>3, <1>4, <3>1, <3>4
      <4> QED
        BY <1>1, <1>5, <3>2, <4>1 DEF Reason
    <3> QED
      BY <3>3, <3>4
  <2>2. ASSUME mpc = "push"
        PROVE  conn \in Members(inbox'[ioOf[conn]]) \/ conn \notin based
                  \/ conn \in unsent \cup dropped'
    <3>1. conn \in Conns /\ conn # Null /\ ioOf[conn] \in Loops
      BY <2>2, LifeAssumption DEF Inv, TypeOK, Vectors, Made
    <3>2. conn \notin Members(active)
      BY <2>2, <3>1 DEF Inv, InService, Serving
    <3>3. CASE conn = e
      BY <1>5, <3>1, <3>2, <3>3
    <3>4. CASE conn # e
      <4>1. conn \in Members(inbox[ioOf[conn]]) => conn \in Members(inbox'[ioOf[conn]])
        BY <1>3, <1>4, <3>1, <3>4
      <4> QED
        BY <1>5, <2>2, <4>1 DEF Inv, Waiting
    <3> QED
      BY <3>3, <3>4
  <2>3. Members(active)' = Members(active)
    BY <1>1 DEF Members, lists
  <2> QED
    BY <1>1, <2>1, <2>2, <2>3 DEF Waiting
<1> QED
  BY <1>6, <1>7, <1>8, <1>9, <1>10, <1>11 DEF Inv

LEMMA HangUpInv == ASSUME Inv, NEW l \in Loops, NEW c \in Conns, HangUp(l, c) PROVE Inv'
<1>1. /\ lpc[l] = "dispatch" /\ c \in enabled /\ ioOf[c] = l
      /\ enabled' = enabled \ {c}
      /\ closing' = [closing EXCEPT ![l] = c] /\ lpc' = [lpc EXCEPT ![l] = "close"]
      /\ UNCHANGED <<mpc, step, threads, pool, inbox, services, sel, lists, conn, ioOf, based,
                     deletes, history>>
  BY DEF HangUp
<1>2. /\ lpc'[l] = "close" /\ closing'[l] = c
      /\ \A k \in Loops \ {l} : lpc'[k] = lpc[k] /\ closing'[k] = closing[k]
  BY <1>1 DEF Inv, TypeOK
<1>3. TypeOK'
  BY <1>1 DEF Inv, TypeOK, threads, pool, lists, history, services
<1>4. Creating' /\ Latch' /\ Tasks'
  BY <1>1, <1>2, ThreadsKept, TasksKept DEF pool, Inv, Tasks
<1>5. Pipes'
  BY <1>1, <1>2 DEF Inv, Pipes, Told
<1>6. Vectors'
  <2>1. c # None
    BY LifeAssumption
  <2> QED
    BY <1>1, <1>2, <2>1 DEF Inv, Vectors, Members, Made, lists, history
<1>7. InService' /\ Collected'
  BY <1>1 DEF Inv, InService, Collected, Members, Made, Once, Twice, Queued, lists, history
<1>8. Waiting'
  <2>1. closing[l] = None
    BY <1>1 DEF Inv, Vectors
  <2>2. ASSUME NEW d \in Members(active) PROVE Reason(d)'
    <3>1. Reason(d) /\ d # None /\ ioOf[d] \in Loops
      BY LifeAssumption DEF Inv, Waiting, Vectors, TypeOK, Members, Made
    <3> QED
      BY <1>1, <1>2, <2>1, <3>1 DEF Reason, history
  <2>3. Members(active)' = Members(active)
    BY <1>1 DEF Members, lists
  <2> QED
    BY <1>1, <2>2, <2>3 DEF Inv, Waiting, Members, history
<1> QED
  BY <1>3, <1>4, <1>5, <1>6, <1>7, <1>8 DEF Inv

(* The connection that is closed leaves the vector for the queue. *)
LEMMA ReturnInv == ASSUME Inv, NEW l \in Loops, returnTConnection(l) PROVE Inv'
<1> PICK e : e = closing[l]
  OBVIOUS
<1>1. /\ lpc[l] = "close" /\ mpc \notin {"send", "push"}
      /\ active' = EraseAll(active, e)
      /\ reuse' = Append(reuse, e)
      /\ late' = IF mpc \in {"collect", "delete", "stop", "join", "done"}
                 THEN late \cup {e} ELSE late
      /\ closing' = [closing EXCEPT ![l] = None] /\ lpc' = [lpc EXCEPT ![l] = "dispatch"]
      /\ UNCHANGED <<mpc, step, threads, pool, inbox, services, sel, conn, objects, unsent, dropped>>
  BY DEF returnTConnection
<1>2. e \in Conns /\ e \in Members(active) /\ ioOf[e] = l /\ e \notin enabled /\ e \notin late
  BY <1>1, LifeAssumption DEF Inv, Vectors, TypeOK
<1>3. active \in Seq(Conns) /\ reuse \in Seq(Conns)
  BY DEF Inv, TypeOK
<1>4. /\ active' \in Seq(Conns)
      /\ Members(active)' = Members(active) \ {e}
      /\ \A n \in DOMAIN active' : \E k \in DOMAIN active : n <= k /\ active'[n] = active[k]
      /\ \A m, n \in DOMAIN active' : active'[m] = active'[n] => m = n
  <2>1. \A j, k \in DOMAIN active : active[j] = active[k] => j = k
    BY DEF Inv, Vectors
  <2> DEFINE v == active'
  <2>2. v = EraseAll(active, e)
    BY <1>1
  <2> HIDE DEF v
  <2>3. /\ v \in Seq(Conns)
        /\ Members(v) = Members(active) \ {e}
        /\ \A n \in DOMAIN v : \E k \in DOMAIN active : n <= k /\ v[n] = active[k]
        /\ \A m, n \in DOMAIN v : v[m] = v[n] => m = n
    BY <1>3, <2>1, <2>2, EraseCounts
  <2>4. Members(active)' = Members(v)
    BY DEF Members, v
  <2> QED
    BY <2>3, <2>4 DEF v
<1>5. /\ reuse' \in Seq(Conns)
      /\ Members(reuse)' = Members(reuse) \cup {e}
      /\ e \notin Members(reuse) => Once(reuse, e)'
      /\ Once(reuse, e) => Twice(reuse, e)'
  <2> DEFINE v == reuse'
  <2>1. v = Append(reuse, e)
    BY <1>1
  <2> HIDE DEF v
  <2>2. /\ v \in Seq(Conns) /\ Members(v) = Members(reuse) \cup {e}
        /\ \A c : c # e => /\ Once(reuse, c) => Once(v, c)
                           /\ Twice(reuse, c) => Twice(v, c)
        /\ e \notin Members(reuse) => Once(v, e)
        /\ Once(reuse, e) => Twice(v, e)
    BY <1>2, <1>3, <2>1, AppendCounts
  <2>3. Members(reuse)' = Members(v)
    BY DEF Members, v
  <2>4. \A c : (Once(reuse, c)' <=> Once(v, c)) /\ (Twice(reuse, c)' <=> Twice(v, c))
    BY DEF Once, Twice, v
  <2>6. /\ e \notin Members(reuse) => Once(reuse, e)'
        /\ Once(reuse, e) => Twice(reuse, e)'
    BY <2>2, <2>4
  <2>7. reuse' \in Seq(Conns)
    BY <2>2 DEF v
  <2>8. Members(reuse)' = Members(reuse) \cup {e}
    BY <2>2, <2>3
  <2> QED
    BY <2>6, <2>7, <2>8
<1>14. ASSUME NEW c, c # e
       PROVE  /\ Once(reuse, c) => Once(reuse, c)'
              /\ Twice(reuse, c) => Twice(reuse, c)'
  <2> DEFINE v == reuse'
  <2>1. v = Append(reuse, e)
    BY <1>1
  <2> HIDE DEF v
  <2>2. /\ Once(reuse, c) => Once(v, c)
        /\ Twice(reuse, c) => Twice(v, c)
    BY <1>2, <1>3, <1>14, <2>1, AppendCounts
  <2>3. (Once(reuse, c)' <=> Once(v, c)) /\ (Twice(reuse, c)' <=> Twice(v, c))
    BY DEF Once, Twice, v
  <2> QED
    BY <2>2, <2>3
<1>6. /\ lpc'[l] = "dispatch" /\ closing'[l] = None
      /\ \A k \in Loops \ {l} : lpc'[k] = lpc[k] /\ closing'[k] = closing[k]
  BY <1>1 DEF Inv, TypeOK
<1>7. TypeOK'
  BY <1>1, <1>2, <1>4, <1>5, <1>14 DEF Inv, TypeOK, threads, pool, objects, services
<1>8. Creating' /\ Latch' /\ Tasks'
  BY <1>1, <1>6, ThreadsKept, TasksKept DEF pool, Inv, Tasks
<1>9. Pipes'
  BY <1>1, <1>6 DEF Inv, Pipes, Told, objects
<1>10. Vectors'
  <2>1. \A c \in Members(active)' \cup Members(reuse)' : Made(c)'
    BY <1>1, <1>2, <1>4, <1>5, <1>14 DEF Inv, Vectors, Made, objects
  <2>2. enabled' \subseteq Members(active)'
    BY <1>1, <1>2, <1>4 DEF Inv, Vectors, objects
  <2>3. \A k \in Loops : closing'[k] # None =>
           closing'[k] \in Members(active)' /\ ioOf'[closing'[k]] = k /\ closing'[k] \notin enabled'
    BY <1>1, <1>2, <1>4, <1>6 DEF Inv, Vectors, objects
  <2>4. /\ late' # {} => mpc' \in Ending
        /\ \A c \in late' : c \notin Members(active)' /\ Made(c)'
    BY <1>1, <1>2, <1>4, LifeAssumption DEF Inv, Vectors, Made, Ending, Loops, objects
  <2>5. /\ conn' # None => Made(conn)'
        /\ conn' # None <=> mpc' \in {"send", "push"}
        /\ mpc' \in Early => \A c \in Conns : ~ Made(c)'
        /\ \A c \in Conns : ~ Made(c)' => deletes'[c] = 0
    BY <1>1 DEF Inv, Vectors, Made, objects
  <2>6. \A k \in Loops : closing'[k] # None <=> lpc'[k] = "close"
    BY <1>6 DEF Inv, Vectors
  <2> QED
    BY <1>4, <2>1, <2>2, <2>3, <2>4, <2>5, <2>6 DEF Vectors
<1>11. InService'
  <2>1. ASSUME mpc \in Early \cup Serving, NEW c \in Conns
        PROVE  /\ deletes[c] = 0
               /\ Once(reuse, c)'
               /\ c \in Members(reuse)' => c \notin Members(active)' /\ c # conn
               /\ c \in Members(active)' => c # conn
               /\ Made(c) => c \in Members(active)' \cup Members(reuse)' \cup {conn}
    <3>1. /\ e \notin Members(reuse) /\ e # conn
          /\ deletes[c] = 0 /\ Once(reuse, c)
          /\ c \in Members(reuse) => c \notin Members(active) /\ c # conn
          /\ c \in Members(active) => c # conn
          /\ Made(c) => c \in Members(active) \cup Members(reuse) \cup {conn}
      BY <1>2, <2>1 DEF Inv, InService
    <3>2. Once(reuse, c)'
      <4>1. CASE c = e
        BY <1>5, <1>14, <3>1, <4>1
      <4>2. CASE c # e
        BY <1>5, <1>14, <3>1, <4>2
      <4> QED
        BY <4>1, <4>2
    <3> QED
      BY <1>4, <1>5, <1>14, <3>1, <3>2
  <2> QED
    BY <1>1, <2>1 DEF InService, Made, objects
<1>12. Collected'
  <2>1. CASE mpc = "collect"
    <3>1. late' = late \cup {e}
      BY <1>1, <2>1
    <3>2. \A i \in DOMAIN active' : i >= step => active'[i] \notin Members(reuse)'
      <4>1. ASSUME NEW i \in DOMAIN active', i >= step
            PROVE  active'[i] \notin Members(reuse)'
        <5>1. PICK k \in DOMAIN active : i <= k /\ active'[i] = active[k]
          BY <1>4
        <5>2. k >= step
          BY <1>3, <1>4, <4>1, <5>1 DEF Inv, TypeOK
        <5>3. active[k] \notin Members(reuse)
          BY <2>1, <5>2, <1>2 DEF Inv, Collected
        <5>4. active'[i] # e
          <6>1. active'[i] \in Members(active)'
            BY DEF Members
          <6> QED
            BY <1>4, <6>1
        <5> QED
          BY <1>5, <1>14, <5>1, <5>3, <5>4
      <4> QED
        BY <4>1
    <3>3. \A c \in Conns : deletes[c] = 0 /\ (c \notin late => Once(reuse, c))
      BY <2>1 DEF Inv, Collected
    <3>4. \A c \in Conns : c \notin late' => Once(reuse, c)'
      BY <1>2, <1>5, <1>14, <3>1, <3>3
    <3>5. \A c \in late' : Queued(c, 2 - deletes[c])'
      <4>1. \A c \in late : Twice(reuse, c) /\ c \in Conns
        BY <2>1, <3>3 DEF Inv, Collected, Queued, TypeOK
      <4>2. \A c \in late' : Twice(reuse, c)' /\ c \in Conns
        BY <1>2, <1>5, <1>14, <3>1, <3>3, <4>1
      <4>3. \A c \in late' : deletes'[c] = 0
        BY <1>1, <3>3, <4>2 DEF objects
      <4> QED
        BY <4>2, <4>3 DEF Queued
    <3> QED
      BY <1>1, <2>1, <3>1, <3>2, <3>3, <3>4, <3>5 DEF Collected, objects
  <2>2. CASE mpc = "delete"
    <3>1. late' = late \cup {e}
      BY <1>1, <2>2
    <3>2. \A c \in Conns : c \notin late => deletes[c] \in {0, 1} /\ Queued(c, 1 - deletes[c])
      BY <2>2 DEF Inv, Collected
    <3>3. ASSUME NEW c \in Conns, c \notin late'
          PROVE  deletes'[c] \in {0, 1} /\ Queued(c, 1 - deletes[c])'
      <4>1. c # e /\ c \notin late /\ deletes'[c] = deletes[c]
        BY <1>1, <3>1, <3>3 DEF objects
      <4> QED
        BY <1>5, <1>14, <3>2, <4>1 DEF Queued
    <3>4. ASSUME NEW c \in late'
          PROVE  Queued(c, 2 - deletes[c])'
      <4>1. CASE c = e
        <5> deletes' = deletes
          BY <1>1 DEF objects
        <5>1. CASE deletes[e] = 0
          <6>1. Once(reuse, e)
            BY <1>2, <3>2, <5>1 DEF Queued
          <6> QED
            BY <1>5, <1>14, <4>1, <5>1, <6>1 DEF Queued
        <5>2. CASE deletes[e] = 1
          <6>1. e \notin Members(reuse)
            BY <1>2, <3>2, <5>2 DEF Queued
          <6> QED
            BY <1>5, <1>14, <4>1, <5>2, <6>1 DEF Queued
        <5> QED
          BY <1>2, <3>2, <5>1, <5>2
      <4>2. CASE c # e
        <5>1. c \in late /\ Queued(c, 2 - deletes[c]) /\ deletes'[c] = deletes[c]
          BY <1>1, <2>2, <3>1, <3>4, <4>2 DEF Inv, Collected, objects
        <5> QED
          BY <1>5, <1>14, <4>2, <5>1 DEF Queued
      <4> QED
        BY <4>1, <4>2
    <3> QED
      BY <1>1, <2>2, <3>1, <3>3, <3>4 DEF Collected
  <2>3. CASE mpc \in {"stop", "join", "done"}
    <3>1. late' = late \cup {e}
      BY <1>1, <2>3
    <3> QED
      BY <1>1, <2>3, <3>1 DEF Inv, Collected, objects
  <2>4. CASE mpc \notin {"collect", "delete", "stop", "join", "done"}
    <3>1. late' = late
      BY <1>1, <2>4
    <3> QED
      BY <1>1, <2>4, <3>1 DEF Inv, Collected, Made, objects
  <2> QED
    BY <2>1, <2>2, <2>3, <2>4
<1>13. Waiting'
  <2>1. ASSUME NEW c \in Members(active)'
        PROVE  Reason(c)'
    <3>1. c \in Members(active) /\ c # e /\ Reason(c)
      BY <1>4 DEF Inv, Waiting
    <3>2. c \in Conns /\ ioOf[c] \in Loops /\ c # None
      BY <3>1, LifeAssumption DEF Inv, Vectors, TypeOK, Members, Made
    <3>3. closing[ioOf[c]] = c => closing'[ioOf[c]] = c
      BY <1>6, <3>1, <3>2
    <3> QED
      BY <1>1, <3>1, <3>3 DEF Reason, objects
  <2> QED
    BY <1>1, <2>1 DEF Waiting
<1> QED
  BY <1>7, <1>8, <1>9, <1>10, <1>11, <1>12, <1>13 DEF Inv

-----------------------------------------------------------------------------
(* handlerConn *)

LEMMA AcceptNewInv == ASSUME Inv, NEW c \in Conns, AcceptNew(c) PROVE Inv'
<1> DEFINE k == sel' + 1
<1>1. /\ mpc = "serve" /\ reuse = <<>> /\ ioOf[c] = None
      /\ mpc' = "send" /\ step' = 1 /\ conn' = c
      /\ sel' = (sel + 1) % NLoops
      /\ ioOf' = [ioOf EXCEPT ![c] = k]
      /\ based' = based \/ based' = based \cup {c}
      /\ UNCHANGED <<threads, pool, loops, services, lists, enabled, deletes, history>>
  BY DEF AcceptNew, Goto
<1>2. sel' \in 0 .. (NLoops - 1) /\ k \in Loops
  BY <1>1, LifeAssumption DEF Inv, TypeOK, Loops
<1> HIDE DEF k
<1>3. /\ ioOf'[c] = k /\ k # None /\ c # None
      /\ \A d \in Conns : ioOf[d] # None => d # c
      /\ \A d \in Conns \ {c} : ioOf'[d] = ioOf[d]
  BY <1>1, <1>2, LifeAssumption DEF Inv, TypeOK, Loops
<1>4. TypeOK'
  BY <1>1, <1>2 DEF Inv, TypeOK, threads, pool, loops, lists, history, services
<1>5. Creating' /\ Latch' /\ Tasks'
  BY <1>1, StartPast, TasksKept DEF pool, loops, Inv, Tasks
<1>6. Pipes'
  <2>1. ASSUME NEW l \in Loops, NEW i \in DOMAIN inbox[l],
               inbox[l][i] \in Conns, ioOf[inbox[l][i]] = l
        PROVE  ioOf'[inbox[l][i]] = l
    BY <1>3, <2>1, LifeAssumption DEF Loops
  <2> QED
    BY <1>1, <2>1 DEF Inv, Pipes, Told, Ending, loops
<1>7. ~ Made(c) /\ c \notin Members(active) \cup Members(reuse) /\ c \notin late
  BY <1>1 DEF Inv, Vectors, Made
<1>8. \A d \in Conns : Made(d)' <=> Made(d) \/ d = c
  BY <1>3 DEF Made
<1>9. Members(active)' = Members(active) /\ Members(reuse)' = Members(reuse)
  BY <1>1 DEF Members, lists
<1>10. late = {} /\ conn = None
  BY <1>1 DEF Inv, Vectors, Ending
<1>11. Vectors'
  <2>1. Members(active) \cup Members(reuse) \subseteq Conns
    BY DEF Inv, TypeOK, Members
  <2>2. \A d \in Members(active)' \cup Members(reuse)' : Made(d)'
    BY <1>8, <1>9, <2>1 DEF Inv, Vectors
  <2>3. Made(conn)'
    BY <1>1, <1>3 DEF Made
  <2>4. \A l \in Loops : closing[l] # None => closing[l] # c /\ closing[l] \in Conns
    BY <1>7 DEF Inv, Vectors, TypeOK
  <2>5. \A l \in Loops : closing'[l] # None =>
           closing'[l] \in Members(active)' /\ ioOf'[closing'[l]] = l /\ closing'[l] \notin enabled'
    BY <1>1, <1>3, <1>9, <2>4 DEF Inv, Vectors, loops
  <2>6. \A d \in Conns : ~ Made(d)' => deletes'[d] = 0
    BY <1>1, <1>8 DEF Inv, Vectors
  <2> QED
    BY <1>1, <1>3, <1>9, <1>10, <2>2, <2>3, <2>5, <2>6
       DEF Inv, Vectors, Early, Ending, lists, loops, history
<1>12. InService'
  <2>1. ASSUME NEW d \in Conns
        PROVE  /\ deletes'[d] = 0
               /\ Once(reuse, d)'
               /\ d \in Members(reuse)' => d \notin Members(active)' /\ d # conn'
               /\ d \in Members(active)' => d # conn'
               /\ Made(d)' => d \in Members(active)' \cup Members(reuse)' \cup {conn'}
    <3>1. /\ deletes[d] = 0 /\ Once(reuse, d)
          /\ d \in Members(reuse) => d \notin Members(active)
          /\ Made(d) => d \in Members(active) \cup Members(reuse)
      BY <1>1, <1>10, LifeAssumption DEF Inv, InService, Serving
    <3>2. Once(reuse, d)'
      BY <1>1, <3>1 DEF Once, lists
    <3> QED
      BY <1>1, <1>7, <1>8, <1>9, <3>1, <3>2
  <2> QED
    BY <2>1 DEF InService
<1>13. Collected'
  BY <1>1 DEF Collected
<1>14. Waiting'
  <2>1. ASSUME NEW d \in Members(active) PROVE Reason(d)'
    <3>1. d # c /\ d \in Conns
      BY <1>7 DEF Inv, TypeOK, Members
    <3> QED
      BY <1>1, <1>3, <3>1 DEF Inv, Waiting, Reason, loops, history
  <2> QED
    BY <1>1, <1>9, <2>1 DEF Waiting
<1> QED
  BY <1>4, <1>5, <1>6, <1>11, <1>12, <1>13, <1>14 DEF Inv

LEMMA AcceptReuseInv == ASSUME Inv, AcceptReuse PROVE Inv'
<1> PICK c : c = reuse[1]
  OBVIOUS
<1>1. /\ mpc = "serve" /\ reuse # <<>>
      /\ mpc' = "send" /\ step' = 1 /\ conn' = c /\ reuse' = Tail(reuse)
      /\ unsent' = unsent \ {c} /\ dropped' = dropped \ {c}
      /\ UNCHANGED <<threads, pool, loops, services, sel, active, objects, late>>
  BY DEF AcceptReuse, Goto
<1>2. reuse \in Seq(Conns)
  BY DEF Inv, TypeOK
<1>3. late = {} /\ conn = None
  BY <1>1 DEF Inv, Vectors, Ending
<1>4. /\ c \in Conns /\ c \in Members(reuse) /\ Tail(reuse) \in Seq(Conns)
      /\ Members(reuse) = Members(Tail(reuse)) \cup {c}
      /\ \A d : Once(reuse, d) => Once(Tail(reuse), d)
      /\ Once(reuse, c) => c \notin Members(Tail(reuse))
  BY <1>1, <1>2, TailCounts
<1>5. /\ c # None /\ Made(c)
      /\ c \notin Members(active) /\ c \notin Members(Tail(reuse))
  BY <1>1, <1>4, LifeAssumption DEF Inv, Vectors, InService, Serving
<1>6. TypeOK'
  BY <1>1, <1>4 DEF Inv, TypeOK, threads, pool, loops, objects, services
<1>7. Creating' /\ Latch' /\ Tasks'
  BY <1>1, StartPast, TasksKept DEF pool, loops, Inv, Tasks
<1>8. Pipes'
  BY <1>1 DEF Inv, Pipes, Told, Ending, loops, objects
<1>9. /\ Members(active)' = Members(active) /\ Members(reuse)' = Members(Tail(reuse))
      /\ \A d : Made(d)' <=> Made(d)
  BY <1>1 DEF Members, Made, objects
<1>10. Vectors'
  <2>1. \A d \in Members(active)' \cup Members(reuse)' : Made(d)'
    BY <1>4, <1>9 DEF Inv, Vectors
  <2>2. Made(conn)'
    BY <1>1, <1>5 DEF Made, objects
  <2>3. \A l \in Loops : closing'[l] # None =>
           closing'[l] \in Members(active)' /\ ioOf'[closing'[l]] = l /\ closing'[l] \notin enabled'
    BY <1>1, <1>9 DEF Inv, Vectors, loops, objects
  <2> QED
    BY <1>1, <1>3, <1>5, <1>9, <2>1, <2>2, <2>3
       DEF Inv, Vectors, Early, Ending, loops, objects
<1>11. InService'
  <2>1. ASSUME NEW d \in Conns
        PROVE  /\ deletes'[d] = 0
               /\ Once(reuse, d)'
               /\ d \in Members(reuse)' => d \notin Members(active)' /\ d # conn'
               /\ d \in Members(active)' => d # conn'
               /\ Made(d)' => d \in Members(active)' \cup Members(reuse)' \cup {conn'}
    <3>1. /\ deletes[d] = 0 /\ Once(reuse, d)
          /\ d \in Members(reuse) => d \notin Members(active)
          /\ Made(d) => d \in Members(active) \cup Members(reuse)
      BY <1>1, <1>3, LifeAssumption DEF Inv, InService, Serving
    <3>2. Once(reuse, d)'
      BY <1>1, <1>4, <3>1 DEF Once
    <3> QED
      BY <1>1, <1>4, <1>5, <1>9, <3>1, <3>2 DEF objects
  <2> QED
    BY <2>1 DEF InService
<1>12. Collected'
  BY <1>1 DEF Collected
<1>13. Waiting'
  <2>1. ASSUME NEW d \in Members(active) PROVE Reason(d)'
    <3>1. d # c
      BY <1>5
    <3> QED
      BY <1>1, <3>1 DEF Inv, Waiting, Reason, loops, objects
  <2> QED
    BY <1>1, <1>9, <2>1 DEF Waiting
<1> QED
  BY <1>6, <1>7, <1>8, <1>10, <1>11, <1>12, <1>13 DEF Inv

(* notify(): the pointer goes into the pipe of the connection's loop. *)
LEMMA AcceptSendsInv == ASSUME Inv, AcceptSends PROVE Inv'
<1> PICK c, k : c = conn /\ k = ioOf[conn]
  OBVIOUS
<1>1. /\ mpc = "send" /\ mpc' = "push" /\ step' = 1
      /\ UNCHANGED <<threads, pool, lpc, closing, services, sel, lists, conn, objects, dropped, late>>
      /\ \/ /\ HasPipe(k) /\ inbox' = [inbox EXCEPT ![k] = Append(@, c)]
            /\ unsent' = unsent
         \/ unsent' = unsent \cup {c} /\ inbox' = inbox
  BY DEF AcceptSends, notify, Goto
<1>2. c \in Conns /\ c # Null /\ k \in Loops /\ c \notin Members(active)
  BY <1>1, LifeAssumption DEF Inv, TypeOK, Vectors, Made, InService, Serving
<1>3. inbox[k] \in Seq(Conns \cup {Null})
  BY <1>2 DEF Inv, TypeOK
<1>4. /\ Append(inbox[k], c) \in Seq(Conns \cup {Null})
      /\ Members(Append(inbox[k], c)) = Members(inbox[k]) \cup {c}
  BY <1>2, <1>3, AppendCounts
<1>5. \A l \in Loops : \/ inbox'[l] = inbox[l]
                       \/ l = k /\ HasPipe(k) /\ inbox'[l] = Append(inbox[k], c)
  BY <1>1, <1>2 DEF Inv, TypeOK
<1>6. TypeOK'
  <2>1. inbox \in [Loops -> Seq(Conns \cup {Null})] /\ unsent \subseteq Conns
    BY DEF Inv, TypeOK
  <2>2. inbox' \in [Loops -> Seq(Conns \cup {Null})]
    BY <1>1, <1>2, <1>4, <2>1
  <2>3. unsent' \subseteq Conns
    BY <1>1, <1>2, <2>1
  <2> QED
    BY <1>1, <2>2, <2>3 DEF Inv, TypeOK, threads, pool, lists, objects, services
<1>7. Creating' /\ Latch' /\ Tasks'
  BY <1>1, StartPast, TasksKept DEF pool, Inv, Tasks
<1>8. \A l \in Loops : ~ Told(l)
  BY <1>1 DEF Told, Ending
<1>9. Pipes'
  <2>1. lpc[k] # "ended" /\ (lpc[k] = "freed" => ~ (mpc = "send"))
    BY <1>2, <1>8 DEF Inv, Pipes, Tasks
  <2>2. \A l \in Loops : lpc[l] \in {"unrun", "begun", "ended", "freed"} => inbox'[l] = <<>>
    BY <1>1, <1>5, <2>1 DEF Inv, Pipes, HasPipe
  <2>3. \A i \in DOMAIN Append(inbox[k], c) :
           /\ Append(inbox[k], c)[i] \in Conns
           /\ ioOf[Append(inbox[k], c)[i]] = k
    <3>1. \A i \in DOMAIN inbox[k] : inbox[k][i] \in Conns /\ ioOf[inbox[k][i]] = k
      BY <1>2, <1>8 DEF Inv, Pipes
    <3>2. ASSUME NEW i \in DOMAIN Append(inbox[k], c)
          PROVE  \/ i \in DOMAIN inbox[k] /\ Append(inbox[k], c)[i] = inbox[k][i]
                 \/ Append(inbox[k], c)[i] = c
      BY <1>3, <3>2
    <3> QED
      BY <1>2, <3>1, <3>2
  <2>4. \A l \in Loops : \A i \in DOMAIN inbox'[l] :
           inbox'[l][i] \in Conns /\ ioOf[inbox'[l][i]] = l
    <3>1. \A l \in Loops : \A i \in DOMAIN inbox[l] :
             inbox[l][i] \in Conns /\ ioOf[inbox[l][i]] = l
      BY <1>8 DEF Inv, Pipes
    <3> QED
      BY <1>5, <2>3, <3>1
  <2>5. \A l \in Loops : lpc[l] # "ended"
    BY <1>8 DEF Inv, Pipes
  <2> QED
    BY <1>1, <2>2, <2>4, <2>5 DEF Pipes, objects
<1>10. /\ Members(active)' = Members(active) /\ Members(reuse)' = Members(reuse)
       /\ \A d : (Made(d)' <=> Made(d)) /\ (Once(reuse, d)' <=> Once(reuse, d))
  BY <1>1 DEF Members, Made, Once, lists, objects
<1>11. Vectors'
  BY <1>1, <1>10 DEF Inv, Vectors, Early, Ending, Made, lists, objects
<1>12. InService'
  BY <1>1, <1>10 DEF Inv, InService, Serving, objects
<1>13. Collected'
  BY <1>1 DEF Collected
<1>14. \A d \in Conns : d \in Members(inbox[ioOf[d]]) /\ ioOf[d] \in Loops
                           => d \in Members(inbox'[ioOf[d]])
  BY <1>4, <1>5
<1>15. Waiting'
  <2>1. ASSUME NEW d \in Members(active) PROVE Reason(d)'
    <3>1. d \in Conns /\ ioOf[d] \in Loops /\ Reason(d)
      BY DEF Inv, TypeOK, Vectors, Made, Members, Waiting
    <3> QED
      BY <1>1, <1>14, <3>1 DEF Reason, objects
  <2>2. c \in Members(inbox'[k]) \/ c \in unsent'
    <3>1. CASE unsent' = unsent \cup {c}
      BY <3>1
    <3>2. CASE inbox' = [inbox EXCEPT ![k] = Append(@, c)]
      BY <1>2, <1>4, <3>2 DEF Inv, TypeOK
    <3> QED
      BY <1>1, <3>1, <3>2
  <2> QED
    BY <1>1, <1>10, <2>1, <2>2 DEF Waiting, objects
<1> QED
  BY <1>6, <1>7, <1>9, <1>11, <1>12, <1>13, <1>15 DEF Inv

LEMMA AcceptPushesInv == ASSUME Inv, AcceptPushes PROVE Inv'
<1> PICK c : c = conn
  OBVIOUS
<1>1. /\ mpc = "push" /\ mpc' = "serve" /\ step' = 1 /\ conn' = None
      /\ active' = Append(active, c)
      /\ UNCHANGED <<threads, pool, loops, services, sel, reuse, objects, history>>
  BY DEF AcceptPushes, Goto
<1>2. /\ c \in Conns /\ Made(c) /\ late = {}
      /\ c \notin Members(active) /\ c \notin Members(reuse)
  BY <1>1, LifeAssumption DEF Inv, TypeOK, Vectors, InService, Serving, Ending
<1>3. active \in Seq(Conns)
  BY DEF Inv, TypeOK
<1>4. /\ active' \in Seq(Conns) /\ Members(active)' = Members(active) \cup {c}
  <2> DEFINE v == active'
  <2>1. v = Append(active, c)
    BY <1>1
  <2> HIDE DEF v
  <2>2. v \in Seq(Conns) /\ Members(v) = Members(active) \cup {c}
    BY <1>2, <1>3, <2>1, AppendCounts
  <2>3. Members(active)' = Members(v)
    BY DEF Members, v
  <2> QED
    BY <2>2, <2>3 DEF v
<1>5. TypeOK'
  BY <1>1, <1>4 DEF Inv, TypeOK, threads, pool, loops, objects, history, services
<1>6. Creating' /\ Latch' /\ Tasks'
  BY <1>1, StartPast, TasksKept DEF pool, loops, Inv, Tasks
<1>7. Pipes'
  BY <1>1 DEF Inv, Pipes, Told, Ending, loops, objects
<1>8. \A i, j \in DOMAIN active' : active'[i] = active'[j] => i = j
  <2>1. \A i, j \in DOMAIN active : active[i] = active[j] => i = j
    BY DEF Inv, Vectors
  <2>2. \A i \in DOMAIN active : active[i] # c
    BY <1>2 DEF Members
  <2>3. ASSUME NEW i \in DOMAIN active'
        PROVE  \/ i \in DOMAIN active /\ active'[i] = active[i]
               \/ i = Len(active) + 1 /\ active'[i] = c
    BY <1>1, <1>3, <2>3
  <2> QED
    BY <2>1, <2>2, <2>3
<1>9. /\ Members(reuse)' = Members(reuse)
      /\ \A d : (Made(d)' <=> Made(d)) /\ (Once(reuse, d)' <=> Once(reuse, d))
  BY <1>1 DEF Members, Made, Once, objects
<1>10. Vectors'
  <2>1. \A d \in Members(active)' \cup Members(reuse)' : Made(d)'
    BY <1>2, <1>4, <1>9 DEF Inv, Vectors
  <2>2. \A l \in Loops : closing'[l] # None =>
           closing'[l] \in Members(active)' /\ ioOf'[closing'[l]] = l /\ closing'[l] \notin enabled'
    BY <1>1, <1>4 DEF Inv, Vectors, loops, objects
  <2>3. enabled' \subseteq Members(active)'
    BY <1>1, <1>4 DEF Inv, Vectors, objects
  <2> QED
    BY <1>1, <1>2, <1>8, <1>9, <2>1, <2>2, <2>3
       DEF Inv, Vectors, Early, Ending, loops, objects, history
<1>11. InService'
  <2>1. ASSUME NEW d \in Conns
        PROVE  /\ deletes'[d] = 0
               /\ Once(reuse, d)'
               /\ d \in Members(reuse)' => d \notin Members(active)' /\ d # conn'
               /\ d \in Members(active)' => d # conn'
               /\ Made(d)' => d \in Members(active)' \cup Members(reuse)' \cup {conn'}
    <3>1. /\ deletes[d] = 0 /\ Once(reuse, d)
          /\ d \in Members(reuse) => d \notin Members(active)
          /\ Made(d) => d \in Members(active) \cup Members(reuse) \cup {c}
      BY <1>1 DEF Inv, InService, Serving
    <3> QED
      BY <1>1, <1>2, <1>4, <1>9, <3>1, LifeAssumption DEF objects
  <2> QED
    BY <2>1 DEF InService
<1>12. Collected'
  BY <1>1 DEF Collected
<1>13. Waiting'
  <2>1. ASSUME NEW d \in Members(active)' PROVE Reason(d)'
    <3>1. Reason(d)
      BY <1>1, <1>4 DEF Inv, Waiting, Reason
    <3> QED
      BY <1>1, <3>1 DEF Reason, loops, objects, history
  <2> QED
    BY <1>1, <2>1 DEF Waiting
<1> QED
  BY <1>5, <1>6, <1>7, <1>10, <1>11, <1>12, <1>13 DEF Inv

-----------------------------------------------------------------------------
(* ~MainServer *)

LEMMA BreakLoopInv == ASSUME Inv, BreakLoop PROVE Inv'
<1> PICK k : k = step
  OBVIOUS
<1>1. /\ mpc = "break" /\ mpc' = "break" /\ step \in Loops /\ step' = step + 1
      /\ UNCHANGED <<threads, pool, lpc, closing, services, sel, lists, conn, objects, history>>
      /\ \/ HasPipe(step) /\ inbox' = [inbox EXCEPT ![step] = Append(@, Null)]
         \/ inbox' = inbox
  BY DEF BreakLoop, notify, Goto
<1>2. inbox[step] \in Seq(Conns \cup {Null})
  BY <1>1 DEF Inv, TypeOK
<1>3. /\ Append(inbox[step], Null) \in Seq(Conns \cup {Null})
      /\ Members(Append(inbox[step], Null)) = Members(inbox[step]) \cup {Null}
  BY <1>2, AppendCounts
<1>4. \A l \in Loops : \/ inbox'[l] = inbox[l]
                       \/ l = step /\ HasPipe(step) /\ inbox'[l] = Append(inbox[step], Null)
  BY <1>1 DEF Inv, TypeOK
<1>5. TypeOK'
  <2>1. inbox' \in [Loops -> Seq(Conns \cup {Null})]
    BY <1>1, <1>3 DEF Inv, TypeOK
  <2> QED
    BY <1>1, <2>1 DEF Inv, TypeOK, threads, pool, lists, objects, history, services
<1>6. Creating' /\ Latch' /\ Tasks'
  BY <1>1, StartPast, TasksKept DEF pool, Inv, Tasks
<1>7. /\ \A l \in Loops : Told(l) => Told(l)'
      /\ Told(k)' /\ ~ Told(k)
  <2>1. k \in Nat /\ ~ (k < k) /\ k < k + 1 /\ \A l \in Loops : l < k => l < k + 1
    BY <1>1, LifeAssumption DEF Loops
  <2>2. \A l : (Told(l) <=> l < k) /\ (Told(l)' <=> l < k + 1)
    BY <1>1 DEF Told, Ending
  <2> QED
    BY <2>1, <2>2
<1>8. Pipes'
  <2>1. lpc[step] # "ended" /\ lpc[step] # "freed"
    BY <1>1, <1>7 DEF Inv, Pipes, Tasks
  <2>2. \A l \in Loops : lpc[l] \in {"unrun", "begun", "ended", "freed"} => inbox'[l] = <<>>
    BY <1>1, <1>4, <2>1 DEF Inv, Pipes, HasPipe
  <2>3. ASSUME NEW i \in DOMAIN Append(inbox[step], Null)
        PROVE  \/ Append(inbox[step], Null)[i] = Null /\ i = Len(Append(inbox[step], Null))
               \/ /\ Append(inbox[step], Null)[i] \in Conns
                  /\ ioOf[Append(inbox[step], Null)[i]] = step
    <3>1. \A j \in DOMAIN inbox[step] : inbox[step][j] \in Conns /\ ioOf[inbox[step][j]] = step
      BY <1>1, <1>7 DEF Inv, Pipes
    <3>2. \/ i \in DOMAIN inbox[step] /\ Append(inbox[step], Null)[i] = inbox[step][i]
          \/ Append(inbox[step], Null)[i] = Null /\ i = Len(Append(inbox[step], Null))
      BY <1>2, <2>3
    <3> QED
      BY <3>1, <3>2
  <2>4. ASSUME NEW l \in Loops, NEW i \in DOMAIN inbox'[l]
        PROVE  \/ inbox'[l][i] = Null /\ i = Len(inbox'[l]) /\ Told(l)'
               \/ inbox'[l][i] \in Conns /\ ioOf[inbox'[l][i]] = l
    <3>1. CASE inbox'[l] = inbox[l]
      BY <1>7, <2>4, <3>1 DEF Inv, Pipes
    <3>2. CASE l = step /\ inbox'[l] = Append(inbox[step], Null)
      <4>1. Told(l)'
        BY <1>7, <3>2
      <4> QED
        BY <2>3, <2>4, <3>2, <4>1
    <3> QED
      BY <1>4, <3>1, <3>2
  <2>5. \A l \in Loops : lpc[l] = "ended" => Told(l)'
    BY <1>7 DEF Inv, Pipes
  <2> QED
    BY <1>1, <2>2, <2>4, <2>5 DEF Pipes, objects
<1>9. Vectors'
  BY <1>1 DEF Inv, Vectors, Members, Made, lists, objects, history
<1>10. InService'
  BY <1>1 DEF Inv, InService, Members, Made, Once, lists, objects
<1>11. Collected'
  BY <1>1 DEF Collected
<1>12. Waiting'
  <2>1. ASSUME NEW d \in Members(active) PROVE Reason(d)'
    <3>1. d \in Conns /\ ioOf[d] \in Loops /\ Reason(d)
      BY DEF Inv, TypeOK, Vectors, Made, Members, Waiting
    <3>2. d \in Members(inbox[ioOf[d]]) => d \in Members(inbox'[ioOf[d]])
      BY <1>3, <1>4, <3>1
    <3> QED
      BY <1>1, <3>1, <3>2 DEF Reason, objects, history
  <2> QED
    BY <1>1, <2>1 DEF Waiting, Members, lists
<1> QED
  BY <1>5, <1>6, <1>8, <1>9, <1>10, <1>11, <1>12 DEF Inv

LEMMA CollectInv == ASSUME Inv, Collect PROVE Inv'
<1> PICK e, n : e = active[step] /\ n = step
  OBVIOUS
<1>1. /\ mpc = "collect" /\ mpc' = "collect" /\ n <= Len(active) /\ step' = n + 1
      /\ reuse' = Append(reuse, e)
      /\ UNCHANGED <<threads, pool, loops, services, sel, active, conn, objects, history>>
  BY DEF Collect, Goto
<1>2. /\ active \in Seq(Conns) /\ reuse \in Seq(Conns) /\ n \in Nat \ {0}
      /\ n \in DOMAIN active /\ e = active[n]
  BY <1>1 DEF Inv, TypeOK
<1>3. /\ e \in Conns /\ e \in Members(active) /\ e \notin Members(reuse)
      /\ Made(e) /\ e \notin late
  <2>1. e \in Conns /\ e \in Members(active) /\ n >= step
    BY <1>2 DEF Members
  <2> QED
    BY <1>1, <1>2, <2>1 DEF Inv, Vectors, Collected
<1>4. reuse' \in Seq(Conns) /\ Members(reuse)' = Members(reuse) \cup {e}
  <2> DEFINE v == reuse'
  <2>1. v = Append(reuse, e)
    BY <1>1
  <2> HIDE DEF v
  <2>2. v \in Seq(Conns) /\ Members(v) = Members(reuse) \cup {e}
    BY <1>2, <1>3, <2>1, AppendCounts
  <2>3. Members(reuse)' = Members(v)
    BY DEF Members, v
  <2> QED
    BY <2>2, <2>3 DEF v
<1>5. ASSUME NEW c \in Conns
      PROVE  /\ Once(reuse, c) => Once(reuse, c)'
             /\ Twice(reuse, c) /\ c # e => Twice(reuse, c)'
  <2> DEFINE v == reuse'
  <2>1. v = Append(reuse, e)
    BY <1>1
  <2> HIDE DEF v
  <2>2. /\ Once(reuse, c) => Once(v, c)
        /\ Twice(reuse, c) /\ c # e => Twice(v, c)
    BY <1>2, <1>3, <2>1, AppendCounts
  <2>3. (Once(reuse, c)' <=> Once(v, c)) /\ (Twice(reuse, c)' <=> Twice(v, c))
    BY DEF Once, Twice, v
  <2> QED
    BY <2>2, <2>3
<1>6. TypeOK'
  BY <1>1, <1>2, <1>4 DEF Inv, TypeOK, threads, pool, loops, objects, history, services
<1>7. Creating' /\ Latch' /\ Tasks'
  BY <1>1, StartPast, TasksKept DEF pool, loops, Inv, Tasks
<1>8. Pipes'
  BY <1>1 DEF Inv, Pipes, Told, Ending, loops, objects
<1>9. /\ Members(active)' = Members(active)
      /\ \A c : Made(c)' <=> Made(c)
  BY <1>1 DEF Members, Made, objects
<1>10. Vectors'
  <2>1. \A c \in Members(active)' \cup Members(reuse)' : Made(c)'
    BY <1>3, <1>4, <1>9 DEF Inv, Vectors
  <2>2. \A l \in Loops : closing'[l] # None =>
           closing'[l] \in Members(active)' /\ ioOf'[closing'[l]] = l /\ closing'[l] \notin enabled'
    BY <1>1, <1>9 DEF Inv, Vectors, loops, objects
  <2> QED
    BY <1>1, <1>9, <2>1, <2>2 DEF Inv, Vectors, Early, Ending, Made, loops, objects, history
<1>11. InService'
  BY <1>1 DEF InService, Early, Serving
<1>12. Collected'
  <2>1. ASSUME NEW c \in Conns
        PROVE  /\ deletes'[c] = 0
               /\ c \notin late' => Once(reuse, c)'
               /\ late' = {} /\ Made(c)' =>
                     c \in Members(reuse)' \/ \E i \in DOMAIN active' : i >= step' /\ active'[i] = c
    <3>1. deletes[c] = 0 /\ (c \notin late => Once(reuse, c))
      BY <1>1 DEF Inv, Collected
    <3>2. late = {} /\ Made(c) =>
             c \in Members(reuse) \cup {e} \/ \E i \in DOMAIN active : i >= n + 1 /\ active[i] = c
      <4>1. \A i \in DOMAIN active : i >= n => i = n \/ i >= n + 1
        BY <1>2
      <4> QED
        BY <1>1, <1>2, <4>1 DEF Inv, Collected
    <3> QED
      BY <1>1, <1>4, <1>5, <1>9, <3>1, <3>2 DEF objects, history
  <2>2. ASSUME NEW i \in DOMAIN active', i >= step'
        PROVE  active'[i] \notin Members(reuse)'
    <3>1. i \in DOMAIN active /\ i >= n /\ i # n
      BY <1>1, <1>2, <2>2
    <3>2. active[i] \notin Members(reuse) /\ active[i] # e
      <4>1. \E c \in Conns : TRUE
        BY <1>3
      <4> QED
        BY <1>1, <1>2, <3>1, <4>1 DEF Inv, Collected, Vectors
    <3> QED
      BY <1>1, <1>4, <3>2
  <2>3. ASSUME NEW c \in late'
        PROVE  Queued(c, 2 - deletes[c])'
    <3>1. c \in Conns /\ c # e /\ deletes[c] = 0 /\ Queued(c, 2 - deletes[c])
      BY <1>1, <1>3, <2>3 DEF Inv, Collected, TypeOK, history
    <3> QED
      BY <1>1, <1>5, <3>1 DEF Queued, objects
  <2> QED
    BY <1>1, <2>1, <2>2, <2>3 DEF Collected
<1>13. Waiting'
  <2>1. ASSUME NEW d \in Members(active) PROVE Reason(d)'
    BY <1>1, <2>1 DEF Inv, Waiting, Reason, loops, objects, history
  <2> QED
    BY <1>1, <1>9, <2>1 DEF Waiting
<1> QED
  BY <1>6, <1>7, <1>8, <1>10, <1>11, <1>12, <1>13 DEF Inv

(* What is deleted was in the queue, and is there once less. *)
LEMMA DeleteInv == ASSUME Inv, Delete PROVE Inv'
<1> PICK e, n : e = reuse[1] /\ n = deletes[e]
  OBVIOUS
<1>1. /\ mpc = "delete" /\ reuse # <<>> /\ reuse' = Tail(reuse)
      /\ deletes' = [deletes EXCEPT ![e] = @ + 1]
      /\ enabled' = enabled \ {e}
      /\ UNCHANGED <<mpc, step, threads, pool, loops, services, sel, active, conn, ioOf, based, history>>
  BY DEF Delete
<1>2. reuse \in Seq(Conns)
  BY DEF Inv, TypeOK
<1>3. /\ e \in Conns /\ e \in Members(reuse) /\ Tail(reuse) \in Seq(Conns)
      /\ Members(reuse) = Members(Tail(reuse)) \cup {e}
      /\ Once(reuse, e) => e \notin Members(Tail(reuse))
      /\ Twice(reuse, e) => Once(Tail(reuse), e)
  BY <1>1, <1>2, TailCounts
<1>4. \A c : /\ Once(reuse, c) => Once(Tail(reuse), c)
             /\ Twice(reuse, c) => Twice(Tail(reuse), c)
  BY <1>1, <1>2, TailCounts
<1>5. n \in 0 .. 2 /\ deletes'[e] = n + 1 /\ \A c \in Conns \ {e} : deletes'[c] = deletes[c]
  BY <1>1, <1>3 DEF Inv, TypeOK
<1>6. Made(e)
  BY <1>3 DEF Inv, Vectors
<1>7. e \notin late => n = 0 /\ Once(reuse, e)
  BY <1>1, <1>3 DEF Inv, Collected, Queued
<1>8. e \in late => (n = 0 /\ Twice(reuse, e)) \/ (n = 1 /\ Once(reuse, e))
  <2>1. e \in late => Queued(e, 2 - n)
    BY <1>1 DEF Inv, Collected
  <2>2. n = 0 \/ n = 1 \/ n = 2
    <3>1. n \in 0 .. 2
      BY <1>5
    <3> QED
      BY <3>1
  <2>3. ASSUME e \in late
        PROVE  n # 2 /\ (n = 0 => Twice(reuse, e)) /\ (n = 1 => Once(reuse, e))
    <3>1. n = 2 => Queued(e, 0)
      BY <2>1, <2>3
    <3>2. n = 0 => Queued(e, 2)
      BY <2>1, <2>3
    <3>3. n = 1 => Queued(e, 1)
      BY <2>1, <2>3
    <3> QED
      BY <1>3, <3>1, <3>2, <3>3 DEF Queued
  <2> QED
    BY <2>2, <2>3
<1>9. TypeOK'
  <2>1. deletes' \in [Conns -> 0 .. 2]
    BY <1>1, <1>3, <1>5, <1>7, <1>8 DEF Inv, TypeOK
  <2> QED
    BY <1>1, <1>3, <2>1 DEF Inv, TypeOK, threads, pool, loops, history, services
<1>10. Creating' /\ Latch' /\ Tasks'
  BY <1>1, StartPast, TasksKept DEF pool, loops, Inv, Tasks
<1>11. Pipes'
  BY <1>1 DEF Inv, Pipes, Told, Ending, loops
<1>12. /\ Members(active)' = Members(active) /\ Members(reuse)' = Members(Tail(reuse))
       /\ \A c : Made(c)' <=> Made(c)
  BY <1>1 DEF Members, Made
<1>13. Vectors'
  <2>1. \A c \in Members(active)' \cup Members(reuse)' : Made(c)'
    BY <1>3, <1>12 DEF Inv, Vectors
  <2>2. \A l \in Loops : closing'[l] # None =>
           closing'[l] \in Members(active)' /\ ioOf'[closing'[l]] = l /\ closing'[l] \notin enabled'
    BY <1>1, <1>12 DEF Inv, Vectors, loops
  <2>3. \A c \in Conns : ~ Made(c)' => deletes'[c] = 0
    BY <1>5, <1>6, <1>12 DEF Inv, Vectors
  <2> QED
    BY <1>1, <1>12, <2>1, <2>2, <2>3 DEF Inv, Vectors, Early, Ending, Made, loops, history
<1>14. InService'
  BY <1>1 DEF InService, Early, Serving
<1>15. Collected'
  <2>1. ASSUME NEW c \in Conns, c # e
        PROVE  /\ c \notin late' => deletes'[c] \in {0, 1} /\ Queued(c, 1 - deletes[c])'
               /\ c \in late' => Queued(c, 2 - deletes[c])'
               /\ late' = {} /\ Made(c)' => c \in Members(reuse)' \/ deletes'[c] = 1
    <3>1. /\ deletes'[c] = deletes[c] /\ late' = late
          /\ c \notin late => deletes[c] \in {0, 1} /\ Queued(c, 1 - deletes[c])
          /\ c \in late => Queued(c, 2 - deletes[c])
          /\ late = {} /\ Made(c) => c \in Members(reuse) \/ deletes[c] = 1
      BY <1>1, <1>5, <2>1 DEF Inv, Collected, history
    <3>2. /\ Once(reuse, c) => Once(reuse, c)'
          /\ Twice(reuse, c) => Twice(reuse, c)'
          /\ c \notin Members(reuse) => c \notin Members(reuse)'
      <4>1. /\ Once(reuse, c)' <=> Once(Tail(reuse), c)
            /\ Twice(reuse, c)' <=> Twice(Tail(reuse), c)
        BY <1>1 DEF Once, Twice
      <4>2. c \notin Members(reuse) => c \notin Members(reuse)'
        BY <1>3, <1>12
      <4> QED
        BY <1>4, <4>1, <4>2
    <3> QED
      BY <1>3, <1>12, <2>1, <3>1, <3>2 DEF Queued
  <2>2. /\ e \notin late' => deletes'[e] \in {0, 1} /\ Queued(e, 1 - deletes[e])'
        /\ e \in late' => Queued(e, 2 - deletes[e])'
        /\ late' = {} /\ Made(e)' => deletes'[e] = 1
    <3>1. /\ late' = late
          /\ Once(reuse, e) => e \notin Members(reuse)'
          /\ Twice(reuse, e) => Once(reuse, e)'
      BY <1>1, <1>3, <1>12 DEF history, Once
    <3> QED
      BY <1>5, <1>7, <1>8, <3>1 DEF Queued
  <2>3. late' \subseteq Conns
    BY <1>9 DEF TypeOK
  <2> QED
    BY <1>1, <2>1, <2>2, <2>3 DEF Collected
<1>16. Waiting'
  <2>1. ASSUME NEW d \in Members(active) PROVE Reason(d)'
    <3>1. Reason(d) /\ d \in Conns
      BY DEF Inv, Waiting, TypeOK, Members
    <3>2. CASE d = e
      <4>1. deletes'[d] > 0
        BY <1>5, <3>2
      <4> QED
        BY <4>1 DEF Reason
    <3>3. CASE d # e
      BY <1>1, <1>5, <3>1, <3>3 DEF Reason, loops, history
    <3> QED
      BY <3>2, <3>3
  <2> QED
    BY <1>1, <1>12, <2>1 DEF Waiting
<1> QED
  BY <1>9, <1>10, <1>11, <1>13, <1>14, <1>15, <1>16 DEF Inv

(* Nothing is left in the pipe of a loop that ended, or never began. *)
LEMMA FreeLoopInv == ASSUME Inv, FreeLoop PROVE Inv'
<1>1. /\ mpc = "free" /\ mpc' = "free" /\ step \in Loops /\ step' = step + 1
      /\ lpc' = [lpc EXCEPT ![step] = "freed"]
      /\ inbox' = [inbox EXCEPT ![step] = <<>>]
      /\ UNCHANGED <<threads, pool, closing, services, sel, lists, conn, objects, history>>
  BY DEF FreeLoop, Goto
<1>2. \A w \in Workers : wpc[w] = "exited" /\ task[w] = None
  BY <1>1 DEF Inv, Tasks
<1>3. \A l \in Loops : l # None
  BY LifeAssumption DEF Loops
<1>4. \A l \in Loops : lpc[l] \in {"unrun", "ended", "freed"}
  <2>1. \A l \in Loops : lpc[l] \notin {"begun", "piped", "dispatch", "run", "close"}
    BY <1>2, <1>3 DEF Inv, Tasks
  <2>2. \A l \in Loops : lpc[l] \in {"unrun", "begun", "piped", "dispatch", "run", "close", "ended", "freed"}
    BY DEF Inv, TypeOK
  <2> QED
    BY <2>1, <2>2
<1>5. inbox[step] = <<>> /\ inbox' = inbox
  BY <1>1, <1>4 DEF Inv, Pipes, TypeOK
<1>6. \A l \in Loops : lpc'[l] = lpc[l] \/ lpc'[l] = "freed"
  BY <1>1 DEF Inv, TypeOK
<1>7. TypeOK'
  BY <1>1, <1>5 DEF Inv, TypeOK, threads, pool, lists, objects, history, Loops, services
<1>8. Creating' /\ Latch'
  BY <1>1, StartPast DEF pool
<1>9. Tasks'
  BY <1>1, <1>2, <1>4, <1>6 DEF Inv, Tasks, pool
<1>10. Pipes'
  <2>1. \A l \in Loops : Told(l)' /\ inbox'[l] = <<>> /\ DOMAIN inbox'[l] = {}
    BY <1>1, <1>4, <1>5 DEF Told, Ending, Inv, Pipes
  <2> QED
    BY <1>1, <2>1 DEF Pipes
<1>11. \A l \in Loops : lpc'[l] = "close" <=> lpc[l] = "close"
  BY <1>4, <1>6
<1>12. Vectors'
  BY <1>1, <1>11 DEF Inv, Vectors, Members, Made, Early, Ending, lists, objects, history
<1>13. InService' /\ Collected'
  BY <1>1 DEF Inv, InService, Collected, Early, Serving, Made, lists, objects, history
<1>14. Waiting'
  BY <1>1, <1>5 DEF Inv, Waiting, Members, Reason, lists, objects, history
<1> QED
  BY <1>7, <1>8, <1>9, <1>10, <1>12, <1>13, <1>14 DEF Inv

-----------------------------------------------------------------------------
LEMMA InitInv == Init => Inv
<1> SUFFICES ASSUME Init PROVE Inv
  OBVIOUS
<1>1. TypeOK
  BY LifeAssumption DEF Init, TypeOK
<1>2. Creating /\ Latch /\ Tasks
  BY DEF Init, Creating, Latch, Tasks
<1>3. Pipes
  BY DEF Init, Pipes
<1>4. Members(active) = {} /\ Members(reuse) = {} /\ \A c \in Conns : ~ Made(c)
  BY DEF Init, Members, Made
<1>5. Vectors
  BY <1>4 DEF Init, Vectors
<1>6. InService /\ Collected
  BY <1>4 DEF Init, InService, Collected, Once, Early
<1>7. Waiting
  BY <1>4 DEF Init, Waiting
<1> QED
  BY <1>1, <1>2, <1>3, <1>5, <1>6, <1>7 DEF Inv

LEMMA NextInv == Inv /\ [Next]_vars => Inv'
<1> SUFFICES ASSUME Inv, [Next]_vars PROVE Inv'
  OBVIOUS
<1>1. CASE MainMoves
  <2>1. TypeOK'
    BY <1>1, TypeMain DEF Inv
  <2> QED
    BY <1>1, <2>1, LatchMain, TasksMain, PipesMain, VectorsMain, InServiceMain,
       CollectedMain, WaitingMain DEF Inv
<1>2. CASE CreateThread
  BY <1>2, CreateThreadInv
<1>3. CASE AcceptSends
  BY <1>3, AcceptSendsInv
<1>4. CASE AcceptPushes
  BY <1>4, AcceptPushesInv
<1>5. CASE AcceptReuse
  BY <1>5, AcceptReuseInv
<1>6. CASE BreakLoop
  BY <1>6, BreakLoopInv
<1>7. CASE Collect
  BY <1>7, CollectInv
<1>8. CASE Delete
  BY <1>8, DeleteInv
<1>9. CASE FreeLoop
  BY <1>9, FreeLoopInv
<1>10. ASSUME NEW c \in Fresh, AcceptNew(c) PROVE Inv'
  <2>1. c \in Conns
    BY DEF Fresh
  <2> QED
    BY <1>10, <2>1, AcceptNewInv
<1>11. ASSUME NEW l \in Loops, RunWaits(l) PROVE Inv'
  BY <1>11, RunInv
<1>12. ASSUME NEW l \in Loops, NEW c \in Conns, HangUp(l, c) PROVE Inv'
  BY <1>12, HangUpInv
<1>13. CASE \E w \in Workers : WorkerStep(w)
  BY <1>13, WorkerInv, CountDownInv, RunInv, ServiceInv DEF WorkerStep
<1>14. CASE \E s \in Services : ServiceWakes(s)
  BY <1>14, ServiceInv
<1>15. CASE \E l \in Loops : LoopStep(l)
  BY <1>15, RunInv, ReceiveInv, ReturnInv DEF LoopStep
<1>16. CASE UNCHANGED vars
  <2>1. UNCHANGED <<mpc, step, threads, pool, loops, services, sel, lists, conn, objects, history>>
    BY <1>16 DEF vars
  <2>2. TypeOK'
    BY <2>1 DEF Inv, TypeOK, threads, pool, loops, lists, objects, history, services
  <2>3. Creating' /\ Latch' /\ Tasks'
    BY <2>1, ThreadsKept, TasksKept DEF Inv, Tasks, pool, loops
  <2>4. Pipes' /\ Vectors' /\ InService' /\ Collected' /\ Waiting'
    BY <2>1, PipesKept, ConnectionsKept DEF loops, objects
  <2> QED
    BY <2>2, <2>3, <2>4 DEF Inv
<1>17. CASE MainStep
  BY <1>1, <1>2, <1>3, <1>4, <1>6, <1>7, <1>8, <1>9, <1>17, Zenon DEF MainStep, MainMoves
<1>18. CASE CreateFails \/ ListenFails \/ Spurious \/ Over \/ AcceptReuse
  BY <1>1, <1>5, <1>18, Zenon DEF MainMoves
<1>19. CASE Next
  BY <1>10, <1>11, <1>12, <1>13, <1>14, <1>15, <1>17, <1>18, <1>19, Zenon DEF Next
<1> QED
  BY <1>16, <1>19

LEMMA InvHolds == Spec => []Inv
BY InitInv, NextInv, PTL DEF Spec

(* Thread::start asserts tid_ > 0 after the latch (Thread.cpp:162): no      *)
(* order of the threads' steps, and no spurious wakeup, makes it fail.      *)
THEOREM ThreadIdIsKnown == Spec => []TidKnown
<1>1. Inv => TidKnown
  BY DEF Inv, Creating, Latch, TidKnown
<1> QED
  BY <1>1, InvHolds, PTL

(* Whoever is in the vector and is not listened to has a pointer to it in   *)
(* its pipe, is being closed or deleted, or had the loop's base or pipe not *)
(* ready, or was looked for too early (IOThread.cpp:146, MainServer.cpp:180).*)
THEOREM ClientsHaveReasons == Spec => []ClientsAccounted
<1>1. Inv => ClientsAccounted
  BY DEF Inv, Waiting, Reason, ClientsAccounted, UnservedHasReason
<1> QED
  BY <1>1, InvHolds, PTL

(* ~MainServer deletes every connection once (MainServer.cpp:122-132), but *)
(* for those that are returned while it does so.                           *)
THEOREM ConnectionsDeletedOnce == Spec => []DeletedOnce
<1>1. Inv => DeletedOnce
  <2> SUFFICES ASSUME Inv, mpc \in {"stop", "join", "free", "done", "aborted"}, NEW c \in Conns
      PROVE  /\ late = {} => deletes[c] = (IF ioOf[c] = None THEN 0 ELSE 1)
             /\ deletes[c] > 1 => c \in late
    BY DEF DeletedOnce
  <2>1. /\ c \notin late => deletes[c] \in {0, 1}
        /\ late = {} /\ Made(c) => deletes[c] = 1
        /\ ~ Made(c) => deletes[c] = 0
    BY DEF Inv, Collected, Vectors
  <2> QED
    BY <2>1 DEF Made
<1> QED
  BY <1>1, InvHolds, PTL

(* ~IOThread frees a base and a pipe (IOThread.cpp:43) that no worker has    *)
(* in hand, and that no connection is listened to with.                    *)
THEOREM LoopsFreedAfterUse == Spec => []FreedAfterUse
<1>1. Inv => FreedAfterUse
  <2> SUFFICES ASSUME Inv, NEW l \in Loops, lpc[l] = "freed"
      PROVE  /\ \A w \in Workers : task[w] # l
             /\ late = {} => \A c \in enabled : ioOf[c] = l => deletes[c] > 0
    BY DEF FreedAfterUse
  <2>1. mpc \in {"free", "done"}
    BY DEF Inv, Tasks
  <2>2. \A w \in Workers : task[w] # l
    BY <2>1, LifeAssumption DEF Inv, Tasks, Loops
  <2>3. late = {} => \A c \in enabled : deletes[c] = 1
    <3>1. \A c \in enabled : c \in Conns /\ Made(c)
      BY DEF Inv, TypeOK, Vectors
    <3> QED
      BY <2>1, <3>1 DEF Inv, Collected
  <2> QED
    BY <2>2, <2>3
<1> QED
  BY <1>1, InvHolds, PTL
=============================================================================
