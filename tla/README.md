# A TLA+ development of libeventNetwork

This directory holds a formal model of the server in this repository: TLA+
modules translated from the C++ sources, TLC configurations that check them on
small instances, and proofs, checked by TLAPS, that the safety properties hold
for instances of every size. Paths below are relative to the root of the
repository; `PROJECT.json` maps every definition to the lines it models.

Contents: [the system](#the-system), [modules](#modules-and-what-they-model),
[runs](#runs), [bounds](#bounds), [fairness](#fairness), [proofs](#proofs),
[what disagrees with the code's comments](#where-the-code-and-its-comments-disagree),
[what is not modelled](#what-is-not-modelled), [plan](#plan).

To repeat everything, in this directory:

    tlc -config Mutex.cfg Mutex                 # likewise every row of "Runs"
    tlapm MThreadPoolProofs.tla                 # likewise every *Proofs.tla, QueueLemmas

## The system

A TCP server on libevent. One process, these threads:

| thread | runs | started by |
|---|---|---|
| main | `MainServer::serve`: the listener, stdin commands | `main` |
| IO threads (10 as shipped) | `IOThread::runInThread`: a libevent loop each | tasks of the thread pool |
| Redis thread | `RedisPool::runInThread`: restores broken connections | a task of the pool |
| timer thread | `TimerManager::runInThread`: dispatches timers | a task of the pool |
| remaining workers (of 20) | `ProcessTask`s, one per request | the pool |

The four kinds of loops are tasks of one bounded pool that the requests share,
and the IO loops are producers for that same pool. This is where most of the
hard behaviour comes from.

### Components, their state and their operations

| component | state | operations |
|---|---|---|
| `Mutex`, `Condition` (`base/Mutex.h`) | a pthread mutex, the `holder_` tid | `lock`, `unlock`, `wait`, `waitForSeconds`, `notify`, `notifyAll`, the assertions on `holder_` |
| `MThreadPool` (`base/ThreadPool.cpp`) | `queue_`, `running_`, two conditions, the threads | `start`, `run` (blocks when full), `take`, `runInThread`, `stop` |
| `Thread`, `CountDownLatch` | tid, `started_`, `joined_`; a counter | `start` (waits for the new thread), `join` |
| `MainServer` | `activeTConnectionVector`, `ReuseConnectionQueue`, `connMutex`, `selectIOThread_` | `handlerConn`, `returnTConnection`, `isActive`, `heartBeat`, `~MainServer` |
| `PortListener` | `activeSocket` (fd to `TSocket`), `reuseSocketQueue` | `do_accept`, `ReuseTSocket`, `returnTSocket` |
| `TConnection` | `socket_`, `bev`, `appstate`, `socketState`, frame sizes | `init`, `setSocket`, `transition`, `read_request`, `read_cb`, `error_cb`, `notify`, `close`, `heartBeat` |
| `IOThread` | event base, notification pipe, thread id | `notify`, `notifyHandler`, `breakLoop` |
| `RedisPool`, `Redis`, `Queue_s` | connections, `useable` flags, queue of broken ones, `stop` | `grabCedis`, `executeCommand`, `run`, `move`, `reuseCedis`, `exit` |
| `TimerManager`, `Timer` | stack of spare timers, vector of timers in use, event list | `grabTimer`, `addTimer`, `returnTimer`, `stop`, `runInThread` |
| `MysqlPool`, `MysqlWrapper`, `MysqlConn` | stack of connections, a count | `setParameter`, `grab`, `release`, `createOneConnect`; `createAccount`; `execute` |
| framing (`Package/`) | none; works on the input buffer | `parseOnePackage`, `getOnePackage`, `MultipleProtocol` |
| adapters | none | `queryAdapter`, `ChatAdapter::adapter`, `ChatSignIn::process` |
| `Buffer` | reader and writer index over a vector | `append`, `prepend`, `retrieve`, `unwrite`, `shrink`, `readFd`, the integers, `findCRLF` |
| HTTP | parser state | `HttpContext::parseRequest`, `HttpServer::onMessage`, `onRequest` |
| `CRC` | two tables | `crc16` |

### Interactions

- **Accept.** The listener calls `PortListener::do_accept` on the main thread,
  which wraps the descriptor in a new or reused `TSocket` and calls
  `MainServer::handlerConn`. Under `connMutex`, that takes a `TConnection` from
  the reuse queue or creates one for the next IO thread, writes the *pointer*
  into the IO thread's pipe, and adds the connection to the active vector.
- **Enable.** The IO thread reads the pointer, asks `isActive` (no lock), and
  runs `transition()`, which enables the bufferevent.
- **Request.** `read_cb` parses a frame and submits a `ProcessTask` to the pool;
  what is neither a chat nor an echo frame is offered to `HttpServer::onMessage`
  and drained.
  `run()` blocks the IO thread while the queue is full. The task holds a raw
  `TConnection*` and writes its answer to that object's bufferevent.
- **Close.** On hang-up, or when a heart beat has marked the connection,
  `TConnection::close` frees the bufferevent (libevent closes the descriptor),
  and `returnTConnection`, under `connMutex`, closes the descriptor again
  through the `TSocket` and queues both objects for reuse.
- **Heart beat.** `hb` on stdin makes the main thread walk the active vector
  without the mutex, mark each connection and send its pointer.
- **Sign-in.** `ProcessTask` asks `AdapterMap` for the adapter of its package;
  `ChatSignIn::process` takes a connection from `MysqlPool`, inserts an account,
  reads its id and composes the frame that `transMessage` writes.
- **Redis.** `TConnection::init` and `record` take a connection by round robin
  and run a command under that connection's mutex. A failed connection is
  marked and queued; the Redis thread reconnects it without the mutex.
- **Start and end.** `init` starts the pool's threads, one handshake after the
  other, and submits the loops without waiting for them; `serve` accepts at
  once. `~MainServer` breaks the loops, deletes the connections without
  `connMutex` and stops the pool, whose threads it joins.

### What is hard, and what makes each component correct

- Mutex: `holder_` is updated outside the atomic step of the pthread call, and
  must all the same be exact whenever an assertion may read it.
- Pool: no wakeup may be lost on either condition, although workers are also
  producers, wakeups are spurious, and `stop()` can come at any moment. Every
  task runs once, in order, and the queue stays within its bound.
- Connections: pointers in pipes and in tasks outlive the connection they were
  made for, since objects and descriptors are reused; the vector is read
  without its mutex. A connection must be in one place, be returned once, be
  clean when it is reused, and share nothing.
- Start and end: the latch of `Thread::start`, clients that come before the
  loops, closes that run beside the deletion of the connections, loops that
  must hear of the end before they are joined.
- Redis: the reconnecting thread uses a context without its mutex; the flag
  `useable` is the only protection. No broken connection may be forgotten.
- TimerManager: tests outside the mutex, deletion under running callbacks,
  waits that test nothing. A timer must be in one place, an event be known.
- MySQL: the server stops and refuses at any time; the pool must keep account
  of connections and NULLs, and no id may be answered that was not inserted.
- Framing: frames split over reads, several in one read, junk before a frame,
  stale pointers in the middle of one. Packages must be frames of the stream,
  in its order, none dropped or left behind.
- HTTP: requests that arrive in pieces, together, with bodies, or not at all.
- Buffer: index arithmetic over long sequences of calls.

`PROJECT.json` lists these as hazards, each at its line, with the properties
that cover it.

## Modules and what they model

| module | models | extends or instantiates |
|---|---|---|
| `AbstractLock` | what a lock promises: one holder, taken when free | |
| `Mutex` | `base/Mutex.h` | implements `AbstractLock` through `holder_` |
| `TaskQueue` | what a pool promises: tasks leave in the order they came in, each run once | |
| `MThreadPool` | `base/ThreadPool.cpp` with the loops of `MainServer` | implements `TaskQueue` |
| `ServerLife` | `MainServer`'s `init`, `serve` and destructor with `Thread`, `CountDownLatch`, the pool, the IO loops and those of `RedisPool` and `TimerManager` | composes them |
| `Connections` | `MainServer`, `PortListener`, `TConnection`, `TSocket` and `IOThread` of a running server | composes them |
| `RedisPool` | `Cedis/` | |
| `TimerManager` | `base/TimerManager.cpp`, `base/Timer.cpp` | |
| `Framing` | `recv_framing`, `transition`, `read_request` with the protocols of `Package/` | |
| `ByteQueue` | what a buffer promises: a queue of bytes with two ends | |
| `BufferOps`, `Buffer` | `base/Buffer.h`, `base/Buffer.cpp`, `base/Endian.h`: the operations, and all sequences of them | `Buffer` implements `ByteQueue` through `toString` |
| `HttpServer` | `http/` behind `recv_framing` | `BufferOps` |
| `Crc`, `ChatFrame` | `Package/CRC.cpp`; the bytes of a chat frame | |
| `SignIn` | `ProcessTask`, the adapters, `Mysql/` | |
| `SignInFrames` | the frames of its answers, in bytes | `SignIn`, `ChatFrame` |
| `Vector` | `std::vector::erase` as functions of positions | used by `ServerLife`, `TimerManager` |
| `MCConnections`, `MCFraming`, `MCHttpServer`, `MCTimerManager` | symmetry of clients, streams, an initial stack for TLC | their component |
| `QueueLemmas` | lemmas about sequences used as queues and vectors, and on least elements | `Vector` |
| `MThreadPoolProofs`, `ConnectionsProofs`, `RedisPoolProofs`, `TimerManagerProofs`, `ServerLifeProofs` | the theorems | their component |
| `BaseProofs` | the theorems | `Mutex`, `Buffer`, `HttpServer` |
| `RequestProofs` | the theorems | `Framing`, `SignInFrames` |

The last two hold the proofs of components that do not meet in the models; the
names of `Mutex`, `HttpServer` and `SignIn` (`MutexSpec`, `HttpNext`,
`SignInTypeOK`) carry a prefix for that reason only.

Modules with threads keep a "program counter" per thread. A step is what one
thread does between two points where another thread can see or change what it
uses:

- **Mutex**: `Lock` and `AssignHolder` are the two halves of `lock()`,
  `UnassignHolder` and `Unlock` those of `unlock()`. `BeginWait`, `CondWait`,
  then `Lock` and `AssignHolder` again, are a `wait()`; `WakeUp` is a timeout
  or a spurious return. `Notify` needs no mutex, as in the code.
- **MThreadPool**: one critical section is one step, which `Mutex` justifies.
  A turn of the `while` of `run()` is `RunWaits` or `RunPushes`, of `take()`
  `TakeWaits`, `TakeNothing` or `TakePops`. `Loop` is the unlocked read of
  `running_`. A task in `Loops` stays in its worker until `BreakLoops`, and
  may call `run()` from there.
- **ServerLife**: `CreateThread`, `LatchWait`, `ThreadStarted` are
  `Thread::start`, `SetTid` and `CountDown` the new thread's half of it.
  `RunBegins`, `createNotificationPipe` and `AddEvent` are the beginning of a
  loop, `Receive` its `notifyHandler`. `AcceptNew` or `AcceptReuse`,
  `AcceptSends` and `AcceptPushes` are `handlerConn`. `BreakLoop`, `Collect`,
  `Delete`, `StopPool` and `Join` are the statements of `~MainServer`; `HangUp`
  and `returnTConnection` are a `close()` that takes place beside them. `Tell`
  and `Wake` are the two halves of `RedisPool::exit` and `TimerManager::stop`;
  their loops (`ServiceTests`, `ServiceWaits`, `PopsAtOnce`, `ServiceWakes`) are
  reduced to what the join depends on, the test of the flag and the wait, with
  the window between them. `RunWaits` is a loop that submits a request to a pool
  from which nobody takes any more. `isActive` may miss an element while the
  vector moves. The pool is the queue that `MThreadPool` is shown to be; the
  requests in it are left out, as each of them ends.
- **Connections**: `Accept`, `ReuseTSocket`, `HandleNew`/`HandleReuse`,
  `NotifyConn`, `PushConn` are one accept; `connMutex` is held from the third
  to the last. `NotifyEnable`, `NotifyClose` and `NotifyIgnore` are the three
  outcomes of `notifyHandler`. `FreeBev`, `ReturnSocket`, `ReturnConn`,
  `CloseReturns` are `close()`; the last one is its assignment to `appstate`,
  after the connection has been queued. `HeartBeat`, `Beat`, `BeatNotify`
  are the walk. `ProcessTask` is a pool worker. Data races are choices:
  `isActive` may miss an element while the vector moves (`Moving`), and the
  walk of `heartBeat` may go on over any elements when one is erased under it
  (`Shifted`). `IOThread::notify` returns false only without a pipe or when its
  socket fails, so that `heartBeat`'s `close()` on the main thread
  (`TConnection.cpp:247`) is left out. Whether libevent closes the descriptor in `bufferevent_free` or
  in a later turn of its loop differs between its versions: both are allowed
  (`deferred`, `FinalizeBev`). The kernel gives out the lowest free descriptor.
- **RedisPool**: `Grab` and `Look` are `grabCedis`; `Begin`, `Done`,
  `PingAnswered`, `GetReply`, `Fail`, `Move` and `Refused` the two commands;
  `Loop`, `PopWaits`, `Pop`, `PopNothing`, `Reconnect`, `Enable` the thread;
  `Exit` and `WakeAll` the two statements of `exit()`. `Drop` is the network.
- **TimerManager**: a critical section of `mutex_` is one step; everything the
  code does without the mutex is a step for each access: `GrabLooks` and
  `GrabTop`, `GrabAllocates` and `GrabPushes`, `StartAdds`, `StartSaves` and
  `StartNotifies`, the tests `Dispatch`, `NoTimers`, `Exit`, `GoesOn` and the
  wait `Sleep`. A timeout (`Fire`) may come at any time; `AfterTask` reads
  `type_` once the task has run, in memory that `stop()` may have freed.
- **Framing**: one connection; the bytes are positions of a stream, and a frame
  is a place in it with a size and a kind. `Arrive` is libevent reading the
  socket, above the low watermark together with `read_cb`. `RecvNothing`,
  `RecvFrame`, `RecvIncomplete` and `RecvJunk` are the outcomes of
  `recv_framing`; `AppInit`, `FrameSize`, `ReadRequest` (with `read_request`) and
  `CloseConnection` are the cases of `transition()`, each a step of its own.
  `Renotify` is `transition()` called for a stale pointer, and `HeartBeat` the
  main thread's mark in `appstate`, which may come between any two of these
  steps: the next case is then `close()`. (`close()` leaves the same mark, after
  it has queued the connection; but it runs on the IO thread that would have to
  enable the connection for its next client, so that the mark is there before a
  byte is read. `Connections!CloseReturns` has it.)
  `cuts` are the ends of the evbuffer's chains, of which the code sees the
  first. Which length an echo header has before it has arrived is a choice.
  `disturbed` remembers what may cost a frame by itself: a chain that ends in
  a frame, an echo frame in two reads, a stale pointer in the middle of a frame.
- **BufferOps** has the vector, the two indices and every operation as
  functions from a buffer to a buffer: memory keeps its old bytes, so that an
  index error shows. **Buffer** calls them in any order and keeps the call in
  `call`, by which `ByteQueue` says what should have happened. A byte is a
  digit of base `Base`, and integers have a width in digits.
- **HttpServer**: `Arrive` adds tokens, in the same chain or a new one;
  `OnMessage` makes the local `Buffer` and `HttpContext`; `RequestLine`,
  `RequestLineRefused`, `Header`, `EndOfHeaders` and `LineIncomplete` are the
  turns of `parseRequest`; `OnRequest` and `NoRequest` its outcomes, `Drain`
  the end of `recv_framing`. A word, a space, a colon, CR and LF are tokens.
- **SignIn**: `Dispatch` is `ProcessTask` up to the database; `Grab`,
  `GrabEmpty` and `createOneConnect` are `grab()` (the connect is made with the
  pool's mutex held), `Insert` and `Select` the two statements of
  `createAccount`, `Release` the wrapper's destructor, `Respond` and `Send` the
  frame. `UseOfNull` is a NULL from the pool that is used: the process ends.
  `ServerStops` and `ServerStarts` are MySQL's. `SignIn` keeps which id is
  answered; `SignInFrames` computes the frame around it and its checksum in
  bytes, with the tables of `CRC.cpp`.

Definitions with an underscore and a suffix (`TakePops_Silent`) are faulty
variants. The specifications do not use them: `PROJECT.json` names, for each
property, a variant that breaks it, so that each property is known to depend on
the code.

## Runs

| run | configuration | question | distinct states |
|---|---|---|---|
| mutex | `Mutex.cfg` | is `holder_` exact, and does it implement a lock? | 1,080 |
| pool | `MThreadPool.cfg` | are wakeups, order and bound right, and does everything queued start? | 49,214 |
| life | `ServerLife.cfg` | does the server start and end, and what becomes of clients and connections on the way? | 427,881 |
| conn_safe | `ConnSafe.cfg` | are connections and sockets returned, reused and enabled correctly? | 1,394,205 |
| conn_live | `ConnLive.cfg` | do accepts and heart beats end, does a hung-up client's connection become reusable? | 416,676 |
| conn_unserved | `ConnUnserved.cfg` | is every accepted client listened to? **No** | |
| redis | `RedisPool.cfg` | are broken connections restored, exclusively, and does the thread end? | 15,880 |
| timer | `TimerManager.cfg` | are timers and events accounted for, does the dispatcher fire and end? | 38,770 |
| framing | `Framing.cfg` | do packages come out whole, in order, and all of them? | 204,980 |
| buffer | `Buffer.cfg` | do indices, assertions, growth, integers and contents survive any calls? | 20,122 |
| http | `HttpServer.cfg` | is a read answered exactly when a whole head starts it? | 7,002 |
| signin | `SignIn.cfg` (module `SignInFrames`) | is a sign-in answered, truly, with a sound frame, and its connection given back? | 3,542 |

All pass but `conn_unserved`, which ends in the counterexample
[below](#where-the-code-and-its-comments-disagree). `CHECK_DEADLOCK FALSE`
stands where the system may stop: a pool, server or manager that has been
stopped, clients that have all come and gone, a stream that has ended, a process
that a NULL has brought down. The others check for deadlock.

What the properties say, and of what they are made:

| run | property | says |
|---|---|---|
| mutex | `OwnershipExact` | types; owner is the thread inside; `assertLocked` is exact for every thread |
| | `DestructorAssert` | a free mutex has `holder_ == 0` |
| | `ImplementsLock` | `holder_` refines `AbstractLock` |
| pool | `TasksKept` | types, the queue's bound, each task in one place |
| | `NoLostWakeup` | a sleeper means that the awake threads can do all there is to do, on both conditions |
| | `ImplementsTaskQueue` | refinement of `TaskQueue` |
| | `PoolProgress` | queued tasks start and blocked callers return, while there are more workers than loops |
| | `WorkersExit` | after `stop()` workers exit, except one asleep in `run()` |
| life | `TidKnown` | `assert(tid_ > 0)` in `Thread::start` |
| | `ClientsAccounted` | types; a client that nobody listens to came before the base, before the pipe, or before `push_back`, or was missed while the vector moved; nothing that was sent is lost |
| | `DeletedOnce` | connections are deleted once, unless a `close()` runs beside the walk of `~MainServer`; only a connection returned then can be deleted twice |
| | `FreedAfterUse` | bases are freed when no worker is in the loop and, with the same exception, no connection uses them |
| | `StartAndEnd` | `init` returns; once every loop has its pipe, `~MainServer` returns, unless it waits for ever for a service whose notification came between test and wait, or for a loop in `run()` |
| conn_safe | `ConnectionsSound` | types; one place for each connection; what is queued for reuse is clean |
| | `CallbacksSound` | enabled means active; `close()` returns an active connection with a socket, once, from its own thread |
| | `SocketsSound` | one user per `TSocket`, and the same descriptor as the bufferevent |
| conn_live | `HungConnIsReused` | a connection that hears its client hang up is queued for reuse, unless its descriptor is closed under it or the server is jammed |
| | `MainReturns` | an accept and a heart beat end, unless main and an IO thread wait for each other (`Jammed`) |
| redis | `UnusableKept` | types; a broken connection is in one place on its way to be restored; the thread is awake while one waits |
| | `ContextExclusive` | one thread in a context |
| | `UnusableIsRestored`, `GrabReturns` | restoring and `grabCedis` end, unless the pool is stopped |
| | `ExitEndsSleeper` | `exit()` ends the thread that sleeps |
| timer | `TimersKept` | types; each timer in one place, or lost to a full stack; the top of the stack is there for a single user |
| | `ArmedIsKnown` | every event in the base can be found by `removeEvent`, but for the moment of its creation |
| | `DispatcherLives` | the thread ends after `stop()`, but for the window before the wait, and goes on firing while it polls with a timeout |
| framing | `FramesSound` | types (no more is drained than has come); whole packages are frames, in order, once |
| | `NoSilentLoss` | no frame of an orderly stream is drained undelivered, unless disturbed |
| | `FrameIsDelivered` | it is delivered in the end, unless a heart beat has closed the connection |
| buffer | `AssertionsHold` | types, order of the indices, the assertions of `makeSpace` |
| | `IntegersSurvive` | appended and prepended integers are read back, with their sign |
| | `GrowsOnlyWhenFull` | the vector grows only when it must |
| | `ImplementsByteQueue` | refinement of `ByteQueue` |
| http | `ParserSound` | types, `setMethod`'s assertion, the parser at the start of a line |
| | `AnswersWholeRequests` | a read is answered exactly when a whole head starts it, by the grammar of requests, and as it asks; excepted are fields without a colon |
| | `ReadReturns` | the callback returns |
| signin | `PoolAccounted` | types; each connection in one place, and none in use after its deletion; the count right; the stack's bound; NULL only after a failure |
| | `AccountBeforeId` | an id is answered for an inserted account only |
| | `ResponsesSound` | frames are recognised; one damaged byte is noticed; both tables and every frame agree with CRC-16/Modbus |
| | `SignInAnswered` | a sign-in is answered and gives its connection back, unless the process is gone |

## Bounds

- *Mutex*: three threads and two conditions: one thread inside, one that waits
  and one that wants the mutex, which is what each step distinguishes.
- *Pool*: three workers, two loops, four tasks, a queue of two. The loops leave
  one worker, as `POOL_SIZE` leaves several; the two others can be blocked in
  `run()` at the same time with the main thread. The bound of the queue is
  reached.
- *ServerLife*: two threads, two loops, two connections: one loop may run
  before the other is submitted, one connection close while the other is
  accepted or deleted. Reuse makes the number of clients unbounded. There are
  four tasks for two threads, so the loop of `RedisPool` or `TimerManager` runs
  once an IO loop has ended: before, between and after the statements of
  `~MainServer` that tell it to end.
- *Connections*: two clients, two connections, two sockets, two descriptors
  and, for safety, two IO threads: enough for an object, a socket and a
  descriptor to be reused while their first user is still closing, and for a
  new connection to be created while another is in use. A client connects
  once: a peer that returns is another client. Pipes hold two pointers, and one
  in `conn_live`, where heart beats fill it; the real one holds thousands, and
  the bound is what lets a run see it full. `conn_live` has one IO thread, as
  the cycle it looks for is of that thread with the main thread. The clients are
  symmetric in the run for safety; which object `new` allocates is fixed
  (`Fresh`), as it makes no difference.
- *Redis*: two connections, two users. Every connection may be down at once,
  any number of times.
- *Timers*: two timers, two events, one user, a stack for one: the stack is
  full, empty and has one, and a timer can be made while another fires. Memory
  of a deleted timer may be used again for a new one.
- *Framing*: eight streams of eight bytes, with frames back to back, behind
  junk, behind a bad frame, mixed, and one larger than the high watermark of
  five; headers of two bytes, two stale pointers, heart beats without end. Every
  split into reads is tried, and at most one new chain per read.
- *Buffer*: two bytes, so that CR and LF, NUL and digits occur in all
  positions; integers of one and two digits; two initial sizes, two bytes
  reserved in front, up to three readable; a second read buffer of two. Every
  size relation that the code tests occurs on both sides.
- *HTTP*: nine streams: alone, pipelined, with a body, repeated fields, a field
  without a colon, mistakes in each part of the request line; every split into
  reads, one chain boundary at a time. With each stream `MCHttpServer` lists the
  requests its client means, and TLC checks that the grammar finds these and no
  others (`MeantAsFound`).
- *SignIn*: two workers, a pool preloaded with one connection that keeps one,
  so that connections are made, kept and deleted; ids and freed text are two
  bytes of JSON, the frame around them has its real bytes.

The bounds in guards are `MaxReadable` (`Buffer`) and `MaxCuts` (`HttpServer`);
`Stale` (`Framing`) is how many stale pointers there are at first. All other
state spaces are finite by their sets.

## Fairness

- Pool: workers, callers and a begun shutdown go on (weak fairness of each
  thread's step); the mutex is never withheld for ever since every critical
  section is one finite step. Nobody has to call, stop, or wake up spuriously.
- ServerLife: every thread is scheduled (weak fairness); clients, the console,
  failures, spurious wakeups and broken Redis connections may come or not.
  Nothing is assumed of a thread that waits on a condition until it is notified.
- Connections: each thread goes on with what it has begun, event loops deliver
  what is ready, waiting clients are accepted, `run()` returns (the pool's own
  model shows when it does). Clients and the console may be silent for ever.
- Redis: commands are answered or fail, reconnecting ends; nothing has to
  break. Two users spin in `grabCedis` under the pool's mutex, so weak
  fairness of `Look` is enough: the one who has the mutex keeps it.
- Timers: threads go on, timeouts come, and a loop that returns to its poll
  again and again sees its pipe (strong fairness of `BreakLoop`: poll reports
  every ready descriptor).
- Framing and HTTP: callbacks that have begun go on. In `Framing` the bytes
  arrive in the end; no stale pointer need ever be read, no heart beat come. The
  number of stale pointers is finite: each was written by an accept or a heart
  beat.
- SignIn: a thread with a task goes on and MySQL's calls return. Nothing is
  asked of the pool's mutex: with more than two threads a release could be
  overtaken for ever by threads that connect under it.

Weak fairness is what an operating system scheduler gives to a thread that can
run. No property needs more, except the poll named above and that a pool worker
that finds the mutex free gets it in the end, which a critical section as one
step includes.

## Proofs

Most theorems are of the form `Spec => []P` or `Spec => Abstract!Spec`, for every
value of the constants allowed by the assumptions of the module, with no
fairness; some say what an operator of the model computes, for every argument.

- `MThreadPoolProofs`: `TasksAreKept`, `NoWakeupIsLost`, `Implementation`.
  `OnePlace` becomes inductive with `HandsMatchPc` (a thread holds a task
  exactly where its position says so). The wakeup theorem counts: a signal
  moves one sleeper exactly when the queue gains a task or a place, so the
  awake threads keep up with the queue.
- `ConnectionsProofs`: `ConnectionsAreSound`, `CallbacksAreSound`,
  `SocketsAreSound`. The invariant adds to these `MainHands` and `IOHands`
  (what each thread holds where it is; pipes carry only pointers to connections
  of their own thread, which is why a stale pointer does no harm to the places:
  the same thread has closed the connection) and `Wired` (a connection in use
  has its socket, and its bufferevent until its own IO thread closes it).
- `RedisPoolProofs`: `UnusableAreKept`, `ContextsHaveOneUser`. The invariant
  adds that mutexes and hands match the positions, and `TalksWhileUsable`:
  whoever is inside hiredis has tested `useable` under the mutex, and only an
  owner of the mutex resets it. That is why `reConnect` without the mutex meets
  nobody.
- `RequestProofs`, on `Framing`, for every stream and watermark:
  `FramesInOrder`, `NothingIsLost`. For the first, `DeliveredInOrder` becomes
  inductive with `Consumed`: a delivered package starts before the drained
  position. A package starts at that position, is no longer than `frameSize_`,
  and `frameSize_` bytes are drained with it, so the next one starts behind it,
  even with a stale `frameSize_`. For the second, as long as nothing has
  disturbed the stream, no chain ends inside a frame (`CutsFit`), `read_request`
  is reached with a whole frame at the front or with nothing to drain
  (`Orderly`, which says what each case of `transition()` finds in `frameSize_`
  and `readWant_`, whatever a heart beat has put into `appstate`), and the
  drained position is inside no frame and behind delivered ones only (`Served`).
- `RequestProofs`, on `SignIn`, for any number of workers and any size of the
  pool: `ConnectionsAreAccounted`, `IdsHaveAccounts`. The invariant adds what
  each thread holds where it is (`Hands`), that the stack stays empty while a
  connect is made under the mutex (`EmptyWhileConnecting`), where a NULL on the
  stack comes from (`NullOnStack`) and that only who has inserted asks for an id
  (`Asking`). That a connection for `createOneConnect` is always left is
  counted: connections outnumber what the stack and the threads can hold.
- `RequestProofs`, on `ChatFrame` and `Crc`, for every message and payload:
  `ChecksumIsModbus`, `OneByteTells`, `FramesRecognised`, `DamageShows`; and from
  them `AnswersSound`. `xor` is shown to be the addition of a group on words,
  halving both sides until they are 0. A register of two bytes is the `xor` of
  one byte shifted up and the other; the byte that is shifted up passes through
  eight shifts of the definition unchanged (`ShiftedOutEven`), so that one turn
  of the loop needs the eight shifts of a single byte only: the table
  (`StepAgrees`). The shifts lose nothing (`ShiftedOnce`, as the polynomial sets
  the highest bit), so registers that differ still differ after the same byte,
  and equal ones differ after different bytes (`CrcStepTells`). Hence a frame
  with one byte changed is refused wherever the change is, except in the length:
  there it may be waited for instead, or end at another place, where in general
  chance decides. For the frames of `SignIn` there is one such place, and there
  the high byte of the checksum is not the tail byte: the three checksums are
  computed (`HighByte`).
- `BaseProofs`, on `Mutex`: `OwnershipIsExact`, `DestructorAssertHolds`,
  `LockImplementation`. The invariant is `OwnershipExact` itself: the position of
  a thread determines both the owner of the pthread mutex and `holder_`.
- `BaseProofs`, on `Buffer`: `BufferAsserts`, `GrowthIsNeeded`,
  `Implementation`, `IntegersReadBack`, for every alphabet, size and width. The
  invariant is that the indices are in order inside the vector (`WF`); each
  operation has a lemma on what it does to `toString`. The copy of `makeSpace`
  is the interesting one: it moves bytes only if the reader index is behind the
  reserved space, hence to lower addresses, and leaves room for what is asked.
  `readFd` splits what it reads between the vector and the second buffer, and
  joins it again by `append`. For the integers, the leading `n` of the `w` digits
  of `x` are worth `x \div Base^(w-n)` less what lies above the width
  (`LeadingDigits`, from `DivOfDiv`); the loop of `networkToHost` is a recursive
  function with one outcome (`FoldedOnce`: at the least position where two
  outcomes differ they agree before it), and the conversion to a signed type
  takes off what a negative number has too much.
- `BaseProofs`, on `HttpServer`: `LinesParsedWhole`, `RequestsAnswered`, for any tokens,
  streams and chains. The invariant `HttpInv` adds to `ParserSound` that the local buffer is
  one (`WF`) and the shape of the request. The image is the first chain
  (`ImageInInput`), it is copied whole by `append`, and a turn takes what lies
  before a CR and an LF, with them (`LineTaken`): the lemmas on `Buffer` say what
  is left. `RequestsAnswered` compares the parser with a grammar of requests that
  is stated on the stream and knows nothing of it. The invariant `AnswerInv` says
  what the parser has understood of the lines it took: the first is a request
  line, with this version; none of the others is empty; and the field
  `Connection` of the request is the last one among them, without its spaces
  (`LoopOK`). When it stops, its verdict is that of the grammar (`VerdictOK`):
  it has met the empty line, or a first line that is no request line, or no
  further line, in which case no head is whole.
- `TimerManagerProofs`: `TimersAreKept`, `EventsAreKnown`. `TimersKept` becomes
  inductive with `Holding` (who is past `new` has a timer, and no two users are
  about to push the same one) and `StopFlag` (`stop()` sets `bexit_` before it
  takes anything away). `ArmedIsKnown` needs
  `Adding`: what is in the base and not yet in the list is one event of each
  user, who is about to save it.
- `ServerLifeProofs`: `ThreadIdIsKnown`, `ClientsHaveReasons`,
  `ConnectionsDeletedOnce`, `LoopsFreedAfterUse`. One invariant, `Inv`, with a
  part for each relation that the end of the server depends on: threads are
  created one after the other (`Creating`); the latch is down only when `tid_`
  is written (`Latch`); a loop that runs is the task of a worker, and workers
  have exited when they are joined (`Tasks`); pipes hold pointers to connections
  of their own loop, and NULL last (`Pipes`); the vector has nothing twice
  (`Vectors`); a connection is in one place while the server serves
  (`InService`) and is put into the queue once by the walk, and once more by a
  `close()` beside it (`Collected`); a client that waits has one of the reasons
  `ClientsAccounted` lists, also between `notify()` and `push_back` (`Waiting`).

Assumed: only the `ASSUME`s of the modules, which say that the sets of
identities are disjoint, the set of `SignIn`'s threads finite, the sizes positive
where the code divides by them, the frames of a stream apart from each other, the tokens of HTTP distinct where
characters are (CR and LF, a colon and a word, a space and anything else),
the tables of `CRC.cpp` right for each byte (`TableAssumption` in `Crc`: 256
entries, each computed by its definition; there is nothing unknown in it, and
TLC evaluates all of it),
and (`PowerAssumption` in `Buffer`) that the powers of the base are positive
numbers, each the base times the one before, which is true of every base and
only unknown to the provers. TLC evaluates them in the runs. Everything else is
proved to the last leaf. The induction theorems of the library take an operator
as a parameter, which the provers cannot instantiate; where an induction is
needed, the least counterexample is taken instead (`LeastExists`).

Left to TLC: the liveness properties (`PoolProgress`, `WorkersExit`,
`StartAndEnd`, `HungConnIsReused`, `MainReturns`, `UnusableIsRestored`,
`GrabReturns`, `ExitEndsSleeper`, `DispatcherLives`, `FrameIsDelivered`,
`ReadReturns`, `SignInAnswered`), because liveness under fairness and `ENABLED`
are out of reach of the prover. Every safety property that a run checks is a
theorem.

## Where the code and its comments disagree

One run ends in a counterexample; `PROJECT.json` quotes the text.

1. `conn_unserved`: the pointer is sent before `push_back`; the IO thread finds
   the connection inactive and drops it, and the client is never listened to.
   (Or `close()` overwrites `appstate` of a connection that has been given to
   the next client.)

The passing properties name these exceptions, which the models contain:

2. `ThreadPool.cpp:50`: `stop()` notifies `notEmpty_` only. A loop asleep in
   `run()` on `notFull_` (from `TConnection.cpp:202`) is never woken once the
   other workers have left, and the join hangs. `MainServer.cpp:134` says that
   this call prevents a deadlock at the end. (`WorkersExit` and `StartAndEnd`
   except it.)
3. `IOThread.cpp:168`: `notify()` waits for room in the pipe with `connMutex`
   held, the reader of the pipe waits for `connMutex` in `returnTConnection`.
   Heart beats can fill the pipe; `IOThread.cpp:182` says that it can always be
   written. (`MainReturns` and `HungConnIsReused` except this cycle, `Jammed`,
   and show that there is no other.)
4. `PortListener.cpp:118`: the descriptor is closed by libevent
   (`BEV_OPT_CLOSE_ON_FREE`) and again here; the second close can hit a client
   that was given the number in between. (`HungConnIsReused` excepts it.)
5. `TConnection.cpp:28`: a `ProcessTask` answers whoever has its connection now.
6. `RedisPool.h:45`, `TimerManager.cpp:46`: `exit()` and `stop()` set a flag that
   the loop tests without the mutex; a thread that has tested it and not yet
   begun to wait sleeps for ever, and the main thread with it, in `join()`.
   (`StartAndEnd` excepts it, `Forgotten`; `ExitEndsSleeper` and
   `DispatcherLives` are about threads that sleep already.)
7. `IOThread.cpp:144`: `breakLoop` and `notify` before the loop has its pipe do
   nothing: the join hangs, the client is not served. A connection made before
   the loop has its base keeps NULL as its base for all its clients, since
   `setSocket` never reads it again. (`StartAndEnd`, `ClientsAccounted`.)
8. `MainServer.cpp:123`: a `close()` that gets its turn while `~MainServer`
   walks the vector can make it pass over a connection, or delete one twice.
   (`DeletedOnce`, `FreedAfterUse`.)
9. `Thread.cpp:150`: when a thread cannot be created, `start()` returns as if it
   had been, and `join()` ends the process by an assertion; so does `listen()`
   when the port is taken. (`StartAndEnd`: "aborted".)
10. `TimerManager.cpp:115`: a timer returned to a full stack is leaked; `stop()`
    deletes a timer whose callback may be running, which then reads `type_` of
    freed memory; `event_add` does not wake a loop that polls without a timeout,
    as `evthread_use_pthreads` is never called. `grabTimer`'s test of the stack
    outside the mutex holds for one user only. (`TimersKept`, `lost`.) Nobody
    calls `grabTimer` in this program.
11. `MysqlPool.cpp:75`: `>` keeps `MAX_CONNECT + 1` connections. `:58`: NULLs are
    pushed on the stack and handed out, and using one ends the process; sessions
    that the server has ended are never reconnected, and the stack returns them
    first. `MysqlConn.cpp:53`: the texts of a result are returned after it is
    freed, so that the id in an answer can be anything; `:54`: a failing
    `mysql_store_result` counts as success. (`PoolAccounted`, `NullHasCause`.)
    `ChatSignIn.cpp:8`: a sign-in with an id and a password is never answered,
    although `chatPackage.protocal:18` describes an answer. (`SignInAnswered` is
    about sign-ins that ask for an account.)
12. `ChatPackage.cpp:87`: the loop over junk tests the first byte again, not
    where it is, so a frame behind junk in the same read is drained with it
    (lines 76-79 describe what was meant). `EchoPackage.cpp:19`: an echo frame
    that has come in part is taken for whole. A chat frame without data
    (`ChatPackage.cpp:59`, `>`) is not recognised. (`NoSilentLoss` is for
    streams without these.)
13. `httpServer.cpp:47`: a request in two reads is two halves, and neither is
    answered. `:78`: `Connection: close` is announced and the connection is not
    closed. A pipelined request is drained with the one before it.
    `httpContext.cpp:96`: any line without a colon is taken for the empty line at
    the end of the head.
    (`AnswersWholeRequests` asks for an answer to the first of a read only.)

## What is not modelled

- *`Monitor`, `main/ThreadPool.h`, `RedisPool::remove`, `Redis::disconnect`,
  the client half of `TSocket`, `record`, `crc32`, the statements of
  `MysqlWrapper` besides `createAccount`*: no code calls them. (`Redis::run` and
  `TimerManager` are modelled although only the API offers them.)
- *Contents of messages, logging, configuration, time*: no property is about
  them. The condition on `lastUpdate_` in `heartBeat` may come out either way,
  and a timeout may come at any time.
- *Undefined behaviour with no set of outcomes*: using a freed object, the top
  of an empty stack, two unlocked `push_back`s at once. A thread that gets there
  is not followed. Where a race has a set of outcomes, it is a choice.
- *`redisVec` empty*: `RedisPool` assumes one connection; with none the code
  divides by zero.
- *Failures of `pipe`, `new`, and of `pthread_*` besides creation*: the code logs
  or aborts.
- *evhttp*: `MainServer` also serves HTTP on a port of its own through libevent.
- Libevent, the kernel, hiredis and the MySQL client are modelled by what the
  code relies on (`external` in `PROJECT.json`).

## Plan

The code's own behaviour is covered, and every safety property is proved. What
is left: the IO threads' pipe in `Connections` as a promise of its own, shared
with `ServerLife`.
