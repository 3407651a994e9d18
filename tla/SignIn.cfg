\* Two workers, a pool that is preloaded with one connection and keeps one: the
\* second connection is made under the mutex and deleted at its return.
CONSTANTS
    Threads = {t1, t2}
    NoThread = NoThread
    Preload = 1
    MaxConnect = 0
SPECIFICATION SignInSpec
CHECK_DEADLOCK FALSE
INVARIANTS
    PoolAccounted
    AccountBeforeId
    ResponsesSound
PROPERTIES
    SignInAnswered
