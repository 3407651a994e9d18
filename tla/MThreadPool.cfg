CONSTANTS
  Workers = {w1, w2, w3}
  Main = Main
  Tasks = {io1, io2, r1, r2}
  Loops = {io1, io2}
  MaxQueue = 2
  NoTask = NoTask
SPECIFICATION FairSpec
\* The program ends when stop() has returned.
CHECK_DEADLOCK FALSE
INVARIANTS
    TasksKept
    NoLostWakeup
PROPERTIES
    ImplementsTaskQueue
    PoolProgress
    WorkersExit
