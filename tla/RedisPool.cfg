CONSTANTS
  NConns = 2
  Users = {u1, u2}
  Null = Null
SPECIFICATION FairSpec
INVARIANTS
    UnusableKept
    ContextExclusive
PROPERTIES
    UnusableIsRestored
    GrabReturns
    ExitEndsSleeper
