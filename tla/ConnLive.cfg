CONSTANTS
  Clients = {c1, c2}
  Conns = {k1, k2}
  Socks = {s1, s2}
  NFds = 2
  NIO = 1
  PipeSize = 1
  Commands = {"hb"}
  Main = Main
  Null = Null
SPECIFICATION FairSpec
\* A server whose clients have all come and gone has nothing left to do.
CHECK_DEADLOCK FALSE
PROPERTIES
  HungConnIsReused
  MainReturns
