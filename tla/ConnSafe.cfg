CONSTANTS
  Clients = {c1, c2}
  Conns = {k1, k2}
  Socks = {s1, s2}
  NFds = 2
  NIO = 2
  PipeSize = 2
  Commands = {"hb"}
  Main = Main
  Null = Null
SPECIFICATION Spec
SYMMETRY Symmetry
\* A server whose clients have all come and gone has nothing left to do.
CHECK_DEADLOCK FALSE
INVARIANTS
    ConnectionsSound
    CallbacksSound
    SocketsSound
