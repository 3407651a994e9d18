SPECIFICATION FairSpec
CONSTANTS
    Byte <- MCByte
    Nul = "NUL"
    CR = "CR"
    LF = "LF"
    kCheapPrepend = 2
    kInitialSize = 6
    kExtra = 2
    SP = "SP"
    Colon = ":"
    Http10 = "HTTP/1.0"
    Http11 = "HTTP/1.1"
    Connection = "Connection"
    Close = "close"
    KeepAlive = "Keep-Alive"
    Methods <- MCMethods
    MinLength = 3
    MaxCuts = 1
    Streams <- MCStreams
CHECK_DEADLOCK FALSE
INVARIANTS
    ParserSound
    AnswersWholeRequests
PROPERTIES
    ReadReturns
