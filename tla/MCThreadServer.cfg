\* Three clients, two descriptors for them (1 and 2), an array of two entries.
SPECIFICATION FairSpec
CONSTANTS
    Conns = {a, b, c}
    NoConn = NoConn
    FirstFd = 1
    FdMax = 3
    TsSize = 2
    MaxLines = 2
INVARIANTS OwnEntry OpenIsServed
PROPERTIES ServedIsAnswered EchoSpec
CHECK_DEADLOCK FALSE
