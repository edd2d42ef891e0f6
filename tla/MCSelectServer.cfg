\* Three clients, three descriptors for them (1, 2 and 3), three slots and bits.
SPECIFICATION FairSpec
CONSTANTS
    Conns = {a, b, c}
    NoConn = NoConn
    FirstFd = 1
    FdMax = 4
    SetSize = 3
    MaxLines = 1
INVARIANTS TypeOK TablesAgree NoStaleEvent NreadyCounts
PROPERTIES WaitingIsAnswered GoneIsClosed
CHECK_DEADLOCK FALSE
