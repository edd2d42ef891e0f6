\* Three clients, three descriptors for them (1, 2 and 3), two slots and two events in a batch.
SPECIFICATION FairSpec
CONSTANTS
    Conns = {a, b, c}
    NoConn = NoConn
    FirstFd = 1
    FdMax = 4
    OpenMax = 2
    MaxLines = 1
INVARIANTS TablesAgree NoStaleEvent
PROPERTIES WaitingIsAnswered GoneIsClosed
CHECK_DEADLOCK FALSE
