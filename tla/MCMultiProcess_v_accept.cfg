\* Two clients, room for all; accept fails by interruption only.
SPECIFICATION FairSpec
CONSTANTS
    Conns = {a, b}
    NoConn = NoConn
    ProcLimit = 2
    AcceptErrors = {}
    Killable = {}
    MaxLines = 0
PROPERTIES ConnectedIsServed
CHECK_DEADLOCK FALSE
