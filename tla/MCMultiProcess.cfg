\* Three clients, room for two children; accept may fail in every way, and
\* a signal may end one child.
SPECIFICATION FairSpec
CONSTANTS
    Conns = {a, b, c}
    NoConn = NoConn
    ProcLimit = 2
    AcceptErrors = {"ECONNABORTED", "EMFILE"}
    Killable = {a}
    MaxLines = 1
INVARIANTS TypeOK ZombieIsSignalled LineIsSomewhere
PROPERTIES ZombiesAreReaped ClientIsToldOfEnd ServedIsAnswered
CHECK_DEADLOCK FALSE
