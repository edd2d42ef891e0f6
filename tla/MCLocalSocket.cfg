\* A server and a second one, three clients of which two have the same number.
SPECIFICATION FairSpec
CONSTANTS
    a = a
    b = b
    d = d
    p = p
    q = q
    Servers = {s, t}
    Clients = {a, b, d}
    Pids = {p, q}
    PidOf <- NumbersUsedAgain
    NoOne = NoOne
    QLen = 0
    MaxLines = 1
INVARIANTS BindFailsOnlyInARace FileIffUntaken
PROPERTIES EndOrAnswer
CHECK_DEADLOCK FALSE
