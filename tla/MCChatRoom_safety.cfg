\* Three clients on distinct ports, one of which types a line and may be cut off.
SPECIFICATION Spec
CONSTANTS
    a = a
    b = b
    c = c
    Conns = {a, b, c}
    Ports = {a, b, c}
    PortOf <- OwnPorts
    Main = Main
    NoConn = NoConn
    Talkers = {a}
    MaxSend = 1
    Fragile = {a}
    BufCap = 1
    FdLimit = 3
SYMMETRY Symmetry
INVARIANTS TypeOK MapIsServed NoEcho UpToDate StoryInOrder
CHECK_DEADLOCK FALSE
