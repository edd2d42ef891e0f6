\* Two clients on distinct ports, one of which types two lines.
SPECIFICATION Spec
CONSTANTS
    a = a
    b = b
    c = c
    Conns = {a, b}
    Ports = {a, b}
    PortOf <- OwnPorts
    Main = Main
    NoConn = NoConn
    Talkers = {a}
    MaxSend = 2
    Fragile = {}
    BufCap = 2
    FdLimit = 2
INVARIANTS EveryFrameIsPrinted
CHECK_DEADLOCK FALSE
