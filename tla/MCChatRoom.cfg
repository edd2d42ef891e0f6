\* Two of the three clients have the same port, one types a line, and there are
\* two descriptors for them.
SPECIFICATION FairSpec
CONSTANTS
    a = a
    b = b
    c = c
    Conns = {a, b, c}
    Ports = {a, b, c}
    PortOf <- SharedPort
    Main = Main
    NoConn = NoConn
    Talkers = {a}
    MaxSend = 1
    Fragile = {}
    BufCap = 2
    FdLimit = 2
PROPERTIES FeedSpec DepartedIsReleased LinesReachOthers FinIsAnnounced
CHECK_DEADLOCK FALSE
