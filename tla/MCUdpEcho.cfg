\* Three clients, two ports for them, a server that is started twice.
SPECIFICATION FairSpec
CONSTANTS
    Clients = {a, b, c}
    Server = Server
    ServPort = ServPort
    Ports = {p, q}
    Nobody = Nobody
    NoPort = NoPort
    MaxLines = 2
    MaxStarts = 2
    BufCap = 2
INVARIANTS AnswerIsOwn
PROPERTIES ReceivedIsAnswered
CHECK_DEADLOCK FALSE
