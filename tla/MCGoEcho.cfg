\* Three clients, two lines each: empty, as long as the buffer, longer, or too
\* long for a reader, which then leaves a byte in the socket.
SPECIFICATION FairSpec
CONSTANTS
    Clients = {a, b, c}
    NoOne = NoOne
    Lengths = {0, 2, 3, 5}
    BufLen = 2
    ReaderLen = 4
    ClientLen = 5
    MaxLines = 2
INVARIANTS AnswersInStep
PROPERTIES TurnComes
CHECK_DEADLOCK FALSE
