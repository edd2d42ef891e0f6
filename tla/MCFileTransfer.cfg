\* A file of six bytes in three chunks, every input, and every failure.
SPECIFICATION FairSpec
CONSTANTS
    Size = 6
    Chunk = 2
    Inputs <- AllInputs
    Faults = {"stat", "dial", "open", "read", "create", "write", "kill", "break"}
INVARIANTS TypeOK BothAgreeMeansCopied StoredInOrder
PROPERTIES BothEnd
CHECK_DEADLOCK FALSE
