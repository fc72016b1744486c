\* One instance that stops and restarts, with failing statements.
SPECIFICATION FairSpec
CONSTANTS
    Rows = {1, 2, 3}
    Known = {1, 2}
    Relays = {i1}
    BatchSize = 2
    MaxAttempts = 2
    MaxStops = 2
    BusFirst = FALSE
    MaxErrors = 2
    MayThrow = {1}
INVARIANTS
    PublicationsExplained
PROPERTIES
    RowsSettle
    BootCompletes
CHECK_DEADLOCK FALSE
