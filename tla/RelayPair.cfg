\* Two instances on one table, with a stop and failing statements.
SPECIFICATION Spec
CONSTANTS
    Rows = {1, 2}
    Known = {1}
    Relays = {i1, i2}
    BatchSize = 1
    MaxAttempts = 2
    MaxStops = 1
    BusFirst = TRUE
    MaxErrors = 1
    MayThrow = {}
SYMMETRY RelaySymmetry
INVARIANTS
    TypeOK
    AttemptsBounded
    ProcessedWasPublished
    HandledUnlessStopped
PROPERTIES
    ImplementsDelivery
CHECK_DEADLOCK FALSE
