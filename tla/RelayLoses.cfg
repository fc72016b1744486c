\* One instance that crashes once; no handler throws.
SPECIFICATION Spec
CONSTANTS
    Rows = {1, 2, 3}
    Known = {1, 2}
    Relays = {i1}
    BatchSize = 2
    MaxAttempts = 2
    MaxStops = 1
    BusFirst = TRUE
    MaxErrors = 0
    MayThrow = {}
INVARIANTS
    AtLeastOnce
CHECK_DEADLOCK FALSE
