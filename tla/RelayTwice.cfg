\* Two instances, nothing fails and nothing stops.
SPECIFICATION Spec
CONSTANTS
    Rows = {1, 2, 3}
    Known = {1, 2}
    Relays = {i1, i2}
    BatchSize = 2
    MaxAttempts = 2
    MaxStops = 0
    BusFirst = TRUE
    MaxErrors = 0
    MayThrow = {}
INVARIANTS
    PublicationsExplained
CHECK_DEADLOCK FALSE
