\* Two requests for one order, from the claim to the settled order, with a crash.
SPECIFICATION FairSpec
CONSTANTS
    NoKey = NoKey
    NoCustomer = NoCustomer
    ApiKeys = {"app"}
    NoProvider = NoProvider
    NoRequest = NoRequest
    NoRelay = NoRelay
    Requests = {r1, r2}
    Commands <- MCCommands
    Orders = {"o1"}
    Customers = {"c1"}
    Owner <- MCOwner
    Total <- MCTotal
    Names = {"wallet", "stripe"}
    Providers = {"wallet", "stripe"}
    Wallet = "wallet"
    Chain <- MCChain
    Refundable = {"wallet", "stripe"}
    FlakyRefunds = {}
    InitialBalance <- MCInitialBalance
    TopUps = {}
    TopUpOf <- NoTopUps
    PoolSize = 2
    Deliveries = {1, 2}
    MayAbort = {r1, r2}
    MayFail = {1, 2}
    Relays = {i1}
    HostOf <- MCHostOf
    BatchSize = 2
    MaxAttempts = 2
    MaxStops = 1
    BusFirst = TRUE
INVARIANTS
    LossExplained
    WaitsEnd
PROPERTIES
    RequestAnswered
    OrderSettles
    ImplementsRelay
