\* Two requests with different keys for one pending order.
SPECIFICATION Spec
CONSTANTS
    NoKey = NoKey
    NoCustomer = NoCustomer
    ApiKeys = {"app"}
    NoProvider = NoProvider
    NoRequest = NoRequest
    Requests = {r1, r2}
    Commands <- RaceCommands
    Orders <- MCOrders
    Customers <- MCCustomers
    Owner <- MCOwner
    Total <- MCTotal
    Names <- MCNames
    Providers <- MCProviders
    Wallet = "wallet"
    Chain <- MCChain
    Refundable = {"wallet", "stripe"}
    FlakyRefunds = {}
    InitialBalance <- MCInitialBalance
    TopUps = {"t1"}
    TopUpOf <- RaceTopUps
    PoolSize = 10
    Deliveries = {1}
    MayAbort = {r1, r2}
    MayFail = {}
PROPERTIES
    OnlyPendingIsClaimed
