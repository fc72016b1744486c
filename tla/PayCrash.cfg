\* A request that is stopped between two transactions.
SPECIFICATION Spec
CONSTANTS
    NoKey = NoKey
    NoCustomer = NoCustomer
    ApiKeys = {"app"}
    NoProvider = NoProvider
    NoRequest = NoRequest
    Requests = {r1, r2, r3}
    Commands <- RetryCommands
    Orders <- MCOrders
    Customers <- MCCustomers
    Owner <- MCOwner
    Total <- MCTotal
    Names <- MCNames
    Providers <- MCProviders
    Wallet = "wallet"
    Chain <- MCChain
    Refundable <- MCProviders
    FlakyRefunds = {}
    InitialBalance <- MCInitialBalance
    TopUps = {}
    TopUpOf <- NoTopUps
    PoolSize = 10
    Deliveries = {1, 2}
    MayAbort = {r1, r2, r3}
    MayFail = {}
INVARIANTS
    OnlyOneWindow
