\* A payment from the wallet and a top-up of it at the same time.
SPECIFICATION Spec
CONSTANTS
    NoKey = NoKey
    NoCustomer = NoCustomer
    ApiKeys = {"app"}
    NoProvider = NoProvider
    NoRequest = NoRequest
    Requests = {r1}
    Commands <- RaceCommands
    Orders <- MCOrders
    Customers <- MCCustomers
    Owner <- MCOwner
    Total <- MCTotal
    Names <- MCNames
    Providers <- MCProviders
    Wallet = "wallet"
    Chain <- MCChain
    Refundable = {"wallet", "stripe"}
    FlakyRefunds = {}
    InitialBalance <- MCInitialBalance
    TopUps = {"t1"}
    TopUpOf <- RaceTopUps
    PoolSize = 10
    Deliveries = {1}
    MayAbort = {r1}
    MayFail = {}
INVARIANTS
    WalletConserved
