\* One client key per order: retries, reuse of the key, crashes, duplicate events.
SPECIFICATION Spec
CONSTANTS
    NoKey = NoKey
    NoCustomer = NoCustomer
    ApiKeys = {"app"}
    NoProvider = NoProvider
    NoRequest = NoRequest
    Requests = {r1, r2, r3}
    Commands <- RetryCommands
    Orders <- MCOrders
    Customers <- MCCustomers
    Owner <- MCOwner
    Total <- MCTotal
    Names <- MCNames
    Providers <- MCProviders
    Wallet = "wallet"
    Chain <- MCChain
    Refundable <- MCProviders
    FlakyRefunds = {}
    InitialBalance <- MCInitialBalance
    TopUps = {}
    TopUpOf <- NoTopUps
    PoolSize = 10
    Deliveries = {1, 2}
    MayAbort = {r1, r2, r3}
    MayFail = {1}
SYMMETRY RequestSymmetry
INVARIANTS
    TypeOK
    KeyNamesOnePayment
    FailedFullyRefunded
    WalletConserved
    RefusalLeavesNothing
PROPERTIES
    PaymentOnlyGrows
    SettledForGood
    OnlyPendingIsClaimed
    ImplementsLifecycle
