\* Two orders placed while customers sign up and top up and products are added.
SPECIFICATION Spec
CONSTANTS
    Signups = {"c1", "c2", "c3"}
    EmailOf <- MCEmailOf
    Amounts = {3, 5}
    MaxPutIn <- MCMaxPutIn
    Products = {"cheap", "dear", "free", "huge"}
    PriceOf <- MCPriceOf
    Requests = {"r1", "r2"}
    Commands <- MCCommands
    Exact = 8
    Spacings = {1, 2, 4, 8, 16}
    MaxInt = 3
    MaxBigint = 60
    MayAbort = {"r1", "r2"}
INVARIANTS
    TypeOK
    AllOrNothing
    OrderIsWhatWasAsked
    TotalStands
    WalletStands
\* The system stops when every request is over.
CHECK_DEADLOCK FALSE
