SPECIFICATION Spec
CONSTANTS
    Root = root
    p1 = p1
    a1 = a1
    Products = {p1}
    Prices = {a1, a2}
    InitRefs <- OneSymbol
    WsModes = {TRUE, FALSE}
    PC_BLOCKHASH_TIMEOUT = 3
    MaxSlot = 1
    MaxChanges = 1
    MaxFailures = 1
    MaxRpcErrors = 1
INVARIANTS
    CountMatches
    OneFetchEach
PROPERTY InitMeansComplete
CHECK_DEADLOCK FALSE
