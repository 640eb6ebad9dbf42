SPECIFICATION Spec
CONSTANTS
    Root = root
    p1 = p1
    a1 = a1
    Products = {p1}
    Prices = {a1}
    InitRefs <- OneSymbol
    WsModes = {TRUE}
    PC_BLOCKHASH_TIMEOUT = 3
    MaxSlot = 1
    MaxChanges = 0
    MaxFailures = 0
    MaxRpcErrors = 1
PROPERTY InitializedOrError
CHECK_DEADLOCK FALSE
