SPECIFICATION Spec
CONSTANTS
    Root = root
    p1 = p1
    a1 = a1
    Products = {p1}
    Prices = {a1}
    InitRefs <- NoSymbol
    WsModes = {TRUE, FALSE}
    PC_BLOCKHASH_TIMEOUT = 3
    MaxSlot = 2
    MaxChanges = 2
    MaxFailures = 2
    MaxRpcErrors = 0
PROPERTIES
    BootstrapCompletes
    PolledSymbolsFound
    SchedActivated
