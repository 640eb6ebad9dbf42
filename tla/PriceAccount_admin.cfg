SPECIFICATION Spec
CONSTANTS
    Publishers = {p1, p2}
    QuoteArgs <- OneQuote
    AggregateModel <- Aggregate
    I64_MAX = 15
    MAX_CI_DIVISOR = 3
    PC_MAX_SEND_LATENCY = 1
    PC_NUM_COMP = 1
    InitMinPub = 1
    InitPubs = {p1}
    InitFlags <- V1orV2
    MinPubs = {2}
    Latencies = {2}
    StartSlot = 2
    MaxSlot = 4
    MaxAdmin = 3
SYMMETRY PublisherSymmetry
INVARIANTS
    TypeOK
    SlotOrder
    
    
PROPERTIES
    MessageChain
CHECK_DEADLOCK FALSE
