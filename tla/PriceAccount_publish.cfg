SPECIFICATION Spec
CONSTANTS
    Publishers = {p1, p2}
    QuoteArgs <- OddQuotes
    AggregateModel <- Aggregate
    I64_MAX = 15
    MAX_CI_DIVISOR = 3
    PC_MAX_SEND_LATENCY = 1
    PC_NUM_COMP = 2
    InitMinPub = 2
    InitPubs = {p1, p2}
    InitFlags <- V1orV2
    MinPubs = {}
    Latencies = {}
    StartSlot = 2
    MaxSlot = 4
    MaxAdmin = 0
SYMMETRY PublisherSymmetry
INVARIANTS
    QuotesNotFromFuture
    EmaSpan
    CumulativeBounded
PROPERTIES
    CumulativeTelescopes
CHECK_DEADLOCK FALSE
