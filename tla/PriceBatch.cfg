SPECIFICATION Spec
CONSTANTS
    Prices = {p1, p2, p3}
    TxModes = {TRUE, FALSE}
    max_batch_ = 2
    MaxUnacked = 2
    DropUnacked = 1
    MaxSlot = 2
    MaxFailures = 1
SYMMETRY Symmetry
INVARIANT UnackedBounded
PROPERTIES
    BatchesExact
    SentSlotsIncrease
