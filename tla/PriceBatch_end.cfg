SPECIFICATION Spec
CONSTANTS
    Prices = {p1, p2}
    TxModes = {TRUE}
    max_batch_ = 2
    MaxUnacked = 2
    DropUnacked = 1
    MaxSlot = 2
    MaxFailures = 1
PROPERTY EndReached
