SPECIFICATION Spec
CONSTANTS
    Keys = {1, 2, 3, 4, 5, 6, 7}
    Commands <- MCCommands
    Starts <- MCStarts
    PC_MAP_TABLE_SIZE = 1
    MaxCommands = 2
    MaxFaults = 2
INVARIANTS CommandsSound
PROPERTIES Returns
CHECK_DEADLOCK FALSE
