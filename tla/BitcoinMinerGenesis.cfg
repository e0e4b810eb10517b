\* A restart in the middle of init.
SPECIFICATION Spec
CONSTANTS
    NUM_MINERS = 2
    STACKS_2_05_HEIGHT = 9
    RESERVED_BLOCKS = 3
    PAUSE_HEIGHT = 10
    MaxHeight = 12
    MaxFaults = 0
    MaxRestarts = 1
    MaxExternal = 0
INVARIANT WalletsExist
CHECK_DEADLOCK FALSE
