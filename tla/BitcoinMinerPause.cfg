\* The liveness test mines a block: the script misses PAUSE_HEIGHT.
SPECIFICATION FairSpec
CONSTANTS
    NUM_MINERS = 2
    STACKS_2_05_HEIGHT = 9
    RESERVED_BLOCKS = 3
    PAUSE_HEIGHT = 10
    MaxHeight = 12
    MaxFaults = 0
    MaxRestarts = 0
    MaxExternal = 1
PROPERTY PausesAtHeight
CHECK_DEADLOCK FALSE
