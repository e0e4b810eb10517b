\* Two Stacks miners, five blocks to share out and three reserved ones.
SPECIFICATION FairSpec
CONSTANTS
    NUM_MINERS = 2
    STACKS_2_05_HEIGHT = 9
    RESERVED_BLOCKS = 3
    PAUSE_HEIGHT = 10
    MaxHeight = 12
    MaxFaults = 2
    MaxRestarts = 1
    MaxExternal = 1
INVARIANTS TypeOK MatureRewards WalletsFirst PauseInv MinerInv
PROPERTY ChainGrows
CHECK_DEADLOCK FALSE
