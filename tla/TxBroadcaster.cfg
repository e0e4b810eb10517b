\* Three accounts, with failing calls, dropped transfers and a restart.
SPECIFICATION FairSpec
CONSTANTS
    s1 = s1
    s2 = s2
    s3 = s3
    Senders = {s1, s2, s3}
    MaxBurn = 3
    EPOCH_30_START = 0
    PAUSE_HEIGHT = 2
    MaxSent = 2
    MaxFaults = 1
    MaxLost = 1
    MaxRestarts = 1
INVARIANTS TypeOK Balanced BalanceInv
PROPERTY TakesTurns
CHECK_DEADLOCK FALSE
