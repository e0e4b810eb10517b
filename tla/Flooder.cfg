\* Two flooders, two calls per flood, overlapping floods, one fault of each kind.
SPECIFICATION FairSpec
CONSTANTS
    f1 = f1
    f2 = f2
    bootstrapper = bootstrapper
    Flooders = {f1, f2}
    Bootstrapper = bootstrapper
    TX_PER_FLOOD = 2
    Slots = {1, 2}
    MaxNonce <- MCMaxNonce
    MaxFaults = 1
    MaxLost = 1
    MaxRestarts = 1
INVARIANTS TypeOK Window FloodComes FundingComes FundingBounded
PROPERTY FloodsGoOn
CHECK_DEADLOCK FALSE
