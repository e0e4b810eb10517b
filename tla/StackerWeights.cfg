\* pox-3, then pox-4 (stack, extend), then the change to pox-5, while the
\* threshold moves between the polls.
SPECIFICATION Spec
CONSTANTS
    a1 = a1
    a2 = a2
    p1 = p1
    p2 = p2
    Accounts = {a1, a2}
    Polls = {p1}
    TargetSlots <- MCTargetSlots
    Balance <- MCBalance
    POX_REWARD_LENGTH = 2
    POX_PREPARE_LENGTH = 1
    StackingCycles = 1
    InitBurn = 2
    MaxBurn = 6
    STACKS_25_HEIGHT = 3
    STACKS_40_HEIGHT = 6
    Thresholds = {10, 20}
    MaxLost = 0
    CALL_FEE = 8
    DEPLOY_FEE = 9
    StartTxFee = 1
    MaxTxFee = 4
    MaxFaults = 0
    MaxRestarts = 0
VIEW LiveView
INVARIANTS ProportionalWeights WeightInv
PROPERTY FollowsPlan
CHECK_DEADLOCK FALSE
