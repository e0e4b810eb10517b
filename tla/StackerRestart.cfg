\* The container restarts between the polls that stack two accounts.
SPECIFICATION Spec
CONSTANTS
    a1 = a1
    a2 = a2
    p1 = p1
    p2 = p2
    Accounts = {a1, a2}
    Polls = {p1}
    TargetSlots <- MCTargetSlots
    Balance <- MCBalance
    POX_REWARD_LENGTH = 2
    POX_PREPARE_LENGTH = 1
    StackingCycles = 1
    InitBurn = 2
    MaxBurn = 2
    STACKS_25_HEIGHT = 3
    STACKS_40_HEIGHT = 0
    Thresholds = {10, 20}
    MaxLost = 0
    CALL_FEE = 8
    DEPLOY_FEE = 9
    StartTxFee = 1
    MaxTxFee = 4
    MaxFaults = 0
    MaxRestarts = 1
VIEW LiveView
INVARIANT ProportionalWeights
CHECK_DEADLOCK FALSE
