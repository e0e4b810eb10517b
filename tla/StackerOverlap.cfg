\* pox-5 from the first block: deploy, register-self, stake, stake-update,
\* with failing calls and a dropped transaction.
SPECIFICATION Spec
CONSTANTS
    a1 = a1
    a2 = a2
    p1 = p1
    p2 = p2
    Accounts = {a1, a2}
    Polls = {p1, p2}
    TargetSlots <- MCTargetSlots
    Balance <- MCShortBalance
    POX_REWARD_LENGTH = 2
    POX_PREPARE_LENGTH = 1
    StackingCycles = 1
    InitBurn = 2
    MaxBurn = 4
    STACKS_25_HEIGHT = 0
    STACKS_40_HEIGHT = 0
    Thresholds = {10}
    MaxLost = 1
    CALL_FEE = 8
    DEPLOY_FEE = 9
    StartTxFee = 1
    MaxTxFee = 1
    MaxFaults = 1
    MaxRestarts = 1
SYMMETRY PollSymmetry
INVARIANTS TypeOK NonceInv NoNonceGap SignerFirst LockHorizon
CHECK_DEADLOCK FALSE
VIEW LiveView
