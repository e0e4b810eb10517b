\* Two participants, one shared admin account, a failure, a drop and a restart.
SPECIFICATION FairSpec
CONSTANTS
    admin = admin
    NumParticipants = 2
    Deployer = admin
    BondAdmin = admin
    AmountSats = 2
    InitialSbtc <- MCInitialSbtc
    mintMultiplier = 2
    POX_REWARD_LENGTH = 2
    POX_PREPARE_LENGTH = 1
    STACKS_30_HEIGHT = 0
    STACKS_40_HEIGHT = 3
    setupSafetyBlocks = 1
    MaxDelay = 1
    BondZero = 5
    BondPeriod = 4
    configuredBondIndex = 0
    Sweep = 2
    OtherBonds = {0}
    MaxBurn = 8
    MaxLost = 1
    MaxFaults = 1
    MaxRestarts = 1
INVARIANTS TypeOK OneInFlight SharedAccount CompletesInTime NoClash NoOvermint OneBond SelectsNext
PROPERTY Settles
CHECK_DEADLOCK FALSE
