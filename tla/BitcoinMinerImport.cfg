\* Nothing fails, and still the producer address is not imported.
SPECIFICATION Spec
CONSTANTS
    NUM_MINERS = 2
    STACKS_2_05_HEIGHT = 9
    RESERVED_BLOCKS = 3
    PAUSE_HEIGHT = 10
    MaxHeight = 12
    MaxFaults = 0
    MaxRestarts = 0
    MaxExternal = 0
INVARIANT ProducerImported
CHECK_DEADLOCK FALSE
