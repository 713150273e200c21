SPECIFICATION SccpSpec
CONSTANTS
    None = None
    WordCount = 3
    SmallWords = 2
    EvmKinds = {caller, callvalue}
    NonZeroKinds = {caller}
    Inputs <- MCInputs
    Steps = 24
    BalanceOffsets = {0, 1, 2}
INVARIANTS
    SccpTypeOK
    ConclusionsAreReal
    FixedPoint
PROPERTIES
    LatticeDescends
    SccpTermination
CHECK_DEADLOCK FALSE
