SPECIFICATION SsaSpec
CONSTANTS
    None = None
    WordCount = 3
    SmallWords = 2
    EvmKinds = {callvalue}
    NonZeroKinds = {}
    Programs <- MCPrograms
    Steps = 24
    BalanceOffsets = {0}
INVARIANTS
    ExecutionPreserved
    HandoversAgree
    DebugCodeRuns
