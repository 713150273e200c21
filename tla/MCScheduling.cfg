SPECIFICATION Spec
CONSTANTS
    None = None
    WordCount = 8
    SmallWords = 2
    EvmKinds = {callvalue}
    NonZeroKinds = {}
    MaxSwapDepth = 2
    PathsBudget = 100
    StepLimit = 40
    Programs <- MCPrograms
    Steps = 20
    BalanceOffsets = {0}
INVARIANTS
    BlocksGetThrough
    ScheduledCodeRuns
    OrderIsFree
