SPECIFICATION ManagerSpec
CONSTANTS
    None = None
    WordCount = 3
    SmallWords = 2
    EvmKinds = {callvalue}
    NonZeroKinds = {}
    InlineSize = 10
    Programs <- MCPrograms
    Schedules <- AnyThree
    Suspects <- MCSuspects
    Steps = 40
    BalanceOffsets = {0, 1}
INVARIANTS
    PassesKeepTheProgramLegal
    ValidIsFresh
    PassesPreserveExecution
    VerdictIsSound
