SPECIFICATION Spec
CONSTANTS
  Sources <- LoopSources
  Wrong <- MCWrong
  Primitives = {"u256", "bool", "type", "never", "function"}
  BuiltinNames = {"add", "iszero", "bool_to_u256", "balance", "caller", "sstore", "stop", "invalid"}
  MaxRounds = 24
  Opaque = FALSE
  MemberNames = {"a", "b"}
  MethodNames = {"m"}
  WordCount = 4
  Rounds = 12
  None = None
  SmallWords = 2
  EvmKinds = {caller}
  CallerKind = caller
  NonZeroKinds = {}
  Steps = 90
  BalanceOffsets = {1}
INVARIANT DivergingCallsAreIncluded
