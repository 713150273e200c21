SPECIFICATION Spec
CONSTANTS
  None = None
  Identifiers = {"a", "b", "c"}
  Builtins = {"@f"}
  Numbers = {"1"}
  DefaultFuel = 1024
  Sources <- MCSources
INVARIANTS
  TreeIsFaithful
  ComplaintsAreRight
