SPECIFICATION Spec
CONSTANTS
  Modules = {"m"}
  Canonical <- MCCanonical
  Projects <- MCProjects
  Names <- MCNames
  Primitives = {"u256"}
  BuiltinNames = {"evm"}
  MaxRounds = 3
  Opaque = TRUE
  Perform <- Symbolic
INVARIANTS
  FilesAreLoaded
  NamesAreExact
  MeaningIsKept
  FaultsAreFound
PROPERTY ImplementsModuleSystem
