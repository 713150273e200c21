SPECIFICATION Spec
CONSTANTS
    Marks = {a, b}
    Nowhere = Nowhere
    Radix = 3
    MaxPasses = 8
    MaxSections = 5
    MaxBytes = 3
    DataSizes = {2}
    RefKinds <- MCRefKinds
INVARIANTS
    AssemblerTypeOK
    MarksLieAtTheirOffsets
    AssemblyIsCorrect
    EmissionDoesNotPanic
PROPERTIES
    OffsetsGrow
SYMMETRY MarksAreAlike
CHECK_DEADLOCK FALSE
