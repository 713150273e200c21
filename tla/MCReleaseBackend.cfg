SPECIFICATION Spec
CONSTANTS
    init = init  main = main  f = f  spill = spill  array = array
    Marks <- MCMarks
    Nowhere = Nowhere
    Radix = 8
    MaxPasses = 8
    NumBlocks = 4
    NumDatas = 2
    Functions = {init, main, f}
    Allocs = {spill, array}
    None = None
    WordSize = 4
    Programs <- MCPrograms
INVARIANTS
    ContractIsWhole
    MemoryIsProvided
CHECK_DEADLOCK FALSE
