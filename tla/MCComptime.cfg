SPECIFICATION FairSpec
CONSTANTS
    F = F  G = G  f0 = f0  f1 = f1  g = g  A = A  B = B
    bF0 = bF0  bF1 = bF1  bG = bG  none = none  pG = pG
    cA = cA  cB = cB  main = main  then = then  else = else
    NoFn = NoFn
    FnDefs = {F, G}
    Keys <- MCKeys
    DefOf <- MCDefOf
    Consts = {A, B}
    Blocks <- MCBlocks
    Programs <- MCPrograms
    DefaultQuota = 1
    ValueMod = 5
INVARIANTS
    TypeOK
    InProgressMatchesStack
    RecursionIsCharged
    CacheIsReference
    Unreachable
    FailuresAreAccounted
PROPERTIES
    CallersAndVerdictsStand
    Termination
CHECK_DEADLOCK FALSE
