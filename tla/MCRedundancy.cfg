SPECIFICATION Spec
CONSTANTS
    p1 = p1
    p2 = p2
    p3 = p3
    p4 = p4
    Providers <- ThreeProviders
    MaxGvgs = 2
    MaxFamilies = 1
    NumSecondary = 1
    SpDeposit = 1
    InitFunds = 1
    Amounts = {1}
    TopUps = {}
    Prices = {1}
    MaxGvgNumPerFamily = 1
    SpConcurrentExitNum = 1
    SwapInValidityPeriod = 1
    CounterModulus = 4
    MaxTime = 0
    MaxSwaps = 1
    MaxExits = 3
    MaxLapsed = 0
    MaxIncome = 0
    MaxStored = 0
SYMMETRY ProviderSymmetry
INVARIANT BreakRedundancyExact
CHECK_DEADLOCK FALSE
