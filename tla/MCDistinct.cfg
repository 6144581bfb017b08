SPECIFICATION Spec
CONSTANTS
    p1 = p1
    p2 = p2
    p3 = p3
    p4 = p4
    Providers <- FourProviders
    MaxGvgs = 1
    MaxFamilies = 1
    NumSecondary = 2
    SpDeposit = 1
    InitFunds = 1
    Amounts = {1}
    TopUps = {}
    Prices = {1}
    MaxGvgNumPerFamily = 1
    SpConcurrentExitNum = 1
    SwapInValidityPeriod = 1
    CounterModulus = 8
    MaxTime = 0
    MaxSwaps = 2
    MaxExits = 3
    MaxLapsed = 0
    MaxIncome = 0
    MaxStored = 0
SYMMETRY ProviderSymmetry
INVARIANT SecondariesDistinct
CHECK_DEADLOCK FALSE
