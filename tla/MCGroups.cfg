SPECIFICATION MCSpec
CONSTANTS
    p1 = p1
    p2 = p2
    p3 = p3
    p4 = p4
    Providers <- ThreeProviders
    MaxGvgs = 2
    MaxFamilies = 1
    NumSecondary = 1
    SpDeposit = 1
    InitFunds = 1
    Amounts = {1}
    TopUps = {1}
    Prices = {1, 2}
    MaxGvgNumPerFamily = 1
    SpConcurrentExitNum = 1
    SwapInValidityPeriod = 1
    CounterModulus = 3
    MaxTime = 1
    MaxSwaps = 1
    MaxExits = 1
    MaxLapsed = 1
    MaxIncome = 1
    MaxStored = 1
SYMMETRY ProviderSymmetry
INVARIANTS
    
    
    
    DepositsBacked
PROPERTIES
    CoinsConserved
    SettledBeforeSwap
CHECK_DEADLOCK FALSE
