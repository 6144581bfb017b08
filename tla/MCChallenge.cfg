SPECIFICATION MCSpec
CONSTANTS
    Sps = {1, 2}
    Objects = {1, 2}
    Gone = Gone
    Size <- TwoSizes
    Homes <- ThreeHomes
    Validators = 4
    ChallengeCountPerBlock = 2
    ChallengeKeepAlivePeriod = 2
    SlashCoolingOffPeriod = 2
    SlashAmountSizeRate = 3
    OneGB = 2
    SlashAmountMin = 4
    SlashAmountMax = 6
    SpSlashMaxAmount = 10
    SpSlashCountingWindow = 3
    RewardValidatorRatio = 50
    RewardSubmitterRatio = 30
    RewardSubmitterThreshold = 1
    HeartbeatInterval = 2
    KeptCounts = {1, 2, 3}
    InitDeposit <- TwoDeposits
    TaxIncome = 3
    MaxHeight = 5
    MaxChallenges = 3
INVARIANTS
    SlashedOnce
    LossExact
PROPERTY
    ImplementsLog
