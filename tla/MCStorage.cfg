SPECIFICATION MCSpec
CONSTANTS
    BucketNames = {1}
    ObjectNames = {1, 2}
    Accounts = {"own", "other"}
    OwnAccounts = {"own"}
    Families <- TwoFamilies
    Mappings <- Moves
    CopyTargets = "free"
    Sizes = {0, 1}
    Tariffs <- TwoTariffs
    FirstTariff <- Tariff1
    Quotas = {0, 1}
    Limits <- OthersLimits
    ConfirmPeriods = {1}
    SecondaryNum = 2
    PrimaryUnit = 2
    SecondaryUnit = 3
    ReadUnit = 2
    TaxUnit = 2
    ReserveTime = 1
    DeletionMax = 1
    MaxTime = 2
    MaxBuckets = 1
    MaxObjects = 2
    MaxLVGId = 2
INVARIANTS
    BillsMatchFlows
    
    
    
    MigrationRecorded
    LimitRespected
    
PROPERTIES
    DiscontinuedIsFinal
