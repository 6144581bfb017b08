SPECIFICATION FairSpec
CONSTANTS
    NumAccounts = 5
    Payers <- LagPayers
    Receivers <- LagReceivers
    Gov = 5
    PaymentAccounts <- LagPaymentAccounts
    Owner <- LagOwner
    InitBank <- TwoDepositsBank
    InitTime = 10
    InitParams <- LagParams
    ParamSets <- LagParamSets
    Deposits = {4}
    Withdrawals = {}
    Fees = {}
    Bills <- LagBills
    BlockGaps = {0, 2}
    MaxTime = 12
    MaxCredit = 0
PROPERTIES
    ResumeCompletes
