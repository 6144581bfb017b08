SPECIFICATION Spec
CONSTANTS
    NumAccounts = 3
    Payers <- FeePayers
    Receivers <- FeeReceivers
    Gov = 3
    PaymentAccounts = {}
    Owner <- NoOwner
    InitBank <- FeeBank
    InitTime = 10
    InitParams <- FeeParams
    ParamSets <- FeeParamSets
    Deposits = {3}
    Withdrawals = {2}
    Fees = {1}
    Bills <- FeeBills
    BlockGaps = {0, 2}
    MaxTime = 14
    MaxCredit = 3
INVARIANTS
    TypeOK
    CheckStreamRecord
    ReceiversNeverOwe
    IncomeMatchesFlows
