SPECIFICATION Spec
CONSTANTS
    NumAccounts = 5
    Payers <- LagPayers
    Receivers <- LagReceivers
    Gov = 5
    PaymentAccounts <- LagPaymentAccounts
    Owner <- LagOwner
    InitBank <- LagBank
    InitTime = 10
    InitParams <- LagParams
    ParamSets <- LagParamSets
    Deposits = {4}
    Withdrawals = {}
    Fees = {}
    Bills <- LagBills
    BlockGaps = {0, 2}
    MaxTime = 14
    MaxCredit = 0
INVARIANTS
    RatesMatchFlows
    OutFlowCountExact
    Reconciled
    NoPanic
    FlowsNotDoubled
    NobodyForgotten
    ResumingIsFrozen
PROPERTIES
    StatusChanges
