-------------------------- MODULE MCPaymentStream --------------------------
(* Small instances of PaymentStream for TLC.                               *)
EXTENDS PaymentStream

Params(reserve, settleMax, resumeMax) ==
    [reserveTime |-> reserve, forcedSettleTime |-> 1,
     maxAutoSettle |-> settleMax, maxAutoResume |-> resumeMax,
     accountLimit |-> 1, lockThreshold |-> 3, lockDuration |-> 1]

(* A bill of rates to receivers r1.. in order; the rest are zero.          *)
Bill(rates) == [a \in Accounts |-> IF a \in DOMAIN rates THEN rates[a] ELSE 0]

(* A payment account (3) and the user that owns and funds it (4), two      *)
(* receivers (1, 2), one flow handled per block: freezing and resuming     *)
(* take several blocks.                                                    *)
LagPayers == {3, 4}
LagReceivers == {1, 2}
LagPaymentAccounts == {3}
LagOwner == [a \in {3} |-> 4]
LagBank == [a \in 1..5 |-> IF a = 4 THEN 12 ELSE 0]
TwoDepositsBank == [a \in 1..5 |-> IF a = 4 THEN 8 ELSE 0]
FreezeBank == [TwoDepositsBank EXCEPT ![3] = 1]    \* a coin sent to the payment account itself
LagParams == Params(2, 1, 1)
LagParamSets == {LagParams}
LagBills == {Bill(<<1, 1>>), Bill(<<-1, 0>>)}

(* One user (2), one receiver (1): fees, two values of the reserve time.   *)
FeePayers == {2}
FeeReceivers == {1}
NoOwner == [a \in {} |-> 0]
FeeBank == [a \in 1..3 |-> IF a = 2 THEN 7 ELSE 0]
FeeParams == Params(2, 3, 3)
FeeParamSets == {FeeParams, Params(3, 3, 3)}
FeeBills == {Bill(<<1>>), Bill(<<-1>>)}
=============================================================================
