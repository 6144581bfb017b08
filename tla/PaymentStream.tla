---------------------------- MODULE PaymentStream ----------------------------
(***************************************************************************)
(* The stream-payment engine of x/payment: stream records, out flows, the  *)
(* auto-settle and auto-resume queues, the module's bank account, payment  *)
(* accounts and delayed withdrawals.                                       *)
(*                                                                         *)
(* A transaction is one action: it commits as a whole or, on an error      *)
(* return, is reverted and leaves no trace, so an error return is a guard. *)
(* EndBlock is not reverted by anything: its two loops (AutoResume, then   *)
(* AutoSettle) are modelled one loop iteration per step, between a         *)
(* transaction phase and the phase in which x/storage's EndBlock makes its *)
(* forced updates.  A panic there halts the chain and is a phase of its    *)
(* own.                                                                    *)
(***************************************************************************)
EXTENDS Sums

CONSTANTS
    NumAccounts,      \* addresses are 1..NumAccounts, in the order of the store's keys
    Payers,           \* user accounts and the payment accounts they own
    Receivers,        \* virtual payment addresses of families and groups, validator tax pool
    Gov,              \* types.GovernanceAddress
    PaymentAccounts,  \* the payers that are derived payment accounts
    Owner,            \* the user a payment account is derived from
    InitBank,         \* bank balances in the first block
    InitTime,         \* Unix time of the first block
    ParamSets,        \* the parameter values governance may choose
    InitParams,       \* the ones in force in the first block
    Deposits,         \* amounts of deposits,
    Withdrawals,      \* of withdrawals
    Fees,             \* and of locked and early-deletion fees
    Bills,            \* rate changes per receiver that x/storage may ask for
    BlockGaps,        \* seconds between two blocks (several blocks may share a second)
    MaxTime,          \* bound: the last block's time
    MaxCredit         \* bound: the balance early-deletion fees give a receiver

Accounts == 1..NumAccounts
Users == Payers \ PaymentAccounts

ASSUME AccountsAssumption ==
    /\ NumAccounts \in Nat
    /\ Accounts = Payers \cup Receivers \cup {Gov}
    /\ Payers \cap Receivers = {} /\ Gov \notin Payers \cup Receivers
    /\ PaymentAccounts \subseteq Payers
    /\ Owner \in [PaymentAccounts -> Users]
    /\ InitBank \in [Accounts -> Nat]

(* Params.Validate of x/payment/types/params.go.                           *)
ValidParams(ps) ==
    /\ ps.reserveTime \in Nat /\ ps.forcedSettleTime \in Nat
    /\ ps.forcedSettleTime > 0 /\ ps.reserveTime > ps.forcedSettleTime
    /\ ps.maxAutoSettle \in Nat /\ ps.maxAutoSettle > 0
    /\ ps.maxAutoResume \in Nat /\ ps.maxAutoResume > 0
    /\ ps.accountLimit \in Nat /\ ps.accountLimit > 0
    /\ ps.lockThreshold \in Nat /\ ps.lockThreshold > 0
    /\ ps.lockDuration \in Nat

ASSUME ParamsAssumption ==
    /\ \A ps \in ParamSets : ValidParams(ps)
    /\ InitParams \in ParamSets
    /\ InitTime \in Nat /\ MaxTime \in Nat /\ MaxCredit \in Nat /\ BlockGaps \subseteq Nat
    /\ Deposits \cup Withdrawals \cup Fees \subseteq Nat \ {0}

(* A bill lists rate changes to receivers; x/storage emits no zero rates,  *)
(* so zero stands for a receiver that is not on the bill.                  *)
ASSUME BillsAssumption ==
    /\ Bills \subseteq [Accounts -> Int]
    /\ \A b \in Bills, a \in Accounts \ Receivers : b[a] = 0

VARIABLES
    now,          \* block time
    params,
    stored,       \* accounts with a stream record in the store
    rec,          \* their records (a fresh record for the others)
    active,       \* OUT_FLOW_STATUS_ACTIVE flows: rate per payer and receiver, 0 if absent
    frozen,       \* OUT_FLOW_STATUS_FROZEN flows
    autoSettle,   \* auto-settle records <<timestamp, address>>
    autoResume,   \* auto-resume records <<timestamp, address>>
    bank,         \* bank balances of the accounts
    module,       \* bank balance of the payment module account
    delayed,      \* delayed withdrawal of each user, amount 0 if none
    account,      \* payment accounts: "none", "refundable" or "nonRefundable"
    accountCount, \* payment account count record of each user
    phase,        \* "tx", "resume", "settle", "storage" or "panic"
    todo,         \* records the EndBlock iterator has not reached yet
    visit,        \* the record whose flows are being moved
    count         \* flows (and records) handled by the loop in this block

loopVars == <<phase, todo, visit, count>>
acctVars == <<delayed, account, accountCount>>
flowVars == <<active, frozen>>
vars == <<now, params, stored, rec, active, frozen, autoSettle, autoResume,
          bank, module, delayed, account, accountCount, phase, todo, visit, count>>

StreamRecord ==
    [static : Int, netflow : Int, frozen : Int, buffer : Int, lock : Int,
     crud : Int, settle : Int, outFlowCount : Int, status : {"active", "frozen"}]

NewStreamRecord(t) ==
    [static |-> 0, netflow |-> 0, frozen |-> 0, buffer |-> 0, lock |-> 0,
     crud |-> t, settle |-> 0, outFlowCount |-> 0, status |-> "active"]

NoDelay == [amount |-> 0, unlock |-> 0]
NoVisit == [ts |-> 0, addr |-> 0, tail |-> FALSE]

Change(static, rate, lock) == [static |-> static, rate |-> rate, lock |-> lock]
NoChange == Change(0, 0, 0)

-----------------------------------------------------------------------------
(* UpdateStreamRecord, in the order of its steps.                          *)

(* Int.Quo: division that truncates toward zero.                           *)
Quo(n, d) == IF n >= 0 THEN n \div d ELSE -((-n) \div d)

(* The balance earned or spent since the record was last touched.          *)
Accrue(s) ==
    IF now > s.crud
    THEN [s EXCEPT !.static = @ + s.netflow * (now - s.crud), !.crud = now]
    ELSE s

UpdateLock(s, d) ==
    IF s.lock + d < 0
    THEN [s EXCEPT !.static = (@ - d) + (s.lock + d), !.lock = 0]
    ELSE [s EXCEPT !.static = @ - d, !.lock = @ + d]

(* Mutant: the test for an outgoing rate is missing.                       *)
BufferForAnyRate(rate) == (-rate) * params.reserveTime

BufferFor(rate) == IF rate < 0 THEN (-rate) * params.reserveTime ELSE 0

UpdateRate(s, d) ==
    LET rate == s.netflow + d IN
    [s EXCEPT !.netflow = rate,
              !.static = (@ - BufferFor(rate)) + s.buffer,
              !.buffer = BufferFor(rate)]

(* Lines 150-180: everything up to the balance being final.                *)
Settled(s, c) ==
    LET t == UpdateRate(UpdateLock(Accrue(s), c.lock), c.rate) IN
    [t EXCEPT !.static = @ + c.static]

(* Mutant: the transfer is taken to succeed whatever the bank balance.     *)
PullAmountUnchecked(s, b) == IF s.static < 0 THEN -s.static ELSE 0

(* The automatic transfer that covers a negative balance from the bank     *)
(* account, all or nothing; b is the account's bank balance.               *)
PullAmount(s, b) == IF s.static < 0 /\ b >= -s.static THEN -s.static ELSE 0
Pulled(s, b) == [s EXCEPT !.static = @ + PullAmount(s, b)]

PayDuration(s) == Quo(s.static + s.buffer, -s.netflow)
Overdue(s) == s.netflow < 0 /\ PayDuration(s) <= params.forcedSettleTime
SettleTime(s) ==
    IF s.netflow < 0 THEN (now - params.forcedSettleTime) + PayDuration(s) ELSE 0

(* The record once its balance is final: Updated(s, c, b) below.           *)
Balanced(s, c, b) == Pulled(Settled(s, c), b)

(* Mutant: a transaction may leave a record overdue.                       *)
CanUpdateOverdue(s, c, b) ==
    /\ s.status = "active"
    /\ (c.static < 0 \/ c.rate < 0) => Balanced(s, c, b).static >= 0

(* An active record is updated outside EndBlock: the errors at lines 202   *)
(* and 210 do not occur.                                                   *)
CanUpdate(s, c, b) ==
    LET t == Balanced(s, c, b) IN
    /\ s.status = "active"
    /\ (c.static < 0 \/ c.rate < 0) => t.static >= 0
    /\ ~Overdue(t)

ForceSettled(s) == [s EXCEPT !.static = 0, !.buffer = 0, !.status = "frozen"]

(* The record after a successful update; ForceSettle freezes it when it is *)
(* overdue, which only a forced update gets to see.                        *)
Updated(s, c, b) ==
    LET t == Balanced(s, c, b) IN
    [(IF Overdue(t) THEN ForceSettled(t) ELSE t) EXCEPT !.settle = SettleTime(t)]

(* Mutant: the rate changes of a frozen record are ignored as well.        *)
UpdatedFrozenLockOnly(s, c, frozenRate) == UpdateLock(s, c.lock)

(* UpdateFrozenStreamRecord: no accrual, and the static change is ignored. *)
UpdatedFrozen(s, c, frozenRate) ==
    [UpdateLock(s, c.lock) EXCEPT !.netflow = @ + c.rate, !.frozen = @ + frozenRate]

(* Mutant: the new record is written before the old one is removed.        *)
RequeueSwapped(queue, a, old, new) ==
    (IF new = 0 THEN queue ELSE queue \cup {<<new, a>>}) \ (IF old = 0 THEN {} ELSE {<<old, a>>})

(* UpdateAutoSettleRecord: time 0 means there is no record.                *)
Requeue(queue, a, old, new) ==
    (IF old = 0 THEN queue ELSE queue \ {<<old, a>>})
        \cup (IF new = 0 THEN {} ELSE {<<new, a>>})

(* Mutant: a receiver's record is not brought up to date first.            *)
CreditedStale(s, static, rate) == [s EXCEPT !.static = @ + static, !.netflow = @ + rate]

(* UpdateStreamRecord of a receiver of fees.  Its net flow and balance     *)
(* never fall below zero (ReceiversNeverOwe), so lines 181-219 do nothing. *)
Credited(s, static, rate) == Settled(s, Change(static, rate, 0))

-----------------------------------------------------------------------------
(* Messages and keeper calls of the transaction phase.                     *)

(* UpdateStreamRecordByAddr outside EndBlock.                              *)
TxUpdate(a, c) ==
    /\ CanUpdate(rec[a], c, bank[a])
    /\ rec' = [rec EXCEPT ![a] = Updated(@, c, bank[a])]
    /\ stored' = stored \cup {a}
    /\ bank' = [bank EXCEPT ![a] = @ - PullAmount(Settled(rec[a], c), bank[a])]
    /\ module' = module + PullAmount(Settled(rec[a], c), bank[a])
    /\ autoSettle' = Requeue(autoSettle, a, rec[a].settle, Updated(rec[a], c, bank[a]).settle)

(* Mutant: only a resume of this very second is noticed.                   *)
ResumingNow(a) == <<now, a>> \in autoResume

(* ExistsAutoResumeRecord with timestamp 0: a resume of any time.          *)
Resuming(a) == \E r \in autoResume : r[2] = a

(* TryResumeStreamRecord of a frozen payer p; s is its record with the     *)
(* deposit added.                                                          *)
ResumeBuffer(s) == -(s.netflow + s.frozen) * params.reserveTime

ResumeFunded(s) ==
    [s EXCEPT !.settle = (now + Quo(s.static, -(s.netflow + s.frozen))) - params.forcedSettleTime,
              !.buffer = ResumeBuffer(s),
              !.static = @ - ResumeBuffer(s),
              !.crud = now]

ResumeDirectly(p, s) ==
    /\ s.outFlowCount <= params.maxAutoResume
    /\ rec' = [a \in Accounts |->
                 IF a = p THEN [ResumeFunded(s) EXCEPT !.status = "active",
                                                       !.netflow = s.netflow + s.frozen,
                                                       !.frozen = 0]
                 ELSE IF a \in Receivers /\ frozen[p][a] # 0 THEN Credited(rec[a], 0, frozen[p][a])
                 ELSE rec[a]]
    /\ active' = [active EXCEPT ![p] = [r \in Accounts |->
                    IF frozen[p][r] # 0 THEN frozen[p][r] ELSE active[p][r]]]
    /\ frozen' = [frozen EXCEPT ![p] = [r \in Accounts |-> 0]]
    /\ stored' = stored \cup {r \in Receivers : frozen[p][r] # 0}
    /\ autoSettle' = Requeue(autoSettle, p, s.settle, ResumeFunded(s).settle)
    /\ UNCHANGED autoResume

ResumeLater(p, s) ==
    /\ s.outFlowCount > params.maxAutoResume
    /\ rec' = [rec EXCEPT ![p] = ResumeFunded(s)]
    /\ autoResume' = autoResume \cup {<<now, p>>}
    /\ UNCHANGED <<stored, flowVars, autoSettle>>

TryResume(p, s) ==
    /\ ~Resuming(p)
    /\ LET totalRate == s.netflow + s.frozen IN
       \/ /\ totalRate = 0
          /\ rec' = [rec EXCEPT ![p] = [s EXCEPT !.status = "active", !.crud = now, !.settle = 0]]
          /\ UNCHANGED <<stored, flowVars, autoSettle, autoResume>>
       \/ /\ totalRate # 0
          /\ s.static < ResumeBuffer(s)
          /\ rec' = [rec EXCEPT ![p] = s]
          /\ UNCHANGED <<stored, flowVars, autoSettle, autoResume>>
       \/ /\ totalRate # 0
          /\ s.static >= ResumeBuffer(s)
          /\ ResumeDirectly(p, s) \/ ResumeLater(p, s)

(* An account that has ever held coins exists; users exist from the start. *)
HasAccount(a) == a \in Users \/ bank[a] > 0

IsPaymentAccount(a) == a \in PaymentAccounts /\ account[a] # "none"

(* MsgDeposit.  Depositing to a payment account also sweeps the coins its  *)
(* own bank account holds into the module.                                 *)
DepositTo(to, amount, bankAfter) ==
    \/ /\ to \notin stored
       /\ IsPaymentAccount(to) \/ HasAccount(to)
       /\ rec' = [rec EXCEPT ![to] = [NewStreamRecord(now) EXCEPT !.static = amount]]
       /\ stored' = stored \cup {to}
       /\ bank' = bankAfter
       /\ module' = module + amount
       /\ UNCHANGED <<flowVars, autoSettle, autoResume>>
    \/ /\ to \in stored
       /\ LET c == Change(amount, 0, 0)
              pull == PullAmount(Settled(rec[to], c), bankAfter[to]) IN
          /\ CanUpdate(rec[to], c, bankAfter[to])
          /\ rec' = [rec EXCEPT ![to] = Updated(@, c, bankAfter[to])]
          /\ bank' = [bankAfter EXCEPT ![to] = @ - pull]
          /\ module' = module + amount + pull
          /\ autoSettle' = Requeue(autoSettle, to, rec[to].settle, Updated(rec[to], c, bankAfter[to]).settle)
       /\ UNCHANGED <<stored, flowVars, autoResume>>
    \/ /\ to \in stored
       /\ rec[to].status = "frozen"
       /\ TryResume(to, [rec[to] EXCEPT !.static = @ + amount])
       /\ bank' = bankAfter
       /\ module' = module + amount

Deposit(creator, to, amount) ==
    /\ phase = "tx"
    /\ bank[creator] >= amount
    /\ LET swept == IF IsPaymentAccount(to) THEN bank[to] ELSE 0 IN
       DepositTo(to, amount + swept,
                 [a \in Accounts |-> bank[a] - (IF a = creator THEN amount ELSE 0)
                                             - (IF a = to THEN swept ELSE 0)])
    /\ UNCHANGED <<now, params, acctVars, loopVars>>

(* Mutant: the refundable flag is not looked at.                           *)
MayWithdrawAnyway(creator, from) ==
    creator = from \/ (IsPaymentAccount(from) /\ Owner[from] = creator)

MayWithdraw(creator, from) ==
    \/ creator = from
    \/ from \in PaymentAccounts /\ account[from] = "refundable" /\ Owner[from] = creator

(* Mutant: a second delayed withdrawal takes the place of the first.       *)
NoDelayedWithdrawalUnchecked(creator) == TRUE

NoDelayedWithdrawal(creator) == delayed[creator] = NoDelay

(* MsgWithdraw from a stream record: paid out at once, or kept as a        *)
(* delayed withdrawal from the threshold on.                               *)
Withdraw(creator, from, amount) ==
    /\ phase = "tx"
    /\ from \in stored
    /\ MayWithdraw(creator, from)
    /\ LET c == Change(-amount, 0, 0)
           pull == PullAmount(Settled(rec[from], c), bank[from])
           drawn == [bank EXCEPT ![from] = @ - pull] IN
       /\ CanUpdate(rec[from], c, bank[from])
       /\ rec' = [rec EXCEPT ![from] = Updated(@, c, bank[from])]
       /\ autoSettle' = Requeue(autoSettle, from, rec[from].settle, Updated(rec[from], c, bank[from]).settle)
       /\ \/ /\ amount >= params.lockThreshold
             /\ NoDelayedWithdrawal(creator)
             /\ delayed' = [delayed EXCEPT ![creator] =
                              [amount |-> amount, unlock |-> now + params.lockDuration]]
             /\ bank' = drawn
             /\ module' = module + pull
          \/ /\ amount < params.lockThreshold
             /\ module + pull >= amount
             /\ bank' = [drawn EXCEPT ![creator] = @ + amount]
             /\ module' = (module + pull) - amount
             /\ UNCHANGED delayed
    /\ UNCHANGED <<now, params, stored, flowVars, autoResume, account, accountCount, loopVars>>

(* Mutant: the record is not removed.                                      *)
WithdrawDelayedKept(creator) ==
    /\ phase = "tx"
    /\ delayed[creator] # NoDelay /\ now > delayed[creator].unlock
    /\ module >= delayed[creator].amount
    /\ bank' = [bank EXCEPT ![creator] = @ + delayed[creator].amount]
    /\ module' = module - delayed[creator].amount
    /\ UNCHANGED <<now, params, stored, rec, flowVars, autoSettle, autoResume, acctVars, loopVars>>

(* MsgWithdraw with an empty From: claims the delayed withdrawal.          *)
WithdrawDelayed(creator) ==
    /\ phase = "tx"
    /\ delayed[creator] # NoDelay
    /\ now > delayed[creator].unlock
    /\ module >= delayed[creator].amount
    /\ bank' = [bank EXCEPT ![creator] = @ + delayed[creator].amount]
    /\ module' = module - delayed[creator].amount
    /\ delayed' = [delayed EXCEPT ![creator] = NoDelay]
    /\ UNCHANGED <<now, params, stored, rec, flowVars, autoSettle, autoResume,
                   account, accountCount, loopVars>>

(* MsgCreatePaymentAccount: the next address derived from the creator.     *)
CreatePaymentAccount(creator, a) ==
    /\ phase = "tx"
    /\ Owner[a] = creator /\ account[a] = "none"
    /\ \A x \in PaymentAccounts : Owner[x] = creator /\ account[x] = "none" => a <= x
    /\ accountCount[creator] < params.accountLimit
    /\ account' = [account EXCEPT ![a] = "refundable"]
    /\ accountCount' = [accountCount EXCEPT ![creator] = @ + 1]
    /\ UNCHANGED <<now, params, stored, rec, flowVars, autoSettle, autoResume,
                   bank, module, delayed, loopVars>>

DisableRefund(a) ==
    /\ phase = "tx"
    /\ account[a] = "refundable"
    /\ account' = [account EXCEPT ![a] = "nonRefundable"]
    /\ UNCHANGED <<now, params, stored, rec, flowVars, autoSettle, autoResume,
                   bank, module, delayed, accountCount, loopVars>>

(* MsgUpdateParams, from governance.                                       *)
UpdateParams(ps) ==
    /\ phase = "tx"
    /\ params' = ps
    /\ UNCHANGED <<now, stored, rec, flowVars, autoSettle, autoResume,
                   bank, module, acctVars, loopVars>>

(* Keeper.Withdraw of all that a receiver has earned: how x/virtualgroup   *)
(* settles a family or a group and x/challenge draws on the tax pool.      *)
KeeperWithdraw(r) ==
    /\ phase = "tx"
    /\ r \in stored
    /\ LET amount == Accrue(rec[r]).static IN
       /\ amount > 0 /\ module >= amount
       /\ rec' = [rec EXCEPT ![r] = Credited(@, -amount, 0)]
       /\ module' = module - amount
    /\ UNCHANGED <<now, params, stored, flowVars, autoSettle, autoResume,
                   bank, acctVars, loopVars>>
-----------------------------------------------------------------------------
(* What x/storage asks of the engine, in a transaction.                    *)

BillTotal(b) == Sum(b, NumAccounts)

(* Mutant: the rate is replaced, not added to.                             *)
MergeReplace(flows, b) == [r \in Accounts |-> IF b[r] # 0 THEN b[r] ELSE flows[r]]

(* Mutant: deleted flows are not counted.                                  *)
FlowDeltaInserts(rate, change) == IF change # 0 /\ rate = 0 THEN 1 ELSE 0

(* deltaCount++ and deltaCount-- of mergeOutFlows: a flow that is not      *)
(* there is set, a flow whose rate becomes zero is deleted.                *)
FlowDelta(rate, change) ==
    IF change # 0 /\ rate = 0 THEN 1
    ELSE IF change # 0 /\ rate + change = 0 THEN -1 ELSE 0

(* mergeOutFlows (a rate of zero stands for no flow); the result of the    *)
(* call is the change of the number of flows.                              *)
Merge(flows, b) == [r \in Accounts |-> flows[r] + b[r]]
MergeDelta(flows, b) == Sum([r \in Accounts |-> FlowDelta(flows[r], b[r])], NumAccounts)

(* Mutant: receivers are told of higher rates only.                        *)
RecWithIncreases(p, s, rates) ==
    [a \in Accounts |-> IF a = p THEN s
                        ELSE IF rates[a] > 0 THEN Credited(rec[a], 0, rates[a])
                        ELSE rec[a]]

(* The records after payer p's record becomes s and the rates change the   *)
(* receivers' (ApplyStreamRecordChanges).                                  *)
RecWith(p, s, rates) ==
    [a \in Accounts |-> IF a = p THEN s
                        ELSE IF rates[a] # 0 THEN Credited(rec[a], 0, rates[a])
                        ELSE rec[a]]

NoRates == [a \in Accounts |-> 0]
OnBill(b) == {r \in Accounts : b[r] # 0}

(* x/storage takes back no more than it charged.                           *)
Covered(flows, b) == \A r \in Accounts : flows[r] + b[r] >= 0

(* ApplyUserFlowsList for one user.  A list that names several users is    *)
(* several such steps.                                                     *)
ApplyUserFlows(p, b) ==
    /\ phase = "tx"
    /\ Covered(active[p], b)
    /\ LET c == Change(0, -BillTotal(b), 0)
           pull == PullAmount(Settled(rec[p], c), bank[p])
           s == Updated(rec[p], c, bank[p]) IN
       /\ CanUpdate(rec[p], c, bank[p])
       /\ rec' = RecWith(p, [s EXCEPT !.outFlowCount = @ + MergeDelta(active[p], b)], b)
       /\ bank' = [bank EXCEPT ![p] = @ - pull]
       /\ module' = module + pull
       /\ autoSettle' = Requeue(autoSettle, p, rec[p].settle, s.settle)
    /\ active' = [active EXCEPT ![p] = Merge(@, b)]
    /\ stored' = stored \cup {p} \cup OnBill(b)
    /\ UNCHANGED <<now, params, frozen, autoResume, acctVars, loopVars>>

(* lockObjectStoreFee: the locked fee must come out of a balance that      *)
(* stays non-negative.                                                     *)
LockFee(p, amount) ==
    /\ phase = "tx"
    /\ TxUpdate(p, Change(0, 0, amount))
    /\ Balanced(rec[p], Change(0, 0, amount), bank[p]).static >= 0
    /\ UNCHANGED <<now, params, flowVars, autoResume, acctVars, loopVars>>

(* UnlockObjectStoreFee gives back what was locked.                        *)
UnlockFee(p, amount) ==
    /\ phase = "tx"
    /\ amount <= rec[p].lock
    /\ TxUpdate(p, Change(0, 0, -amount))
    /\ UNCHANGED <<now, params, flowVars, autoResume, acctVars, loopVars>>

(* ChargeObjectStoreFeeForEarlyDeletion: the payer pays a receiver for the *)
(* rest of the reserve time.                                               *)
EarlyDeletionFee(p, r, amount) ==
    /\ phase = "tx" /\ rec[r].static + amount <= MaxCredit
    /\ LET c == Change(-amount, 0, 0)
           pull == PullAmount(Settled(rec[p], c), bank[p]) IN
       /\ CanUpdate(rec[p], c, bank[p])
       /\ rec' = [rec EXCEPT ![p] = Updated(@, c, bank[p]), ![r] = Credited(@, amount, 0)]
       /\ bank' = [bank EXCEPT ![p] = @ - pull]
       /\ module' = module + pull
       /\ autoSettle' = Requeue(autoSettle, p, rec[p].settle, Updated(rec[p], c, bank[p]).settle)
    /\ stored' = stored \cup {p, r}
    /\ UNCHANGED <<now, params, flowVars, autoResume, acctVars, loopVars>>

-----------------------------------------------------------------------------
(* Forced updates (ForceUpdateStreamRecordKey): EndBlock only.             *)

(* ForceSettle passes what an overdue record still holds, which may be a   *)
(* debt, to the governance account.                                        *)
GovChange(t) == Change(t.static + t.buffer, 0, 0)
GovPull(t) == IF Overdue(t) THEN PullAmount(Settled(rec[Gov], GovChange(t)), bank[Gov]) ELSE 0
GovAfter(t) == IF Overdue(t) THEN Balanced(rec[Gov], GovChange(t), bank[Gov]) ELSE rec[Gov]

(* A forced update of payer p from its active record s, with the flow      *)
(* count moved by delta and the rates of the receivers changed.            *)
ForceUpdate(p, s, c, delta, rates) ==
    LET t == Balanced(s, c, bank[p])
        pull == PullAmount(Settled(s, c), bank[p]) IN
    /\ rec' = [RecWith(p, [Updated(s, c, bank[p]) EXCEPT !.outFlowCount = @ + delta], rates)
                 EXCEPT ![Gov] = GovAfter(t)]
    /\ stored' = (stored \cup {p} \cup OnBill(rates)) \cup (IF Overdue(t) THEN {Gov} ELSE {})
    /\ bank' = [bank EXCEPT ![p] = @ - pull, ![Gov] = @ - GovPull(t)]
    /\ module' = module + pull + GovPull(t)
    /\ autoSettle' = Requeue(autoSettle, p, s.settle, SettleTime(t))

(* The storage EndBlocker deletes discontinued objects and buckets, which  *)
(* takes back their flows whatever the payer's status.                     *)
Uncharge(b) == b # NoRates /\ \A r \in Accounts : b[r] <= 0

ForcedActiveUserFlows(p, b) ==
    /\ phase = "storage"
    /\ rec[p].status = "active"
    /\ Uncharge(b) /\ Covered(active[p], b)
    /\ ForceUpdate(p, rec[p], Change(0, -BillTotal(b), 0), MergeDelta(active[p], b), b)
    /\ active' = [active EXCEPT ![p] = Merge(@, b)]
    /\ UNCHANGED <<now, params, frozen, autoResume, acctVars, loopVars>>

(* applyFrozenUserFlows: a change goes to the active flow when there is    *)
(* one, and only those reach the receiver, which already lost the others.  *)
OnActive(p, b) == [r \in Accounts |-> IF active[p][r] # 0 THEN b[r] ELSE 0]
OnFrozen(p, b) == [r \in Accounts |-> IF active[p][r] # 0 THEN 0 ELSE b[r]]

ForcedFrozenUserFlows(p, b) ==
    /\ phase = "storage"
    /\ rec[p].status = "frozen"
    /\ Uncharge(b)
    /\ Covered(active[p], OnActive(p, b)) /\ Covered(frozen[p], OnFrozen(p, b))
    /\ LET s == UpdatedFrozen(rec[p], Change(0, -BillTotal(OnActive(p, b)), 0),
                              -BillTotal(OnFrozen(p, b)))
           delta == MergeDelta(active[p], OnActive(p, b)) + MergeDelta(frozen[p], OnFrozen(p, b)) IN
       rec' = RecWith(p, [s EXCEPT !.outFlowCount = @ + delta], OnActive(p, b))
    /\ active' = [active EXCEPT ![p] = Merge(@, OnActive(p, b))]
    /\ frozen' = [frozen EXCEPT ![p] = Merge(@, OnFrozen(p, b))]
    /\ stored' = stored \cup OnBill(OnActive(p, b))
    /\ UNCHANGED <<now, params, autoSettle, autoResume, bank, module, acctVars, loopVars>>

ForcedUnlockFee(p, amount) ==
    /\ phase = "storage"
    /\ amount <= rec[p].lock
    /\ \/ /\ rec[p].status = "active"
          /\ ForceUpdate(p, rec[p], Change(0, 0, -amount), 0, NoRates)
       \/ /\ rec[p].status = "frozen"
          /\ rec' = [rec EXCEPT ![p] = UpdatedFrozen(@, Change(0, 0, -amount), 0)]
          /\ UNCHANGED <<stored, autoSettle, bank, module>>
    /\ UNCHANGED <<now, params, flowVars, autoResume, acctVars, loopVars>>

(* The receiver is credited first; the charge of a frozen payer is ignored. *)
ForcedEarlyDeletionFee(p, r, amount) ==
    /\ phase = "storage" /\ rec[r].static + amount <= MaxCredit
    /\ \/ /\ rec[p].status = "active"
          /\ LET t == Balanced(rec[p], Change(-amount, 0, 0), bank[p])
                 pull == PullAmount(Settled(rec[p], Change(-amount, 0, 0)), bank[p]) IN
             /\ rec' = [rec EXCEPT ![p] = Updated(@, Change(-amount, 0, 0), bank[p]),
                                   ![r] = Credited(@, amount, 0),
                                   ![Gov] = GovAfter(t)]
             /\ stored' = (stored \cup {p, r}) \cup (IF Overdue(t) THEN {Gov} ELSE {})
             /\ bank' = [bank EXCEPT ![p] = @ - pull, ![Gov] = @ - GovPull(t)]
             /\ module' = module + pull + GovPull(t)
             /\ autoSettle' = Requeue(autoSettle, p, rec[p].settle, SettleTime(t))
       \/ /\ rec[p].status = "frozen"
          /\ rec' = [rec EXCEPT ![r] = Credited(@, amount, 0)]
          /\ stored' = stored \cup {r}
          /\ UNCHANGED <<autoSettle, bank, module>>
    /\ UNCHANGED <<now, params, flowVars, autoResume, acctVars, loopVars>>

-----------------------------------------------------------------------------
(* EndBlock.  A record iterator sees the queue as it was when the loop     *)
(* began, and a flow iterator the flows as they were when it was opened:   *)
(* the cached store they read copies its pending writes.                   *)

HasFlows(flows) == \E r \in Accounts : flows[r] # 0
IsFirstFlow(flows, r) == flows[r] # 0 /\ \A q \in Accounts : flows[q] # 0 => r <= q
IsFirst(r, records) == \A q \in records : r[1] < q[1] \/ (r[1] = q[1] /\ r[2] <= q[2])

(* Out flows are keyed by payer, status (active before frozen), receiver:  *)
(* whether the flow iterator has keys left after the last flow of a payer. *)
LaterPayersFlows(p) == \E q \in Payers : q > p /\ (HasFlows(active[q]) \/ HasFlows(frozen[q]))

StartEndBlock ==
    /\ phase = "tx"
    /\ phase' = "resume"
    /\ todo' = autoResume
    /\ UNCHANGED <<now, params, stored, rec, flowVars, autoSettle, autoResume,
                   bank, module, acctVars, visit, count>>

ResumeVisit(q) ==
    /\ phase = "resume" /\ visit = NoVisit /\ IsFirst(q, todo)
    /\ todo' = todo \ {q}
    /\ visit' = [ts |-> q[1], addr |-> q[2], tail |-> LaterPayersFlows(q[2])]
    /\ UNCHANGED <<now, params, stored, rec, flowVars, autoSettle, autoResume,
                   bank, module, acctVars, phase, count>>

(* One iteration of the flow loop of AutoResume.                           *)
ResumeFlow(r) ==
    LET p == visit.addr
        rate == frozen[p][r] IN
    /\ phase = "resume" /\ visit # NoVisit
    /\ IsFirstFlow(frozen[p], r) /\ count < params.maxAutoResume
    /\ rec' = [rec EXCEPT ![r] = Credited(rec[r], 0, rate),
                          ![p] = [rec[p] EXCEPT !.netflow = @ - rate, !.frozen = @ + rate]]
    /\ frozen' = [frozen EXCEPT ![p] = [@ EXCEPT ![r] = 0]]
    /\ active' = [active EXCEPT ![p] = [@ EXCEPT ![r] = rate]]
    /\ stored' = stored \cup {r}
    /\ count' = count + 1
    /\ UNCHANGED <<now, params, autoSettle, autoResume, bank, module, acctVars, phase, todo, visit>>

(* Mutant: running out of the flows allowed counts as being finished.      *)
ResumeFinishEarly ==
    LET p == visit.addr IN
    /\ phase = "resume" /\ visit # NoVisit
    /\ ~HasFlows(frozen[p]) \/ count >= params.maxAutoResume
    /\ ForceUpdate(p, [rec[p] EXCEPT !.status = "active"], NoChange, 0, NoRates)
    /\ autoResume' = autoResume \ {<<visit.ts, p>>}
    /\ visit' = NoVisit
    /\ UNCHANGED <<now, params, flowVars, acctVars, phase, todo, count>>

(* All flows of the payer are active again: it is settled and active.      *)
ResumeFinish ==
    LET p == visit.addr IN
    /\ phase = "resume" /\ visit # NoVisit
    /\ ~HasFlows(frozen[p])
    /\ count < params.maxAutoResume \/ ~visit.tail
    /\ phase' = IF rec[p].frozen # 0 THEN "panic" ELSE phase
    /\ ForceUpdate(p, [rec[p] EXCEPT !.status = "active"], NoChange, 0, NoRates)
    /\ autoResume' = autoResume \ {<<visit.ts, p>>}
    /\ visit' = NoVisit
    /\ UNCHANGED <<now, params, flowVars, acctVars, todo, count>>

(* The flows allowed per block are used up before the payer's last flow.   *)
ResumeStop ==
    /\ phase = "resume" /\ visit # NoVisit
    /\ count >= params.maxAutoResume
    /\ HasFlows(frozen[visit.addr]) \/ visit.tail
    /\ visit' = NoVisit
    /\ UNCHANGED <<now, params, stored, rec, flowVars, autoSettle, autoResume,
                   bank, module, acctVars, phase, todo, count>>

ResumeEnd ==
    /\ phase = "resume" /\ visit = NoVisit /\ todo = {}
    /\ phase' = "settle"
    /\ todo' = autoSettle
    /\ count' = 0
    /\ UNCHANGED <<now, params, stored, rec, flowVars, autoSettle, autoResume,
                   bank, module, acctVars, visit>>

(* The check of AutoSettle that is to skip a resuming account.             *)
ExistsAutoResumeRecord(ts, a) ==
    \E q \in autoResume : q[2] = a /\ (ts > 0 => q[1] <= ts)

(* Mutant: a record is due in its own second only.                         *)
IsDueExactly(q) == IsFirst(q, todo) /\ q[1] = now /\ count < params.maxAutoSettle

IsDue(q) == IsFirst(q, todo) /\ q[1] <= now /\ count < params.maxAutoSettle

SettleVisitOf(q) ==
    IF ExistsAutoResumeRecord(q[1], q[2]) THEN NoVisit
    ELSE [ts |-> q[1], addr |-> q[2],
          tail |-> HasFlows(frozen[q[2]]) \/ LaterPayersFlows(q[2])]

(* A due record of an active payer: settle it, and go on to freeze its     *)
(* flows if that froze it.                                                 *)
SettleActive(q) ==
    LET p == q[2] IN
    /\ phase = "settle" /\ visit = NoVisit /\ IsDue(q)
    /\ p \in stored /\ rec[p].status = "active"
    /\ ForceUpdate(p, rec[p], NoChange, 0, NoRates)
    /\ count' = count + 1
    /\ todo' = todo \ {q}
    /\ visit' = IF Overdue(Balanced(rec[p], NoChange, bank[p])) /\ count + 1 < params.maxAutoSettle
                THEN SettleVisitOf(q) ELSE NoVisit
    /\ UNCHANGED <<now, params, flowVars, autoResume, acctVars, phase>>

SettleFrozen(q) ==
    /\ phase = "settle" /\ visit = NoVisit /\ IsDue(q)
    /\ q[2] \in stored /\ rec[q[2]].status = "frozen"
    /\ todo' = todo \ {q}
    /\ visit' = SettleVisitOf(q)
    /\ UNCHANGED <<now, params, stored, rec, flowVars, autoSettle, autoResume,
                   bank, module, acctVars, phase, count>>

(* One iteration of the flow loop of AutoSettle.                           *)
SettleFlow(r) ==
    LET p == visit.addr
        rate == active[p][r] IN
    /\ phase = "settle" /\ visit # NoVisit
    /\ IsFirstFlow(active[p], r) /\ count < params.maxAutoSettle
    /\ rec' = [rec EXCEPT ![r] = Credited(rec[r], 0, -rate),
                          ![p] = [rec[p] EXCEPT !.netflow = @ + rate, !.frozen = @ - rate]]
    /\ active' = [active EXCEPT ![p] = [@ EXCEPT ![r] = 0]]
    /\ frozen' = [frozen EXCEPT ![p] = [@ EXCEPT ![r] = rate]]
    /\ stored' = stored \cup {r}
    /\ count' = count + 1
    /\ UNCHANGED <<now, params, autoSettle, autoResume, bank, module, acctVars, phase, todo, visit>>

SettleFinish ==
    LET p == visit.addr IN
    /\ phase = "settle" /\ visit # NoVisit
    /\ ~HasFlows(active[p])
    /\ count < params.maxAutoSettle \/ ~visit.tail
    /\ phase' = IF rec[p].netflow # 0 THEN "panic" ELSE phase
    /\ autoSettle' = autoSettle \ {<<visit.ts, p>>}
    /\ visit' = NoVisit
    /\ UNCHANGED <<now, params, stored, rec, flowVars, autoResume, bank, module, acctVars, todo, count>>

SettleStop ==
    /\ phase = "settle" /\ visit # NoVisit
    /\ count >= params.maxAutoSettle
    /\ HasFlows(active[visit.addr]) \/ visit.tail
    /\ visit' = NoVisit
    /\ UNCHANGED <<now, params, stored, rec, flowVars, autoSettle, autoResume,
                   bank, module, acctVars, phase, todo, count>>

SettleEnd ==
    /\ phase = "settle" /\ visit = NoVisit /\ ~\E q \in todo : IsDue(q)
    /\ phase' = "storage"
    /\ todo' = {} /\ count' = 0
    /\ UNCHANGED <<now, params, stored, rec, flowVars, autoSettle, autoResume,
                   bank, module, acctVars, visit>>

NextBlock(gap) ==
    /\ phase = "storage"
    /\ now + gap <= MaxTime
    /\ now' = now + gap
    /\ phase' = "tx"
    /\ UNCHANGED <<params, stored, rec, flowVars, autoSettle, autoResume,
                   bank, module, acctVars, todo, visit, count>>

-----------------------------------------------------------------------------
Init ==
    /\ now = InitTime
    /\ params = InitParams
    /\ stored = {}
    /\ rec = [a \in Accounts |-> NewStreamRecord(InitTime)]
    /\ active = [p \in Payers |-> NoRates]
    /\ frozen = [p \in Payers |-> NoRates]
    /\ autoSettle = {} /\ autoResume = {}
    /\ bank = InitBank /\ module = 0
    /\ delayed = [u \in Users |-> NoDelay]
    /\ account = [a \in PaymentAccounts |-> "none"]
    /\ accountCount = [u \in Users |-> 0]
    /\ phase = "tx" /\ todo = {} /\ visit = NoVisit /\ count = 0

Messages ==
    \/ \E creator \in Users, to \in Accounts, amount \in Deposits : Deposit(creator, to, amount)
    \/ \E creator \in Users, from \in Payers, amount \in Withdrawals : Withdraw(creator, from, amount)
    \/ \E creator \in Users : WithdrawDelayed(creator)
    \/ \E creator \in Users, a \in PaymentAccounts : CreatePaymentAccount(creator, a)
    \/ \E a \in PaymentAccounts : DisableRefund(a)
    \/ \E ps \in ParamSets : UpdateParams(ps)

KeeperCalls ==
    \/ \E r \in Receivers : KeeperWithdraw(r)
    \/ \E p \in Payers, b \in Bills : ApplyUserFlows(p, b)
    \/ \E p \in Payers, amount \in Fees : LockFee(p, amount) \/ UnlockFee(p, amount)
    \/ \E p \in Payers, r \in Receivers, amount \in Fees : EarlyDeletionFee(p, r, amount)

StorageEndBlock ==
    \/ \E p \in Payers, b \in Bills : ForcedActiveUserFlows(p, b) \/ ForcedFrozenUserFlows(p, b)
    \/ \E p \in Payers, amount \in Fees : ForcedUnlockFee(p, amount)
    \/ \E p \in Payers, r \in Receivers, amount \in Fees : ForcedEarlyDeletionFee(p, r, amount)

AutoResume ==
    \/ \E q \in todo : ResumeVisit(q)
    \/ \E r \in Receivers : ResumeFlow(r)
    \/ ResumeFinish \/ ResumeStop \/ ResumeEnd

AutoSettle ==
    \/ \E q \in todo : SettleActive(q) \/ SettleFrozen(q)
    \/ \E r \in Receivers : SettleFlow(r)
    \/ SettleFinish \/ SettleStop \/ SettleEnd

EndBlock == StartEndBlock \/ AutoResume \/ AutoSettle

Next ==
    \/ Messages
    \/ KeeperCalls
    \/ EndBlock
    \/ StorageEndBlock
    \/ \E gap \in BlockGaps : NextBlock(gap)

Spec == Init /\ [][Next]_vars

-----------------------------------------------------------------------------
(* Properties.                                                             *)

Rates == [Accounts -> Int]
QueueRecord == Int \X Payers
NumFlows(f) == Sum([r \in Accounts |-> IF f[r] # 0 THEN 1 ELSE 0], NumAccounts)

(* The state the stores can hold: out flows of non-negative rate that end  *)
(* at receivers only, queue records that name payers, balances the bank    *)
(* module allows.                                                          *)
TypeOK ==
    /\ now \in Nat /\ params \in ParamSets
    /\ stored \subseteq Accounts
    /\ rec \in [Accounts -> StreamRecord]
    /\ active \in [Payers -> [Accounts -> Nat]] /\ frozen \in [Payers -> [Accounts -> Nat]]
    /\ \A p \in Payers, a \in Accounts \ Receivers : active[p][a] = 0 /\ frozen[p][a] = 0
    /\ autoSettle \subseteq QueueRecord /\ autoResume \subseteq QueueRecord
    /\ bank \in [Accounts -> Nat] /\ module \in Int
    /\ delayed \in [Users -> [amount : Nat, unlock : Nat]]
    /\ account \in [PaymentAccounts -> {"none", "refundable", "nonRefundable"}]
    /\ accountCount \in [Users -> Nat]
    /\ phase \in {"tx", "resume", "settle", "storage", "panic"}
    /\ todo \subseteq QueueRecord
    /\ visit = NoVisit \/ visit \in [ts : Int, addr : Payers, tail : BOOLEAN]
    /\ count \in Nat

(* A payer's record says what its flows say: NetflowRate is the total of   *)
(* its active flows and FrozenNetflowRate of its frozen ones, whatever     *)
(* part of a freeze or a resume EndBlock has got to.                       *)
RatesMatchFlows ==
    \A p \in Payers : /\ rec[p].netflow = -Sum(active[p], NumAccounts)
                      /\ rec[p].frozen = -Sum(frozen[p], NumAccounts)

(* OutFlowCount, which decides between a direct and a queued resume and    *)
(* is computed with a conversion that would wrap below zero, is the number *)
(* of flows in the store.                                                  *)
OutFlowCountExact ==
    \A p \in Payers :
        rec[p].outFlowCount = NumFlows(active[p]) + NumFlows(frozen[p])

(* app/reconciliation.go: the net flow rates of all stream records cancel  *)
(* out; the chain halts at the next block when they do not.                *)
Reconciled == Sum([a \in Accounts |-> rec[a].netflow], NumAccounts) = 0

(* What a receiver earns per second is what payers' active flows send it   *)
(* (the comparison RunPaymentCheck of x/storage makes).                    *)
IncomeMatchesFlows ==
    \A r \in Receivers :
        rec[r].netflow = Sum([a \in Accounts |-> IF a \in Payers THEN active[a][r] ELSE 0], NumAccounts)

(* None of the "should not happen" panics of the EndBlock loops happens.   *)
NoPanic == phase # "panic"

(* CheckStreamRecord, which panics on a record that is not well formed,    *)
(* accepts every record.                                                   *)
CheckStreamRecord ==
    \A a \in Accounts :
        /\ rec[a].frozen <= 0 /\ rec[a].lock >= 0 /\ rec[a].buffer >= 0
        /\ rec[a].netflow < 0 => rec[a].outFlowCount # 0

(* A payer never has an active and a frozen flow to the same receiver, and *)
(* an active payer has no frozen flow: moving a flow with SetOutFlow       *)
(* overwrites nothing.                                                     *)
FlowsNotDoubled ==
    \A p \in Payers, r \in Accounts :
        /\ active[p][r] = 0 \/ frozen[p][r] = 0
        /\ rec[p].status = "active" => frozen[p][r] = 0

(* Fees never make a receiver owe: its income and its balance stay         *)
(* non-negative, so its updates neither draw on a bank account nor queue   *)
(* a settlement.                                                           *)
ReceiversNeverOwe ==
    \A r \in Receivers :
        /\ rec[r].netflow >= 0 /\ rec[r].static >= 0
        /\ rec[r].buffer = 0 /\ rec[r].settle = 0 /\ rec[r].status = "active"

(* Nobody is forgotten: an active payer that spends is queued at its       *)
(* SettleTimestamp, and a frozen payer with flows still active is queued   *)
(* for settlement or resuming.                                             *)
NobodyForgotten ==
    \A p \in Payers :
        /\ rec[p].status = "active" /\ rec[p].netflow < 0 => <<rec[p].settle, p>> \in autoSettle
        /\ rec[p].status = "frozen" /\ HasFlows(active[p]) =>
              Resuming(p) \/ \E q \in autoSettle : q[2] = p

(* Only frozen accounts resume, and each at most once at a time.           *)
ResumingIsFrozen ==
    \A q \in autoResume :
        /\ rec[q[2]].status = "frozen"
        /\ \A x \in autoResume : x[2] = q[2] => x = q

(* The balances of the records, with what has accrued since they were      *)
(* touched, and the delayed withdrawals: what the module owes.             *)
Books ==
    Sum([a \in Accounts |-> (rec[a].static + rec[a].buffer + rec[a].lock)
                              + rec[a].netflow * (now - rec[a].crud)
                              + (IF a \in Users THEN delayed[a].amount ELSE 0)], NumAccounts)

(* While every payer is active or was touched in this block's payment      *)
(* phases, no step creates or destroys money: what the module owes changes *)
(* exactly as its bank balance does.  Late settlement is covered, through  *)
(* the governance account's debt.                                          *)
BooksBalance ==
    [][(\A p \in Payers : rec[p].status = "active" \/ (rec[p].crud = now /\ phase # "storage"))
          => Books' - module' = Books - module]_vars

(* A payer is frozen only in EndBlock, when what it has left pays for no   *)
(* more than the forced settle time; a frozen payer becomes active only    *)
(* through a deposit, at once or by the resume it started.                 *)
StatusChanges ==
    [][\A p \in Payers :
        /\ rec[p].status = "active" /\ rec'[p].status = "frozen" =>
              /\ phase # "tx"
              /\ rec'[p].static = 0 /\ rec'[p].buffer = 0
              /\ rec'[p].settle <= now
        /\ rec[p].status = "frozen" /\ rec'[p].status = "active" =>
              \/ phase = "tx" /\ module' > module
              \/ phase = "resume" /\ Resuming(p)]_vars

(* A pending delayed withdrawal is never replaced: it goes, in full and to *)
(* the user who made it, after its unlock time.                            *)
DelayedIsHonoured ==
    [][\A u \in Users : delayed[u] # NoDelay /\ delayed'[u] # delayed[u] =>
          /\ now > delayed[u].unlock
          /\ delayed'[u] = NoDelay
          /\ bank'[u] = bank[u] + delayed[u].amount]_vars

(* Disabling refunds is final: from then on no step moves money of the     *)
(* payment account into the owner's hands.                                 *)
NoRefundAfterDisable ==
    [][\A a \in PaymentAccounts : account[a] = "nonRefundable" =>
          /\ account'[a] = "nonRefundable"
          /\ rec'[a] # rec[a] => /\ bank'[Owner[a]] <= bank[Owner[a]]
                                 /\ delayed'[Owner[a]] = delayed[Owner[a]]]_vars

(* Blocks go on: consensus keeps producing them, and the code runs each    *)
(* block's EndBlock to its end.  Nothing is assumed of transactions.       *)
FairSpec ==
    /\ Spec
    /\ WF_vars(EndBlock)
    /\ WF_vars(\E gap \in BlockGaps : NextBlock(gap))

(* A freeze that takes several blocks ends: the active flows of a frozen   *)
(* payer are all frozen in the end, unless the payer resumes.              *)
FreezeCompletes ==
    \A p \in Payers :
        (rec[p].status = "frozen" /\ HasFlows(active[p]))
            ~> (rec[p].status = "active" \/ ~HasFlows(active[p]) \/ Resuming(p))

(* TryResumeStreamRecord, line 368: a further deposit is refused because   *)
(* the account "status is resuming, please wait".                          *)
ResumeCompletes == \A p \in Payers : Resuming(p) ~> ~Resuming(p)

(* types.go, line 10: the governance account pays "for the potential debt  *)
(* from late forced settlement", so with its debt counted nothing the      *)
(* module owes is unbacked.                                                *)
DebtIsGovernances == Books <= module
=============================================================================
