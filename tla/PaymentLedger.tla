--------------------------- MODULE PaymentLedger ----------------------------
(***************************************************************************)
(* What the payment module keeps besides the rates: the number of flows,   *)
(* the settlement queue, the changes of an account's status, and the       *)
(* money.  The invariant LInv is kept on top of IInv, which PaymentSafety  *)
(* proves: a step here starts and ends in a state of IInv.  Deposits and   *)
(* the theorems are in PaymentBooks.                                       *)
(***************************************************************************)
EXTENDS PaymentRecords, TLAPS

(* A leaf that names no prover is for Zenon, with more time than the       *)
(* default.                                                                *)
USE ZenonT(20)

(***************************************************************************)
(* I. What one update does to the money of a record and its queueing.      *)
(***************************************************************************)

(* What a record holds, and what it is worth at time t.                    *)
Holding(s) == s.static + s.buffer + s.lock
Worth(s, t) == Holding(s) + s.netflow * (t - s.crud)

(* A record that is up to date is worth what it holds.                     *)
LEMMA WorthNow ==
    ASSUME now \in Nat, NEW s \in StreamRecord
    PROVE  /\ Holding(s) \in Int /\ Worth(s, now) \in Int
           /\ s.crud = now => Worth(s, now) = Holding(s)
<1>1. \A x, y \in Int : x * y \in Int /\ x * 0 = 0
    BY SMT
<1>2. s.netflow \in Int /\ now - s.crud \in Int /\ s.static \in Int /\ s.buffer \in Int /\ s.lock \in Int
    BY SMT DEF StreamRecord
<1>3. s.netflow * (now - s.crud) \in Int /\ (s.crud = now => s.netflow * (now - s.crud) = 0)
    BY SMT, <1>1, <1>2
<1> QED
    BY SMT, <1>2, <1>3 DEF Worth, Holding

(* Accruing brings a record up to date and leaves its worth.               *)
LEMMA AccrueWorth ==
    ASSUME now \in Nat, NEW s \in StreamRecord, s.crud <= now
    PROVE  Accrue(s).crud = now /\ Holding(Accrue(s)) = Worth(s, now)
<1>1. CASE now > s.crud
    <2>1. \A x, y \in Int : x * y \in Int
        BY SMT
    <2>2. s.netflow * (now - s.crud) \in Int
        BY SMT, <2>1 DEF StreamRecord
    <2>3. PICK k \in Int : k = s.netflow * (now - s.crud)
        BY <2>2
    <2>4. Accrue(s) = [s EXCEPT !.static = @ + k, !.crud = now]
        BY <1>1, <2>3 DEF Accrue
    <2>5. Worth(s, now) = Holding(s) + k
        BY <2>3 DEF Worth
    <2> QED
        BY SMT, <2>4, <2>5 DEF Holding, StreamRecord
<1>2. CASE ~(now > s.crud)
    <2>1. s.crud = now /\ Accrue(s) = s
        BY SMT, <1>2 DEF Accrue, StreamRecord
    <2> QED
        BY <2>1, WorthNow
<1> QED
    BY <1>1, <1>2

(* The balances part of UpdateStreamRecord adds the static change to what  *)
(* the record is worth, and nothing else.                                  *)
LEMMA SettledWorth ==
    ASSUME now \in Nat, params \in ParamSets, NEW s \in StreamRecord, s.crud <= now,
           NEW c \in ChangeRecord
    PROVE  /\ Settled(s, c).crud = now
           /\ Holding(Settled(s, c)) = Worth(s, now) + c.static
<1> DEFINE u == Accrue(s)
           v == UpdateLock(u, c.lock)
           w == UpdateRate(v, c.rate)
<1>0. c.static \in Int /\ c.rate \in Int /\ c.lock \in Int
    BY DEF ChangeRecord
<1>1. u \in StreamRecord /\ u.crud = now /\ Holding(u) = Worth(s, now)
    BY Zenon, AccrueRecord, AccrueWorth
<1> HIDE DEF u
<1>2. v \in StreamRecord /\ v.crud = now /\ Holding(v) = Holding(u)
    <2>1. v \in StreamRecord
        BY Zenon, <1>0, <1>1, UpdateLockRecord
    <2> QED
        BY SMTT(20), <1>0, <1>1, <2>1 DEF UpdateLock, StreamRecord, Holding
<1> HIDE DEF v
<1>3. w \in StreamRecord /\ w.crud = now /\ Holding(w) = Holding(v)
    <2>1. w \in StreamRecord
        BY Zenon, <1>0, <1>2, UpdateRateRecord
    <2>2. v.netflow + c.rate \in Int
        BY SMT, <1>0, <1>2 DEF StreamRecord
    <2>3. PICK k \in Nat : k = BufferFor(v.netflow + c.rate)
        BY <2>2, BufferForNat
    <2>4. w = [v EXCEPT !.netflow = v.netflow + c.rate, !.static = (@ - k) + v.buffer, !.buffer = k]
        BY <2>3 DEF UpdateRate
    <2> QED
        BY SMTT(20), <1>2, <2>1, <2>4 DEF StreamRecord, Holding
<1> HIDE DEF w
<1>4. Settled(s, c) = [w EXCEPT !.static = @ + c.static]
    BY DEF Settled, u, v, w
<1>5. Settled(s, c).crud = now /\ Holding(Settled(s, c)) = Holding(w) + c.static
    BY SMT, <1>0, <1>3, <1>4 DEF StreamRecord, Holding
<1> QED
    BY <1>1, <1>2, <1>3, <1>5

(* The transfer from the bank account adds to the worth what it takes.     *)
LEMMA BalancedWorth ==
    ASSUME now \in Nat, params \in ParamSets, NEW s \in StreamRecord, s.crud <= now,
           NEW c \in ChangeRecord, NEW b \in Nat
    PROVE  LET t == Balanced(s, c, b)
               pull == PullAmount(Settled(s, c), b) IN
           /\ t \in StreamRecord /\ t.crud = now /\ pull \in Nat /\ pull <= b
           /\ Holding(t) = Worth(s, now) + c.static + pull
<1> DEFINE u == Settled(s, c)
<1>1. u \in StreamRecord /\ u.crud = now /\ Holding(u) = Worth(s, now) + c.static
    BY Zenon, SettledRecord, SettledWorth
<1>2. Balanced(s, c, b) \in StreamRecord /\ c.static \in Int /\ Worth(s, now) \in Int
    BY BalancedRecord, WorthNow DEF ChangeRecord
<1> HIDE DEF u
<1>3. PullAmount(u, b) \in Nat /\ PullAmount(u, b) <= b
    BY <1>1, PullAmountNat
<1>4. PICK k \in Nat : k = PullAmount(u, b)
    BY <1>3
<1>5. Balanced(s, c, b) = [u EXCEPT !.static = @ + k]
    BY <1>4 DEF Balanced, Pulled, u
<1>6. Balanced(s, c, b).crud = now /\ Holding(Balanced(s, c, b)) = Holding(u) + k
    BY SMT, <1>1, <1>5 DEF StreamRecord, Holding
<1> QED
    BY <1>1, <1>2, <1>3, <1>4, <1>6 DEF u

(* What ForceSettle takes from a record and hands to governance.           *)
Forfeit(t) == IF Overdue(t) THEN t.static + t.buffer ELSE 0

(* When an account that spends is overdue and when it is to be settled.    *)
LEMMA SettleTimeFacts ==
    ASSUME now \in Nat, params \in ParamSets, NEW t \in StreamRecord
    PROVE  /\ SettleTime(t) \in Int
           /\ Overdue(t) => SettleTime(t) <= now
           /\ t.netflow < 0 /\ ~Overdue(t) => SettleTime(t) > now
<1>1. SettleTime(t) \in Int
    BY SettleTimeInt
<1>2. ASSUME t.netflow < 0
      PROVE  SettleTime(t) = (now - params.forcedSettleTime) + PayDuration(t) /\ PayDuration(t) \in Int
    <2>1. -t.netflow \in Nat \ {0} /\ t.static + t.buffer \in Int
        BY SMT, <1>2 DEF StreamRecord
    <2>2. PayDuration(t) \in Int
        BY <2>1, QuoInt DEF PayDuration
    <2> QED
        BY <1>2, <2>2 DEF SettleTime
<1> QED
    BY SMTT(20), <1>1, <1>2, ParamsType DEF Overdue

(* UpdateStreamRecord as a whole: money is neither made nor lost, but what *)
(* is forfeited; an account is frozen, with nothing left, when its settle  *)
(* time has come, and is otherwise settled later than now.                 *)
LEMMA UpdatedLedger ==
    ASSUME now \in Nat, params \in ParamSets, NEW s \in StreamRecord, s.crud <= now,
           s.status = "active", NEW c \in ChangeRecord, NEW b \in Nat
    PROVE  LET u == Updated(s, c, b)
               t == Balanced(s, c, b)
               pull == PullAmount(Settled(s, c), b) IN
           /\ u \in StreamRecord /\ u.crud = now /\ u.outFlowCount = s.outFlowCount
           /\ u.netflow = s.netflow + c.rate /\ u.settle = SettleTime(t)
           /\ pull \in Nat /\ pull <= b /\ Forfeit(t) \in Int
           /\ Holding(u) + Forfeit(t) = Worth(s, now) + c.static + pull
           /\ u.status = IF Overdue(t) THEN "frozen" ELSE "active"
           /\ Overdue(t) => u.static = 0 /\ u.buffer = 0 /\ u.settle <= now
           /\ u.netflow < 0 /\ ~Overdue(t) => u.settle > now
<1> DEFINE t == Balanced(s, c, b)
           u == Updated(s, c, b)
<1>1. /\ t \in StreamRecord /\ t.crud = now /\ t.status = "active"
      /\ t.outFlowCount = s.outFlowCount /\ t.netflow = s.netflow + c.rate
    BY Zenon, BalancedWorth, BalancedRecord
<1>2. /\ PullAmount(Settled(s, c), b) \in Nat /\ PullAmount(Settled(s, c), b) <= b
      /\ Holding(t) = Worth(s, now) + c.static + PullAmount(Settled(s, c), b)
    BY Zenon, BalancedWorth
<1>3. u = [(IF Overdue(t) THEN ForceSettled(t) ELSE t) EXCEPT !.settle = SettleTime(t)]
    BY DEF Updated
<1>4. u \in StreamRecord
    BY UpdatedRecord DEF Moves
<1> HIDE DEF t, u
<1>5. /\ SettleTime(t) \in Int
      /\ Overdue(t) => SettleTime(t) <= now
      /\ t.netflow < 0 /\ ~Overdue(t) => SettleTime(t) > now
    BY <1>1, SettleTimeFacts
<1>6. CASE Overdue(t)
    <2>1. u = [t EXCEPT !.static = 0, !.buffer = 0, !.status = "frozen", !.settle = SettleTime(t)]
        BY <1>1, <1>3, <1>6 DEF ForceSettled, StreamRecord
    <2>2. /\ u.crud = now /\ u.outFlowCount = s.outFlowCount /\ u.netflow = s.netflow + c.rate
          /\ u.settle = SettleTime(t) /\ u.status = "frozen" /\ u.static = 0 /\ u.buffer = 0
          /\ u.lock = t.lock
        BY <1>1, <2>1 DEF StreamRecord
    <2>3. Forfeit(t) \in Int /\ Holding(u) + Forfeit(t) = Holding(t)
        BY SMTT(20), <1>1, <1>6, <2>2 DEF Forfeit, Holding, StreamRecord
    <2> QED
        BY <1>2, <1>4, <1>5, <1>6, <2>2, <2>3 DEF t, u
<1>7. CASE ~Overdue(t)
    <2>1. u = [t EXCEPT !.settle = SettleTime(t)]
        BY <1>3, <1>7
    <2>2. /\ u.crud = now /\ u.outFlowCount = s.outFlowCount /\ u.netflow = s.netflow + c.rate
          /\ u.settle = SettleTime(t) /\ u.status = "active"
          /\ u.static = t.static /\ u.buffer = t.buffer /\ u.lock = t.lock
        BY <1>1, <2>1 DEF StreamRecord
    <2>3. Forfeit(t) = 0 /\ Holding(u) + Forfeit(t) = Holding(t)
        BY SMT, <1>1, <1>7, <2>2 DEF Forfeit, Holding, StreamRecord
    <2> QED
        BY SMTT(20), <1>1, <1>2, <1>4, <1>5, <1>7, <2>2, <2>3 DEF t, u
<1> QED
    BY <1>6, <1>7

(* Crediting a receiver adds the credit to its worth.                      *)
LEMMA CreditedWorth ==
    ASSUME now \in Nat, params \in ParamSets, NEW s \in StreamRecord, s.crud <= now,
           NEW d \in Int, NEW rate \in Int
    PROVE  LET t == Credited(s, d, rate) IN
           /\ t.crud = now /\ Holding(t) = Worth(s, now) + d /\ Worth(t, now) = Worth(s, now) + d
<1> DEFINE c == Change(d, rate, 0)
<1>1. c \in ChangeRecord /\ c.static = d
    BY SMT, ZeroInt, ChangeType
<1> HIDE DEF c
<1>2. /\ Settled(s, c).crud = now /\ Holding(Settled(s, c)) = Worth(s, now) + d
      /\ Settled(s, c) \in StreamRecord
    BY <1>1, SettledRecord, SettledWorth
<1> QED
    BY <1>2, WorthNow DEF Credited, c

-----------------------------------------------------------------------------
(***************************************************************************)
(* II. How the number of flows changes.                                    *)
(***************************************************************************)

(* The flows there are, with 1 for each.                                   *)
Present(f) == [r \in Accounts |-> IF f[r] # 0 THEN 1 ELSE 0]

(* The number of flows is a number, and zero when there are none.          *)
LEMMA NumFlowsNat ==
    ASSUME NEW f
    PROVE  /\ NumFlows(f) \in Nat /\ Present(f) \in [Accounts -> Int]
           /\ NumFlows(f) = 0 <=> ~HasFlows(f)
<1>1. Present(f) \in [Accounts -> Nat] /\ Present(f) \in [Accounts -> Int]
    BY SMT DEF Present
<1>2. HasFlows(Present(f)) <=> HasFlows(f)
    BY SMT DEF HasFlows, Present
<1> QED
    BY <1>1, <1>2, TotalOfFlows DEF NumFlows, Present

(* mergeOutFlows returns the change of the number of flows.                *)
LEMMA MergeCount ==
    ASSUME NEW flows \in [Accounts -> Nat], NEW b \in [Accounts -> Int]
    PROVE  /\ NumFlows(Merge(flows, b)) = NumFlows(flows) + MergeDelta(flows, b)
           /\ MergeDelta(flows, b) \in Int
<1> DEFINE delta == [r \in Accounts |-> FlowDelta(flows[r], b[r])]
<1>1. delta \in [Accounts -> Int]
    BY SMT DEF FlowDelta
<1>2. \A r \in Accounts : Present(Merge(flows, b))[r] = Present(flows)[r] + delta[r]
    BY SMT DEF Present, Merge, FlowDelta
<1> HIDE DEF delta
<1>3. Sum(Present(Merge(flows, b)), NumAccounts) = Sum(Present(flows), NumAccounts) + Sum(delta, NumAccounts)
    BY <1>1, <1>2, NumFlowsNat, TotalAdd
<1> QED
    BY <1>3, MergeDeltaInt DEF NumFlows, Present, MergeDelta, delta

(* To each account there are as many flows in f1 and g1 as in f and g.     *)
AsManyFlows(f, g, f1, g1) ==
    \A r \in Accounts : Present(f1)[r] + Present(g1)[r] = Present(f)[r] + Present(g)[r]

(* Then there are as many in all.                                          *)
LEMMA SameCount ==
    ASSUME NEW f, NEW g, NEW f1, NEW g1, AsManyFlows(f, g, f1, g1)
    PROVE  NumFlows(f1) + NumFlows(g1) = NumFlows(f) + NumFlows(g)
<1> DEFINE h == [r \in Accounts |-> Present(f)[r] + Present(g)[r]]
<1>1. /\ Present(f) \in [Accounts -> Int] /\ Present(g) \in [Accounts -> Int]
      /\ Present(f1) \in [Accounts -> Int] /\ Present(g1) \in [Accounts -> Int]
    BY NumFlowsNat
<1>2. h \in [Accounts -> Int]
    BY SMT, <1>1
<1>3. \A r \in Accounts : h[r] = Present(f)[r] + Present(g)[r] /\ h[r] = Present(f1)[r] + Present(g1)[r]
    BY DEF AsManyFlows
<1> HIDE DEF h
<1>4. Sum(h, NumAccounts) = Sum(Present(f), NumAccounts) + Sum(Present(g), NumAccounts)
    BY SMTT(20), <1>1, <1>2, <1>3, TotalAdd
<1>5. Sum(h, NumAccounts) = Sum(Present(f1), NumAccounts) + Sum(Present(g1), NumAccounts)
    BY SMTT(20), <1>1, <1>2, <1>3, TotalAdd
<1> QED
    BY <1>4, <1>5 DEF NumFlows, Present

(* How many flows a payer has.                                             *)
FlowCount(p) == NumFlows(active[p]) + NumFlows(frozen[p])

(* A payer whose rates are zero has no flows.                              *)
LEMMA NoFlowsCount ==
    ASSUME TypeOK, CoreInv, NEW p \in Payers
    PROVE  /\ FlowCount(p) \in Nat
           /\ rec[p].netflow = 0 /\ rec[p].frozen = 0 => FlowCount(p) = 0
           /\ rec[p].netflow < 0 => FlowCount(p) # 0
<1>1. /\ NumFlows(active[p]) \in Nat /\ NumFlows(frozen[p]) \in Nat
      /\ NumFlows(active[p]) = 0 <=> ~HasFlows(active[p])
      /\ NumFlows(frozen[p]) = 0 <=> ~HasFlows(frozen[p])
    BY NumFlowsNat
<1> QED
    BY SMTT(20), <1>1, PayerOwes DEF FlowCount

-----------------------------------------------------------------------------
(***************************************************************************)
(* III. The invariant, and what keeps it.                                  *)
(***************************************************************************)

(* Of a payer: its flows are counted; if it spends it has a settle time    *)
(* and, unless it is resuming or that time is 0 (which stands for "no      *)
(* record"), is queued at it; nothing is reserved while it is frozen,      *)
(* unless it is resuming.                                                  *)
PayerInv(p) ==
    /\ rec[p].outFlowCount = FlowCount(p)
    /\ rec[p].netflow < 0 =>
          /\ rec[p].status = "active" => rec[p].settle > 0
          /\ rec[p].settle # 0 /\ ~Resuming(p) => <<rec[p].settle, p>> \in autoSettle
    /\ rec[p].status = "frozen" /\ ~Resuming(p) => rec[p].buffer = 0

(* No record was touched in the future, and accounts without a record in   *)
(* the store hold nothing.                                                 *)
ClockInv == \A a \in Accounts : rec[a].crud <= now
FreshInv == \A a \in Accounts \ stored : rec[a].static = 0 /\ rec[a].buffer = 0 /\ rec[a].lock = 0

LInv == (\A p \in Payers : PayerInv(p)) /\ ClockInv /\ FreshInv

(* What a step leaves of the matters of a payer.                           *)
PayerSame(p) ==
    /\ rec'[p].outFlowCount = rec[p].outFlowCount /\ rec'[p].netflow = rec[p].netflow
    /\ rec'[p].settle = rec[p].settle /\ rec'[p].status = rec[p].status
    /\ rec'[p].buffer = rec[p].buffer
    /\ active'[p] = active[p] /\ frozen'[p] = frozen[p]
    /\ Resuming(p) => Resuming(p)'

(* A payer that a step leaves alone keeps its part of the invariant, if it *)
(* stays in the queue.                                                     *)
LEMMA PayerKept ==
    ASSUME NEW p \in Payers, PayerInv(p), PayerSame(p),
           <<rec[p].settle, p>> \in autoSettle => <<rec[p].settle, p>> \in autoSettle'
    PROVE  PayerInv(p)'
<1>1. FlowCount(p)' = FlowCount(p)
    BY DEF FlowCount, NumFlows, PayerSame
<1> QED
    BY <1>1 DEF PayerInv, PayerSame

(* Requeueing one account leaves the others in the queue.                  *)
LEMMA RequeueOthers ==
    ASSUME NEW queue, NEW p, NEW old, NEW new
    PROVE  /\ \A q, x : q # p /\ <<x, q>> \in queue => <<x, q>> \in Requeue(queue, p, old, new)
           /\ new # 0 => <<new, p>> \in Requeue(queue, p, old, new)
BY DEF Requeue

(* The invariant from its parts.                                           *)
LEMMA LedgerKept ==
    ASSUME TypeOK, TypeOK', LInv, now' >= now, stored \subseteq stored',
           \A p \in Payers : PayerInv(p)',
           \A a \in Accounts : rec'[a] = rec[a] \/ (a \in stored' /\ rec'[a].crud <= now')
    PROVE  LInv'
<1>1. ClockInv'
    <2> SUFFICES ASSUME NEW a \in Accounts
                 PROVE  rec'[a].crud <= now'
        BY DEF ClockInv
    <2>1. rec[a].crud <= now /\ now \in Nat /\ now' \in Nat /\ rec[a].crud \in Int
        BY DEF LInv, ClockInv, TypeOK, StreamRecord
    <2> QED
        BY SMT, <2>1
<1>2. FreshInv'
    BY DEF LInv, FreshInv
<1> QED
    BY <1>1, <1>2 DEF LInv

(* A step that touches no record, no flow and no queue.                    *)
LEMMA UntouchedLedger ==
    ASSUME TypeOK, TypeOK', LInv, now' >= now,
           UNCHANGED <<stored, rec, active, frozen, autoSettle, autoResume>>
    PROVE  LInv'
<1>1. ASSUME NEW p \in Payers
      PROVE  PayerInv(p)'
    <2>1. PayerInv(p)
        BY DEF LInv
    <2> QED
        BY Zenon, <2>1, PayerKept DEF PayerSame, Resuming
<1> QED
    BY <1>1, LedgerKept

-----------------------------------------------------------------------------
(***************************************************************************)
(* IV. The books.                                                          *)
(***************************************************************************)

(* What the module owes to an account.                                     *)
Stake(a) == Worth(rec[a], now) + (IF a \in Users THEN delayed[a].amount ELSE 0)

(* Stakes are numbers, and the books are their sum.                        *)
LEMMA StakeInt ==
    ASSUME TypeOK
    PROVE  /\ \A a \in Accounts : Stake(a) \in Int
           /\ [a \in Accounts |-> Stake(a)] \in [Accounts -> Int]
           /\ Books = Sum([a \in Accounts |-> Stake(a)], NumAccounts)
<1>1. ASSUME NEW a \in Accounts
      PROVE  Stake(a) \in Int
    <2>1. Worth(rec[a], now) \in Int
        BY WorthNow DEF TypeOK
    <2>2. a \in Users => delayed[a].amount \in Int
        BY SMT DEF TypeOK
    <2> QED
        BY SMTT(20), <2>1, <2>2 DEF Stake
<1>2. Books = Sum([a \in Accounts |-> Stake(a)], NumAccounts)
    BY DEF Books, Stake, Worth, Holding
<1> QED
    BY <1>1, <1>2

(* The same in the next state.                                             *)
LEMMA StakeIntNext ==
    ASSUME TypeOK'
    PROVE  /\ \A a \in Accounts : Stake(a)' \in Int
           /\ [a \in Accounts |-> Stake(a)'] \in [Accounts -> Int]
           /\ Books' = Sum([a \in Accounts |-> Stake(a)'], NumAccounts)
<1>1. ASSUME NEW a \in Accounts
      PROVE  Stake(a)' \in Int
    <2>0. rec'[a] \in StreamRecord /\ now' \in Nat
        BY DEF TypeOK
    <2>1. Worth(rec'[a], now') \in Int
        <3>1. \A x, y \in Int : x * y \in Int
            BY SMT
        <3>2. rec'[a].netflow * (now' - rec'[a].crud) \in Int
            BY SMTT(20), <2>0, <3>1 DEF StreamRecord
        <3> QED
            BY SMT, <2>0, <3>2 DEF Worth, Holding, StreamRecord
    <2>2. a \in Users => delayed'[a].amount \in Int
        BY SMT DEF TypeOK
    <2> QED
        BY SMTT(20), <2>1, <2>2 DEF Stake
<1>2. Books' = Sum([a \in Accounts |-> Stake(a)'], NumAccounts)
    BY DEF Books, Stake, Worth, Holding
<1> QED
    BY <1>1, <1>2

(* A change v at account x, in a column of the books.                      *)
At(x, v) == [a \in Accounts |-> IF a = x THEN v ELSE 0]

(* The sum of a column with one entry.                                     *)
LEMMA AtSum ==
    ASSUME NEW x \in Accounts, NEW v \in Int
    PROVE  At(x, v) \in [Accounts -> Int] /\ Sum(At(x, v), NumAccounts) = v
<1>1. At(x, v) \in [Accounts -> Int] /\ NoRates \in [Accounts -> Int]
    BY SMT DEF At, NoRates
<1>2. \A a \in Accounts : a # x => At(x, v)[a] = NoRates[a]
    BY DEF At, NoRates
<1>3. Sum(At(x, v), NumAccounts) = Sum(NoRates, NumAccounts) + (At(x, v)[x] - NoRates[x])
    BY <1>1, <1>2, TotalUpdate
<1> QED
    BY SMTT(20), <1>1, <1>3, NoRatesSum DEF At, NoRates

(* A step changes what accounts x, y and z are owed by u, v and w.          *)
StakesMove(x, u, y, v, z, w) ==
    \A a \in Accounts : Stake(a)' = ((Stake(a) + At(x, u)[a]) + At(y, v)[a]) + At(z, w)[a]

(* A step that changes what three accounts are owed changes the books by   *)
(* the sum of the changes (the accounts need not be different).            *)
LEMMA BooksChange ==
    ASSUME TypeOK, TypeOK',
           NEW x \in Accounts, NEW y \in Accounts, NEW z \in Accounts,
           NEW u \in Int, NEW v \in Int, NEW w \in Int, StakesMove(x, u, y, v, z, w)
    PROVE  Books \in Int /\ Books' = Books + ((u + v) + w)
<1> DEFINE U == At(x, u)
           V == At(y, v)
           W == At(z, w)
           f == [a \in Accounts |-> Stake(a)]
           g == [a \in Accounts |-> f[a] + U[a]]
           h == [a \in Accounts |-> g[a] + V[a]]
           k == [a \in Accounts |-> Stake(a)']
<1>1. /\ U \in [Accounts -> Int] /\ Sum(U, NumAccounts) = u
      /\ V \in [Accounts -> Int] /\ Sum(V, NumAccounts) = v
      /\ W \in [Accounts -> Int] /\ Sum(W, NumAccounts) = w
    BY Zenon, AtSum
<1>2. f \in [Accounts -> Int] /\ Books = Sum(f, NumAccounts)
    BY StakeInt
<1>3. k \in [Accounts -> Int] /\ Books' = Sum(k, NumAccounts)
    BY StakeIntNext
<1>6. \A a \in Accounts : k[a] = h[a] + W[a]
    BY Zenon DEF StakesMove
<1> HIDE DEF U, V, W, f
<1>4. g \in [Accounts -> Int] /\ \A a \in Accounts : g[a] = f[a] + U[a]
    BY SMT, <1>1, <1>2
<1> HIDE DEF g
<1>5. h \in [Accounts -> Int] /\ \A a \in Accounts : h[a] = g[a] + V[a]
    BY SMT, <1>1, <1>4
<1> HIDE DEF h, k
<1>7. Sum(g, NumAccounts) = Sum(f, NumAccounts) + Sum(U, NumAccounts)
    BY <1>1, <1>2, <1>4, TotalAdd
<1>8. Sum(h, NumAccounts) = Sum(g, NumAccounts) + Sum(V, NumAccounts)
    BY <1>1, <1>4, <1>5, TotalAdd
<1>9. Sum(k, NumAccounts) = Sum(h, NumAccounts) + Sum(W, NumAccounts)
    BY <1>1, <1>3, <1>5, <1>6, TotalAdd
<1>10. Sum(f, NumAccounts) \in Int
    BY <1>2, TotalInt
<1> QED
    BY SMTT(20), <1>1, <1>2, <1>3, <1>7, <1>8, <1>9, <1>10

(* A record to update in place of the one of payer p: that record, or the  *)
(* one AutoResume has just made active.                                    *)
StandsFor(s, p) ==
    /\ s \in StreamRecord /\ s.status = "active" /\ s.crud = rec[p].crud
    /\ s.outFlowCount = rec[p].outFlowCount /\ Worth(s, now) = Worth(rec[p], now)

(* A step that updates payer p by change c, with bank balance b, hands     *)
(* what p forfeits to governance, and credits receiver r with an amount.   *)
UpdateStep(p, s, c, b, delta, r, amount) ==
    /\ rec'[p] = [Updated(s, c, b) EXCEPT !.outFlowCount = @ + delta]
    /\ rec'[Gov] = GovAfter(Balanced(s, c, b))
    /\ \A a \in Receivers :
          \/ rec'[a] = rec[a] /\ At(r, amount)[a] = 0
          \/ \E rate \in Int : rec'[a] = Credited(rec[a], At(r, amount)[a], rate)
    /\ \A q \in Payers : q # p =>
          /\ rec'[q] = rec[q] /\ active'[q] = active[q] /\ frozen'[q] = frozen[q]
          /\ Resuming(q) => Resuming(q)'
    /\ FlowCount(p)' = rec[p].outFlowCount + delta
    /\ autoSettle' = Requeue(autoSettle, p, s.settle, Updated(s, c, b).settle)
    /\ stored \subseteq stored' /\ \A a \in Accounts \ stored' : rec'[a] = rec[a]
    /\ now' = now

(* What such an update adds to the worth of the payer and of governance.    *)
PayerGain(s, c, b) == (c.static + PullAmount(Settled(s, c), b)) - Forfeit(Balanced(s, c, b))
GovGain(s, c, b) == Forfeit(Balanced(s, c, b)) + GovPull(Balanced(s, c, b))

-----------------------------------------------------------------------------
(***************************************************************************)
(* V. The steps that update one payer.                                     *)
(***************************************************************************)

(* What StatusChanges and BooksBalance ask of a step.                      *)
StatusStep ==
    \A p \in Payers :
        /\ rec[p].status = "active" /\ rec'[p].status = "frozen" =>
              /\ phase # "tx"
              /\ rec'[p].static = 0 /\ rec'[p].buffer = 0
              /\ rec'[p].settle <= now
        /\ rec[p].status = "frozen" /\ rec'[p].status = "active" =>
              \/ phase = "tx" /\ module' > module
              \/ phase = "resume" /\ Resuming(p)

BooksKept == Books' - module' = Books - module

BooksStep ==
    (\A p \in Payers : rec[p].status = "active" \/ (rec[p].crud = now /\ phase # "storage")) => BooksKept

(* A step as it should be.                                                 *)
SoundStep == LInv' /\ StatusStep /\ BooksStep

(* A step that changes the status of no payer.                             *)
LEMMA SameStatus ==
    ASSUME \A p \in Payers : rec'[p].status = rec[p].status
    PROVE  StatusStep
<1> SUFFICES ASSUME NEW p \in Payers
             PROVE  /\ ~(rec[p].status = "active" /\ rec'[p].status = "frozen")
                    /\ ~(rec[p].status = "frozen" /\ rec'[p].status = "active")
    BY Zenon DEF StatusStep
<1>1. rec'[p].status = rec[p].status
    OBVIOUS
<1> QED
    BY <1>1

(* What an update of p moves: its own gain and the governance account's    *)
(* add up to the change and what was pulled, and r receives amount.        *)
WorthMoves(p, s, c, b, r, amount) ==
    /\ PayerGain(s, c, b) \in Int /\ GovGain(s, c, b) \in Int
    /\ PayerGain(s, c, b) + GovGain(s, c, b) = (c.static + PullAmount(Settled(s, c), b)) + GovPull(Balanced(s, c, b))
    /\ PullAmount(Settled(s, c), b) \in Nat /\ GovPull(Balanced(s, c, b)) \in Nat
    /\ \A a \in Accounts :
          Worth(rec'[a], now) =
             ((Worth(rec[a], now) + At(p, PayerGain(s, c, b))[a]) + At(Gov, GovGain(s, c, b))[a]) + At(r, amount)[a]

(* What the update of a payer does: the invariant stays, statuses change   *)
(* as they should, and the worth of every account is known.                *)
LEMMA UpdateStepFacts ==
    ASSUME TypeOK, TypeOK', CoreInv, LInv, NEW p \in Payers, NEW s, StandsFor(s, p), NEW c \in ChangeRecord,
           NEW b \in Nat, NEW delta \in Int, NEW r \in Accounts, NEW amount \in Int,
           amount # 0 => r \in Receivers, UpdateStep(p, s, c, b, delta, r, amount),
           phase = "tx" => ~Overdue(Balanced(s, c, b)),
           rec[p].status = "active" \/ (phase = "resume" /\ Resuming(p))
    PROVE  LInv' /\ StatusStep /\ WorthMoves(p, s, c, b, r, amount)
(* The payer's own record.                                                 *)
<1>PayerUpdated. PayerInv(p)' /\ rec'[p].crud = now
    <2>0. /\ now \in Nat /\ params \in ParamSets /\ s \in StreamRecord /\ s.crud <= now /\ s.status = "active"
          /\ s.outFlowCount + delta = FlowCount(p)'
          /\ rec'[p] = [Updated(s, c, b) EXCEPT !.outFlowCount = @ + delta]
          /\ autoSettle' = Requeue(autoSettle, p, s.settle, Updated(s, c, b).settle)
        BY AccountFacts DEF TypeOK, LInv, ClockInv, StandsFor, UpdateStep
    <2> DEFINE u == Updated(s, c, b)
               t == Balanced(s, c, b)
    <2>1. /\ u \in StreamRecord /\ u.crud = now /\ u.outFlowCount = s.outFlowCount
          /\ u.status = IF Overdue(t) THEN "frozen" ELSE "active"
          /\ Overdue(t) => u.buffer = 0
          /\ u.netflow < 0 /\ ~Overdue(t) => u.settle > now
        BY ZenonT(40), <2>0, UpdatedLedger
    <2> HIDE DEF u, t
    <2>2. /\ rec'[p].crud = u.crud /\ rec'[p].netflow = u.netflow /\ rec'[p].settle = u.settle
          /\ rec'[p].status = u.status /\ rec'[p].buffer = u.buffer
          /\ rec'[p].outFlowCount = u.outFlowCount + delta
        BY <2>0, <2>1 DEF u, StreamRecord
    <2>3. u.settle # 0 => <<u.settle, p>> \in autoSettle'
        BY <2>0, RequeueOthers DEF u
    <2>4. u.settle \in Int /\ (u.netflow < 0 /\ u.status = "active" => u.settle > 0)
        BY SMT, <2>0, <2>1 DEF StreamRecord
    <2> QED
        BY <2>0, <2>1, <2>2, <2>3, <2>4 DEF PayerInv
(* Governance gets what ForceSettle takes, and what its own bank account   *)
(* is asked for.                                                           *)
<1>GovWorth.
      ASSUME NEW t \in StreamRecord, ClockInv
      PROVE  /\ GovAfter(t) \in StreamRecord /\ GovAfter(t).crud <= now
             /\ GovPull(t) \in Nat /\ GovPull(t) <= bank[Gov] /\ Forfeit(t) \in Int
             /\ Worth(GovAfter(t), now) = Worth(rec[Gov], now) + (Forfeit(t) + GovPull(t))
             /\ ~Overdue(t) => GovAfter(t) = rec[Gov] /\ GovPull(t) = 0 /\ Forfeit(t) = 0
    <2> USE <1>GovWorth
    <2>1. /\ now \in Nat /\ params \in ParamSets /\ rec[Gov] \in StreamRecord /\ bank[Gov] \in Nat
          /\ rec[Gov].crud <= now
        BY AccountFacts DEF TypeOK, ClockInv
    <2>2. Worth(rec[Gov], now) \in Int
        BY <2>1, WorthNow
    <2>3. CASE Overdue(t)
        <3> DEFINE e == GovChange(t)
                   u == Balanced(rec[Gov], e, bank[Gov])
        <3>1. t.static + t.buffer \in Int
            BY SMTT(20) DEF StreamRecord
        <3>2. e \in ChangeRecord /\ e.static = t.static + t.buffer
            BY SMTT(20), <3>1, ZeroInt, ChangeType DEF GovChange
        <3> HIDE DEF e
        <3>3. /\ u \in StreamRecord /\ u.crud = now /\ PullAmount(Settled(rec[Gov], e), bank[Gov]) \in Nat
              /\ PullAmount(Settled(rec[Gov], e), bank[Gov]) <= bank[Gov]
              /\ Holding(u) = Worth(rec[Gov], now) + e.static + PullAmount(Settled(rec[Gov], e), bank[Gov])
            BY Zenon, <2>1, <3>2, BalancedWorth
        <3>4. GovAfter(t) = u /\ GovPull(t) = PullAmount(Settled(rec[Gov], e), bank[Gov])
            BY <2>3 DEF GovAfter, GovPull, e
        <3> HIDE DEF u
        <3>5. Worth(u, now) = Holding(u)
            BY <2>1, <3>3, WorthNow
        <3>6. Forfeit(t) = t.static + t.buffer
            BY <2>3 DEF Forfeit
        <3> QED
            BY SMTT(20), <2>1, <2>2, <2>3, <3>1, <3>2, <3>3, <3>4, <3>5, <3>6
    <2>4. CASE ~Overdue(t)
        <3>1. GovAfter(t) = rec[Gov] /\ GovPull(t) = 0 /\ Forfeit(t) = 0
            BY <2>4 DEF GovAfter, GovPull, Forfeit
        <3> QED
            BY SMTT(20), <2>1, <2>2, <3>1
    <2> QED
        BY <2>3, <2>4
(* Such a step keeps the invariant.                                        *)
<1>UpdateStepKeeps. LInv'
    <2>1. /\ now \in Nat /\ params \in ParamSets /\ ClockInv /\ rec[p].crud <= now
          /\ s \in StreamRecord /\ s.crud <= now /\ s.status = "active"
          /\ s.outFlowCount + delta = FlowCount(p)'
        BY AccountFacts DEF TypeOK, LInv, ClockInv, StandsFor, UpdateStep
    <2>2. PayerInv(p)' /\ rec'[p].crud = now
        BY <1>PayerUpdated
    <2>3. ASSUME NEW q \in Payers, q # p
          PROVE  PayerInv(q)'
        <3>1. PayerSame(q)
            BY <2>3 DEF UpdateStep, PayerSame
        <3>2. <<rec[q].settle, q>> \in autoSettle => <<rec[q].settle, q>> \in autoSettle'
            BY Zenon, <2>3, RequeueOthers DEF UpdateStep
        <3>3. PayerInv(q)
            BY DEF LInv
        <3> QED
            BY Zenon, <3>1, <3>2, <3>3, PayerKept
    <2>4. ASSUME NEW a \in Receivers
          PROVE  rec'[a] = rec[a] \/ rec'[a].crud = now
        <3>1. rec[a] \in StreamRecord /\ rec[a].crud <= now /\ At(r, amount)[a] \in Int
            BY SMTT(20), <2>1, AccountFacts DEF TypeOK, ClockInv, At
        <3> QED
            BY SMTT(20), <2>1, <3>1, CreditedWorth DEF UpdateStep
    <2>5. rec'[Gov].crud <= now
        <3>1. Balanced(s, c, b) \in StreamRecord
            BY Zenon, <2>1, BalancedRecord
        <3> QED
            BY <2>1, <3>1, <1>GovWorth DEF UpdateStep
    <2>6. \A a \in Accounts : rec'[a] = rec[a] \/ (a \in stored' /\ rec'[a].crud <= now')
        <3>1. \A a \in Accounts : a \in Payers \/ a \in Receivers \/ a = Gov
            BY AccountsAssumption
        <3>2. now <= now /\ \A q \in Payers : q # p => rec'[q] = rec[q]
            BY SMTT(20), <2>1 DEF UpdateStep
        <3>3. \A a \in Accounts : rec'[a] = rec[a] \/ rec'[a].crud <= now
            BY Zenon, <2>2, <2>4, <2>5, <3>1, <3>2
        <3> QED
            BY <3>3 DEF UpdateStep
    <2>7. \A q \in Payers : PayerInv(q)'
        BY <2>2, <2>3
    <2>8. now' >= now /\ stored \subseteq stored'
        BY SMTT(20), <2>1 DEF UpdateStep
    <2> QED
        BY <2>6, <2>7, <2>8, LedgerKept
(* The statuses after the update of a payer.                               *)
<1>UpdateStepStatus. StatusStep
    <2> DEFINE t == Balanced(s, c, b)
               u == Updated(s, c, b)
    <2>1. /\ now \in Nat /\ params \in ParamSets /\ s \in StreamRecord /\ s.crud <= now /\ s.status = "active"
        BY AccountFacts DEF TypeOK, LInv, ClockInv, StandsFor
    <2>2. /\ u \in StreamRecord /\ u.status = IF Overdue(t) THEN "frozen" ELSE "active"
          /\ Overdue(t) => u.static = 0 /\ u.buffer = 0 /\ u.settle <= now
        BY Zenon, <2>1, UpdatedLedger
    <2>3. rec'[p] = [u EXCEPT !.outFlowCount = @ + delta] /\ \A q \in Payers : q # p => rec'[q] = rec[q]
        BY DEF UpdateStep
    <2> HIDE DEF u, t
    <2>4. rec'[p].status = u.status /\ rec'[p].static = u.static /\ rec'[p].buffer = u.buffer /\ rec'[p].settle = u.settle
        BY <2>2, <2>3 DEF StreamRecord
    <2> SUFFICES ASSUME NEW q \in Payers
                 PROVE  /\ rec[q].status = "active" /\ rec'[q].status = "frozen" =>
                              /\ phase # "tx"
                              /\ rec'[q].static = 0 /\ rec'[q].buffer = 0
                              /\ rec'[q].settle <= now
                        /\ rec[q].status = "frozen" /\ rec'[q].status = "active" =>
                              \/ phase = "tx" /\ module' > module
                              \/ phase = "resume" /\ Resuming(q)
        BY Zenon DEF StatusStep
    <2>5. CASE q = p
        <3>1. rec'[p].status = "frozen" => Overdue(t)
            BY <2>2, <2>4
        <3> QED
            BY <2>2, <2>4, <2>5, <3>1 DEF t
    <2>6. CASE q # p
        BY <2>3, <2>6
    <2> QED
        BY <2>5, <2>6
(* What such a step does to the worth of every account.                    *)
<1>UpdateStepWorth.
      /\ PayerGain(s, c, b) \in Int /\ GovGain(s, c, b) \in Int
      /\ PayerGain(s, c, b) + GovGain(s, c, b) = (c.static + PullAmount(Settled(s, c), b)) + GovPull(Balanced(s, c, b))
      /\ PullAmount(Settled(s, c), b) \in Nat /\ GovPull(Balanced(s, c, b)) \in Nat
      /\ \A a \in Accounts :
            Worth(rec'[a], now) =
               ((Worth(rec[a], now) + At(p, PayerGain(s, c, b))[a]) + At(Gov, GovGain(s, c, b))[a]) + At(r, amount)[a]
    <2> DEFINE t == Balanced(s, c, b)
               pull == PullAmount(Settled(s, c), b)
               own == (c.static + pull) - Forfeit(t)
               gov == Forfeit(t) + GovPull(t)
               u == Updated(s, c, b)
    <2>1. /\ now \in Nat /\ params \in ParamSets /\ ClockInv /\ rec[p].crud <= now
          /\ s \in StreamRecord /\ s.crud <= now /\ s.status = "active" /\ c.static \in Int
        BY AccountFacts DEF TypeOK, LInv, ClockInv, StandsFor, ChangeRecord
    <2>2. /\ u \in StreamRecord /\ u.crud = now /\ pull \in Nat /\ Forfeit(t) \in Int
          /\ Holding(u) + Forfeit(t) = Worth(s, now) + c.static + pull
        BY Zenon, <2>1, UpdatedLedger
    <2>3. t \in StreamRecord
        BY Zenon, <2>1, BalancedRecord
    <2> HIDE DEF t, pull
    <2>4. GovPull(t) \in Nat /\ Worth(GovAfter(t), now) = Worth(rec[Gov], now) + gov
        BY <2>1, <2>3, <1>GovWorth
    <2>5. own \in Int /\ gov \in Int
        BY SMTT(20), <2>1, <2>2, <2>4
    <2>6. /\ \A a \in Accounts : Worth(rec[a], now) \in Int /\ rec[a] \in StreamRecord /\ rec[a].crud <= now
          /\ p \in Accounts /\ Gov \in Accounts /\ p # Gov /\ p \notin Receivers /\ Gov \notin Receivers
          /\ amount = 0 \/ (r # p /\ r # Gov)
          /\ \A a \in Accounts : a \in Payers \/ a \in Receivers \/ a = Gov
          /\ \A a \in Payers : a \notin Receivers /\ a # Gov
        BY <2>1, WorthNow, AccountFacts, AccountsAssumption DEF TypeOK, ClockInv
    <2>7. Worth(rec'[p], now) = Worth(rec[p], now) + own
        <3>1. rec'[p] = [u EXCEPT !.outFlowCount = @ + delta] /\ Worth(s, now) = Worth(rec[p], now)
            BY DEF UpdateStep, StandsFor
        <3> HIDE DEF u
        <3>2. rec'[p].crud = now /\ Holding(rec'[p]) = Holding(u) /\ rec'[p] \in StreamRecord
            BY Zenon, <2>2, <2>6, <3>1 DEF Holding, StreamRecord, TypeOK
        <3>3. Worth(rec'[p], now) = Holding(u) /\ Holding(u) \in Int
            BY <2>1, <2>2, <3>2, WorthNow
        <3>4. Worth(rec[p], now) \in Int
            BY <2>6
        <3> HIDE DEF t, pull
        <3> QED
            BY SMTT(20), <2>1, <2>2, <3>1, <3>3, <3>4
    <2>8. Worth(rec'[Gov], now) = Worth(rec[Gov], now) + gov
        <3>1. rec'[Gov] = GovAfter(t)
            BY DEF UpdateStep, t
        <3> QED
            BY <2>4, <3>1
    <2>9. ASSUME NEW a \in Receivers
          PROVE  Worth(rec'[a], now) = Worth(rec[a], now) + At(r, amount)[a]
        <3>1. At(r, amount)[a] \in Int /\ a \in Accounts
            BY SMTT(20), AccountFacts DEF At
        <3>2. CASE rec'[a] = rec[a] /\ At(r, amount)[a] = 0
            BY SMTT(20), <2>6, <3>1, <3>2
        <3>3. CASE \E rate \in Int : rec'[a] = Credited(rec[a], At(r, amount)[a], rate)
            BY SMTT(20), <2>1, <2>6, <3>1, <3>3, CreditedWorth
        <3> QED
            BY <3>2, <3>3 DEF UpdateStep
    <2>10. \A q \in Payers : q # p => rec'[q] = rec[q]
        BY DEF UpdateStep
    <2> HIDE DEF own, gov
    <2>11. ASSUME NEW a \in Accounts
           PROVE  Worth(rec'[a], now) = ((Worth(rec[a], now) + At(p, own)[a]) + At(Gov, gov)[a]) + At(r, amount)[a]
        <3>1. /\ At(p, own)[a] = IF a = p THEN own ELSE 0
              /\ At(Gov, gov)[a] = IF a = Gov THEN gov ELSE 0
              /\ At(r, amount)[a] = IF a = r THEN amount ELSE 0
            BY DEF At
        <3>2. CASE a = p
            BY SMTT(20), <2>5, <2>6, <2>7, <3>1, <3>2
        <3>3. CASE a = Gov
            BY SMTT(20), <2>5, <2>6, <2>8, <3>1, <3>3
        <3>4. CASE a \in Receivers
            <4>1. At(p, own)[a] = 0 /\ At(Gov, gov)[a] = 0 /\ At(r, amount)[a] \in Int
                BY SMTT(20), <2>6, <3>1, <3>4
            <4> QED
                BY SMTT(20), <2>6, <2>9, <3>4, <4>1
        <3>5. CASE a \in Payers /\ a # p
            <4>1. At(p, own)[a] = 0 /\ At(Gov, gov)[a] = 0 /\ At(r, amount)[a] = 0
                BY <2>6, <3>1, <3>5
            <4> QED
                BY SMTT(20), <2>6, <2>10, <3>5, <4>1
        <3> QED
            BY <2>6, <3>2, <3>3, <3>4, <3>5
    <2>12. own + gov = (c.static + pull) + GovPull(t)
        BY SMTT(20), <2>1, <2>2, <2>4 DEF own, gov
    <2>13. own = PayerGain(s, c, b) /\ gov = GovGain(s, c, b)
        BY DEF own, gov, pull, t, PayerGain, GovGain
    <2> QED
        BY Zenon, <2>2, <2>4, <2>5, <2>11, <2>12, <2>13 DEF pull, t
<1> QED
    BY <1>UpdateStepKeeps, <1>UpdateStepStatus, <1>UpdateStepWorth DEF WorthMoves

(* The update of a payer that leaves the delayed withdrawals alone.        *)
LEMMA UpdateStepSound ==
    ASSUME TypeOK, TypeOK', CoreInv, LInv, NEW p \in Payers, NEW s, StandsFor(s, p), NEW c \in ChangeRecord,
           NEW b \in Nat, NEW delta \in Int, NEW r \in Accounts, NEW amount \in Int,
           amount # 0 => r \in Receivers, UpdateStep(p, s, c, b, delta, r, amount), delayed' = delayed,
           module' = ((module + PullAmount(Settled(s, c), b)) + GovPull(Balanced(s, c, b))) + (c.static + amount),
           phase = "tx" => ~Overdue(Balanced(s, c, b)),
           rec[p].status = "active" \/ (phase = "resume" /\ Resuming(p))
    PROVE  SoundStep
<1>1. LInv' /\ StatusStep
    BY Zenon, UpdateStepFacts
(* The books follow the bank account of the module.                        *)
<1>2. Books' - module' = Books - module
    <2> DEFINE pull == PullAmount(Settled(s, c), b)
               share == GovPull(Balanced(s, c, b))
               own == PayerGain(s, c, b)
               gov == GovGain(s, c, b)
    <2>1. /\ c.static \in Int /\ module \in Int /\ p \in Accounts /\ Gov \in Accounts /\ now' = now /\ now \in Nat
        BY AccountFacts DEF TypeOK, ChangeRecord, UpdateStep
    <2>2. /\ own \in Int /\ gov \in Int /\ own + gov = (c.static + pull) + share /\ pull \in Nat /\ share \in Nat
          /\ \A a \in Accounts :
                Worth(rec'[a], now) = ((Worth(rec[a], now) + At(p, own)[a]) + At(Gov, gov)[a]) + At(r, amount)[a]
        <3>1. WorthMoves(p, s, c, b, r, amount)
            BY UpdateStepFacts
        <3> QED
            BY <3>1 DEF WorthMoves
    <2>3. module' = ((module + pull) + share) + (c.static + amount)
        OBVIOUS
    <2> HIDE DEF own, gov, pull, share
    <2>4. ASSUME NEW a \in Accounts
          PROVE  Stake(a)' = ((Stake(a) + At(p, own)[a]) + At(Gov, gov)[a]) + At(r, amount)[a]
        <3>1. /\ At(p, own)[a] \in Int /\ At(Gov, gov)[a] \in Int /\ At(r, amount)[a] \in Int
              /\ Worth(rec[a], now) \in Int /\ (a \in Users => delayed[a].amount \in Int)
            BY SMTT(20), <2>1, <2>2, WorthNow DEF At, TypeOK
        <3>2. /\ Stake(a)' = Worth(rec'[a], now) + (IF a \in Users THEN delayed[a].amount ELSE 0)
              /\ Stake(a) = Worth(rec[a], now) + (IF a \in Users THEN delayed[a].amount ELSE 0)
            BY <2>1 DEF Stake
        <3>3. Worth(rec'[a], now) = ((Worth(rec[a], now) + At(p, own)[a]) + At(Gov, gov)[a]) + At(r, amount)[a]
            BY <2>2
        <3> QED
            BY SMTT(20), <3>1, <3>2, <3>3
    <2>5. Books \in Int /\ Books' = Books + ((own + gov) + amount)
        <3>1. p \in Accounts /\ Gov \in Accounts /\ own \in Int /\ gov \in Int
            BY <2>1, <2>2
        <3>2. StakesMove(p, own, Gov, gov, r, amount)
            BY Zenon, <2>4 DEF StakesMove
        <3> QED
            BY SMTT(20), <3>1, <3>2, BooksChange
    <2>6. own \in Int /\ gov \in Int /\ own + gov = (c.static + pull) + share /\ pull \in Nat /\ share \in Nat
        BY <2>2
    <2>7. c.static \in Int /\ module \in Int /\ amount \in Int
        BY <2>1
    <2> QED
        BY SMTT(20), <2>3, <2>5, <2>6, <2>7
<1> QED
    BY <1>1, <1>2 DEF SoundStep, BooksStep, BooksKept

(* A payer's own record, when it is active.                                *)
LEMMA OwnRecord ==
    ASSUME TypeOK, NEW p \in Payers, rec[p].status = "active"
    PROVE  StandsFor(rec[p], p)
BY AccountFacts DEF TypeOK, StandsFor

(* Adding nothing to the number of flows.                                  *)
LEMMA CountNothing ==
    ASSUME NEW s \in StreamRecord
    PROVE  [s EXCEPT !.outFlowCount = @ + 0] = s
<1>1. s.outFlowCount \in Int
    BY DEF StreamRecord
<1>2. s.outFlowCount + 0 = s.outFlowCount
    BY SMT, <1>1
<1>3. [s EXCEPT !.outFlowCount = s.outFlowCount] = s
    BY DEF StreamRecord
<1> QED
    BY Zenon, <1>2, <1>3

(* Flows that stay as they are are as many as before.                      *)
LEMMA FlowCountSame ==
    ASSUME TypeOK, LInv, NEW p \in Payers, active'[p] = active[p], frozen'[p] = frozen[p]
    PROVE  FlowCount(p)' = rec[p].outFlowCount + 0
<1>1. rec[p].outFlowCount \in Int /\ rec[p].outFlowCount = FlowCount(p)
    BY Zenon, AccountFacts DEF TypeOK, StreamRecord, LInv, PayerInv
<1>2. FlowCount(p)' = FlowCount(p)
    BY DEF FlowCount, NumFlows
<1> QED
    BY SMTT(20), <1>1, <1>2

(* An update of one payer in a transaction that changes no rate.           *)
LEMMA TxForm ==
    ASSUME TypeOK, CoreInv, LInv, NEW p \in Payers, NEW c \in ChangeRecord, NEW b \in Nat,
           CanUpdate(rec[p], c, b), rec' = [rec EXCEPT ![p] = Updated(@, c, b)],
           autoSettle' = Requeue(autoSettle, p, rec[p].settle, Updated(rec[p], c, b).settle),
           UNCHANGED <<active, frozen, autoResume, now>>, stored \subseteq stored', p \in stored'
    PROVE  /\ rec[p].status = "active" /\ StandsFor(rec[p], p)
           /\ UpdateStep(p, rec[p], c, b, 0, Gov, 0)
           /\ ~Overdue(Balanced(rec[p], c, b)) /\ GovPull(Balanced(rec[p], c, b)) = 0
<1> DEFINE u == Updated(rec[p], c, b)
           t == Balanced(rec[p], c, b)
<1>1. rec[p].status = "active" /\ ~Overdue(t)
    BY DEF CanUpdate
<1>2. StandsFor(rec[p], p)
    BY <1>1, OwnRecord
<1>3. GovAfter(t) = rec[Gov] /\ GovPull(t) = 0
    BY <1>1 DEF GovAfter, GovPull
<1>4. /\ p \in Accounts /\ Gov \in Accounts /\ p # Gov /\ rec[p] \in StreamRecord /\ rec \in [Accounts -> StreamRecord]
      /\ now \in Nat /\ params \in ParamSets /\ p \notin Receivers
    BY AccountFacts DEF TypeOK
<1>5. u \in StreamRecord
    BY <1>4, UpdatedRecord DEF Moves
<1>6. u = [u EXCEPT !.outFlowCount = @ + 0]
    BY Zenon, <1>5, CountNothing
<1>7. FlowCount(p)' = rec[p].outFlowCount + 0
    BY FlowCountSame
<1>8. rec' = [rec EXCEPT ![p] = u]
    OBVIOUS
<1> HIDE DEF u, t
<1>9. rec'[p] = u /\ \A a \in Accounts : a # p => rec'[a] = rec[a]
    BY <1>4, <1>8
<1>10. /\ \A q \in Payers : q # p => rec'[q] = rec[q] /\ (Resuming(q) => Resuming(q)')
       /\ \A a \in Receivers : rec'[a] = rec[a] /\ At(Gov, 0)[a] = 0
    BY <1>4, <1>9, AccountFacts DEF Resuming, At
<1>11. rec'[Gov] = GovAfter(t) /\ \A a \in Accounts \ stored' : rec'[a] = rec[a]
    BY <1>3, <1>4, <1>9
<1>12. autoSettle' = Requeue(autoSettle, p, rec[p].settle, u.settle)
    BY DEF u
<1>13. UpdateStep(p, rec[p], c, b, 0, Gov, 0)
    BY Zenon, <1>6, <1>7, <1>9, <1>10, <1>11, <1>12 DEF UpdateStep, u, t
<1> QED
    BY <1>1, <1>2, <1>3, <1>13 DEF t

(* What happens to a record for which a bill has just been applied.        *)
LEMMA BillForm ==
    ASSUME TypeOK, CoreInv, LInv, NEW p \in Payers, NEW s, StandsFor(s, p), NEW c \in ChangeRecord,
           NEW b \in Nat, NEW delta \in Int, NEW rates \in BillRates,
           rec'[p] = [Updated(s, c, b) EXCEPT !.outFlowCount = @ + delta],
           rec'[Gov] = GovAfter(Balanced(s, c, b)),
           \A a \in Accounts : a # p /\ a # Gov =>
               rec'[a] = IF rates[a] # 0 THEN Credited(rec[a], 0, rates[a]) ELSE rec[a],
           \A q \in Payers : q # p =>
               active'[q] = active[q] /\ frozen'[q] = frozen[q] /\ (Resuming(q) => Resuming(q)'),
           FlowCount(p)' = rec[p].outFlowCount + delta,
           autoSettle' = Requeue(autoSettle, p, s.settle, Updated(s, c, b).settle), now' = now,
           stored \subseteq stored', p \in stored', OnBill(rates) \subseteq stored',
           Overdue(Balanced(s, c, b)) => Gov \in stored'
    PROVE  UpdateStep(p, s, c, b, delta, Gov, 0)
<1>1. p \in Accounts /\ p # Gov /\ \A a \in Accounts : rates[a] \in Int
    BY AccountFacts DEF BillRates
<1>2. \A q \in Payers : q # p => q \in Accounts /\ q # Gov /\ rates[q] = 0
    BY AccountFacts DEF BillRates
<1>3. \A a \in Receivers :
          \/ rec'[a] = rec[a] /\ At(Gov, 0)[a] = 0
          \/ \E rate \in Int : rec'[a] = Credited(rec[a], At(Gov, 0)[a], rate)
    <2> SUFFICES ASSUME NEW a \in Receivers
                 PROVE  \/ rec'[a] = rec[a] /\ At(Gov, 0)[a] = 0
                        \/ \E rate \in Int : rec'[a] = Credited(rec[a], At(Gov, 0)[a], rate)
        OBVIOUS
    <2>1. a \in Accounts /\ a # p /\ a # Gov /\ At(Gov, 0)[a] = 0
        BY AccountFacts DEF At
    <2>2. rates[a] \in Int
        BY <1>1, <2>1
    <2> QED
        BY Zenon, <2>1, <2>2
<1>4. \A a \in Accounts \ stored' : rec'[a] = rec[a]
    <2> SUFFICES ASSUME NEW a \in Accounts \ stored'
                 PROVE  rec'[a] = rec[a]
        OBVIOUS
    <2>1. CASE a = Gov
        BY <2>1 DEF GovAfter
    <2>2. CASE a # Gov
        BY <2>2 DEF OnBill
    <2> QED
        BY <2>1, <2>2
<1> QED
    BY Zenon, <1>2, <1>3, <1>4 DEF UpdateStep

(* The same for a payer that pays a fee to receiver r.                     *)
LEMMA FeeForm ==
    ASSUME TypeOK, CoreInv, LInv, NEW p \in Payers, rec[p].status = "active", NEW c \in ChangeRecord,
           NEW b \in Nat, NEW r \in Receivers, NEW amount \in Int,
           rec'[p] = Updated(rec[p], c, b), rec'[Gov] = GovAfter(Balanced(rec[p], c, b)),
           rec'[r] = Credited(rec[r], amount, 0),
           \A a \in Accounts : a # p /\ a # r /\ a # Gov => rec'[a] = rec[a],
           UNCHANGED <<active, frozen, autoResume, now>>,
           autoSettle' = Requeue(autoSettle, p, rec[p].settle, Updated(rec[p], c, b).settle),
           stored \subseteq stored', p \in stored', r \in stored',
           Overdue(Balanced(rec[p], c, b)) => Gov \in stored'
    PROVE  UpdateStep(p, rec[p], c, b, 0, r, amount)
<1>1. /\ p \in Accounts /\ p # Gov /\ r \in Accounts /\ rec[p] \in StreamRecord /\ now \in Nat /\ params \in ParamSets
      /\ r # p /\ r # Gov
    BY AccountFacts DEF TypeOK
<1>2. Updated(rec[p], c, b) \in StreamRecord
    BY <1>1, UpdatedRecord DEF Moves
<1>3. rec'[p] = [Updated(rec[p], c, b) EXCEPT !.outFlowCount = @ + 0]
    BY Zenon, <1>2, CountNothing
<1>4. FlowCount(p)' = rec[p].outFlowCount + 0
    BY FlowCountSame
<1>5. \A q \in Payers : q # p => rec'[q] = rec[q] /\ (Resuming(q) => Resuming(q)')
    BY AccountFacts DEF Resuming
<1>6. \A a \in Receivers :
          \/ rec'[a] = rec[a] /\ At(r, amount)[a] = 0
          \/ \E rate \in Int : rec'[a] = Credited(rec[a], At(r, amount)[a], rate)
    <2> SUFFICES ASSUME NEW a \in Receivers
                 PROVE  \/ rec'[a] = rec[a] /\ At(r, amount)[a] = 0
                        \/ \E rate \in Int : rec'[a] = Credited(rec[a], At(r, amount)[a], rate)
        OBVIOUS
    <2>1. a \in Accounts /\ a # p /\ a # Gov /\ At(r, amount)[a] = IF a = r THEN amount ELSE 0
        BY AccountFacts DEF At
    <2> QED
        BY Zenon, <2>1, ZeroInt
<1>7. \A a \in Accounts \ stored' : rec'[a] = rec[a]
    <2> SUFFICES ASSUME NEW a \in Accounts \ stored'
                 PROVE  rec'[a] = rec[a]
        OBVIOUS
    <2>1. CASE a = Gov
        BY <2>1 DEF GovAfter
    <2> QED
        BY <2>1
<1> QED
    BY Zenon, <1>3, <1>4, <1>5, <1>6, <1>7 DEF UpdateStep

(* The number of flows of a payer after a bill on its active flows.        *)
LEMMA BillCount ==
    ASSUME TypeOK, LInv, NEW p \in Payers, NEW b \in BillRates,
           active' = Merged(active, p, b), frozen' = frozen
    PROVE  /\ FlowCount(p)' = rec[p].outFlowCount + MergeDelta(active[p], b) /\ MergeDelta(active[p], b) \in Int
           /\ \A q \in Payers : q # p => active'[q] = active[q] /\ frozen'[q] = frozen[q]
<1>1. /\ active[p] \in [Accounts -> Nat] /\ active'[p] = Merge(active[p], b) /\ b \in [Accounts -> Int]
      /\ \A q \in Payers : q # p => active'[q] = active[q]
    BY DEF TypeOK, Merged, BillRates
<1>2. /\ NumFlows(Merge(active[p], b)) = NumFlows(active[p]) + MergeDelta(active[p], b)
      /\ MergeDelta(active[p], b) \in Int
    BY Zenon, <1>1, MergeCount
<1>3. /\ FlowCount(p)' = NumFlows(Merge(active[p], b)) + NumFlows(frozen[p])
      /\ rec[p].outFlowCount = NumFlows(active[p]) + NumFlows(frozen[p])
    BY Zenon, <1>1 DEF FlowCount, LInv, PayerInv
<1>4. NumFlows(active[p]) \in Nat /\ NumFlows(frozen[p]) \in Nat
    BY NumFlowsNat
<1> QED
    BY SMTT(20), <1>1, <1>2, <1>3, <1>4

(* A forced update, which may freeze the payer.                            *)
LEMMA ForceSound ==
    ASSUME IInv, TypeOK', LInv, NEW p \in Payers, NEW s, StandsFor(s, p), NEW c \in ChangeRecord, c.static = 0,
           NEW delta \in Int, NEW b \in BillRates, ForceUpdate(p, s, c, delta, b),
           FlowCount(p)' = rec[p].outFlowCount + delta,
           \A q \in Payers : q # p =>
               active'[q] = active[q] /\ frozen'[q] = frozen[q] /\ (Resuming(q) => Resuming(q)'),
           now' = now, delayed' = delayed, phase # "tx",
           rec[p].status = "active" \/ (phase = "resume" /\ Resuming(p))
    PROVE  SoundStep
<1> DEFINE t == Balanced(s, c, bank[p])
           pull == PullAmount(Settled(s, c), bank[p])
           v == Updated(s, c, bank[p])
           u == [v EXCEPT !.outFlowCount = @ + delta]
<1>1. /\ TypeOK /\ CoreInv /\ now \in Nat /\ params \in ParamSets /\ s \in StreamRecord /\ s.crud <= now
      /\ s.status = "active" /\ p \in Accounts /\ p # Gov /\ Gov \in Accounts /\ bank[p] \in Nat /\ module \in Int
    BY AccountFacts DEF IInv, TypeOK, StandsFor, LInv, ClockInv
<1>2. /\ rec' = [RecWith(p, u, b) EXCEPT ![Gov] = GovAfter(t)]
      /\ module' = module + pull + GovPull(t)
      /\ autoSettle' = Requeue(autoSettle, p, s.settle, SettleTime(t))
      /\ stored \subseteq stored' /\ p \in stored' /\ OnBill(b) \subseteq stored' /\ (Overdue(t) => Gov \in stored')
    BY DEF ForceUpdate
<1>3. v \in StreamRecord /\ v.settle = SettleTime(t) /\ pull \in Nat
    BY Zenon, <1>1, UpdatedLedger
<1>4. t \in StreamRecord
    BY Zenon, <1>1, BalancedRecord
<1> HIDE DEF t, pull, v
<1>5. GovPull(t) \in Nat
    BY Zenon, <1>1, <1>4, GovFacts
<1>6. u \in StreamRecord
    BY SMTT(20), <1>3 DEF StreamRecord
<1>7. /\ rec'[p] = u /\ rec'[Gov] = GovAfter(t)
      /\ \A a \in Accounts : a # p /\ a # Gov =>
            rec'[a] = IF b[a] # 0 THEN Credited(rec[a], 0, b[a]) ELSE rec[a]
    <2> HIDE DEF u
    <2>1. /\ RecWith(p, u, b) \in [Accounts -> StreamRecord] /\ RecWith(p, u, b)[p] = u
          /\ \A a \in Accounts : a # p =>
                RecWith(p, u, b)[a] = IF b[a] # 0 THEN Credited(rec[a], 0, b[a]) ELSE rec[a]
        BY ZenonT(40), <1>1, <1>6, RecWithValues
    <2> QED
        BY Zenon, <1>1, <1>2, <2>1
<1>8. autoSettle' = Requeue(autoSettle, p, s.settle, v.settle)
    BY <1>2, <1>3
<1>9. UpdateStep(p, s, c, bank[p], delta, Gov, 0)
    BY Zenon, <1>1, <1>2, <1>7, <1>8, BillForm DEF v, t
<1>10. module' = ((module + pull) + GovPull(t)) + (c.static + 0)
    BY SMT, <1>1, <1>2, <1>3, <1>5
<1> QED
    BY Zenon, <1>1, <1>9, <1>10, ZeroInt, UpdateStepSound DEF pull, t

(* A forced update that changes no rate and no flow.                       *)
LEMMA ForceQuietSound ==
    ASSUME IInv, TypeOK', LInv, NEW p \in Payers, NEW s, StandsFor(s, p), NEW c \in ChangeRecord, c.static = 0,
           ForceUpdate(p, s, c, 0, NoRates), UNCHANGED <<active, frozen, now, delayed>>,
           \A q \in Payers : q # p /\ Resuming(q) => Resuming(q)', phase # "tx",
           rec[p].status = "active" \/ (phase = "resume" /\ Resuming(p))
    PROVE  SoundStep
<1>1. FlowCount(p)' = rec[p].outFlowCount + 0
    BY Zenon, FlowCountSame DEF IInv
<1>2. NoRates \in BillRates
    BY SMT DEF NoRates, BillRates
<1>3. \A q \in Payers : q # p =>
          active'[q] = active[q] /\ frozen'[q] = frozen[q] /\ (Resuming(q) => Resuming(q)')
    BY Zenon
<1> QED
    BY Zenon, <1>1, <1>2, <1>3, ZeroInt, ForceSound

-----------------------------------------------------------------------------
(***************************************************************************)
(* VI. Every step but a deposit: the keeper calls, the messages, the       *)
(* forced calls of x/storage's EndBlock and the EndBlock loops.            *)
(***************************************************************************)

(* Nobody is owed more or less.                                            *)
LEMMA BooksSame ==
    ASSUME TypeOK, TypeOK', \A a \in Accounts : Stake(a)' = Stake(a), module' = module
    PROVE  BooksKept
<1> DEFINE f == [a \in Accounts |-> Stake(a)]
           g == [a \in Accounts |-> Stake(a)']
<1>1. f \in [Accounts -> Int] /\ Books = Sum(f, NumAccounts) /\ Books' = Sum(g, NumAccounts)
    BY StakeInt, StakeIntNext
<1>2. f = g
    BY Zenon
<1> QED
    BY Zenon, <1>1, <1>2 DEF BooksKept

(* One account is owed more by what the module received.                   *)
LEMMA BooksOne ==
    ASSUME TypeOK, TypeOK', NEW x \in Accounts, NEW u \in Int, Stake(x)' = Stake(x) + u,
           \A a \in Accounts : a # x => Stake(a)' = Stake(a), module' = module + u
    PROVE  BooksKept
<1>1. Gov \in Accounts /\ module \in Int
    BY AccountFacts DEF TypeOK
<1>2. StakesMove(x, u, Gov, 0, Gov, 0)
    <2> SUFFICES ASSUME NEW a \in Accounts
                 PROVE  Stake(a)' = ((Stake(a) + At(x, u)[a]) + At(Gov, 0)[a]) + At(Gov, 0)[a]
        BY DEF StakesMove
    <2>1. Stake(a) \in Int
        BY StakeInt
    <2>2. At(Gov, 0)[a] = 0 /\ At(x, u)[a] = IF a = x THEN u ELSE 0
        BY DEF At
    <2> QED
        BY SMTT(20), <2>1, <2>2
<1>3. Books \in Int /\ Books' = Books + ((u + 0) + 0)
    BY SMTT(20), <1>1, <1>2, ZeroInt, BooksChange
<1> QED
    BY SMTT(20), <1>1, <1>3 DEF BooksKept

(* A step that touches no payer, and of the queue only other accounts.     *)
LEMMA PayersUntouched ==
    ASSUME TypeOK, TypeOK', LInv, now' = now, stored \subseteq stored',
           \A q \in Payers : rec'[q] = rec[q], UNCHANGED <<active, frozen, autoResume>>,
           \A q \in Payers, x \in Int : <<x, q>> \in autoSettle => <<x, q>> \in autoSettle',
           \A a \in Accounts : rec'[a] = rec[a] \/ (a \in stored' /\ rec'[a].crud <= now)
    PROVE  LInv' /\ StatusStep
<1>1. ASSUME NEW p \in Payers
      PROVE  PayerInv(p)'
    <2>1. PayerInv(p) /\ PayerSame(p)
        BY DEF LInv, PayerSame, Resuming
    <2>2. rec[p].settle \in Int
        BY AccountFacts DEF TypeOK, StreamRecord
    <2> QED
        BY Zenon, <2>1, <2>2, PayerKept
<1>2. now' >= now /\ \A a \in Accounts : rec'[a] = rec[a] \/ (a \in stored' /\ rec'[a].crud <= now')
    BY SMTT(20) DEF TypeOK
<1>3. LInv'
    BY <1>1, <1>2, LedgerKept
<1> QED
    BY <1>3, SameStatus

(* Every call of another module inside a transaction is sound.             *)
LEMMA KeeperCallsSound ==
    (IInv /\ TypeOK' /\ LInv) /\ KeeperCalls => SoundStep
(* LockObjectFee and UnlockObjectFee.                                      *)
<1>TxUpdateSound.
      ASSUME IInv, TypeOK', LInv, NEW p \in Payers, NEW c \in ChangeRecord, c.static = 0,
             TxUpdate(p, c), UNCHANGED <<now, params, flowVars, autoResume, acctVars, loopVars>>
      PROVE  SoundStep
    <2> USE <1>TxUpdateSound
    <2>1. TypeOK /\ CoreInv /\ p \in Accounts /\ bank[p] \in Nat /\ Gov \in Accounts
        BY AccountFacts DEF IInv, TypeOK
    <2>2. /\ CanUpdate(rec[p], c, bank[p]) /\ rec' = [rec EXCEPT ![p] = Updated(@, c, bank[p])]
          /\ autoSettle' = Requeue(autoSettle, p, rec[p].settle, Updated(rec[p], c, bank[p]).settle)
          /\ module' = module + PullAmount(Settled(rec[p], c), bank[p])
          /\ UNCHANGED <<active, frozen, autoResume, now, delayed>> /\ stored \subseteq stored' /\ p \in stored'
        BY DEF TxUpdate, flowVars, acctVars
    <2>3. /\ rec[p].status = "active" /\ StandsFor(rec[p], p)
          /\ UpdateStep(p, rec[p], c, bank[p], 0, Gov, 0)
          /\ ~Overdue(Balanced(rec[p], c, bank[p])) /\ GovPull(Balanced(rec[p], c, bank[p])) = 0
        BY Zenon, <2>1, <2>2, TxForm
    <2>4. PullAmount(Settled(rec[p], c), bank[p]) \in Nat /\ module \in Int
        <3>1. Settled(rec[p], c) \in StreamRecord
            BY <2>1, SettledRecord DEF TypeOK
        <3> QED
            BY <2>1, <3>1, PullAmountNat DEF TypeOK
    <2>5. module' = ((module + PullAmount(Settled(rec[p], c), bank[p])) + GovPull(Balanced(rec[p], c, bank[p]))) + (c.static + 0)
        BY SMTT(20), <2>2, <2>3, <2>4
    <2> QED
        BY Zenon, <2>1, <2>2, <2>3, <2>5, ZeroInt, UpdateStepSound
(* The fee of an object is locked and given back soundly.                  *)
<1>FeeSound.
      ASSUME IInv, TypeOK', LInv, NEW p \in Payers, NEW amount \in Fees,
             LockFee(p, amount) \/ UnlockFee(p, amount)
      PROVE  SoundStep
    <2> USE <1>FeeSound
    <2>1. /\ Change(0, 0, amount) \in ChangeRecord /\ Change(0, 0, amount).static = 0
          /\ Change(0, 0, -amount) \in ChangeRecord /\ Change(0, 0, -amount).static = 0
        BY SMTT(20), FeesType, ChangeType
    <2>2. CASE LockFee(p, amount)
        BY <2>1, <2>2, <1>TxUpdateSound DEF LockFee
    <2>3. CASE UnlockFee(p, amount)
        BY <2>1, <2>3, <1>TxUpdateSound DEF UnlockFee
    <2> QED
        BY <2>2, <2>3
(* ChargeObjectStoreFeeForEarlyDeletion moves money from the payer to the  *)
(* receiver.                                                               *)
<1>EarlyDeletionFeeSound.
      ASSUME IInv, TypeOK', LInv, NEW p \in Payers, NEW r \in Receivers, NEW amount \in Fees,
             EarlyDeletionFee(p, r, amount)
      PROVE  SoundStep
    <2> USE <1>EarlyDeletionFeeSound
    <2> DEFINE c == Change(-amount, 0, 0)
               pull == PullAmount(Settled(rec[p], c), bank[p])
               s == Updated(rec[p], c, bank[p])
               t == Balanced(rec[p], c, bank[p])
    <2>1. /\ TypeOK /\ CoreInv /\ phase = "tx" /\ now \in Nat /\ params \in ParamSets
          /\ p \in Accounts /\ r \in Accounts /\ Gov \in Accounts /\ p # r /\ p # Gov /\ r # Gov
          /\ rec \in [Accounts -> StreamRecord] /\ rec[p] \in StreamRecord /\ bank[p] \in Nat /\ module \in Int
        BY SMTT(20), AccountFacts DEF IInv, TypeOK, EarlyDeletionFee
    <2>2. c \in ChangeRecord /\ c.static = -amount /\ amount \in Int
        BY SMTT(20), FeesType, ChangeType
    <2>3. /\ CanUpdate(rec[p], c, bank[p]) /\ rec[p].status = "active" /\ ~Overdue(t)
          /\ rec' = [rec EXCEPT ![p] = s, ![r] = Credited(rec[r], amount, 0)]
          /\ module' = module + pull
          /\ autoSettle' = Requeue(autoSettle, p, rec[p].settle, s.settle)
          /\ stored \subseteq stored' /\ p \in stored' /\ r \in stored'
          /\ UNCHANGED <<active, frozen, autoResume, now, delayed>>
        BY DEF EarlyDeletionFee, CanUpdate, flowVars, acctVars
    <2>4. GovAfter(t) = rec[Gov] /\ GovPull(t) = 0
        BY <2>3 DEF GovAfter, GovPull
    <2>5. Settled(rec[p], c) \in StreamRecord
        BY <2>1, <2>2, SettledRecord
    <2>6. pull \in Nat
        BY <2>1, <2>5, PullAmountNat
    <2> HIDE DEF c, s, t
    <2>7. /\ rec'[p] = s /\ rec'[Gov] = GovAfter(t) /\ rec'[r] = Credited(rec[r], amount, 0)
          /\ \A a \in Accounts : a # p /\ a # r /\ a # Gov => rec'[a] = rec[a]
        BY Zenon, <2>1, <2>3, <2>4
    <2>8. UpdateStep(p, rec[p], c, bank[p], 0, r, amount)
        BY Zenon, <2>1, <2>2, <2>3, <2>7, FeeForm DEF s, t
    <2>9. module' = ((module + pull) + GovPull(t)) + (c.static + amount)
        BY SMTT(20), <2>1, <2>2, <2>3, <2>4, <2>6
    <2>10. StandsFor(rec[p], p)
        BY <2>1, <2>3, OwnRecord
    <2> QED
        BY Zenon, <2>1, <2>2, <2>3, <2>8, <2>9, <2>10, ZeroInt, UpdateStepSound DEF t
(* ApplyUserFlowsList on an active payer.                                  *)
<1>ApplyUserFlowsSound.
      ASSUME IInv, TypeOK', LInv, NEW p \in Payers, NEW b \in Bills, ApplyUserFlows(p, b)
      PROVE  SoundStep
    <2> USE <1>ApplyUserFlowsSound
    <2> DEFINE c == Change(0, -BillTotal(b), 0)
               pull == PullAmount(Settled(rec[p], c), bank[p])
               s == Updated(rec[p], c, bank[p])
               t == Balanced(rec[p], c, bank[p])
               delta == MergeDelta(active[p], b)
               u == [s EXCEPT !.outFlowCount = @ + delta]
    <2>1. /\ TypeOK /\ CoreInv /\ phase = "tx" /\ now \in Nat /\ params \in ParamSets
          /\ p \in Accounts /\ p # Gov /\ Gov \in Accounts /\ rec[p] \in StreamRecord /\ bank[p] \in Nat /\ module \in Int
        BY AccountFacts DEF IInv, TypeOK, ApplyUserFlows
    <2>2. b \in BillRates /\ c \in ChangeRecord /\ c.static = 0
        BY SMTT(20), BillsAreRates, ChangeType, ZeroInt DEF BillTotal
    <2>3. /\ rec[p].status = "active" /\ ~Overdue(t)
          /\ rec' = RecWith(p, u, b) /\ module' = module + pull
          /\ autoSettle' = Requeue(autoSettle, p, rec[p].settle, s.settle)
          /\ active' = Merged(active, p, b) /\ frozen' = frozen
          /\ stored \subseteq stored' /\ p \in stored' /\ OnBill(b) \subseteq stored'
          /\ UNCHANGED <<now, autoResume, delayed>>
        BY DEF ApplyUserFlows, CanUpdate, Merged, acctVars
    <2>4. GovAfter(t) = rec[Gov] /\ GovPull(t) = 0
        BY <2>3 DEF GovAfter, GovPull
    <2>5. Settled(rec[p], c) \in StreamRecord
        BY <2>1, <2>2, SettledRecord
    <2>6. pull \in Nat
        BY <2>1, <2>5, PullAmountNat
    <2>7. s \in StreamRecord
        BY <2>1, <2>2, UpdatedRecord DEF Moves
    <2>8. /\ FlowCount(p)' = rec[p].outFlowCount + delta /\ delta \in Int
          /\ \A q \in Payers : q # p => active'[q] = active[q] /\ frozen'[q] = frozen[q]
        BY Zenon, <2>1, <2>2, <2>3, BillCount
    <2>9. \A q \in Payers : Resuming(q) => Resuming(q)'
        BY <2>3 DEF Resuming
    <2> HIDE DEF c, s, t, delta
    <2>10. u \in StreamRecord
        BY SMTT(20), <2>7, <2>8 DEF StreamRecord
    <2>11. /\ rec'[p] = u /\ rec'[Gov] = GovAfter(t)
           /\ \A a \in Accounts : a # p /\ a # Gov =>
                 rec'[a] = IF b[a] # 0 THEN Credited(rec[a], 0, b[a]) ELSE rec[a]
        <3> HIDE DEF u
        <3>1. /\ RecWith(p, u, b)[p] = u /\ RecWith(p, u, b)[Gov] = rec[Gov]
              /\ \A a \in Accounts : a # p =>
                    RecWith(p, u, b)[a] = IF b[a] # 0 THEN Credited(rec[a], 0, b[a]) ELSE rec[a]
            BY SMTT(20), <2>1, <2>2, <2>10, RecWithValues
        <3> QED
            BY Zenon, <2>3, <2>4, <3>1
    <2>12. StandsFor(rec[p], p)
        BY <2>1, <2>3, OwnRecord
    <2>13. UpdateStep(p, rec[p], c, bank[p], delta, Gov, 0)
        BY ZenonT(40), <2>1, <2>2, <2>3, <2>8, <2>9, <2>11, <2>12, BillForm DEF s, t
    <2>14. module' = ((module + pull) + GovPull(t)) + (c.static + 0)
        BY SMTT(20), <2>1, <2>2, <2>3, <2>4, <2>6
    <2> QED
        BY Zenon, <2>1, <2>2, <2>3, <2>8, <2>12, <2>13, <2>14, ZeroInt, UpdateStepSound DEF t
(* Keeper.Withdraw pays out what the receiver has earned.                  *)
<1>KeeperWithdrawSound.
      ASSUME IInv, TypeOK', LInv, NEW r \in Receivers, KeeperWithdraw(r)
      PROVE  SoundStep
    <2> USE <1>KeeperWithdrawSound
    <2> DEFINE amount == Accrue(rec[r]).static
               t == Credited(rec[r], -amount, 0)
    <2>1. /\ TypeOK /\ now \in Nat /\ params \in ParamSets /\ r \in Accounts /\ r \notin Payers
          /\ rec \in [Accounts -> StreamRecord] /\ rec[r] \in StreamRecord /\ rec[r].crud <= now /\ module \in Int
        BY AccountFacts DEF IInv, TypeOK, LInv, ClockInv
    <2>2. /\ rec' = [rec EXCEPT ![r] = t] /\ module' = module - amount /\ r \in stored
          /\ UNCHANGED <<now, stored, active, frozen, autoSettle, autoResume, delayed>>
        BY DEF KeeperWithdraw, flowVars, acctVars
    <2>3. amount \in Int /\ -amount \in Int
        BY SMTT(20), <2>1, AccrueRecord DEF StreamRecord
    <2>4. t.crud = now /\ Worth(t, now) = Worth(rec[r], now) + (-amount)
        BY <2>1, <2>3, CreditedWorth, ZeroInt
    <2> HIDE DEF t, amount
    <2>5. rec'[r] = t /\ \A a \in Accounts : a # r => rec'[a] = rec[a]
        BY <2>1, <2>2
    <2>6. LInv' /\ StatusStep
        <3>1. \A q \in Payers : rec'[q] = rec[q]
            BY <2>1, <2>5, AccountFacts
        <3>2. \A a \in Accounts : rec'[a] = rec[a] \/ (a \in stored' /\ rec'[a].crud <= now)
            BY SMTT(20), <2>1, <2>2, <2>4, <2>5
        <3> QED
            BY <2>1, <2>2, <3>1, <3>2, PayersUntouched
    <2>7. Stake(r)' = Stake(r) + (-amount) /\ \A a \in Accounts : a # r => Stake(a)' = Stake(a)
        <3>1. \A a \in Accounts : a # r => Stake(a)' = Stake(a)
            BY <2>2, <2>5 DEF Stake
        <3>2. Worth(rec[r], now) \in Int /\ (r \in Users => delayed[r].amount \in Int)
            BY SMTT(20), <2>1, WorthNow DEF TypeOK
        <3>3. Stake(r)' = Worth(t, now) + (IF r \in Users THEN delayed[r].amount ELSE 0)
            BY <2>2, <2>5 DEF Stake
        <3>4. Stake(r) = Worth(rec[r], now) + (IF r \in Users THEN delayed[r].amount ELSE 0)
            BY DEF Stake
        <3> QED
            BY SMTT(20), <2>3, <2>4, <3>1, <3>2, <3>3, <3>4
    <2>8. module' = module + (-amount)
        BY <2>1, <2>2, <2>3
    <2>9. BooksKept
        BY <2>1, <2>3, <2>7, <2>8, BooksOne
    <2> QED
        BY <2>6, <2>9 DEF SoundStep, BooksStep
<1> QED
    BY <1>KeeperWithdrawSound, <1>ApplyUserFlowsSound, <1>FeeSound, <1>EarlyDeletionFeeSound DEF KeeperCalls

(* Every message but a deposit is sound.                                   *)
LEMMA MessagesSound ==
    (IInv /\ TypeOK' /\ LInv) /\ Messages =>
        \/ SoundStep
        \/ \E creator \in Users, to \in Accounts, amount \in Deposits : Deposit(creator, to, amount)
(* MsgWithdraw: what leaves the record is paid out, or owed as a delayed   *)
(* withdrawal.                                                             *)
<1>WithdrawSound.
      ASSUME IInv, TypeOK', LInv, NEW creator \in Users, NEW from \in Payers, NEW amount \in Withdrawals,
             Withdraw(creator, from, amount)
      PROVE  SoundStep
    <2> USE <1>WithdrawSound
    <2> DEFINE c == Change(-amount, 0, 0)
               pull == PullAmount(Settled(rec[from], c), bank[from])
    <2>1. /\ TypeOK /\ CoreInv /\ phase = "tx" /\ now \in Nat /\ params \in ParamSets
          /\ from \in Accounts /\ creator \in Accounts /\ Gov \in Accounts
          /\ rec[from] \in StreamRecord /\ bank[from] \in Nat /\ module \in Int
        BY AccountFacts DEF IInv, TypeOK, Withdraw, Users
    <2>2. c \in ChangeRecord /\ c.static = -amount /\ amount \in Nat
        BY SMTT(20), FeesType, ChangeType
    <2>3. /\ CanUpdate(rec[from], c, bank[from])
          /\ rec' = [rec EXCEPT ![from] = Updated(@, c, bank[from])]
          /\ autoSettle' = Requeue(autoSettle, from, rec[from].settle, Updated(rec[from], c, bank[from]).settle)
          /\ UNCHANGED <<active, frozen, autoResume, now>> /\ stored \subseteq stored' /\ from \in stored'
        BY DEF Withdraw, flowVars
    <2>4. \/ /\ delayed[creator] = NoDelay /\ module' = module + pull
             /\ delayed' = [delayed EXCEPT ![creator] = [amount |-> amount, unlock |-> now + params.lockDuration]]
          \/ module' = (module + pull) - amount /\ delayed' = delayed
        BY DEF Withdraw, NoDelayedWithdrawal
    <2>5. Settled(rec[from], c) \in StreamRecord
        BY <2>1, <2>2, SettledRecord
    <2>6. pull \in Nat
        BY <2>1, <2>5, PullAmountNat
    <2> HIDE DEF c
    <2>7. /\ rec[from].status = "active" /\ StandsFor(rec[from], from)
          /\ UpdateStep(from, rec[from], c, bank[from], 0, Gov, 0)
          /\ ~Overdue(Balanced(rec[from], c, bank[from])) /\ GovPull(Balanced(rec[from], c, bank[from])) = 0
        BY Zenon, <2>1, <2>2, <2>3, TxForm
    <2>8. LInv' /\ StatusStep
        BY Zenon, <2>1, <2>2, <2>7, ZeroInt, UpdateStepFacts
    <2>9. CASE module' = (module + pull) - amount /\ delayed' = delayed
        <3>1. module' = ((module + pull) + GovPull(Balanced(rec[from], c, bank[from]))) + (c.static + 0)
            BY SMTT(20), <2>1, <2>2, <2>6, <2>7, <2>9
        <3> QED
            BY Zenon, <2>1, <2>2, <2>7, <2>9, <3>1, ZeroInt, UpdateStepSound
    <2>10. CASE /\ delayed[creator] = NoDelay /\ module' = module + pull
                /\ delayed' = [delayed EXCEPT ![creator] = [amount |-> amount, unlock |-> now + params.lockDuration]]
        <3> DEFINE own == PayerGain(rec[from], c, bank[from])
                   gov == GovGain(rec[from], c, bank[from])
        <3>1. /\ own \in Int /\ gov \in Int
              /\ own + gov = (c.static + pull) + GovPull(Balanced(rec[from], c, bank[from]))
              /\ \A a \in Accounts :
                    Worth(rec'[a], now) = ((Worth(rec[a], now) + At(from, own)[a]) + At(Gov, gov)[a]) + At(Gov, 0)[a]
            <4>1. WorthMoves(from, rec[from], c, bank[from], Gov, 0)
                BY <2>1, <2>2, <2>7, ZeroInt, UpdateStepFacts
            <4> QED
                BY <4>1 DEF WorthMoves
        <3>2. gov = 0
            BY SMTT(20), <2>7, ZeroInt DEF GovGain, Forfeit
        <3> HIDE DEF own, gov, pull
        <3>3. own + gov = pull - amount
            <4>1. own + gov = (c.static + pull) + 0
                BY Zenon, <2>7, <3>1
            <4> QED
                BY SMTT(20), <2>2, <2>6, <4>1
        <3>4. StakesMove(from, own, creator, amount, Gov, 0)
            <4> SUFFICES ASSUME NEW a \in Accounts
                         PROVE  Stake(a)' = ((Stake(a) + At(from, own)[a]) + At(creator, amount)[a]) + At(Gov, 0)[a]
                BY DEF StakesMove
            <4>1. /\ At(from, own)[a] \in Int /\ At(Gov, gov)[a] = 0 /\ At(Gov, 0)[a] = 0
                  /\ At(creator, amount)[a] = IF a = creator THEN amount ELSE 0
                  /\ rec[a] \in StreamRecord
                BY <2>1, <3>1, <3>2 DEF At, TypeOK
            <4>2. Worth(rec[a], now) \in Int
                BY <2>1, <4>1, WorthNow
            <4>3. Worth(rec'[a], now) = Worth(rec[a], now) + At(from, own)[a]
                BY SMTT(20), <3>1, <4>1, <4>2
            <4>4. (IF a \in Users THEN delayed'[a].amount ELSE 0)
                     = (IF a \in Users THEN delayed[a].amount ELSE 0) + At(creator, amount)[a]
                BY SMTT(20), <2>1, <2>2, <2>10, <4>1 DEF TypeOK, NoDelay
            <4>5. (IF a \in Users THEN delayed[a].amount ELSE 0) \in Int /\ At(creator, amount)[a] \in Int
                BY SMTT(20), <2>1, <2>2, <4>1 DEF TypeOK
            <4>6. /\ Stake(a)' = Worth(rec'[a], now) + (IF a \in Users THEN delayed'[a].amount ELSE 0)
                  /\ Stake(a) = Worth(rec[a], now) + (IF a \in Users THEN delayed[a].amount ELSE 0)
                BY <2>3 DEF Stake
            <4> QED
                BY SMTT(20), <4>1, <4>2, <4>3, <4>4, <4>5, <4>6
        <3>5. Books \in Int /\ Books' = Books + ((own + amount) + 0)
            BY SMTT(20), <2>1, <2>2, <3>1, <3>4, ZeroInt, BooksChange
        <3>6. BooksKept
            BY SMTT(20), <2>1, <2>2, <2>6, <2>10, <3>1, <3>2, <3>3, <3>5 DEF BooksKept
        <3> QED
            BY <2>8, <3>6 DEF SoundStep, BooksStep
    <2> QED
        BY <2>4, <2>9, <2>10
(* The messages that touch no record.  A delayed withdrawal that is        *)
(* claimed leaves the books and the module.                                *)
<1>AccountMessagesSound.
      ASSUME IInv, TypeOK', LInv,
             \/ \E creator \in Users : WithdrawDelayed(creator)
             \/ \E creator \in Users, a \in PaymentAccounts : CreatePaymentAccount(creator, a)
             \/ \E a \in PaymentAccounts : DisableRefund(a)
             \/ \E ps \in ParamSets : UpdateParams(ps)
      PROVE  SoundStep
    <2> USE <1>AccountMessagesSound
    <2>1. /\ TypeOK /\ UNCHANGED <<now, stored, rec, active, frozen, autoSettle, autoResume>>
        BY DEF IInv, WithdrawDelayed, CreatePaymentAccount, DisableRefund, UpdateParams, flowVars
    <2>2. now' >= now
        BY SMTT(20), <2>1 DEF TypeOK
    <2>3. LInv' /\ StatusStep
        BY <2>1, <2>2, UntouchedLedger, SameStatus
    <2>4. CASE delayed' = delayed /\ module' = module
        <3>1. \A a \in Accounts : Stake(a)' = Stake(a)
            BY <2>1, <2>4 DEF Stake
        <3> QED
            BY <2>1, <2>3, <2>4, <3>1, BooksSame DEF SoundStep, BooksStep
    <2>5. CASE \E creator \in Users : WithdrawDelayed(creator)
        <3>1. PICK creator \in Users : WithdrawDelayed(creator)
            BY <2>5
        <3> DEFINE amount == delayed[creator].amount
        <3>2. /\ delayed' = [delayed EXCEPT ![creator] = NoDelay] /\ module' = module - amount
            BY <3>1 DEF WithdrawDelayed
        <3>3. /\ creator \in Accounts /\ amount \in Nat /\ module \in Int
              /\ delayed \in [Users -> [amount : Nat, unlock : Nat]]
            BY <2>1, AccountFacts DEF TypeOK, Users
        <3>4. Worth(rec[creator], now) \in Int
            BY <2>1, <3>3, WorthNow DEF TypeOK
        <3>5. Stake(creator)' = Stake(creator) + (-amount)
            <4>1. Stake(creator) = Worth(rec[creator], now) + amount
                BY DEF Stake
            <4>2. Stake(creator)' = Worth(rec[creator], now) + 0
                BY <2>1, <3>2, <3>3 DEF Stake, NoDelay
            <4> QED
                BY SMTT(20), <3>3, <3>4, <4>1, <4>2
        <3>6. \A a \in Accounts : a # creator => Stake(a)' = Stake(a)
            BY <2>1, <3>2, <3>3 DEF Stake
        <3> HIDE DEF amount
        <3>7. -amount \in Int /\ module' = module + (-amount)
            BY SMTT(20), <3>2, <3>3
        <3> QED
            BY <2>1, <2>3, <3>3, <3>5, <3>6, <3>7, BooksOne DEF SoundStep, BooksStep
    <2> QED
        BY <2>4, <2>5 DEF CreatePaymentAccount, DisableRefund, UpdateParams, acctVars
<1> QED
    BY <1>AccountMessagesSound, <1>WithdrawSound DEF Messages

(* A payer that stays frozen.                                              *)
LEMMA FrozenPayerKept ==
    ASSUME NEW p \in Payers, PayerInv(p), rec[p].status = "frozen", rec'[p].status = "frozen",
           rec'[p].outFlowCount = FlowCount(p)', rec'[p].settle = rec[p].settle,
           rec'[p].buffer = rec[p].buffer, Resuming(p) => Resuming(p)',
           rec'[p].netflow < 0 /\ ~Resuming(p) =>
               /\ rec[p].netflow < 0
               /\ <<rec[p].settle, p>> \in autoSettle => <<rec[p].settle, p>> \in autoSettle'
    PROVE  PayerInv(p)'
BY DEF PayerInv

(* A receiver whose rate changes is up to date and is owed what it was.    *)
LEMMA RateChangeWorth ==
    ASSUME TypeOK, LInv, NEW a \in Accounts,
           rec'[a] = rec[a] \/ \E rate \in Int : rec'[a] = Credited(rec[a], 0, rate)
    PROVE  /\ rec'[a] = rec[a] \/ rec'[a].crud = now
           /\ Worth(rec'[a], now) = Worth(rec[a], now)
<1>1. /\ now \in Nat /\ params \in ParamSets /\ rec[a] \in StreamRecord /\ rec[a].crud <= now
    BY DEF TypeOK, LInv, ClockInv
<1>2. CASE rec'[a] = rec[a]
    BY <1>2
<1>3. CASE \E rate \in Int : rec'[a] = Credited(rec[a], 0, rate)
    <2>1. PICK rate \in Int : rec'[a] = Credited(rec[a], 0, rate)
        BY <1>3
    <2>2. rec'[a].crud = now /\ Worth(rec'[a], now) = Worth(rec[a], now) + 0
        BY SMTT(20), <1>1, <2>1, CreditedWorth, ZeroInt
    <2>3. Worth(rec[a], now) \in Int
        BY <1>1, WorthNow
    <2> QED
        BY SMTT(20), <2>2, <2>3
<1> QED
    BY <1>2, <1>3

(* A step on the flows of one payer that stays frozen, with the queues as  *)
(* they are.                                                               *)
LEMMA FrozenStepKeeps ==
    ASSUME IInv, TypeOK', LInv, NEW p \in Payers, rec[p].status = "frozen", rec'[p].status = "frozen",
           rec'[p].outFlowCount = FlowCount(p)', rec'[p].settle = rec[p].settle,
           rec'[p].buffer = rec[p].buffer, rec'[p].crud = rec[p].crud,
           rec'[p].netflow < 0 /\ ~Resuming(p) => rec[p].netflow < 0,
           \A q \in Payers : q # p => rec'[q] = rec[q] /\ active'[q] = active[q] /\ frozen'[q] = frozen[q],
           \A a \in Accounts : a = p \/ rec'[a] = rec[a] \/ (a \in stored' /\ rec'[a].crud = now),
           stored \subseteq stored', UNCHANGED <<now, autoSettle, autoResume>>
    PROVE  LInv' /\ StatusStep
<1>1. TypeOK /\ CoreInv /\ now \in Nat /\ p \in Accounts /\ rec[p].crud <= now
    BY AccountFacts DEF IInv, TypeOK, LInv, ClockInv
<1>2. p \in stored
    BY <1>1 DEF CoreInv, StoredInv
<1>3. PayerInv(p)'
    <2>1. PayerInv(p) /\ (Resuming(p) => Resuming(p)')
        BY DEF LInv, Resuming
    <2> QED
        BY Zenon, <2>1, FrozenPayerKept
<1>4. ASSUME NEW q \in Payers, q # p
      PROVE  PayerInv(q)'
    <2>1. PayerInv(q) /\ PayerSame(q)
        BY <1>4 DEF LInv, PayerSame, Resuming
    <2> QED
        BY Zenon, <2>1, PayerKept
<1>5. \A q \in Payers : PayerInv(q)'
    BY <1>3, <1>4
<1>6. \A a \in Accounts : rec'[a] = rec[a] \/ (a \in stored' /\ rec'[a].crud <= now')
    <2> SUFFICES ASSUME NEW a \in Accounts, rec'[a] # rec[a]
                 PROVE  a \in stored' /\ rec'[a].crud <= now'
        OBVIOUS
    <2>1. CASE a = p
        BY <1>1, <1>2, <2>1
    <2>2. CASE a # p
        BY SMTT(20), <1>1, <2>2
    <2> QED
        BY <2>1, <2>2
<1>7. now' >= now
    BY SMTT(20), <1>1
<1>8. LInv'
    BY <1>1, <1>5, <1>6, <1>7, LedgerKept
<1>9. \A q \in Payers : rec'[q].status = rec[q].status
    BY Zenon
<1> QED
    BY <1>8, <1>9, SameStatus

(* Every forced call of x/storage's EndBlock is sound.                     *)
LEMMA StorageEndBlockSound ==
    (IInv /\ TypeOK' /\ LInv) /\ StorageEndBlock => SoundStep
(* The storage EndBlocker takes back flows of an active payer.             *)
<1>ForcedActiveUserFlowsSound.
      ASSUME IInv, TypeOK', LInv, NEW p \in Payers, NEW b \in Bills, ForcedActiveUserFlows(p, b)
      PROVE  SoundStep
    <2> USE <1>ForcedActiveUserFlowsSound
    <2> DEFINE c == Change(0, -BillTotal(b), 0)
    <2>1. /\ TypeOK /\ CoreInv /\ phase = "storage" /\ rec[p].status = "active"
          /\ ForceUpdate(p, rec[p], c, MergeDelta(active[p], b), b)
          /\ active' = Merged(active, p, b) /\ frozen' = frozen
          /\ UNCHANGED <<now, autoResume, delayed>>
        BY DEF IInv, ForcedActiveUserFlows, Merged, acctVars
    <2>2. b \in BillRates /\ c \in ChangeRecord /\ c.static = 0
        BY SMTT(20), BillsAreRates, ChangeType, ZeroInt DEF BillTotal
    <2> HIDE DEF c
    <2>3. /\ FlowCount(p)' = rec[p].outFlowCount + MergeDelta(active[p], b) /\ MergeDelta(active[p], b) \in Int
          /\ \A q \in Payers : q # p => active'[q] = active[q] /\ frozen'[q] = frozen[q]
        BY Zenon, <2>1, <2>2, BillCount
    <2>4. \A q \in Payers : Resuming(q) => Resuming(q)'
        BY <2>1 DEF Resuming
    <2>5. StandsFor(rec[p], p) /\ phase # "tx"
        BY <2>1, OwnRecord
    <2> QED
        BY Zenon, <2>1, <2>2, <2>3, <2>4, <2>5, ForceSound
(* What UpdateFrozenStreamRecord leaves of a record.                       *)
<1>UpdatedFrozenLedger.
      ASSUME NEW s \in StreamRecord, NEW c \in ChangeRecord, NEW f \in Int, s.buffer >= 0
      PROVE  LET t == UpdatedFrozen(s, c, f) IN
             /\ t \in StreamRecord /\ t.netflow = s.netflow + c.rate /\ t.status = s.status
             /\ t.outFlowCount = s.outFlowCount /\ t.settle = s.settle /\ t.buffer = s.buffer
             /\ t.crud = s.crud
    <2> USE <1>UpdatedFrozenLedger
    <2> DEFINE t == UpdatedFrozen(s, c, f)
               u == UpdateLock(s, c.lock)
    <2>1. /\ t \in StreamRecord /\ t.netflow = s.netflow + c.rate /\ t.status = s.status
          /\ t.outFlowCount = s.outFlowCount
        BY Zenon, UpdatedFrozenRecord DEF Moves
    <2>2. /\ u \in StreamRecord /\ u.settle = s.settle /\ u.buffer = s.buffer /\ u.crud = s.crud
        <3>1. c.lock \in Int
            BY DEF ChangeRecord
        <3>2. u \in StreamRecord
            BY <3>1, UpdateLockRecord
        <3> QED
            BY <3>1, <3>2 DEF UpdateLock, StreamRecord
    <2>3. t = [u EXCEPT !.netflow = @ + c.rate, !.frozen = @ + f]
        BY DEF UpdatedFrozen
    <2> HIDE DEF u, t
    <2>4. t.settle = u.settle /\ t.buffer = u.buffer /\ t.crud = u.crud
        BY <2>2, <2>3 DEF StreamRecord
    <2> QED
        BY <2>1, <2>2, <2>4 DEF t
(* A step of x/storage's EndBlock on a frozen payer: the books are not     *)
(* asked for.                                                              *)
<1>FrozenStorageBooks.
      ASSUME NEW p \in Payers, rec[p].status = "frozen", phase = "storage"
      PROVE  BooksStep
    <2> USE <1>FrozenStorageBooks
    <2>1. ~(rec[p].status = "active" \/ (rec[p].crud = now /\ phase # "storage"))
        OBVIOUS
    <2> QED
        BY <2>1 DEF BooksStep
(* The storage EndBlocker gives back a locked fee.                         *)
<1>ForcedUnlockFeeSound.
      ASSUME IInv, TypeOK', LInv, NEW p \in Payers, NEW amount \in Fees, ForcedUnlockFee(p, amount)
      PROVE  SoundStep
    <2> USE <1>ForcedUnlockFeeSound
    <2> DEFINE c == Change(0, 0, -amount)
    <2>1. /\ TypeOK /\ CoreInv /\ phase = "storage" /\ p \in Accounts /\ rec[p] \in StreamRecord
          /\ rec \in [Accounts -> StreamRecord] /\ now \in Nat /\ rec[p].crud <= now /\ rec[p].buffer >= 0
          /\ UNCHANGED <<now, active, frozen, autoResume, delayed>>
        BY AccountFacts DEF IInv, TypeOK, ForcedUnlockFee, flowVars, acctVars, LInv, ClockInv, CoreInv, RecordsInv
    <2>2. c \in ChangeRecord /\ c.static = 0 /\ c.rate = 0
        BY SMTT(20), FeesType, ChangeType
    <2>3. CASE rec[p].status = "active" /\ ForceUpdate(p, rec[p], c, 0, NoRates)
        <3>1. StandsFor(rec[p], p) /\ phase # "tx" /\ \A q \in Payers : q # p /\ Resuming(q) => Resuming(q)'
            BY <2>1, <2>3, OwnRecord DEF Resuming
        <3> HIDE DEF c
        <3> QED
            BY Zenon, <2>1, <2>2, <2>3, <3>1, ForceQuietSound
    <2>4. CASE /\ rec[p].status = "frozen" /\ rec' = [rec EXCEPT ![p] = UpdatedFrozen(@, c, 0)]
               /\ UNCHANGED <<stored, autoSettle, bank, module>>
        <3> DEFINE t == UpdatedFrozen(rec[p], c, 0)
        <3>1. /\ t \in StreamRecord /\ t.netflow = rec[p].netflow + c.rate /\ t.status = rec[p].status
              /\ t.outFlowCount = rec[p].outFlowCount /\ t.settle = rec[p].settle /\ t.buffer = rec[p].buffer
              /\ t.crud = rec[p].crud
            BY Zenon, <2>1, <2>2, ZeroInt, <1>UpdatedFrozenLedger
        <3>2. rec' = [rec EXCEPT ![p] = t]
            BY <2>4
        <3> HIDE DEF t, c
        <3>3. rec'[p] = t /\ \A a \in Accounts : a # p => rec'[a] = rec[a]
            BY <2>1, <3>2
        <3>4. t.netflow = rec[p].netflow /\ p \in stored
            BY SMTT(20), <2>1, <2>2, <2>4, <3>1 DEF StreamRecord, CoreInv, StoredInv
        <3>5. ASSUME NEW q \in Payers
              PROVE  PayerInv(q)' /\ rec'[q].status = rec[q].status
            <4>1. PayerInv(q)
                BY DEF LInv
            <4>2. PayerSame(q)
                BY <2>1, <3>1, <3>3, <3>4, AccountFacts DEF PayerSame, Resuming
            <4> QED
                BY Zenon, <2>4, <4>1, <4>2, PayerKept DEF PayerSame
        <3>6. \A a \in Accounts : rec'[a] = rec[a] \/ (a \in stored' /\ rec'[a].crud <= now')
            BY <2>1, <2>4, <3>1, <3>3, <3>4
        <3>7. LInv'
            BY SMTT(20), <2>1, <2>4, <3>5, <3>6, LedgerKept
        <3> QED
            BY <2>1, <2>4, <3>5, <3>7, SameStatus, <1>FrozenStorageBooks DEF SoundStep
    <2> QED
        BY <2>3, <2>4 DEF ForcedUnlockFee
(* The storage EndBlocker charges for an early deletion.                   *)
<1>ForcedEarlyDeletionFeeSound.
      ASSUME IInv, TypeOK', LInv, NEW p \in Payers, NEW r \in Receivers, NEW amount \in Fees,
             ForcedEarlyDeletionFee(p, r, amount)
      PROVE  SoundStep
    <2> USE <1>ForcedEarlyDeletionFeeSound
    <2> DEFINE c == Change(-amount, 0, 0)
               pull == PullAmount(Settled(rec[p], c), bank[p])
               s == Updated(rec[p], c, bank[p])
               t == Balanced(rec[p], c, bank[p])
               e == Credited(rec[r], amount, 0)
    <2>1. /\ TypeOK /\ CoreInv /\ phase = "storage" /\ now \in Nat /\ params \in ParamSets
          /\ p \in Accounts /\ r \in Accounts /\ Gov \in Accounts /\ p # r /\ p # Gov /\ r # Gov
          /\ rec \in [Accounts -> StreamRecord] /\ rec[p] \in StreamRecord /\ bank[p] \in Nat /\ module \in Int
          /\ rec[r] \in StreamRecord /\ rec[r].crud <= now /\ rec[p].crud <= now
          /\ UNCHANGED <<now, active, frozen, autoResume, delayed>>
        <3>1. phase = "storage" /\ UNCHANGED <<now, active, frozen, autoResume, delayed>>
            BY DEF ForcedEarlyDeletionFee, flowVars, acctVars
        <3>2. p \in Accounts /\ r \in Accounts /\ Gov \in Accounts /\ p # r /\ p # Gov /\ r # Gov
            BY AccountFacts
        <3>3. TypeOK /\ CoreInv /\ (\A a \in Accounts : rec[a].crud <= now)
            BY DEF IInv, LInv, ClockInv
        <3>4. /\ now \in Nat /\ params \in ParamSets /\ module \in Int
              /\ rec \in [Accounts -> StreamRecord] /\ rec[p] \in StreamRecord /\ rec[r] \in StreamRecord /\ bank[p] \in Nat
            BY <3>2, <3>3 DEF TypeOK
        <3> QED
            BY <3>1, <3>2, <3>3, <3>4
    <2>2. c \in ChangeRecord /\ c.static = -amount /\ amount \in Int
        BY SMTT(20), FeesType, ChangeType
    <2>3. CASE /\ rec[p].status = "active"
               /\ rec' = [rec EXCEPT ![p] = s, ![r] = e, ![Gov] = GovAfter(t)]
               /\ stored' = (stored \cup {p, r}) \cup (IF Overdue(t) THEN {Gov} ELSE {})
               /\ module' = module + pull + GovPull(t)
               /\ autoSettle' = Requeue(autoSettle, p, rec[p].settle, SettleTime(t))
        <3>1. t \in StreamRecord
            BY Zenon, <2>1, <2>2, BalancedRecord
        <3>2. s.settle = SettleTime(t) /\ pull \in Nat
            BY Zenon, <2>1, <2>2, <2>3, UpdatedLedger
        <3> HIDE DEF c, s, t, e, pull
        <3>3. GovPull(t) \in Nat
            BY <2>1, <3>1, GovFacts
        <3>4. /\ rec'[p] = s /\ rec'[r] = e /\ rec'[Gov] = GovAfter(t)
              /\ \A a \in Accounts : a # p /\ a # r /\ a # Gov => rec'[a] = rec[a]
            BY Zenon, <2>1, <2>3
        <3>5. stored \subseteq stored' /\ p \in stored' /\ r \in stored' /\ (Overdue(t) => Gov \in stored')
            BY <2>3
        <3>6. autoSettle' = Requeue(autoSettle, p, rec[p].settle, s.settle)
            BY <2>3, <3>2
        <3>7. UpdateStep(p, rec[p], c, bank[p], 0, r, amount)
            BY Zenon, <2>1, <2>2, <2>3, <3>4, <3>5, <3>6, FeeForm DEF s, t, e
        <3>8. module' = ((module + pull) + GovPull(t)) + (c.static + amount)
            BY SMTT(20), <2>1, <2>2, <2>3, <3>2, <3>3
        <3>9. StandsFor(rec[p], p) /\ phase # "tx"
            BY <2>1, <2>3, OwnRecord
        <3> QED
            BY Zenon, <2>1, <2>2, <2>3, <3>7, <3>8, <3>9, ZeroInt, UpdateStepSound DEF t, pull
    <2>4. CASE /\ rec[p].status = "frozen" /\ rec' = [rec EXCEPT ![r] = e]
               /\ stored' = stored \cup {r} /\ UNCHANGED <<autoSettle, bank, module>>
        <3>1. e.crud = now
            BY <2>1, <2>2, CreditedWorth, ZeroInt
        <3> HIDE DEF e
        <3>2. rec'[r] = e /\ \A a \in Accounts : a # r => rec'[a] = rec[a]
            BY <2>1, <2>4
        <3>3. \A q \in Payers : rec'[q] = rec[q]
            BY <3>2, AccountFacts
        <3>4. \A a \in Accounts : rec'[a] = rec[a] \/ (a \in stored' /\ rec'[a].crud <= now)
            BY SMTT(20), <2>1, <2>4, <3>1, <3>2
        <3>5. LInv' /\ StatusStep
            BY <2>1, <2>4, <3>3, <3>4, PayersUntouched
        <3> QED
            BY <2>1, <2>4, <3>5, <1>FrozenStorageBooks DEF SoundStep
    <2> QED
        BY <2>3, <2>4 DEF ForcedEarlyDeletionFee
(* Taking back flows leaves a total that is no smaller than before.        *)
<1>UnchargeTotal.
      ASSUME NEW b \in [Accounts -> Int], \A a \in Accounts : b[a] <= 0
      PROVE  Sum(b, NumAccounts) \in Int /\ Sum(b, NumAccounts) <= 0
    <2> USE <1>UnchargeTotal
    <2> DEFINE f == [a \in Accounts |-> -b[a]]
    <2>1. f \in [Accounts -> Int] /\ f \in [Accounts -> Nat] /\ \A a \in Accounts : f[a] = -b[a]
        BY SMTT(20)
    <2> HIDE DEF f
    <2>2. /\ Sum(f, NumAccounts) \in Nat /\ Sum(b, NumAccounts) \in Int
          /\ Sum(f, NumAccounts) + Sum(b, NumAccounts) = 0
        BY <2>1, TotalNegated, TotalNat
    <2> QED
        BY SMTT(20), <2>2
(* The storage EndBlocker takes back flows of a frozen payer.              *)
<1>ForcedFrozenUserFlowsSound.
      ASSUME IInv, TypeOK', LInv, NEW p \in Payers, NEW b \in Bills, ForcedFrozenUserFlows(p, b)
      PROVE  SoundStep
    <2> USE <1>ForcedFrozenUserFlowsSound
    <2> DEFINE onA == OnActive(p, b)
               onF == OnFrozen(p, b)
               c == Change(0, -BillTotal(onA), 0)
               s == UpdatedFrozen(rec[p], c, -BillTotal(onF))
               dA == MergeDelta(active[p], onA)
               dF == MergeDelta(frozen[p], onF)
               u == [s EXCEPT !.outFlowCount = @ + (dA + dF)]
    <2>1. /\ TypeOK /\ CoreInv /\ phase = "storage" /\ rec[p].status = "frozen" /\ Uncharge(b)
          /\ rec' = RecWith(p, u, onA)
          /\ active' = Merged(active, p, onA) /\ frozen' = Merged(frozen, p, onF)
          /\ stored' = stored \cup OnBill(onA)
          /\ UNCHANGED <<now, autoSettle, autoResume>>
        BY DEF IInv, ForcedFrozenUserFlows, Merged
    <2>2. /\ p \in Accounts /\ rec[p] \in StreamRecord /\ rec[p].buffer >= 0 /\ now \in Nat
          /\ active[p] \in [Accounts -> Nat] /\ frozen[p] \in [Accounts -> Nat]
        BY <2>1, AccountFacts DEF TypeOK, CoreInv, RecordsInv
    <2>3. /\ b \in [Accounts -> Int] /\ (\A a \in Accounts \ Receivers : b[a] = 0) /\ \A a \in Accounts : b[a] <= 0
        BY <2>1, BillsAssumption DEF Uncharge
    <2>4. /\ onA \in BillRates /\ onA \in [Accounts -> Int] /\ onF \in [Accounts -> Int]
          /\ \A a \in Accounts : onA[a] <= 0
        BY SMTT(20), <2>3 DEF OnActive, OnFrozen, BillRates
    <2> HIDE DEF onA, onF
    <2>5. /\ Sum(onA, NumAccounts) \in Int /\ Sum(onA, NumAccounts) <= 0
          /\ -Sum(onA, NumAccounts) \in Int /\ -Sum(onF, NumAccounts) \in Int
        BY SMTT(20), <2>4, <1>UnchargeTotal, TotalInt
    <2>6. c \in ChangeRecord /\ c.rate = -Sum(onA, NumAccounts)
        BY SMTT(20), <2>5, ChangeType, ZeroInt DEF BillTotal
    <2>7. /\ s \in StreamRecord /\ s.netflow = rec[p].netflow + c.rate /\ s.status = rec[p].status
          /\ s.outFlowCount = rec[p].outFlowCount /\ s.settle = rec[p].settle /\ s.buffer = rec[p].buffer
          /\ s.crud = rec[p].crud
        BY <2>2, <2>5, <2>6, <1>UpdatedFrozenLedger DEF BillTotal
    <2>8. /\ NumFlows(Merge(active[p], onA)) = NumFlows(active[p]) + dA /\ dA \in Int
          /\ NumFlows(Merge(frozen[p], onF)) = NumFlows(frozen[p]) + dF /\ dF \in Int
        BY Zenon, <2>2, <2>4, MergeCount
    <2> HIDE DEF c, s, dA, dF
    <2>9. /\ u \in StreamRecord /\ u.netflow = s.netflow /\ u.status = s.status /\ u.settle = s.settle
          /\ u.buffer = s.buffer /\ u.crud = s.crud /\ u.outFlowCount = s.outFlowCount + (dA + dF)
        BY SMTT(20), <2>7, <2>8 DEF StreamRecord
    <2> HIDE DEF u
    <2>10. /\ rec'[p] = u
           /\ \A a \in Accounts : a # p => rec'[a] = IF onA[a] # 0 THEN Credited(rec[a], 0, onA[a]) ELSE rec[a]
        BY <2>1, <2>4, <2>9, RecWithValues
    <2>11. /\ active'[p] = Merge(active[p], onA) /\ frozen'[p] = Merge(frozen[p], onF)
           /\ \A q \in Payers : q # p => active'[q] = active[q] /\ frozen'[q] = frozen[q]
        BY <2>1 DEF Merged, TypeOK
    <2>12. rec'[p].outFlowCount = FlowCount(p)'
        <3>1. FlowCount(p)' = NumFlows(Merge(active[p], onA)) + NumFlows(Merge(frozen[p], onF))
            BY Zenon, <2>11 DEF FlowCount, NumFlows
        <3>2. rec[p].outFlowCount = NumFlows(active[p]) + NumFlows(frozen[p])
            BY Zenon DEF LInv, PayerInv, FlowCount
        <3>3. NumFlows(active[p]) \in Nat /\ NumFlows(frozen[p]) \in Nat
            BY NumFlowsNat
        <3> QED
            BY SMTT(20), <2>7, <2>8, <2>9, <2>10, <3>1, <3>2, <3>3
    <2>13. rec'[p].netflow < 0 => rec[p].netflow < 0
        BY SMTT(20), <2>2, <2>5, <2>6, <2>7, <2>9, <2>10 DEF StreamRecord
    <2>14. \A q \in Payers : q # p => rec'[q] = rec[q]
        BY <2>4, <2>10, AccountFacts DEF BillRates
    <2>15. \A a \in Accounts : a = p \/ rec'[a] = rec[a] \/ (a \in stored' /\ rec'[a].crud = now)
        <3> SUFFICES ASSUME NEW a \in Accounts, a # p, rec'[a] # rec[a]
                     PROVE  a \in stored' /\ rec'[a].crud = now
            OBVIOUS
        <3>1. onA[a] # 0 /\ onA[a] \in Int /\ rec'[a] = Credited(rec[a], 0, onA[a])
            BY <2>4, <2>10
        <3> QED
            BY <2>1, <3>1, RateChangeWorth DEF OnBill
    <2>16. LInv' /\ StatusStep
        <3>1. /\ rec'[p].status = "frozen" /\ rec'[p].settle = rec[p].settle /\ rec'[p].buffer = rec[p].buffer
              /\ rec'[p].crud = rec[p].crud
            BY <2>1, <2>7, <2>9, <2>10
        <3>2. stored \subseteq stored' /\ UNCHANGED <<now, autoSettle, autoResume>>
            BY <2>1
        <3> QED
            BY Zenon, <2>1, <2>11, <2>12, <2>13, <2>14, <2>15, <3>1, <3>2, FrozenStepKeeps
    <2> QED
        BY <2>1, <2>16, <1>FrozenStorageBooks DEF SoundStep
<1> QED
    BY <1>ForcedActiveUserFlowsSound, <1>ForcedFrozenUserFlowsSound, <1>ForcedUnlockFeeSound,
       <1>ForcedEarlyDeletionFeeSound DEF StorageEndBlock

(* The flow to r moves from f to g, which become f1 and g1.                *)
MovesFlow(f, g, f1, g1, r) ==
    /\ r \in Accounts /\ f[r] # 0 /\ g[r] = 0 /\ f1[r] = 0 /\ g1[r] # 0
    /\ \A a \in Accounts : a # r => f1[a] = f[a] /\ g1[a] = g[a]

(* Every step of the payment EndBlock, the next block and stuttering are   *)
(* sound.                                                                  *)
LEMMA LoopsSound ==
    (IInv /\ TypeOK' /\ LInv) /\ (EndBlock \/ (\E gap \in BlockGaps : NextBlock(gap)) \/ UNCHANGED vars)
        => SoundStep
(* AutoResume ends a resume: the payer is active again, or, if it cannot   *)
(* pay, frozen again.                                                      *)
<1>ResumeFinishSound.
      ASSUME IInv, TypeOK', LInv, ResumeFinish
      PROVE  SoundStep
    <2> USE <1>ResumeFinishSound
    <2> DEFINE p == visit.addr
               s == [rec[p] EXCEPT !.status = "active"]
    <2>1. /\ TypeOK /\ p \in Payers /\ <<visit.ts, p>> \in autoResume /\ phase = "resume" /\ p \in Accounts
          /\ rec[p] \in StreamRecord /\ now \in Nat
        BY AccountFacts, VisitFacts DEF IInv, TypeOK, LoopInv, ResumeFinish
    <2>2. /\ ForceUpdate(p, s, NoChange, 0, NoRates) /\ autoResume' = autoResume \ {<<visit.ts, p>>}
          /\ UNCHANGED <<active, frozen, now, delayed>>
        BY DEF ResumeFinish, flowVars, acctVars
    <2>3. NoChange \in ChangeRecord /\ NoChange.static = 0
        BY SMTT(20), ChangeType, ZeroInt DEF NoChange
    <2> HIDE DEF p
    <2>4. StandsFor(s, p)
        BY <2>1 DEF StandsFor, StreamRecord, Worth, Holding
    <2>5. Resuming(p) /\ phase # "tx"
        BY <2>1 DEF Resuming
    <2>6. \A q \in Payers : q # p /\ Resuming(q) => Resuming(q)'
        BY SMTT(20), <2>2 DEF Resuming
    <2> QED
        BY Zenon, <2>1, <2>2, <2>3, <2>4, <2>5, <2>6, ForceQuietSound
(* AutoSettle settles a payer that is due.                                 *)
<1>SettleActiveSound.
      ASSUME IInv, TypeOK', LInv, NEW q \in todo, SettleActive(q)
      PROVE  SoundStep
    <2> USE <1>SettleActiveSound
    <2> DEFINE p == q[2]
    <2>1. /\ TypeOK /\ p \in Payers /\ phase = "settle" /\ rec[p].status = "active"
          /\ ForceUpdate(p, rec[p], NoChange, 0, NoRates)
          /\ UNCHANGED <<active, frozen, now, delayed, autoResume>>
        BY DEF IInv, TypeOK, QueueRecord, SettleActive, flowVars, acctVars
    <2>2. NoChange \in ChangeRecord /\ NoChange.static = 0
        BY SMTT(20), ChangeType, ZeroInt DEF NoChange
    <2> HIDE DEF p
    <2>3. StandsFor(rec[p], p) /\ phase # "tx"
        BY <2>1, OwnRecord
    <2>4. \A x \in Payers : x # p /\ Resuming(x) => Resuming(x)'
        BY <2>1 DEF Resuming
    <2> QED
        BY Zenon, <2>1, <2>2, <2>3, <2>4, ForceQuietSound
(* Moving one flow between the active and the frozen flows leaves as many. *)
<1>MoveCount.
      ASSUME NEW f, NEW g, NEW f1, NEW g1, NEW r, MovesFlow(f, g, f1, g1, r)
      PROVE  /\ NumFlows(f1) + NumFlows(g1) = NumFlows(f) + NumFlows(g)
             /\ NumFlows(g1) + NumFlows(f1) = NumFlows(g) + NumFlows(f)
    <2> USE <1>MoveCount
    <2>1. AsManyFlows(f, g, f1, g1) /\ AsManyFlows(g, f, g1, f1)
        BY SMT DEF MovesFlow, AsManyFlows, Present
    <2> QED
        BY SMTT(20), <2>1, SameCount
(* A record with a rate moved holds the same money.                        *)
<1>MovedLedger.
      ASSUME NEW s \in StreamRecord, NEW d \in Int
      PROVE  LET t == [s EXCEPT !.netflow = @ - d, !.frozen = @ + d] IN
             /\ t \in StreamRecord /\ t.netflow = s.netflow - d /\ t.status = s.status
             /\ t.settle = s.settle /\ t.buffer = s.buffer /\ t.crud = s.crud
             /\ t.outFlowCount = s.outFlowCount /\ Holding(t) = Holding(s)
    <2> USE <1>MovedLedger
    <2> DEFINE t == [s EXCEPT !.netflow = @ - d, !.frozen = @ + d]
    <2>1. s.netflow - d \in Int /\ s.frozen + d \in Int
        BY SMTT(20) DEF StreamRecord
    <2>2. /\ t.netflow = s.netflow - d /\ t.status = s.status /\ t.settle = s.settle /\ t.buffer = s.buffer
          /\ t.crud = s.crud /\ t.outFlowCount = s.outFlowCount /\ t.static = s.static /\ t.lock = s.lock
        BY DEF StreamRecord
    <2>3. t \in StreamRecord
        BY Zenon, <2>1 DEF StreamRecord
    <2> HIDE DEF t
    <2>4. Holding(t) = Holding(s)
        BY <2>2 DEF Holding
    <2> QED
        BY <2>2, <2>3, <2>4 DEF t
(* One flow of a frozen payer moves in either loop.                        *)
<1>FlowMovedSound.
      ASSUME IInv, TypeOK', LInv, NEW p \in Payers, NEW r \in Receivers, NEW d \in Int, FlowMoved(p, r, d),
             rec[p].status = "frozen", FlowCount(p)' = FlowCount(p), Resuming(p) \/ d <= 0,
             UNCHANGED <<now, autoSettle, autoResume, module, delayed>>
      PROVE  SoundStep
    <2> USE <1>FlowMovedSound
    <2> DEFINE t == [rec[p] EXCEPT !.netflow = @ - d, !.frozen = @ + d]
               e == Credited(rec[r], 0, d)
    <2>1. /\ TypeOK /\ CoreInv /\ now \in Nat /\ p \in Accounts /\ r \in Accounts /\ p # r
          /\ rec \in [Accounts -> StreamRecord] /\ rec[p] \in StreamRecord
          /\ active \in [Payers -> [Accounts -> Nat]] /\ frozen \in [Payers -> [Accounts -> Nat]]
        BY AccountFacts DEF IInv, TypeOK
    <2>2. /\ t \in StreamRecord /\ t.netflow = rec[p].netflow - d /\ t.status = rec[p].status
          /\ t.settle = rec[p].settle /\ t.buffer = rec[p].buffer /\ t.crud = rec[p].crud
          /\ t.outFlowCount = rec[p].outFlowCount /\ Holding(t) = Holding(rec[p])
        BY Zenon, <2>1, <1>MovedLedger
    <2>3. /\ rec' = [rec EXCEPT ![r] = e, ![p] = t] /\ stored' = stored \cup {r}
        BY DEF FlowMoved
    <2> HIDE DEF t, e
    <2>4. rec'[p] = t /\ rec'[r] = e /\ \A a \in Accounts : a # p /\ a # r => rec'[a] = rec[a]
        BY <2>1, <2>3
    <2>5. \A a \in Accounts : a # p =>
              /\ rec'[a] = rec[a] \/ (a \in stored' /\ rec'[a].crud = now)
              /\ Worth(rec'[a], now) = Worth(rec[a], now)
        <3>1. (rec'[r] = rec[r] \/ rec'[r].crud = now) /\ Worth(rec'[r], now) = Worth(rec[r], now)
            BY <2>1, <2>4, RateChangeWorth DEF e
        <3> QED
            BY Zenon, <2>3, <2>4, <3>1
    <2>6. LInv' /\ StatusStep
        <3>1. \A q \in Payers : q # p => rec'[q] = rec[q] /\ active'[q] = active[q] /\ frozen'[q] = frozen[q]
            BY <2>1, <2>4, AccountFacts DEF FlowMoved
        <3>2. /\ rec'[p].status = "frozen" /\ rec'[p].settle = rec[p].settle /\ rec'[p].buffer = rec[p].buffer
              /\ rec'[p].crud = rec[p].crud
            BY <2>2, <2>4
        <3>3. rec'[p].outFlowCount = FlowCount(p)'
            BY Zenon, <2>2, <2>4 DEF LInv, PayerInv
        <3>4. rec'[p].netflow < 0 /\ ~Resuming(p) => rec[p].netflow < 0
            BY SMTT(20), <2>1, <2>2, <2>4 DEF StreamRecord
        <3>5. \A a \in Accounts : a = p \/ rec'[a] = rec[a] \/ (a \in stored' /\ rec'[a].crud = now)
            BY Zenon, <2>5
        <3>6. stored \subseteq stored' /\ UNCHANGED <<now, autoSettle, autoResume>>
            BY <2>3
        <3> QED
            BY Zenon, <3>1, <3>2, <3>3, <3>4, <3>5, <3>6, FrozenStepKeeps
    <2>7. BooksStep
        <3> SUFFICES ASSUME \A q \in Payers : rec[q].status = "active" \/ (rec[q].crud = now /\ phase # "storage")
                     PROVE  BooksKept
            BY DEF BooksStep
        <3>1. rec[p].crud = now
            OBVIOUS
        <3>2. Worth(rec'[p], now) = Worth(rec[p], now)
            <4>1. Worth(rec[p], now) = Holding(rec[p])
                BY <2>1, <3>1, WorthNow
            <4>2. Worth(t, now) = Holding(t)
                BY <2>1, <2>2, <3>1, WorthNow
            <4> QED
                BY <2>2, <2>4, <4>1, <4>2
        <3>3. \A a \in Accounts : Stake(a)' = Stake(a)
            BY <2>5, <3>2 DEF Stake
        <3> QED
            BY <2>1, <3>3, BooksSame
    <2> QED
        BY <2>6, <2>7 DEF SoundStep
(* AutoResume makes one flow active again.                                 *)
<1>ResumeFlowSound.
      ASSUME IInv, TypeOK', LInv, NEW r \in Receivers, ResumeFlow(r)
      PROVE  SoundStep
    <2> USE <1>ResumeFlowSound
    <2>1. PICK p \in Payers, rate \in Nat :
            p = visit.addr /\ rate = frozen[p][r] /\ FlowMoved(p, r, rate) /\ rate # 0 /\ active[p][r] = 0
        BY Zenon, ResumeFlowMoves
    <2>2. /\ TypeOK /\ rec[p].status = "frozen" /\ <<visit.ts, p>> \in autoResume
          /\ UNCHANGED <<now, autoSettle, autoResume, module, delayed>>
          /\ frozen' = [frozen EXCEPT ![p] = [frozen[p] EXCEPT ![r] = 0]]
          /\ active' = [active EXCEPT ![p] = [active[p] EXCEPT ![r] = rate]]
        BY <2>1 DEF IInv, LoopInv, ResumeFlow, acctVars
    <2>3. /\ active[p] \in [Accounts -> Nat] /\ frozen[p] \in [Accounts -> Nat] /\ r \in Accounts
          /\ active'[p] = [active[p] EXCEPT ![r] = rate] /\ frozen'[p] = [frozen[p] EXCEPT ![r] = 0]
        BY <2>2, AccountFacts DEF TypeOK
    <2>4. FlowCount(p)' = FlowCount(p)
        <3>1. MovesFlow(frozen[p], active[p], frozen'[p], active'[p], r)
            BY <2>1, <2>3 DEF MovesFlow
        <3>2. NumFlows(active'[p]) + NumFlows(frozen'[p])
                  = NumFlows(active[p]) + NumFlows(frozen[p])
            BY SMTT(20), <3>1, <1>MoveCount
        <3> QED
            BY <3>2 DEF FlowCount, NumFlows
    <2>5. Resuming(p) /\ rate \in Int
        BY SMTT(20), <2>2 DEF Resuming
    <2> QED
        BY Zenon, <2>1, <2>2, <2>4, <2>5, <1>FlowMovedSound
(* AutoSettle freezes one flow.                                            *)
<1>SettleFlowSound.
      ASSUME IInv, TypeOK', LInv, NEW r \in Receivers, SettleFlow(r)
      PROVE  SoundStep
    <2> USE <1>SettleFlowSound
    <2>1. PICK p \in Payers, rate \in Nat :
            p = visit.addr /\ rate = active[p][r] /\ FlowMoved(p, r, -rate) /\ rate # 0 /\ frozen[p][r] = 0
        BY Zenon, SettleFlowMoves
    <2>2. /\ TypeOK /\ rec[p].status = "frozen"
          /\ UNCHANGED <<now, autoSettle, autoResume, module, delayed>>
          /\ frozen' = [frozen EXCEPT ![p] = [frozen[p] EXCEPT ![r] = rate]]
          /\ active' = [active EXCEPT ![p] = [active[p] EXCEPT ![r] = 0]]
        BY <2>1 DEF IInv, LoopInv, SettleFlow, acctVars
    <2>3. /\ active[p] \in [Accounts -> Nat] /\ frozen[p] \in [Accounts -> Nat] /\ r \in Accounts
          /\ active'[p] = [active[p] EXCEPT ![r] = 0] /\ frozen'[p] = [frozen[p] EXCEPT ![r] = rate]
        BY <2>2, AccountFacts DEF TypeOK
    <2>4. FlowCount(p)' = FlowCount(p)
        <3>1. MovesFlow(active[p], frozen[p], active'[p], frozen'[p], r)
            BY <2>1, <2>3 DEF MovesFlow
        <3>2. NumFlows(active'[p]) + NumFlows(frozen'[p])
                  = NumFlows(active[p]) + NumFlows(frozen[p])
            BY SMTT(20), <3>1, <1>MoveCount
        <3> QED
            BY <3>2 DEF FlowCount, NumFlows
    <2>5. -rate \in Int /\ -rate <= 0
        BY SMTT(20)
    <2> QED
        BY Zenon, <2>1, <2>2, <2>4, <2>5, <1>FlowMovedSound
(* A step of the EndBlock loops that changes only where they are.          *)
<1>LoopOnlySound.
      ASSUME IInv, TypeOK', LInv,
             UNCHANGED <<now, stored, rec, active, frozen, autoSettle, autoResume, module, delayed>>
      PROVE  SoundStep
    <2> USE <1>LoopOnlySound
    <2>1. TypeOK /\ now' >= now
        BY SMTT(20) DEF IInv, TypeOK
    <2>2. LInv' /\ StatusStep
        BY <2>1, UntouchedLedger, SameStatus
    <2>3. \A a \in Accounts : Stake(a)' = Stake(a)
        BY DEF Stake
    <2>4. BooksKept
        BY <2>1, <2>3, BooksSame
    <2> QED
        BY <2>2, <2>4 DEF SoundStep, BooksStep
(* The EndBlock steps that change only where the loops are.                *)
<1>LoopStepsSound.
      ASSUME IInv, TypeOK', LInv,
             \/ StartEndBlock \/ ResumeStop \/ ResumeEnd \/ SettleStop \/ SettleEnd
             \/ \E q \in todo : ResumeVisit(q) \/ SettleFrozen(q)
      PROVE  SoundStep
    <2> USE <1>LoopStepsSound
    <2>1. UNCHANGED <<now, stored, rec, active, frozen, autoSettle, autoResume, module, delayed>>
        BY DEF StartEndBlock, ResumeStop, ResumeEnd, SettleStop, SettleEnd, ResumeVisit, SettleFrozen,
               flowVars, acctVars
    <2> QED
        BY <2>1, <1>LoopOnlySound
(* AutoSettle is done with a payer: no flow of it is active, so it spends  *)
(* nothing and needs no place in the queue.                                *)
<1>SettleFinishSound.
      ASSUME IInv, TypeOK', LInv, SettleFinish
      PROVE  SoundStep
    <2> USE <1>SettleFinishSound
    <2>1. /\ TypeOK /\ CoreInv /\ visit.addr \in Payers
          /\ UNCHANGED <<now, stored, rec, active, frozen, autoResume, module, delayed>>
        BY VisitFacts DEF IInv, SettleFinish, flowVars, acctVars
    <2>2. PICK p \in Payers : p = visit.addr
        BY <2>1
    <2>3. ~HasFlows(active[p]) /\ autoSettle' = autoSettle \ {<<visit.ts, p>>}
        BY <2>2 DEF SettleFinish
    <2>4. ASSUME NEW q \in Payers
          PROVE  PayerInv(q)'
        <3>1. PayerInv(q)
            BY DEF LInv
        <3>2. PayerSame(q)
            BY <2>1 DEF PayerSame, Resuming
        <3>3. CASE q # p
            BY Zenon, <2>3, <3>1, <3>2, <3>3, PayerKept
        <3>4. CASE q = p
            <4>1. rec[q].netflow = 0
                BY <2>1, <2>3, <3>4, PayerOwes
            <4>2. FlowCount(q)' = FlowCount(q)
                BY <2>1 DEF FlowCount, NumFlows
            <4> QED
                BY SMTT(20), <3>1, <3>2, <4>1, <4>2 DEF PayerInv, PayerSame
        <3> QED
            BY <3>3, <3>4
    <2>5. now' >= now
        BY SMTT(20), <2>1 DEF TypeOK
    <2>6. LInv'
        BY <2>1, <2>4, <2>5, LedgerKept
    <2>7. \A a \in Accounts : Stake(a)' = Stake(a)
        BY <2>1 DEF Stake
    <2>8. BooksKept
        BY <2>1, <2>7, BooksSame
    <2>9. StatusStep
        BY <2>1, SameStatus
    <2> QED
        BY <2>6, <2>8, <2>9 DEF SoundStep, BooksStep
(* What a record of balance b, rate x and time c accrues in g more seconds. *)
<1>AccruesFurther.
      ASSUME NEW b \in Int, NEW x \in Int, NEW w \in Int, NEW c \in Int, NEW e \in Int, NEW g \in Nat
      PROVE  (b + x * ((w + g) - c)) + e = ((b + x * (w - c)) + e) + x * g
    <2> USE <1>AccruesFurther
    <2>1. PICK u \in Int : u = w - c
        BY SMTT(20)
    <2>2. (w + g) - c = u + g
        BY SMTT(20), <2>1
    <2>3. x * (u + g) = x * u + x * g
        BY SMTT(20)
    <2>4. PICK y \in Int, z \in Int : y = x * u /\ z = x * g
        BY SMTT(20)
    <2>5. (b + (y + z)) + e = ((b + y) + e) + z
        BY SMTT(20)
    <2> QED
        BY Zenon, <2>1, <2>2, <2>3, <2>4, <2>5
(* A new block: every record accrues at its rate, and the rates cancel     *)
(* out.                                                                    *)
<1>NextBlockSound.
      ASSUME IInv, TypeOK', LInv, NEW gap \in BlockGaps, NextBlock(gap)
      PROVE  SoundStep
    <2> USE <1>NextBlockSound
    <2>1. /\ TypeOK /\ gap \in Nat /\ now \in Nat /\ now' = now + gap /\ Reconciled
          /\ UNCHANGED <<stored, rec, active, frozen, autoSettle, autoResume, module, delayed>>
        BY ParamsAssumption DEF IInv, CoreInv, RatesInv, TypeOK, NextBlock, flowVars, acctVars
    <2>2. now' >= now
        BY SMTT(20), <2>1
    <2>3. LInv' /\ StatusStep
        BY <2>1, <2>2, UntouchedLedger, SameStatus
    <2> DEFINE f == [a \in Accounts |-> Stake(a)]
               n == [a \in Accounts |-> rec[a].netflow]
               h == [a \in Accounts |-> n[a] * gap]
               k == [a \in Accounts |-> Stake(a)']
    <2>4. f \in [Accounts -> Int] /\ Books = Sum(f, NumAccounts)
        BY <2>1, StakeInt
    <2>5. k \in [Accounts -> Int] /\ Books' = Sum(k, NumAccounts)
        BY StakeIntNext
    <2>6. n \in [Accounts -> Int]
        BY <2>1 DEF TypeOK, StreamRecord
    <2>7. Sum(n, NumAccounts) = 0
        BY <2>1 DEF Reconciled
    <2>8. \A x, y \in Int : x * y \in Int
        BY SMTT(20)
    <2>9. \A a \in Accounts : k[a] = f[a] + h[a]
        <3> SUFFICES ASSUME NEW a \in Accounts
                     PROVE  Stake(a)' = Stake(a) + rec[a].netflow * gap
            BY Zenon
        <3> DEFINE d == IF a \in Users THEN delayed[a].amount ELSE 0
        <3>1. /\ rec[a].netflow \in Int /\ rec[a].crud \in Int /\ Holding(rec[a]) \in Int /\ d \in Int
            BY SMTT(20), <2>1 DEF TypeOK, StreamRecord, Holding
        <3>2. Stake(a) = (Holding(rec[a]) + rec[a].netflow * (now - rec[a].crud)) + d
            BY DEF Stake, Worth
        <3>3. Stake(a)' = (Holding(rec[a]) + rec[a].netflow * (now' - rec[a].crud)) + d
            BY <2>1 DEF Stake, Worth, Holding
        <3> HIDE DEF d
        <3>4. PICK b \in Int, x \in Int, c \in Int, e \in Int, w \in Int :
                  b = Holding(rec[a]) /\ x = rec[a].netflow /\ c = rec[a].crud /\ e = d /\ w = now
            BY SMTT(20), <2>1, <3>1
        <3>5. Stake(a) = (b + x * (w - c)) + e /\ Stake(a)' = (b + x * ((w + gap) - c)) + e
            BY Zenon, <2>1, <3>2, <3>3, <3>4
        <3>6. (b + x * ((w + gap) - c)) + e = ((b + x * (w - c)) + e) + x * gap
            BY SMTT(20), <2>1, <1>AccruesFurther
        <3> QED
            BY Zenon, <3>4, <3>5, <3>6
    <2> HIDE DEF f, k, n
    <2>10. h \in [Accounts -> Int] /\ \A a \in Accounts : h[a] = n[a] * gap
        BY SMTT(20), <2>1, <2>6, <2>8
    <2> HIDE DEF h
    <2>11. Sum(h, NumAccounts) = Sum(n, NumAccounts) * gap
        <3>1. gap \in Int
            BY SMT, <2>1
        <3> QED
            BY Zenon, <2>6, <2>10, <3>1, AccountFacts, SumLaws DEF Accounts
    <2>12. Sum(k, NumAccounts) = Sum(f, NumAccounts) + Sum(h, NumAccounts)
        BY <2>4, <2>5, <2>9, <2>10, TotalAdd
    <2>13. Sum(h, NumAccounts) = 0 /\ Sum(f, NumAccounts) \in Int
        BY SMTT(20), <2>1, <2>4, <2>7, <2>11, TotalInt
    <2>14. Books' = Books
        BY SMTT(20), <2>4, <2>5, <2>12, <2>13
    <2> QED
        BY <2>1, <2>3, <2>14 DEF SoundStep, BooksStep, BooksKept
<1> SUFFICES ASSUME IInv, TypeOK', LInv, EndBlock \/ (\E gap \in BlockGaps : NextBlock(gap)) \/ UNCHANGED vars
                 PROVE  SoundStep
        OBVIOUS
<1>1. CASE \/ StartEndBlock \/ ResumeStop \/ ResumeEnd \/ SettleStop \/ SettleEnd
               \/ \E q \in todo : ResumeVisit(q) \/ SettleFrozen(q)
    BY <1>1, <1>LoopStepsSound
<1>2. CASE \E r \in Receivers : ResumeFlow(r) \/ SettleFlow(r)
    BY <1>2, <1>ResumeFlowSound, <1>SettleFlowSound
<1>3. CASE ResumeFinish \/ SettleFinish
    BY <1>3, <1>ResumeFinishSound, <1>SettleFinishSound
<1>4. CASE \E q \in todo : SettleActive(q)
    BY <1>4, <1>SettleActiveSound
<1>5. CASE \E gap \in BlockGaps : NextBlock(gap)
    BY <1>5, <1>NextBlockSound
<1>6. CASE UNCHANGED vars
    BY <1>6, <1>LoopOnlySound DEF vars
<1> QED
    BY <1>1, <1>2, <1>3, <1>4, <1>5, <1>6 DEF EndBlock, AutoResume, AutoSettle

=============================================================================
