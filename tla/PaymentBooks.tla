---------------------------- MODULE PaymentBooks ----------------------------
(***************************************************************************)
(* Deposits keep the invariant LInv of PaymentLedger, every step does, and *)
(* the theorems: the flows are counted, the records are the ones that the  *)
(* module accepts, payers are queued, an account's status changes only by  *)
(* the rules, and the books balance.                                       *)
(***************************************************************************)
EXTENDS PaymentSafety, PaymentLedger

(* A leaf that names no prover is for Zenon, with more time than the       *)
(* default.                                                                *)
USE ZenonT(20)

(***************************************************************************)
(* I. Deposits.                                                            *)
(***************************************************************************)

(* One account is worth more by what the module received; the others are   *)
(* worth what they were.                                                   *)
LEMMA WorthOne ==
    ASSUME TypeOK, TypeOK', NEW x \in Accounts, NEW u \in Int, now' = now, delayed' = delayed,
           Worth(rec'[x], now) = Worth(rec[x], now) + u,
           \A a \in Accounts : a # x => Worth(rec'[a], now) = Worth(rec[a], now),
           module' = module + u
    PROVE  BooksKept
<1> DEFINE d(a) == IF a \in Users THEN delayed[a].amount ELSE 0
<1>1. \A a \in Accounts : /\ Stake(a) = Worth(rec[a], now) + d(a)
                          /\ Stake(a)' = Worth(rec'[a], now) + d(a)
    BY DEF Stake
<1>2. Worth(rec[x], now) \in Int /\ d(x) \in Int
    BY SMT, WorthNow DEF TypeOK
<1> HIDE DEF d
<1>3. \A a \in Accounts : a # x => Stake(a)' = Stake(a)
    BY Zenon, <1>1
<1>4. Stake(x)' = Stake(x) + u
    BY SMT, <1>1, <1>2
<1> QED
    BY <1>3, <1>4, BooksOne

(* The first deposit to an account makes its record.                       *)
LEMMA DepositNewSound ==
    ASSUME IInv, TypeOK', LInv, NEW to \in Accounts, to \notin stored, NEW amount \in Nat,
           rec' = [rec EXCEPT ![to] = [NewStreamRecord(now) EXCEPT !.static = amount]],
           stored' = stored \cup {to}, module' = module + amount,
           UNCHANGED <<now, active, frozen, autoSettle, autoResume, delayed>>
    PROVE  SoundStep
<1> DEFINE t == [NewStreamRecord(now) EXCEPT !.static = amount]
<1>1. /\ TypeOK /\ CoreInv /\ now \in Nat /\ rec \in [Accounts -> StreamRecord] /\ rec[to] \in StreamRecord
    BY DEF IInv, TypeOK
<1>2. /\ rec[to].netflow = 0 /\ rec[to].frozen = 0 /\ rec[to].status = "active"
      /\ rec[to].static = 0 /\ rec[to].buffer = 0 /\ rec[to].lock = 0
    BY <1>1 DEF CoreInv, StoredInv, LInv, FreshInv
<1>3. /\ t.netflow = 0 /\ t.lock = 0 /\ t.buffer = 0 /\ t.static = amount /\ t.settle = 0
      /\ t.status = "active" /\ t.crud = now /\ t.outFlowCount = 0
    BY DEF NewStreamRecord
<1>4. rec' = [rec EXCEPT ![to] = t]
    OBVIOUS
<1> HIDE DEF t
<1>5. rec'[to] = t /\ \A a \in Accounts : a # to => rec'[a] = rec[a]
    BY <1>1, <1>4
<1>a. /\ rec'[to].crud = now /\ rec'[to].netflow = 0 /\ rec'[to].static = amount /\ rec'[to].buffer = 0
       /\ rec'[to].lock = 0
    BY Zenon, <1>3, <1>5
<1>6. ASSUME NEW q \in Payers
      PROVE  PayerInv(q)' /\ rec'[q].status = rec[q].status
    <2>1. PayerInv(q) /\ q \in Accounts
        BY AccountFacts DEF LInv
    <2>2. CASE q # to
        <3>1. PayerSame(q)
            BY <1>5, <2>1, <2>2 DEF PayerSame, Resuming
        <3> QED
            BY Zenon, <1>5, <2>1, <2>2, <3>1, PayerKept
    <2>3. CASE q = to
        <3>1. FlowCount(q) = 0
            BY <1>1, <1>2, <2>3, NoFlowsCount
        <3>2. FlowCount(q)' = FlowCount(q)
            BY DEF FlowCount, NumFlows
        <3> QED
            BY ZenonT(30), <1>2, <1>3, <1>5, <2>3, <3>1, <3>2 DEF PayerInv
    <2> QED
        BY <2>2, <2>3
<1>7. LInv' /\ StatusStep
    <2>1. \A a \in Accounts : rec'[a] = rec[a] \/ (a \in stored' /\ rec'[a].crud <= now')
        <3>1. to \in stored' /\ now <= now' /\ now' = now
            BY SMT, <1>1
        <3> QED
            BY Zenon, <1>5, <1>a, <3>1
    <2>2. now' >= now /\ stored \subseteq stored'
        BY SMT, <1>1
    <2> QED
        BY <1>1, <1>6, <2>1, <2>2, LedgerKept, SameStatus
<1>8. Worth(rec'[to], now) = Worth(rec[to], now) + amount
    <2>1. Holding(rec[to]) = 0 /\ Holding(rec'[to]) = amount /\ rec'[to].netflow = 0 /\ rec'[to].crud \in Int
        <3>1. 0 + 0 + 0 = 0 /\ amount + 0 + 0 = amount
            BY SMT
        <3> QED
            BY Zenon, <1>1, <1>2, <1>a, <3>1, NatInt DEF Holding
    <2>2. \A x \in Int : 0 * x = 0
        BY SMT
    <2>3. now - rec[to].crud \in Int /\ now - rec'[to].crud \in Int
        BY SMT, <1>1, <2>1 DEF StreamRecord
    <2>4. Worth(rec[to], now) = 0 + 0 /\ Worth(rec'[to], now) = amount + 0
        BY Zenon, <1>2, <2>1, <2>2, <2>3 DEF Worth
    <2> QED
        BY SMT, <2>4
<1>9. \A a \in Accounts : a # to => Worth(rec'[a], now) = Worth(rec[a], now)
    BY Zenon, <1>5
<1>10. BooksKept
    <2>1. amount \in Int
        BY SMT
    <2> QED
        BY Zenon, <1>1, <1>8, <1>9, <2>1, WorthOne
<1> QED
    BY <1>7, <1>10 DEF SoundStep, BooksStep

(* A deposit to an account in good standing.                               *)
LEMMA DepositActiveSound ==
    ASSUME IInv, TypeOK', LInv, phase = "tx", NEW to \in stored, NEW amount \in Nat, NEW b \in Nat,
           CanUpdate(rec[to], Change(amount, 0, 0), b),
           rec' = [rec EXCEPT ![to] = Updated(@, Change(amount, 0, 0), b)],
           autoSettle' = Requeue(autoSettle, to, rec[to].settle, Updated(rec[to], Change(amount, 0, 0), b).settle),
           module' = module + amount + PullAmount(Settled(rec[to], Change(amount, 0, 0)), b),
           UNCHANGED <<now, stored, active, frozen, autoResume, delayed>>
    PROVE  SoundStep
<1> DEFINE c == Change(amount, 0, 0)
           pull == PullAmount(Settled(rec[to], c), b)
           t == Balanced(rec[to], c, b)
           u == Updated(rec[to], c, b)
<1>1. /\ TypeOK /\ CoreInv /\ now \in Nat /\ params \in ParamSets /\ rec \in [Accounts -> StreamRecord]
      /\ to \in Accounts /\ rec[to] \in StreamRecord /\ rec[to].crud <= now /\ module \in Int
      /\ rec[to].status = "active" /\ ~Overdue(t) /\ Gov \in Accounts
    BY AccountFacts DEF IInv, TypeOK, LInv, ClockInv, CanUpdate
<1>2. c \in ChangeRecord /\ c.static = amount
    BY SMT, ChangeType, ZeroInt, amount \in Int
<1>3. /\ u.crud = now /\ u \in StreamRecord /\ pull \in Nat
      /\ Holding(u) + Forfeit(t) = Worth(rec[to], now) + c.static + pull
    BY Zenon, <1>1, <1>2, UpdatedLedger
<1>4. /\ rec' = [rec EXCEPT ![to] = u] /\ module' = module + amount + pull
      /\ autoSettle' = Requeue(autoSettle, to, rec[to].settle, u.settle)
    OBVIOUS
<1>5. CASE to \in Payers
    <2>1. stored \subseteq stored' /\ to \in stored'
        OBVIOUS
    <2>2. /\ StandsFor(rec[to], to) /\ UpdateStep(to, rec[to], c, b, 0, Gov, 0)
          /\ ~Overdue(t) /\ GovPull(t) = 0
        BY Zenon, <1>1, <1>2, <1>5, <2>1, TxForm
    <2>3. module' = ((module + pull) + GovPull(t)) + (c.static + 0)
        <3> HIDE DEF c, pull, t, u
        <3> QED
            BY SMTT(20), <1>1, <1>2, <1>3, <1>4, <2>2
    <2> QED
        BY Zenon, <1>1, <1>2, <1>5, <2>2, <2>3, ZeroInt, UpdateStepSound
<1>6. CASE to \notin Payers
    <2>1. Forfeit(t) = 0
        BY <1>1 DEF Forfeit
    <2> HIDE DEF c, pull, t, u
    <2>2. rec'[to] = u /\ \A a \in Accounts : a # to => rec'[a] = rec[a]
        BY <1>1, <1>4
    <2>3. LInv' /\ StatusStep
        <3>1. \A q \in Payers : rec'[q] = rec[q]
            BY <1>6, <2>2, AccountFacts
        <3>2. \A q \in Payers, x \in Int : <<x, q>> \in autoSettle => <<x, q>> \in autoSettle'
            BY Zenon, <1>4, <1>6, RequeueOthers
        <3>3. \A a \in Accounts : rec'[a] = rec[a] \/ (a \in stored' /\ rec'[a].crud <= now)
            BY SMT, <1>1, <1>3, <2>2
        <3>4. stored \subseteq stored'
            OBVIOUS
        <3> QED
            BY Zenon, <1>1, <3>1, <3>2, <3>3, <3>4, PayersUntouched
    <2>4. Worth(rec'[to], now) = Worth(rec[to], now) + (amount + pull)
        <3>1. Worth(u, now) = Holding(u) /\ Holding(u) \in Int /\ Worth(rec[to], now) \in Int
            BY <1>1, <1>3, WorthNow
        <3> QED
            BY SMTT(20), <1>2, <1>3, <2>1, <2>2, <3>1
    <2>5. \A a \in Accounts : a # to => Worth(rec'[a], now) = Worth(rec[a], now)
        BY Zenon, <2>2
    <2>6. amount + pull \in Int /\ module' = module + (amount + pull)
        BY SMT, <1>1, <1>3, <1>4
    <2>7. BooksKept
        BY Zenon, <1>1, <2>4, <2>5, <2>6, WorthOne
    <2> QED
        BY <2>3, <2>7 DEF SoundStep, BooksStep
<1> QED
    BY <1>5, <1>6

(* Dividing at least k times d by d gives at least k.                      *)
LEMMA QuoAtLeast ==
    ASSUME NEW n \in Int, NEW d \in Nat \ {0}, NEW k \in Nat, n >= d * k
    PROVE  Quo(n, d) >= k
<1>1. PICK q \in Int, r \in Int : q = n \div d /\ r = n % d
    BY SMT
<1>2. n = d * q + r /\ 0 <= r /\ r < d
    BY SMT, <1>1
<1>3. d * k \in Nat /\ n >= 0
    BY SMT
<1>4. ASSUME q < k
      PROVE  FALSE
    <2>1. q + 1 <= k /\ k - (q + 1) \in Nat
        BY SMT, <1>4
    <2>2. d * (k - (q + 1)) >= 0
        BY SMT, <2>1
    <2>3. d * (k - (q + 1)) = d * k - (d * q + d)
        BY SMT, <2>1
    <2> QED
        BY SMTT(20), <1>2, <1>3, <2>2, <2>3
<1> QED
    BY SMT, <1>1, <1>3, <1>4 DEF Quo

(* The balances of a resumed account: all of the static balance but the    *)
(* buffer, which is reserved, and a settle time in the future.             *)
LEMMA FundedLedger ==
    ASSUME now \in Nat, params \in ParamSets, NEW s \in StreamRecord, s.netflow + s.frozen < 0,
           s.lock >= 0, s.buffer = 0, s.static >= ResumeBuffer(s)
    PROVE  LET t == ResumeFunded(s) IN
           /\ t \in StreamRecord /\ t.settle > now /\ t.crud = now /\ t.status = s.status
           /\ t.netflow = s.netflow /\ t.frozen = s.frozen /\ t.outFlowCount = s.outFlowCount
           /\ Holding(t) = Holding(s)
<1> DEFINE t == ResumeFunded(s)
           d == -(s.netflow + s.frozen)
<1>1. /\ d \in Nat \ {0} /\ s.static \in Int /\ s.lock \in Int
    BY SMT DEF StreamRecord
<1>2. /\ params.reserveTime \in Nat /\ params.forcedSettleTime \in Nat
      /\ params.reserveTime > params.forcedSettleTime
    BY ParamsAssumption DEF ValidParams
<1>3. ResumeBuffer(s) = d * params.reserveTime
    <2>1. \A x \in Int, y \in Nat : -(x * y) = (-x) * y
        BY SMT
    <2>2. s.netflow + s.frozen \in Int
        BY SMT DEF StreamRecord
    <2> QED
        BY Zenon, <1>2, <2>1, <2>2 DEF ResumeBuffer, d
<1>4. t \in StreamRecord /\ t.netflow = s.netflow /\ t.frozen = s.frozen /\ t.status = s.status
    BY FundedRecord DEF Moves
<1> HIDE DEF d
<1>5. PICK buffer \in Nat : buffer = ResumeBuffer(s)
    BY <1>1, <1>2, <1>3, ProductNat
<1>6. PICK time \in Int : time = Quo(s.static, d) /\ time >= params.reserveTime
    <2>1. Quo(s.static, d) \in Int
        BY <1>1, QuoInt
    <2>2. Quo(s.static, d) >= params.reserveTime
        BY <1>1, <1>2, <1>3, QuoAtLeast
    <2> QED
        BY Zenon, <2>1, <2>2
<1>7. t = [s EXCEPT !.settle = (now + time) - params.forcedSettleTime, !.buffer = buffer,
                    !.static = s.static - buffer, !.crud = now]
    BY <1>5, <1>6 DEF ResumeFunded, d
<1> HIDE DEF t
<1>8. /\ t.settle = (now + time) - params.forcedSettleTime /\ t.crud = now
      /\ t.outFlowCount = s.outFlowCount /\ t.static = s.static - buffer /\ t.buffer = buffer
      /\ t.lock = s.lock
    BY <1>7 DEF StreamRecord
<1>9. t.settle > now
    BY SMT, <1>2, <1>6, <1>8
<1>10. Holding(t) = Holding(s)
    BY SMT, <1>1, <1>5, <1>8 DEF Holding
<1> QED
    BY <1>4, <1>8, <1>9, <1>10 DEF t

(* The record with the deposit added is worth the deposit more.            *)
LEMMA DepositedWorth ==
    ASSUME now \in Nat, NEW s \in StreamRecord, NEW amount \in Nat
    PROVE  LET t == [s EXCEPT !.static = @ + amount] IN
           /\ t \in StreamRecord /\ t.netflow = s.netflow /\ t.frozen = s.frozen /\ t.status = s.status
           /\ t.settle = s.settle /\ t.lock = s.lock /\ t.buffer = s.buffer /\ t.crud = s.crud
           /\ t.outFlowCount = s.outFlowCount
           /\ Holding(t) = Holding(s) + amount /\ Worth(t, now) = Worth(s, now) + amount
<1> DEFINE t == [s EXCEPT !.static = @ + amount]
<1>1. s.static + amount \in Int
    BY SMT DEF StreamRecord
<1>2. t \in StreamRecord
    BY <1>1, SetStatic
<1>3. /\ t.netflow = s.netflow /\ t.frozen = s.frozen /\ t.status = s.status /\ t.static = s.static + amount
      /\ t.settle = s.settle /\ t.lock = s.lock /\ t.buffer = s.buffer /\ t.crud = s.crud
      /\ t.outFlowCount = s.outFlowCount
    BY DEF StreamRecord
<1> HIDE DEF t
<1>4. Holding(t) = Holding(s) + amount /\ Holding(s) \in Int
    BY SMT, <1>3 DEF Holding, StreamRecord
<1>5. PICK x \in Int : x = s.netflow * (now - s.crud)
    <2>1. \A y, z \in Int : y * z \in Int
        BY SMT
    <2> QED
        BY SMT, <2>1 DEF StreamRecord
<1>6. Worth(s, now) = Holding(s) + x /\ Worth(t, now) = Holding(t) + x
    BY Zenon, <1>3, <1>5 DEF Worth
<1>7. Worth(t, now) = Worth(s, now) + amount
    BY SMT, <1>4, <1>6
<1> QED
    BY <1>2, <1>3, <1>4, <1>7 DEF t

(* A deposit that changes the record of one frozen account, and at most    *)
(* starts its resume.                                                      *)
LEMMA OneDepositSound ==
    ASSUME IInv, TypeOK', LInv, phase = "tx", NEW to \in stored, NEW amount \in Nat, amount > 0, NEW t,
           rec' = [rec EXCEPT ![to] = t], t.crud <= now, to \in Payers => PayerInv(to)',
           rec[to].status = "frozen",
           rec[to].crud = now \/ to \notin Payers => Worth(t, now) = Worth(rec[to], now) + amount,
           module' = module + amount, autoResume \subseteq autoResume',
           UNCHANGED <<now, stored, active, frozen, autoSettle, delayed>>
    PROVE  SoundStep
<1>1. /\ TypeOK /\ CoreInv /\ now \in Nat /\ rec \in [Accounts -> StreamRecord] /\ to \in Accounts
      /\ module \in Int
    BY DEF IInv, TypeOK
<1>2. rec'[to] = t /\ \A a \in Accounts : a # to => rec'[a] = rec[a]
    BY <1>1
<1>3. ASSUME NEW q \in Payers
      PROVE  PayerInv(q)'
    <2>1. CASE q # to
        <3>1. PayerSame(q) /\ PayerInv(q)
            BY <1>2, <2>1, AccountFacts DEF PayerSame, Resuming, LInv
        <3> QED
            BY ZenonT(30), <3>1, PayerKept
    <2> QED
        BY <2>1
<1>4. LInv'
    <2>1. now' >= now /\ stored \subseteq stored'
        BY SMT, <1>1
    <2>2. \A a \in Accounts : rec'[a] = rec[a] \/ (a \in stored' /\ rec'[a].crud <= now')
        BY <1>2
    <2> QED
        BY <1>1, <1>3, <2>1, <2>2, LedgerKept
<1>5. StatusStep
    <2>1. module' > module
        BY SMT, <1>1
    <2>2. \A q \in Payers : q = to \/ rec'[q].status = rec[q].status
        BY <1>2, AccountFacts
    <2> QED
        BY <2>1, <2>2 DEF StatusStep
<1>6. BooksStep
    <2> SUFFICES ASSUME \A q \in Payers : rec[q].status = "active" \/ (rec[q].crud = now /\ phase # "storage")
                 PROVE  BooksKept
        BY DEF BooksStep
    <2>1. Worth(rec'[to], now) = Worth(rec[to], now) + amount
        BY <1>2
    <2>2. \A a \in Accounts : a # to => Worth(rec'[a], now) = Worth(rec[a], now)
        BY Zenon, <1>2
    <2>3. amount \in Int
        BY SMT
    <2> QED
        BY Zenon, <1>1, <2>1, <2>2, <2>3, WorthOne
<1> QED
    BY <1>4, <1>5, <1>6 DEF SoundStep

(* Resuming at once: all frozen flows become active, and there are as      *)
(* many flows as before.                                                   *)
LEMMA ResumedCount ==
    ASSUME TypeOK, TypeOK', CoreInv, NEW p \in Payers, NEW s, ResumeDirectly(p, s)
    PROVE  FlowCount(p)' = FlowCount(p)
<1>1. /\ active' = [active EXCEPT ![p] = [r \in Accounts |-> IF frozen[p][r] # 0 THEN frozen[p][r] ELSE active[p][r]]]
      /\ frozen' = [frozen EXCEPT ![p] = [r \in Accounts |-> 0]]
    BY DEF ResumeDirectly
<1>2. \A r \in Accounts : /\ active'[p][r] = IF frozen[p][r] # 0 THEN frozen[p][r] ELSE active[p][r]
                          /\ frozen'[p][r] = 0
                          /\ active[p][r] = 0 \/ frozen[p][r] = 0
    BY SMT, <1>1 DEF TypeOK, CoreInv, FlowsNotDoubled
<1>3. AsManyFlows(active[p], frozen[p], active'[p], frozen'[p])
    BY SMT, <1>2 DEF AsManyFlows, Present
<1>4. NumFlows(active'[p]) + NumFlows(frozen'[p]) = NumFlows(active[p]) + NumFlows(frozen[p])
    BY SMT, <1>3, SameCount
<1> QED
    BY <1>4 DEF FlowCount, NumFlows

(* A deposit that resumes all flows at once.                               *)
LEMMA ResumeDirectlySound ==
    ASSUME IInv, TypeOK', LInv, phase = "tx", NEW p \in Payers, p \in stored, NEW amount \in Nat, amount > 0,
           NEW s \in StreamRecord, s = [rec[p] EXCEPT !.static = @ + amount],
           rec[p].status = "frozen", ~Resuming(p), s.netflow + s.frozen < 0, s.static >= ResumeBuffer(s),
           ResumeDirectly(p, s), module' = module + amount, UNCHANGED <<now, delayed>>
    PROVE  SoundStep
<1> DEFINE e == ResumeFunded(s)
           t == [e EXCEPT !.status = "active", !.netflow = s.netflow + s.frozen, !.frozen = 0]
<1>1. /\ TypeOK /\ CoreInv /\ now \in Nat /\ params \in ParamSets /\ p \in Accounts /\ rec[p] \in StreamRecord
      /\ rec[p].lock >= 0 /\ rec[p].buffer = 0 /\ rec[p].outFlowCount = FlowCount(p) /\ module \in Int
      /\ frozen \in [Payers -> [Accounts -> Nat]]
    BY ZenonT(30), AccountFacts DEF IInv, TypeOK, CoreInv, RecordsInv, LInv, PayerInv
<1>2. /\ s.buffer = 0 /\ s.lock >= 0 /\ s.crud = rec[p].crud /\ s.outFlowCount = FlowCount(p)
      /\ Holding(s) = Holding(rec[p]) + amount
    BY <1>1, DepositedWorth
<1>3. /\ e \in StreamRecord /\ e.settle > now /\ e.crud = now /\ e.outFlowCount = s.outFlowCount
      /\ Holding(e) = Holding(s)
    BY Zenon, <1>1, <1>2, FundedLedger
<1>4. /\ rec' = [a \in Accounts |-> IF a = p THEN t
                                    ELSE IF a \in Receivers /\ frozen[p][a] # 0 THEN Credited(rec[a], 0, frozen[p][a])
                                    ELSE rec[a]]
      /\ stored' = stored \cup {r \in Receivers : frozen[p][r] # 0}
      /\ autoSettle' = Requeue(autoSettle, p, s.settle, e.settle) /\ autoResume' = autoResume
      /\ \A q \in Payers : q # p => active'[q] = active[q] /\ frozen'[q] = frozen[q]
    BY <1>1 DEF ResumeDirectly, TypeOK
<1> HIDE DEF e
<1>5. /\ t.status = "active" /\ t.settle = e.settle /\ t.crud = now /\ t.outFlowCount = e.outFlowCount
      /\ Holding(t) = Holding(e)
    BY <1>3 DEF StreamRecord, Holding
<1> HIDE DEF t
<1>6. /\ rec'[p] = t
      /\ \A a \in Accounts : a # p => rec'[a] = rec[a] \/ rec'[a] = Credited(rec[a], 0, frozen[p][a])
      /\ \A a \in Accounts \ stored' : a # p => rec'[a] = rec[a]
      /\ \A q \in Payers : q # p => rec'[q] = rec[q]
    BY <1>1, <1>4, AccountFacts
<1>7. \A a \in Accounts : a # p => /\ rec'[a] = rec[a] \/ rec'[a].crud = now
                                   /\ Worth(rec'[a], now) = Worth(rec[a], now)
    <2> SUFFICES ASSUME NEW a \in Accounts, a # p
                 PROVE  (rec'[a] = rec[a] \/ rec'[a].crud = now) /\ Worth(rec'[a], now) = Worth(rec[a], now)
        BY Zenon
    <2>1. frozen[p][a] \in Int
        BY SMT, <1>1
    <2>2. rec'[a] = rec[a] \/ \E rate \in Int : rec'[a] = Credited(rec[a], 0, rate)
        BY Zenon, <1>6, <2>1
    <2> QED
        BY Zenon, <1>1, <2>2, RateChangeWorth
<1>8. PayerInv(p)'
    <2>1. FlowCount(p)' = FlowCount(p)
        BY <1>1, ResumedCount
    <2>2. e.settle \in Int /\ e.settle # 0 /\ e.settle > 0
        BY SMT, <1>1, <1>3 DEF StreamRecord
    <2>3. <<e.settle, p>> \in autoSettle'
        BY Zenon, <1>4, <2>2, RequeueOthers
    <2>4. /\ rec'[p].status = "active" /\ rec'[p].settle = e.settle /\ rec'[p].outFlowCount = FlowCount(p)
        BY Zenon, <1>2, <1>3, <1>5, <1>6
    <2> QED
        BY <2>1, <2>2, <2>3, <2>4 DEF PayerInv
<1>9. ASSUME NEW q \in Payers, q # p
      PROVE  PayerInv(q)'
    <2>1. PayerSame(q) /\ PayerInv(q)
        BY <1>4, <1>6, <1>9 DEF PayerSame, Resuming, LInv
    <2>2. <<rec[q].settle, q>> \in autoSettle => <<rec[q].settle, q>> \in autoSettle'
        BY Zenon, <1>4, <1>9, RequeueOthers
    <2> QED
        BY Zenon, <2>1, <2>2, PayerKept
<1>10. LInv'
    <2>1. now' >= now /\ stored \subseteq stored' /\ p \in stored' /\ now <= now' /\ now' = now
        BY SMT, <1>1, <1>4
    <2>2. \A a \in Accounts : rec'[a] = rec[a] \/ (a \in stored' /\ rec'[a].crud <= now')
        BY Zenon, <1>5, <1>6, <1>7, <2>1
    <2>3. \A q \in Payers : PayerInv(q)'
        BY <1>8, <1>9
    <2> QED
        BY Zenon, <1>1, <2>1, <2>2, <2>3, LedgerKept
<1>11. StatusStep
    <2>1. module' > module
        BY SMT, <1>1
    <2>2. \A q \in Payers : q = p \/ rec'[q].status = rec[q].status
        BY <1>6
    <2> QED
        BY <2>1, <2>2 DEF StatusStep
<1>12. BooksStep
    <2> SUFFICES ASSUME \A q \in Payers : rec[q].status = "active" \/ (rec[q].crud = now /\ phase # "storage")
                 PROVE  BooksKept
        BY DEF BooksStep
    <2>1. rec[p].crud = now
        OBVIOUS
    <2>2. Worth(rec[p], now) = Holding(rec[p])
        BY <1>1, <2>1, WorthNow
    <2>3. Worth(rec'[p], now) = Holding(t)
        <3>1. rec'[p] \in StreamRecord
            BY <1>1 DEF TypeOK
        <3> QED
            BY <1>1, <1>5, <1>6, <3>1, WorthNow
    <2>4. Worth(rec'[p], now) = Worth(rec[p], now) + amount
        BY Zenon, <1>2, <1>3, <1>5, <2>2, <2>3
    <2>5. amount \in Int
        BY SMT
    <2> QED
        BY Zenon, <1>1, <1>7, <2>4, <2>5, WorthOne
<1> QED
    BY <1>10, <1>11, <1>12 DEF SoundStep

(* A deposit to a frozen account, which may resume it.                     *)
LEMMA DepositFrozenSound ==
    ASSUME IInv, TypeOK', LInv, phase = "tx", NEW to \in stored, NEW amount \in Nat, amount > 0,
           rec[to].status = "frozen", TryResume(to, [rec[to] EXCEPT !.static = @ + amount]),
           module' = module + amount, UNCHANGED <<now, delayed>>
    PROVE  SoundStep
<1>1. /\ TypeOK /\ CoreInv /\ now \in Nat /\ params \in ParamSets /\ to \in Accounts /\ rec[to] \in StreamRecord
      /\ rec[to].lock >= 0 /\ rec[to].crud <= now /\ to \notin Receivers
    BY EarnsDef DEF IInv, TypeOK, CoreInv, RecordsInv, LInv, ClockInv, Earns
<1>2. PICK s \in StreamRecord : s = [rec[to] EXCEPT !.static = @ + amount]
    BY <1>1, DepositedWorth
<1>3. /\ s.netflow = rec[to].netflow /\ s.frozen = rec[to].frozen /\ s.status = "frozen" /\ s.lock >= 0
      /\ s.settle = rec[to].settle /\ s.buffer = rec[to].buffer /\ s.crud = rec[to].crud
      /\ s.outFlowCount = rec[to].outFlowCount
      /\ Holding(s) = Holding(rec[to]) + amount /\ Worth(s, now) = Worth(rec[to], now) + amount
    BY <1>1, <1>2, DepositedWorth
<1>4. ~Resuming(to) /\ TryResume(to, s)
    BY <1>2 DEF TryResume
<1>5. to \in Payers => PayerInv(to) /\ rec[to].buffer = 0
    BY <1>4 DEF LInv, PayerInv
<1>6. CASE /\ s.netflow + s.frozen = 0
           /\ rec' = [rec EXCEPT ![to] = [s EXCEPT !.status = "active", !.crud = now, !.settle = 0]]
           /\ UNCHANGED <<stored, flowVars, autoSettle, autoResume>>
    <2> DEFINE t == [s EXCEPT !.status = "active", !.crud = now, !.settle = 0]
    <2>1. s.netflow = 0
        <3>1. to = Gov => rec[to].netflow = 0
            BY <1>1 DEF CoreInv, RatesInv
        <3>2. to \in Payers => /\ rec[to].netflow \in Int /\ rec[to].frozen \in Int
                               /\ rec[to].netflow <= 0 /\ rec[to].frozen <= 0
            BY <1>1, PayerOwes
        <3>3. to \in Payers \/ to = Gov
            BY <1>1, AccountsAssumption
        <3> QED
            BY SMTT(20), <1>3, <1>6, <3>1, <3>2, <3>3
    <2>2. /\ t.crud = now /\ t.netflow = 0 /\ t.status = "active" /\ t.outFlowCount = s.outFlowCount
          /\ Holding(t) = Holding(s)
        BY <1>2, <2>1 DEF StreamRecord, Holding
    <2>3. /\ rec' = [rec EXCEPT ![to] = t] /\ active' = active /\ frozen' = frozen /\ stored' = stored
          /\ autoSettle' = autoSettle /\ autoResume' = autoResume
        BY <1>6 DEF flowVars
    <2> HIDE DEF t
    <2>4. t.crud <= now
        BY SMT, <1>1, <2>2
    <2>5. to \in Payers => PayerInv(to)'
        <3> SUFFICES ASSUME to \in Payers
                     PROVE  PayerInv(to)'
            OBVIOUS
        <3>1. rec'[to] = t
            BY <1>1, <2>3 DEF TypeOK
        <3>2. FlowCount(to)' = FlowCount(to)
            BY <2>3 DEF FlowCount, NumFlows
        <3>3. rec[to].outFlowCount = FlowCount(to)
            BY <1>5 DEF PayerInv
        <3> QED
            BY SMTT(20), <1>3, <2>2, <3>1, <3>2, <3>3 DEF PayerInv
    <2>6. Worth(t, now) = Worth(rec[to], now) + amount
        <3>1. \A x \in Int : 0 * x = 0
            BY SMT
        <3>2. now - t.crud \in Int /\ now - s.crud \in Int
            BY SMTT(20), <1>1, <1>2, <2>2 DEF StreamRecord
        <3>3. Worth(t, now) = Holding(t) + 0 /\ Worth(s, now) = Holding(s) + 0
            BY Zenon, <2>1, <2>2, <3>1, <3>2 DEF Worth
        <3> QED
            BY Zenon, <1>3, <2>2, <3>3
    <2> QED
        BY Zenon, <2>3, <2>4, <2>5, <2>6, OneDepositSound
<1>7. ASSUME s.netflow + s.frozen # 0
      PROVE  to \in Payers /\ s.netflow + s.frozen < 0
    <2>1. to # Gov
        BY SMTT(20), <1>1, <1>3, <1>7, AccountFacts DEF CoreInv, RatesInv
    <2>2. to \in Payers
        BY <1>1, <2>1, AccountsAssumption
    <2> QED
        BY SMTT(20), <1>1, <1>3, <1>7, <2>2, PayerOwes
<1>8. CASE /\ s.netflow + s.frozen # 0
           /\ rec' = [rec EXCEPT ![to] = s]
           /\ UNCHANGED <<stored, flowVars, autoSettle, autoResume>>
    <2>1. to \in Payers /\ s.crud <= now
        BY <1>1, <1>3, <1>7, <1>8
    <2>2. /\ active' = active /\ frozen' = frozen /\ stored' = stored
          /\ autoSettle' = autoSettle /\ autoResume' = autoResume
        BY <1>8 DEF flowVars
    <2>3. rec'[to] = s
        BY <1>1, <1>8 DEF TypeOK
    <2>4. PayerInv(to)'
        <3>1. PayerSame(to)
            BY <1>3, <2>2, <2>3 DEF PayerSame, Resuming
        <3> QED
            BY Zenon, <1>5, <2>1, <2>2, <3>1, PayerKept
    <2> QED
        BY Zenon, <1>3, <1>8, <2>1, <2>2, <2>4, OneDepositSound
<1>9. CASE s.netflow + s.frozen # 0 /\ s.static >= ResumeBuffer(s) /\ ResumeLater(to, s)
    <2> DEFINE t == ResumeFunded(s)
    <2>1. to \in Payers /\ s.netflow + s.frozen < 0 /\ s.buffer = 0
        BY <1>3, <1>5, <1>7, <1>9
    <2>2. /\ t \in StreamRecord /\ t.crud = now /\ t.status = s.status /\ t.outFlowCount = s.outFlowCount
          /\ Holding(t) = Holding(s)
        BY Zenon, <1>1, <1>3, <1>9, <2>1, FundedLedger
    <2>3. /\ rec' = [rec EXCEPT ![to] = t] /\ autoResume' = autoResume \cup {<<now, to>>}
          /\ active' = active /\ frozen' = frozen /\ stored' = stored /\ autoSettle' = autoSettle
        BY <1>9 DEF ResumeLater, flowVars
    <2> HIDE DEF t
    <2>4. PayerInv(to)'
        <3>1. rec'[to] = t
            BY <1>1, <2>3 DEF TypeOK
        <3>2. FlowCount(to)' = FlowCount(to)
            BY <2>3 DEF FlowCount, NumFlows
        <3>3. rec[to].outFlowCount = FlowCount(to)
            BY <1>5, <2>1 DEF PayerInv
        <3>4. Resuming(to)'
            <4>1. <<now, to>> \in autoResume' /\ <<now, to>>[2] = to
                BY <2>3
            <4> QED
                BY <4>1 DEF Resuming
        <3> QED
            BY <1>3, <2>2, <3>1, <3>2, <3>3, <3>4 DEF PayerInv
    <2>5. rec[to].crud = now \/ to \notin Payers => Worth(t, now) = Worth(rec[to], now) + amount
        <3>1. rec[to].crud = now => Worth(rec[to], now) = Holding(rec[to])
            BY <1>1, WorthNow
        <3>2. Worth(t, now) = Holding(t)
            BY <1>1, <2>2, WorthNow
        <3> QED
            BY Zenon, <1>3, <2>1, <2>2, <3>1, <3>2
    <2>6. t.crud <= now /\ autoResume \subseteq autoResume'
        BY SMT, <1>1, <2>2, <2>3
    <2> QED
        BY Zenon, <2>3, <2>4, <2>5, <2>6, OneDepositSound
<1>10. CASE s.netflow + s.frozen # 0 /\ s.static >= ResumeBuffer(s) /\ ResumeDirectly(to, s)
    <2>1. to \in Payers /\ s.netflow + s.frozen < 0
        BY <1>7, <1>10
    <2> QED
        BY Zenon, <1>2, <1>4, <1>10, <2>1, ResumeDirectlySound
<1> QED
    BY <1>4, <1>6, <1>8, <1>9, <1>10 DEF TryResume

(* MsgDeposit.                                                             *)
LEMMA DepositSound ==
    ASSUME IInv, TypeOK', LInv, NEW creator \in Users, NEW to \in Accounts, NEW amount \in Deposits,
           Deposit(creator, to, amount)
    PROVE  SoundStep
<1> DEFINE swept == IF IsPaymentAccount(to) THEN bank[to] ELSE 0
           bankAfter == [a \in Accounts |-> bank[a] - (IF a = creator THEN amount ELSE 0)
                                                    - (IF a = to THEN swept ELSE 0)]
           total == amount + swept
<1>1. /\ TypeOK /\ bank \in [Accounts -> Nat] /\ bank[creator] >= amount /\ amount \in Nat /\ amount > 0
      /\ phase = "tx" /\ creator \notin PaymentAccounts /\ stored \subseteq Accounts /\ rec[to] \in StreamRecord
      /\ DepositTo(to, total, bankAfter) /\ UNCHANGED <<now, delayed>>
    BY SMT, ParamsAssumption DEF IInv, TypeOK, Deposit, Users, acctVars
<1>2. swept \in Nat /\ swept <= bank[to] /\ (to = creator => swept = 0)
    BY SMT, <1>1 DEF IsPaymentAccount
<1>3. bankAfter[to] \in Nat
    <2>1. bankAfter[to] = bank[to] - (IF to = creator THEN amount ELSE 0) - swept
        OBVIOUS
    <2> HIDE DEF swept, bankAfter
    <2> QED
        BY SMT, <1>1, <1>2, <2>1
<1>4. total \in Nat /\ total > 0
    <2> HIDE DEF swept
    <2> QED
        BY SMT, <1>1, <1>2
<1> HIDE DEF swept, bankAfter, total
<1>5. CASE to \notin stored
    <2>1. /\ rec' = [rec EXCEPT ![to] = [NewStreamRecord(now) EXCEPT !.static = total]]
          /\ stored' = stored \cup {to} /\ module' = module + total
          /\ UNCHANGED <<active, frozen, autoSettle, autoResume>>
        BY <1>1, <1>5 DEF DepositTo, flowVars
    <2> QED
        BY Zenon, <1>1, <1>4, <1>5, <2>1, DepositNewSound
<1>6. CASE to \in stored /\ rec[to].status = "active"
    <2>1. PICK b \in Nat : b = bankAfter[to]
        BY <1>3
    <2>2. /\ CanUpdate(rec[to], Change(total, 0, 0), b)
          /\ rec' = [rec EXCEPT ![to] = Updated(@, Change(total, 0, 0), b)]
          /\ module' = module + total + PullAmount(Settled(rec[to], Change(total, 0, 0)), b)
          /\ autoSettle' = Requeue(autoSettle, to, rec[to].settle, Updated(rec[to], Change(total, 0, 0), b).settle)
          /\ UNCHANGED <<stored, active, frozen, autoResume>>
        BY <1>1, <1>6, <2>1 DEF DepositTo, flowVars
    <2> QED
        BY Zenon, <1>1, <1>4, <1>6, <2>2, DepositActiveSound
<1>7. CASE to \in stored /\ rec[to].status = "frozen"
    <2>1. TryResume(to, [rec[to] EXCEPT !.static = @ + total]) /\ module' = module + total
        BY <1>1, <1>7 DEF DepositTo, CanUpdate
    <2> QED
        BY Zenon, <1>1, <1>4, <1>7, <2>1, DepositFrozenSound
<1>8. rec[to].status \in {"active", "frozen"}
    BY <1>1 DEF StreamRecord
<1> QED
    BY <1>5, <1>6, <1>7, <1>8

-----------------------------------------------------------------------------
(***************************************************************************)
(* II. Every step, and the theorems.                                       *)
(***************************************************************************)

(* At first nobody has a flow, a reserve or a balance.                     *)
LEMMA InitLedger == Init => LInv
<1> SUFFICES ASSUME Init
             PROVE  LInv
    OBVIOUS
<1>1. TypeOK /\ CoreInv
    BY InitInvariant DEF IInv
<1>2. \A a \in Accounts : rec[a] = NewStreamRecord(InitTime)
    BY DEF Init
<1>3. \A a \in Accounts : /\ rec[a].netflow = 0 /\ rec[a].frozen = 0 /\ rec[a].static = 0 /\ rec[a].lock = 0
                          /\ rec[a].buffer = 0 /\ rec[a].status = "active" /\ rec[a].outFlowCount = 0
                          /\ rec[a].crud = now
    BY <1>2 DEF NewStreamRecord, Init
<1>4. ASSUME NEW p \in Payers
      PROVE  PayerInv(p)
    BY <1>1, <1>3, NoFlowsCount, AccountFacts DEF PayerInv
<1>5. ClockInv /\ FreshInv
    BY SMT, <1>1, <1>3 DEF ClockInv, FreshInv, TypeOK
<1> QED
    BY <1>4, <1>5 DEF LInv

(* Every step is sound.                                                    *)
LEMMA NextSound ==
    ASSUME IInv, TypeOK', LInv, [Next]_vars
    PROVE  SoundStep
<1>1. CASE Messages
    BY <1>1, MessagesSound, DepositSound
<1> QED
    BY <1>1, KeeperCallsSound, StorageEndBlockSound, LoopsSound DEF Next

(* Every reachable state satisfies the invariant of the ledger.            *)
THEOREM LedgerInvariant == Spec => [](IInv /\ LInv)
<1>1. Init => IInv /\ LInv
    BY InitInvariant, InitLedger
<1>2. (IInv /\ LInv) /\ [Next]_vars => (IInv /\ LInv)'
    <2> SUFFICES ASSUME IInv, LInv, [Next]_vars
                 PROVE  IInv' /\ LInv'
        OBVIOUS
    <2>1. IInv' /\ TypeOK'
        BY NextKeeps DEF IInv
    <2> QED
        BY <2>1, NextSound DEF SoundStep
<1> QED
    BY <1>1, <1>2, PTL DEF Spec

(* OutFlowCount, on which the choice between a direct and a queued resume  *)
(* rests, is the number of flows in the store whatever bills, freezes and  *)
(* resumes came before; so its conversion never wraps.                     *)
THEOREM CountsExact == Spec => []OutFlowCountExact
<1>1. IInv /\ LInv => OutFlowCountExact
    BY Zenon DEF LInv, PayerInv, FlowCount, OutFlowCountExact
<1> QED
    BY <1>1, LedgerInvariant, PTL

(* CheckStreamRecord never panics when a stream record is written.         *)
THEOREM RecordsAccepted == Spec => []CheckStreamRecord
<1>1. IInv /\ LInv => CheckStreamRecord
    <2> SUFFICES ASSUME IInv, LInv, NEW a \in Accounts
                 PROVE  /\ rec[a].frozen <= 0 /\ rec[a].lock >= 0 /\ rec[a].buffer >= 0
                        /\ rec[a].netflow < 0 => rec[a].outFlowCount # 0
        BY DEF CheckStreamRecord
    <2>1. TypeOK /\ CoreInv /\ rec[a].lock >= 0 /\ rec[a].buffer >= 0
        BY DEF IInv, CoreInv, RecordsInv
    <2>2. CASE a \in Payers
        <3>1. rec[a].frozen <= 0
            BY <2>1, <2>2, PayerOwes
        <3>2. rec[a].netflow < 0 => rec[a].outFlowCount # 0
            BY Zenon, <2>1, <2>2, NoFlowsCount DEF LInv, PayerInv
        <3> QED
            BY <2>1, <3>1, <3>2
    <2>3. CASE a \notin Payers
        <3>1. a \in Receivers \/ a = Gov
            BY <2>3, AccountsAssumption
        <3>2. rec[a].frozen = 0 /\ ~(rec[a].netflow < 0)
            BY SMTT(20), <2>1, <2>3, <3>1 DEF CoreInv, RatesInv, ReceiversNeverOwe, TypeOK, StreamRecord
        <3> QED
            BY SMT, <2>1, <3>2
    <2> QED
        BY <2>2, <2>3
<1> QED
    BY <1>1, LedgerInvariant, PTL

(* No frozen payer that still spends has the settle time 0, with which     *)
(* UpdateAutoSettleRecord would leave it out of the queue.                 *)
SettleTimesSet == \A p \in Payers : rec[p].status = "frozen" /\ HasFlows(active[p]) => rec[p].settle # 0

(* As long as that is so nobody is forgotten: whoever spends is in the     *)
(* auto-settle queue, or in the auto-resume queue.                         *)
THEOREM PayersRemembered == Spec => [](SettleTimesSet => NobodyForgotten)
<1>1. IInv /\ LInv => (SettleTimesSet => NobodyForgotten)
    <2> SUFFICES ASSUME IInv, LInv, SettleTimesSet, NEW p \in Payers
                 PROVE  /\ rec[p].status = "active" /\ rec[p].netflow < 0 => <<rec[p].settle, p>> \in autoSettle
                        /\ rec[p].status = "frozen" /\ HasFlows(active[p]) =>
                              Resuming(p) \/ \E q \in autoSettle : q[2] = p
        BY DEF NobodyForgotten
    <2>1. PayerInv(p) /\ TypeOK /\ CoreInv /\ ResumingIsFrozen /\ rec[p].settle \in Int
        BY AccountFacts DEF LInv, IInv, TypeOK, StreamRecord
    <2>2. rec[p].status = "active" => ~Resuming(p)
        BY <2>1 DEF ResumingIsFrozen, Resuming
    <2>3. HasFlows(active[p]) => rec[p].netflow < 0
        BY SMT, <2>1, PayerOwes
    <2>4. <<rec[p].settle, p>>[2] = p
        OBVIOUS
    <2> QED
        BY SMT, <2>1, <2>2, <2>3, <2>4 DEF PayerInv, SettleTimesSet
<1> QED
    BY <1>1, LedgerInvariant, PTL

(* A payer is frozen only in EndBlock, with nothing left and its settle    *)
(* time passed, and becomes active only by a deposit or the resume that a  *)
(* deposit started: for every sequence of messages, calls and blocks.      *)
THEOREM StatusesChange == Spec => StatusChanges
<1>1. IInv /\ LInv /\ [Next]_vars => [StatusStep]_vars
    <2> SUFFICES ASSUME IInv, LInv, [Next]_vars
                 PROVE  StatusStep
        OBVIOUS
    <2>1. TypeOK'
        BY NextKeeps DEF IInv
    <2> QED
        BY <2>1, NextSound DEF SoundStep
<1> QED
    BY <1>1, LedgerInvariant, PTL DEF Spec, StatusChanges, StatusStep

(* No step of the engine creates or destroys money while the payers are    *)
(* active or up to date: what the module owes moves with what it holds.    *)
THEOREM MoneyConserved == Spec => BooksBalance
<1>1. IInv /\ LInv /\ [Next]_vars => [BooksStep]_vars
    <2> SUFFICES ASSUME IInv, LInv, [Next]_vars
                 PROVE  BooksStep
        OBVIOUS
    <2>1. TypeOK'
        BY NextKeeps DEF IInv
    <2> QED
        BY <2>1, NextSound DEF SoundStep
<1> QED
    BY <1>1, LedgerInvariant, PTL DEF Spec, BooksBalance, BooksStep, BooksKept
=============================================================================
