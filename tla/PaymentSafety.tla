--------------------------- MODULE PaymentSafety ----------------------------
(***************************************************************************)
(* Every step of PaymentStream keeps the inductive invariant IInv: the     *)
(* keeper calls of other modules, forced or not, the messages and the      *)
(* EndBlock loops.  The theorems come last, with those about the coins     *)
(* that leave the module.                                                  *)
(***************************************************************************)
EXTENDS PaymentRecords, TLAPS

(* A leaf that names no prover is for Zenon, with more time than the       *)
(* default.                                                                *)
USE ZenonT(20)

(***************************************************************************)
(* I. What a step may change: steps that move no rate, and steps that move *)
(* flows together with the rates of the records.                           *)
(***************************************************************************)

(* A receiver that is not charged keeps a non-negative balance.            *)
LEMMA CreditedEarns ==
    ASSUME now \in Nat, params \in ParamSets, NEW s \in StreamRecord, s.lock >= 0, Earns(s),
           NEW d \in Nat, NEW rate \in Int, s.netflow + rate >= 0
    PROVE  Earns(Credited(s, d, rate))
<1>1. Accrue(s).static \in Int /\ Accrue(s).static >= s.static
    BY AccrueRecord DEF Earns, StreamRecord
<1>2. Accrue(s).static + d >= 0
    BY SMT, <1>1 DEF Earns, StreamRecord
<1> QED
    BY SMTT(20), <1>2, CreditedRecord

(* A step that changes no rate and no flow.                                *)
LEMMA QuietKeepsRates ==
    ASSUME TypeOK, RatesInv, rec' \in [Accounts -> StreamRecord],
           \A a \in Accounts : Moves(rec[a], rec'[a], 0, 0),
           active' = active, frozen' = frozen
    PROVE  RatesInv'
<1>1. \A a \in Accounts : rec'[a].netflow = rec[a].netflow /\ rec'[a].frozen = rec[a].frozen
    BY SMT DEF TypeOK, Moves, StreamRecord
<1>2. [a \in Accounts |-> rec'[a].netflow] = [a \in Accounts |-> rec[a].netflow]
    BY <1>1
<1>3. Payers \subseteq Accounts /\ Receivers \subseteq Accounts /\ Gov \in Accounts
    BY AccountsAssumption
<1>4. RatesMatchFlows'
    BY <1>1, <1>3 DEF RatesInv, RatesMatchFlows
<1>5. Reconciled'
    BY <1>2 DEF RatesInv, Reconciled
<1>6. IncomeMatchesFlows'
    BY Zenon, <1>1, <1>3 DEF RatesInv, IncomeMatchesFlows
<1> QED
    BY <1>1, <1>3, <1>4, <1>5, <1>6 DEF RatesInv

(* A step that changes the active flows of payer p by b, its frozen flows  *)
(* by f, and the records accordingly.                                      *)
FlowsStep(p, b, f) ==
    /\ rec' \in [Accounts -> StreamRecord]
    /\ active' \in [Payers -> [Accounts -> Nat]] /\ frozen' \in [Payers -> [Accounts -> Nat]]
    /\ \A q \in Payers \ {p} : active'[q] = active[q] /\ frozen'[q] = frozen[q]
    /\ \A r \in Accounts : active'[p][r] = active[p][r] + b[r] /\ frozen'[p][r] = frozen[p][r] + f[r]
    /\ Moves(rec[p], rec'[p], -Sum(b, NumAccounts), -Sum(f, NumAccounts))
    /\ \A a \in Accounts \ {p} : Moves(rec[a], rec'[a], b[a], 0)

(* A step that bills one payer and moves flows between its active and      *)
(* frozen sets keeps all the rate equations.                               *)
LEMMA FlowsKeepRates ==
    ASSUME TypeOK, RatesInv, NEW p \in Payers, NEW b \in BillRates, NEW f \in [Accounts -> Int],
           FlowsStep(p, b, f)
    PROVE  RatesInv'
<1>1. /\ b \in [Accounts -> Int] /\ \A a \in Accounts \ Receivers : b[a] = 0
      /\ p \in Accounts /\ b[p] = 0
    BY AccountFacts DEF BillRates
<1>2. /\ \A q \in Payers : active[q] \in [Accounts -> Int] /\ frozen[q] \in [Accounts -> Int]
      /\ \A q \in Payers : active'[q] \in [Accounts -> Int] /\ frozen'[q] \in [Accounts -> Int]
    BY SMT DEF TypeOK, FlowsStep
<1>3. \A a \in Accounts : /\ rec[a].netflow \in Int /\ rec[a].frozen \in Int
                          /\ rec'[a].netflow \in Int /\ rec'[a].frozen \in Int
    BY DEF TypeOK, FlowsStep, StreamRecord
<1>0. Sum(b, NumAccounts) \in Int /\ Sum(f, NumAccounts) \in Int
    BY <1>1, TotalInt
<1>4. /\ rec'[p].netflow = rec[p].netflow - Sum(b, NumAccounts)
      /\ rec'[p].frozen = rec[p].frozen - Sum(f, NumAccounts)
      /\ \A a \in Accounts \ {p} : /\ rec'[a].netflow = rec[a].netflow + b[a]
                                   /\ rec'[a].frozen = rec[a].frozen
    BY SMTT(20), <1>0, <1>1, <1>3 DEF FlowsStep, Moves
<1>5. RatesMatchFlows'
    <2> SUFFICES ASSUME NEW q \in Payers
                 PROVE  /\ rec'[q].netflow = -Sum(active'[q], NumAccounts)
                        /\ rec'[q].frozen = -Sum(frozen'[q], NumAccounts)
        BY DEF RatesMatchFlows
    <2>1. /\ rec[q].netflow = -Sum(active[q], NumAccounts)
          /\ rec[q].frozen = -Sum(frozen[q], NumAccounts)
        BY DEF RatesInv, RatesMatchFlows
    <2>2. CASE q = p
        <3>1. /\ \A r \in Accounts : active'[p][r] = active[p][r] + b[r]
              /\ \A r \in Accounts : frozen'[p][r] = frozen[p][r] + f[r]
            BY DEF FlowsStep
        <3>2. Sum(active'[p], NumAccounts) = Sum(active[p], NumAccounts) + Sum(b, NumAccounts)
            BY SMTT(20), <1>1, <1>2, <3>1, TotalAdd
        <3>3. Sum(frozen'[p], NumAccounts) = Sum(frozen[p], NumAccounts) + Sum(f, NumAccounts)
            BY <1>2, <3>1, TotalAdd
        <3>4. Sum(active[p], NumAccounts) \in Int /\ Sum(frozen[p], NumAccounts) \in Int
            BY <1>2, TotalInt
        <3> QED
            BY SMTT(20), <1>0, <1>4, <2>1, <2>2, <3>2, <3>3, <3>4
    <2>3. CASE q # p
        <3>1. active'[q] = active[q] /\ frozen'[q] = frozen[q]
            BY <2>3 DEF FlowsStep
        <3>2. rec'[q].netflow = rec[q].netflow /\ rec'[q].frozen = rec[q].frozen
            BY SMT, <1>1, <1>3, <1>4, <2>3, AccountFacts
        <3> QED
            BY <2>1, <3>1, <3>2
    <2> QED
        BY <2>2, <2>3
<1>6. Reconciled'
    <2> DEFINE g == [a \in Accounts |-> rec[a].netflow]
               h == [a \in Accounts |-> rec'[a].netflow]
               d == [b EXCEPT ![p] = -Sum(b, NumAccounts)]
    <2>1. /\ g \in [Accounts -> Int] /\ h \in [Accounts -> Int]
          /\ \A a \in Accounts : g[a] = rec[a].netflow /\ h[a] = rec'[a].netflow
        BY <1>3
    <2>2. /\ d \in [Accounts -> Int] /\ d[p] = -Sum(b, NumAccounts)
          /\ \A a \in Accounts : a # p => d[a] = b[a]
        BY SMT, <1>0, <1>1
    <2>3. Sum(g, NumAccounts) = 0
        BY DEF RatesInv, Reconciled
    <2> HIDE DEF g, h, d
    <2>4. Sum(d, NumAccounts) = Sum(b, NumAccounts) + (d[p] - b[p])
        BY <1>1, <2>2, TotalUpdate
    <2>5. \A a \in Accounts : h[a] = g[a] + d[a]
        BY <1>0, <1>1, <1>3, <1>4, <2>1, <2>2
    <2>6. Sum(h, NumAccounts) = Sum(g, NumAccounts) + Sum(d, NumAccounts)
        BY <2>1, <2>2, <2>5, TotalAdd
    <2>7. Sum(h, NumAccounts) = 0
        BY SMTT(20), <1>0, <1>1, <2>2, <2>3, <2>4, <2>6
    <2> QED
        BY <2>7 DEF Reconciled, h
<1>7. IncomeMatchesFlows'
    <2> SUFFICES ASSUME NEW r \in Receivers
                 PROVE  rec'[r].netflow =
                            Sum([a \in Accounts |-> IF a \in Payers THEN active'[a][r] ELSE 0], NumAccounts)
        BY DEF IncomeMatchesFlows
    <2> DEFINE g == [a \in Accounts |-> IF a \in Payers THEN active[a][r] ELSE 0]
               h == [a \in Accounts |-> IF a \in Payers THEN active'[a][r] ELSE 0]
    <2>0. r \in Accounts /\ r # p
        BY AccountFacts
    <2>1. rec[r].netflow = Sum(g, NumAccounts)
        BY DEF RatesInv, IncomeMatchesFlows
    <2>2. g \in [Accounts -> Int] /\ h \in [Accounts -> Int]
        BY SMT, <1>2, <2>0
    <2>3. /\ g[p] = active[p][r] /\ h[p] = active[p][r] + b[r] /\ active[p][r] \in Int
        BY <1>1, <1>2, <2>0 DEF FlowsStep
    <2>4. \A a \in Accounts : a # p => h[a] = g[a]
        BY DEF FlowsStep
    <2> HIDE DEF g, h
    <2>5. Sum(h, NumAccounts) = Sum(g, NumAccounts) + (h[p] - g[p])
        BY <1>1, <2>2, <2>4, TotalUpdate
    <2>6. b[r] \in Int
        BY <1>1, <2>0
    <2>7. Sum(h, NumAccounts) = rec[r].netflow + b[r]
        BY SMTT(20), <1>3, <2>0, <2>1, <2>3, <2>5, <2>6
    <2>8. rec'[r].netflow = rec[r].netflow + b[r]
        BY <1>4, <2>0
    <2> QED
        BY <2>7, <2>8 DEF h
<1>8. rec'[Gov].netflow = 0
    BY SMTT(20), <1>1, <1>4, AccountFacts DEF RatesInv
<1>9. \A a \in Accounts \ Payers : rec'[a].frozen = 0
    BY <1>4 DEF RatesInv
<1> QED
    BY <1>5, <1>6, <1>7, <1>8, <1>9 DEF RatesInv

(* ReceiversNeverOwe, record by record.                                    *)
LEMMA EarnsDef ==
    ReceiversNeverOwe <=> \A r \in Receivers : Earns(rec[r])
BY DEF ReceiversNeverOwe, Earns

(* Outside the loops LoopInv does not depend on the records.               *)
LEMMA OutsideLoops ==
    ASSUME LoopInv, phase \in {"tx", "storage"}, UNCHANGED loopVars
    PROVE  LoopInv'
BY DEF LoopInv, loopVars

(* A step that thaws no resuming payer keeps ResumingIsFrozen.             *)
LEMMA ResumingKept ==
    ASSUME TypeOK, ResumingIsFrozen, autoResume' = autoResume,
           \A p \in Payers : rec[p].status = "frozen" => rec'[p].status = "frozen" \/ ~Resuming(p)
    PROVE  ResumingIsFrozen'
<1>1. \A q \in autoResume : q[2] \in Payers
    BY DEF TypeOK, QueueRecord
<1>2. \A q \in autoResume : Resuming(q[2])
    BY DEF Resuming
<1> QED
    BY <1>1, <1>2 DEF ResumingIsFrozen

(* A step that changes records but neither rates nor flows.                *)
QuietStep ==
    /\ rec' \in [Accounts -> StreamRecord]
    /\ active' = active /\ frozen' = frozen
    /\ stored \subseteq stored' /\ \A a \in Accounts \ stored' : rec'[a] = rec[a]
    /\ \A a \in Accounts : Moves(rec[a], rec'[a], 0, 0)
    /\ \A r \in Receivers : Earns(rec'[r])
    /\ \A p \in Payers : rec'[p].status = "active" => rec[p].status = "active" \/ ~HasFlows(frozen[p])

(* A step that changes no rate and no flow keeps the core invariant.       *)
LEMMA QuietStepKeeps ==
    ASSUME TypeOK, CoreInv, QuietStep
    PROVE  CoreInv'
<1>1. RatesInv'
    BY QuietKeepsRates DEF CoreInv, QuietStep
<1>2. RecordsInv'
    BY DEF RecordsInv, QuietStep, Moves
<1>3. StoredInv'
    BY DEF CoreInv, StoredInv, QuietStep
<1>4. ReceiversNeverOwe'
    BY DEF QuietStep, ReceiversNeverOwe, Earns
<1>5. FlowsNotDoubled'
    BY DEF CoreInv, FlowsNotDoubled, QuietStep, HasFlows
<1> QED
    BY <1>1, <1>2, <1>3, <1>4, <1>5 DEF CoreInv

(* An income that is a sum of flows is not negative.                       *)
LEMMA IncomeNatNext ==
    ASSUME rec' \in [Accounts -> StreamRecord], active' \in [Payers -> [Accounts -> Nat]],
           IncomeMatchesFlows'
    PROVE  \A r \in Receivers : rec'[r].netflow >= 0
<1> SUFFICES ASSUME NEW r \in Receivers
             PROVE  rec'[r].netflow >= 0
    OBVIOUS
<1> DEFINE g == [a \in Accounts |-> IF a \in Payers THEN active'[a][r] ELSE 0]
<1>1. g \in [Accounts -> Nat]
    BY AccountFacts
<1>2. rec'[r].netflow = Sum(g, NumAccounts)
    BY DEF IncomeMatchesFlows
<1> HIDE DEF g
<1> QED
    BY SMTT(20), <1>1, <1>2, TotalNat

(* A step that changes flows and tells the receivers.                      *)
LEMMA FlowsStepKeeps ==
    ASSUME TypeOK, CoreInv, NEW p \in Payers, NEW b \in BillRates, NEW f \in [Accounts -> Int],
           FlowsStep(p, b, f), FlowsNotDoubled',
           stored \subseteq stored', \A a \in Accounts \ stored' : rec'[a] = rec[a],
           \A r \in Receivers : rec'[r] = rec[r] \/ rec'[r] = Credited(rec[r], 0, b[r])
    PROVE  CoreInv'
<1>1. RatesInv'
    BY FlowsKeepRates DEF CoreInv
<1>2. RecordsInv'
    BY AccountFacts DEF RecordsInv, FlowsStep, Moves
<1>3. StoredInv'
    BY DEF CoreInv, StoredInv
<1>4. ReceiversNeverOwe'
    <2> SUFFICES ASSUME NEW r \in Receivers
                 PROVE  Earns(rec'[r])
        BY DEF ReceiversNeverOwe, Earns
    <2>1. /\ r \in Accounts /\ r # p /\ b[r] \in Int
          /\ rec[r] \in StreamRecord /\ rec[r].lock >= 0 /\ Earns(rec[r])
          /\ now \in Nat /\ params \in ParamSets
        BY AccountFacts, EarnsDef DEF BillRates, TypeOK, CoreInv, RecordsInv
    <2>2. rec'[r].netflow >= 0
        BY <1>1, IncomeNatNext DEF FlowsStep, RatesInv
    <2>3. rec'[r].netflow = rec[r].netflow + b[r]
        BY <2>1 DEF FlowsStep, Moves
    <2>4. CASE rec'[r] = Credited(rec[r], 0, b[r])
        BY <2>1, <2>2, <2>3, <2>4, CreditedEarns
    <2> QED
        BY <2>1, <2>4
<1> QED
    BY <1>1, <1>2, <1>3, <1>4 DEF CoreInv

(* Changing one record without touching its rates is a quiet step.         *)
LEMMA OneRecordQuiet ==
    ASSUME TypeOK, CoreInv, NEW a \in Accounts, NEW t,
           rec' = [rec EXCEPT ![a] = t], Moves(rec[a], t, 0, 0),
           a \in Receivers => Earns(t),
           a \in Payers => (t.status = "active" => rec[a].status = "active" \/ ~HasFlows(frozen[a])),
           active' = active, frozen' = frozen,
           stored \subseteq stored', a \in stored'
    PROVE  QuietStep
<1>1. /\ rec \in [Accounts -> StreamRecord] /\ t \in StreamRecord
      /\ \A x \in Accounts : rec[x].lock >= 0 /\ rec[x].buffer >= 0
      /\ \A r \in Receivers : Earns(rec[r])
    BY EarnsDef DEF TypeOK, CoreInv, RecordsInv, Moves
<1>2. \A x \in Accounts : x # a => rec'[x] = rec[x]
    BY <1>1
<1>3. rec'[a] = t /\ rec' \in [Accounts -> StreamRecord]
    BY <1>1
<1>4. \A x \in Accounts : Moves(rec[x], rec'[x], 0, 0)
    BY <1>1, <1>2, <1>3, MovesNothing
<1> QED
    BY <1>1, <1>2, <1>3, <1>4, AccountFacts DEF QuietStep

(* UpdateAutoSettleRecord queues payers only.                              *)
LEMMA RequeueType ==
    ASSUME NEW queue, queue \subseteq QueueRecord, NEW a, NEW old \in Int, NEW new \in Int,
           new # 0 => a \in Payers
    PROVE  Requeue(queue, a, old, new) \subseteq QueueRecord
BY SMT DEF Requeue, QueueRecord

FlowsType(flows) ==
    /\ flows \in [Payers -> [Accounts -> Nat]]
    /\ \A p \in Payers, a \in Accounts \ Receivers : flows[p][a] = 0

(* TypeOK for the steps that leave the block's parameters, the payment     *)
(* accounts and the loops alone.                                           *)
LEMMA LedgerType ==
    ASSUME TypeOK, rec' \in [Accounts -> StreamRecord], stored' \subseteq Accounts,
           FlowsType(active'), FlowsType(frozen'),
           autoSettle' \subseteq QueueRecord, autoResume' \subseteq QueueRecord,
           bank' \in [Accounts -> Nat], module' \in Int,
           UNCHANGED <<now, params, acctVars, loopVars>>
    PROVE  TypeOK'
BY DEF TypeOK, FlowsType, acctVars, loopVars

(* The flow maps are typed whenever TypeOK holds.                          *)
LEMMA FlowsTypeNow ==
    ASSUME TypeOK
    PROVE  FlowsType(active) /\ FlowsType(frozen)
BY DEF TypeOK, FlowsType

(* The update of one payer's record that changes no rate, in a transaction *)
(* (TxUpdate, and the updates by deposits and withdrawals).                *)
LEMMA PayerUpdateQuiet ==
    ASSUME TypeOK, CoreInv, NEW p \in Payers, NEW c \in ChangeRecord, c.rate = 0, NEW b \in Nat,
           rec[p].status = "active",
           rec' = [rec EXCEPT ![p] = Updated(@, c, b)],
           active' = active, frozen' = frozen, stored \subseteq stored', p \in stored'
    PROVE  QuietStep
<1>1. p \in Accounts /\ rec[p] \in StreamRecord /\ now \in Nat /\ params \in ParamSets /\ p \notin Receivers
    BY AccountFacts DEF TypeOK
<1>2. Moves(rec[p], Updated(rec[p], c, b), 0, 0)
    BY <1>1, UpdatedRecord
<1>3. rec' = [rec EXCEPT ![p] = Updated(rec[p], c, b)]
    OBVIOUS
<1> QED
    BY Zenon, <1>1, <1>2, <1>3, OneRecordQuiet

(* The messages that do not touch records.                                 *)
LEMMA UntouchedRecords ==
    ASSUME IInv, UNCHANGED <<stored, rec, active, frozen>>
    PROVE  CoreInv'
<1>1. QuietStep
    BY MovesNothing, EarnsDef DEF IInv, TypeOK, CoreInv, RecordsInv, QuietStep
<1> QED
    BY <1>1, QuietStepKeeps DEF IInv

(* What is left to show for a step outside the EndBlock loops, once the    *)
(* core invariant is known to be kept.                                     *)
LEMMA LedgerStep ==
    ASSUME IInv, phase \in {"tx", "storage"}, CoreInv',
           rec' \in [Accounts -> StreamRecord], stored' \subseteq Accounts,
           FlowsType(active'), FlowsType(frozen'), autoSettle' \subseteq QueueRecord,
           bank' \in [Accounts -> Nat], module' \in Int,
           UNCHANGED <<now, params, autoResume, acctVars, loopVars>>,
           \A p \in Payers : rec[p].status = "frozen" => rec'[p].status = "frozen" \/ ~Resuming(p)
    PROVE  IInv'
<1>1. TypeOK /\ ResumingIsFrozen /\ LoopInv /\ autoResume \subseteq QueueRecord
    BY DEF IInv, TypeOK
<1>2. TypeOK'
    BY <1>1, LedgerType
<1>3. ResumingIsFrozen'
    BY <1>1, ResumingKept
<1>4. LoopInv'
    BY <1>1, OutsideLoops
<1> QED
    BY <1>2, <1>3, <1>4 DEF IInv

(* A quiet step that touches several records.                              *)
LEMMA SomeRecordsQuiet ==
    ASSUME TypeOK, CoreInv, rec' \in [Accounts -> StreamRecord],
           active' = active, frozen' = frozen, stored \subseteq stored',
           \A a \in Accounts :
               \/ rec'[a] = rec[a]
               \/ /\ Moves(rec[a], rec'[a], 0, 0) /\ a \in stored'
                  /\ a \in Receivers => Earns(rec'[a])
                  /\ a \in Payers => (rec'[a].status = "active" =>
                                        rec[a].status = "active" \/ ~HasFlows(frozen[a]))
    PROVE  QuietStep
<1>1. /\ rec \in [Accounts -> StreamRecord]
      /\ \A x \in Accounts : rec[x].lock >= 0 /\ rec[x].buffer >= 0
      /\ \A r \in Receivers : Earns(rec[r])
    BY EarnsDef DEF TypeOK, CoreInv, RecordsInv
<1>2. \A x \in Accounts : Moves(rec[x], rec'[x], 0, 0)
    BY <1>1, MovesNothing
<1> QED
    BY <1>1, <1>2, AccountFacts DEF QuietStep

-----------------------------------------------------------------------------
(***************************************************************************)
(* II. The keeper calls of other modules: those of a transaction, and the  *)
(* forced ones of x/storage's EndBlock.                                    *)
(***************************************************************************)

(* Changing the flow count of a record does not matter to the rates.       *)
LEMMA CountedRecord ==
    ASSUME NEW s \in StreamRecord, NEW t, NEW rate \in Int, NEW f \in Int, NEW delta \in Int,
           Moves(s, t, rate, f)
    PROVE  LET u == [t EXCEPT !.outFlowCount = @ + delta] IN
           /\ Moves(s, u, rate, f)
           /\ u.status = t.status /\ u.settle = t.settle
<1>1. t \in StreamRecord /\ t.outFlowCount + delta \in Int
    BY SMT DEF Moves, StreamRecord
<1>2. [t EXCEPT !.outFlowCount = t.outFlowCount + delta] \in StreamRecord
    BY <1>1, SetCount
<1> QED
    BY <1>1, <1>2 DEF Moves, StreamRecord

(* A bill that changes the flows of an active payer; BillApplied says what *)
(* happens to the records.                                                 *)
BillApplied(p, b) ==
    /\ rec' \in [Accounts -> StreamRecord]
    /\ Moves(rec[p], rec'[p], -Sum(b, NumAccounts), 0)
    /\ Moves(rec[Gov], rec'[Gov], 0, 0)
    /\ \A a \in Accounts : a # p /\ a # Gov =>
          rec'[a] = IF b[a] # 0 THEN Credited(rec[a], 0, b[a]) ELSE rec[a]
    /\ stored \subseteq stored' /\ \A a \in Accounts \ stored' : rec'[a] = rec[a]

(* Applying a bill moves each receiver's rate by its line of the bill.     *)
LEMMA BillMoves ==
    ASSUME TypeOK, CoreInv, NEW p \in Payers, NEW b \in BillRates, BillApplied(p, b)
    PROVE  \A a \in Accounts : a # p => Moves(rec[a], rec'[a], b[a], 0)
<1> SUFFICES ASSUME NEW a \in Accounts, a # p
             PROVE  Moves(rec[a], rec'[a], b[a], 0)
    OBVIOUS
<1>1. /\ rec[a] \in StreamRecord /\ rec[a].lock >= 0 /\ rec[a].buffer >= 0 /\ b[a] \in Int
      /\ now \in Nat /\ params \in ParamSets /\ b[Gov] = 0
    BY AccountFacts DEF TypeOK, CoreInv, RecordsInv, BillRates
<1>2. CASE a = Gov
    BY <1>1, <1>2 DEF BillApplied
<1>3. CASE a # Gov /\ b[a] # 0
    <2>1. rec'[a] = Credited(rec[a], 0, b[a])
        BY <1>3 DEF BillApplied
    <2> QED
        BY <1>1, <2>1, CreditedRecord, ZeroInt
<1>4. CASE a # Gov /\ b[a] = 0
    <2>1. rec'[a] = rec[a]
        BY <1>4 DEF BillApplied
    <2> QED
        BY <1>1, <1>4, <2>1, MovesNothing
<1> QED
    BY <1>2, <1>3, <1>4

(* MergeOutFlows adds the bill to the payer's flows and touches no other   *)
(* payer.                                                                  *)
LEMMA MergeFlows ==
    ASSUME NEW p \in Payers, NEW b \in BillRates, NEW flows, FlowsType(flows), Covered(flows[p], b)
    PROVE  /\ FlowsType(Merged(flows, p, b))
           /\ \A q \in Payers \ {p} : Merged(flows, p, b)[q] = flows[q]
           /\ \A r \in Accounts : Merged(flows, p, b)[p][r] = flows[p][r] + b[r]
<1> DEFINE after == Merged(flows, p, b)
<1>1. /\ flows \in [Payers -> [Accounts -> Nat]] /\ b \in [Accounts -> Int]
      /\ \A a \in Accounts \ Receivers : b[a] = 0 /\ flows[p][a] = 0
      /\ \A q \in Payers, a \in Accounts \ Receivers : flows[q][a] = 0
    BY DEF FlowsType, BillRates
<1>2. Merge(flows[p], b) \in [Accounts -> Nat]
    BY SMT, <1>1 DEF Merge, Covered
<1>3. \A r \in Accounts : Merge(flows[p], b)[r] = flows[p][r] + b[r]
    BY DEF Merge
<1>4. after[p] = Merge(flows[p], b) /\ \A q \in Payers \ {p} : after[q] = flows[q]
    BY <1>1 DEF Merged
<1>5. after \in [Payers -> [Accounts -> Nat]]
    BY <1>1, <1>2 DEF Merged
<1>6. \A q \in Payers, a \in Accounts \ Receivers : after[q][a] = 0
    BY SMTT(20), <1>1, <1>3, <1>4
<1> QED
    BY <1>3, <1>4, <1>5, <1>6 DEF FlowsType

(* Billing an active payer keeps the core invariant.                       *)
LEMMA BillStep ==
    ASSUME TypeOK, CoreInv, NEW p \in Payers, NEW b \in BillRates, Covered(active[p], b),
           rec[p].status = "active", BillApplied(p, b),
           active' = Merged(active, p, b), frozen' = frozen
    PROVE  CoreInv' /\ FlowsType(active')
<1>1. /\ FlowsType(active')
      /\ \A q \in Payers \ {p} : active'[q] = active[q]
      /\ \A r \in Accounts : active'[p][r] = active[p][r] + b[r]
    <2>1. FlowsType(active)
        BY FlowsTypeNow
    <2> QED
        BY SMTT(20), <2>1, MergeFlows
<1>2. /\ NoRates \in [Accounts -> Int] /\ -Sum(NoRates, NumAccounts) = 0
      /\ \A r \in Accounts : frozen'[p][r] = frozen[p][r] + NoRates[r]
    <2>1. -Sum(NoRates, NumAccounts) = 0 /\ NoRates \in [Accounts -> Int]
        BY NoRatesSum
    <2>2. \A r \in Accounts : frozen[p][r] \in Nat /\ NoRates[r] = 0
        BY SMTT(20) DEF TypeOK, NoRates
    <2>3. \A r \in Accounts : frozen[p][r] = frozen[p][r] + NoRates[r]
        <3>1. \A x \in Nat : x = x + 0
            BY SMT
        <3> QED
            BY Zenon, <2>2, <3>1
    <2> QED
        BY <2>1, <2>3
<1>3. frozen' \in [Payers -> [Accounts -> Nat]] /\ active' \in [Payers -> [Accounts -> Nat]]
    BY <1>1 DEF TypeOK, FlowsType
<1>4. FlowsStep(p, b, NoRates)
    BY <1>1, <1>2, <1>3, BillMoves DEF FlowsStep, BillApplied
<1>5. /\ \A a \in Accounts \ Receivers : b[a] = 0
      /\ \A r \in Receivers : rec'[r] = rec[r] \/ rec'[r] = Credited(rec[r], 0, b[r])
    BY AccountFacts DEF BillRates, BillApplied
<1>6. \A q \in Payers : q # p => rec'[q] = rec[q]
    BY <1>5, AccountFacts DEF BillApplied
<1>7. FlowsNotDoubled'
    <2>1. \A q \in Payers, r \in Accounts : q # p =>
              /\ active'[q][r] = 0 \/ frozen'[q][r] = 0
              /\ rec'[q].status = "active" => frozen'[q][r] = 0
        BY SMTT(20), <1>1, <1>6 DEF CoreInv, FlowsNotDoubled
    <2>2. \A r \in Accounts : frozen'[p][r] = 0
        BY DEF CoreInv, FlowsNotDoubled
    <2> QED
        BY <2>1, <2>2 DEF FlowsNotDoubled
<1>8. stored \subseteq stored' /\ \A a \in Accounts \ stored' : rec'[a] = rec[a]
    BY DEF BillApplied
<1> QED
    BY <1>1, <1>2, <1>4, <1>5, <1>7, <1>8, FlowsStepKeeps

(* Every call of another module inside a transaction keeps the invariant.  *)
LEMMA KeeperCallsKeep ==
    IInv /\ KeeperCalls => IInv'
(* UpdateStreamRecordByAddr with no rate change keeps the invariant.       *)
<1>TxUpdateStep.
      ASSUME IInv, NEW p \in Payers, NEW c \in ChangeRecord, c.rate = 0, phase = "tx",
             TxUpdate(p, c), UNCHANGED <<now, params, flowVars, autoResume, acctVars, loopVars>>
      PROVE  IInv'
    <2> USE <1>TxUpdateStep
    <2>1. /\ TypeOK /\ CoreInv /\ LoopInv /\ ResumingIsFrozen
          /\ now \in Nat /\ params \in ParamSets /\ p \in Accounts
          /\ rec[p] \in StreamRecord /\ bank[p] \in Nat
        BY AccountFacts DEF IInv, TypeOK
    <2>2. CanUpdate(rec[p], c, bank[p]) /\ rec[p].status = "active"
        BY DEF TxUpdate, CanUpdate
    <2>3. QuietStep
        <3>1. stored \subseteq stored' /\ p \in stored' /\ active' = active /\ frozen' = frozen
            BY DEF TxUpdate, flowVars
        <3>2. rec' = [rec EXCEPT ![p] = Updated(@, c, bank[p])]
            BY DEF TxUpdate
        <3> QED
            BY Zenon, <2>1, <2>2, <3>1, <3>2, PayerUpdateQuiet
    <2>4. Settled(rec[p], c) \in StreamRecord
        BY <2>1, SettledRecord
    <2>5. /\ PullAmount(Settled(rec[p], c), bank[p]) \in Nat
          /\ PullAmount(Settled(rec[p], c), bank[p]) <= bank[p]
        BY <2>1, <2>4, PullAmountNat
    <2>6. Updated(rec[p], c, bank[p]).settle \in Int /\ rec[p].settle \in Int
        BY Zenon, <2>1, UpdatedRecord DEF Moves, StreamRecord
    <2>7. autoSettle' \subseteq QueueRecord
        BY <2>1, <2>6, RequeueType DEF TxUpdate, TypeOK
    <2>8. bank' \in [Accounts -> Nat] /\ module' \in Int
        BY SMTT(20), <2>1, <2>5 DEF TxUpdate, TypeOK
    <2>9. TypeOK'
        <3>1. rec' \in [Accounts -> StreamRecord]
            BY <2>3 DEF QuietStep
        <3>2. stored' \subseteq Accounts /\ autoResume' \subseteq QueueRecord
            BY <2>1 DEF TxUpdate, TypeOK
        <3>3. FlowsType(active') /\ FlowsType(frozen')
            BY <2>1, FlowsTypeNow DEF flowVars
        <3> QED
            BY <2>1, <2>7, <2>8, <3>1, <3>2, <3>3, LedgerType
    <2>10. CoreInv'
        BY <2>1, <2>3, QuietStepKeeps
    <2>11. ResumingIsFrozen'
        <3>1. \A q \in Payers : rec[q].status = "frozen" => rec'[q].status = "frozen"
            BY SMTT(20), <2>1, <2>2 DEF TxUpdate, TypeOK
        <3> QED
            BY <2>1, <3>1, ResumingKept
    <2>12. LoopInv'
        BY <2>1, OutsideLoops
    <2> QED
        BY <2>9, <2>10, <2>11, <2>12 DEF IInv
(* LockObjectFee keeps the invariant.                                      *)
<1>LockFeeStep.
      ASSUME IInv, NEW p \in Payers, NEW amount \in Fees, LockFee(p, amount)
      PROVE  IInv'
    <2> USE <1>LockFeeStep
    <2>1. Change(0, 0, amount) \in ChangeRecord /\ Change(0, 0, amount).rate = 0
        BY SMTT(20), FeesType, ChangeType
    <2> QED
        BY <2>1, <1>TxUpdateStep DEF LockFee
(* UnlockObjectFee keeps the invariant.                                    *)
<1>UnlockFeeStep.
      ASSUME IInv, NEW p \in Payers, NEW amount \in Fees, UnlockFee(p, amount)
      PROVE  IInv'
    <2> USE <1>UnlockFeeStep
    <2>1. Change(0, 0, -amount) \in ChangeRecord /\ Change(0, 0, -amount).rate = 0
        BY SMTT(20), FeesType, ChangeType
    <2> QED
        BY <2>1, <1>TxUpdateStep DEF UnlockFee
(* Keeper.Withdraw, by which a family is settled, keeps the invariant.     *)
<1>KeeperWithdrawStep.
      ASSUME IInv, NEW r \in Receivers, KeeperWithdraw(r)
      PROVE  IInv'
    <2> USE <1>KeeperWithdrawStep
    <2> DEFINE amount == Accrue(rec[r]).static
               t == Credited(rec[r], -amount, 0)
    <2>1. /\ TypeOK /\ CoreInv /\ LoopInv /\ ResumingIsFrozen /\ phase = "tx"
          /\ now \in Nat /\ params \in ParamSets /\ r \in Accounts /\ r \notin Payers
          /\ rec[r] \in StreamRecord /\ rec[r].lock >= 0 /\ Earns(rec[r])
        BY AccountFacts, EarnsDef DEF IInv, TypeOK, KeeperWithdraw, CoreInv, RecordsInv
    <2>2. /\ rec' = [rec EXCEPT ![r] = t] /\ module' = module - amount /\ r \in stored
          /\ UNCHANGED <<now, params, stored, active, frozen, autoSettle, autoResume, bank, acctVars, loopVars>>
        BY DEF KeeperWithdraw, flowVars
    <2>3. amount \in Int /\ -amount \in Int /\ amount + (-amount) = 0
        BY SMTT(20), <2>1, AccrueRecord DEF StreamRecord
    <2>4. rec[r].netflow + 0 >= 0
        BY SMTT(20), <2>1 DEF Earns, StreamRecord
    <2>5. Moves(rec[r], t, 0, 0) /\ Earns(t)
        BY SMTT(20), <2>1, <2>3, <2>4, CreditedRecord
    <2> HIDE DEF t, amount
    <2>6. QuietStep
        BY Zenon, <2>1, <2>2, <2>5, OneRecordQuiet
    <2>7. CoreInv'
        BY <2>1, <2>6, QuietStepKeeps
    <2>8. TypeOK'
        <3>1. rec' \in [Accounts -> StreamRecord]
            BY Zenon, <2>6 DEF QuietStep
        <3>2. /\ module' \in Int /\ stored' \subseteq Accounts /\ bank' \in [Accounts -> Nat]
              /\ autoSettle' \subseteq QueueRecord /\ autoResume' \subseteq QueueRecord
            BY SMTT(20), <2>1, <2>2, <2>3 DEF TypeOK
        <3>3. FlowsType(active') /\ FlowsType(frozen')
            BY <2>1, <2>2, FlowsTypeNow
        <3> QED
            BY <2>1, <2>2, <3>1, <3>2, <3>3, LedgerType
    <2>9. ResumingIsFrozen'
        <3>1. \A q \in Payers : rec'[q] = rec[q]
            BY <2>1, <2>2, AccountFacts DEF TypeOK
        <3> QED
            BY Zenon, <2>1, <2>2, <3>1, ResumingKept
    <2>10. LoopInv'
        BY <2>1, <2>2, OutsideLoops
    <2> QED
        BY <2>7, <2>8, <2>9, <2>10 DEF IInv
(* The early deletion fee of a transaction keeps the invariant.            *)
<1>EarlyDeletionFeeStep.
      ASSUME IInv, NEW p \in Payers, NEW r \in Receivers, NEW amount \in Fees,
             EarlyDeletionFee(p, r, amount)
      PROVE  IInv'
    <2> USE <1>EarlyDeletionFeeStep
    <2> DEFINE c == Change(-amount, 0, 0)
               pull == PullAmount(Settled(rec[p], c), bank[p])
               s == Updated(rec[p], c, bank[p])
               t == Credited(rec[r], amount, 0)
    <2>1. /\ TypeOK /\ CoreInv /\ LoopInv /\ ResumingIsFrozen /\ phase = "tx"
          /\ now \in Nat /\ params \in ParamSets
          /\ p \in Accounts /\ r \in Accounts /\ p # r /\ p \notin Receivers /\ r \notin Payers
          /\ rec \in [Accounts -> StreamRecord] /\ rec[p] \in StreamRecord /\ bank[p] \in Nat
          /\ rec[r] \in StreamRecord /\ rec[r].lock >= 0 /\ Earns(rec[r])
        BY AccountFacts, EarnsDef DEF IInv, TypeOK, EarlyDeletionFee, CoreInv, RecordsInv
    <2>0. c \in ChangeRecord /\ c.rate = 0 /\ amount \in Nat
        BY SMTT(20), FeesType, ChangeType
    <2>2. /\ CanUpdate(rec[p], c, bank[p]) /\ rec[p].status = "active"
          /\ rec' = [rec EXCEPT ![p] = s, ![r] = t]
          /\ bank' = [bank EXCEPT ![p] = @ - pull] /\ module' = module + pull
          /\ autoSettle' = Requeue(autoSettle, p, rec[p].settle, s.settle)
          /\ stored' = stored \cup {p, r}
          /\ UNCHANGED <<now, params, active, frozen, autoResume, acctVars, loopVars>>
        BY DEF EarlyDeletionFee, CanUpdate, flowVars
    <2>3. pull \in Nat /\ pull <= bank[p]
        BY <2>0, <2>1, SettledRecord, PullAmountNat
    <2>4. Moves(rec[p], s, 0, 0) /\ s.settle \in Int /\ rec[p].settle \in Int
        <3> HIDE DEF c
        <3>2. Moves(rec[p], s, c.rate, 0)
            BY Zenon, <2>0, <2>1, UpdatedRecord
        <3> HIDE DEF s
        <3>1. Moves(rec[p], s, 0, 0)
            BY <2>0, <3>2
        <3> QED
            BY <2>1, <3>1 DEF Moves, StreamRecord
    <2>5. Moves(rec[r], t, 0, 0) /\ Earns(t)
        <3>1. rec[r].netflow + 0 >= 0
            BY SMTT(20), <2>1 DEF Earns, StreamRecord
        <3> QED
            BY SMTT(20), <2>0, <2>1, <3>1, CreditedRecord, CreditedEarns
    <2> HIDE DEF c, pull, s, t
    <2>6. /\ rec' \in [Accounts -> StreamRecord] /\ rec'[p] = s /\ rec'[r] = t
          /\ \A a \in Accounts : a # p /\ a # r => rec'[a] = rec[a]
        BY Zenon, <2>1, <2>2, <2>4, <2>5 DEF Moves
    <2>7. QuietStep
        BY <2>1, <2>2, <2>4, <2>5, <2>6, SomeRecordsQuiet
    <2>8. CoreInv'
        BY Zenon, <2>1, <2>7, QuietStepKeeps
    <2>9. autoSettle' \subseteq QueueRecord
        BY Zenon, <2>1, <2>2, <2>4, RequeueType DEF TypeOK
    <2>10. module' \in Int /\ stored' \subseteq Accounts /\ bank' \in [Accounts -> Nat]
        BY SMTT(20), <2>1, <2>2, <2>3 DEF TypeOK
    <2>11. FlowsType(active') /\ FlowsType(frozen')
        BY <2>1, <2>2, FlowsTypeNow
    <2>12. \A q \in Payers : rec[q].status = "frozen" => rec'[q].status = "frozen" \/ ~Resuming(q)
        BY <2>1, <2>2, <2>6, AccountFacts
    <2> QED
        BY Zenon, <2>1, <2>2, <2>6, <2>8, <2>9, <2>10, <2>11, <2>12, LedgerStep
(* ApplyUserFlowsList on an active payer keeps the invariant.              *)
<1>ApplyUserFlowsStep.
      ASSUME IInv, NEW p \in Payers, NEW b \in Bills, ApplyUserFlows(p, b)
      PROVE  IInv'
    <2> USE <1>ApplyUserFlowsStep
    <2> DEFINE c == Change(0, -BillTotal(b), 0)
               pull == PullAmount(Settled(rec[p], c), bank[p])
               s == Updated(rec[p], c, bank[p])
               u == [s EXCEPT !.outFlowCount = @ + MergeDelta(active[p], b)]
    <2>1. /\ TypeOK /\ CoreInv /\ phase = "tx" /\ now \in Nat /\ params \in ParamSets
          /\ p \in Accounts /\ p # Gov /\ rec[p] \in StreamRecord /\ bank[p] \in Nat
          /\ rec[Gov] \in StreamRecord /\ rec[Gov].lock >= 0 /\ rec[Gov].buffer >= 0
        BY AccountFacts DEF IInv, TypeOK, ApplyUserFlows, CoreInv, RecordsInv
    <2>2. /\ b \in BillRates /\ c \in ChangeRecord /\ c.rate = -Sum(b, NumAccounts)
          /\ -Sum(b, NumAccounts) \in Int
        BY SMTT(20), BillsAreRates, ChangeType, ZeroInt DEF BillTotal
    <2>3. /\ CanUpdate(rec[p], c, bank[p]) /\ rec[p].status = "active" /\ Covered(active[p], b)
          /\ rec' = RecWith(p, u, b)
          /\ bank' = [bank EXCEPT ![p] = @ - pull] /\ module' = module + pull
          /\ autoSettle' = Requeue(autoSettle, p, rec[p].settle, s.settle)
          /\ active' = Merged(active, p, b) /\ frozen' = frozen
          /\ stored' = stored \cup {p} \cup OnBill(b)
          /\ UNCHANGED <<now, params, autoResume, acctVars, loopVars>>
        BY DEF ApplyUserFlows, CanUpdate, Merged
    <2>4. pull \in Nat /\ pull <= bank[p]
        BY <2>1, <2>2, SettledRecord, PullAmountNat
    <2>5. Moves(rec[p], s, -Sum(b, NumAccounts), 0)
        BY SMTT(20), <2>1, <2>2, UpdatedRecord
    <2> HIDE DEF s, c, pull
    <2>6. Moves(rec[p], u, -Sum(b, NumAccounts), 0)
        BY <2>1, <2>2, <2>5, MergeDeltaInt, CountedRecord, ZeroInt
    <2>7. s.settle \in Int /\ rec[p].settle \in Int /\ u \in StreamRecord
        BY <2>1, <2>5, <2>6 DEF Moves, StreamRecord
    <2> HIDE DEF u
    <2>8. /\ rec' \in [Accounts -> StreamRecord] /\ rec'[p] = u
          /\ \A a \in Accounts : a # p => rec'[a] = IF b[a] # 0 THEN Credited(rec[a], 0, b[a]) ELSE rec[a]
          /\ rec'[Gov] = rec[Gov]
        <3>1. TypeOK /\ CoreInv /\ u \in StreamRecord /\ b \in BillRates
            BY Zenon, <2>1, <2>2, <2>7
        <3>2. /\ RecWith(p, u, b) \in [Accounts -> StreamRecord] /\ RecWith(p, u, b)[p] = u
              /\ \A a \in Accounts : a # p =>
                    RecWith(p, u, b)[a] = IF b[a] # 0 THEN Credited(rec[a], 0, b[a]) ELSE rec[a]
              /\ RecWith(p, u, b)[Gov] = rec[Gov]
            BY SMTT(20), <3>1, RecWithValues
        <3>3. rec' = RecWith(p, u, b)
            BY Zenon, <2>3
        <3> QED
            BY Zenon, <3>2, <3>3
    <2>9. BillApplied(p, b)
        <3>1. Moves(rec[Gov], rec'[Gov], 0, 0)
            BY <2>1, <2>8, MovesNothing
        <3>2. stored \subseteq stored' /\ \A a \in Accounts \ stored' : a # p /\ b[a] = 0
            BY <2>3 DEF OnBill
        <3> QED
            BY <2>6, <2>8, <3>1, <3>2 DEF BillApplied
    <2>10. CoreInv' /\ FlowsType(active') /\ FlowsType(frozen')
        BY Zenon, <2>1, <2>2, <2>3, <2>9, BillStep, FlowsTypeNow
    <2>11. autoSettle' \subseteq QueueRecord
        BY <2>1, <2>3, <2>7, RequeueType DEF TypeOK
    <2>12. module' \in Int /\ stored' \subseteq Accounts /\ bank' \in [Accounts -> Nat]
        BY SMTT(20), <2>1, <2>3, <2>4 DEF TypeOK, OnBill
    <2>13. \A q \in Payers : rec[q].status = "frozen" => rec'[q].status = "frozen" \/ ~Resuming(q)
        BY <2>2, <2>3, <2>8, AccountFacts DEF BillRates
    <2> QED
        BY <2>1, <2>3, <2>8, <2>10, <2>11, <2>12, <2>13, LedgerStep
<1> QED
    BY <1>KeeperWithdrawStep, <1>ApplyUserFlowsStep, <1>LockFeeStep, <1>UnlockFeeStep,
       <1>EarlyDeletionFeeStep DEF KeeperCalls

(* A forced update of payer p that starts from its record or from the      *)
(* record with the status set to active.                                   *)
LEMMA ForceUpdateFacts ==
    ASSUME TypeOK, CoreInv, NEW p \in Payers, NEW s \in StreamRecord,
           s.netflow = rec[p].netflow, s.frozen = rec[p].frozen, s.status = "active",
           NEW c \in ChangeRecord, NEW delta \in Int, NEW b \in BillRates,
           c.rate = -Sum(b, NumAccounts), ForceUpdate(p, s, c, delta, b)
    PROVE  /\ BillApplied(p, b)
           /\ rec'[p].status = IF Overdue(Balanced(s, c, bank[p])) THEN "frozen" ELSE "active"
           /\ autoSettle' \subseteq QueueRecord
           /\ module' \in Int /\ stored' \subseteq Accounts /\ bank' \in [Accounts -> Nat]
<1> DEFINE t == Balanced(s, c, bank[p])
           pull == PullAmount(Settled(s, c), bank[p])
           v == Updated(s, c, bank[p])
           u == [v EXCEPT !.outFlowCount = @ + delta]
<1>1. /\ now \in Nat /\ params \in ParamSets
      /\ p \in Accounts /\ p # Gov /\ Gov \in Accounts /\ rec[p] \in StreamRecord
      /\ bank \in [Accounts -> Nat] /\ bank[p] \in Nat /\ bank[Gov] \in Nat /\ module \in Int
      /\ stored \subseteq Accounts
    BY AccountFacts DEF TypeOK
<1>2. /\ rec' = [RecWith(p, u, b) EXCEPT ![Gov] = GovAfter(t)]
      /\ stored' = (stored \cup {p} \cup OnBill(b)) \cup (IF Overdue(t) THEN {Gov} ELSE {})
      /\ bank' = [bank EXCEPT ![p] = @ - pull, ![Gov] = @ - GovPull(t)]
      /\ module' = module + pull + GovPull(t)
      /\ autoSettle' = Requeue(autoSettle, p, s.settle, SettleTime(t))
    BY DEF ForceUpdate
<1>3. /\ Moves(s, v, c.rate, 0) /\ v.status = IF Overdue(t) THEN "frozen" ELSE "active"
    BY <1>1, UpdatedRecord
<1>4. t \in StreamRecord /\ pull \in Nat /\ pull <= bank[p]
    BY Zenon, <1>1, BalancedRecord, SettledRecord, PullAmountNat
<1>5. SettleTime(t) \in Int /\ s.settle \in Int /\ c.rate \in Int
    BY <1>1, <1>4, SettleTimeInt DEF StreamRecord, ChangeRecord
<1> HIDE DEF t, pull, v
<1>6. Moves(s, u, c.rate, 0) /\ u.status = v.status
    BY SMTT(20), <1>3, <1>5, CountedRecord, ZeroInt
<1> HIDE DEF u
<1>7. u \in StreamRecord /\ Moves(rec[p], u, -Sum(b, NumAccounts), 0)
    BY <1>6 DEF Moves
<1>8. /\ Moves(rec[Gov], GovAfter(t), 0, 0) /\ GovAfter(t) \in StreamRecord
      /\ GovPull(t) \in Nat /\ GovPull(t) <= bank[Gov]
      /\ ~Overdue(t) => GovAfter(t) = rec[Gov]
    BY <1>4, GovFacts DEF Moves
<1>9. /\ RecWith(p, u, b) \in [Accounts -> StreamRecord] /\ RecWith(p, u, b)[p] = u
      /\ \A a \in Accounts : a # p =>
            RecWith(p, u, b)[a] = IF b[a] # 0 THEN Credited(rec[a], 0, b[a]) ELSE rec[a]
    BY ZenonT(40), <1>7, RecWithValues
<1>10. /\ rec' \in [Accounts -> StreamRecord] /\ rec'[p] = u /\ rec'[Gov] = GovAfter(t)
       /\ \A a \in Accounts : a # p /\ a # Gov =>
            rec'[a] = IF b[a] # 0 THEN Credited(rec[a], 0, b[a]) ELSE rec[a]
    BY Zenon, <1>1, <1>2, <1>8, <1>9
<1>11. BillApplied(p, b)
    <2>1. stored \subseteq stored'
        BY Zenon, <1>2
    <2>2. \A a \in Accounts \ stored' : a # p /\ b[a] = 0 /\ (a = Gov => ~Overdue(t))
        BY <1>2 DEF OnBill
    <2>3. \A a \in Accounts \ stored' : rec'[a] = rec[a]
        BY <1>8, <1>10, <2>2
    <2> QED
        BY Zenon, <1>7, <1>8, <1>10, <2>1, <2>3 DEF BillApplied
<1>12. autoSettle' \subseteq QueueRecord
    BY Zenon, <1>2, <1>5, RequeueType DEF TypeOK
<1>13. bank' \in [Accounts -> Nat] /\ module' \in Int
    <2>1. \A x, y \in Nat : y <= x => x - y \in Nat
        BY SMT
    <2>2. bank[p] - pull \in Nat /\ bank[Gov] - GovPull(t) \in Nat
        BY Zenon, <1>1, <1>4, <1>8, <2>1
    <2>3. \A x \in Int, y, z \in Nat : x + y + z \in Int
        BY SMT
    <2>4. module' \in Int
        BY Zenon, <1>1, <1>2, <1>4, <1>8, <2>3
    <2>5. /\ bank \in [Accounts -> Nat] /\ p # Gov
          /\ bank' = [bank EXCEPT ![p] = @ - pull, ![Gov] = @ - GovPull(t)]
        BY Zenon, <1>1, <1>2
    <2> HIDE DEF GovPull
    <2> QED
        BY Zenon, <2>2, <2>4, <2>5
<1>14. stored' \subseteq Accounts
    BY Zenon, <1>1, <1>2 DEF OnBill
<1> QED
    BY <1>3, <1>6, <1>10, <1>11, <1>12, <1>13, <1>14 DEF t

(* A forced update that changes no rate.                                   *)
LEMMA ForceQuiet ==
    ASSUME TypeOK, CoreInv, NEW p \in Payers, NEW s \in StreamRecord,
           s.netflow = rec[p].netflow, s.frozen = rec[p].frozen, s.status = "active",
           NEW c \in ChangeRecord, c.rate = 0, ForceUpdate(p, s, c, 0, NoRates),
           rec[p].status = "active" \/ ~HasFlows(frozen[p]), UNCHANGED flowVars
    PROVE  /\ QuietStep
           /\ rec'[p].status = IF Overdue(Balanced(s, c, bank[p])) THEN "frozen" ELSE "active"
           /\ \A q \in Payers : q # p => rec'[q] = rec[q]
           /\ autoSettle' \subseteq QueueRecord
           /\ module' \in Int /\ stored' \subseteq Accounts /\ bank' \in [Accounts -> Nat]
<1>1. c.rate = -Sum(NoRates, NumAccounts) /\ NoRates \in BillRates
    BY Zenon, NoRatesSum
<1>2. /\ BillApplied(p, NoRates)
      /\ rec'[p].status = IF Overdue(Balanced(s, c, bank[p])) THEN "frozen" ELSE "active"
      /\ autoSettle' \subseteq QueueRecord
      /\ module' \in Int /\ stored' \subseteq Accounts /\ bank' \in [Accounts -> Nat]
    BY Zenon, <1>1, ForceUpdateFacts, ZeroInt
<1>3. /\ rec' \in [Accounts -> StreamRecord] /\ Moves(rec[p], rec'[p], 0, 0)
      /\ Moves(rec[Gov], rec'[Gov], 0, 0)
      /\ \A a \in Accounts : a # p /\ a # Gov => rec'[a] = rec[a]
      /\ stored \subseteq stored' /\ \A a \in Accounts \ stored' : rec'[a] = rec[a]
    BY Zenon, <1>2, NoRatesSum DEF BillApplied, NoRates
<1>4. QuietStep
    BY Zenon, <1>3, AccountFacts, SomeRecordsQuiet DEF flowVars
<1> QED
    BY Zenon, <1>2, <1>3, <1>4, AccountFacts

(* Every forced call of x/storage's EndBlock keeps the invariant.          *)
LEMMA StorageEndBlockKeeps ==
    IInv /\ StorageEndBlock => IInv'
(* A forced uncharge of an active payer keeps the invariant, also when it  *)
(* freezes the payer.                                                      *)
<1>ForcedActiveUserFlowsStep.
      ASSUME IInv, NEW p \in Payers, NEW b \in Bills, ForcedActiveUserFlows(p, b)
      PROVE  IInv'
    <2> USE <1>ForcedActiveUserFlowsStep
    <2> DEFINE c == Change(0, -BillTotal(b), 0)
    <2>1. /\ TypeOK /\ CoreInv /\ phase = "storage" /\ rec[p] \in StreamRecord /\ p \in Accounts
          /\ rec[p].status = "active" /\ Covered(active[p], b)
          /\ ForceUpdate(p, rec[p], c, MergeDelta(active[p], b), b)
          /\ active' = Merged(active, p, b) /\ frozen' = frozen
          /\ UNCHANGED <<now, params, autoResume, acctVars, loopVars>>
        BY AccountFacts DEF IInv, TypeOK, ForcedActiveUserFlows, Merged
    <2>2. b \in BillRates /\ c \in ChangeRecord /\ c.rate = -Sum(b, NumAccounts)
        BY SMTT(20), BillsAreRates, ChangeType, ZeroInt DEF BillTotal
    <2> HIDE DEF c
    <2>3. /\ BillApplied(p, b) /\ autoSettle' \subseteq QueueRecord
          /\ module' \in Int /\ stored' \subseteq Accounts /\ bank' \in [Accounts -> Nat]
        BY Zenon, <2>1, <2>2, MergeDeltaInt, ForceUpdateFacts
    <2>4. CoreInv' /\ FlowsType(active') /\ FlowsType(frozen')
        BY Zenon, <2>1, <2>2, <2>3, BillStep, FlowsTypeNow
    <2>5. \A q \in Payers : rec[q].status = "frozen" => rec'[q].status = "frozen" \/ ~Resuming(q)
        BY Zenon, <2>1, <2>2, <2>3, AccountFacts DEF BillRates, BillApplied
    <2>6. rec' \in [Accounts -> StreamRecord]
        BY Zenon, <2>3 DEF BillApplied
    <2> QED
        BY Zenon, <2>1, <2>3, <2>4, <2>5, <2>6, LedgerStep
(* A forced unlock keeps the invariant, also for a frozen payer.           *)
<1>ForcedUnlockFeeStep.
      ASSUME IInv, NEW p \in Payers, NEW amount \in Fees, ForcedUnlockFee(p, amount)
      PROVE  IInv'
    <2> USE <1>ForcedUnlockFeeStep
    <2> DEFINE c == Change(0, 0, -amount)
    <2>1. /\ TypeOK /\ CoreInv /\ phase = "storage" /\ p \in Accounts /\ p \notin Receivers
          /\ rec[p] \in StreamRecord /\ rec[p].buffer >= 0 /\ stored \subseteq Accounts
          /\ module \in Int /\ bank \in [Accounts -> Nat] /\ autoSettle \subseteq QueueRecord
          /\ UNCHANGED <<now, params, flowVars, autoResume, acctVars, loopVars>>
          /\ active' = active /\ frozen' = frozen
        BY AccountFacts DEF IInv, TypeOK, CoreInv, RecordsInv, ForcedUnlockFee, flowVars
    <2>2. c \in ChangeRecord /\ c.rate = 0
        BY ZenonT(40), FeesType, ChangeType, ZeroInt
    <2>3. FlowsType(active') /\ FlowsType(frozen')
        BY <2>1, FlowsTypeNow
    <2>4. CASE rec[p].status = "active"
        <3>1. ForceUpdate(p, rec[p], c, 0, NoRates)
            BY <2>4 DEF ForcedUnlockFee
        <3> HIDE DEF c
        <3>2. /\ QuietStep /\ \A q \in Payers : q # p => rec'[q] = rec[q]
              /\ autoSettle' \subseteq QueueRecord
              /\ module' \in Int /\ stored' \subseteq Accounts /\ bank' \in [Accounts -> Nat]
            BY Zenon, <2>1, <2>2, <2>4, <3>1, ForceQuiet
        <3>3. CoreInv' /\ rec' \in [Accounts -> StreamRecord]
            BY Zenon, <2>1, <3>2, QuietStepKeeps DEF QuietStep
        <3>4. \A q \in Payers : rec[q].status = "frozen" => rec'[q].status = "frozen" \/ ~Resuming(q)
            BY <2>4, <3>2
        <3> QED
            BY Zenon, <2>1, <2>3, <3>2, <3>3, <3>4, LedgerStep
    <2>5. CASE rec[p].status = "frozen"
        <3> DEFINE t == UpdatedFrozen(rec[p], c, 0)
        <3>1. rec' = [rec EXCEPT ![p] = t] /\ UNCHANGED <<stored, autoSettle, bank, module>>
            BY Zenon, <2>5 DEF ForcedUnlockFee
        <3>2. Moves(rec[p], t, 0, 0) /\ t.status = rec[p].status
            BY Zenon, <2>1, <2>2, UpdatedFrozenRecord, ZeroInt
        <3> HIDE DEF t, c
        <3>3. p \in stored
            BY Zenon, <2>1, <2>5 DEF CoreInv, StoredInv
        <3>4. QuietStep
            BY Zenon, <2>1, <2>5, <3>1, <3>2, <3>3, OneRecordQuiet
        <3>5. CoreInv' /\ rec' \in [Accounts -> StreamRecord]
            BY <2>1, <3>4, QuietStepKeeps DEF QuietStep
        <3>6. rec \in [Accounts -> StreamRecord]
            BY <2>1 DEF TypeOK
        <3>7. \A q \in Payers : rec[q].status = "frozen" => rec'[q].status = "frozen" \/ ~Resuming(q)
            BY <2>1, <2>5, <3>1, <3>2, <3>6, AccountFacts
        <3> QED
            BY <2>1, <2>3, <3>1, <3>5, <3>7, LedgerStep
    <2> QED
        BY <2>4, <2>5 DEF ForcedUnlockFee
(* A forced early deletion fee keeps the invariant, also for a frozen      *)
(* payer.                                                                  *)
<1>ForcedEarlyDeletionFeeStep.
      ASSUME IInv, NEW p \in Payers, NEW r \in Receivers, NEW amount \in Fees,
             ForcedEarlyDeletionFee(p, r, amount)
      PROVE  IInv'
    <2> USE <1>ForcedEarlyDeletionFeeStep
    <2> DEFINE c == Change(-amount, 0, 0)
               t == Balanced(rec[p], c, bank[p])
               pull == PullAmount(Settled(rec[p], c), bank[p])
               s == Updated(rec[p], c, bank[p])
               e == Credited(rec[r], amount, 0)
    <2>1. /\ TypeOK /\ CoreInv /\ phase = "storage"
          /\ p \in Accounts /\ r \in Accounts /\ Gov \in Accounts
          /\ p # r /\ p # Gov /\ r # Gov /\ p \notin Receivers /\ r \notin Payers /\ Gov \notin Payers
          /\ Gov \notin Receivers
          /\ UNCHANGED <<now, params, flowVars, autoResume, acctVars, loopVars>>
          /\ active' = active /\ frozen' = frozen
        BY AccountFacts DEF IInv, ForcedEarlyDeletionFee, flowVars
    <2>2. /\ now \in Nat /\ params \in ParamSets /\ rec \in [Accounts -> StreamRecord]
          /\ rec[p] \in StreamRecord /\ bank[p] \in Nat /\ bank[Gov] \in Nat
          /\ rec[r] \in StreamRecord /\ rec[r].lock >= 0 /\ Earns(rec[r]) /\ stored \subseteq Accounts
          /\ module \in Int /\ bank \in [Accounts -> Nat] /\ autoSettle \subseteq QueueRecord
        BY <2>1, EarnsDef DEF TypeOK, CoreInv, RecordsInv
    <2>3. c \in ChangeRecord /\ c.rate = 0 /\ amount \in Nat
        BY SMTT(20), FeesType, ChangeType, ZeroInt
    <2>4. Moves(rec[r], e, 0, 0) /\ Earns(e)
        <3>1. rec[r].netflow + 0 >= 0
            BY SMTT(20), <2>2 DEF Earns, StreamRecord
        <3> QED
            BY SMTT(20), <2>2, <2>3, <3>1, CreditedRecord, CreditedEarns, ZeroInt
    <2>5. FlowsType(active') /\ FlowsType(frozen')
        BY <2>1, FlowsTypeNow
    <2>6. CASE rec[p].status = "active"
        <3>1. /\ rec' = [rec EXCEPT ![p] = s, ![r] = e, ![Gov] = GovAfter(t)]
              /\ stored' = (stored \cup {p, r}) \cup (IF Overdue(t) THEN {Gov} ELSE {})
              /\ bank' = [bank EXCEPT ![p] = @ - pull, ![Gov] = @ - GovPull(t)]
              /\ module' = module + pull + GovPull(t)
              /\ autoSettle' = Requeue(autoSettle, p, rec[p].settle, SettleTime(t))
            BY <2>6 DEF ForcedEarlyDeletionFee
        <3>2. Moves(rec[p], s, 0, 0)
            <4> HIDE DEF c
            <4>1. Moves(rec[p], s, c.rate, 0)
                BY Zenon, <2>2, <2>3, UpdatedRecord
            <4> HIDE DEF s
            <4> QED
                BY <2>3, <4>1
        <3>3. t \in StreamRecord /\ pull \in Nat /\ pull <= bank[p]
            BY Zenon, <2>2, <2>3, BalancedRecord, SettledRecord, PullAmountNat
        <3>4. SettleTime(t) \in Int /\ rec[p].settle \in Int
            BY <2>2, <3>3, SettleTimeInt DEF StreamRecord
        <3> HIDE DEF c, t, pull, s, e
        <3>5. /\ Moves(rec[Gov], GovAfter(t), 0, 0) /\ GovAfter(t) \in StreamRecord
              /\ GovPull(t) \in Nat /\ GovPull(t) <= bank[Gov]
              /\ ~Overdue(t) => GovAfter(t) = rec[Gov]
            BY Zenon, <2>1, <3>3, GovFacts DEF Moves
        <3>6. /\ rec' \in [Accounts -> StreamRecord]
              /\ rec'[p] = s /\ rec'[r] = e /\ rec'[Gov] = GovAfter(t)
              /\ \A a \in Accounts : a # p /\ a # r /\ a # Gov => rec'[a] = rec[a]
            BY <2>1, <2>2, <2>4, <3>1, <3>2, <3>5 DEF Moves
        <3>7. stored \subseteq stored' /\ p \in stored' /\ r \in stored' /\ (Overdue(t) => Gov \in stored')
            BY <3>1
        <3>8. QuietStep
            BY Zenon, <2>1, <2>4, <2>6, <3>2, <3>5, <3>6, <3>7, SomeRecordsQuiet
        <3>9. CoreInv'
            BY <2>1, <3>8, QuietStepKeeps
        <3>10. autoSettle' \subseteq QueueRecord
            BY <2>2, <3>1, <3>4, RequeueType
        <3>11. module' \in Int /\ bank' \in [Accounts -> Nat]
            BY SMTT(20), <2>1, <2>2, <3>1, <3>3, <3>5
        <3>12. stored' \subseteq Accounts
            BY Zenon, <2>1, <2>2, <3>1
        <3>13. \A q \in Payers : rec[q].status = "frozen" => rec'[q].status = "frozen" \/ ~Resuming(q)
            BY Zenon, <2>1, <2>6, <3>6, AccountFacts
        <3> QED
            BY <2>1, <2>5, <3>6, <3>9, <3>10, <3>11, <3>12, <3>13, LedgerStep
    <2>7. CASE rec[p].status = "frozen"
        <3>1. /\ rec' = [rec EXCEPT ![r] = e] /\ stored' = stored \cup {r}
              /\ UNCHANGED <<autoSettle, bank, module>>
            BY <2>7 DEF ForcedEarlyDeletionFee
        <3> HIDE DEF e
        <3>2. QuietStep
            BY Zenon, <2>1, <2>4, <3>1, OneRecordQuiet
        <3>3. CoreInv' /\ rec' \in [Accounts -> StreamRecord]
            BY Zenon, <2>1, <3>2, QuietStepKeeps DEF QuietStep
        <3>4. \A q \in Payers : rec[q].status = "frozen" => rec'[q].status = "frozen" \/ ~Resuming(q)
            BY <2>1, <2>2, <3>1, AccountFacts
        <3>5. stored' \subseteq Accounts /\ autoSettle' \subseteq QueueRecord
              /\ bank' \in [Accounts -> Nat] /\ module' \in Int
            BY <2>1, <2>2, <3>1
        <3> QED
            BY Zenon, <2>1, <2>5, <3>3, <3>4, <3>5, LedgerStep
    <2> QED
        BY <2>6, <2>7 DEF ForcedEarlyDeletionFee
(* A forced uncharge of a frozen, possibly half-frozen, payer keeps the    *)
(* invariant.                                                              *)
<1>ForcedFrozenUserFlowsStep.
      ASSUME IInv, NEW p \in Payers, NEW b \in Bills, ForcedFrozenUserFlows(p, b)
      PROVE  IInv'
    <2> USE <1>ForcedFrozenUserFlowsStep
    <2> DEFINE onA == OnActive(p, b)
               onF == OnFrozen(p, b)
               c == Change(0, -BillTotal(onA), 0)
               s == UpdatedFrozen(rec[p], c, -BillTotal(onF))
               delta == MergeDelta(active[p], onA) + MergeDelta(frozen[p], onF)
               u == [s EXCEPT !.outFlowCount = @ + delta]
    <2>1. /\ TypeOK /\ CoreInv /\ phase = "storage" /\ p \in Accounts /\ p # Gov
          /\ rec[p].status = "frozen" /\ Covered(active[p], onA) /\ Covered(frozen[p], onF)
          /\ rec' = RecWith(p, u, onA)
          /\ active' = Merged(active, p, onA) /\ frozen' = Merged(frozen, p, onF)
          /\ stored' = stored \cup OnBill(onA)
          /\ UNCHANGED <<now, params, autoSettle, autoResume, bank, module, acctVars, loopVars>>
        BY AccountFacts DEF IInv, ForcedFrozenUserFlows, Merged
    <2>2. /\ now \in Nat /\ params \in ParamSets /\ stored \subseteq Accounts
          /\ module \in Int /\ bank \in [Accounts -> Nat] /\ autoSettle \subseteq QueueRecord
          /\ rec[p] \in StreamRecord /\ rec[p].buffer >= 0
          /\ \A a \in Accounts : rec[a] \in StreamRecord /\ rec[a].lock >= 0 /\ rec[a].buffer >= 0
          /\ \A r \in Accounts : active[p][r] \in Nat /\ frozen[p][r] \in Nat
          /\ \A r \in Accounts : active[p][r] = 0 \/ frozen[p][r] = 0
        BY SMTT(20), <2>1 DEF TypeOK, CoreInv, RecordsInv, FlowsNotDoubled
    <2>3. /\ b \in [Accounts -> Int] /\ \A a \in Accounts \ Receivers : b[a] = 0
        BY BillsAssumption
    <2>4. onA \in BillRates /\ onF \in BillRates /\ onA \in [Accounts -> Int] /\ onF \in [Accounts -> Int]
        BY SMTT(20), <2>3 DEF OnActive, OnFrozen, BillRates
    <2>5. \A r \in Accounts : /\ active[p][r] # 0 => onF[r] = 0
                              /\ active[p][r] = 0 => onA[r] = 0
        BY DEF OnActive, OnFrozen
    <2> HIDE DEF onA, onF
    <2>6. /\ Sum(onA, NumAccounts) \in Int /\ Sum(onF, NumAccounts) \in Int
          /\ -Sum(onA, NumAccounts) \in Int /\ -Sum(onF, NumAccounts) \in Int
        BY SMTT(20), <2>4, TotalInt
    <2>7. c \in ChangeRecord /\ c.rate = -Sum(onA, NumAccounts)
        BY SMTT(20), <2>6, ChangeType, ZeroInt DEF BillTotal
    <2>8. Moves(rec[p], s, -Sum(onA, NumAccounts), -Sum(onF, NumAccounts)) /\ s.status = "frozen"
        BY <2>1, <2>2, <2>6, <2>7, UpdatedFrozenRecord DEF BillTotal
    <2>9. delta \in Int
        BY SMT, MergeDeltaInt
    <2> HIDE DEF c, s, delta
    <2>10. /\ Moves(rec[p], u, -Sum(onA, NumAccounts), -Sum(onF, NumAccounts))
           /\ u.status = "frozen" /\ u \in StreamRecord
        <3>1. Moves(rec[p], u, -Sum(onA, NumAccounts), -Sum(onF, NumAccounts)) /\ u.status = s.status
            BY SMTT(20), <2>2, <2>6, <2>8, <2>9, CountedRecord
        <3> QED
            BY <2>8, <3>1 DEF Moves
    <2> HIDE DEF u
    <2>11. /\ rec' \in [Accounts -> StreamRecord] /\ rec'[p] = u
           /\ \A a \in Accounts : a # p => rec'[a] = IF onA[a] # 0 THEN Credited(rec[a], 0, onA[a]) ELSE rec[a]
        <3>1. TypeOK /\ CoreInv /\ rec' = RecWith(p, u, onA)
            BY <2>1
        <3>2. u \in StreamRecord /\ onA \in BillRates
            BY <2>4, <2>10
        <3> QED
            BY SMTT(20), <3>1, <3>2, RecWithValues
    <2>12. \A a \in Accounts \ {p} : Moves(rec[a], rec'[a], onA[a], 0)
        <3> SUFFICES ASSUME NEW a \in Accounts \ {p}
                     PROVE  Moves(rec[a], rec'[a], onA[a], 0)
            OBVIOUS
        <3>1. onA[a] \in Int
            BY <2>4
        <3>2. CASE onA[a] # 0
            <4>1. rec'[a] = Credited(rec[a], 0, onA[a])
                BY <2>11, <3>2
            <4> QED
                BY ZenonT(40), <2>2, <3>1, <4>1, CreditedRecord, ZeroInt
        <3>3. CASE onA[a] = 0
            <4>1. rec'[a] = rec[a]
                BY Zenon, <2>11, <3>3
            <4> QED
                BY Zenon, <2>2, <3>3, <4>1, MovesNothing
        <3> QED
            BY <3>2, <3>3
    <2>13. /\ FlowsType(active') /\ FlowsType(frozen')
           /\ \A q \in Payers \ {p} : active'[q] = active[q] /\ frozen'[q] = frozen[q]
           /\ \A r \in Accounts : active'[p][r] = active[p][r] + onA[r] /\ frozen'[p][r] = frozen[p][r] + onF[r]
        <3>1. TypeOK /\ Covered(active[p], onA) /\ Covered(frozen[p], onF)
            BY Zenon, <2>1
        <3>2. active' = Merged(active, p, onA) /\ frozen' = Merged(frozen, p, onF)
            BY Zenon, <2>1
        <3>3. /\ FlowsType(active') /\ \A q \in Payers \ {p} : active'[q] = active[q]
              /\ \A r \in Accounts : active'[p][r] = active[p][r] + onA[r]
            <4>1. FlowsType(active)
                BY Zenon, <3>1, FlowsTypeNow
            <4>2. /\ FlowsType(Merged(active, p, onA))
                  /\ \A q \in Payers \ {p} : Merged(active, p, onA)[q] = active[q]
                  /\ \A r \in Accounts : Merged(active, p, onA)[p][r] = active[p][r] + onA[r]
                BY SMTT(20), <2>4, <3>1, <4>1, MergeFlows
            <4> QED
                BY Zenon, <3>2, <4>2
        <3>4. /\ FlowsType(frozen') /\ \A q \in Payers \ {p} : frozen'[q] = frozen[q]
              /\ \A r \in Accounts : frozen'[p][r] = frozen[p][r] + onF[r]
            <4>1. FlowsType(frozen)
                BY Zenon, <3>1, FlowsTypeNow
            <4>2. /\ FlowsType(Merged(frozen, p, onF))
                  /\ \A q \in Payers \ {p} : Merged(frozen, p, onF)[q] = frozen[q]
                  /\ \A r \in Accounts : Merged(frozen, p, onF)[p][r] = frozen[p][r] + onF[r]
                BY SMTT(20), <2>4, <3>1, <4>1, MergeFlows
            <4> QED
                BY Zenon, <3>2, <4>2
        <3> QED
            BY Zenon, <3>3, <3>4
    <2>14. FlowsStep(p, onA, onF)
        BY Zenon, <2>10, <2>11, <2>12, <2>13 DEF FlowsStep, FlowsType
    <2>15. \A q \in Payers : q # p => rec'[q] = rec[q]
        BY <2>4, <2>11, AccountFacts DEF BillRates
    <2>16. FlowsNotDoubled'
        <3>1. \A r \in Accounts : active'[p][r] = 0 \/ frozen'[p][r] = 0
            <4> SUFFICES ASSUME NEW r \in Accounts
                         PROVE  active'[p][r] = 0 \/ frozen'[p][r] = 0
                OBVIOUS
            <4>1. /\ active[p][r] \in Nat /\ frozen[p][r] \in Nat
                  /\ active[p][r] = 0 \/ frozen[p][r] = 0
                BY <2>2
            <4>2. /\ active[p][r] # 0 => onF[r] = 0
                  /\ active[p][r] = 0 => onA[r] = 0
                BY <2>5
            <4>3. active'[p][r] = active[p][r] + onA[r] /\ frozen'[p][r] = frozen[p][r] + onF[r]
                BY <2>13
            <4>4. CASE active[p][r] = 0
                BY SMTT(20), <4>2, <4>3, <4>4
            <4>5. CASE active[p][r] # 0
                BY SMTT(20), <4>1, <4>2, <4>3, <4>5
            <4> QED
                BY Zenon, <4>4, <4>5
        <3>2. \A q \in Payers, r \in Accounts : q # p =>
                  /\ active'[q][r] = 0 \/ frozen'[q][r] = 0
                  /\ rec'[q].status = "active" => frozen'[q][r] = 0
            <4>1. FlowsNotDoubled
                BY <2>1 DEF CoreInv
            <4>2. \A q \in Payers \ {p} : active'[q] = active[q] /\ frozen'[q] = frozen[q] /\ rec'[q] = rec[q]
                BY Zenon, <2>13, <2>15
            <4> QED
                BY ZenonT(40), <4>1, <4>2 DEF FlowsNotDoubled
        <3> QED
            BY Zenon, <2>10, <2>11, <3>1, <3>2 DEF FlowsNotDoubled
    <2>17. /\ stored \subseteq stored' /\ \A a \in Accounts \ stored' : rec'[a] = rec[a]
           /\ stored' \subseteq Accounts
        <3>1. p \in stored
            BY Zenon, <2>1 DEF CoreInv, StoredInv
        <3>2. \A a \in Accounts \ stored' : a # p /\ onA[a] = 0
            BY Zenon, <2>1, <3>1 DEF OnBill
        <3> QED
            BY Zenon, <2>1, <2>2, <2>11, <3>2 DEF OnBill
    <2>18. \A r \in Receivers : rec'[r] = rec[r] \/ rec'[r] = Credited(rec[r], 0, onA[r])
        BY <2>11, AccountFacts
    <2>19. CoreInv'
        BY Zenon, <2>1, <2>4, <2>14, <2>16, <2>17, <2>18, FlowsStepKeeps
    <2>20. \A q \in Payers : rec[q].status = "frozen" => rec'[q].status = "frozen" \/ ~Resuming(q)
        BY Zenon, <2>10, <2>11, <2>15
    <2> QED
        BY Zenon, <2>1, <2>2, <2>11, <2>13, <2>17, <2>19, <2>20, LedgerStep
<1> QED
    BY <1>ForcedActiveUserFlowsStep, <1>ForcedFrozenUserFlowsStep, <1>ForcedUnlockFeeStep,
       <1>ForcedEarlyDeletionFeeStep DEF StorageEndBlock

-----------------------------------------------------------------------------
(***************************************************************************)
(* III. The messages: withdrawals, and deposits with the resuming of       *)
(* frozen payers that they bring about.                                    *)
(***************************************************************************)

(* TryResumeStreamRecord's new balances leave both rates alone.            *)
LEMMA FundedRecord ==
    ASSUME now \in Nat, params \in ParamSets, NEW s \in StreamRecord, s.netflow + s.frozen < 0,
           s.lock >= 0
    PROVE  LET t == ResumeFunded(s) IN
           /\ Moves(s, t, 0, 0)
           /\ t.netflow = s.netflow /\ t.frozen = s.frozen /\ t.status = s.status /\ t.settle \in Int
<1>1. /\ -(s.netflow + s.frozen) \in Nat \ {0} /\ s.static \in Int /\ s.netflow \in Int /\ s.frozen \in Int
    BY SMT DEF StreamRecord
<1>2. ResumeBuffer(s) \in Nat
    BY SMTT(20), <1>1, ParamsType, ProductNat DEF ResumeBuffer
<1>3. PICK settle \in Int : settle = (now + Quo(s.static, -(s.netflow + s.frozen))) - params.forcedSettleTime
    BY SMTT(20), <1>1, QuoInt, ParamsType
<1>4. PICK buffer \in Nat : buffer = ResumeBuffer(s)
    BY <1>2
<1>5. ResumeFunded(s) = [s EXCEPT !.settle = settle, !.buffer = buffer, !.static = s.static - buffer, !.crud = now]
    BY <1>3, <1>4 DEF ResumeFunded
<1>6. [s EXCEPT !.settle = settle] \in StreamRecord
    BY <1>3, SetSettle
<1>7. [[s EXCEPT !.settle = settle] EXCEPT !.buffer = buffer] \in StreamRecord
    BY Zenon, NatInt, <1>6, SetBuffer
<1>8. [[[s EXCEPT !.settle = settle] EXCEPT !.buffer = buffer] EXCEPT !.static = s.static - buffer] \in StreamRecord
    <2>1. s.static - buffer \in Int
        BY SMTT(20), <1>1
    <2> QED
        BY Zenon, <1>7, <2>1, SetStatic
<1>9. [[[[s EXCEPT !.settle = settle] EXCEPT !.buffer = buffer] EXCEPT !.static = s.static - buffer]
         EXCEPT !.crud = now] \in StreamRecord
    BY Zenon, <1>1, NatInt, <1>8, SetCrud
<1>10. ResumeFunded(s) \in StreamRecord
    BY <1>5, <1>9
<1>11. LET t == ResumeFunded(s) IN
       /\ t.netflow = s.netflow /\ t.frozen = s.frozen /\ t.status = s.status
       /\ t.settle = settle /\ t.lock = s.lock /\ t.buffer = buffer
    BY <1>5 DEF StreamRecord
<1>12. s.netflow + 0 = s.netflow /\ s.frozen + 0 = s.frozen /\ buffer >= 0
    BY SMTT(20), <1>1, <1>4
<1> QED
    BY <1>3, <1>10, <1>11, <1>12 DEF Moves

(* Every message keeps the invariant.                                      *)
LEMMA MessagesKeep ==
    IInv /\ Messages => IInv'
(* MsgWithdraw keeps the invariant, paid out at once or delayed.           *)
<1>WithdrawStep.
      ASSUME IInv, NEW creator \in Users, NEW from \in Payers, NEW amount \in Withdrawals,
             Withdraw(creator, from, amount)
      PROVE  IInv'
    <2> USE <1>WithdrawStep
    <2> DEFINE c == Change(-amount, 0, 0)
               pull == PullAmount(Settled(rec[from], c), bank[from])
    <2>1. /\ TypeOK /\ CoreInv /\ LoopInv /\ ResumingIsFrozen /\ phase = "tx"
          /\ now \in Nat /\ params \in ParamSets /\ from \in Accounts /\ creator \in Accounts
          /\ rec[from] \in StreamRecord /\ bank[from] \in Nat
        BY AccountFacts DEF IInv, TypeOK, Withdraw, Users
    <2>0. c \in ChangeRecord /\ c.rate = 0 /\ amount \in Nat
        BY SMTT(20), FeesType, ChangeType
    <2>2. /\ CanUpdate(rec[from], c, bank[from]) /\ rec[from].status = "active" /\ from \in stored
          /\ rec' = [rec EXCEPT ![from] = Updated(@, c, bank[from])]
          /\ autoSettle' = Requeue(autoSettle, from, rec[from].settle, Updated(rec[from], c, bank[from]).settle)
          /\ active' = active /\ frozen' = frozen /\ stored' = stored
          /\ UNCHANGED <<now, params, autoResume, account, accountCount, loopVars>>
        BY DEF Withdraw, CanUpdate, flowVars
    <2>3. /\ bank' = [bank EXCEPT ![from] = @ - pull] /\ module' = module + pull
             /\ delayed' = [delayed EXCEPT ![creator] = [amount |-> amount, unlock |-> now + params.lockDuration]]
          \/ /\ bank' = [[bank EXCEPT ![from] = @ - pull] EXCEPT ![creator] = @ + amount]
             /\ module' = (module + pull) - amount /\ delayed' = delayed
        BY DEF Withdraw
    <2>4. pull \in Nat /\ pull <= bank[from]
        BY Zenon, <2>0, <2>1, SettledRecord, PullAmountNat
    <2> HIDE DEF c, pull
    <2>5. QuietStep
        BY Zenon, <2>0, <2>1, <2>2, PayerUpdateQuiet
    <2>6. Updated(rec[from], c, bank[from]).settle \in Int /\ rec[from].settle \in Int
        BY Zenon, <2>0, <2>1, UpdatedRecord DEF Moves, StreamRecord
    <2>7. autoSettle' \subseteq QueueRecord
        BY <2>1, <2>2, <2>6, RequeueType DEF TypeOK
    <2>8. bank \in [Accounts -> Nat] /\ module \in Int /\ delayed \in [Users -> [amount : Nat, unlock : Nat]]
        BY <2>1 DEF TypeOK
    <2>9. bank' \in [Accounts -> Nat] /\ module' \in Int
        BY SMTT(20), <2>0, <2>1, <2>3, <2>4, <2>8
    <2>10. delayed' \in [Users -> [amount : Nat, unlock : Nat]]
        BY SMTT(20), <2>0, <2>1, <2>3, <2>8, ParamsType
    <2>11. TypeOK'
        <3>1. rec' \in [Accounts -> StreamRecord]
            BY <2>5 DEF QuietStep
        <3> QED
            BY <2>1, <2>2, <2>7, <2>9, <2>10, <3>1 DEF TypeOK, loopVars
    <2>12. CoreInv'
        BY <2>1, <2>5, QuietStepKeeps
    <2>13. ResumingIsFrozen'
        <3>1. \A q \in Payers : rec[q].status = "frozen" => rec'[q].status = "frozen"
            BY SMTT(20), <2>1, <2>2 DEF TypeOK
        <3> QED
            BY <2>1, <2>2, <3>1, ResumingKept
    <2>14. LoopInv'
        BY <2>1, <2>2, OutsideLoops
    <2> QED
        BY Zenon, <2>11, <2>12, <2>13, <2>14 DEF IInv
(* The messages on payment accounts and parameters keep the invariant.     *)
<1>AccountMessagesStep.
      ASSUME IInv,
             \/ \E creator \in Users : WithdrawDelayed(creator)
             \/ \E creator \in Users, a \in PaymentAccounts : CreatePaymentAccount(creator, a)
             \/ \E a \in PaymentAccounts : DisableRefund(a)
             \/ \E ps \in ParamSets : UpdateParams(ps)
      PROVE  IInv'
    <2> USE <1>AccountMessagesStep
    <2>1. /\ UNCHANGED <<stored, rec, active, frozen, autoSettle, autoResume, loopVars, now>>
          /\ phase = "tx"
        BY DEF WithdrawDelayed, CreatePaymentAccount, DisableRefund, UpdateParams, flowVars
    <2>2. CoreInv'
        BY <2>1, UntouchedRecords
    <2>3. ResumingIsFrozen'
        BY <2>1 DEF IInv, ResumingIsFrozen
    <2>4. LoopInv'
        BY <2>1, OutsideLoops DEF IInv
    <2>5. TypeOK'
        <3>1. CASE \E creator \in Users : WithdrawDelayed(creator)
            <4>1. PICK creator \in Users : WithdrawDelayed(creator)
                BY <3>1
            <4>2. /\ bank \in [Accounts -> Nat] /\ module \in Int /\ creator \in Accounts
                  /\ delayed \in [Users -> [amount : Nat, unlock : Nat]]
                BY AccountFacts DEF IInv, TypeOK, Users
            <4>3. /\ bank' \in [Accounts -> Nat] /\ module' \in Int
                  /\ delayed' \in [Users -> [amount : Nat, unlock : Nat]]
                BY SMTT(20), <4>1, <4>2 DEF WithdrawDelayed, NoDelay
            <4>4. UNCHANGED <<params, account, accountCount>>
                BY Zenon, <4>1 DEF WithdrawDelayed
            <4> QED
                BY <2>1, <4>3, <4>4 DEF IInv, TypeOK, loopVars
        <3>2. CASE \E creator \in Users, a \in PaymentAccounts : CreatePaymentAccount(creator, a)
            BY SMTT(20), <2>1, <3>2 DEF IInv, TypeOK, CreatePaymentAccount, loopVars
        <3>3. CASE \E a \in PaymentAccounts : DisableRefund(a)
            BY SMTT(20), <2>1, <3>3 DEF IInv, TypeOK, DisableRefund, loopVars
        <3>4. CASE \E ps \in ParamSets : UpdateParams(ps)
            BY Zenon, <2>1, <3>4 DEF IInv, TypeOK, UpdateParams, loopVars, acctVars
        <3> QED
            BY <3>1, <3>2, <3>3, <3>4
    <2> QED
        BY <2>2, <2>3, <2>4, <2>5 DEF IInv
(* A deposit to a receiver goes through the whole update and leaves it in  *)
(* good standing as well.                                                  *)
<1>UpdatedEarns.
      ASSUME now \in Nat, params \in ParamSets, NEW s \in StreamRecord, s.lock >= 0, Earns(s),
             NEW d \in Nat, NEW b \in Nat
      PROVE  Earns(Updated(s, Change(d, 0, 0), b))
    <2> USE <1>UpdatedEarns
    <2> DEFINE c == Change(d, 0, 0)
    <2>1. c \in ChangeRecord /\ c.static = d /\ c.rate = 0 /\ c.lock = 0
        BY SMT DEF ChangeRecord, Change
    <2>2. Accrue(s).static \in Int /\ Accrue(s).static >= s.static
        BY AccrueRecord DEF Earns, StreamRecord
    <2>3. Settled(s, c).buffer = 0 /\ Settled(s, c).static >= 0
        BY SMTT(20), <2>1, <2>2, SettledRecord DEF Earns, StreamRecord
    <2>4. s.netflow + c.rate >= 0 /\ s.netflow + c.rate = s.netflow
        BY SMTT(20), <2>1 DEF Earns, StreamRecord
    <2> HIDE DEF c
    <2> QED
        BY <2>1, <2>3, <2>4, UpdatedRecord DEF Earns, Moves, c
(* A successful UpdateStreamRecord inside a transaction leaves the account *)
(* active: it refuses frozen and overdue ones.                             *)
<1>NotOverdueActive.
      ASSUME TypeOK, NEW s \in StreamRecord, NEW c \in ChangeRecord, NEW b \in Nat, CanUpdate(s, c, b)
      PROVE  Updated(s, c, b).status = "active" /\ s.status = "active"
    BY SMTT(20), <1>NotOverdueActive, UpdatedRecord DEF CanUpdate, TypeOK
(* The record with the deposit added.                                      *)
<1>DepositedRecord.
      ASSUME NEW s \in StreamRecord, NEW amount \in Nat, s.lock >= 0, s.buffer >= 0
      PROVE  LET t == [s EXCEPT !.static = @ + amount] IN
             /\ Moves(s, t, 0, 0) /\ t.netflow = s.netflow /\ t.frozen = s.frozen
             /\ t.status = s.status /\ t.settle = s.settle /\ t.lock = s.lock
    <2> USE <1>DepositedRecord
    <2>1. s.static + amount \in Int /\ s.netflow \in Int /\ s.frozen \in Int
        BY SMTT(20) DEF StreamRecord
    <2>2. [s EXCEPT !.static = s.static + amount] \in StreamRecord
        BY <2>1, SetStatic
    <2> QED
        BY SMTT(20), <2>1, <2>2 DEF Moves, StreamRecord
(* The record of a payer that resumes at once.                             *)
<1>ResumedRecord.
      ASSUME NEW s \in StreamRecord, s.lock >= 0, s.buffer >= 0
      PROVE  LET t == [s EXCEPT !.status = "active", !.netflow = s.netflow + s.frozen, !.frozen = 0] IN
             /\ t \in StreamRecord /\ t.lock >= 0 /\ t.buffer >= 0 /\ t.status = "active"
             /\ t.netflow = s.netflow + s.frozen /\ t.frozen = 0
    <2> USE <1>ResumedRecord
    <2>1. s.netflow + s.frozen \in Int
        BY SMTT(20) DEF StreamRecord
    <2>2. [s EXCEPT !.status = "active"] \in StreamRecord
        BY Zenon, SetStatus
    <2>3. [[s EXCEPT !.status = "active"] EXCEPT !.netflow = s.netflow + s.frozen] \in StreamRecord
        BY Zenon, <2>1, <2>2, SetNetflow
    <2>4. [[[s EXCEPT !.status = "active"] EXCEPT !.netflow = s.netflow + s.frozen] EXCEPT !.frozen = 0]
            \in StreamRecord
        BY Zenon, <2>3, SetFrozen, ZeroInt
    <2> QED
        BY <2>1, <2>4 DEF StreamRecord
(* Resuming all flows inside the deposit keeps the core invariant.         *)
<1>ResumeDirectlyStep.
      ASSUME TypeOK, CoreInv, NEW p \in Payers, NEW s \in StreamRecord,
             Moves(rec[p], s, 0, 0), s.netflow = rec[p].netflow, s.frozen = rec[p].frozen,
             s.netflow + s.frozen < 0, p \in stored, ResumeDirectly(p, s)
      PROVE  /\ CoreInv' /\ FlowsType(active') /\ FlowsType(frozen')
             /\ rec' \in [Accounts -> StreamRecord] /\ stored' \subseteq Accounts
             /\ autoSettle' \subseteq QueueRecord /\ autoResume' = autoResume
             /\ \A q \in Payers : q # p => rec'[q] = rec[q]
    <2> USE <1>ResumeDirectlyStep
    <2> DEFINE b == frozen[p]
               f == [r \in Accounts |-> -frozen[p][r]]
               t == [ResumeFunded(s) EXCEPT !.status = "active", !.netflow = s.netflow + s.frozen, !.frozen = 0]
    <2>1. /\ p \in Accounts /\ now \in Nat /\ params \in ParamSets /\ s.lock >= 0 /\ s.settle \in Int
          /\ b \in [Accounts -> Nat] /\ active[p] \in [Accounts -> Nat] /\ stored \subseteq Accounts
          /\ \A a \in Accounts \ Receivers : b[a] = 0 /\ active[p][a] = 0
          /\ \A a \in Accounts : rec[a] \in StreamRecord /\ rec[a].lock >= 0 /\ rec[a].buffer >= 0
          /\ \A r \in Accounts : active[p][r] = 0 \/ b[r] = 0
          /\ rec[p].netflow \in Int /\ rec[p].frozen \in Int
        BY SMTT(20), AccountFacts DEF TypeOK, CoreInv, RecordsInv, FlowsNotDoubled, Moves, StreamRecord
    <2>2. /\ rec' = [a \in Accounts |-> IF a = p THEN t
                                        ELSE IF a \in Receivers /\ b[a] # 0 THEN Credited(rec[a], 0, b[a])
                                        ELSE rec[a]]
          /\ active' = [active EXCEPT ![p] = [r \in Accounts |-> IF b[r] # 0 THEN b[r] ELSE active[p][r]]]
          /\ frozen' = [frozen EXCEPT ![p] = NoRates]
          /\ stored' = stored \cup {r \in Receivers : b[r] # 0}
          /\ autoSettle' = Requeue(autoSettle, p, s.settle, ResumeFunded(s).settle)
          /\ autoResume' = autoResume
        BY DEF ResumeDirectly, NoRates
    <2>3. f \in [Accounts -> Int] /\ b \in [Accounts -> Int] /\ \A a \in Accounts : f[a] = -b[a]
        BY SMTT(20), <2>1
    <2>4. b \in BillRates
        BY <2>1, <2>3 DEF BillRates
    <2>5. /\ Sum(f, NumAccounts) \in Int /\ Sum(b, NumAccounts) \in Int
          /\ Sum(f, NumAccounts) + Sum(b, NumAccounts) = 0
        BY <2>3, TotalNegated
    <2>6. rec[p].frozen = -Sum(b, NumAccounts)
        BY DEF CoreInv, RatesInv, RatesMatchFlows
    <2>7. /\ t \in StreamRecord /\ t.lock >= 0 /\ t.buffer >= 0 /\ t.status = "active"
          /\ t.netflow = s.netflow + s.frozen /\ t.frozen = 0 /\ ResumeFunded(s).settle \in Int
        <3>1. /\ ResumeFunded(s) \in StreamRecord /\ ResumeFunded(s).lock >= 0 /\ ResumeFunded(s).buffer >= 0
              /\ ResumeFunded(s).netflow = s.netflow /\ ResumeFunded(s).frozen = s.frozen
              /\ ResumeFunded(s).settle \in Int
            BY <2>1, FundedRecord DEF Moves
        <3> HIDE DEF t
        <3>2. t = [ResumeFunded(s) EXCEPT !.status = "active",
                     !.netflow = ResumeFunded(s).netflow + ResumeFunded(s).frozen, !.frozen = 0]
            BY <3>1 DEF t
        <3> QED
            BY Zenon, <3>1, <3>2, <1>ResumedRecord
    <2> HIDE DEF t, b, f
    <2>8. Moves(rec[p], t, -Sum(b, NumAccounts), -Sum(f, NumAccounts))
        <3>1. t.netflow = rec[p].netflow + (-Sum(b, NumAccounts))
            BY <2>1, <2>5, <2>6, <2>7
        <3>2. t.frozen = rec[p].frozen + (-Sum(f, NumAccounts))
            BY SMTT(20), <2>1, <2>5, <2>6, <2>7
        <3> QED
            BY <2>7, <3>1, <3>2 DEF Moves
    <2>9. \A a \in Accounts : Moves(rec[a], Credited(rec[a], 0, b[a]), b[a], 0)
        BY <2>1, <2>3, CreditedRecord, ZeroInt
    <2>10. /\ rec'[p] = t
           /\ \A a \in Accounts : a # p => rec'[a] = IF b[a] # 0 THEN Credited(rec[a], 0, b[a]) ELSE rec[a]
        BY <2>1, <2>2
    <2>11. rec' \in [Accounts -> StreamRecord]
        BY <2>1, <2>2, <2>7, <2>9 DEF Moves
    <2>12. \A a \in Accounts \ {p} : Moves(rec[a], rec'[a], b[a], 0)
        BY <2>1, <2>9, <2>10, MovesNothing
    <2>13. /\ active' \in [Payers -> [Accounts -> Nat]] /\ frozen' \in [Payers -> [Accounts -> Nat]]
           /\ \A q \in Payers \ {p} : active'[q] = active[q] /\ frozen'[q] = frozen[q]
           /\ \A r \in Accounts : active'[p][r] = (IF b[r] # 0 THEN b[r] ELSE active[p][r]) /\ frozen'[p][r] = 0
        <3>1. /\ NoRates \in [Accounts -> Nat] /\ \A r \in Accounts : NoRates[r] = 0
              /\ [r \in Accounts |-> IF b[r] # 0 THEN b[r] ELSE active[p][r]] \in [Accounts -> Nat]
            BY <2>1 DEF NoRates
        <3>2. active \in [Payers -> [Accounts -> Nat]] /\ frozen \in [Payers -> [Accounts -> Nat]]
            BY DEF TypeOK
        <3> QED
            BY <2>2, <3>1, <3>2
    <2>14. \A r \in Accounts : active'[p][r] = active[p][r] + b[r] /\ frozen'[p][r] = frozen[p][r] + f[r]
        BY SMTT(20), <2>1, <2>3, <2>13 DEF b
    <2>15. FlowsStep(p, b, f)
        BY <2>8, <2>10, <2>11, <2>12, <2>13, <2>14 DEF FlowsStep
    <2>16. \A q \in Payers : q # p => rec'[q] = rec[q]
        BY <2>1, <2>10, AccountFacts
    <2>17. FlowsNotDoubled'
        BY SMTT(20), <2>13, <2>16 DEF CoreInv, FlowsNotDoubled
    <2>18. /\ stored \subseteq stored' /\ stored' \subseteq Accounts
           /\ \A a \in Accounts \ stored' : rec'[a] = rec[a]
        <3>1. \A a \in Accounts \ stored' : a # p /\ b[a] = 0
            BY <2>1, <2>2
        <3> QED
            BY <2>1, <2>2, <2>10, <3>1, AccountFacts
    <2>19. CoreInv'
        <3>1. \A r \in Receivers : rec'[r] = rec[r] \/ rec'[r] = Credited(rec[r], 0, b[r])
            BY <2>10, AccountFacts
        <3> QED
            BY <2>3, <2>4, <2>15, <2>17, <2>18, <3>1, FlowsStepKeeps
    <2>20. FlowsType(active') /\ FlowsType(frozen')
        <3>1. \A q \in Payers, a \in Accounts \ Receivers : active[q][a] = 0 /\ frozen[q][a] = 0
            BY DEF TypeOK
        <3>2. \A a \in Accounts \ Receivers : active'[p][a] = 0 /\ frozen'[p][a] = 0
            BY <2>1, <2>13
        <3>3. \A q \in Payers \ {p}, a \in Accounts \ Receivers : active'[q][a] = 0 /\ frozen'[q][a] = 0
            BY SMTT(20), <2>13, <3>1
        <3> QED
            BY Zenon, <2>13, <3>2, <3>3 DEF FlowsType
    <2>21. autoSettle' \subseteq QueueRecord
        BY <2>1, <2>2, <2>7, RequeueType DEF TypeOK
    <2> QED
        BY <2>2, <2>11, <2>16, <2>18, <2>19, <2>20, <2>21
(* The deposit to an account without a record.                             *)
<1>DepositNew.
      ASSUME TypeOK, CoreInv, NEW to \in Accounts, to \notin stored, NEW amount \in Nat,
             rec' = [rec EXCEPT ![to] = [NewStreamRecord(now) EXCEPT !.static = amount]],
             stored' = stored \cup {to}, UNCHANGED flowVars
      PROVE  QuietStep /\ \A q \in Payers : rec[q].status = "frozen" => rec'[q].status = "frozen"
    <2> USE <1>DepositNew
    <2> DEFINE t == [NewStreamRecord(now) EXCEPT !.static = amount]
    <2>1. rec[to].netflow = 0 /\ rec[to].frozen = 0 /\ rec[to].status = "active"
        BY DEF CoreInv, StoredInv
    <2>2. /\ t \in StreamRecord /\ t.netflow = 0 /\ t.frozen = 0 /\ t.lock = 0 /\ t.buffer = 0
          /\ t.static = amount /\ t.settle = 0 /\ t.status = "active"
        <3>1. NewStreamRecord(now) \in StreamRecord
            BY SMTT(20) DEF NewStreamRecord, StreamRecord, TypeOK
        <3>2. t \in StreamRecord
            BY SMTT(20), <3>1, amount \in Int, SetStatic
        <3> QED
            BY <3>2 DEF NewStreamRecord
    <2> HIDE DEF t
    <2>3. Moves(rec[to], t, 0, 0) /\ Earns(t)
        BY SMTT(20), <2>1, <2>2 DEF Moves, Earns
    <2>4. rec' = [rec EXCEPT ![to] = t] /\ active' = active /\ frozen' = frozen
        BY DEF t, flowVars
    <2>5. QuietStep
        BY Zenon, <2>1, <2>3, <2>4, OneRecordQuiet
    <2>6. rec \in [Accounts -> StreamRecord]
        BY DEF TypeOK
    <2> QED
        BY <2>1, <2>4, <2>5, <2>6, AccountFacts
(* The deposit to an account in good standing.                             *)
<1>DepositActive.
      ASSUME TypeOK, CoreInv, NEW to \in stored, NEW amount \in Nat, NEW b \in Nat,
             CanUpdate(rec[to], Change(amount, 0, 0), b),
             rec' = [rec EXCEPT ![to] = Updated(@, Change(amount, 0, 0), b)],
             autoSettle' = Requeue(autoSettle, to, rec[to].settle, Updated(rec[to], Change(amount, 0, 0), b).settle),
             stored' = stored, UNCHANGED flowVars
      PROVE  /\ QuietStep /\ autoSettle' \subseteq QueueRecord
             /\ \A q \in Payers : rec[q].status = "frozen" => rec'[q].status = "frozen"
    <2> USE <1>DepositActive
    <2> DEFINE c == Change(amount, 0, 0)
               t == Updated(rec[to], c, b)
    <2>1. /\ to \in Accounts /\ now \in Nat /\ params \in ParamSets /\ rec \in [Accounts -> StreamRecord]
          /\ rec[to] \in StreamRecord /\ rec[to].lock >= 0 /\ autoSettle \subseteq QueueRecord
          /\ to \in Receivers => Earns(rec[to])
          /\ rec[to].status = "active"
        BY EarnsDef DEF TypeOK, CoreInv, RecordsInv, CanUpdate
    <2>2. c \in ChangeRecord /\ c.rate = 0
        BY SMTT(20), ChangeType, ZeroInt, amount \in Int
    <2>3. Moves(rec[to], t, 0, 0) /\ t.settle = SettleTime(Balanced(rec[to], c, b))
        BY <2>1, <2>2, UpdatedRecord
    <2>4. to \in Receivers => Earns(t)
        BY <2>1, <1>UpdatedEarns
    <2>5. to \notin Payers => t.settle = 0
        <3>1. ASSUME to \notin Payers
              PROVE  t.settle = 0
            <4>1. rec[to].netflow >= 0
                <5>1. to \in Receivers \/ to = Gov
                    BY <2>1, <3>1, AccountsAssumption
                <5> QED
                    BY SMTT(20), <2>1, <5>1 DEF Earns, CoreInv, RatesInv
            <4>2. Balanced(rec[to], c, b) \in StreamRecord /\ Balanced(rec[to], c, b).netflow >= 0
                <5>1. rec[to].netflow + 0 = rec[to].netflow
                    BY SMTT(20), <2>1 DEF StreamRecord
                <5>2. /\ Balanced(rec[to], c, b) \in StreamRecord
                      /\ Balanced(rec[to], c, b).netflow = rec[to].netflow + c.rate
                    BY <2>1, <2>2, BalancedRecord
                <5> QED
                    BY <2>2, <4>1, <5>1, <5>2
            <4> QED
                BY <2>1, <2>3, <4>2, SettleTimeInt
        <3> QED
            BY <3>1
    <2>6. rec[to].settle \in Int /\ t.settle \in Int
        BY <2>1, <2>3 DEF Moves, StreamRecord
    <2>7. t.status = "active"
        BY <2>1, <2>2, <1>NotOverdueActive
    <2>8. rec' = [rec EXCEPT ![to] = t] /\ autoSettle' = Requeue(autoSettle, to, rec[to].settle, t.settle)
          /\ active' = active /\ frozen' = frozen
        BY DEF flowVars
    <2> HIDE DEF t, c
    <2>9. QuietStep
        BY Zenon, <2>1, <2>3, <2>4, <2>8, OneRecordQuiet
    <2>10. autoSettle' \subseteq QueueRecord
        BY <2>1, <2>5, <2>6, <2>8, RequeueType
    <2>11. \A q \in Payers : rec[q].status = "frozen" => rec'[q].status = "frozen"
        BY <2>1, <2>8, AccountFacts
    <2> QED
        BY <2>9, <2>10, <2>11
(* The deposit to a frozen account, which may resume it.                   *)
<1>DepositFrozen.
      ASSUME TypeOK, CoreInv, NEW to \in stored, NEW amount \in Nat, rec[to].status = "frozen",
             TryResume(to, [rec[to] EXCEPT !.static = @ + amount])
      PROVE  /\ CoreInv' /\ FlowsType(active') /\ FlowsType(frozen')
             /\ rec' \in [Accounts -> StreamRecord] /\ stored' \subseteq Accounts
             /\ autoSettle' \subseteq QueueRecord
             /\ ~Resuming(to)
             /\ \A q \in Payers : q # to => rec'[q] = rec[q]
             /\ \/ autoResume' = autoResume
                \/ /\ to \in Payers /\ autoResume' = autoResume \cup {<<now, to>>}
                   /\ rec'[to].status = "frozen"
    <2> USE <1>DepositFrozen
    <2> DEFINE s == [rec[to] EXCEPT !.static = @ + amount]
    <2>1. /\ to \in Accounts /\ now \in Nat /\ params \in ParamSets /\ rec \in [Accounts -> StreamRecord]
          /\ rec[to] \in StreamRecord /\ rec[to].lock >= 0 /\ rec[to].buffer >= 0
          /\ autoSettle \subseteq QueueRecord /\ stored \subseteq Accounts
          /\ FlowsType(active) /\ FlowsType(frozen) /\ to \notin Receivers
        BY EarnsDef, FlowsTypeNow DEF TypeOK, CoreInv, RecordsInv, Earns
    <2>2. /\ Moves(rec[to], s, 0, 0) /\ s.netflow = rec[to].netflow /\ s.frozen = rec[to].frozen
          /\ s.status = "frozen" /\ s \in StreamRecord /\ s.lock >= 0
        BY SMTT(20), <2>1, <1>DepositedRecord DEF Moves
    <2>3. ~Resuming(to) /\ TryResume(to, s)
        BY DEF TryResume
    <2> HIDE DEF s
    <2>4. CASE /\ s.netflow + s.frozen = 0
               /\ rec' = [rec EXCEPT ![to] = [s EXCEPT !.status = "active", !.crud = now, !.settle = 0]]
               /\ UNCHANGED <<stored, flowVars, autoSettle, autoResume>>
        <3> DEFINE t == [s EXCEPT !.status = "active", !.crud = now, !.settle = 0]
        <3>1. Moves(rec[to], t, 0, 0)
            <4>1. [s EXCEPT !.status = "active"] \in StreamRecord
                BY Zenon, <2>2, SetStatus
            <4>2. [[s EXCEPT !.status = "active"] EXCEPT !.crud = now] \in StreamRecord
                BY Zenon, <2>1, NatInt, <4>1, SetCrud
            <4>3. [[[s EXCEPT !.status = "active"] EXCEPT !.crud = now] EXCEPT !.settle = 0] \in StreamRecord
                BY Zenon, <4>2, ZeroInt, SetSettle
            <4>4. t.netflow = s.netflow /\ t.frozen = s.frozen /\ t.lock = s.lock /\ t.buffer = s.buffer
                BY <2>2 DEF StreamRecord
            <4> QED
                BY <2>2, <4>3, <4>4 DEF Moves
        <3>2. to \in Payers => ~HasFlows(frozen[to])
            <4>1. ASSUME to \in Payers
                  PROVE  ~HasFlows(frozen[to])
                <5>1. /\ rec[to].netflow \in Int /\ rec[to].frozen \in Int
                      /\ rec[to].netflow <= 0 /\ rec[to].frozen <= 0
                      /\ rec[to].frozen = 0 <=> ~HasFlows(frozen[to])
                    BY <4>1, PayerOwes
                <5> QED
                    BY SMTT(20), <2>2, <2>4, <5>1
            <4> QED
                BY <4>1
        <3>3. /\ rec' = [rec EXCEPT ![to] = t] /\ active' = active /\ frozen' = frozen /\ stored' = stored
              /\ autoSettle' = autoSettle /\ autoResume' = autoResume
            BY <2>4 DEF flowVars
        <3> HIDE DEF t
        <3>4. QuietStep
            BY Zenon, <2>1, <3>1, <3>2, <3>3, OneRecordQuiet
        <3>5. CoreInv' /\ rec' \in [Accounts -> StreamRecord]
            BY <3>4, QuietStepKeeps DEF QuietStep
        <3>6. \A q \in Payers : q # to => rec'[q] = rec[q]
            BY <2>1, <3>3, AccountFacts
        <3> QED
            BY <2>1, <2>3, <3>3, <3>5, <3>6
    <2>5. ASSUME s.netflow + s.frozen # 0
          PROVE  to \in Payers /\ s.netflow + s.frozen < 0
        <3>1. to # Gov
            BY SMTT(20), <2>2, <2>5, AccountFacts DEF CoreInv, RatesInv
        <3>2. to \in Payers
            BY <2>1, <3>1, AccountsAssumption
        <3> QED
            BY SMTT(20), <2>2, <2>5, <3>2, PayerOwes
    <2>6. CASE /\ s.netflow + s.frozen # 0
               /\ rec' = [rec EXCEPT ![to] = s] \/ rec' = [rec EXCEPT ![to] = ResumeFunded(s)]
               /\ UNCHANGED <<stored, flowVars, autoSettle>>
               /\ autoResume' = autoResume \/ autoResume' = autoResume \cup {<<now, to>>}
        <3>1. PICK t : /\ t = s \/ t = ResumeFunded(s)
                       /\ rec' = [rec EXCEPT ![to] = t]
            BY <2>6
        <3>2. Moves(rec[to], t, 0, 0) /\ t.status = "frozen"
            <4>1. CASE t = s
                BY <2>2, <4>1
            <4>2. CASE t = ResumeFunded(s)
                <5>1. Moves(s, t, 0, 0) /\ t.status = s.status
                    BY <2>1, <2>2, <2>5, <2>6, <4>2, FundedRecord
                <5> QED
                    BY <2>2, <5>1 DEF Moves, StreamRecord
            <4> QED
                BY <3>1, <4>1, <4>2
        <3>3. /\ active' = active /\ frozen' = frozen /\ stored' = stored /\ autoSettle' = autoSettle
            BY <2>6 DEF flowVars
        <3>4. QuietStep
            BY Zenon, <2>1, <3>1, <3>2, <3>3, OneRecordQuiet
        <3>5. CoreInv' /\ rec' \in [Accounts -> StreamRecord]
            BY <3>4, QuietStepKeeps DEF QuietStep
        <3>6. rec'[to].status = "frozen" /\ \A q \in Payers : q # to => rec'[q] = rec[q]
            BY <2>1, <3>1, <3>2, AccountFacts
        <3> QED
            BY <2>1, <2>3, <2>5, <2>6, <3>3, <3>5, <3>6
    <2>7. CASE s.netflow + s.frozen # 0 /\ ResumeDirectly(to, s)
        <3>1. /\ to \in Payers /\ s.netflow + s.frozen < 0
            BY <2>5, <2>7
        <3>2. /\ CoreInv' /\ FlowsType(active') /\ FlowsType(frozen')
              /\ rec' \in [Accounts -> StreamRecord] /\ stored' \subseteq Accounts
              /\ autoSettle' \subseteq QueueRecord /\ autoResume' = autoResume
              /\ \A q \in Payers : q # to => rec'[q] = rec[q]
            BY <2>2, <2>7, <3>1, <1>ResumeDirectlyStep
        <3> QED
            BY <2>3, <3>2
    <2> QED
        BY <2>3, <2>4, <2>6, <2>7 DEF TryResume, ResumeLater
(* A new resume record of a frozen payer that was not resuming.            *)
<1>ResumeQueued.
      ASSUME TypeOK, ResumingIsFrozen, NEW p \in Payers, NEW ts, ~Resuming(p),
             autoResume' = autoResume \cup {<<ts, p>>}, rec'[p].status = "frozen",
             \A q \in Payers : q # p => rec'[q] = rec[q]
      PROVE  ResumingIsFrozen'
    <2> USE <1>ResumeQueued
    <2>1. \A q \in autoResume : q[2] \in Payers /\ q[2] # p
        BY DEF TypeOK, QueueRecord, Resuming
    <2>2. \A q \in autoResume' : q \in autoResume \/ q = <<ts, p>>
        OBVIOUS
    <2> QED
        BY SMTT(20), <2>1, <2>2 DEF ResumingIsFrozen
(* Deposit, and the resume it may start, keeps the invariant.              *)
<1>DepositToStep.
      ASSUME IInv, phase = "tx", NEW to \in Accounts, NEW amount \in Nat,
             NEW bankAfter \in [Accounts -> Nat], DepositTo(to, amount, bankAfter),
             UNCHANGED <<now, params, acctVars, loopVars>>
      PROVE  IInv'
    <2> USE <1>DepositToStep
    <2>1. /\ TypeOK /\ CoreInv /\ ResumingIsFrozen /\ LoopInv /\ module \in Int /\ now \in Nat
          /\ autoSettle \subseteq QueueRecord /\ autoResume \subseteq QueueRecord /\ stored \subseteq Accounts
          /\ FlowsType(active) /\ FlowsType(frozen) /\ bankAfter[to] \in Nat /\ rec[to] \in StreamRecord
          /\ params \in ParamSets
        BY FlowsTypeNow DEF IInv, TypeOK
    <2> DEFINE c == Change(amount, 0, 0)
               pull == PullAmount(Settled(rec[to], c), bankAfter[to])
    <2>2. CASE to \notin stored
        <3>1. /\ rec' = [rec EXCEPT ![to] = [NewStreamRecord(now) EXCEPT !.static = amount]]
              /\ stored' = stored \cup {to} /\ bank' = bankAfter /\ module' = module + amount
              /\ active' = active /\ frozen' = frozen /\ autoSettle' = autoSettle /\ autoResume' = autoResume
              /\ UNCHANGED flowVars
            BY <2>2 DEF DepositTo, flowVars
        <3>2. QuietStep /\ \A q \in Payers : rec[q].status = "frozen" => rec'[q].status = "frozen"
            BY Zenon, <2>1, <2>2, <3>1, <1>DepositNew
        <3>3. CoreInv' /\ rec' \in [Accounts -> StreamRecord]
            BY <2>1, <3>2, QuietStepKeeps DEF QuietStep
        <3>4. module' \in Int /\ stored' \subseteq Accounts
            BY SMTT(20), <2>1, <3>1
        <3> QED
            BY <2>1, <3>1, <3>2, <3>3, <3>4, LedgerStep
    <2>3. CASE to \in stored /\ rec[to].status = "active"
        <3>1. /\ CanUpdate(rec[to], c, bankAfter[to])
              /\ rec' = [rec EXCEPT ![to] = Updated(@, c, bankAfter[to])]
              /\ bank' = [bankAfter EXCEPT ![to] = @ - pull] /\ module' = module + amount + pull
              /\ autoSettle' = Requeue(autoSettle, to, rec[to].settle, Updated(rec[to], c, bankAfter[to]).settle)
              /\ stored' = stored /\ active' = active /\ frozen' = frozen /\ autoResume' = autoResume
              /\ UNCHANGED flowVars
            BY <2>3 DEF DepositTo, flowVars
        <3>2. /\ QuietStep /\ autoSettle' \subseteq QueueRecord
              /\ \A q \in Payers : rec[q].status = "frozen" => rec'[q].status = "frozen"
            BY Zenon, <2>1, <2>3, <3>1, <1>DepositActive
        <3>3. pull \in Nat /\ pull <= bankAfter[to]
            <4>1. c \in ChangeRecord
                BY SMTT(20), ChangeType, ZeroInt, amount \in Int
            <4> QED
                BY <2>1, <4>1, SettledRecord, PullAmountNat
        <3> HIDE DEF pull, c
        <3>4. CoreInv' /\ rec' \in [Accounts -> StreamRecord]
            BY <2>1, <3>2, QuietStepKeeps DEF QuietStep
        <3>5. module' \in Int /\ bank' \in [Accounts -> Nat] /\ stored' \subseteq Accounts
            BY SMTT(20), <2>1, <3>1, <3>3
        <3> QED
            BY <2>1, <3>1, <3>2, <3>4, <3>5, LedgerStep
    <2>4. CASE to \in stored /\ rec[to].status = "frozen"
        <3>1. /\ TryResume(to, [rec[to] EXCEPT !.static = @ + amount])
              /\ bank' = bankAfter /\ module' = module + amount
            BY <2>4 DEF DepositTo, CanUpdate
        <3>2. /\ CoreInv' /\ FlowsType(active') /\ FlowsType(frozen')
              /\ rec' \in [Accounts -> StreamRecord] /\ stored' \subseteq Accounts
              /\ autoSettle' \subseteq QueueRecord /\ ~Resuming(to)
              /\ \A q \in Payers : q # to => rec'[q] = rec[q]
              /\ \/ autoResume' = autoResume
                 \/ /\ to \in Payers /\ autoResume' = autoResume \cup {<<now, to>>}
                    /\ rec'[to].status = "frozen"
            BY <2>1, <2>4, <3>1, <1>DepositFrozen
        <3>3. module' \in Int /\ bank' \in [Accounts -> Nat] /\ autoResume' \subseteq QueueRecord
            BY SMTT(20), <2>1, <3>1, <3>2 DEF QueueRecord
        <3>4. TypeOK'
            BY <2>1, <3>2, <3>3, LedgerType
        <3>5. LoopInv'
            BY <2>1, OutsideLoops
        <3>6. ResumingIsFrozen'
            <4>1. CASE autoResume' = autoResume
                BY <2>1, <3>2, <4>1, ResumingKept
            <4>2. CASE /\ to \in Payers /\ autoResume' = autoResume \cup {<<now, to>>}
                       /\ rec'[to].status = "frozen"
                BY <2>1, <3>2, <4>2, <1>ResumeQueued
            <4> QED
                BY <3>2, <4>1, <4>2
        <3> QED
            BY <3>2, <3>4, <3>5, <3>6 DEF IInv
    <2>5. rec[to].status \in {"active", "frozen"}
        BY <2>1 DEF StreamRecord
    <2> QED
        BY <2>2, <2>3, <2>4, <2>5
(* MsgDeposit keeps the invariant.                                         *)
<1>DepositStep.
      ASSUME IInv, NEW creator \in Users, NEW to \in Accounts, NEW amount \in Deposits,
             Deposit(creator, to, amount)
      PROVE  IInv'
    <2> USE <1>DepositStep
    <2> DEFINE swept == IF IsPaymentAccount(to) THEN bank[to] ELSE 0
               bankAfter == [a \in Accounts |-> bank[a] - (IF a = creator THEN amount ELSE 0)
                                                        - (IF a = to THEN swept ELSE 0)]
    <2>1. /\ bank \in [Accounts -> Nat] /\ bank[creator] >= amount /\ amount \in Nat /\ phase = "tx"
          /\ creator \in Accounts /\ creator \notin PaymentAccounts
          /\ DepositTo(to, amount + swept, bankAfter)
          /\ UNCHANGED <<now, params, acctVars, loopVars>>
        BY AccountFacts, FeesType DEF IInv, TypeOK, Deposit, Users
    <2>2. swept \in Nat /\ swept <= bank[to] /\ (to = creator => swept = 0)
        BY SMTT(20), <2>1 DEF IsPaymentAccount
    <2>3. bankAfter \in [Accounts -> Nat]
        <3> SUFFICES ASSUME NEW a \in Accounts
                     PROVE  bank[a] - (IF a = creator THEN amount ELSE 0) - (IF a = to THEN swept ELSE 0) \in Nat
            OBVIOUS
        <3> HIDE DEF swept
        <3> QED
            BY SMTT(20), <2>1, <2>2
    <2>4. amount + swept \in Nat
        BY SMTT(20), <2>1, <2>2
    <2> HIDE DEF swept, bankAfter
    <2> QED
        BY <2>1, <2>3, <2>4, <1>DepositToStep
<1> QED
    BY <1>AccountMessagesStep, <1>DepositStep, <1>WithdrawStep DEF Messages

-----------------------------------------------------------------------------
(***************************************************************************)
(* IV. The EndBlock loops.                                                 *)
(***************************************************************************)

Visits == {NoVisit} \cup [ts : Int, addr : Payers, tail : BOOLEAN]

OnlyRate(r, d) == [a \in Accounts |-> IF a = r THEN d ELSE 0]

(* Every step of the payment EndBlock, the next block and stuttering keep  *)
(* the invariant.                                                          *)
LEMMA LoopsKeep ==
    IInv /\ (EndBlock \/ (\E gap \in BlockGaps : NextBlock(gap)) \/ UNCHANGED vars) => IInv'
(* TypeOK for the steps of EndBlock.                                       *)
<1>LoopType.
      ASSUME TypeOK, rec' \in [Accounts -> StreamRecord], stored' \subseteq Accounts,
             FlowsType(active'), FlowsType(frozen'),
             autoSettle' \subseteq QueueRecord, autoResume' \subseteq QueueRecord,
             bank' \in [Accounts -> Nat], module' \in Int,
             phase' \in {"tx", "resume", "settle", "storage", "panic"}, todo' \subseteq QueueRecord,
             visit' \in Visits, count' \in Nat, now' \in Nat, UNCHANGED <<params, acctVars>>
      PROVE  TypeOK'
    BY <1>LoopType DEF TypeOK, FlowsType, acctVars, Visits
(* A step that only moves the loop on.                                     *)
<1>LoopOnly.
      ASSUME IInv, UNCHANGED <<params, stored, rec, flowVars, autoResume, bank, module, acctVars>>,
             autoSettle' \subseteq autoSettle, now' \in Nat,
             phase' \in {"tx", "resume", "settle", "storage"}, todo' \subseteq QueueRecord,
             visit' \in Visits, count' \in Nat, LoopInv'
      PROVE  IInv'
    <2> USE <1>LoopOnly
    <2>1. TypeOK /\ ResumingIsFrozen
        BY DEF IInv
    <2>2. /\ FlowsType(active') /\ FlowsType(frozen') /\ active' = active /\ frozen' = frozen
        BY <2>1, FlowsTypeNow DEF flowVars
    <2>3. /\ rec' \in [Accounts -> StreamRecord] /\ stored' \subseteq Accounts
          /\ autoSettle' \subseteq QueueRecord /\ autoResume' \subseteq QueueRecord
          /\ bank' \in [Accounts -> Nat] /\ module' \in Int
        BY <2>1 DEF TypeOK
    <2>4. TypeOK'
        BY <2>1, <2>2, <2>3, <1>LoopType
    <2>5. CoreInv'
        BY <2>2, UntouchedRecords
    <2>6. ResumingIsFrozen'
        BY <2>1 DEF ResumingIsFrozen
    <2> QED
        BY <2>4, <2>5, <2>6 DEF IInv
(* A queue record names a payer and makes a typed visit.                   *)
<1>QueueFacts.
      ASSUME NEW q \in QueueRecord, NEW tail \in BOOLEAN
      PROVE  /\ q[1] \in Int /\ q[2] \in Payers /\ q[2] \in Accounts /\ q = <<q[1], q[2]>>
             /\ [ts |-> q[1], addr |-> q[2], tail |-> tail] \in Visits
    BY SMTT(20), <1>QueueFacts, AccountFacts DEF QueueRecord, Visits
(* The EndBlock steps that touch no record keep the invariant.             *)
<1>LoopStepsOnly.
      ASSUME IInv,
             \/ StartEndBlock
             \/ \E q \in todo : ResumeVisit(q)
             \/ ResumeStop \/ ResumeEnd
             \/ \E q \in todo : SettleFrozen(q)
             \/ SettleStop \/ SettleEnd
             \/ \E gap \in BlockGaps : NextBlock(gap)
      PROVE  IInv'
    <2> USE <1>LoopStepsOnly
    <2>1. /\ TypeOK /\ CoreInv /\ ResumingIsFrozen /\ LoopInv /\ now \in Nat /\ count \in Nat
          /\ todo \subseteq QueueRecord /\ autoResume \subseteq QueueRecord /\ autoSettle \subseteq QueueRecord
          /\ visit \in Visits /\ NoVisit \in Visits
        BY DEF IInv, TypeOK, Visits
    <2>2. CASE StartEndBlock
        <3>1. /\ UNCHANGED <<now, params, stored, rec, flowVars, autoResume, bank, module, acctVars>>
              /\ autoSettle' = autoSettle /\ phase = "tx" /\ phase' = "resume" /\ todo' = autoResume
              /\ visit' = visit /\ count' = count
            BY <2>2 DEF StartEndBlock
        <3>2. LoopInv'
            BY <2>1, <3>1 DEF LoopInv
        <3> QED
            BY <2>1, <3>1, <3>2, <1>LoopOnly
    <2>3. CASE \E q \in todo : ResumeVisit(q)
        <3>1. PICK q \in todo : ResumeVisit(q)
            BY <2>3
        <3>2. /\ UNCHANGED <<now, params, stored, rec, flowVars, autoResume, bank, module, acctVars>>
              /\ autoSettle' = autoSettle /\ phase = "resume" /\ phase' = phase /\ todo' = todo \ {q}
              /\ visit' = [ts |-> q[1], addr |-> q[2], tail |-> LaterPayersFlows(q[2])] /\ count' = count
            BY <3>1 DEF ResumeVisit
        <3>3. LaterPayersFlows(q[2]) \in BOOLEAN
            BY DEF LaterPayersFlows
        <3>4. visit' \in Visits /\ q = <<q[1], q[2]>>
            BY <2>1, <3>2, <3>3, <1>QueueFacts
        <3>5. q \in autoResume /\ rec[q[2]].status = "frozen" /\ todo \subseteq autoResume
            BY <2>1, <3>2 DEF LoopInv, ResumingIsFrozen
        <3>6. visit'.ts = q[1] /\ visit'.addr = q[2]
            BY <3>2
        <3>7. LoopInv'
            <4>1. rec' = rec /\ autoResume' = autoResume
                BY <3>2
            <4>2. <<visit'.ts, visit'.addr>> \in autoResume' \ todo'
                BY <3>2, <3>4, <3>5, <3>6, <4>1
            <4>3. todo' \subseteq autoResume' /\ rec'[visit'.addr].status = "frozen" /\ phase' = "resume"
                BY <3>2, <3>5, <3>6, <4>1
            <4> QED
                BY <4>2, <4>3 DEF LoopInv
        <3>8. todo' \subseteq QueueRecord
            BY <2>1, <3>2
        <3> QED
            BY <2>1, <3>2, <3>4, <3>7, <3>8, <1>LoopOnly
    <2>4. CASE ResumeStop
        <3>1. /\ UNCHANGED <<now, params, stored, rec, flowVars, autoResume, bank, module, acctVars>>
              /\ autoSettle' = autoSettle /\ phase = "resume" /\ phase' = phase /\ todo' = todo
              /\ visit' = NoVisit /\ count' = count
            BY <2>4 DEF ResumeStop
        <3>2. LoopInv'
            BY <2>1, <3>1 DEF LoopInv
        <3> QED
            BY <2>1, <3>1, <3>2, <1>LoopOnly
    <2>5. CASE ResumeEnd
        <3>1. /\ UNCHANGED <<now, params, stored, rec, flowVars, autoResume, bank, module, acctVars>>
              /\ autoSettle' = autoSettle /\ visit = NoVisit /\ phase' = "settle" /\ todo' = autoSettle
              /\ visit' = visit /\ count' = 0
            BY <2>5 DEF ResumeEnd
        <3>2. LoopInv'
            BY <2>1, <3>1 DEF LoopInv
        <3> QED
            BY <2>1, <3>1, <3>2, <1>LoopOnly
    <2>6. CASE \E q \in todo : SettleFrozen(q)
        <3>1. PICK q \in todo : SettleFrozen(q)
            BY <2>6
        <3>2. /\ UNCHANGED <<now, params, stored, rec, flowVars, autoResume, bank, module, acctVars>>
              /\ autoSettle' = autoSettle /\ phase = "settle" /\ phase' = phase /\ todo' = todo \ {q}
              /\ visit' = SettleVisitOf(q) /\ count' = count /\ rec[q[2]].status = "frozen"
            BY <3>1 DEF SettleFrozen
        <3>3. visit' \in Visits /\ (visit' # NoVisit => visit'.addr = q[2])
            <4>1. (HasFlows(frozen[q[2]]) \/ LaterPayersFlows(q[2])) \in BOOLEAN
                OBVIOUS
            <4> QED
                BY Zenon, <2>1, <3>2, <4>1, <1>QueueFacts DEF SettleVisitOf
        <3>4. LoopInv'
            BY <3>2, <3>3 DEF LoopInv
        <3>5. todo' \subseteq QueueRecord
            BY <2>1, <3>2
        <3> QED
            BY <2>1, <3>2, <3>3, <3>4, <3>5, <1>LoopOnly
    <2>7. CASE SettleStop
        <3>1. /\ UNCHANGED <<now, params, stored, rec, flowVars, autoResume, bank, module, acctVars>>
              /\ autoSettle' = autoSettle /\ phase = "settle" /\ phase' = phase /\ todo' = todo
              /\ visit' = NoVisit /\ count' = count
            BY <2>7 DEF SettleStop
        <3>2. LoopInv'
            BY <2>1, <3>1 DEF LoopInv
        <3> QED
            BY <2>1, <3>1, <3>2, <1>LoopOnly
    <2>8. CASE SettleEnd
        <3>1. /\ UNCHANGED <<now, params, stored, rec, flowVars, autoResume, bank, module, acctVars>>
              /\ autoSettle' = autoSettle /\ visit = NoVisit /\ phase' = "storage" /\ todo' = {}
              /\ visit' = visit /\ count' = 0
            BY <2>8 DEF SettleEnd
        <3>2. LoopInv'
            BY <2>1, <3>1 DEF LoopInv
        <3> QED
            BY <2>1, <3>1, <3>2, <1>LoopOnly
    <2>9. CASE \E gap \in BlockGaps : NextBlock(gap)
        <3>1. PICK gap \in BlockGaps : NextBlock(gap)
            BY <2>9
        <3>2. /\ UNCHANGED <<params, stored, rec, flowVars, autoResume, bank, module, acctVars>>
              /\ autoSettle' = autoSettle /\ phase = "storage" /\ phase' = "tx" /\ todo' = todo
              /\ visit' = visit /\ count' = count /\ now' = now + gap
            BY <3>1 DEF NextBlock
        <3>3. now' \in Nat
            BY SMTT(20), <2>1, <3>2, ParamsAssumption
        <3>4. LoopInv'
            BY <2>1, <3>2 DEF LoopInv
        <3> QED
            BY <2>1, <3>2, <3>3, <3>4, <1>LoopOnly
    <2> QED
        BY <2>2, <2>3, <2>4, <2>5, <2>6, <2>7, <2>8, <2>9
(* A bill with one line sums to that line.                                 *)
<1>OnlyRateSum.
      ASSUME NEW r \in Receivers, NEW d \in Int
      PROVE  /\ OnlyRate(r, d) \in BillRates /\ OnlyRate(r, d) \in [Accounts -> Int]
             /\ Sum(OnlyRate(r, d), NumAccounts) = d
             /\ OnlyRate(r, d)[r] = d /\ \A a \in Accounts : a # r => OnlyRate(r, d)[a] = 0
    <2> USE <1>OnlyRateSum
    <2>1. r \in Accounts
        BY AccountFacts
    <2>2. /\ OnlyRate(r, d) \in [Accounts -> Int]
          /\ OnlyRate(r, d)[r] = d /\ \A a \in Accounts : a # r => OnlyRate(r, d)[a] = 0
        BY SMTT(20), <2>1 DEF OnlyRate
    <2>3. \A a \in Accounts : NoRates[a] = 0
        BY DEF NoRates
    <2>4. Sum(OnlyRate(r, d), NumAccounts) = Sum(NoRates, NumAccounts) + (OnlyRate(r, d)[r] - NoRates[r])
        BY <2>1, <2>2, <2>3, NoRatesSum, TotalUpdate
    <2>5. Sum(OnlyRate(r, d), NumAccounts) = d
        BY SMT, <2>1, <2>2, <2>3, <2>4, NoRatesSum
    <2> QED
        BY <2>2, <2>5 DEF BillRates
(* Moving a rate between net flow and frozen net flow changes nothing      *)
(* else.                                                                   *)
<1>MovedRecord.
      ASSUME NEW s \in StreamRecord, NEW d \in Int, s.lock >= 0, s.buffer >= 0
      PROVE  LET t == [s EXCEPT !.netflow = @ - d, !.frozen = @ + d] IN
             Moves(s, t, -d, d) /\ t.status = s.status
    <2> USE <1>MovedRecord
    <2>1. /\ s.netflow \in Int /\ s.frozen \in Int /\ s.netflow - d \in Int /\ s.frozen + d \in Int
          /\ s.netflow - d = s.netflow + (-d)
        BY SMTT(20) DEF StreamRecord
    <2>2. [s EXCEPT !.netflow = s.netflow - d] \in StreamRecord
        BY <2>1, SetNetflow
    <2>3. [[s EXCEPT !.netflow = s.netflow - d] EXCEPT !.frozen = s.frozen + d] \in StreamRecord
        BY Zenon, <2>1, <2>2, SetFrozen
    <2> QED
        BY <2>1, <2>3 DEF Moves, StreamRecord
(* Moving one flow of a frozen payer between active and frozen keeps the   *)
(* core invariant, provided it does not land on another.                   *)
<1>FlowMovedStep.
      ASSUME TypeOK, CoreInv, NEW p \in Payers, NEW r \in Receivers, NEW d \in Int, FlowMoved(p, r, d),
             rec[p].status = "frozen", active[p][r] + d \in Nat, frozen[p][r] - d \in Nat,
             active[p][r] + d = 0 \/ frozen[p][r] - d = 0
      PROVE  /\ CoreInv' /\ FlowsType(active') /\ FlowsType(frozen')
             /\ rec' \in [Accounts -> StreamRecord] /\ stored' \subseteq Accounts
             /\ \A q \in Payers : rec'[q].status = rec[q].status
    <2> USE <1>FlowMovedStep
    <2> DEFINE b == OnlyRate(r, d)
               f == OnlyRate(r, -d)
               t == [rec[p] EXCEPT !.netflow = @ - d, !.frozen = @ + d]
               e == Credited(rec[r], 0, d)
    <2>1. /\ p \in Accounts /\ r \in Accounts /\ p # r /\ r \notin Payers
          /\ rec \in [Accounts -> StreamRecord] /\ now \in Nat /\ params \in ParamSets
          /\ rec[p] \in StreamRecord /\ rec[r] \in StreamRecord
          /\ \A a \in Accounts : rec[a] \in StreamRecord /\ rec[a].lock >= 0 /\ rec[a].buffer >= 0
          /\ active \in [Payers -> [Accounts -> Nat]] /\ frozen \in [Payers -> [Accounts -> Nat]]
          /\ stored \subseteq Accounts
        BY AccountFacts DEF TypeOK, CoreInv, RecordsInv
    <2>2. /\ b \in BillRates /\ b[r] = d /\ \A a \in Accounts : a # r => b[a] = 0
          /\ Sum(b, NumAccounts) = d
        BY <1>OnlyRateSum
    <2>3. /\ f \in [Accounts -> Int] /\ f[r] = -d /\ \A a \in Accounts : a # r => f[a] = 0
          /\ Sum(f, NumAccounts) = -d
        BY SMTT(20), <1>OnlyRateSum, -d \in Int
    <2>4. Moves(rec[p], t, -d, d) /\ t.status = "frozen" /\ t \in StreamRecord
        BY Zenon, <2>1, <1>MovedRecord DEF Moves
    <2>5. Moves(rec[r], e, d, 0) /\ e \in StreamRecord
        BY SMTT(20), <2>1, CreditedRecord, ZeroInt DEF Moves
    <2>6. /\ rec' = [rec EXCEPT ![r] = e, ![p] = t] /\ stored' = stored \cup {r}
          /\ active' = [active EXCEPT ![p] = [active[p] EXCEPT ![r] = active[p][r] + d]]
          /\ frozen' = [frozen EXCEPT ![p] = [frozen[p] EXCEPT ![r] = frozen[p][r] - d]]
        BY DEF FlowMoved
    <2> HIDE DEF b, f, t, e
    <2>7. /\ rec' \in [Accounts -> StreamRecord] /\ rec'[p] = t /\ rec'[r] = e
          /\ \A a \in Accounts : a # p /\ a # r => rec'[a] = rec[a]
        BY Zenon, <2>1, <2>4, <2>5, <2>6
    <2>8. /\ active' \in [Payers -> [Accounts -> Nat]] /\ frozen' \in [Payers -> [Accounts -> Nat]]
          /\ \A q \in Payers \ {p} : active'[q] = active[q] /\ frozen'[q] = frozen[q]
        BY <2>1, <2>6
    <2>9. /\ active'[p][r] = active[p][r] + d /\ frozen'[p][r] = frozen[p][r] - d
          /\ \A a \in Accounts : a # r => active'[p][a] = active[p][a] /\ frozen'[p][a] = frozen[p][a]
        BY <2>1, <2>6
    <2>10. \A a \in Accounts : active'[p][a] = active[p][a] + b[a] /\ frozen'[p][a] = frozen[p][a] + f[a]
        <3>1. \A a \in Accounts : active[p][a] \in Nat /\ frozen[p][a] \in Nat
            BY SMTT(20), <2>1
        <3> QED
            BY SMTT(20), <2>2, <2>3, <2>9, <3>1
    <2>11. Moves(rec[p], rec'[p], -Sum(b, NumAccounts), -Sum(f, NumAccounts))
        <3>1. -Sum(f, NumAccounts) = d /\ -Sum(b, NumAccounts) = -d
            BY SMTT(20), <2>2, <2>3
        <3> QED
            BY Zenon, <2>4, <2>7, <3>1
    <2>12. \A a \in Accounts \ {p} : Moves(rec[a], rec'[a], b[a], 0)
        BY <2>1, <2>2, <2>5, <2>7, MovesNothing
    <2>13. FlowsStep(p, b, f)
        BY <2>7, <2>8, <2>10, <2>11, <2>12 DEF FlowsStep
    <2>14. \A q \in Payers : rec'[q].status = rec[q].status
        BY <2>1, <2>4, <2>7, AccountFacts
    <2>15. FlowsNotDoubled'
        <3>1. \A a \in Accounts : active'[p][a] = 0 \/ frozen'[p][a] = 0
            BY <2>9 DEF CoreInv, FlowsNotDoubled
        <3>2. \A q \in Payers, a \in Accounts : q # p =>
                  /\ active'[q][a] = 0 \/ frozen'[q][a] = 0
                  /\ rec'[q].status = "active" => frozen'[q][a] = 0
            BY SMTT(20), <2>8, <2>14 DEF CoreInv, FlowsNotDoubled
        <3> QED
            BY Zenon, <2>14, <3>1, <3>2 DEF FlowsNotDoubled
    <2>16. stored \subseteq stored' /\ stored' \subseteq Accounts /\ \A a \in Accounts \ stored' : rec'[a] = rec[a]
        <3>1. p \in stored
            BY <2>1 DEF CoreInv, StoredInv
        <3> QED
            BY <2>1, <2>6, <2>7, <3>1
    <2>17. CoreInv'
        <3>1. \A a \in Receivers : rec'[a] = rec[a] \/ rec'[a] = Credited(rec[a], 0, b[a])
            BY <2>1, <2>2, <2>7, AccountFacts DEF e
        <3> QED
            BY <2>2, <2>3, <2>13, <2>15, <2>16, <3>1, FlowsStepKeeps
    <2>18. FlowsType(active') /\ FlowsType(frozen')
        <3>1. \A q \in Payers, a \in Accounts \ Receivers : active[q][a] = 0 /\ frozen[q][a] = 0
            BY DEF TypeOK
        <3>2. \A q \in Payers, a \in Accounts \ Receivers : active'[q][a] = 0 /\ frozen'[q][a] = 0
            BY SMTT(20), <2>8, <2>9, <3>1
        <3> QED
            BY <2>8, <3>2 DEF FlowsType
    <2> QED
        BY <2>7, <2>14, <2>16, <2>17, <2>18
(* One flow in either loop.                                                *)
<1>FlowLoopStep.
      ASSUME IInv, phase \in {"resume", "settle"}, visit # NoVisit, NEW r \in Receivers, NEW d \in Int,
             FlowMoved(visit.addr, r, d),
             active[visit.addr][r] + d \in Nat, frozen[visit.addr][r] - d \in Nat,
             active[visit.addr][r] + d = 0 \/ frozen[visit.addr][r] - d = 0,
             count' = count + 1,
             UNCHANGED <<now, params, autoSettle, autoResume, bank, module, acctVars, phase, todo, visit>>
      PROVE  IInv'
    <2> USE <1>FlowLoopStep
    <2>1. /\ TypeOK /\ CoreInv /\ ResumingIsFrozen /\ LoopInv /\ visit.addr \in Payers
          /\ rec[visit.addr].status = "frozen"
        BY VisitFacts DEF IInv, LoopInv
    <2>2. /\ CoreInv' /\ FlowsType(active') /\ FlowsType(frozen')
          /\ rec' \in [Accounts -> StreamRecord] /\ stored' \subseteq Accounts
          /\ \A q \in Payers : rec'[q].status = rec[q].status
        BY <2>1, <1>FlowMovedStep
    <2>3. /\ autoSettle' \subseteq QueueRecord /\ autoResume' \subseteq QueueRecord
          /\ bank' \in [Accounts -> Nat] /\ module' \in Int
          /\ phase' \in {"tx", "resume", "settle", "storage", "panic"} /\ todo' \subseteq QueueRecord
          /\ visit' \in Visits /\ count' \in Nat /\ now' \in Nat
        BY SMTT(20), <2>1 DEF TypeOK, Visits
    <2>4. TypeOK'
        BY Zenon, <2>1, <2>2, <2>3, <1>LoopType
    <2>5. ResumingIsFrozen'
        BY Zenon, <2>1, <2>2, ResumingKept
    <2>6. LoopInv'
        BY <2>1, <2>2 DEF LoopInv
    <2> QED
        BY Zenon, <2>2, <2>4, <2>5, <2>6 DEF IInv
(* AutoResume's step on one flow keeps the invariant.                      *)
<1>ResumeFlowStep.
      ASSUME IInv, NEW r \in Receivers, ResumeFlow(r)
      PROVE  IInv'
    <2> USE <1>ResumeFlowStep
    <2> DEFINE p == visit.addr
               rate == frozen[p][r]
    <2>1. /\ visit # NoVisit /\ phase \in {"resume", "settle"} /\ count' = count + 1
          /\ UNCHANGED <<now, params, autoSettle, autoResume, bank, module, acctVars, phase, todo, visit>>
        BY DEF ResumeFlow
    <2>2. FlowMoved(p, r, rate) /\ rate \in Nat /\ active[p][r] = 0
        BY Zenon, ResumeFlowMoves
    <2>3. rate \in Int /\ active[p][r] + rate \in Nat /\ frozen[p][r] - rate \in Nat /\ frozen[p][r] - rate = 0
        BY SMTT(20), <2>2
    <2> HIDE DEF rate, p
    <2> QED
        BY Zenon, <2>1, <2>2, <2>3, <1>FlowLoopStep DEF p
(* AutoSettle's step on one flow keeps the invariant.                      *)
<1>SettleFlowStep.
      ASSUME IInv, NEW r \in Receivers, SettleFlow(r)
      PROVE  IInv'
    <2> USE <1>SettleFlowStep
    <2> DEFINE p == visit.addr
               rate == active[p][r]
    <2>1. /\ visit # NoVisit /\ phase \in {"resume", "settle"} /\ count' = count + 1
          /\ UNCHANGED <<now, params, autoSettle, autoResume, bank, module, acctVars, phase, todo, visit>>
        BY DEF SettleFlow
    <2>2. FlowMoved(p, r, -rate) /\ rate \in Nat /\ frozen[p][r] = 0
        BY Zenon, SettleFlowMoves
    <2>3. /\ -rate \in Int /\ active[p][r] + (-rate) \in Nat /\ frozen[p][r] - (-rate) \in Nat
          /\ active[p][r] + (-rate) = 0
        BY SMTT(20), <2>2
    <2> HIDE DEF rate, p
    <2> QED
        BY Zenon, <2>1, <2>2, <2>3, <1>FlowLoopStep DEF p
(* AutoResume's last step on an account, the one that thaws it, keeps the  *)
(* invariant.                                                              *)
<1>ResumeFinishStep.
      ASSUME IInv, ResumeFinish
      PROVE  IInv'
    <2> USE <1>ResumeFinishStep
    <2> DEFINE p == visit.addr
               s == [rec[p] EXCEPT !.status = "active"]
    <2>1. /\ TypeOK /\ CoreInv /\ ResumingIsFrozen /\ LoopInv /\ phase = "resume" /\ visit # NoVisit
          /\ ~HasFlows(frozen[p])
          /\ phase' = IF rec[p].frozen # 0 THEN "panic" ELSE phase
          /\ ForceUpdate(p, s, NoChange, 0, NoRates)
          /\ autoResume' = autoResume \ {<<visit.ts, p>>} /\ visit' = NoVisit
          /\ UNCHANGED <<now, params, flowVars, acctVars, todo, count>>
        BY DEF IInv, ResumeFinish
    <2>2. p \in Payers /\ p \in Accounts /\ rec[p] \in StreamRecord
        BY <2>1, VisitFacts DEF TypeOK
    <2>3. phase' = "resume"
        BY <2>1, <2>2, PayerOwes
    <2>4. <<visit.ts, p>> \in autoResume \ todo /\ todo \subseteq autoResume
        BY <2>1 DEF LoopInv
    <2>5. s \in StreamRecord /\ s.netflow = rec[p].netflow /\ s.frozen = rec[p].frozen /\ s.status = "active"
        BY <2>2, SetStatus DEF StreamRecord
    <2>6. NoChange \in ChangeRecord /\ NoChange.rate = 0
        BY SMTT(20), ChangeType, ZeroInt DEF NoChange
    <2> HIDE DEF s, p
    <2>7. /\ QuietStep /\ \A q \in Payers : q # p => rec'[q] = rec[q]
          /\ autoSettle' \subseteq QueueRecord
          /\ module' \in Int /\ stored' \subseteq Accounts /\ bank' \in [Accounts -> Nat]
        BY <2>1, <2>2, <2>5, <2>6, ForceQuiet
    <2>8. CoreInv' /\ rec' \in [Accounts -> StreamRecord]
        BY <2>1, <2>7, QuietStepKeeps DEF QuietStep
    <2>9. FlowsType(active') /\ FlowsType(frozen')
        BY Zenon, <2>1, FlowsTypeNow DEF flowVars
    <2>10. TypeOK'
        <3>1. /\ autoResume' \subseteq QueueRecord /\ phase' \in {"tx", "resume", "settle", "storage", "panic"}
              /\ todo' \subseteq QueueRecord /\ visit' \in Visits /\ count' \in Nat /\ now' \in Nat
            BY <2>1, <2>3 DEF TypeOK, Visits
        <3> QED
            BY <2>1, <2>7, <2>8, <2>9, <3>1, <1>LoopType
    <2>11. ResumingIsFrozen'
        <3>1. \A q \in autoResume' : q \in autoResume /\ q # <<visit.ts, p>>
            BY <2>1
        <3>2. \A q \in autoResume : q[2] = p => q = <<visit.ts, p>>
            BY <2>1, <2>4 DEF ResumingIsFrozen
        <3>3. \A q \in autoResume' : q[2] # p /\ q[2] \in Payers
            BY Zenon, <2>1, <3>1, <3>2 DEF TypeOK, QueueRecord
        <3> QED
            BY <2>1, <2>7, <3>1, <3>3 DEF ResumingIsFrozen
    <2>12. LoopInv'
        <3>1. todo' \subseteq autoResume'
            BY <2>1, <2>4
        <3> QED
            BY <2>1, <2>3, <3>1 DEF LoopInv
    <2> QED
        BY <2>8, <2>10, <2>11, <2>12 DEF IInv
(* AutoSettle's last step on an account keeps the invariant.               *)
<1>SettleFinishStep.
      ASSUME IInv, SettleFinish
      PROVE  IInv'
    <2> USE <1>SettleFinishStep
    <2>1. /\ TypeOK /\ CoreInv /\ LoopInv /\ phase = "settle" /\ visit # NoVisit
          /\ ~HasFlows(active[visit.addr])
          /\ phase' = IF rec[visit.addr].netflow # 0 THEN "panic" ELSE phase
          /\ autoSettle' = autoSettle \ {<<visit.ts, visit.addr>>} /\ visit' = NoVisit
          /\ UNCHANGED <<now, params, stored, rec, flowVars, autoResume, bank, module, acctVars, todo, count>>
        BY DEF IInv, SettleFinish
    <2>2. phase' = "settle"
        BY <2>1, VisitFacts, PayerOwes
    <2>3. now' \in Nat /\ todo' \subseteq QueueRecord /\ count' \in Nat /\ visit' \in Visits
        BY <2>1 DEF TypeOK, Visits
    <2>4. LoopInv'
        BY <2>1, <2>2 DEF LoopInv
    <2>5. autoSettle' \subseteq autoSettle
        BY <2>1
    <2> QED
        BY <2>1, <2>2, <2>3, <2>4, <2>5, <1>LoopOnly
(* AutoSettle on an active account, freezing it if it cannot pay, keeps    *)
(* the invariant.                                                          *)
<1>SettleActiveStep.
      ASSUME IInv, NEW q \in todo, SettleActive(q)
      PROVE  IInv'
    <2> USE <1>SettleActiveStep
    <2> DEFINE p == q[2]
               due == Overdue(Balanced(rec[p], NoChange, bank[p]))
    <2>1. /\ TypeOK /\ CoreInv /\ ResumingIsFrozen /\ LoopInv /\ phase = "settle" /\ visit = NoVisit
          /\ rec[p].status = "active" /\ ForceUpdate(p, rec[p], NoChange, 0, NoRates)
          /\ count' = count + 1 /\ todo' = todo \ {q}
          /\ visit' = IF due /\ count + 1 < params.maxAutoSettle THEN SettleVisitOf(q) ELSE NoVisit
          /\ UNCHANGED <<now, params, flowVars, autoResume, acctVars, phase>>
        BY DEF IInv, SettleActive
    <2>2. q \in QueueRecord /\ p \in Payers /\ p \in Accounts /\ rec[p] \in StreamRecord
        BY Zenon, <2>1, <1>QueueFacts DEF TypeOK, QueueRecord
    <2>3. NoChange \in ChangeRecord /\ NoChange.rate = 0
        BY SMTT(20), ChangeType, ZeroInt DEF NoChange
    <2>4. SettleVisitOf(q) \in Visits /\ (SettleVisitOf(q) # NoVisit => SettleVisitOf(q).addr = p)
        <3>1. (HasFlows(frozen[q[2]]) \/ LaterPayersFlows(q[2])) \in BOOLEAN
            BY Zenon
        <3> QED
            BY Zenon, <2>2, <3>1, <1>QueueFacts DEF SettleVisitOf, Visits
    <2> HIDE DEF p
    <2>5. /\ QuietStep /\ \A x \in Payers : x # p => rec'[x] = rec[x]
          /\ rec'[p].status = IF due THEN "frozen" ELSE "active"
          /\ autoSettle' \subseteq QueueRecord
          /\ module' \in Int /\ stored' \subseteq Accounts /\ bank' \in [Accounts -> Nat]
        BY Zenon, <2>1, <2>2, <2>3, ForceQuiet
    <2> HIDE DEF due
    <2>6. CoreInv' /\ rec' \in [Accounts -> StreamRecord]
        BY <2>1, <2>5, QuietStepKeeps DEF QuietStep
    <2>7. FlowsType(active') /\ FlowsType(frozen')
        BY Zenon, <2>1, FlowsTypeNow DEF flowVars
    <2>8. TypeOK'
        <3>1. /\ autoResume' \subseteq QueueRecord /\ phase' \in {"tx", "resume", "settle", "storage", "panic"}
              /\ todo' \subseteq QueueRecord /\ count' \in Nat /\ now' \in Nat
            BY SMTT(20), <2>1 DEF TypeOK
        <3>2. visit' \in Visits
            BY <2>1, <2>4 DEF Visits
        <3> QED
            BY <2>1, <2>5, <2>6, <2>7, <3>1, <3>2, <1>LoopType
    <2>9. ResumingIsFrozen'
        <3>1. \A x \in Payers : rec[x].status = "frozen" => rec'[x].status = "frozen" \/ ~Resuming(x)
            BY <2>1, <2>5
        <3> QED
            BY <2>1, <3>1, ResumingKept
    <2>10. LoopInv'
        <3>1. phase' = "settle"
            BY <2>1
        <3>2. visit' # NoVisit => rec'[visit'.addr].status = "frozen"
            BY <2>1, <2>4, <2>5
        <3> QED
            BY <3>1, <3>2 DEF LoopInv
    <2> QED
        BY Zenon, <2>6, <2>8, <2>9, <2>10 DEF IInv
(* Stuttering keeps the invariant.                                         *)
<1>StutterKeeps.
      ASSUME IInv, UNCHANGED vars
      PROVE  IInv'
    <2> USE <1>StutterKeeps
    <2>1. UNCHANGED <<now, params, stored, rec, flowVars, autoSettle, autoResume, bank, module, acctVars, loopVars>>
        BY DEF vars, flowVars, acctVars, loopVars
    <2>2. now' \in Nat /\ phase' \in {"tx", "resume", "settle", "storage"}
          /\ todo' \subseteq QueueRecord /\ visit' \in Visits /\ count' \in Nat
        BY <2>1 DEF IInv, TypeOK, LoopInv, loopVars, Visits
    <2>3. LoopInv'
        BY <2>1 DEF IInv, LoopInv, loopVars
    <2> QED
        BY <2>1, <2>2, <2>3, <1>LoopOnly
<1> SUFFICES ASSUME IInv, EndBlock \/ (\E gap \in BlockGaps : NextBlock(gap)) \/ UNCHANGED vars
                 PROVE  IInv'
        OBVIOUS
<1>1. CASE StartEndBlock \/ ResumeStop \/ ResumeEnd \/ SettleStop \/ SettleEnd
    BY <1>1, <1>LoopStepsOnly
<1>2. CASE \E q \in todo : ResumeVisit(q) \/ SettleFrozen(q)
    BY <1>2, <1>LoopStepsOnly
<1>3. CASE \E r \in Receivers : ResumeFlow(r) \/ SettleFlow(r)
    BY <1>3, <1>ResumeFlowStep, <1>SettleFlowStep
<1>4. CASE ResumeFinish \/ SettleFinish
    BY <1>4, <1>ResumeFinishStep, <1>SettleFinishStep
<1>5. CASE \E q \in todo : SettleActive(q)
    BY <1>5, <1>SettleActiveStep
<1>6. CASE \E gap \in BlockGaps : NextBlock(gap)
    BY <1>6, <1>LoopStepsOnly
<1>7. CASE UNCHANGED vars
    BY <1>7, <1>StutterKeeps
<1> QED
    BY <1>1, <1>2, <1>3, <1>4, <1>5, <1>6, <1>7 DEF EndBlock, AutoResume, AutoSettle

-----------------------------------------------------------------------------
(***************************************************************************)
(* V. The invariant holds at first and every step keeps it.                *)
(***************************************************************************)

(* The genesis state satisfies the invariant.                              *)
LEMMA InitInvariant == Init => IInv
<1> SUFFICES ASSUME Init
             PROVE  IInv
    OBVIOUS
<1>1. /\ \A a \in Accounts : rec[a] = NewStreamRecord(InitTime) /\ rec[a] \in StreamRecord
      /\ rec \in [Accounts -> StreamRecord] /\ now \in Nat
    <2>1. NewStreamRecord(InitTime) \in StreamRecord
        BY SMTT(20), ParamsAssumption DEF NewStreamRecord, StreamRecord
    <2> QED
        BY <2>1, ParamsAssumption DEF Init
<1>2. /\ \A p \in Payers : active[p] = NoRates /\ frozen[p] = NoRates
      /\ NoRates \in [Accounts -> Nat] /\ \A a \in Accounts : NoRates[a] = 0
    BY DEF Init, NoRates
<1>3. \A a \in Accounts : /\ rec[a].netflow = 0 /\ rec[a].frozen = 0 /\ rec[a].static = 0
                          /\ rec[a].lock = 0 /\ rec[a].buffer = 0 /\ rec[a].settle = 0
                          /\ rec[a].status = "active"
    BY SMTT(20), <1>1 DEF NewStreamRecord
<1>4. TypeOK
    <2>1. active \in [Payers -> [Accounts -> Nat]] /\ frozen \in [Payers -> [Accounts -> Nat]]
        BY <1>2 DEF Init
    <2>2. NoDelay \in [amount : Nat, unlock : Nat]
        BY DEF NoDelay
    <2> QED
        BY SMTT(20), <1>1, <1>2, <2>1, <2>2, ParamsAssumption, AccountsAssumption DEF Init, TypeOK
<1>5. RatesMatchFlows
    BY <1>2, <1>3, NoRatesSum, AccountFacts DEF RatesMatchFlows
<1>6. Reconciled
    <2>1. [a \in Accounts |-> rec[a].netflow] = NoRates
        BY <1>3 DEF NoRates
    <2> QED
        BY <2>1, NoRatesSum DEF Reconciled
<1>7. IncomeMatchesFlows
    <2> SUFFICES ASSUME NEW r \in Receivers
                 PROVE  rec[r].netflow =
                            Sum([a \in Accounts |-> IF a \in Payers THEN active[a][r] ELSE 0], NumAccounts)
        BY DEF IncomeMatchesFlows
    <2>1. [a \in Accounts |-> IF a \in Payers THEN active[a][r] ELSE 0] = NoRates
        BY <1>2, AccountFacts DEF NoRates
    <2> QED
        BY <1>3, <2>1, NoRatesSum, AccountFacts
<1>8. RatesInv
    BY <1>3, <1>5, <1>6, <1>7, AccountFacts DEF RatesInv
<1>9. RecordsInv /\ StoredInv
    BY SMTT(20), <1>3 DEF RecordsInv, StoredInv
<1>10. ReceiversNeverOwe /\ FlowsNotDoubled
    BY SMTT(20), <1>2, <1>3, AccountFacts DEF ReceiversNeverOwe, FlowsNotDoubled
<1>11. LoopInv /\ ResumingIsFrozen
    BY DEF Init, LoopInv, ResumingIsFrozen
<1> QED
    BY <1>4, <1>8, <1>9, <1>10, <1>11 DEF IInv, CoreInv

(* The invariant is inductive.                                             *)
LEMMA NextKeeps == IInv /\ [Next]_vars => IInv'
BY MessagesKeep, KeeperCallsKeep, StorageEndBlockKeeps, LoopsKeep DEF Next

(* Every reachable state satisfies the inductive invariant.                *)
THEOREM Invariant == Spec => []IInv
BY InitInvariant, NextKeeps, PTL DEF Spec

(* The stores hold what their types allow whatever messages, keeper calls  *)
(* and EndBlock steps came before: in particular no bank balance is drawn  *)
(* below zero and every flow goes from a payer to a receiver.              *)
THEOREM TypeCorrect == Spec => []TypeOK
<1>1. IInv => TypeOK
    BY DEF IInv
<1> QED
    BY <1>1, Invariant, PTL

(* The rates kept in a payer's stream record and its out flows agree, also *)
(* in the middle of a freeze or a resume that takes several blocks.        *)
THEOREM RatesAgree == Spec => []RatesMatchFlows
<1>1. IInv => RatesMatchFlows
    BY DEF IInv, CoreInv, RatesInv
<1> QED
    BY <1>1, Invariant, PTL

(* The reconciliation of the net flow rates in app/reconciliation.go never *)
(* halts the chain.                                                        *)
THEOREM NetflowsCancel == Spec => []Reconciled
<1>1. IInv => Reconciled
    BY DEF IInv, CoreInv, RatesInv
<1> QED
    BY <1>1, Invariant, PTL

(* Every receiver's income is the total of the active flows to it.         *)
THEOREM IncomeAgrees == Spec => []IncomeMatchesFlows
<1>1. IInv => IncomeMatchesFlows
    BY DEF IInv, CoreInv, RatesInv
<1> QED
    BY <1>1, Invariant, PTL

(* AutoSettle and AutoResume never reach their "should not happen" panics. *)
THEOREM EndBlockNeverPanics == Spec => []NoPanic
<1>1. IInv => NoPanic
    BY DEF IInv, LoopInv, NoPanic
<1> QED
    BY <1>1, Invariant, PTL

(* SetOutFlow never overwrites a flow that AutoSettle, AutoResume or       *)
(* TryResumeStreamRecord moves.                                            *)
THEOREM NoFlowOverwritten == Spec => []FlowsNotDoubled
<1>1. IInv => FlowsNotDoubled
    BY DEF IInv, CoreInv
<1> QED
    BY <1>1, Invariant, PTL

(* Families, groups and the tax pool never come to owe anything, which is  *)
(* why their updates need no balance check and no settlement.              *)
THEOREM ReceiversSolvent == Spec => []ReceiversNeverOwe
<1>1. IInv => ReceiversNeverOwe
    BY DEF IInv, CoreInv
<1> QED
    BY <1>1, Invariant, PTL

(* An auto-resume record always belongs to a frozen payer, and to one that *)
(* has no other: AutoResume never finds an active record.                  *)
THEOREM ResumingFrozen == Spec => []ResumingIsFrozen
<1>1. IInv => ResumingIsFrozen
    BY DEF IInv
<1> QED
    BY <1>1, Invariant, PTL

-----------------------------------------------------------------------------
(***************************************************************************)
(* VI. Whose money leaves the module, and when.                            *)
(***************************************************************************)

(* A step that pays no user.                                               *)
PaysNobody == UNCHANGED delayed /\ \A u \in Users : bank'[u] <= bank[u]

(* Every step but the two withdrawals pays no user: a deposit, and the     *)
(* top-up of a record by its own bank account, only take coins away.       *)
LEMMA OnlyWithdrawalsPay ==
    ASSUME TypeOK, [Next]_vars
    PROVE  \/ PaysNobody
           \/ \E creator \in Users, from \in Payers, amount \in Withdrawals : Withdraw(creator, from, amount)
           \/ \E creator \in Users : WithdrawDelayed(creator)
<1>1. /\ bank \in [Accounts -> Nat] /\ rec \in [Accounts -> StreamRecord] /\ Users \subseteq Payers
      /\ params \in ParamSets /\ now \in Nat /\ Payers \subseteq Accounts /\ Gov \in Accounts /\ Gov \notin Payers
    BY AccountFacts DEF TypeOK, Users
<1>2. ASSUME bank' = bank, UNCHANGED delayed PROVE PaysNobody
    BY SMTT(20), <1>1, <1>2 DEF PaysNobody
<1>3. ASSUME NEW p \in Payers, NEW s \in StreamRecord, NEW c \in ChangeRecord,
             bank'[p] = bank[p] - PullAmount(Settled(s, c), bank[p]),
             \A u \in Users : u # p => bank'[u] = bank[u], UNCHANGED delayed
      PROVE  PaysNobody
    <2>1. PullAmount(Settled(s, c), bank[p]) \in Nat /\ bank[p] \in Nat
        BY <1>1, SettledRecord, PullAmountNat
    <2>2. bank'[p] <= bank[p]
        BY SMTT(20), <1>3, <2>1
    <2> QED
        BY SMTT(20), <1>1, <1>3, <2>2 DEF PaysNobody
<1>4. ASSUME NEW p \in Payers, NEW c \in ChangeRecord, UNCHANGED delayed,
             bank' = [bank EXCEPT ![p] = @ - PullAmount(Settled(rec[p], c), bank[p])]
      PROVE  PaysNobody
    BY <1>1, <1>3, <1>4
<1>5. ASSUME NEW p \in Payers, NEW s \in StreamRecord, NEW c \in ChangeRecord, NEW x, UNCHANGED delayed,
             bank' = [bank EXCEPT ![p] = @ - PullAmount(Settled(s, c), bank[p]), ![Gov] = @ - x]
      PROVE  PaysNobody
    <2>1. p # Gov /\ \A u \in Users : u # Gov
        BY <1>1
    <2> QED
        BY <1>1, <1>3, <1>5, <2>1
<1>6. ASSUME NEW p \in Payers, NEW s \in StreamRecord, NEW c \in ChangeRecord, NEW delta, NEW rates,
             UNCHANGED delayed, ForceUpdate(p, s, c, delta, rates)
      PROVE  PaysNobody
    BY <1>5, <1>6 DEF ForceUpdate
<1>7. CASE Messages
    <2>1. ASSUME NEW creator \in Users, NEW to \in Accounts, NEW amount \in Deposits, Deposit(creator, to, amount)
          PROVE  PaysNobody
        <3> DEFINE swept == IF IsPaymentAccount(to) THEN bank[to] ELSE 0
                   after == [a \in Accounts |-> bank[a] - (IF a = creator THEN amount ELSE 0)
                                                        - (IF a = to THEN swept ELSE 0)]
        <3>1. amount \in Nat /\ swept \in Nat /\ UNCHANGED delayed /\ DepositTo(to, amount + swept, after)
            BY <1>1, <2>1, FeesType DEF Deposit, acctVars
        <3>2. after \in [Accounts -> Nat]
            <4>1. bank[creator] >= amount /\ (to = creator => swept = 0) /\ swept <= bank[to]
                BY SMTT(20), <1>1, <2>1 DEF Deposit, Users, IsPaymentAccount
            <4> HIDE DEF swept
            <4> QED
                BY SMTT(20), <1>1, <3>1, <4>1
        <3>3. \A u \in Users : after[u] <= bank[u]
            <4> HIDE DEF swept
            <4> QED
                BY SMTT(20), <1>1, <3>1
        <3> HIDE DEF swept, after
        <3>4. CASE bank' = after
            BY <3>1, <3>3, <3>4 DEF PaysNobody
        <3>5. ASSUME to \in stored,
                     bank' = [after EXCEPT ![to] = @ - PullAmount(Settled(rec[to], Change(amount + swept, 0, 0)), after[to])]
              PROVE  PaysNobody
            <4>1. Change(amount + swept, 0, 0) \in ChangeRecord
                BY SMTT(20), <3>1, ChangeType
            <4> DEFINE pull == PullAmount(Settled(rec[to], Change(amount + swept, 0, 0)), after[to])
            <4>2. pull \in Nat
                BY <1>1, <3>2, <4>1, SettledRecord, PullAmountNat
            <4> HIDE DEF pull
            <4>3. \A u \in Users : bank'[u] \in Int /\ bank'[u] <= after[u]
                BY SMTT(20), <1>1, <3>2, <3>5, <4>2 DEF pull
            <4> QED
                BY SMTT(20), <1>1, <3>1, <3>2, <3>3, <4>3 DEF PaysNobody
        <3> QED
            BY <3>1, <3>4, <3>5 DEF DepositTo
    <2>2. ASSUME NEW creator, NEW a, NEW ps, CreatePaymentAccount(creator, a) \/ DisableRefund(a) \/ UpdateParams(ps)
          PROVE  PaysNobody
        BY <1>2, <2>2 DEF CreatePaymentAccount, DisableRefund, UpdateParams, acctVars
    <2> QED
        BY <1>7, <2>1, <2>2 DEF Messages
<1>8. CASE KeeperCalls
    <2>1. ASSUME NEW r, KeeperWithdraw(r) PROVE PaysNobody
        BY <1>2, <2>1 DEF KeeperWithdraw, acctVars
    <2>2. ASSUME NEW p \in Payers, NEW b \in Bills, ApplyUserFlows(p, b) PROVE PaysNobody
        <3>1. Change(0, -BillTotal(b), 0) \in ChangeRecord
            BY SMTT(20), BillsAreRates, ChangeType DEF BillTotal
        <3> QED
            BY <1>4, <2>2, <3>1 DEF ApplyUserFlows, acctVars
    <2>3. ASSUME NEW p \in Payers, NEW r, NEW amount \in Fees,
                 LockFee(p, amount) \/ UnlockFee(p, amount) \/ EarlyDeletionFee(p, r, amount)
          PROVE  PaysNobody
        <3>1. /\ Change(0, 0, amount) \in ChangeRecord /\ Change(0, 0, -amount) \in ChangeRecord
              /\ Change(-amount, 0, 0) \in ChangeRecord
            <4>1. amount \in Int /\ -amount \in Int
                BY FeesType
            <4> QED
                BY SMTT(20), <4>1, ChangeType
        <3> QED
            BY <1>4, <2>3, <3>1 DEF LockFee, UnlockFee, EarlyDeletionFee, TxUpdate, acctVars
    <2> QED
        BY <1>8, <2>1, <2>2, <2>3 DEF KeeperCalls
<1>9. CASE StorageEndBlock
    <2>1. ASSUME NEW p \in Payers, NEW b \in Bills, ForcedActiveUserFlows(p, b) \/ ForcedFrozenUserFlows(p, b)
          PROVE  PaysNobody
        <3>1. Change(0, -BillTotal(b), 0) \in ChangeRecord /\ rec[p] \in StreamRecord
            BY SMTT(20), <1>1, BillsAreRates, ChangeType DEF BillTotal
        <3> QED
            BY <1>2, <1>6, <2>1, <3>1 DEF ForcedActiveUserFlows, ForcedFrozenUserFlows, acctVars
    <2>2. ASSUME NEW p \in Payers, NEW r, NEW amount \in Fees,
                 ForcedUnlockFee(p, amount) \/ ForcedEarlyDeletionFee(p, r, amount)
          PROVE  PaysNobody
        <3>1. /\ Change(0, 0, -amount) \in ChangeRecord /\ Change(-amount, 0, 0) \in ChangeRecord
              /\ rec[p] \in StreamRecord
            <4>1. -amount \in Int
                BY FeesType
            <4> QED
                BY SMTT(20), <1>1, <4>1, ChangeType
        <3>2. CASE ForcedUnlockFee(p, amount)
            BY <1>2, <1>6, <3>1, <3>2 DEF ForcedUnlockFee, acctVars
        <3>3. CASE ForcedEarlyDeletionFee(p, r, amount)
            BY SMTT(20), <1>2, <1>5, <3>1, <3>3 DEF ForcedEarlyDeletionFee, acctVars
        <3> QED
            BY <2>2, <3>2, <3>3
    <2> QED
        BY <1>9, <2>1, <2>2 DEF StorageEndBlock
<1>10. CASE EndBlock
    <2>1. ASSUME NEW p \in Payers, NEW s \in StreamRecord, UNCHANGED delayed,
                 ForceUpdate(p, s, NoChange, 0, NoRates)
          PROVE  PaysNobody
        <3>1. NoChange \in ChangeRecord
            BY SMTT(20) DEF NoChange, Change, ChangeRecord
        <3> QED
            BY <1>6, <2>1, <3>1
    <2>2. CASE ResumeFinish
        <3>1. visit.addr \in Payers
            BY <2>2 DEF ResumeFinish, TypeOK
        <3>2. [rec[visit.addr] EXCEPT !.status = "active"] \in StreamRecord
            BY <1>1, <3>1 DEF StreamRecord
        <3> QED
            BY <2>1, <2>2, <3>1, <3>2 DEF ResumeFinish, acctVars
    <2>3. ASSUME NEW q \in todo, SettleActive(q) PROVE PaysNobody
        <3>1. q[2] \in Payers
            BY <2>3 DEF TypeOK, QueueRecord
        <3> QED
            BY <1>1, <2>1, <2>3, <3>1 DEF SettleActive, acctVars
    <2>4. ASSUME NEW q, NEW r,
                 \/ StartEndBlock \/ ResumeVisit(q) \/ ResumeFlow(r) \/ ResumeStop \/ ResumeEnd
                 \/ SettleFrozen(q) \/ SettleFlow(r) \/ SettleFinish \/ SettleStop \/ SettleEnd
          PROVE  PaysNobody
        BY <1>2, <2>4 DEF StartEndBlock, ResumeVisit, ResumeFlow, ResumeStop, ResumeEnd, SettleFrozen, SettleFlow,
           SettleFinish, SettleStop, SettleEnd, acctVars
    <2> QED
        BY <1>10, <2>2, <2>3, <2>4 DEF EndBlock, AutoResume, AutoSettle
<1>11. ASSUME NEW gap, NextBlock(gap) PROVE PaysNobody
    BY <1>2, <1>11 DEF NextBlock, acctVars
<1>12. CASE UNCHANGED vars
    BY <1>2, <1>12 DEF vars
<1> QED
    BY <1>7, <1>8, <1>9, <1>10, <1>11, <1>12 DEF Next

(* A delayed withdrawal is neither replaced nor lost, whatever else its    *)
(* user and the chain do before it is claimed.                             *)
THEOREM DelayedHonoured == Spec => DelayedIsHonoured
<1> DEFINE Step == \A u \in Users : delayed[u] # NoDelay /\ delayed'[u] # delayed[u] =>
                      /\ now > delayed[u].unlock
                      /\ delayed'[u] = NoDelay
                      /\ bank'[u] = bank[u] + delayed[u].amount
<1>1. ASSUME TypeOK, [Next]_vars PROVE Step
    <2> SUFFICES ASSUME NEW u \in Users, delayed[u] # NoDelay, delayed'[u] # delayed[u]
                 PROVE  /\ now > delayed[u].unlock /\ delayed'[u] = NoDelay
                        /\ bank'[u] = bank[u] + delayed[u].amount
        OBVIOUS
    <2>1. DOMAIN delayed = Users /\ DOMAIN bank = Accounts /\ u \in Accounts
        BY <1>1, AccountFacts DEF TypeOK, Users
    <2>2. ASSUME NEW creator \in Users, NEW from, NEW amount, Withdraw(creator, from, amount) PROVE FALSE
        BY <2>1, <2>2 DEF Withdraw, NoDelayedWithdrawal
    <2>3. ASSUME NEW creator \in Users, WithdrawDelayed(creator)
          PROVE  /\ now > delayed[u].unlock /\ delayed'[u] = NoDelay
                 /\ bank'[u] = bank[u] + delayed[u].amount
        BY <2>1, <2>3 DEF WithdrawDelayed
    <2> QED
        BY <1>1, <2>2, <2>3, OnlyWithdrawalsPay DEF PaysNobody
<1> QED
    BY <1>1, TypeCorrect, PTL DEF Spec, DelayedIsHonoured

(* The flag that DisableRefund sets is never cleared, and no step that     *)
(* touches the account's record pays its owner or grants them a delayed    *)
(* withdrawal.                                                             *)
THEOREM RefundsStayDisabled == Spec => NoRefundAfterDisable
<1> DEFINE Step == \A a \in PaymentAccounts : account[a] = "nonRefundable" =>
                      /\ account'[a] = "nonRefundable"
                      /\ rec'[a] # rec[a] => /\ bank'[Owner[a]] <= bank[Owner[a]]
                                             /\ delayed'[Owner[a]] = delayed[Owner[a]]
<1>1. ASSUME TypeOK, [Next]_vars PROVE Step
    <2> SUFFICES ASSUME NEW a \in PaymentAccounts, account[a] = "nonRefundable"
                 PROVE  /\ account'[a] = "nonRefundable"
                        /\ rec'[a] # rec[a] => /\ bank'[Owner[a]] <= bank[Owner[a]]
                                               /\ delayed'[Owner[a]] = delayed[Owner[a]]
        OBVIOUS
    <2>1. Owner[a] \in Users /\ a \in Accounts /\ DOMAIN account = PaymentAccounts /\ DOMAIN rec = Accounts
        BY <1>1, AccountFacts, AccountsAssumption DEF TypeOK
    <2>2. account'[a] = "nonRefundable"
        <3>1. ASSUME NEW creator, NEW x, CreatePaymentAccount(creator, x) \/ DisableRefund(x)
              PROVE  account'[a] = "nonRefundable"
            BY <2>1, <3>1 DEF CreatePaymentAccount, DisableRefund
        <3>2. \/ UNCHANGED account
              \/ \E creator, x : CreatePaymentAccount(creator, x) \/ DisableRefund(x)
            <4>1. CASE Messages
                <5>1. ASSUME NEW c, NEW x, NEW amount, NEW ps,
                             Deposit(c, x, amount) \/ Withdraw(c, x, amount) \/ WithdrawDelayed(c) \/ UpdateParams(ps)
                      PROVE  UNCHANGED account
                    BY <5>1 DEF Deposit, Withdraw, WithdrawDelayed, UpdateParams, acctVars
                <5> QED
                    BY <4>1, <5>1 DEF Messages
            <4>2. CASE KeeperCalls
                BY <4>2 DEF KeeperCalls, KeeperWithdraw, ApplyUserFlows, LockFee, UnlockFee, EarlyDeletionFee, acctVars
            <4>3. CASE StorageEndBlock
                BY <4>3 DEF StorageEndBlock, ForcedActiveUserFlows, ForcedFrozenUserFlows, ForcedUnlockFee,
                   ForcedEarlyDeletionFee, acctVars
            <4>4. CASE EndBlock
                BY <4>4 DEF EndBlock, AutoResume, AutoSettle, StartEndBlock, ResumeVisit, ResumeFlow, ResumeFinish,
                   ResumeStop, ResumeEnd, SettleActive, SettleFrozen, SettleFlow, SettleFinish, SettleStop,
                   SettleEnd, acctVars
            <4> QED
                BY <1>1, <4>1, <4>2, <4>3, <4>4 DEF Next, NextBlock, vars, acctVars
        <3> QED
            BY <3>1, <3>2
    <2>3. ASSUME NEW creator \in Users, NEW from, NEW amount, Withdraw(creator, from, amount)
          PROVE  rec'[a] = rec[a]
        <3>1. from # a
            BY <2>3 DEF Withdraw, MayWithdraw, Users
        <3> QED
            BY <2>1, <2>3, <3>1 DEF Withdraw
    <2>4. ASSUME NEW creator, WithdrawDelayed(creator) PROVE rec'[a] = rec[a]
        BY <2>4 DEF WithdrawDelayed
    <2> QED
        BY <1>1, <2>1, <2>2, <2>3, <2>4, OnlyWithdrawalsPay DEF PaysNobody
<1> QED
    BY <1>1, TypeCorrect, PTL DEF Spec, NoRefundAfterDisable
=============================================================================
