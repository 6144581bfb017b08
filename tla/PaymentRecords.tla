--------------------------- MODULE PaymentRecords ---------------------------
(***************************************************************************)
(* What the proofs about PaymentStream share: totals over accounts, the    *)
(* operators that compute a stream record, for every number of accounts,   *)
(* every choice of payers, receivers, parameters, fees and bills, and the  *)
(* inductive invariant IInv that PaymentSafety proves.                     *)
(*                                                                         *)
(* Induction is used in the form of a set of naturals that holds 0 and is  *)
(* closed under successor.  That principle is itself proved here, from the *)
(* theorem that the naturals are well ordered: a least natural outside the *)
(* set would be the successor of one inside.                               *)
(***************************************************************************)
EXTENDS PaymentStream, WellFoundedInduction

(***************************************************************************)
(* I. What Sum computes, for every function and every length.              *)
(***************************************************************************)

(* What Sum computes: it is an integer, zero for zeroes, additive, changes  *)
(* with one term by the difference, is natural and no smaller than any     *)
(* term for naturals, and scales.                                          *)
LEMMA SumLaws ==
    \A n \in Nat :
        /\ \A f \in [1..n -> Int] : Sum(f, n) \in Int /\ ((\A i \in 1..n : f[i] = 0) => Sum(f, n) = 0)
        /\ \A f, g, h \in [1..n -> Int] :
               (\A i \in 1..n : h[i] = f[i] + g[i]) => Sum(h, n) = Sum(f, n) + Sum(g, n)
        /\ \A f, g \in [1..n -> Int], r \in 1..n :
               (\A i \in 1..n : i # r => g[i] = f[i]) => Sum(g, n) = Sum(f, n) + (g[r] - f[r])
        /\ \A f \in [1..n -> Nat] : Sum(f, n) \in Nat /\ \A r \in 1..n : f[r] <= Sum(f, n)
        /\ \A f, g \in [1..n -> Int], k \in Int :
               (\A i \in 1..n : g[i] = f[i] * k) => Sum(g, n) = Sum(f, n) * k
(* s lists the partial sums of f up to m; s solves the recursion that      *)
(* defines them; the lengths, up to n, for which a list exists.            *)
<1> DEFINE IsPartialSum(s, f, m) ==
               /\ s \in [0..m -> Int]
               /\ s[0] = 0
               /\ \A i \in 1..m : s[i] = s[i - 1] + f[i]
           Solves(s, f, n) == s = [i \in 0..n |-> IF i = 0 THEN 0 ELSE s[i - 1] + f[i]]
           Summable(f, n) == {m \in Nat : m <= n => \E s : IsPartialSum(s, f, m)}
<1> HIDE DEF IsPartialSum, Solves, Summable
(* A set that holds 0 and the successor of each of its members holds every *)
(* natural number.                                                         *)
<1>NatSetInduction.
      ASSUME NEW S, 0 \in S, \A n \in Nat : n \in S => n + 1 \in S
      PROVE  \A n \in Nat : n \in S
    <2> USE <1>NatSetInduction
    <2> DEFINE T == {k \in Nat : k \notin S}
    <2>1. SUFFICES ASSUME T # {}
                   PROVE  FALSE
        OBVIOUS
    <2>2. PICK k \in T : \A j \in T : <<j, k>> \notin OpToRel(<, Nat)
        <3>1. T \subseteq Nat /\ IsWellFoundedOn(OpToRel(<, Nat), Nat)
            BY NatLessThanWellFounded
        <3> HIDE DEF T
        <3> QED
            BY <2>1, <3>1, WFMin
    <2>3. k \in Nat /\ k # 0 /\ k - 1 \in Nat /\ (k - 1) + 1 = k
        OBVIOUS
    <2>4. k - 1 \in T
        BY <2>3
    <2>5. <<k - 1, k>> \in OpToRel(<, Nat)
        BY <2>3 DEF OpToRel
    <2> QED
        BY <2>2, <2>4, <2>5
(* The recursion that defines the partial sums has a solution.             *)
<1>PartialSumExists.
      ASSUME NEW n \in Nat, NEW f \in [1..n -> Int]
      PROVE  \E s : IsPartialSum(s, f, n)
    <2> USE <1>PartialSumExists
    <2>1. 0 \in Summable(f, n)
        <3>1. IsPartialSum([i \in 0..0 |-> 0], f, 0)
            BY DEF IsPartialSum
        <3> QED
            BY <3>1 DEF Summable
    <2>2. ASSUME NEW m \in Nat, m \in Summable(f, n)
          PROVE  m + 1 \in Summable(f, n)
        <3>1. CASE ~(m + 1 <= n)
            BY <3>1 DEF Summable
        <3>2. CASE m + 1 <= n
            <4>1. PICK s : IsPartialSum(s, f, m)
                BY <2>2, <3>2 DEF Summable
            <4> DEFINE t == [i \in 0..(m + 1) |-> IF i = m + 1 THEN s[m] + f[m + 1] ELSE s[i]]
            <4>2. m + 1 \in 1..n /\ f[m + 1] \in Int
                BY <3>2
            <4>3. s \in [0..m -> Int]
                BY <4>1 DEF IsPartialSum
            <4>4. t \in [0..(m + 1) -> Int]
                BY <4>2, <4>3
            <4>5. t[0] = 0
                BY <4>1 DEF IsPartialSum
            <4>6. ASSUME NEW i \in 1..(m + 1)
                  PROVE  t[i] = t[i - 1] + f[i]
                <5>1. i - 1 \in 0..m /\ i \in 0..(m + 1)
                    OBVIOUS
                <5>2. t[i - 1] = s[i - 1]
                    BY <5>1
                <5>3. CASE i = m + 1
                    BY <5>1, <5>2, <5>3
                <5>4. CASE i \in 1..m
                    <6>1. s[i] = s[i - 1] + f[i]
                        BY <4>1, <5>4 DEF IsPartialSum
                    <6> QED
                        BY <5>1, <5>2, <5>4, <6>1
                <5> QED
                    BY <5>3, <5>4
            <4>7. IsPartialSum(t, f, m + 1)
                BY <4>4, <4>5, <4>6 DEF IsPartialSum
            <4> QED
                BY <4>7 DEF Summable
        <3> QED
            BY <3>1, <3>2
    <2>3. n \in Summable(f, n)
        BY <2>1, <2>2, <1>NatSetInduction
    <2> QED
        BY <2>3 DEF Summable
(* Partial sums are determined by the recursion.                           *)
<1>PartialSumUnique.
      ASSUME NEW n \in Nat, NEW f, NEW t, IsPartialSum(t, f, n), NEW s, Solves(s, f, n)
      PROVE  s = t
    <2> USE <1>PartialSumUnique
    <2>0. s = [i \in 0..n |-> IF i = 0 THEN 0 ELSE s[i - 1] + f[i]]
        BY DEF Solves
    <2> DEFINE S == {i \in Nat : i <= n => s[i] = t[i]}
    <2>1. 0 \in S
        BY <2>0 DEF IsPartialSum
    <2>2. ASSUME NEW i \in Nat, i \in S
          PROVE  i + 1 \in S
        <3>1. CASE i + 1 <= n
            <4>1. s[i + 1] = s[(i + 1) - 1] + f[i + 1]
                BY <2>0, <3>1
            <4>2. t[i + 1] = t[(i + 1) - 1] + f[i + 1]
                BY <3>1 DEF IsPartialSum
            <4>3. (i + 1) - 1 = i /\ i <= n
                BY <3>1
            <4>4. s[i] = t[i]
                BY <2>2, <4>3
            <4> QED
                BY <4>1, <4>2, <4>3, <4>4
        <3> QED
            BY <3>1
    <2> HIDE DEF S
    <2>3. \A i \in Nat : i \in S
        BY <2>1, <2>2, <1>NatSetInduction
    <2>4. \A i \in 0..n : s[i] = t[i]
        BY <2>3 DEF S
    <2> QED
        BY <2>0, <2>4 DEF IsPartialSum
(* Any list of partial sums ends in the sum.                               *)
<1>SumIs.
      ASSUME NEW n \in Nat, NEW f \in [1..n -> Int], NEW t, IsPartialSum(t, f, n)
      PROVE  Sum(f, n) = t[n]
    <2> USE <1>SumIs
    <2>1. Solves(t, f, n)
        BY DEF IsPartialSum, Solves
    <2>2. PartialSum(f, n) = CHOOSE s : Solves(s, f, n)
        BY DEF PartialSum, Solves
    <2>3. Solves(PartialSum(f, n), f, n)
        BY <2>1, <2>2
    <2>4. PartialSum(f, n) = t
        BY <2>3, <1>PartialSumUnique
    <2> QED
        BY <2>4 DEF Sum
(* The sum of integers is an integer.                                      *)
<1>SumType.
      ASSUME NEW n \in Nat, NEW f \in [1..n -> Int]
      PROVE  Sum(f, n) \in Int
    <2> USE <1>SumType
    <2>1. PICK t : IsPartialSum(t, f, n)
        BY <1>PartialSumExists
    <2>2. Sum(f, n) = t[n]
        BY <2>1, <1>SumIs
    <2> QED
        BY <2>1, <2>2 DEF IsPartialSum
(* The sum of zeros is zero.                                               *)
<1>SumZero.
      ASSUME NEW n \in Nat, NEW f \in [1..n -> Int], \A i \in 1..n : f[i] = 0
      PROVE  Sum(f, n) = 0
    <2> USE <1>SumZero
    <2> DEFINE t == [i \in 0..n |-> 0]
    <2>1. IsPartialSum(t, f, n)
        BY DEF IsPartialSum
    <2> QED
        BY <2>1, <1>SumIs
(* Adding functions adds their sums.                                       *)
<1>SumAdd.
      ASSUME NEW n \in Nat, NEW f \in [1..n -> Int], NEW g \in [1..n -> Int],
             NEW h \in [1..n -> Int], \A i \in 1..n : h[i] = f[i] + g[i]
      PROVE  Sum(h, n) = Sum(f, n) + Sum(g, n)
    <2> USE <1>SumAdd
    <2>1. PICK s : IsPartialSum(s, f, n)
        BY <1>PartialSumExists
    <2>2. PICK t : IsPartialSum(t, g, n)
        BY <1>PartialSumExists
    <2> DEFINE u == [i \in 0..n |-> s[i] + t[i]]
    <2>3. IsPartialSum(u, h, n)
        <3>1. u \in [0..n -> Int] /\ u[0] = 0
            BY <2>1, <2>2 DEF IsPartialSum
        <3>2. ASSUME NEW i \in 1..n
              PROVE  u[i] = u[i - 1] + h[i]
            <4>1. i \in 0..n /\ i - 1 \in 0..n
                OBVIOUS
            <4>2. s[i] = s[i - 1] + f[i] /\ t[i] = t[i - 1] + g[i]
                BY <2>1, <2>2 DEF IsPartialSum
            <4>3. s[i - 1] \in Int /\ t[i - 1] \in Int /\ f[i] \in Int /\ g[i] \in Int
                BY <2>1, <2>2, <4>1 DEF IsPartialSum
            <4> QED
                BY <4>1, <4>2, <4>3
        <3> QED
            BY <3>1, <3>2 DEF IsPartialSum
    <2>4. Sum(h, n) = u[n] /\ Sum(f, n) = s[n] /\ Sum(g, n) = t[n]
        BY <2>1, <2>2, <2>3, <1>SumIs
    <2> QED
        BY <2>4
(* A function that is zero except at one place sums to its value there.    *)
<1>SumSingle.
      ASSUME NEW n \in Nat, NEW r \in 1..n, NEW v \in Int,
             NEW f \in [1..n -> Int], f[r] = v, \A i \in 1..n : i # r => f[i] = 0
      PROVE  Sum(f, n) = v
    <2> USE <1>SumSingle
    <2> DEFINE t == [i \in 0..n |-> IF i < r THEN 0 ELSE v]
    <2>1. IsPartialSum(t, f, n)
        BY DEF IsPartialSum
    <2> QED
        BY <2>1, <1>SumIs
(* Changing one value changes the sum by the difference.                   *)
<1>SumUpdate.
      ASSUME NEW n \in Nat, NEW r \in 1..n, NEW f \in [1..n -> Int],
             NEW g \in [1..n -> Int], \A i \in 1..n : i # r => g[i] = f[i]
      PROVE  Sum(g, n) = Sum(f, n) + (g[r] - f[r])
    <2> USE <1>SumUpdate
    <2> DEFINE d == [i \in 1..n |-> g[i] - f[i]]
    <2>1. d \in [1..n -> Int] /\ d[r] = g[r] - f[r] /\ \A i \in 1..n : i # r => d[i] = 0
        OBVIOUS
    <2>2. \A i \in 1..n : g[i] = f[i] + d[i]
        OBVIOUS
    <2> HIDE DEF d
    <2>3. Sum(d, n) = g[r] - f[r]
        BY <2>1, <1>SumSingle
    <2>4. Sum(g, n) = Sum(f, n) + Sum(d, n)
        BY <2>1, <2>2, <1>SumAdd
    <2> QED
        BY <2>3, <2>4
(* A sum of natural numbers is a natural number.                           *)
<1>SumNat.
      ASSUME NEW n \in Nat, NEW f \in [1..n -> Nat]
      PROVE  Sum(f, n) \in Nat
    <2> USE <1>SumNat
    <2>0. f \in [1..n -> Int]
        OBVIOUS
    <2>1. PICK t : IsPartialSum(t, f, n)
        BY <2>0, <1>PartialSumExists
    <2> DEFINE S == {i \in Nat : i <= n => t[i] \in Nat}
    <2>2. 0 \in S
        BY <2>1 DEF IsPartialSum
    <2>3. ASSUME NEW i \in Nat, i \in S
          PROVE  i + 1 \in S
        <3>1. CASE i + 1 <= n
            <4>1. t[i + 1] = t[(i + 1) - 1] + f[i + 1]
                BY <2>1, <3>1 DEF IsPartialSum
            <4>2. (i + 1) - 1 = i /\ i <= n /\ f[i + 1] \in Nat
                BY <3>1
            <4>3. t[i] \in Nat
                BY <2>3, <4>2
            <4> QED
                BY <4>1, <4>2, <4>3
        <3> QED
            BY <3>1
    <2> HIDE DEF S
    <2>4. \A i \in Nat : i \in S
        BY <2>2, <2>3, <1>NatSetInduction
    <2>5. t[n] \in Nat
        BY <2>4 DEF S
    <2> QED
        BY <2>0, <2>1, <2>5, <1>SumIs
(* No term of a sum of natural numbers exceeds the sum.                    *)
<1>SumBound.
      ASSUME NEW n \in Nat, NEW f \in [1..n -> Nat], NEW r \in 1..n
      PROVE  f[r] <= Sum(f, n)
    <2> USE <1>SumBound
    <2> DEFINE g == [f EXCEPT ![r] = 0]
    <2>1. g \in [1..n -> Nat] /\ g \in [1..n -> Int] /\ f \in [1..n -> Int]
        OBVIOUS
    <2>2. g[r] = 0 /\ \A i \in 1..n : i # r => g[i] = f[i]
        OBVIOUS
    <2> HIDE DEF g
    <2>3. Sum(g, n) = Sum(f, n) + (g[r] - f[r])
        BY <2>1, <2>2, <1>SumUpdate
    <2>4. Sum(g, n) \in Nat /\ Sum(f, n) \in Nat
        BY <2>1, <1>SumNat
    <2> QED
        BY <2>2, <2>3, <2>4
(* A multiple of a function sums to that multiple of its sum.              *)
<1>SumScale.
      ASSUME NEW n \in Nat, NEW k \in Int, NEW f \in [1..n -> Int], NEW g \in [1..n -> Int],
             \A i \in 1..n : g[i] = f[i] * k
      PROVE  Sum(g, n) = Sum(f, n) * k
    <2> USE <1>SumScale
    <2>1. PICK s : IsPartialSum(s, f, n)
        BY <1>PartialSumExists
    <2> DEFINE u == [i \in 0..n |-> s[i] * k]
    <2>2. IsPartialSum(u, g, n)
        <3>0. \A x, y \in Int : x * y \in Int
            OBVIOUS
        <3>1. u \in [0..n -> Int] /\ u[0] = 0
            <4>1. \A i \in 0..n : s[i] \in Int
                BY <2>1 DEF IsPartialSum
            <4>2. s[0] = 0 /\ 0 * k = 0 /\ 0 \in 0..n
                BY <2>1 DEF IsPartialSum
            <4> QED
                BY <3>0, <4>1, <4>2
        <3>2. ASSUME NEW i \in 1..n
              PROVE  u[i] = u[i - 1] + g[i]
            <4>1. i \in 0..n /\ i - 1 \in 0..n
                OBVIOUS
            <4>2. s[i] = s[i - 1] + f[i] /\ s[i - 1] \in Int /\ f[i] \in Int
                BY <2>1, <4>1 DEF IsPartialSum
            <4>3. \A x, y \in Int : (x + y) * k = x * k + y * k
                OBVIOUS
            <4>4. s[i] * k = s[i - 1] * k + f[i] * k
                BY <4>2, <4>3
            <4>5. u[i] = s[i] * k /\ u[i - 1] = s[i - 1] * k /\ g[i] = f[i] * k
                BY <4>1
            <4> QED
                BY <4>4, <4>5
        <3> QED
            BY <3>1, <3>2 DEF IsPartialSum
    <2>3. Sum(g, n) = u[n] /\ Sum(f, n) = s[n]
        BY <2>1, <2>2, <1>SumIs
    <2>4. n \in 0..n
        OBVIOUS
    <2> QED
        BY <2>3, <2>4
<1> TAKE n \in Nat
<1>1. \A f \in [1..n -> Int] :
        Sum(f, n) \in Int /\ ((\A i \in 1..n : f[i] = 0) => Sum(f, n) = 0)
    BY <1>SumType, <1>SumZero
<1>2. \A f, g, h \in [1..n -> Int] :
        (\A i \in 1..n : h[i] = f[i] + g[i]) => Sum(h, n) = Sum(f, n) + Sum(g, n)
    BY <1>SumAdd
<1>3. \A f, g \in [1..n -> Int], r \in 1..n :
        (\A i \in 1..n : i # r => g[i] = f[i]) => Sum(g, n) = Sum(f, n) + (g[r] - f[r])
    BY <1>SumUpdate
<1>4. \A f \in [1..n -> Nat] : Sum(f, n) \in Nat /\ \A r \in 1..n : f[r] <= Sum(f, n)
    BY <1>SumNat, <1>SumBound
<1>5. \A f, g \in [1..n -> Int], k \in Int :
        (\A i \in 1..n : g[i] = f[i] * k) => Sum(g, n) = Sum(f, n) * k
    BY <1>SumScale
<1> QED
    BY <1>1, <1>2, <1>3, <1>4, <1>5

-----------------------------------------------------------------------------
(***************************************************************************)
(* II. The operators of PaymentStream that compute a new stream record:    *)
(* which fields they change, by how much, and which signs they guarantee.  *)
(***************************************************************************)

ChangeRecord == [static : Int, rate : Int, lock : Int]

(* Zero is an integer, as the lemmas with an integer parameter ask.         *)
LEMMA ZeroInt == 0 \in Int
OBVIOUS

(* The naturals are integers, for steps left to a prover without           *)
(* arithmetic.                                                             *)
LEMMA NatInt == \A n \in Nat : n \in Int
OBVIOUS

(* What the record operators leave alone, and the signs they guarantee.    *)
LEMMA ParamsType ==
    ASSUME params \in ParamSets
    PROVE  /\ params.reserveTime \in Nat /\ params.forcedSettleTime \in Nat
           /\ params.maxAutoSettle \in Nat /\ params.maxAutoResume \in Nat
           /\ params.lockDuration \in Nat
BY ParamsAssumption DEF ValidParams

(* A product of naturals is a natural.                                     *)
LEMMA ProductNat ==
    ASSUME NEW x \in Nat, NEW y \in Nat
    PROVE  x * y \in Nat
OBVIOUS

(* A record with one field replaced is a record; updates of several fields *)
(* are taken apart into such steps.                                        *)
LEMMA SetStatic ==
    ASSUME NEW s \in StreamRecord, NEW x \in Int
    PROVE  [s EXCEPT !.static = x] \in StreamRecord
BY DEF StreamRecord

(* Assigning one field of a stream record keeps its type.                  *)
LEMMA SetNetflow ==
    ASSUME NEW s \in StreamRecord, NEW x \in Int
    PROVE  [s EXCEPT !.netflow = x] \in StreamRecord
BY DEF StreamRecord

(* The same for FrozenNetflowRate.                                         *)
LEMMA SetFrozen ==
    ASSUME NEW s \in StreamRecord, NEW x \in Int
    PROVE  [s EXCEPT !.frozen = x] \in StreamRecord
BY DEF StreamRecord

(* The same for BufferBalance.                                             *)
LEMMA SetBuffer ==
    ASSUME NEW s \in StreamRecord, NEW x \in Int
    PROVE  [s EXCEPT !.buffer = x] \in StreamRecord
BY DEF StreamRecord

(* The same for LockBalance.                                               *)
LEMMA SetLock ==
    ASSUME NEW s \in StreamRecord, NEW x \in Int
    PROVE  [s EXCEPT !.lock = x] \in StreamRecord
BY DEF StreamRecord

(* The same for CrudTimestamp.                                             *)
LEMMA SetCrud ==
    ASSUME NEW s \in StreamRecord, NEW x \in Int
    PROVE  [s EXCEPT !.crud = x] \in StreamRecord
BY DEF StreamRecord

(* The same for SettleTimestamp.                                           *)
LEMMA SetSettle ==
    ASSUME NEW s \in StreamRecord, NEW x \in Int
    PROVE  [s EXCEPT !.settle = x] \in StreamRecord
BY DEF StreamRecord

(* The same for OutFlowCount.                                              *)
LEMMA SetCount ==
    ASSUME NEW s \in StreamRecord, NEW x \in Int
    PROVE  [s EXCEPT !.outFlowCount = x] \in StreamRecord
BY DEF StreamRecord

(* The same for Status.                                                    *)
LEMMA SetStatus ==
    ASSUME NEW s \in StreamRecord, NEW x \in {"active", "frozen"}
    PROVE  [s EXCEPT !.status = x] \in StreamRecord
BY DEF StreamRecord

(* Accruing the flow delta touches the static balance only, and never      *)
(* lowers it when the net flow rate is not negative.                       *)
LEMMA AccrueRecord ==
    ASSUME now \in Nat, NEW s \in StreamRecord
    PROVE  /\ Accrue(s) \in StreamRecord
           /\ Accrue(s).netflow = s.netflow /\ Accrue(s).frozen = s.frozen
           /\ Accrue(s).buffer = s.buffer /\ Accrue(s).lock = s.lock
           /\ Accrue(s).settle = s.settle /\ Accrue(s).status = s.status
           /\ Accrue(s).outFlowCount = s.outFlowCount
           /\ s.netflow >= 0 => Accrue(s).static >= s.static
<1>1. CASE now > s.crud
    <2>1. s.netflow * (now - s.crud) \in Int
        BY <1>1 DEF StreamRecord
    <2>2. s.netflow >= 0 => s.netflow * (now - s.crud) \in Nat
        BY <1>1, ProductNat DEF StreamRecord
    <2>3. PICK k \in Int : /\ k = s.netflow * (now - s.crud)
                           /\ s.netflow >= 0 => k >= 0
        BY <2>1, <2>2
    <2>4. Accrue(s) = [s EXCEPT !.static = @ + k, !.crud = now]
        BY <1>1, <2>3 DEF Accrue
    <2>8. s.static + k \in Int
        BY DEF StreamRecord
    <2>5. [s EXCEPT !.static = s.static + k] \in StreamRecord
        BY <2>8, SetStatic
    <2>6. [[s EXCEPT !.static = s.static + k] EXCEPT !.crud = now] \in StreamRecord
        BY <1>1, NatInt, <2>5, SetCrud
    <2>7. Accrue(s) \in StreamRecord
        BY <2>4, <2>6
    <2> QED
        BY <2>3, <2>4, <2>7 DEF StreamRecord
<1>2. CASE ~(now > s.crud)
    BY <1>2 DEF Accrue, StreamRecord
<1> QED
    BY <1>1, <1>2

(* The lock step of UpdateStreamRecord leaves a lock balance that is not   *)
(* negative, whatever the change asks.                                     *)
LEMMA UpdateLockRecord ==
    ASSUME NEW s \in StreamRecord, NEW d \in Int
    PROVE  /\ UpdateLock(s, d) \in StreamRecord
           /\ UpdateLock(s, d).netflow = s.netflow /\ UpdateLock(s, d).frozen = s.frozen
           /\ UpdateLock(s, d).buffer = s.buffer /\ UpdateLock(s, d).settle = s.settle
           /\ UpdateLock(s, d).status = s.status
           /\ UpdateLock(s, d).outFlowCount = s.outFlowCount
           /\ UpdateLock(s, d).lock >= 0
           /\ s.lock >= 0 /\ d = 0 => UpdateLock(s, d).static = s.static
<1>0. s.lock \in Int /\ s.static \in Int
    BY DEF StreamRecord
<1>1. CASE s.lock + d < 0
    <2>1. [s EXCEPT !.static = (s.static - d) + (s.lock + d)] \in StreamRecord
        BY <1>0, SetStatic
    <2>2. [[s EXCEPT !.static = (s.static - d) + (s.lock + d)] EXCEPT !.lock = 0] \in StreamRecord
        BY ZeroInt, <2>1, SetLock
    <2>3. UpdateLock(s, d) = [s EXCEPT !.static = (@ - d) + (s.lock + d), !.lock = 0]
        BY <1>1 DEF UpdateLock
    <2> QED
        BY <1>0, <1>1, <2>2, <2>3 DEF StreamRecord
<1>2. CASE ~(s.lock + d < 0)
    <2>4. s.lock + d \in Int
        BY <1>0
    <2>1. [s EXCEPT !.static = s.static - d] \in StreamRecord
        BY <1>0, SetStatic
    <2>2. [[s EXCEPT !.static = s.static - d] EXCEPT !.lock = s.lock + d] \in StreamRecord
        BY <2>4, <2>1, SetLock
    <2>3. UpdateLock(s, d) = [s EXCEPT !.static = @ - d, !.lock = @ + d]
        BY <1>2 DEF UpdateLock
    <2> QED
        BY <1>0, <1>2, <2>2, <2>3 DEF StreamRecord
<1> QED
    BY <1>1, <1>2

(* newBufferBalance is never negative, and zero for an account that pays   *)
(* nothing.                                                                *)
LEMMA BufferForNat ==
    ASSUME params \in ParamSets, NEW rate \in Int
    PROVE  /\ BufferFor(rate) \in Nat
           /\ rate >= 0 => BufferFor(rate) = 0
BY ParamsType, ProductNat DEF BufferFor

(* The rate step of UpdateStreamRecord moves the net flow rate by the      *)
(* change and re-reserves the buffer.                                      *)
LEMMA UpdateRateRecord ==
    ASSUME params \in ParamSets, NEW s \in StreamRecord, NEW d \in Int
    PROVE  LET t == UpdateRate(s, d) IN
           /\ t \in StreamRecord
           /\ t.netflow = s.netflow + d /\ t.frozen = s.frozen
           /\ t.settle = s.settle /\ t.status = s.status /\ t.lock = s.lock
           /\ t.outFlowCount = s.outFlowCount
           /\ t.buffer >= 0
           /\ s.netflow + d >= 0 /\ s.buffer = 0 => t.buffer = 0 /\ t.static = s.static
<1>1. s.netflow + d \in Int /\ BufferFor(s.netflow + d) \in Nat
      /\ (s.netflow + d >= 0 => BufferFor(s.netflow + d) = 0)
    BY BufferForNat DEF StreamRecord
<1>2. PICK rate \in Int, buffer \in Nat :
        /\ rate = s.netflow + d /\ buffer = BufferFor(s.netflow + d)
        /\ rate >= 0 => buffer = 0
    BY <1>1
<1>3. UpdateRate(s, d) = [s EXCEPT !.netflow = rate, !.static = (@ - buffer) + s.buffer,
                                   !.buffer = buffer]
    BY <1>2 DEF UpdateRate
<1>4. s.static \in Int /\ s.buffer \in Int
    BY DEF StreamRecord
<1>9. (s.static - buffer) + s.buffer \in Int
    BY <1>4
<1>5. [s EXCEPT !.netflow = rate] \in StreamRecord
    BY SetNetflow
<1>6. [[s EXCEPT !.netflow = rate] EXCEPT !.static = (s.static - buffer) + s.buffer] \in StreamRecord
    BY <1>9, <1>5, SetStatic
<1>7. [[[s EXCEPT !.netflow = rate] EXCEPT !.static = (s.static - buffer) + s.buffer]
          EXCEPT !.buffer = buffer] \in StreamRecord
    BY NatInt, <1>6, SetBuffer
<1>8. UpdateRate(s, d) \in StreamRecord
    BY <1>3, <1>7 DEF StreamRecord
<1> QED
    BY <1>2, <1>3, <1>4, <1>8 DEF StreamRecord

(* The balances part of UpdateStreamRecord: what it changes, and that it   *)
(* is plain addition for an earner.                                        *)
LEMMA SettledRecord ==
    ASSUME now \in Nat, params \in ParamSets, NEW s \in StreamRecord, NEW c \in ChangeRecord
    PROVE  LET t == Settled(s, c) IN
           /\ t \in StreamRecord
           /\ t.netflow = s.netflow + c.rate /\ t.frozen = s.frozen
           /\ t.settle = s.settle /\ t.status = s.status
           /\ t.outFlowCount = s.outFlowCount
           /\ t.lock >= 0 /\ t.buffer >= 0
           /\ s.netflow + c.rate >= 0 /\ s.buffer = 0 /\ s.lock >= 0 /\ c.lock = 0 =>
                 t.buffer = 0 /\ t.static = Accrue(s).static + c.static
<1> DEFINE u == Accrue(s)
           v == UpdateLock(u, c.lock)
           w == UpdateRate(v, c.rate)
<1>0. c.static \in Int /\ c.rate \in Int /\ c.lock \in Int
    BY DEF ChangeRecord
<1>1. /\ u \in StreamRecord /\ u.netflow = s.netflow /\ u.frozen = s.frozen
      /\ u.settle = s.settle /\ u.status = s.status /\ u.outFlowCount = s.outFlowCount
      /\ u.buffer = s.buffer /\ u.lock = s.lock
    BY AccrueRecord
<1> HIDE DEF u
<1>2. /\ v \in StreamRecord /\ v.netflow = u.netflow /\ v.frozen = u.frozen
      /\ v.settle = u.settle /\ v.status = u.status /\ v.outFlowCount = u.outFlowCount
      /\ v.buffer = u.buffer /\ v.lock >= 0 /\ (u.lock >= 0 /\ c.lock = 0 => v.static = u.static)
    BY <1>0, <1>1, UpdateLockRecord
<1> HIDE DEF v
<1>3. /\ w \in StreamRecord /\ w.netflow = v.netflow + c.rate /\ w.frozen = v.frozen
      /\ w.settle = v.settle /\ w.status = v.status /\ w.outFlowCount = v.outFlowCount
      /\ w.buffer >= 0 /\ w.lock = v.lock
      /\ (v.netflow + c.rate >= 0 /\ v.buffer = 0 => w.buffer = 0 /\ w.static = v.static)
    BY <1>0, <1>2, UpdateRateRecord
<1> HIDE DEF w
<1>4. Settled(s, c) = [w EXCEPT !.static = @ + c.static]
    BY DEF Settled, u, v, w
<1> QED
    BY <1>0, <1>1, <1>2, <1>3, <1>4 DEF StreamRecord, u

(* Integer division by a positive number.                                  *)
LEMMA QuoInt ==
    ASSUME NEW n \in Int, NEW d \in Nat \ {0}
    PROVE  Quo(n, d) \in Int
BY DEF Quo

(* The automatic transfer never takes more than the bank account holds,    *)
(* and nothing from a solvent record.                                      *)
LEMMA PullAmountNat ==
    ASSUME NEW s \in StreamRecord, NEW b \in Nat
    PROVE  /\ PullAmount(s, b) \in Nat /\ PullAmount(s, b) <= b
           /\ s.static >= 0 => PullAmount(s, b) = 0
BY DEF PullAmount, StreamRecord

(* UpdateStreamRecord up to its pay check keeps status, settle time and    *)
(* count.                                                                  *)
LEMMA BalancedRecord ==
    ASSUME now \in Nat, params \in ParamSets, NEW s \in StreamRecord, NEW c \in ChangeRecord,
           NEW b \in Nat
    PROVE  LET t == Balanced(s, c, b)
               u == Settled(s, c) IN
           /\ t \in StreamRecord
           /\ t.netflow = s.netflow + c.rate /\ t.frozen = s.frozen
           /\ t.settle = s.settle /\ t.status = s.status
           /\ t.outFlowCount = s.outFlowCount
           /\ t.lock >= 0 /\ t.buffer >= 0
           /\ u.static >= 0 => t.static = u.static /\ t.buffer = u.buffer
<1> DEFINE u == Settled(s, c)
<1>1. /\ u \in StreamRecord
      /\ u.netflow = s.netflow + c.rate /\ u.frozen = s.frozen
      /\ u.settle = s.settle /\ u.status = s.status
      /\ u.outFlowCount = s.outFlowCount
      /\ u.lock >= 0 /\ u.buffer >= 0
    BY SettledRecord
<1> HIDE DEF u
<1>2. /\ PullAmount(u, b) \in Nat /\ u.static \in Int
      /\ u.static >= 0 => PullAmount(u, b) = 0
    BY <1>1, PullAmountNat DEF StreamRecord
<1>3. Balanced(s, c, b) = [u EXCEPT !.static = u.static + PullAmount(u, b)]
    BY DEF Balanced, Pulled, u
<1>4. u.static + PullAmount(u, b) \in Int
    BY <1>2
<1>5. Balanced(s, c, b) \in StreamRecord
    BY <1>1, <1>3, <1>4, SetStatic
<1> QED
    BY <1>1, <1>2, <1>3, <1>5 DEF StreamRecord, u

(* An account with no net outflow has no settle time and is never overdue. *)
LEMMA SettleTimeInt ==
    ASSUME now \in Nat, params \in ParamSets, NEW t \in StreamRecord
    PROVE  /\ SettleTime(t) \in Int
           /\ t.netflow >= 0 => SettleTime(t) = 0 /\ ~Overdue(t)
<1>1. CASE t.netflow < 0
    <2>1. -t.netflow \in Nat \ {0} /\ t.static + t.buffer \in Int
        BY <1>1 DEF StreamRecord
    <2>2. PayDuration(t) \in Int
        BY <2>1, QuoInt DEF PayDuration
    <2> QED
        BY <1>1, <2>2, ParamsType DEF SettleTime, StreamRecord
<1>2. CASE ~(t.netflow < 0)
    BY <1>2 DEF SettleTime, Overdue, StreamRecord
<1> QED
    BY <1>1, <1>2

(* The effect of an operation on a record as far as rates are concerned.   *)
Moves(s, t, rate, frozenRate) ==
    /\ t \in StreamRecord
    /\ t.netflow = s.netflow + rate /\ t.frozen = s.frozen + frozenRate
    /\ t.lock >= 0 /\ t.buffer >= 0

(* UpdateStreamRecord as a whole: rate moved by exactly the change, status *)
(* frozen only when overdue.                                               *)
LEMMA UpdatedRecord ==
    ASSUME now \in Nat, params \in ParamSets, NEW s \in StreamRecord, NEW c \in ChangeRecord,
           NEW b \in Nat
    PROVE  LET t == Updated(s, c, b)
               u == Settled(s, c) IN
           /\ Moves(s, t, c.rate, 0)
           /\ t.outFlowCount = s.outFlowCount
           /\ t.settle = SettleTime(Balanced(s, c, b))
           /\ t.status = IF Overdue(Balanced(s, c, b)) THEN "frozen" ELSE s.status
           /\ u.static >= 0 /\ s.netflow + c.rate >= 0 =>
                 /\ t.static = u.static /\ t.buffer = u.buffer
                 /\ t.settle = 0 /\ t.status = s.status
<1> DEFINE u == Balanced(s, c, b)
<1>1. /\ u \in StreamRecord
      /\ u.netflow = s.netflow + c.rate /\ u.frozen = s.frozen
      /\ u.settle = s.settle /\ u.status = s.status
      /\ u.outFlowCount = s.outFlowCount
      /\ u.lock >= 0 /\ u.buffer >= 0
      /\ Settled(s, c).static >= 0 => u.static = Settled(s, c).static /\ u.buffer = Settled(s, c).buffer
    BY BalancedRecord
<1>2. Updated(s, c, b) = [(IF Overdue(u) THEN ForceSettled(u) ELSE u) EXCEPT !.settle = SettleTime(u)]
    BY DEF Updated
<1> HIDE DEF u
<1>3. /\ SettleTime(u) \in Int
      /\ u.netflow >= 0 => SettleTime(u) = 0 /\ ~Overdue(u)
    BY <1>1, SettleTimeInt
<1>4. s.netflow \in Int /\ c.rate \in Int /\ s.frozen \in Int
    BY DEF StreamRecord, ChangeRecord
<1>5. CASE Overdue(u)
    <2>1. [u EXCEPT !.static = 0] \in StreamRecord
        BY ZeroInt, <1>1, SetStatic
    <2>2. [[u EXCEPT !.static = 0] EXCEPT !.buffer = 0] \in StreamRecord
        BY ZeroInt, <2>1, SetBuffer
    <2>3. [[[u EXCEPT !.static = 0] EXCEPT !.buffer = 0] EXCEPT !.status = "frozen"] \in StreamRecord
        BY "frozen" \in {"active", "frozen"}, <2>2, SetStatus
    <2>4. /\ ForceSettled(u) \in StreamRecord
          /\ ForceSettled(u).netflow = u.netflow /\ ForceSettled(u).frozen = u.frozen
          /\ ForceSettled(u).lock = u.lock /\ ForceSettled(u).buffer = 0
          /\ ForceSettled(u).outFlowCount = u.outFlowCount /\ ForceSettled(u).status = "frozen"
        BY <1>1, <2>3 DEF ForceSettled, StreamRecord
    <2>5. Updated(s, c, b) = [ForceSettled(u) EXCEPT !.settle = SettleTime(u)]
        BY <1>2, <1>5
    <2>6. Updated(s, c, b) \in StreamRecord
        BY <1>3, <2>4, <2>5, SetSettle
    <2> QED
        BY <1>1, <1>3, <1>4, <1>5, <2>4, <2>5, <2>6 DEF StreamRecord, Moves, u
<1>6. CASE ~Overdue(u)
    <2>1. Updated(s, c, b) = [u EXCEPT !.settle = SettleTime(u)]
        BY <1>2, <1>6
    <2>2. Updated(s, c, b) \in StreamRecord
        BY <1>1, <1>3, <2>1, SetSettle
    <2> QED
        BY <1>1, <1>3, <1>4, <1>6, <2>1, <2>2 DEF StreamRecord, Moves, u
<1> QED
    BY <1>5, <1>6

(* UpdateFrozenStreamRecord moves both rates by exactly what it is given   *)
(* and leaves the status.                                                  *)
LEMMA UpdatedFrozenRecord ==
    ASSUME NEW s \in StreamRecord, NEW c \in ChangeRecord, NEW f \in Int, s.buffer >= 0
    PROVE  LET t == UpdatedFrozen(s, c, f) IN
           /\ Moves(s, t, c.rate, f)
           /\ t.outFlowCount = s.outFlowCount /\ t.status = s.status
<1> DEFINE u == UpdateLock(s, c.lock)
<1>0. c.rate \in Int /\ c.lock \in Int
    BY DEF ChangeRecord
<1>1. /\ u \in StreamRecord /\ u.netflow = s.netflow /\ u.frozen = s.frozen
      /\ u.buffer = s.buffer /\ u.status = s.status /\ u.outFlowCount = s.outFlowCount
      /\ u.lock >= 0
    BY <1>0, UpdateLockRecord
<1>2. UpdatedFrozen(s, c, f) = [u EXCEPT !.netflow = @ + c.rate, !.frozen = @ + f]
    BY DEF UpdatedFrozen
<1> HIDE DEF u
<1>3. u.netflow + c.rate \in Int /\ u.frozen + f \in Int
    BY <1>0, <1>1 DEF StreamRecord
<1>4. [u EXCEPT !.netflow = u.netflow + c.rate] \in StreamRecord
    BY <1>1, <1>3, SetNetflow
<1>5. [[u EXCEPT !.netflow = u.netflow + c.rate] EXCEPT !.frozen = u.frozen + f] \in StreamRecord
    BY <1>3, <1>4, SetFrozen
<1>6. UpdatedFrozen(s, c, f) \in StreamRecord
    BY <1>1, <1>2, <1>5 DEF StreamRecord
<1> QED
    BY <1>1, <1>2, <1>6 DEF StreamRecord, Moves

(* A receiver in good standing.                                            *)
Earns(s) ==
    /\ s.netflow >= 0 /\ s.static >= 0
    /\ s.buffer = 0 /\ s.settle = 0 /\ s.status = "active"

(* Updating a receiver moves its rate by exactly the change and keeps it   *)
(* out of debt.                                                            *)
LEMMA CreditedRecord ==
    ASSUME now \in Nat, params \in ParamSets, NEW s \in StreamRecord, s.lock >= 0,
           NEW d \in Int, NEW rate \in Int
    PROVE  LET t == Credited(s, d, rate) IN
           /\ Moves(s, t, rate, 0)
           /\ t.outFlowCount = s.outFlowCount /\ t.status = s.status
           /\ Earns(s) /\ s.netflow + rate >= 0 /\ Accrue(s).static + d >= 0 => Earns(t)
<1> DEFINE c == Change(d, rate, 0)
<1>1. c \in ChangeRecord /\ c.static = d /\ c.rate = rate /\ c.lock = 0
    BY DEF ChangeRecord, Change
<1>2. s.frozen \in Int
    BY DEF StreamRecord
<1> HIDE DEF c
<1> QED
    BY <1>1, <1>2, SettledRecord DEF Credited, Moves, Earns, c

-----------------------------------------------------------------------------
(***************************************************************************)
(* III. Totals over the accounts, and the inductive invariant.             *)
(***************************************************************************)

(* What the rates of the records and the flows have to do with each other. *)
RatesInv ==
    /\ RatesMatchFlows /\ Reconciled /\ IncomeMatchesFlows
    /\ rec[Gov].netflow = 0
    /\ \A a \in Accounts \ Payers : rec[a].frozen = 0

(* The lemmas on sums, for functions of the accounts.                      *)
LEMMA AccountFacts ==
    /\ NumAccounts \in Nat /\ Payers \subseteq Accounts /\ Receivers \subseteq Accounts
    /\ Gov \in Accounts /\ Gov \notin Payers /\ Gov \notin Receivers
    /\ \A a \in Payers : a \notin Receivers
BY AccountsAssumption

(* A total over the accounts is an integer.                                *)
LEMMA TotalInt ==
    ASSUME NEW f \in [Accounts -> Int]
    PROVE  Sum(f, NumAccounts) \in Int
BY AccountFacts, SumLaws DEF Accounts

(* Totals add up pointwise.                                                *)
LEMMA TotalAdd ==
    ASSUME NEW f \in [Accounts -> Int], NEW g \in [Accounts -> Int], NEW h \in [Accounts -> Int],
           \A a \in Accounts : h[a] = f[a] + g[a]
    PROVE  Sum(h, NumAccounts) = Sum(f, NumAccounts) + Sum(g, NumAccounts)
<1>1. \A x, y, z \in [1..NumAccounts -> Int] :
        (\A i \in 1..NumAccounts : z[i] = x[i] + y[i])
            => Sum(z, NumAccounts) = Sum(x, NumAccounts) + Sum(y, NumAccounts)
    BY AccountFacts, SumLaws
<1> QED
    BY <1>1 DEF Accounts

(* Changing one account's entry changes the total by the difference.       *)
LEMMA TotalUpdate ==
    ASSUME NEW f \in [Accounts -> Int], NEW g \in [Accounts -> Int], NEW r \in Accounts,
           \A a \in Accounts : a # r => g[a] = f[a]
    PROVE  Sum(g, NumAccounts) = Sum(f, NumAccounts) + (g[r] - f[r])
<1>1. \A x, y \in [1..NumAccounts -> Int], s \in 1..NumAccounts :
        (\A i \in 1..NumAccounts : i # s => y[i] = x[i])
            => Sum(y, NumAccounts) = Sum(x, NumAccounts) + (y[s] - x[s])
    BY AccountFacts, SumLaws
<1> QED
    BY <1>1 DEF Accounts

(* The total of zeroes is zero.                                            *)
LEMMA TotalZero ==
    ASSUME NEW f \in [Accounts -> Int], \A a \in Accounts : f[a] = 0
    PROVE  Sum(f, NumAccounts) = 0
BY AccountFacts, SumLaws DEF Accounts

(* A total of naturals bounds each of them.                                *)
LEMMA TotalNat ==
    ASSUME NEW f \in [Accounts -> Nat]
    PROVE  /\ Sum(f, NumAccounts) \in Nat
           /\ \A a \in Accounts : f[a] <= Sum(f, NumAccounts)
BY AccountFacts, SumLaws DEF Accounts

BillRates == {b \in [Accounts -> Int] : \A a \in Accounts \ Receivers : b[a] = 0}

RecordsInv == \A a \in Accounts : rec[a].lock >= 0 /\ rec[a].buffer >= 0

(* An account without a record in the store is like a fresh one.           *)
StoredInv ==
    \A a \in Accounts \ stored :
        rec[a].netflow = 0 /\ rec[a].frozen = 0 /\ rec[a].status = "active"

(* The EndBlock loops work on frozen payers; what AutoResume has still to  *)
(* visit is still queued.                                                  *)
LoopInv ==
    /\ phase # "panic"
    /\ visit # NoVisit => phase \in {"resume", "settle"} /\ rec[visit.addr].status = "frozen"
    /\ phase = "resume" =>
          /\ todo \subseteq autoResume
          /\ visit # NoVisit => <<visit.ts, visit.addr>> \in autoResume \ todo

CoreInv == RatesInv /\ RecordsInv /\ StoredInv /\ ReceiversNeverOwe /\ FlowsNotDoubled

IInv == TypeOK /\ CoreInv /\ ResumingIsFrozen /\ LoopInv

(* A record left alone moves nothing.                                      *)
LEMMA MovesNothing ==
    ASSUME NEW s \in StreamRecord, s.lock >= 0, s.buffer >= 0
    PROVE  Moves(s, s, 0, 0)
BY DEF Moves, StreamRecord

-----------------------------------------------------------------------------
(***************************************************************************)
(* IV. Facts about the steps: what the calls ask for, what a payer owes,   *)
(* and what the loops of EndBlock do to a flow.                            *)
(***************************************************************************)

(* A StreamRecordChange holds what it was built from.                      *)
LEMMA ChangeType ==
    ASSUME NEW d \in Int, NEW r \in Int, NEW l \in Int
    PROVE  /\ Change(d, r, l) \in ChangeRecord
           /\ Change(d, r, l).static = d /\ Change(d, r, l).rate = r /\ Change(d, r, l).lock = l
BY DEF Change, ChangeRecord

(* Fees, withdrawals and deposits are positive integers.                   *)
LEMMA FeesType ==
    /\ \A x \in Fees : x \in Nat /\ x \in Int /\ -x \in Int
    /\ \A x \in Withdrawals : x \in Nat /\ x \in Int /\ -x \in Int
    /\ \A x \in Deposits : x \in Nat
BY ParamsAssumption

(* The empty bill is a bill and sums to zero.                              *)
LEMMA NoRatesSum ==
    /\ NoRates \in BillRates /\ NoRates \in [Accounts -> Int]
    /\ Sum(NoRates, NumAccounts) = 0 /\ -Sum(NoRates, NumAccounts) = 0
<1>1. NoRates \in [Accounts -> Int] /\ \A a \in Accounts : NoRates[a] = 0
    BY DEF NoRates
<1>2. Sum(NoRates, NumAccounts) = 0
    BY <1>1, TotalZero
<1>3. \A k \in Int : k + k = k => -k = k
    OBVIOUS
<1>4. -Sum(NoRates, NumAccounts) = 0
    <2>1. Sum(NoRates, NumAccounts) \in Int
        BY <1>1, TotalInt
    <2>2. Sum(NoRates, NumAccounts) + Sum(NoRates, NumAccounts) = Sum(NoRates, NumAccounts)
        BY <1>2
    <2> QED
        BY <1>2, <1>3, <2>1, <2>2
<1> QED
    BY <1>1, <1>2, <1>4 DEF BillRates

(* The change of the number of flows is a number.                          *)
LEMMA MergeDeltaInt ==
    ASSUME NEW flows, NEW b
    PROVE  MergeDelta(flows, b) \in Int
<1>1. [r \in Accounts |-> FlowDelta(flows[r], b[r])] \in [Accounts -> Int]
    BY DEF FlowDelta
<1> QED
    BY <1>1, TotalInt DEF MergeDelta

Merged(flows, p, b) == [flows EXCEPT ![p] = Merge(flows[p], b)]

(* Every bill of the model is a bill of rates.                             *)
LEMMA BillsAreRates ==
    ASSUME NEW b \in Bills
    PROVE  b \in BillRates /\ Sum(b, NumAccounts) \in Int /\ -Sum(b, NumAccounts) \in Int
<1>1. b \in BillRates /\ b \in [Accounts -> Int]
    BY BillsAssumption DEF BillRates
<1>2. Sum(b, NumAccounts) \in Int
    BY <1>1, TotalInt
<1> QED
    BY <1>1, <1>2

(* What RecWith gives each account.                                        *)
LEMMA RecWithValues ==
    ASSUME TypeOK, CoreInv, NEW p \in Payers, NEW s \in StreamRecord, NEW b \in BillRates
    PROVE  /\ RecWith(p, s, b) \in [Accounts -> StreamRecord]
           /\ RecWith(p, s, b)[p] = s
           /\ \A a \in Accounts : a # p =>
                 RecWith(p, s, b)[a] = IF b[a] # 0 THEN Credited(rec[a], 0, b[a]) ELSE rec[a]
           /\ RecWith(p, s, b)[Gov] = rec[Gov]
<1>1. /\ p \in Accounts /\ Gov \in Accounts /\ Gov # p /\ b[Gov] = 0
      /\ \A a \in Accounts : b[a] \in Int /\ rec[a] \in StreamRecord /\ rec[a].lock >= 0
      /\ now \in Nat /\ params \in ParamSets
    BY AccountFacts DEF BillRates, TypeOK, CoreInv, RecordsInv
<1>2. \A a \in Accounts : Credited(rec[a], 0, b[a]) \in StreamRecord
    BY <1>1, CreditedRecord, ZeroInt DEF Moves
<1> QED
    BY <1>1, <1>2 DEF RecWith

(* Whatever the governance account takes over, its rates stay as they are. *)
LEMMA GovFacts ==
    ASSUME TypeOK, CoreInv, NEW t \in StreamRecord
    PROVE  /\ Moves(rec[Gov], GovAfter(t), 0, 0)
           /\ GovPull(t) \in Nat /\ GovPull(t) <= bank[Gov]
           /\ ~Overdue(t) => GovAfter(t) = rec[Gov]
<1>1. /\ rec[Gov] \in StreamRecord /\ rec[Gov].lock >= 0 /\ rec[Gov].buffer >= 0
      /\ bank[Gov] \in Nat /\ now \in Nat /\ params \in ParamSets
    BY AccountFacts DEF TypeOK, CoreInv, RecordsInv
<1>2. GovChange(t) \in ChangeRecord /\ GovChange(t).rate = 0
    <2>1. t.static + t.buffer \in Int
        BY DEF StreamRecord
    <2> QED
        BY <2>1, ChangeType, ZeroInt DEF GovChange
<1>3. CASE Overdue(t)
    <2>1. GovAfter(t) = Balanced(rec[Gov], GovChange(t), bank[Gov])
        BY <1>3 DEF GovAfter
    <2>2. GovPull(t) = PullAmount(Settled(rec[Gov], GovChange(t)), bank[Gov])
        BY <1>3 DEF GovPull
    <2>3. Settled(rec[Gov], GovChange(t)) \in StreamRecord
        BY <1>1, <1>2, SettledRecord
    <2>4. GovPull(t) \in Nat /\ GovPull(t) <= bank[Gov]
        BY <1>1, <2>2, <2>3, PullAmountNat
    <2>5. /\ GovAfter(t) \in StreamRecord
          /\ GovAfter(t).netflow = rec[Gov].netflow + 0 /\ GovAfter(t).frozen = rec[Gov].frozen
          /\ GovAfter(t).lock >= 0 /\ GovAfter(t).buffer >= 0
        <3> DEFINE g == Balanced(rec[Gov], GovChange(t), bank[Gov])
        <3>1. /\ g \in StreamRecord
              /\ g.netflow = rec[Gov].netflow + GovChange(t).rate /\ g.frozen = rec[Gov].frozen
              /\ g.lock >= 0 /\ g.buffer >= 0
            BY <1>1, <1>2, BalancedRecord
        <3> HIDE DEF g
        <3> QED
            BY <1>2, <2>1, <3>1 DEF g
    <2>6. rec[Gov].frozen = rec[Gov].frozen + 0
        BY <1>1 DEF StreamRecord
    <2> QED
        BY <1>3, <2>4, <2>5, <2>6 DEF Moves
<1>4. CASE ~Overdue(t)
    <2>1. GovAfter(t) = rec[Gov] /\ GovPull(t) = 0
        BY <1>4 DEF GovAfter, GovPull
    <2> QED
        BY <1>1, <2>1, MovesNothing
<1> QED
    BY <1>3, <1>4

(* The rates of a payer are outgoing, and zero exactly without flows.      *)
LEMMA TotalOfFlows ==
    ASSUME NEW flows \in [Accounts -> Nat]
    PROVE  /\ Sum(flows, NumAccounts) \in Nat
           /\ Sum(flows, NumAccounts) = 0 <=> ~HasFlows(flows)
<1>1. /\ Sum(flows, NumAccounts) \in Nat
      /\ \A a \in Accounts : flows[a] <= Sum(flows, NumAccounts)
    BY TotalNat
<1>2. ASSUME Sum(flows, NumAccounts) = 0
      PROVE  ~HasFlows(flows)
    BY <1>1, <1>2 DEF HasFlows
<1>3. ASSUME ~HasFlows(flows)
      PROVE  Sum(flows, NumAccounts) = 0
    <2>1. flows \in [Accounts -> Int] /\ \A a \in Accounts : flows[a] = 0
        BY <1>3 DEF HasFlows
    <2> QED
        BY <2>1, TotalZero
<1> QED
    BY <1>1, <1>2, <1>3

(* Under the core invariant a payer's rates are negative exactly where it  *)
(* has flows.                                                              *)
LEMMA PayerOwes ==
    ASSUME TypeOK, CoreInv, NEW p \in Payers
    PROVE  /\ rec[p].netflow \in Int /\ rec[p].frozen \in Int
           /\ rec[p].netflow <= 0 /\ rec[p].frozen <= 0
           /\ rec[p].netflow = 0 <=> ~HasFlows(active[p])
           /\ rec[p].frozen = 0 <=> ~HasFlows(frozen[p])
<1>1. active[p] \in [Accounts -> Nat] /\ frozen[p] \in [Accounts -> Nat]
    BY DEF TypeOK
<1>2. /\ rec[p].netflow = -Sum(active[p], NumAccounts)
      /\ rec[p].frozen = -Sum(frozen[p], NumAccounts)
    BY DEF CoreInv, RatesInv, RatesMatchFlows
<1>3. /\ Sum(active[p], NumAccounts) \in Nat
      /\ Sum(active[p], NumAccounts) = 0 <=> ~HasFlows(active[p])
    BY <1>1, TotalOfFlows
<1>4. /\ Sum(frozen[p], NumAccounts) \in Nat
      /\ Sum(frozen[p], NumAccounts) = 0 <=> ~HasFlows(frozen[p])
    BY <1>1, TotalOfFlows
<1>5. \A k \in Nat : -k \in Int /\ -k <= 0 /\ (-k = 0 <=> k = 0)
    OBVIOUS
<1>6. /\ rec[p].netflow \in Int /\ rec[p].netflow <= 0
      /\ rec[p].netflow = 0 <=> Sum(active[p], NumAccounts) = 0
    BY <1>2, <1>3, <1>5
<1>7. /\ rec[p].frozen \in Int /\ rec[p].frozen <= 0
      /\ rec[p].frozen = 0 <=> Sum(frozen[p], NumAccounts) = 0
    BY <1>2, <1>4, <1>5
<1> QED
    BY <1>3, <1>4, <1>6, <1>7

(* Taking flows away: the total is the opposite.                           *)
LEMMA TotalNegated ==
    ASSUME NEW g \in [Accounts -> Int], NEW f \in [Accounts -> Int],
           \A a \in Accounts : f[a] = -g[a]
    PROVE  Sum(f, NumAccounts) \in Int /\ Sum(g, NumAccounts) \in Int
           /\ Sum(f, NumAccounts) + Sum(g, NumAccounts) = 0
<1>1. Sum(f, NumAccounts) \in Int /\ Sum(g, NumAccounts) \in Int
    BY TotalInt
<1>2. \A a \in Accounts : NoRates[a] = f[a] + g[a]
    BY DEF NoRates
<1>3. Sum(NoRates, NumAccounts) = Sum(f, NumAccounts) + Sum(g, NumAccounts)
    BY <1>2, NoRatesSum, TotalAdd
<1> QED
    BY <1>1, <1>3, NoRatesSum

(* The record an EndBlock loop works on belongs to a payer.                *)
LEMMA VisitFacts ==
    ASSUME TypeOK, visit # NoVisit
    PROVE  visit.addr \in Payers /\ visit.ts \in Int /\ visit.addr \in Accounts
BY AccountFacts DEF TypeOK

(* One flow of a frozen payer p to r changes its status: the rate d moves  *)
(* from frozen to active (resuming), or -d back (settling).                *)
FlowMoved(p, r, d) ==
    /\ rec' = [rec EXCEPT ![r] = Credited(rec[r], 0, d),
                          ![p] = [rec[p] EXCEPT !.netflow = @ - d, !.frozen = @ + d]]
    /\ active' = [active EXCEPT ![p] = [active[p] EXCEPT ![r] = active[p][r] + d]]
    /\ frozen' = [frozen EXCEPT ![p] = [frozen[p] EXCEPT ![r] = frozen[p][r] - d]]
    /\ stored' = stored \cup {r}

(* One flow of AutoResume becomes active.                                  *)
LEMMA ResumeFlowMoves ==
    ASSUME IInv, NEW r \in Receivers, ResumeFlow(r)
    PROVE  LET p == visit.addr
               rate == frozen[p][r] IN
           /\ p \in Payers /\ FlowMoved(p, r, rate) /\ rate \in Nat /\ rate # 0 /\ active[p][r] = 0
<1> DEFINE p == visit.addr
           rate == frozen[p][r]
<1>1. TypeOK /\ CoreInv /\ visit # NoVisit /\ rate # 0
    BY DEF IInv, ResumeFlow, IsFirstFlow
<1>2. p \in Payers /\ r \in Accounts /\ rate \in Nat /\ active[p][r] \in Nat
    BY <1>1, VisitFacts, AccountFacts DEF TypeOK
<1>3. active[p][r] = 0
    BY <1>1, <1>2 DEF CoreInv, FlowsNotDoubled
<1>4. active[p][r] + rate = rate /\ frozen[p][r] - rate = 0
    BY <1>2, <1>3
<1>5. /\ rec' = [rec EXCEPT ![r] = Credited(rec[r], 0, rate),
                            ![p] = [rec[p] EXCEPT !.netflow = @ - rate, !.frozen = @ + rate]]
      /\ frozen' = [frozen EXCEPT ![p] = [frozen[p] EXCEPT ![r] = 0]]
      /\ active' = [active EXCEPT ![p] = [active[p] EXCEPT ![r] = rate]]
      /\ stored' = stored \cup {r}
    BY DEF ResumeFlow
<1> HIDE DEF rate, p
<1>6. FlowMoved(p, r, rate)
    <2>1. /\ frozen' = [frozen EXCEPT ![p] = [frozen[p] EXCEPT ![r] = frozen[p][r] - rate]]
          /\ active' = [active EXCEPT ![p] = [active[p] EXCEPT ![r] = active[p][r] + rate]]
        BY <1>4, <1>5
    <2> QED
        BY <1>5, <2>1 DEF FlowMoved
<1> QED
    BY <1>1, <1>2, <1>3, <1>6 DEF rate, p

(* One flow of AutoSettle is frozen.                                       *)
LEMMA SettleFlowMoves ==
    ASSUME IInv, NEW r \in Receivers, SettleFlow(r)
    PROVE  LET p == visit.addr
               rate == active[p][r] IN
           /\ p \in Payers /\ FlowMoved(p, r, -rate) /\ rate \in Nat /\ rate # 0 /\ frozen[p][r] = 0
<1> DEFINE p == visit.addr
           rate == active[p][r]
<1>1. TypeOK /\ CoreInv /\ visit # NoVisit /\ rate # 0
    BY DEF IInv, SettleFlow, IsFirstFlow
<1>2. p \in Payers /\ r \in Accounts /\ rate \in Nat /\ frozen[p][r] \in Nat
    BY <1>1, VisitFacts, AccountFacts DEF TypeOK
<1>3. frozen[p][r] = 0
    BY <1>1, <1>2 DEF CoreInv, FlowsNotDoubled
<1>4. active[p][r] + (-rate) = 0 /\ frozen[p][r] - (-rate) = rate
    BY <1>2, <1>3
<1>5. /\ rec' = [rec EXCEPT ![r] = Credited(rec[r], 0, -rate),
                            ![p] = [rec[p] EXCEPT !.netflow = rec[p].netflow + rate,
                                                  !.frozen = rec[p].frozen - rate]]
      /\ frozen' = [frozen EXCEPT ![p] = [frozen[p] EXCEPT ![r] = rate]]
      /\ active' = [active EXCEPT ![p] = [active[p] EXCEPT ![r] = 0]]
      /\ stored' = stored \cup {r}
    BY DEF SettleFlow
<1> HIDE DEF rate, p
<1>6. rec[p].netflow + rate = rec[p].netflow - (-rate) /\ rec[p].frozen - rate = rec[p].frozen + (-rate)
    BY <1>1, <1>2, AccountFacts DEF TypeOK, StreamRecord
<1>7. rec' = [rec EXCEPT ![r] = Credited(rec[r], 0, -rate),
                         ![p] = [rec[p] EXCEPT !.netflow = @ - (-rate), !.frozen = @ + (-rate)]]
    BY <1>5, <1>6
<1>8. FlowMoved(p, r, -rate)
    <2>1. /\ frozen' = [frozen EXCEPT ![p] = [frozen[p] EXCEPT ![r] = frozen[p][r] - (-rate)]]
          /\ active' = [active EXCEPT ![p] = [active[p] EXCEPT ![r] = active[p][r] + (-rate)]]
        BY <1>4, <1>5
    <2> QED
        BY <1>5, <1>7, <2>1 DEF FlowMoved
<1> QED
    BY <1>1, <1>2, <1>3, <1>8 DEF rate, p
=============================================================================
