--------------------------- MODULE StateDBProofs ---------------------------
(***************************************************************************)
(* For all addresses, values and journal lengths: the revisions that       *)
(* RevertToSnapshot searches are in order and point into the journal; the  *)
(* dirty counts are those of the journal; and what Revert restores is a    *)
(* state that fits the entries that are left, so that balances, refunds    *)
(* and the access list stay what their types say.                          *)
(***************************************************************************)
EXTENDS StateDB, FiniteSetTheorems, WellFoundedInduction, TLAPS

(* A leaf that names no prover is for Zenon, with more time than the       *)
(* default.                                                                *)
USE ZenonT(20)

(* What an entry holds is of no importance here.                           *)
IsSeq(q) == \E S : q \in Seq(S)

(* The invariant: RevisionsOrdered, with what makes Len(journal) and the   *)
(* comparisons of ids and indices meaningful.                              *)
Ordered ==
    /\ IsSeq(journal)
    /\ IsSeq(validRevisions)
    /\ \A i \in DOMAIN validRevisions : validRevisions[i].id \in Nat /\ validRevisions[i].index \in Nat
    /\ nextRevisionID \in Nat
    /\ RevisionsOrdered

(* All that the methods other than Snapshot and RevertToSnapshot do to the *)
(* journal and the revisions.                                              *)
Grows ==
    /\ IsSeq(journal') /\ Len(journal') >= Len(journal)
    /\ UNCHANGED revisionVars

(* Sequences of anything: one entry, appending and concatenation.          *)
LEMMA EmptyIsSeq == IsSeq(<<>>)
BY SMT DEF IsSeq

(* A list of one entry is a sequence.                                      *)
LEMMA SingleIsSeq == ASSUME NEW e PROVE IsSeq(<<e>>)
<1>1. <<e>> \in Seq({e})
  BY SMT
<1> QED BY <1>1 DEF IsSeq

(* Appending an entry to the journal makes a longer sequence that ends in  *)
(* it.                                                                     *)
LEMMA AppendIsSeq ==
    ASSUME NEW q, NEW e, IsSeq(q)
    PROVE /\ IsSeq(Append(q, e))
          /\ DOMAIN Append(q, e) = 1..(Len(q) + 1)
          /\ Append(q, e)[Len(q) + 1] = e
          /\ \A i \in 1..Len(q) : Append(q, e)[i] = q[i]
<1>1. PICK S : q \in Seq(S)
  BY DEF IsSeq
<1>2. q \in Seq(S \cup {e})
  BY SMT, <1>1
<1>3. /\ Append(q, e) \in Seq(S \cup {e})
      /\ DOMAIN Append(q, e) = 1..(Len(q) + 1)
      /\ Append(q, e)[Len(q) + 1] = e
      /\ \A i \in 1..Len(q) : Append(q, e)[i] = q[i]
  BY SMT, <1>2
<1> QED BY <1>3 DEF IsSeq

(* Cutting the journal at a snapshot leaves its first entries, in order.   *)
LEMMA PrefixIsSeq ==
    ASSUME NEW q, NEW n \in Nat, IsSeq(q), n <= Len(q)
    PROVE /\ IsSeq(SubSeq(q, 1, n)) /\ Len(SubSeq(q, 1, n)) = n
          /\ DOMAIN SubSeq(q, 1, n) = 1..n
          /\ \A i \in 1..n : SubSeq(q, 1, n)[i] = q[i]
<1>1. PICK S : q \in Seq(S)
  BY DEF IsSeq
<1>2. /\ SubSeq(q, 1, n) \in Seq(S) /\ Len(SubSeq(q, 1, n)) = n
      /\ DOMAIN SubSeq(q, 1, n) = 1..n
      /\ \A i \in 1..n : SubSeq(q, 1, n)[i] = q[i]
  BY SMT, <1>1
<1> QED BY <1>2 DEF IsSeq

(* The journal's length is a natural, its positions are numbered from 1.   *)
LEMMA LenIsNat == ASSUME NEW q, IsSeq(q) PROVE Len(q) \in Nat /\ DOMAIN q = 1..Len(q)
<1>1. PICK S : q \in Seq(S)
  BY DEF IsSeq
<1> QED BY SMT, <1>1

(* Adding a block of entries never shortens the journal.                   *)
LEMMA ConcatIsSeq ==
    ASSUME NEW q, NEW r, IsSeq(q), IsSeq(r)
    PROVE IsSeq(q \o r) /\ Len(q \o r) >= Len(q) /\ Len(q) \in Nat
<1>1. PICK S : q \in Seq(S)
  BY DEF IsSeq
<1>2. PICK T : r \in Seq(T)
  BY DEF IsSeq
<1>3. q \in Seq(S \cup T) /\ r \in Seq(S \cup T)
  BY SMT, <1>1, <1>2
<1>4. q \o r \in Seq(S \cup T) /\ Len(q \o r) = Len(q) + Len(r) /\ Len(q) \in Nat /\ Len(r) \in Nat
  BY SMT, <1>3
<1> QED BY SMT, <1>4 DEF IsSeq

(* A method that records entries only makes the journal longer.            *)
LEMMA RecordGrows ==
    ASSUME NEW st, NEW entries, IsSeq(journal), IsSeq(entries), Record(st, entries)
    PROVE Grows
BY ConcatIsSeq DEF Record, Grows, revisionVars

(* The entries of createObject and getOrNewStateObject are a sequence.     *)
LEMMA CreateEntries == ASSUME NEW st, NEW a PROVE IsSeq(createObject(st, a).entries)
BY SingleIsSeq DEF createObject

(* getOrNewStateObject journals a sequence of entries, empty when the      *)
(* object exists.                                                          *)
LEMMA GetOrNewEntries == ASSUME NEW a PROVE IsSeq(getOrNewStateObject(a).entries)
BY CreateEntries, EmptyIsSeq DEF getOrNewStateObject

(* The methods about accounts.                                             *)
LEMMA AccountMethodGrows ==
    ASSUME NEW a, IsSeq(journal), AccountMethod(a)
    PROVE Grows
<1> DEFINE g == getOrNewStateObject(a)
<1>1. IsSeq(g.entries) /\ \A e : IsSeq(Append(g.entries, e))
  BY GetOrNewEntries, AppendIsSeq
<1>2. ASSUME NEW x, ChangeBalance(a, x) PROVE Grows
  BY <1>1, <1>2, RecordGrows DEF ChangeBalance
<1>3. ASSUME NEW n, SetNonce(a, n) PROVE Grows
  BY <1>1, <1>3, RecordGrows DEF SetNonce
<1>4. ASSUME NEW c, SetCode(a, c) PROVE Grows
  BY <1>1, <1>4, RecordGrows DEF SetCode
<1>5. ASSUME NEW k, NEW v, SetState(a, k, v) PROVE Grows
  BY <1>1, <1>5, RecordGrows DEF SetState
<1>6. ASSUME CreateAccount(a) PROVE Grows
  BY <1>6, CreateEntries, RecordGrows DEF CreateAccount
<1>7. ASSUME CreateContract(a) PROVE Grows
  BY <1>7, CreateEntries, AppendIsSeq, RecordGrows DEF CreateContract
<1>8. ASSUME Suicide(a) PROVE Grows
  BY <1>8, SingleIsSeq, RecordGrows DEF Suicide
<1>9. ASSUME SelfDestruct(a) PROVE Grows
  BY <1>9, SingleIsSeq, RecordGrows DEF SelfDestruct
<1>10. ASSUME Selfdestruct6780(a) PROVE Grows
  BY <1>9, <1>10, EmptyIsSeq, RecordGrows DEF Selfdestruct6780
<1> QED
  BY <1>2, <1>3, <1>4, <1>5, <1>6, <1>7, <1>8, <1>9, <1>10 DEF AccountMethod, AddBalance, SubBalance

(* The methods about everything else.                                      *)
LEMMA OtherMethodGrows ==
    ASSUME IsSeq(journal), OtherMethod
    PROVE Grows
<1>1. ASSUME NEW x, AddRefund(x) PROVE Grows
  BY <1>1, SingleIsSeq, RecordGrows DEF AddRefund
<1>2. ASSUME NEW p, AddLog(p) PROVE Grows
  BY <1>2, SingleIsSeq, RecordGrows DEF AddLog
<1>3. ASSUME NEW a, AddAddressToAccessList(a) PROVE Grows
  BY <1>3, SingleIsSeq, RecordGrows DEF AddAddressToAccessList
<1>4. ASSUME NEW a, NEW k, AddSlotToAccessList(a, k) PROVE Grows
  <2> DEFINE new == IF a \in DOMAIN s.addresses THEN <<>> ELSE <<Entry("accessAccount", a, NoAccount, NoAccount)>>
  <2>1. IsSeq(new)
    BY EmptyIsSeq, SingleIsSeq
  <2>2. IsSeq(Append(new, Entry("accessSlot", a, k, NoAccount)))
    BY <2>1, AppendIsSeq
  <2>3. \E st : Record(st, Append(new, Entry("accessSlot", a, k, NoAccount)))
    BY <1>4 DEF AddSlotToAccessList
  <2> QED BY <2>2, <2>3, RecordGrows
<1>5. ASSUME NEW a, NEW k, NEW v, SetTransientState(a, k, v) PROVE Grows
  BY <1>5, SingleIsSeq, RecordGrows DEF SetTransientState
<1> QED
  BY <1>1, <1>2, <1>3, <1>4, <1>5 DEF OtherMethod, SubRefund

(* A longer journal keeps the revisions in order.                          *)
LEMMA GrowsKeepsOrdered == ASSUME Ordered, Grows PROVE Ordered'
<1>1. /\ Len(journal) \in Nat /\ Len(journal') \in Nat /\ Len(journal') >= Len(journal)
      /\ validRevisions' = validRevisions /\ nextRevisionID' = nextRevisionID
  BY LenIsNat DEF Ordered, Grows, revisionVars
<1>2. \A i \in DOMAIN validRevisions : validRevisions[i].index <= Len(journal')
  BY SMT, <1>1 DEF Ordered, RevisionsOrdered
<1>3. RevisionsOrdered'
  BY <1>1, <1>2 DEF Ordered, RevisionsOrdered
<1> QED BY <1>1, <1>3 DEF Ordered, Grows

(* The new revision is the last in id and in position.                     *)
LEMMA SnapshotKeepsOrdered == ASSUME Ordered, Snapshot PROVE Ordered'
<1> DEFINE r == [id |-> nextRevisionID, index |-> Len(journal)]
           n == Len(validRevisions)
<1>1. /\ Len(journal) \in Nat /\ nextRevisionID \in Nat
      /\ n \in Nat /\ DOMAIN validRevisions = 1..n
  BY LenIsNat DEF Ordered
<1>2. /\ validRevisions' = Append(validRevisions, r)
      /\ nextRevisionID' = nextRevisionID + 1 /\ journal' = journal
  BY DEF Snapshot, journalVars
<1>3. r.id = nextRevisionID /\ r.index = Len(journal)
  OBVIOUS
<1> HIDE DEF r
<1>4. /\ IsSeq(validRevisions') /\ DOMAIN validRevisions' = 1..(n + 1)
      /\ validRevisions'[n + 1] = r
      /\ \A i \in 1..n : validRevisions'[i] = validRevisions[i]
  BY SMT, <1>2, AppendIsSeq DEF Ordered
<1> HIDE DEF n
<1>5. \A i \in 1..n : /\ validRevisions[i].id \in Nat /\ validRevisions[i].index \in Nat
                      /\ validRevisions[i].index <= Len(journal)
                      /\ validRevisions[i].id < nextRevisionID
                      /\ \A j \in 1..(i - 1) : /\ validRevisions[j].id < validRevisions[i].id
                                                /\ validRevisions[j].index <= validRevisions[i].index
  BY <1>1 DEF Ordered, RevisionsOrdered
<1>6. ASSUME NEW i \in 1..(n + 1)
      PROVE /\ validRevisions'[i].id \in Nat /\ validRevisions'[i].index \in Nat
            /\ validRevisions'[i].index <= Len(journal)
            /\ validRevisions'[i].id < nextRevisionID + 1
            /\ \A j \in 1..(i - 1) : /\ validRevisions'[j].id < validRevisions'[i].id
                                     /\ validRevisions'[j].index <= validRevisions'[i].index
  <2>1. CASE i = n + 1
    <3>1. validRevisions'[i].id = nextRevisionID /\ validRevisions'[i].index = Len(journal)
      BY <2>1, <1>3, <1>4
    <3>2. \A j \in 1..(i - 1) : j \in 1..n /\ validRevisions'[j] = validRevisions[j]
      BY SMT, <2>1, <1>1, <1>4
    <3> QED BY SMTT(20), <3>1, <3>2, <1>1, <1>5
  <2>2. CASE i \in 1..n
    <3>1. \A j \in 1..(i - 1) : j \in 1..n /\ validRevisions'[j] = validRevisions[j]
      BY SMT, <2>2, <1>1, <1>4
    <3>2. validRevisions'[i] = validRevisions[i]
      BY <2>2, <1>4
    <3> QED BY SMT, <2>2, <3>1, <3>2, <1>1, <1>5
  <2> QED BY SMT, <2>1, <2>2, <1>1
<1>7. RevisionsOrdered'
  BY <1>2, <1>4, <1>6 DEF RevisionsOrdered
<1> QED BY SMT, <1>1, <1>2, <1>4, <1>6, <1>7 DEF Ordered

(* What is left of the revisions lies before the one gone back to, so it   *)
(* points into what is left of the journal.                                *)
LEMMA RevertKeepsOrdered == ASSUME NEW revid, Ordered, RevertToSnapshot(revid) PROVE Ordered'
<1>1. PICK idx \in DOMAIN validRevisions :
          /\ Revert(validRevisions[idx].index)
          /\ validRevisions' = SubSeq(validRevisions, 1, idx - 1)
  BY DEF RevertToSnapshot
<1> DEFINE m == validRevisions[idx].index
<1>2. /\ Len(journal) \in Nat /\ Len(validRevisions) \in Nat
      /\ DOMAIN validRevisions = 1..Len(validRevisions)
  BY LenIsNat DEF Ordered
<1>3. m \in Nat /\ m <= Len(journal)
  BY <1>1 DEF Ordered, RevisionsOrdered
<1>4. journal' = SubSeq(journal, 1, m) /\ nextRevisionID' = nextRevisionID
  BY <1>1 DEF Revert, RevertToSnapshot
<1>5. \A i \in 1..(idx - 1) :
          /\ validRevisions[i].id \in Nat /\ validRevisions[i].index \in Nat
          /\ validRevisions[i].index <= m
          /\ validRevisions[i].id < nextRevisionID
          /\ \A j \in 1..(i - 1) : /\ validRevisions[j].id < validRevisions[i].id
                                   /\ validRevisions[j].index <= validRevisions[i].index
  <2>1. \A i \in 1..(idx - 1) : i \in DOMAIN validRevisions
    BY SMT, <1>2
  <2> QED BY <2>1, <1>1 DEF Ordered, RevisionsOrdered
<1> HIDE DEF m
<1>6. IsSeq(journal') /\ Len(journal') = m
  BY <1>3, <1>4, PrefixIsSeq DEF Ordered
<1>7. /\ IsSeq(validRevisions') /\ DOMAIN validRevisions' = 1..(idx - 1)
      /\ \A i \in 1..(idx - 1) : validRevisions'[i] = validRevisions[i]
  <2>1. idx - 1 \in Nat /\ idx - 1 <= Len(validRevisions)
    BY SMT, <1>2
  <2> QED BY <2>1, <1>1, PrefixIsSeq DEF Ordered
<1>8. ASSUME NEW i \in 1..(idx - 1)
      PROVE /\ validRevisions'[i].index <= m
            /\ validRevisions'[i].id < nextRevisionID
            /\ \A j \in 1..(i - 1) : /\ validRevisions'[j].id < validRevisions'[i].id
                                     /\ validRevisions'[j].index <= validRevisions'[i].index
  <2>1. \A j \in 1..(i - 1) : validRevisions'[j] = validRevisions[j]
    BY SMT, <1>2, <1>7
  <2>2. validRevisions'[i] = validRevisions[i]
    BY <1>7
  <2> QED BY <2>1, <2>2, <1>5
<1>9. RevisionsOrdered'
  BY <1>4, <1>6, <1>7, <1>8 DEF RevisionsOrdered
<1>10. \A i \in DOMAIN validRevisions' : validRevisions'[i].id \in Nat /\ validRevisions'[i].index \in Nat
  BY <1>5, <1>7
<1> QED BY <1>4, <1>6, <1>7, <1>9, <1>10 DEF Ordered

(* A transaction starts without entries and revisions.                     *)
LEMMA NewIsOrdered == ASSUME New PROVE Ordered'
<1>1. journal' = <<>> /\ validRevisions' = <<>> /\ nextRevisionID' = 0
  BY DEF New
<1>2. IsSeq(journal') /\ IsSeq(validRevisions')
  BY <1>1, EmptyIsSeq
<1> QED BY SMT, <1>1, <1>2 DEF Ordered, RevisionsOrdered

(* Every method, and the end of a transaction, keeps the revisions in      *)
(* order.                                                                  *)
LEMMA AlwaysOrdered == Spec => []Ordered
<1>1. Init => Ordered
  <2>1. ASSUME Init PROVE IsSeq(journal) /\ IsSeq(validRevisions) /\ validRevisions = <<>> /\ nextRevisionID = 0
    BY <2>1, EmptyIsSeq DEF Init
  <2> QED BY SMT, <2>1 DEF Ordered, RevisionsOrdered
<1>2. Ordered /\ [Next]_vars => Ordered'
  <2> SUFFICES ASSUME Ordered, [Next]_vars PROVE Ordered'
    OBVIOUS
  <2>0. IsSeq(journal)
    BY DEF Ordered
  <2>1. ASSUME NEW a, AccountMethod(a) PROVE Ordered'
    BY <2>0, <2>1, AccountMethodGrows, GrowsKeepsOrdered
  <2>2. CASE OtherMethod
    BY <2>0, <2>2, OtherMethodGrows, GrowsKeepsOrdered
  <2>3. CASE Snapshot
    BY <2>3, SnapshotKeepsOrdered
  <2>4. ASSUME NEW revid, RevertToSnapshot(revid) PROVE Ordered'
    BY <2>4, RevertKeepsOrdered
  <2>5. CASE Commit \/ Discard
    BY <2>5, NewIsOrdered DEF Commit, Discard
  <2>6. CASE UNCHANGED vars
    BY <2>6 DEF vars, journalVars, revisionVars, Ordered, RevisionsOrdered
  <2> QED BY <2>1, <2>2, <2>3, <2>4, <2>5, <2>6 DEF Next
<1> QED BY <1>1, <1>2, PTL DEF Spec

(* The revisions are ordered by id and by position in the journal, and     *)
(* none is beyond the journal, in every reachable state of every instance: *)
(* RevertToSnapshot's binary search finds a revision that is valid, and    *)
(* journal.Revert is never asked for an index past the end.                *)
THEOREM RevisionsAreOrdered == Spec => []RevisionsOrdered
<1>1. Ordered => RevisionsOrdered
  BY DEF Ordered
<1> QED BY <1>1, AlwaysOrdered, PTL
-----------------------------------------------------------------------------
(***************************************************************************)
(* The dirty counts of the journal.                                        *)
(***************************************************************************)

(* A set that holds 0 and the successor of each of its members holds every *)
(* natural number.                                                         *)
LEMMA NatSetInduction ==
    ASSUME NEW S, 0 \in S, \A n \in Nat : n \in S => n + 1 \in S
    PROVE  \A n \in Nat : n \in S
<1> DEFINE T == {k \in Nat : k \notin S}
<1>1. SUFFICES ASSUME T # {}
               PROVE  FALSE
  OBVIOUS
<1>2. PICK k \in T : \A j \in T : <<j, k>> \notin OpToRel(<, Nat)
  <2>1. T \subseteq Nat /\ IsWellFoundedOn(OpToRel(<, Nat), Nat)
    BY Zenon, NatLessThanWellFounded
  <2> HIDE DEF T
  <2> QED BY Zenon, <1>1, <2>1, WFMin
<1>3. k \in Nat /\ k # 0 /\ k - 1 \in Nat /\ (k - 1) + 1 = k
  BY SMT
<1>4. k - 1 \in T
  BY <1>3
<1>5. <<k - 1, k>> \in OpToRel(<, Nat)
  BY SMT, <1>3 DEF OpToRel
<1> QED BY Zenon, <1>2, <1>4, <1>5

(* The entries up to the n-th that mark account a dirty.                   *)
Places(q, n, a) == {i \in 1..n : q[i].dirtied = a}

(* d is what append makes of the first n entries of q.                     *)
ExactTo(d, q, n) ==
    /\ DOMAIN d = {q[i].dirtied : i \in 1..n} \ {NoAccount}
    /\ \A a \in DOMAIN d : d[a] = Cardinality(Places(q, n, a))

(* One more entry adds one to the count of its account.                    *)
LEMMA PlacesGrow ==
    ASSUME NEW q, NEW n \in Nat, NEW a
    PROVE  /\ Cardinality(Places(q, n, a)) \in Nat
           /\ Cardinality(Places(q, n + 1, a)) =
                 Cardinality(Places(q, n, a)) + (IF q[n + 1].dirtied = a THEN 1 ELSE 0)
           /\ (Cardinality(Places(q, n, a)) = 0) <=> (\A i \in 1..n : q[i].dirtied # a)
<1>1. IsFiniteSet(Places(q, n, a)) /\ Cardinality(Places(q, n, a)) \in Nat
  <2>1. IsFiniteSet(1..n) /\ Places(q, n, a) \subseteq 1..n
    BY SMT, FS_Interval DEF Places
  <2>2. IsFiniteSet(Places(q, n, a))
    BY Zenon, <2>1, FS_Subset
  <2> QED
    BY <2>2, FS_CardinalityType
<1>2. ASSUME q[n + 1].dirtied = a PROVE Cardinality(Places(q, n + 1, a)) = Cardinality(Places(q, n, a)) + 1
  <2>1. Places(q, n + 1, a) = Places(q, n, a) \cup {n + 1} /\ n + 1 \notin Places(q, n, a)
    BY SMT, <1>2 DEF Places
  <2> QED
    BY <1>1, <2>1, FS_AddElement
<1>3. ASSUME q[n + 1].dirtied # a PROVE Cardinality(Places(q, n + 1, a)) = Cardinality(Places(q, n, a))
  <2>1. Places(q, n + 1, a) = Places(q, n, a)
    BY SMT, <1>3 DEF Places
  <2> QED
    BY <2>1
<1>4. (Cardinality(Places(q, n, a)) = 0) <=> Places(q, n, a) = {}
  BY <1>1, FS_EmptySet
<1>5. Places(q, n, a) = {} <=> \A i \in 1..n : q[i].dirtied # a
  BY DEF Places
<1> QED
  BY SMT, <1>1, <1>2, <1>3, <1>4, <1>5

(* append keeps the counts exact.                                          *)
LEMMA OneMore ==
    ASSUME NEW q, NEW d, NEW n \in Nat, ExactTo(d, q, n)
    PROVE  ExactTo(Count(d, q[n + 1]), q, n + 1)
<1> DEFINE e == q[n + 1].dirtied
           d1 == Count(d, q[n + 1])
<1>1. {q[i].dirtied : i \in 1..(n + 1)} = {q[i].dirtied : i \in 1..n} \cup {e}
  <2>1. \A i : i \in 1..(n + 1) <=> i \in 1..n \/ i = n + 1
    BY SMT
  <2> QED
    BY <2>1
<1>2. CASE e = NoAccount
  <2>1. d1 = d
    BY <1>2 DEF Count
  <2>2. \A a \in DOMAIN d : Cardinality(Places(q, n + 1, a)) = Cardinality(Places(q, n, a))
    BY SMT, <1>2, PlacesGrow DEF ExactTo
  <2> QED
    BY <1>1, <1>2, <2>1, <2>2 DEF ExactTo
<1>3. CASE e # NoAccount
  <2>1. d1 = With(d, e, IF e \in DOMAIN d THEN d[e] + 1 ELSE 1)
    BY <1>3 DEF Count
  <2>2. DOMAIN d1 = DOMAIN d \cup {e}
    BY <2>1 DEF With
  <2>3. DOMAIN d1 = {q[i].dirtied : i \in 1..(n + 1)} \ {NoAccount}
    BY <1>1, <1>3, <2>2 DEF ExactTo
  <2>4. ASSUME NEW a \in DOMAIN d1 PROVE d1[a] = Cardinality(Places(q, n + 1, a))
    <3>1. CASE a # e
      <4>1. a \in DOMAIN d /\ d1[a] = d[a]
        BY <2>1, <2>2, <3>1 DEF With
      <4> QED
        BY SMT, <3>1, <4>1, PlacesGrow DEF ExactTo
    <3>2. CASE a = e /\ e \in DOMAIN d
      <4>1. d1[a] = d[e] + 1
        BY <2>1, <3>2 DEF With
      <4> QED
        BY SMT, <3>2, <4>1, PlacesGrow DEF ExactTo
    <3>3. CASE a = e /\ e \notin DOMAIN d
      <4>1. d1[a] = 1
        BY <2>1, <3>3 DEF With
      <4>2. \A i \in 1..n : q[i].dirtied # e
        BY <1>3, <3>3 DEF ExactTo
      <4>3. Cardinality(Places(q, n, e)) = 0 /\ Cardinality(Places(q, n + 1, e)) = Cardinality(Places(q, n, e)) + 1
        BY SMT, <4>2, PlacesGrow
      <4> QED
        BY SMT, <3>3, <4>1, <4>3
    <3> QED
      BY <3>1, <3>2, <3>3
  <2> QED
    BY <2>3, <2>4 DEF ExactTo
<1> QED
  BY <1>2, <1>3

(* Revert of the last entry keeps the counts exact.                        *)
LEMMA OneLess ==
    ASSUME NEW q, NEW d, NEW n \in Nat, ExactTo(d, q, n + 1)
    PROVE  ExactTo(Uncount(d, q[n + 1]), q, n)
<1> DEFINE e == q[n + 1].dirtied
           d1 == Uncount(d, q[n + 1])
<1>1. {q[i].dirtied : i \in 1..(n + 1)} = {q[i].dirtied : i \in 1..n} \cup {e}
  <2>1. \A i : i \in 1..(n + 1) <=> i \in 1..n \/ i = n + 1
    BY SMT
  <2> QED
    BY <2>1
<1>2. CASE e = NoAccount
  <2>1. d1 = d
    BY <1>2 DEF Uncount
  <2>2. \A a \in DOMAIN d : Cardinality(Places(q, n + 1, a)) = Cardinality(Places(q, n, a))
    BY SMT, <1>2, PlacesGrow DEF ExactTo
  <2> QED
    BY <1>1, <1>2, <2>1, <2>2 DEF ExactTo
<1>3. CASE e # NoAccount
  <2>1. e \in DOMAIN d /\ d[e] = Cardinality(Places(q, n, e)) + 1
    BY SMT, <1>1, <1>3, PlacesGrow DEF ExactTo
  <2>2. CASE d[e] = 1
    <3>1. d1 = Without(d, e)
      BY <1>3, <2>2 DEF Uncount
    <3>2. DOMAIN d1 = DOMAIN d \ {e} /\ \A a \in DOMAIN d1 : d1[a] = d[a]
      BY <3>1 DEF Without, Restrict
    <3>3. \A i \in 1..n : q[i].dirtied # e
      <4>1. /\ Cardinality(Places(q, n, e)) \in Nat
            /\ (Cardinality(Places(q, n, e)) = 0) <=> (\A i \in 1..n : q[i].dirtied # e)
        BY PlacesGrow
      <4>2. Cardinality(Places(q, n, e)) = 0
        BY SMT, <2>1, <2>2, <4>1
      <4> QED BY <4>1, <4>2
    <3>4. DOMAIN d1 = {q[i].dirtied : i \in 1..n} \ {NoAccount}
      BY <1>1, <3>2, <3>3 DEF ExactTo
    <3>5. \A a \in DOMAIN d1 : d1[a] = Cardinality(Places(q, n, a))
      BY SMT, <3>2, PlacesGrow DEF ExactTo
    <3> QED
      BY <3>4, <3>5 DEF ExactTo
  <2>3. CASE d[e] # 1
    <3>1. d1 = [d EXCEPT ![e] = @ - 1]
      BY <1>3, <2>3 DEF Uncount
    <3>2. ~(\A i \in 1..n : q[i].dirtied # e)
      BY SMT, <2>1, <2>3, PlacesGrow
    <3>3. DOMAIN d1 = {q[i].dirtied : i \in 1..n} \ {NoAccount}
      BY SMT, <1>1, <3>1, <3>2 DEF ExactTo
    <3>4. ASSUME NEW a \in DOMAIN d1 PROVE d1[a] = Cardinality(Places(q, n, a))
      <4>1. CASE a = e
        <5>1. d1[a] = d[e] - 1 /\ Cardinality(Places(q, n, e)) \in Nat
          BY <2>1, <3>1, <4>1, PlacesGrow
        <5> QED
          BY SMT, <2>1, <4>1, <5>1
      <4>2. CASE a # e
        <5>1. a \in DOMAIN d /\ d1[a] = d[a] /\ q[n + 1].dirtied # a
          BY <3>1, <4>2
        <5>2. Cardinality(Places(q, n + 1, a)) = Cardinality(Places(q, n, a))
          BY SMT, <5>1, PlacesGrow
        <5> QED
          BY <5>1, <5>2 DEF ExactTo
      <4> QED
        BY <4>1, <4>2
    <3> QED
      BY <3>3, <3>4 DEF ExactTo
  <2> QED
    BY <2>2, <2>3
<1> QED
  BY <1>2, <1>3
(* The counts while entries are appended one after the other to d.         *)
IsCounting(f, d, entries, m) ==
    f = [i \in 0..m |-> IF i = 0 THEN d ELSE Count(f[i - 1], entries[i])]

(* That recursion has a solution.                                          *)
LEMMA CountingExists ==
    ASSUME NEW d, NEW entries, NEW m \in Nat
    PROVE  \E f : IsCounting(f, d, entries, m)
<1> DEFINE S == {k \in Nat : \E f : IsCounting(f, d, entries, k)}
<1>1. 0 \in S
  <2>1. IsCounting([i \in 0..0 |-> d], d, entries, 0)
    BY SMT DEF IsCounting
  <2> QED BY <2>1
<1>2. ASSUME NEW k \in Nat, k \in S PROVE k + 1 \in S
  <2>1. PICK f : IsCounting(f, d, entries, k)
    BY <1>2
  <2> DEFINE g == [i \in 0..(k + 1) |-> IF i = k + 1 THEN Count(f[k], entries[k + 1]) ELSE f[i]]
  <2>2. ASSUME NEW i \in 0..(k + 1) PROVE g[i] = IF i = 0 THEN d ELSE Count(g[i - 1], entries[i])
    <3>1. CASE i = k + 1
      <4>1. g[i - 1] = f[k] /\ i # 0 /\ g[i] = Count(f[k], entries[i])
        BY SMT, <3>1
      <4> QED BY <4>1
    <3>2. CASE i \in 0..k /\ i # 0
      <4>1. g[i] = f[i] /\ i - 1 \in 0..k /\ g[i - 1] = f[i - 1]
        BY SMT, <3>2
      <4>2. f[i] = Count(f[i - 1], entries[i])
        BY <2>1, <3>2 DEF IsCounting
      <4> QED BY <3>2, <4>1, <4>2
    <3>3. CASE i = 0
      BY SMT, <2>1, <3>3 DEF IsCounting
    <3> QED BY SMT, <3>1, <3>2, <3>3
  <2>3. DOMAIN g = 0..(k + 1) /\ g = [i \in 0..(k + 1) |-> g[i]]
    OBVIOUS
  <2> HIDE DEF g
  <2>4. IsCounting(g, d, entries, k + 1)
    BY <2>2, <2>3 DEF IsCounting
  <2> QED BY SMT, <2>4
<1> HIDE DEF S
<1>3. m \in S
  BY <1>1, <1>2, NatSetInduction
<1> QED BY <1>3 DEF S

(* Counts depend on the entries up to n only.                              *)
LEMMA SameCounts ==
    ASSUME NEW d, NEW q, NEW r, NEW n \in Nat, \A i \in 1..n : q[i] = r[i], ExactTo(d, q, n)
    PROVE  ExactTo(d, r, n)
<1>1. {q[i].dirtied : i \in 1..n} = {r[i].dirtied : i \in 1..n}
  OBVIOUS
<1>2. \A a : Places(q, n, a) = Places(r, n, a)
  BY DEF Places
<1> QED BY <1>1, <1>2 DEF ExactTo

(* The entries of a longer journal.                                        *)
LEMMA Concatenated ==
    ASSUME NEW q, NEW r, IsSeq(q), IsSeq(r)
    PROVE  /\ Len(q) \in Nat /\ Len(r) \in Nat /\ Len(q \o r) = Len(q) + Len(r) /\ IsSeq(q \o r)
           /\ \A i \in 1..Len(q) : (q \o r)[i] = q[i]
           /\ \A i \in 1..Len(r) : (q \o r)[Len(q) + i] = r[i]
<1>1. PICK S : q \in Seq(S)
  BY DEF IsSeq
<1>2. PICK T : r \in Seq(T)
  BY DEF IsSeq
<1>3. q \in Seq(S \cup T) /\ r \in Seq(S \cup T)
  BY SMT, <1>1, <1>2
<1>4. /\ q \o r \in Seq(S \cup T) /\ Len(q) \in Nat /\ Len(r) \in Nat /\ Len(q \o r) = Len(q) + Len(r)
      /\ \A i \in 1..Len(q) : (q \o r)[i] = q[i]
      /\ \A i \in 1..Len(r) : (q \o r)[Len(q) + i] = r[i]
  BY SMT, <1>3
<1> QED BY <1>4 DEF IsSeq

(* A method's entries are all counted.                                     *)
LEMMA CountedExact ==
    ASSUME NEW entries, IsSeq(journal), IsSeq(entries), ExactTo(dirties, journal, Len(journal))
    PROVE  ExactTo(Counted(entries), journal \o entries, Len(journal) + Len(entries))
<1> DEFINE q == journal \o entries
           n == Len(journal)
           m == Len(entries)
<1>1. n \in Nat /\ m \in Nat /\ (\A i \in 1..n : q[i] = journal[i]) /\ \A i \in 1..m : q[n + i] = entries[i]
  BY SMT, Concatenated
<1>2. PICK f : IsCounting(f, dirties, entries, m) /\ Counted(entries) = f[m]
  <2>1. \E f : IsCounting(f, dirties, entries, m)
    BY <1>1, CountingExists
  <2>2. Counted(entries) = (CHOOSE f : IsCounting(f, dirties, entries, m))[m]
    BY Zenon DEF Counted, IsCounting
  <2> QED BY Zenon, <2>1, <2>2
<1>3. ExactTo(dirties, q, n)
  BY <1>1, SameCounts
<1> HIDE DEF q, n, m
<1> DEFINE S == {k \in Nat : k <= m => ExactTo(f[k], q, n + k)}
<1>4. 0 \in S
  BY SMT, <1>1, <1>2, <1>3 DEF IsCounting
<1>5. ASSUME NEW k \in Nat, k \in S PROVE k + 1 \in S
  <2>1. CASE k + 1 <= m
    <3>1. f[k + 1] = Count(f[k], entries[k + 1]) /\ q[n + (k + 1)] = entries[k + 1]
      <4>1. k + 1 \in 0..m /\ k + 1 # 0 /\ (k + 1) - 1 = k /\ k + 1 \in 1..m
        BY SMT, <1>1, <2>1
      <4>2. f[k + 1] = Count(f[(k + 1) - 1], entries[k + 1])
        BY <1>2, <4>1 DEF IsCounting
      <4> QED BY <1>1, <4>1, <4>2
    <3>2. ExactTo(f[k], q, n + k) /\ n + k \in Nat /\ (n + k) + 1 = n + (k + 1)
      BY SMT, <1>1, <1>5, <2>1
    <3>3. ExactTo(Count(f[k], q[(n + k) + 1]), q, (n + k) + 1)
      BY <3>2, OneMore
    <3> QED BY SMT, <3>1, <3>2, <3>3
  <2> QED BY SMT, <2>1
<1> HIDE DEF S
<1>6. m \in S
  BY <1>1, <1>4, <1>5, NatSetInduction
<1> QED BY SMT, <1>1, <1>2, <1>6 DEF S, q, n, m
(* The counts while entries are undone from the last one down.             *)
IsUncounting(f, d, q, n, m) ==
    f = [i \in n..m |-> IF i = m THEN d ELSE Uncount(f[i + 1], q[i + 1])]

(* That recursion has a solution.                                          *)
LEMMA UncountingExists ==
    ASSUME NEW d, NEW q, NEW m \in Nat, NEW n \in 0..m
    PROVE  \E f : IsUncounting(f, d, q, n, m)
<1> DEFINE S == {k \in Nat : k <= m => \E f : IsUncounting(f, d, q, m - k, m)}
<1>1. 0 \in S
  <2>1. IsUncounting([i \in (m - 0)..m |-> d], d, q, m - 0, m)
    BY SMT DEF IsUncounting
  <2> QED BY <2>1
<1>2. ASSUME NEW k \in Nat, k \in S PROVE k + 1 \in S
  <2>0. SUFFICES ASSUME k + 1 <= m PROVE \E f : IsUncounting(f, d, q, m - (k + 1), m)
    BY SMT
  <2>1. PICK f : IsUncounting(f, d, q, m - k, m)
    BY SMT, <1>2, <2>0
  <2> DEFINE b == m - (k + 1)
             g == [i \in b..m |-> IF i = b THEN Uncount(f[b + 1], q[b + 1]) ELSE f[i]]
  <2>2. b \in Nat /\ b < m /\ b + 1 = m - k
    BY SMT, <2>0
  <2> HIDE DEF b
  <2>3. ASSUME NEW i \in b..m PROVE g[i] = IF i = m THEN d ELSE Uncount(g[i + 1], q[i + 1])
    <3>1. CASE i = b
      <4>1. g[i + 1] = f[b + 1] /\ i # m /\ g[i] = Uncount(f[b + 1], q[i + 1])
        BY SMT, <2>2, <3>1
      <4> QED BY <4>1
    <3>2. CASE i # b /\ i # m
      <4>1. g[i] = f[i] /\ i \in (m - k)..m /\ g[i + 1] = f[i + 1]
        BY SMT, <2>2, <3>2
      <4>2. f[i] = Uncount(f[i + 1], q[i + 1])
        BY <2>1, <3>2, <4>1 DEF IsUncounting
      <4> QED BY <3>2, <4>1, <4>2
    <3>3. CASE i = m
      <4>1. g[i] = f[i] /\ m \in (m - k)..m
        BY SMT, <2>2, <3>3
      <4> QED BY <2>1, <3>3, <4>1 DEF IsUncounting
    <3> QED BY <3>1, <3>2, <3>3
  <2>4. g = [i \in b..m |-> g[i]]
    OBVIOUS
  <2> HIDE DEF g
  <2>5. IsUncounting(g, d, q, b, m)
    BY <2>3, <2>4 DEF IsUncounting
  <2> QED BY <2>5 DEF b
<1> HIDE DEF S
<1>3. m - n \in S
  BY SMT, <1>1, <1>2, NatSetInduction
<1>4. m - (m - n) = n /\ m - n <= m
  BY SMT
<1> QED BY <1>3, <1>4 DEF S

(* What is left after going back to index n is counted exactly.            *)
LEMMA UncountedExact ==
    ASSUME NEW n \in Nat, IsSeq(journal), n <= Len(journal), ExactTo(dirties, journal, Len(journal))
    PROVE  ExactTo(Uncounted(n), journal, n)
<1> DEFINE m == Len(journal)
<1>1. m \in Nat /\ n \in 0..m
  BY SMT, LenIsNat
<1>2. PICK f : IsUncounting(f, dirties, journal, n, m) /\ Uncounted(n) = f[n]
  <2>1. \E f : IsUncounting(f, dirties, journal, n, m)
    BY <1>1, UncountingExists
  <2>2. Uncounted(n) = (CHOOSE f : IsUncounting(f, dirties, journal, n, m))[n]
    BY Zenon DEF Uncounted, IsUncounting
  <2> QED BY Zenon, <2>1, <2>2
<1>3. ExactTo(dirties, journal, m)
  OBVIOUS
<1> HIDE DEF m
<1> DEFINE S == {k \in Nat : k <= m - n => ExactTo(f[m - k], journal, m - k)}
<1>4. 0 \in S
  <2>1. m - 0 = m /\ m \in n..m
    BY SMT, <1>1
  <2>2. f[m] = dirties
    BY <1>2, <2>1 DEF IsUncounting
  <2> QED BY <1>3, <2>1, <2>2
<1>5. ASSUME NEW k \in Nat, k \in S PROVE k + 1 \in S
  <2>1. CASE k + 1 <= m - n
    <3> DEFINE i == m - (k + 1)
    <3>1. i \in n..m /\ i # m /\ i \in Nat /\ i + 1 = m - k /\ k <= m - n
      BY SMT, <1>1, <2>1
    <3>2. ExactTo(f[i + 1], journal, i + 1)
      BY <1>5, <3>1
    <3> HIDE DEF i
    <3>3. f[i] = Uncount(f[i + 1], journal[i + 1])
      BY <1>2, <3>1 DEF IsUncounting
    <3>4. ExactTo(f[i], journal, i)
      BY <3>1, <3>2, <3>3, OneLess
    <3> QED BY SMT, <3>4 DEF i
  <2> QED BY SMT, <2>1
<1> HIDE DEF S
<1>6. m - n \in S
  BY SMT, <1>1, <1>4, <1>5, NatSetInduction
<1>7. m - (m - n) = n
  BY SMT, <1>1
<1> QED BY SMT, <1>1, <1>2, <1>6, <1>7 DEF S

-----------------------------------------------------------------------------
(***************************************************************************)
(* What every state between a snapshot and now has in common: the state    *)
(* after undoing the journal down to some index fits the entries that are  *)
(* left.                                                                   *)
(***************************************************************************)
StateFields == {"objects", "refund", "logs", "addresses", "slots", "transient"}
ObjectFields == {"nonce", "balance", "code", "origin", "dirty", "dirtyCode", "suicided", "selfDestructed", "created"}
Dirtying == {"create", "balance", "nonce", "code", "storage", "suicide", "selfDestruct"}
EntryKinds == Dirtying \cup {"reset", "refund", "log", "transient", "accessAccount", "accessSlot"}

IsObject(o) == DOMAIN o = ObjectFields /\ o.balance \in Nat /\ o.nonce \in Nat

(* An entry holds what its Revert writes back.                             *)
IsEntry(e) ==
    /\ e.kind \in EntryKinds
    /\ e.dirtied = IF e.kind \in Dirtying THEN e.account ELSE NoAccount
    /\ e.kind = "reset" => IsObject(e.prev)
    /\ e.kind \in {"balance", "nonce", "refund"} => e.prev \in Nat
    /\ e.kind \in {"suicide", "selfDestruct"} => e.prev.balance \in Nat

(* No account was changed before it was created, no slot was added before  *)
(* its address or twice.                                                   *)
InTurn(e, f) ==
    /\ f.kind = "create" => e.dirtied = NoAccount \/ e.dirtied # f.account
    /\ f.kind = "accessAccount" /\ e.kind = "accessSlot" => e.account # f.account
    /\ f.kind = "accessSlot" /\ e.kind = "accessSlot" /\ e.account = f.account => e.key # f.key

Entries(q, n) ==
    /\ \A i \in 1..n : IsEntry(q[i])
    /\ \A i, j \in 1..n : i < j => InTurn(q[i], q[j])

(* Whatever an entry says is dirty has an object.                          *)
Objects(st, q, n) ==
    /\ DOMAIN st.objects \subseteq Addresses
    /\ \A a \in DOMAIN st.objects : IsObject(st.objects[a])
    /\ \A i \in 1..n : q[i].dirtied # NoAccount => q[i].dirtied \in DOMAIN st.objects

(* The slots of an address are those of its entries; slot sets are in the  *)
(* order of the first entries of their addresses, and none is without      *)
(* address.                                                                *)
Slotted(q, n, a) == {i \in 1..n : q[i].kind = "accessSlot" /\ q[i].account = a}
KeysOf(q, n, a) == {q[i].key : i \in Slotted(q, n, a)}
Precedes(q, n, a, b) == \E i \in Slotted(q, n, a) : \A j \in Slotted(q, n, b) : i < j

Indexed(st) ==
    /\ DOMAIN st.addresses \subseteq Addresses
    /\ IsSeq(st.slots)
    /\ \A a \in DOMAIN st.addresses : st.addresses[a] \in 0..Len(st.slots)
    /\ \A a, b \in DOMAIN st.addresses : a # b /\ st.addresses[a] = st.addresses[b] => st.addresses[a] = 0
    /\ \A x \in 1..Len(st.slots) : \E a \in DOMAIN st.addresses : st.addresses[a] = x

Access(st, q, n) ==
    /\ Indexed(st)
    /\ \A a \in DOMAIN st.addresses : st.addresses[a] # 0 =>
          Slotted(q, n, a) # {} /\ st.slots[st.addresses[a]] = KeysOf(q, n, a)
    /\ \A a : Slotted(q, n, a) # {} => a \in DOMAIN st.addresses /\ st.addresses[a] # 0
    /\ \A a, b \in DOMAIN st.addresses : 0 < st.addresses[a] /\ st.addresses[a] < st.addresses[b] => Precedes(q, n, a, b)

Fits(st, q, n) ==
    /\ Entries(q, n)
    /\ DOMAIN st = StateFields /\ st.refund \in Nat
    /\ Objects(st, q, n)
    /\ Access(st, q, n)

(* An entry of another kind is not about slots.                            *)
LEMMA NoSlot ==
    ASSUME NEW q, NEW n \in Nat, q[n + 1].kind # "accessSlot"
    PROVE  \A a : Slotted(q, n + 1, a) = Slotted(q, n, a)
BY SMT DEF Slotted

(* Slots are as they were if the access list is, and no slot was added.    *)
LEMMA SameAccess ==
    ASSUME NEW q, NEW n \in Nat, NEW m \in Nat, NEW st, NEW st1, Access(st, q, n),
           \A a : Slotted(q, m, a) = Slotted(q, n, a),
           st1.addresses = st.addresses, st1.slots = st.slots
    PROVE  Access(st1, q, m)
BY DEF Access, Indexed, KeysOf, Precedes

(* Fewer entries.                                                          *)
LEMMA FewerEntries ==
    ASSUME NEW q, NEW n \in Nat, NEW st, NEW st1, Entries(q, n + 1), Objects(st, q, n + 1),
           DOMAIN st1.objects = DOMAIN st.objects, \A a \in DOMAIN st.objects : IsObject(st1.objects[a])
    PROVE  Entries(q, n) /\ Objects(st1, q, n)
BY SMT DEF Entries, Objects

(* Replacing fields of one object, if it is there.                         *)
LEMMA ObjectChanged ==
    ASSUME NEW f, NEW a, NEW o, \A x \in DOMAIN f : IsObject(f[x]), a \in DOMAIN f => IsObject(o)
    PROVE  /\ DOMAIN [f EXCEPT ![a] = o] = DOMAIN f
           /\ \A x \in DOMAIN f : IsObject([f EXCEPT ![a] = o][x])
OBVIOUS

(* The Revert of an entry about an account.                                *)
LEMMA UndoAccount ==
    ASSUME NEW q, NEW n \in Nat, NEW st, Fits(st, q, n + 1),
           q[n + 1].kind \in {"reset", "balance", "nonce", "code", "storage", "suicide", "selfDestruct"}
    PROVE  Fits(Undo(q[n + 1], st), q, n)
<1> DEFINE e == q[n + 1]
           a == e.account
           st1 == Undo(e, st)
           o == st.objects[a]
<1>1. IsEntry(e) /\ DOMAIN st = StateFields /\ Objects(st, q, n + 1) /\ Entries(q, n + 1) /\ Access(st, q, n + 1)
  BY SMT DEF Fits, Entries
<1>2. ASSUME NEW o1, a \in DOMAIN st.objects => IsObject(o1),
             st1 = [st EXCEPT !.objects = [st.objects EXCEPT ![a] = o1]]
      PROVE  Fits(st1, q, n)
  <2>1. /\ st1.objects = [st.objects EXCEPT ![a] = o1] /\ st1.addresses = st.addresses
        /\ st1.slots = st.slots /\ st1.refund = st.refund /\ DOMAIN st1 = StateFields
    BY <1>1, <1>2 DEF StateFields
  <2>2. DOMAIN st1.objects = DOMAIN st.objects /\ \A x \in DOMAIN st.objects : IsObject(st1.objects[x])
    BY <1>1, <1>2, <2>1, ObjectChanged DEF Objects
  <2>3. Entries(q, n) /\ Objects(st1, q, n)
    BY <1>1, <2>2, FewerEntries
  <2>4. Access(st1, q, n)
    <3>1. \A x : Slotted(q, n, x) = Slotted(q, n + 1, x)
      BY NoSlot
    <3> QED BY SMT, <1>1, <2>1, <3>1, SameAccess
  <2> QED BY <2>1, <2>3, <2>4 DEF Fits
<1>3. a \in DOMAIN st.objects => IsObject(o)
  BY <1>1 DEF Objects
<1>4. CASE e.kind = "reset"
  <2>1. st1 = [st EXCEPT !.objects = [st.objects EXCEPT ![a] = e.prev]]
    BY <1>4 DEF Undo
  <2> QED BY <1>1, <1>2, <1>4, <2>1 DEF IsEntry
<1>5. CASE e.kind = "balance"
  <2>1. st1 = [st EXCEPT !.objects = [st.objects EXCEPT ![a] = [o EXCEPT !.balance = e.prev]]]
    BY <1>5 DEF Undo
  <2> QED BY <1>1, <1>2, <1>3, <1>5, <2>1 DEF IsEntry, IsObject, ObjectFields
<1>6. CASE e.kind = "nonce"
  <2>1. st1 = [st EXCEPT !.objects = [st.objects EXCEPT ![a] = [o EXCEPT !.nonce = e.prev]]]
    BY <1>6 DEF Undo
  <2> QED BY <1>1, <1>2, <1>3, <1>6, <2>1 DEF IsEntry, IsObject, ObjectFields
<1>7. CASE e.kind = "code"
  <2>1. st1 = [st EXCEPT !.objects = [st.objects EXCEPT ![a] = [o EXCEPT !.code = e.prev, !.dirtyCode = TRUE]]]
    BY <1>7 DEF Undo
  <2> QED BY <1>1, <1>2, <1>3, <2>1 DEF IsObject, ObjectFields
<1>8. CASE e.kind = "storage"
  <2>1. st1 = [st EXCEPT !.objects = [st.objects EXCEPT ![a] = [o EXCEPT !.dirty = With(o.dirty, e.key, e.prev)]]]
    BY <1>8 DEF Undo
  <2> QED BY <1>1, <1>2, <1>3, <2>1 DEF IsObject, ObjectFields
<1>9. CASE e.kind = "suicide"
  <2>1. st1 = [st EXCEPT !.objects = [st.objects EXCEPT ![a] =
                  [o EXCEPT !.suicided = e.prev.flag, !.balance = e.prev.balance]]]
    BY <1>9 DEF Undo
  <2> QED BY <1>1, <1>2, <1>3, <1>9, <2>1 DEF IsEntry, IsObject, ObjectFields
<1>10. CASE e.kind = "selfDestruct"
  <2>1. st1 = [st EXCEPT !.objects = [st.objects EXCEPT ![a] =
                  [o EXCEPT !.selfDestructed = e.prev.flag, !.balance = e.prev.balance]]]
    BY ZenonT(30), <1>10 DEF Undo
  <2> QED BY <1>1, <1>2, <1>3, <1>10, <2>1 DEF IsEntry, IsObject, ObjectFields
<1> QED
  BY <1>4, <1>5, <1>6, <1>7, <1>8, <1>9, <1>10

(* The Revert of an entry that is about neither accounts nor the access    *)
(* list.                                                                   *)
LEMMA UndoPlain ==
    ASSUME NEW q, NEW n \in Nat, NEW st, Fits(st, q, n + 1), q[n + 1].kind \in {"refund", "log", "transient"}
    PROVE  Fits(Undo(q[n + 1], st), q, n)
<1> DEFINE e == q[n + 1]
           st1 == Undo(e, st)
<1>1. /\ IsEntry(e) /\ DOMAIN st = StateFields /\ st.refund \in Nat
      /\ Objects(st, q, n + 1) /\ Entries(q, n + 1) /\ Access(st, q, n + 1)
  BY SMT DEF Fits, Entries
<1>2. /\ st1.objects = st.objects /\ st1.addresses = st.addresses /\ st1.slots = st.slots
      /\ st1.refund \in Nat /\ DOMAIN st1 = StateFields
  <2>1. CASE e.kind = "refund"
    <3>1. st1 = [st EXCEPT !.refund = e.prev] /\ e.prev \in Nat
      BY <1>1, <2>1 DEF Undo, IsEntry
    <3> QED BY <1>1, <3>1 DEF StateFields
  <2>2. CASE e.kind = "log"
    <3>1. st1 = [st EXCEPT !.logs = SubSeq(@, 1, Len(@) - 1)]
      BY <2>2 DEF Undo
    <3> QED BY <1>1, <3>1 DEF StateFields
  <2>3. CASE e.kind = "transient"
    <3>1. st1 = [st EXCEPT !.transient[<<e.account, e.key>>] = e.prev]
      BY <2>3 DEF Undo
    <3> QED BY <1>1, <3>1 DEF StateFields
  <2> QED BY <2>1, <2>2, <2>3
<1>3. Entries(q, n) /\ Objects(st1, q, n)
  BY <1>1, <1>2, FewerEntries DEF Objects
<1>4. Access(st1, q, n)
  <2>1. \A x : Slotted(q, n, x) = Slotted(q, n + 1, x)
    BY NoSlot
  <2> QED BY SMT, <1>1, <1>2, <2>1, SameAccess
<1> QED BY <1>2, <1>3, <1>4 DEF Fits

(* The Revert of createObjectChange: nothing older is about the account.   *)
LEMMA UndoCreate ==
    ASSUME NEW q, NEW n \in Nat, NEW st, Fits(st, q, n + 1), q[n + 1].kind = "create"
    PROVE  Fits(Undo(q[n + 1], st), q, n)
<1> DEFINE e == q[n + 1]
           a == e.account
           st1 == Undo(e, st)
<1>1. /\ DOMAIN st = StateFields /\ st.refund \in Nat
      /\ Objects(st, q, n + 1) /\ Entries(q, n + 1) /\ Access(st, q, n + 1)
  BY DEF Fits
<1>2. st1 = [st EXCEPT !.objects = Without(st.objects, a)]
  BY DEF Undo
<1>3. /\ st1.objects = Without(st.objects, a) /\ st1.addresses = st.addresses /\ st1.slots = st.slots
      /\ st1.refund = st.refund /\ DOMAIN st1 = StateFields
  BY <1>1, <1>2 DEF StateFields
<1>4. DOMAIN st1.objects = DOMAIN st.objects \ {a} /\ \A x \in DOMAIN st1.objects : st1.objects[x] = st.objects[x]
  BY <1>3 DEF Without, Restrict
<1>5. \A i \in 1..n : q[i].dirtied = NoAccount \/ q[i].dirtied # a
  BY SMT, <1>1 DEF Entries, InTurn
<1>6. Entries(q, n) /\ Objects(st1, q, n)
  BY SMT, <1>1, <1>4, <1>5 DEF Entries, Objects
<1>7. Access(st1, q, n)
  <2>1. \A x : Slotted(q, n, x) = Slotted(q, n + 1, x)
    BY NoSlot
  <2> QED BY SMT, <1>1, <1>3, <2>1, SameAccess
<1> QED BY <1>1, <1>3, <1>6, <1>7 DEF Fits

(* The Revert of accessListAddAccountChange: the address has no slots left.*)
LEMMA UndoAddress ==
    ASSUME NEW q, NEW n \in Nat, NEW st, Fits(st, q, n + 1), q[n + 1].kind = "accessAccount"
    PROVE  Fits(Undo(q[n + 1], st), q, n)
<1> DEFINE e == q[n + 1]
           a == e.account
           st1 == Undo(e, st)
<1>1. /\ DOMAIN st = StateFields /\ st.refund \in Nat
      /\ Objects(st, q, n + 1) /\ Entries(q, n + 1) /\ Access(st, q, n + 1)
  BY DEF Fits
<1>2. st1 = [st EXCEPT !.addresses = Without(st.addresses, a)]
  BY DEF Undo
<1>3. /\ st1.objects = st.objects /\ st1.addresses = Without(st.addresses, a) /\ st1.slots = st.slots
      /\ st1.refund = st.refund /\ DOMAIN st1 = StateFields
  BY <1>1, <1>2 DEF StateFields
<1>4. /\ DOMAIN st1.addresses = DOMAIN st.addresses \ {a}
      /\ \A x \in DOMAIN st1.addresses : st1.addresses[x] = st.addresses[x]
  BY <1>3 DEF Without, Restrict
<1>5. Entries(q, n) /\ Objects(st1, q, n)
  BY <1>1, <1>3, FewerEntries DEF Objects
<1>6. \A x : Slotted(q, n + 1, x) = Slotted(q, n, x)
  BY NoSlot
<1>7. Slotted(q, n, a) = {}
  BY SMT, <1>1 DEF Entries, InTurn, Slotted
<1>8. a \in DOMAIN st.addresses => st.addresses[a] = 0
  BY <1>1, <1>6, <1>7 DEF Access
<1>9. Indexed(st1)
  BY SMTT(20), <1>1, <1>3, <1>4, <1>8 DEF Access, Indexed
<1>10. Access(st1, q, n)
  BY SMT, <1>1, <1>3, <1>4, <1>6, <1>7, <1>9 DEF Access, KeysOf, Precedes
<1> QED BY <1>1, <1>3, <1>5, <1>10 DEF Fits

(* Replacing one element of a sequence.                                    *)
LEMMA ReplacedIsSeq ==
    ASSUME NEW S, NEW f \in Seq(S), NEW i \in 1..Len(f), NEW x \in S
    PROVE  [f EXCEPT ![i] = x] \in Seq(S) /\ Len([f EXCEPT ![i] = x]) = Len(f)
<1> DEFINE g == [f EXCEPT ![i] = x]
           n == Len(f)
<1>1. n \in Nat /\ f \in [1..n -> S]
  BY SMT
<1>2. g \in [1..n -> S]
  BY <1>1
<1> HIDE DEF g, n
<1>3. g \in Seq(S) /\ Len(g) = n
  BY SMT, <1>1, <1>2
<1> QED BY <1>3 DEF g, n

(* The Revert of accessListAddSlotChange: the slot goes, and with the last *)
(* slot of an address its set, which is the last of all sets.              *)
LEMMA UndoSlot ==
    ASSUME NEW q, NEW n \in Nat, NEW st, Fits(st, q, n + 1), q[n + 1].kind = "accessSlot"
    PROVE  Fits(Undo(q[n + 1], st), q, n)
<1> DEFINE e == q[n + 1]
           a == e.account
           st1 == Undo(e, st)
           idx == st.addresses[a]
           rest == st.slots[idx] \ {e.key}
<1>1. /\ DOMAIN st = StateFields /\ st.refund \in Nat
      /\ Objects(st, q, n + 1) /\ Entries(q, n + 1) /\ Access(st, q, n + 1)
  BY DEF Fits
<1>2. Slotted(q, n + 1, a) = Slotted(q, n, a) \cup {n + 1} /\ \A x : x # a => Slotted(q, n + 1, x) = Slotted(q, n, x)
  BY SMT DEF Slotted
<1>3. a \in DOMAIN st.addresses /\ idx \in 1..Len(st.slots) /\ Len(st.slots) \in Nat
  <2>1. Len(st.slots) \in Nat
    BY SMT, <1>1 DEF Access, Indexed, IsSeq
  <2>2. Slotted(q, n + 1, a) # {}
    BY <1>2
  <2>3. a \in DOMAIN st.addresses /\ idx # 0
    BY <1>1, <2>2 DEF Access
  <2> QED BY SMT, <1>1, <2>1, <2>3 DEF Access, Indexed
<1>4. rest = KeysOf(q, n, a)
  <2>1. st.slots[idx] = KeysOf(q, n + 1, a)
    BY SMT, <1>1, <1>3 DEF Access
  <2>2. KeysOf(q, n + 1, a) = KeysOf(q, n, a) \cup {e.key}
    BY <1>2 DEF KeysOf
  <2>3. e.key \notin KeysOf(q, n, a)
    BY SMT, <1>1 DEF Entries, InTurn, KeysOf, Slotted
  <2> QED BY <2>1, <2>2, <2>3
<1>5. \A x : KeysOf(q, n, x) = {} <=> Slotted(q, n, x) = {}
  BY DEF KeysOf
<1>6. PICK S : st.slots \in Seq(S)
  BY <1>1 DEF Access, Indexed, IsSeq
<1>7. st1 = DeleteSlot(st, a, e.key)
  BY DEF Undo
<1>8. Access(st1, q, n) /\ DOMAIN st1 = StateFields /\ st1.objects = st.objects /\ st1.refund = st.refund
  <2>1. CASE rest = {}
    <3>1. st1 = [st EXCEPT !.slots = SubSeq(st.slots, 1, idx - 1), !.addresses = [st.addresses EXCEPT ![a] = 0]]
      BY <1>7, <2>1 DEF DeleteSlot
    <3>2. /\ st1.slots = SubSeq(st.slots, 1, idx - 1) /\ st1.addresses = [st.addresses EXCEPT ![a] = 0]
          /\ DOMAIN st1 = StateFields /\ st1.objects = st.objects /\ st1.refund = st.refund
      BY <1>1, <3>1 DEF StateFields
    <3>3. Slotted(q, n, a) = {}
      BY <1>4, <1>5, <2>1
    <3>4. idx = Len(st.slots)
      <4>1. SUFFICES ASSUME idx < Len(st.slots) PROVE FALSE
        BY SMT, <1>3
      <4>2. PICK b \in DOMAIN st.addresses : st.addresses[b] = Len(st.slots)
        <5>1. Len(st.slots) \in 1..Len(st.slots)
          BY SMT, <1>3
        <5> QED BY <1>1, <5>1 DEF Access, Indexed
      <4>3. Precedes(q, n + 1, a, b) /\ Slotted(q, n + 1, b) # {} /\ b # a
        BY SMT, <1>1, <1>3, <4>1, <4>2 DEF Access
      <4>4. Slotted(q, n + 1, b) \subseteq 1..n /\ Slotted(q, n + 1, a) = {n + 1}
        BY <1>2, <3>3, <4>3 DEF Slotted
      <4> QED BY SMT, <4>3, <4>4 DEF Precedes
    <3>5. /\ IsSeq(st1.slots) /\ Len(st1.slots) = Len(st.slots) - 1
          /\ \A x \in 1..(Len(st.slots) - 1) : st1.slots[x] = st.slots[x]
      <4>1. st1.slots \in Seq(S) /\ Len(st1.slots) = Len(st.slots) - 1
        BY SMT, <1>3, <1>6, <3>2, <3>4
      <4>2. \A x \in 1..(Len(st.slots) - 1) : st1.slots[x] = st.slots[x]
        BY SMT, <1>3, <1>6, <3>2, <3>4
      <4> QED BY <4>1, <4>2 DEF IsSeq
    <3>6. DOMAIN st1.addresses = DOMAIN st.addresses /\ st1.addresses[a] = 0
          /\ \A x \in DOMAIN st.addresses : x # a => st1.addresses[x] = st.addresses[x]
      BY <1>3, <3>2
    <3>7. ASSUME NEW x \in DOMAIN st.addresses, x # a PROVE st.addresses[x] \in 0..(Len(st.slots) - 1)
      <4>1. st.addresses[x] \in 0..Len(st.slots) /\ (st.addresses[x] = idx => idx = 0)
        BY <1>1, <1>3, <3>7 DEF Access, Indexed
      <4> QED BY SMT, <1>3, <3>4, <4>1
    <3>8. Indexed(st1)
      <4>1. \A x \in 1..(Len(st.slots) - 1) : \E b \in DOMAIN st1.addresses : st1.addresses[b] = x
        <5> SUFFICES ASSUME NEW x \in 1..(Len(st.slots) - 1)
                     PROVE  \E b \in DOMAIN st1.addresses : st1.addresses[b] = x
          OBVIOUS
        <5>1. x \in 1..Len(st.slots) /\ x # idx
          BY SMT, <1>3, <3>4
        <5>2. PICK b \in DOMAIN st.addresses : st.addresses[b] = x
          BY <1>1, <5>1 DEF Access, Indexed
        <5>3. b # a
          BY <5>1, <5>2
        <5> QED BY <3>6, <5>2, <5>3
      <4>2. \A x, b \in DOMAIN st1.addresses : x # b /\ st1.addresses[x] = st1.addresses[b] => st1.addresses[x] = 0
        BY <1>1, <3>6 DEF Access, Indexed
      <4>3. \A x \in DOMAIN st1.addresses : st1.addresses[x] \in 0..(Len(st.slots) - 1)
        <5>1. 0 \in 0..(Len(st.slots) - 1)
          BY SMT, <1>3
        <5> QED BY <3>6, <3>7, <5>1
      <4>4. DOMAIN st1.addresses \subseteq Addresses
        BY <1>1, <3>6 DEF Access, Indexed
      <4> QED BY <3>5, <4>1, <4>2, <4>3, <4>4 DEF Indexed
    <3>9. \A x \in DOMAIN st1.addresses : st1.addresses[x] # 0 =>
             Slotted(q, n, x) # {} /\ st1.slots[st1.addresses[x]] = KeysOf(q, n, x)
      <4> SUFFICES ASSUME NEW x \in DOMAIN st1.addresses, st1.addresses[x] # 0
                   PROVE  Slotted(q, n, x) # {} /\ st1.slots[st1.addresses[x]] = KeysOf(q, n, x)
        OBVIOUS
      <4>1. x # a /\ x \in DOMAIN st.addresses /\ st1.addresses[x] = st.addresses[x]
        BY <3>6
      <4>2. st.addresses[x] \in 1..(Len(st.slots) - 1)
        BY SMT, <1>3, <3>7, <4>1
      <4>3. Slotted(q, n + 1, x) # {} /\ st.slots[st.addresses[x]] = KeysOf(q, n + 1, x)
        BY <1>1, <4>1 DEF Access
      <4>4. Slotted(q, n + 1, x) = Slotted(q, n, x) /\ KeysOf(q, n + 1, x) = KeysOf(q, n, x)
        BY <1>2, <4>1 DEF KeysOf
      <4> QED BY <3>5, <4>1, <4>2, <4>3, <4>4
    <3>10. \A x : Slotted(q, n, x) # {} => x \in DOMAIN st1.addresses /\ st1.addresses[x] # 0
      BY <1>1, <1>2, <3>3, <3>6 DEF Access
    <3>11. \A x, b \in DOMAIN st1.addresses :
              0 < st1.addresses[x] /\ st1.addresses[x] < st1.addresses[b] => Precedes(q, n, x, b)
      <4>1. SUFFICES ASSUME NEW x \in DOMAIN st.addresses, NEW b \in DOMAIN st.addresses,
                            0 < st1.addresses[x], st1.addresses[x] < st1.addresses[b]
                     PROVE  Precedes(q, n, x, b)
        BY <3>6
      <4>2. b # a /\ x # a
        BY SMT, <3>6, <3>7, <4>1
      <4>3. Precedes(q, n + 1, x, b)
        BY <1>1, <3>6, <4>1, <4>2 DEF Access
      <4> QED BY <1>2, <4>2, <4>3 DEF Precedes
    <3> QED BY <3>2, <3>8, <3>9, <3>10, <3>11 DEF Access
  <2>2. CASE rest # {}
    <3>1. st1 = [st EXCEPT !.slots = [st.slots EXCEPT ![idx] = rest]]
      BY <1>7, <2>2 DEF DeleteSlot
    <3>2. /\ st1.slots = [st.slots EXCEPT ![idx] = rest] /\ st1.addresses = st.addresses
          /\ DOMAIN st1 = StateFields /\ st1.objects = st.objects /\ st1.refund = st.refund
      BY <1>1, <3>1 DEF StateFields
    <3>3. /\ IsSeq(st1.slots) /\ Len(st1.slots) = Len(st.slots) /\ st1.slots[idx] = rest
          /\ \A x \in 1..Len(st.slots) : x # idx => st1.slots[x] = st.slots[x]
      <4>1. st.slots \in Seq(S \cup {rest})
        BY SMTT(20), <1>6
      <4>2. st1.slots \in Seq(S \cup {rest}) /\ Len(st1.slots) = Len(st.slots)
        <5>1. rest \in S \cup {rest}
          OBVIOUS
        <5>2. idx \in 1..Len(st.slots)
          BY <1>3
        <5>3. \A f \in Seq(S \cup {rest}) : \A i \in 1..Len(f) : \A x \in S \cup {rest} :
                 [f EXCEPT ![i] = x] \in Seq(S \cup {rest}) /\ Len([f EXCEPT ![i] = x]) = Len(f)
          BY ReplacedIsSeq, Zenon
        <5>4. /\ [st.slots EXCEPT ![idx] = rest] \in Seq(S \cup {rest})
              /\ Len([st.slots EXCEPT ![idx] = rest]) = Len(st.slots)
          BY <4>1, <5>1, <5>2, <5>3, Zenon
        <5> QED BY <3>2, <5>4
      <4>3. DOMAIN st.slots = 1..Len(st.slots)
        BY SMTT(20), <1>6
      <4>4. st1.slots[idx] = rest /\ \A x \in 1..Len(st.slots) : x # idx => st1.slots[x] = st.slots[x]
        BY <1>3, <3>2, <4>3
      <4> QED BY <4>2, <4>4 DEF IsSeq
    <3>4. Indexed(st1)
      <4>1. Indexed(st)
        BY <1>1 DEF Access
      <4> QED BY ZenonT(30), <3>2, <3>3, <4>1 DEF Indexed
    <3>5. \A x \in DOMAIN st1.addresses : st1.addresses[x] # 0 =>
             Slotted(q, n, x) # {} /\ st1.slots[st1.addresses[x]] = KeysOf(q, n, x)
      <4>1. \A x \in DOMAIN st.addresses : x # a /\ st.addresses[x] # 0 =>
               st.addresses[x] # idx /\ st.addresses[x] \in 1..Len(st.slots)
        BY SMTT(20), <1>1, <1>3 DEF Access, Indexed
      <4>2. Slotted(q, n, a) # {} /\ st1.slots[idx] = KeysOf(q, n, a)
        BY <1>4, <1>5, <2>2, <3>3
      <4>3. ASSUME NEW x \in DOMAIN st.addresses, st.addresses[x] # 0, x # a
            PROVE  Slotted(q, n, x) # {} /\ st1.slots[st.addresses[x]] = KeysOf(q, n, x)
        <5>1. Slotted(q, n + 1, x) # {} /\ st.slots[st.addresses[x]] = KeysOf(q, n + 1, x)
          BY <1>1, <4>3 DEF Access
        <5>2. Slotted(q, n + 1, x) = Slotted(q, n, x) /\ st1.slots[st.addresses[x]] = st.slots[st.addresses[x]]
          BY <1>2, <3>3, <4>1, <4>3
        <5> QED BY <5>1, <5>2 DEF KeysOf
      <4> QED BY <3>2, <4>2, <4>3
    <3>6. \A x : Slotted(q, n, x) # {} => x \in DOMAIN st1.addresses /\ st1.addresses[x] # 0
      BY <1>1, <1>2, <3>2 DEF Access
    <3>7. \A x, b \in DOMAIN st1.addresses :
              0 < st1.addresses[x] /\ st1.addresses[x] < st1.addresses[b] => Precedes(q, n, x, b)
      <4>1. SUFFICES ASSUME NEW x \in DOMAIN st.addresses, NEW b \in DOMAIN st.addresses,
                            0 < st.addresses[x], st.addresses[x] < st.addresses[b]
                     PROVE  Precedes(q, n, x, b)
        BY <3>2
      <4>2. PICK i \in Slotted(q, n + 1, x) : \A j \in Slotted(q, n + 1, b) : i < j
        BY <1>1, <4>1 DEF Access, Precedes
      <4>3. x # b /\ \A y : Slotted(q, n, y) \subseteq 1..n /\ Slotted(q, n, y) \subseteq Slotted(q, n + 1, y)
        BY SMT, <4>1, <1>1 DEF Slotted, Access, Indexed
      <4>4. Slotted(q, n, x) # {}
        <5>1. st.addresses[x] \in Int
          BY SMT, <1>1 DEF Access, Indexed
        <5>2. st.addresses[x] # 0
          BY SMT, <4>1, <5>1
        <5> QED BY <3>2, <3>5, <5>2, Zenon
      <4>5. PICK m \in Slotted(q, n, x) : TRUE
        BY <4>4
      <4>6. CASE x = a /\ i = n + 1
        <5>1. Slotted(q, n, b) = {}
          BY SMT, <4>2, <4>3, <4>6
        <5> QED BY <4>5, <5>1 DEF Precedes
      <4>7. CASE ~(x = a /\ i = n + 1)
        <5>1. i \in Slotted(q, n, x)
          BY SMTT(20), <1>2, <4>2, <4>7
        <5> QED BY <4>2, <4>3, <5>1 DEF Precedes
      <4> QED BY <4>6, <4>7
    <3> QED BY <3>2, <3>4, <3>5, <3>6, <3>7 DEF Access
  <2> QED BY <2>1, <2>2
<1>9. Entries(q, n) /\ Objects(st1, q, n)
  BY <1>1, <1>8, FewerEntries DEF Objects
<1> QED BY <1>1, <1>8, <1>9 DEF Fits

(* The Revert of any entry leaves a state that fits the entries before it. *)
LEMMA UndoFits ==
    ASSUME NEW q, NEW n \in Nat, NEW st, Fits(st, q, n + 1)
    PROVE  Fits(Undo(q[n + 1], st), q, n)
<1>1. q[n + 1].kind \in EntryKinds
  BY SMT DEF Fits, Entries, IsEntry
<1> QED BY <1>1, UndoAccount, UndoPlain, UndoCreate, UndoAddress, UndoSlot DEF EntryKinds, Dirtying

(* The states while entries are undone from the last one down.             *)
IsUndoing(f, st, q, n, m) ==
    f = [i \in n..m |-> IF i = m THEN st ELSE Undo(q[i + 1], f[i + 1])]

(* That recursion has a solution.                                          *)
LEMMA UndoingExists ==
    ASSUME NEW st, NEW q, NEW m \in Nat, NEW n \in 0..m
    PROVE  \E f : IsUndoing(f, st, q, n, m)
<1> DEFINE S == {k \in Nat : k <= m => \E f : IsUndoing(f, st, q, m - k, m)}
<1>1. 0 \in S
  <2>1. IsUndoing([i \in (m - 0)..m |-> st], st, q, m - 0, m)
    BY SMT DEF IsUndoing
  <2> QED BY <2>1
<1>2. ASSUME NEW k \in Nat, k \in S PROVE k + 1 \in S
  <2>0. SUFFICES ASSUME k + 1 <= m PROVE \E f : IsUndoing(f, st, q, m - (k + 1), m)
    BY SMT
  <2>1. PICK f : IsUndoing(f, st, q, m - k, m)
    BY SMT, <1>2, <2>0
  <2> DEFINE b == m - (k + 1)
             g == [i \in b..m |-> IF i = b THEN Undo(q[b + 1], f[b + 1]) ELSE f[i]]
  <2>2. b \in Nat /\ b < m /\ b + 1 = m - k
    BY SMT, <2>0
  <2> HIDE DEF b
  <2>3. ASSUME NEW i \in b..m PROVE g[i] = IF i = m THEN st ELSE Undo(q[i + 1], g[i + 1])
    <3>1. CASE i = b
      <4>1. g[i + 1] = f[b + 1] /\ i # m /\ g[i] = Undo(q[i + 1], f[b + 1])
        BY SMT, <2>2, <3>1
      <4> QED BY <4>1
    <3>2. CASE i # b /\ i # m
      <4>1. g[i] = f[i] /\ i \in (m - k)..m /\ g[i + 1] = f[i + 1]
        BY SMT, <2>2, <3>2
      <4>2. f[i] = Undo(q[i + 1], f[i + 1])
        BY <2>1, <3>2, <4>1 DEF IsUndoing
      <4> QED BY <3>2, <4>1, <4>2
    <3>3. CASE i = m
      <4>1. g[i] = f[i] /\ m \in (m - k)..m
        BY SMT, <2>2, <3>3
      <4> QED BY <2>1, <3>3, <4>1 DEF IsUndoing
    <3> QED BY <3>1, <3>2, <3>3
  <2>4. g = [i \in b..m |-> g[i]]
    OBVIOUS
  <2> HIDE DEF g
  <2>5. IsUndoing(g, st, q, b, m)
    BY <2>3, <2>4 DEF IsUndoing
  <2> QED BY <2>5 DEF b
<1> HIDE DEF S
<1>3. m - n \in S
  BY SMT, <1>1, <1>2, NatSetInduction
<1>4. m - (m - n) = n /\ m - n <= m
  BY SMT
<1> QED BY <1>3, <1>4 DEF S

(* Going back to index n restores a state that fits the first n entries.   *)
LEMMA UndoneFits ==
    ASSUME NEW n \in Nat, IsSeq(journal), n <= Len(journal), Fits(s, journal, Len(journal))
    PROVE  Fits(Undone(n), journal, n)
<1> DEFINE m == Len(journal)
<1>1. m \in Nat /\ n \in 0..m
  BY SMT, LenIsNat
<1>2. PICK f : IsUndoing(f, s, journal, n, m) /\ Undone(n) = f[n]
  <2>1. \E f : IsUndoing(f, s, journal, n, m)
    BY <1>1, UndoingExists
  <2>2. Undone(n) = (CHOOSE f : IsUndoing(f, s, journal, n, m))[n]
    BY Zenon DEF Undone, IsUndoing
  <2> QED BY Zenon, <2>1, <2>2
<1>3. Fits(s, journal, m)
  OBVIOUS
<1> HIDE DEF m
<1> DEFINE S == {k \in Nat : k <= m - n => Fits(f[m - k], journal, m - k)}
<1>4. 0 \in S
  <2>1. m - 0 = m /\ m \in n..m
    BY SMT, <1>1
  <2>2. f[m] = s
    BY <1>2, <2>1 DEF IsUndoing
  <2> QED BY <1>3, <2>1, <2>2
<1>5. ASSUME NEW k \in Nat, k \in S PROVE k + 1 \in S
  <2>1. CASE k + 1 <= m - n
    <3> DEFINE i == m - (k + 1)
    <3>1. i \in n..m /\ i # m /\ i \in Nat /\ i + 1 = m - k /\ k <= m - n
      BY SMT, <1>1, <2>1
    <3>2. Fits(f[i + 1], journal, i + 1)
      BY <1>5, <3>1
    <3> HIDE DEF i
    <3>3. f[i] = Undo(journal[i + 1], f[i + 1])
      BY <1>2, <3>1 DEF IsUndoing
    <3>4. Fits(f[i], journal, i)
      BY <3>1, <3>2, <3>3, UndoFits
    <3> QED BY SMT, <3>4 DEF i
  <2> QED BY SMT, <2>1
<1> HIDE DEF S
<1>6. m - n \in S
  BY SMT, <1>1, <1>4, <1>5, NatSetInduction
<1>7. m - (m - n) = n
  BY SMT, <1>1
<1> QED BY SMT, <1>1, <1>2, <1>6, <1>7 DEF S

-----------------------------------------------------------------------------
(* What a method does to the state and the journal.                        *)

(* Fitting depends on the entries up to n only.                            *)
LEMMA SameFits ==
    ASSUME NEW st, NEW q, NEW r, NEW n \in Nat, \A i \in 1..n : q[i] = r[i], Fits(st, q, n)
    PROVE  Fits(st, r, n)
<1>1. Entries(r, n) /\ Objects(st, r, n)
  BY DEF Fits, Entries, Objects
<1>2. \A a : Slotted(q, n, a) = Slotted(r, n, a)
  BY DEF Slotted
<1>3. \A a : KeysOf(q, n, a) = KeysOf(r, n, a)
  BY <1>2 DEF KeysOf, Slotted
<1>4. \A a, b : Precedes(q, n, a, b) <=> Precedes(r, n, a, b)
  BY SMT, <1>2 DEF Precedes
<1> QED BY <1>1, <1>2, <1>3, <1>4 DEF Fits, Access

(* An entry for an account that has an object, other than its creation.    *)
LEMMA AccountEntry ==
    ASSUME NEW st, NEW q, NEW n \in Nat, Fits(st, q, n), IsEntry(q[n + 1]),
           q[n + 1].kind \in (Dirtying \ {"create"}) \cup {"reset"}, q[n + 1].account \in DOMAIN st.objects
    PROVE  Fits(st, q, n + 1)
<1>1. \A i \in 1..(n + 1) : i \in 1..n \/ i = n + 1
  BY SMT
<1>2. q[n + 1].kind # "create" /\ q[n + 1].kind # "accessAccount" /\ q[n + 1].kind # "accessSlot"
  BY DEF Dirtying
<1>3. Entries(q, n + 1)
  <2>1. \A i \in 1..n : InTurn(q[i], q[n + 1])
    BY <1>2 DEF InTurn
  <2> QED BY SMT, <1>1, <2>1 DEF Fits, Entries
<1>4. Objects(st, q, n + 1)
  <2>1. q[n + 1].dirtied # NoAccount => q[n + 1].dirtied \in DOMAIN st.objects
    BY DEF IsEntry
  <2> QED BY <1>1, <2>1 DEF Fits, Objects
<1>5. Access(st, q, n + 1)
  <2>1. \A a : Slotted(q, n + 1, a) = Slotted(q, n, a)
    BY <1>2, NoSlot
  <2> QED BY SMT, <2>1, SameAccess DEF Fits
<1> QED BY <1>3, <1>4, <1>5 DEF Fits

(* An entry that is about neither accounts nor the access list.            *)
LEMMA PlainEntry ==
    ASSUME NEW st, NEW q, NEW n \in Nat, Fits(st, q, n), IsEntry(q[n + 1]),
           q[n + 1].kind \in {"refund", "log", "transient"}
    PROVE  Fits(st, q, n + 1)
<1>1. \A i \in 1..(n + 1) : i \in 1..n \/ i = n + 1
  BY SMT
<1>2. Entries(q, n + 1)
  <2>1. \A i \in 1..n : InTurn(q[i], q[n + 1])
    BY DEF InTurn
  <2> QED BY SMT, <1>1, <2>1 DEF Fits, Entries
<1>3. Objects(st, q, n + 1)
  <2>1. q[n + 1].dirtied = NoAccount
    BY DEF IsEntry, Dirtying
  <2> QED BY <1>1, <2>1 DEF Fits, Objects
<1>4. Access(st, q, n + 1)
  <2>1. \A a : Slotted(q, n + 1, a) = Slotted(q, n, a)
    BY NoSlot
  <2> QED BY SMT, <2>1, SameAccess DEF Fits
<1> QED BY <1>2, <1>3, <1>4 DEF Fits

(* More objects, or other objects.                                         *)
LEMMA NewObjects ==
    ASSUME NEW st, NEW q, NEW n \in Nat, NEW f, Fits(st, q, n), DOMAIN st.objects \subseteq DOMAIN f,
           DOMAIN f \subseteq Addresses, \A a \in DOMAIN f : IsObject(f[a])
    PROVE  Fits([st EXCEPT !.objects = f], q, n)
<1> DEFINE st1 == [st EXCEPT !.objects = f]
<1>1. /\ st1.objects = f /\ st1.addresses = st.addresses /\ st1.slots = st.slots
      /\ st1.refund = st.refund /\ DOMAIN st1 = StateFields
  BY DEF Fits, StateFields
<1> HIDE DEF st1
<1>2. Objects(st1, q, n)
  BY <1>1 DEF Fits, Objects
<1>3. Access(st1, q, n)
  BY <1>1, SameAccess DEF Fits
<1>4. Fits(st1, q, n)
  BY <1>1, <1>2, <1>3 DEF Fits
<1> QED BY <1>4 DEF st1

(* Changes of what is neither in accounts nor in the access list.          *)
LEMMA PlainChange ==
    ASSUME NEW st, NEW st1, NEW q, NEW n \in Nat, Fits(st, q, n), DOMAIN st1 = StateFields, st1.refund \in Nat,
           st1.objects = st.objects, st1.addresses = st.addresses, st1.slots = st.slots
    PROVE  Fits(st1, q, n)
<1>1. Objects(st1, q, n)
  BY DEF Fits, Objects
<1>2. Access(st1, q, n)
  BY SameAccess DEF Fits
<1> QED BY <1>1, <1>2 DEF Fits

(* createObject for an address without object: no entry marks it dirty.    *)
LEMMA CreateFits ==
    ASSUME NEW st, NEW q, NEW n \in Nat, NEW a \in Addresses, NEW o, Fits(st, q, n), a \notin DOMAIN st.objects,
           IsObject(o), IsEntry(q[n + 1]), q[n + 1].kind = "create", q[n + 1].account = a
    PROVE  Fits([st EXCEPT !.objects = With(st.objects, a, o)], q, n + 1)
<1> DEFINE f == With(st.objects, a, o)
           st1 == [st EXCEPT !.objects = f]
<1>1. DOMAIN f = DOMAIN st.objects \cup {a} /\ f[a] = o /\ \A x \in DOMAIN st.objects : f[x] = st.objects[x]
  BY DEF With
<1> HIDE DEF f
<1>2. Objects(st, q, n) /\ Entries(q, n) /\ DOMAIN st = StateFields
  BY DEF Fits
<1>3. Fits(st1, q, n)
  BY <1>1, <1>2, NewObjects DEF Objects
<1>4. st1.objects = f
  BY <1>2 DEF StateFields
<1> HIDE DEF st1
<1>5. \A i \in 1..(n + 1) : i \in 1..n \/ i = n + 1
  BY SMT
<1>6. Entries(q, n + 1)
  <2>1. \A i \in 1..n : InTurn(q[i], q[n + 1])
    BY <1>2 DEF InTurn, Objects
  <2> QED BY SMT, <1>2, <1>5, <2>1 DEF Entries
<1>7. Objects(st1, q, n + 1)
  <2>1. q[n + 1].dirtied = a
    BY DEF IsEntry, Dirtying
  <2> QED BY <1>1, <1>3, <1>4, <1>5, <2>1 DEF Fits, Objects
<1>8. Access(st1, q, n + 1)
  <2>1. \A x : Slotted(q, n + 1, x) = Slotted(q, n, x)
    BY NoSlot
  <2> QED BY SMT, <1>3, <2>1, SameAccess DEF Fits
<1>9. Fits(st1, q, n + 1)
  BY <1>3, <1>6, <1>7, <1>8 DEF Fits
<1> QED BY <1>9 DEF st1, f

(* AddAddress: the address has no slots.                                   *)
LEMMA AddressFits ==
    ASSUME NEW st, NEW q, NEW n \in Nat, NEW a \in Addresses, Fits(st, q, n), a \notin DOMAIN st.addresses,
           IsEntry(q[n + 1]), q[n + 1].kind = "accessAccount", q[n + 1].account = a
    PROVE  Fits([st EXCEPT !.addresses = With(st.addresses, a, 0)], q, n + 1)
<1> DEFINE f == With(st.addresses, a, 0)
           st1 == [st EXCEPT !.addresses = f]
<1>1. DOMAIN f = DOMAIN st.addresses \cup {a} /\ f[a] = 0 /\ \A x \in DOMAIN st.addresses : f[x] = st.addresses[x]
  BY DEF With
<1> HIDE DEF f
<1>2. /\ Objects(st, q, n) /\ Entries(q, n) /\ Access(st, q, n) /\ DOMAIN st = StateFields /\ st.refund \in Nat
  BY DEF Fits
<1>3. /\ st1.addresses = f /\ st1.slots = st.slots /\ st1.objects = st.objects /\ st1.refund = st.refund
      /\ DOMAIN st1 = StateFields
  BY <1>2 DEF StateFields
<1> HIDE DEF st1
<1>4. \A i \in 1..(n + 1) : i \in 1..n \/ i = n + 1
  BY SMT
<1>5. Slotted(q, n, a) = {} /\ \A x : Slotted(q, n + 1, x) = Slotted(q, n, x)
  BY <1>2, NoSlot DEF Access
<1>6. Entries(q, n + 1)
  <2>1. \A i \in 1..n : InTurn(q[i], q[n + 1])
    BY <1>5 DEF InTurn, Slotted
  <2> QED BY SMT, <1>2, <1>4, <2>1 DEF Entries
<1>7. Objects(st1, q, n + 1)
  <2>1. q[n + 1].dirtied = NoAccount
    BY DEF IsEntry, Dirtying
  <2> QED BY <1>2, <1>3, <1>4, <2>1 DEF Objects
<1>8. Indexed(st1)
  <2>1. Indexed(st) /\ Len(st.slots) \in Nat
    BY SMT, <1>2 DEF Access, Indexed, IsSeq
  <2>2. \A x \in 1..Len(st.slots) : \E b \in DOMAIN f : f[b] = x
    BY <1>1, <2>1 DEF Indexed
  <2> QED BY SMTT(20), <1>1, <1>3, <2>1, <2>2 DEF Indexed
<1>9. Access(st1, q, n + 1)
  <2>1. \A x \in DOMAIN f : f[x] # 0 => Slotted(q, n + 1, x) # {} /\ st.slots[f[x]] = KeysOf(q, n + 1, x)
    BY <1>1, <1>2, <1>5 DEF Access, KeysOf
  <2>2. \A x : Slotted(q, n + 1, x) # {} => x \in DOMAIN f /\ f[x] # 0
    BY <1>1, <1>2, <1>5 DEF Access
  <2>3. ASSUME NEW x \in DOMAIN f, NEW b \in DOMAIN f, 0 < f[x], f[x] < f[b]
        PROVE  Precedes(q, n + 1, x, b)
    <3>1. \A y \in DOMAIN st.addresses : st.addresses[y] \in Int
      BY SMT, <1>2 DEF Access, Indexed
    <3>2. x # a /\ b # a
      BY SMT, <1>1, <2>3, <3>1
    <3>3. Precedes(q, n, x, b)
      BY <1>1, <1>2, <2>3, <3>2 DEF Access
    <3> QED BY <1>5, <3>3 DEF Precedes
  <2> QED BY <1>3, <1>8, <2>1, <2>2, <2>3 DEF Access
<1>10. Fits(st1, q, n + 1)
  BY <1>2, <1>3, <1>6, <1>7, <1>9 DEF Fits
<1> QED BY <1>10 DEF st1, f

(* AddSlot, the first of an address: its slot set comes after all others.  *)
LEMMA FirstSlotFits ==
    ASSUME NEW st, NEW q, NEW n \in Nat, NEW a \in DOMAIN st.addresses, NEW k, Fits(st, q, n), st.addresses[a] = 0,
           IsEntry(q[n + 1]), q[n + 1].kind = "accessSlot", q[n + 1].account = a, q[n + 1].key = k
    PROVE  Fits([st EXCEPT !.addresses = With(st.addresses, a, Len(st.slots) + 1),
                           !.slots = Append(st.slots, {k})], q, n + 1)
<1> DEFINE L == Len(st.slots)
           f == With(st.addresses, a, L + 1)
           g == Append(st.slots, {k})
           st1 == [st EXCEPT !.addresses = f, !.slots = g]
<1>1. DOMAIN f = DOMAIN st.addresses /\ f[a] = L + 1 /\ \A x \in DOMAIN st.addresses : x # a => f[x] = st.addresses[x]
  BY DEF With
<1>2. /\ Objects(st, q, n) /\ Entries(q, n) /\ Access(st, q, n) /\ DOMAIN st = StateFields /\ st.refund \in Nat
  BY DEF Fits
<1>3. Indexed(st) /\ IsSeq(st.slots)
  BY <1>2 DEF Access, Indexed
<1>4. L \in Nat /\ IsSeq(g) /\ Len(g) = L + 1 /\ g[L + 1] = {k} /\ \A x \in 1..L : g[x] = st.slots[x]
  BY SMT, <1>3, AppendIsSeq, LenIsNat
<1>5. /\ st1.addresses = f /\ st1.slots = g /\ st1.objects = st.objects /\ st1.refund = st.refund
      /\ DOMAIN st1 = StateFields
  BY <1>2 DEF StateFields
<1>6. Indexed(st) /\ \A x \in DOMAIN st.addresses : st.addresses[x] \in 0..L
  BY <1>3 DEF Indexed
<1> HIDE DEF st1, f, g, L
<1>7. \A i \in 1..(n + 1) : i \in 1..n \/ i = n + 1
  BY SMT
<1>8. Slotted(q, n, a) = {}
  BY <1>2 DEF Access
<1>9. Slotted(q, n + 1, a) = {n + 1} /\ \A x : x # a => Slotted(q, n + 1, x) = Slotted(q, n, x)
  BY SMT, <1>8 DEF Slotted
<1>10. KeysOf(q, n + 1, a) = {k} /\ \A x : x # a => KeysOf(q, n + 1, x) = KeysOf(q, n, x)
  BY <1>9 DEF KeysOf
<1>11. Entries(q, n + 1)
  <2>1. \A i \in 1..n : InTurn(q[i], q[n + 1])
    BY <1>8 DEF InTurn, Slotted
  <2> QED BY SMT, <1>2, <1>7, <2>1 DEF Entries
<1>12. Objects(st1, q, n + 1)
  <2>1. q[n + 1].dirtied = NoAccount
    BY DEF IsEntry, Dirtying
  <2> QED BY <1>2, <1>5, <1>7, <2>1 DEF Objects
<1>13. Indexed(st1)
  <2>1. \A x \in 1..(L + 1) : \E b \in DOMAIN f : f[b] = x
    <3>1. \A x \in 1..L : \E b \in DOMAIN st.addresses : st.addresses[b] = x /\ b # a
      BY SMT, <1>3, <1>4 DEF Indexed, L
    <3>2. \A x \in 1..(L + 1) : x \in 1..L \/ x = L + 1
      BY SMT, <1>4
    <3> QED BY <1>1, <3>1, <3>2
  <2>2. \A x, b \in DOMAIN f : x # b /\ f[x] = f[b] => f[x] = 0
    BY SMT, <1>1, <1>3, <1>4, <1>6 DEF Indexed
  <2>3. \A x \in DOMAIN f : f[x] \in 0..(L + 1)
    BY SMT, <1>1, <1>4, <1>6
  <2>4. DOMAIN f \subseteq Addresses
    BY <1>1, <1>3 DEF Indexed
  <2> QED BY <1>4, <1>5, <2>1, <2>2, <2>3, <2>4 DEF Indexed
<1>14. Access(st1, q, n + 1)
  <2>1. \A x \in DOMAIN f : f[x] # 0 => Slotted(q, n + 1, x) # {} /\ g[f[x]] = KeysOf(q, n + 1, x)
    <3>1. Slotted(q, n + 1, a) # {} /\ g[f[a]] = KeysOf(q, n + 1, a)
      BY <1>1, <1>4, <1>9, <1>10
    <3>2. ASSUME NEW x \in DOMAIN f, f[x] # 0, x # a
          PROVE  Slotted(q, n + 1, x) # {} /\ g[f[x]] = KeysOf(q, n + 1, x)
      <4>1. x \in DOMAIN st.addresses /\ f[x] = st.addresses[x] /\ st.addresses[x] \in 1..L
        BY SMT, <1>1, <1>4, <1>6, <3>2
      <4>2. Slotted(q, n, x) # {} /\ st.slots[st.addresses[x]] = KeysOf(q, n, x)
        BY <1>2, <3>2, <4>1 DEF Access
      <4> QED BY <1>4, <1>9, <1>10, <3>2, <4>1, <4>2
    <3> QED BY <3>1, <3>2
  <2>2. \A x : Slotted(q, n + 1, x) # {} => x \in DOMAIN f /\ f[x] # 0
    BY SMT, <1>1, <1>2, <1>4, <1>9 DEF Access
  <2>3. ASSUME NEW x \in DOMAIN f, NEW b \in DOMAIN f, 0 < f[x], f[x] < f[b]
        PROVE  Precedes(q, n + 1, x, b)
    <3>1. x # a
      BY SMT, <1>1, <1>4, <1>6, <2>3
    <3>2. CASE b = a
      <4>1. Slotted(q, n, x) # {} /\ Slotted(q, n, x) \subseteq 1..n
        <5>1. st.addresses[x] # 0
          BY SMTT(20), <1>1, <1>6, <2>3, <3>1
        <5> QED BY <1>1, <1>2, <5>1 DEF Access, Slotted
      <4> QED BY SMTT(20), <1>9, <3>1, <3>2, <4>1 DEF Precedes
    <3>3. CASE b # a
      <4>1. Precedes(q, n, x, b)
        BY <1>1, <1>2, <2>3, <3>1, <3>3 DEF Access
      <4> QED BY <1>9, <3>1, <3>3, <4>1 DEF Precedes
    <3> QED BY <3>2, <3>3
  <2> QED BY <1>5, <1>13, <2>1, <2>2, <2>3 DEF Access
<1>15. Fits(st1, q, n + 1)
  BY <1>2, <1>5, <1>11, <1>12, <1>14 DEF Fits
<1> QED BY <1>15 DEF st1, f, g, L

(* AddSlot, another one of an address.                                     *)
LEMMA NextSlotFits ==
    ASSUME NEW st, NEW q, NEW n \in Nat, NEW a \in DOMAIN st.addresses, NEW k, Fits(st, q, n),
           st.addresses[a] # 0, k \notin st.slots[st.addresses[a]],
           IsEntry(q[n + 1]), q[n + 1].kind = "accessSlot", q[n + 1].account = a, q[n + 1].key = k
    PROVE  Fits([st EXCEPT !.slots = [st.slots EXCEPT ![st.addresses[a]] = st.slots[st.addresses[a]] \cup {k}]],
                q, n + 1)
<1> DEFINE idx == st.addresses[a]
           more == st.slots[idx] \cup {k}
           g == [st.slots EXCEPT ![idx] = more]
           st1 == [st EXCEPT !.slots = g]
<1>1. /\ Objects(st, q, n) /\ Entries(q, n) /\ Access(st, q, n) /\ DOMAIN st = StateFields /\ st.refund \in Nat
  BY DEF Fits
<1>2. Indexed(st) /\ idx \in 1..Len(st.slots)
  BY SMT, <1>1 DEF Access, Indexed
<1>3. PICK S : st.slots \in Seq(S)
  BY <1>2 DEF Indexed, IsSeq
<1>4. Len(st.slots) \in Nat /\ DOMAIN st.slots = 1..Len(st.slots) /\ st.slots \in Seq(S \cup {more})
  BY SMT, <1>3
<1>5. /\ st1.slots = g /\ st1.addresses = st.addresses /\ st1.objects = st.objects /\ st1.refund = st.refund
      /\ DOMAIN st1 = StateFields
  BY <1>1 DEF StateFields
<1>6. g[idx] = more /\ \A x \in 1..Len(st.slots) : x # idx => g[x] = st.slots[x]
  BY <1>2, <1>4
<1>7. st.slots[idx] = KeysOf(q, n, a) /\ Slotted(q, n, a) # {}
  BY <1>1, <1>2 DEF Access
<1> HIDE DEF more, idx
<1>8. g \in Seq(S \cup {more}) /\ Len(g) = Len(st.slots)
  <2>1. more \in S \cup {more}
    OBVIOUS
  <2> QED BY SMT, <1>2, <1>4, <2>1, ReplacedIsSeq
<1> HIDE DEF st1, g
<1>9. IsSeq(g)
  BY <1>8 DEF IsSeq
<1>10. \A i \in 1..(n + 1) : i \in 1..n \/ i = n + 1
  BY SMT
<1>11. Slotted(q, n + 1, a) = Slotted(q, n, a) \cup {n + 1} /\ \A x : x # a => Slotted(q, n + 1, x) = Slotted(q, n, x)
  BY SMT DEF Slotted
<1>12. KeysOf(q, n + 1, a) = KeysOf(q, n, a) \cup {k} /\ \A x : x # a => KeysOf(q, n + 1, x) = KeysOf(q, n, x)
  BY <1>11 DEF KeysOf
<1>13. k \notin KeysOf(q, n, a)
  BY <1>7 DEF idx
<1>14. Entries(q, n + 1)
  <2>1. \A i \in 1..n : InTurn(q[i], q[n + 1])
    BY <1>13 DEF InTurn, Slotted, KeysOf
  <2> QED BY SMT, <1>1, <1>10, <2>1 DEF Entries
<1>15. Objects(st1, q, n + 1)
  <2>1. q[n + 1].dirtied = NoAccount
    BY DEF IsEntry, Dirtying
  <2> QED BY <1>1, <1>5, <1>10, <2>1 DEF Objects
<1>16. Indexed(st1)
  BY SMTT(20), <1>2, <1>5, <1>8, <1>9 DEF Indexed
<1>17. Access(st1, q, n + 1)
  <2>1. \A x \in DOMAIN st.addresses : st.addresses[x] # 0 =>
           Slotted(q, n + 1, x) # {} /\ g[st.addresses[x]] = KeysOf(q, n + 1, x)
    <3>1. Slotted(q, n + 1, a) # {} /\ g[idx] = KeysOf(q, n + 1, a)
      BY <1>6, <1>7, <1>11, <1>12 DEF more
    <3>2. ASSUME NEW x \in DOMAIN st.addresses, st.addresses[x] # 0, x # a
          PROVE  Slotted(q, n + 1, x) # {} /\ g[st.addresses[x]] = KeysOf(q, n + 1, x)
      <4>1. st.addresses[x] \in 1..Len(st.slots) /\ st.addresses[x] # idx
        BY SMT, <1>2, <1>4, <3>2 DEF Indexed, idx
      <4>2. Slotted(q, n, x) # {} /\ st.slots[st.addresses[x]] = KeysOf(q, n, x)
        BY <1>1, <3>2 DEF Access
      <4> QED BY <1>6, <1>11, <1>12, <3>2, <4>1, <4>2
    <3> QED BY <3>1, <3>2 DEF idx
  <2>2. \A x : Slotted(q, n + 1, x) # {} => x \in DOMAIN st.addresses /\ st.addresses[x] # 0
    BY <1>1, <1>11 DEF Access
  <2>3. ASSUME NEW x \in DOMAIN st.addresses, NEW b \in DOMAIN st.addresses,
               0 < st.addresses[x], st.addresses[x] < st.addresses[b]
        PROVE  Precedes(q, n + 1, x, b)
    <3>1. PICK i \in Slotted(q, n, x) : \A j \in Slotted(q, n, b) : i < j
      BY <1>1, <2>3 DEF Access, Precedes
    <3>2. i \in Slotted(q, n + 1, x) /\ i \in 1..n
      BY <1>11, <3>1 DEF Slotted
    <3>3. \A j \in Slotted(q, n + 1, b) : j \in Slotted(q, n, b) \/ j = n + 1
      BY SMT, <1>11
    <3> QED BY SMT, <3>1, <3>2, <3>3 DEF Precedes
  <2> QED BY <1>5, <1>16, <2>1, <2>2, <2>3 DEF Access
<1>18. Fits(st1, q, n + 1)
  BY <1>1, <1>5, <1>14, <1>15, <1>17 DEF Fits
<1> QED BY <1>18 DEF st1, g, more, idx

-----------------------------------------------------------------------------
(* The invariant behind JournalExact and TypeOK.                           *)
StoredTyped ==
    \A a \in Addresses : keeper.account[a] # NoAccount =>
        keeper.account[a].nonce \in Nat /\ keeper.account[a].balance \in Nat

JInv ==
    /\ IsSeq(journal)
    /\ ExactTo(dirties, journal, Len(journal))
    /\ Fits(s, journal, Len(journal))
    /\ StoredTyped

(* A method may leave state st and append these entries.                   *)
Grown(st, entries) ==
    /\ IsSeq(entries)
    /\ Fits(st, journal \o entries, Len(journal) + Len(entries))

(* Before it does anything.                                                *)
LEMMA GrownStart == ASSUME JInv PROVE Grown(s, <<>>)
<1>1. IsSeq(<<>>) /\ Len(<<>>) = 0
  BY EmptyIsSeq
<1>2. Len(journal) \in Nat /\ Len(journal) + 0 = Len(journal) /\ \A i \in 1..Len(journal) : (journal \o <<>>)[i] = journal[i]
  BY SMT, <1>1, Concatenated DEF JInv
<1>3. Fits(s, journal \o <<>>, Len(journal))
  BY <1>2, SameFits DEF JInv
<1> QED BY <1>1, <1>2, <1>3 DEF Grown

(* One more entry in the list.                                             *)
LEMMA Lengthened ==
    ASSUME IsSeq(journal), NEW entries, IsSeq(entries), NEW e
    PROVE  /\ IsSeq(Append(entries, e))
           /\ Len(journal) + Len(entries) \in Nat
           /\ Len(journal) + Len(Append(entries, e)) = (Len(journal) + Len(entries)) + 1
           /\ (journal \o Append(entries, e))[(Len(journal) + Len(entries)) + 1] = e
           /\ \A i \in 1..(Len(journal) + Len(entries)) : (journal \o Append(entries, e))[i] = (journal \o entries)[i]
<1> DEFINE more == Append(entries, e)
           n == Len(journal)
           m == Len(entries)
<1>1. n \in Nat /\ m \in Nat
  BY LenIsNat
<1>2. IsSeq(more) /\ DOMAIN more = 1..(m + 1) /\ more[m + 1] = e /\ \A i \in 1..m : more[i] = entries[i]
  BY SMT, AppendIsSeq
<1>3. Len(more) \in Nat /\ DOMAIN more = 1..Len(more)
  BY <1>2, LenIsNat
<1>4. Len(more) = m + 1
  BY SMT, <1>1, <1>2, <1>3
<1>5. /\ \A i \in 1..n : (journal \o more)[i] = journal[i]
      /\ \A i \in 1..(m + 1) : (journal \o more)[n + i] = more[i]
  BY SMT, <1>2, <1>4, Concatenated
<1>6. /\ \A i \in 1..n : (journal \o entries)[i] = journal[i]
      /\ \A i \in 1..m : (journal \o entries)[n + i] = entries[i]
  BY SMT, Concatenated
<1> HIDE DEF more, n, m
<1>7. (journal \o more)[(n + m) + 1] = e
  <2>1. n + (m + 1) = (n + m) + 1 /\ m + 1 \in 1..(m + 1)
    BY SMT, <1>1
  <2>2. (journal \o more)[n + (m + 1)] = more[m + 1]
    BY <1>5, <2>1
  <2> QED BY <1>2, <2>1, <2>2, Zenon
<1>8. ASSUME NEW i \in 1..(n + m) PROVE (journal \o more)[i] = (journal \o entries)[i]
  <2>1. CASE i \in 1..n
    BY <1>5, <1>6, <2>1
  <2>2. CASE i \notin 1..n
    <3>1. i - n \in 1..m /\ i - n \in 1..(m + 1) /\ n + (i - n) = i
      BY SMT, <1>1, <2>2
    <3> QED BY ZenonT(30), <1>2, <1>5, <1>6, <3>1
  <2> QED BY <2>1, <2>2
<1>9. n + m \in Nat /\ n + (m + 1) = (n + m) + 1
  BY SMT, <1>1
<1> QED BY <1>2, <1>4, <1>7, <1>8, <1>9 DEF more, n, m

(* An entry for an account with an object.                                 *)
LEMMA GrownEntry ==
    ASSUME JInv, NEW st, NEW entries, Grown(st, entries), NEW e, IsEntry(e),
           e.kind \in (Dirtying \ {"create"}) \cup {"reset"}, e.account \in DOMAIN st.objects
    PROVE  Grown(st, Append(entries, e))
<1> DEFINE q == journal \o entries
           r == journal \o Append(entries, e)
           n == Len(journal) + Len(entries)
<1>1. /\ IsSeq(Append(entries, e)) /\ n \in Nat /\ Len(journal) + Len(Append(entries, e)) = n + 1
      /\ r[n + 1] = e /\ \A i \in 1..n : r[i] = q[i]
  BY SMT, Lengthened DEF JInv, Grown
<1>2. Fits(st, q, n)
  BY DEF Grown
<1> HIDE DEF q, r, n
<1>3. Fits(st, r, n)
  BY <1>1, <1>2, SameFits
<1>4. Fits(st, r, n + 1)
  BY <1>1, <1>3, AccountEntry
<1> QED BY <1>1, <1>4 DEF Grown, r

(* More objects, or other objects.                                         *)
LEMMA GrownObjects ==
    ASSUME JInv, NEW st, NEW entries, Grown(st, entries), NEW f, DOMAIN st.objects \subseteq DOMAIN f,
           DOMAIN f \subseteq Addresses, \A a \in DOMAIN f : IsObject(f[a])
    PROVE  Grown([st EXCEPT !.objects = f], entries)
<1>1. Len(journal) + Len(entries) \in Nat
  BY SMT, LenIsNat DEF JInv, Grown
<1> QED BY <1>1, NewObjects DEF Grown

(* Another object for an account that has one.                             *)
LEMMA GrownObject ==
    ASSUME JInv, NEW st, NEW entries, Grown(st, entries), NEW a \in DOMAIN st.objects, NEW o, IsObject(o)
    PROVE  Grown([st EXCEPT !.objects = [st.objects EXCEPT ![a] = o]], entries)
<1> DEFINE f == [st.objects EXCEPT ![a] = o]
<1>1. DOMAIN st.objects \subseteq Addresses /\ \A x \in DOMAIN st.objects : IsObject(st.objects[x])
  BY DEF Grown, Fits, Objects
<1>2. DOMAIN f = DOMAIN st.objects /\ \A x \in DOMAIN f : IsObject(f[x])
  BY <1>1
<1> HIDE DEF f
<1>3. Grown([st EXCEPT !.objects = f], entries)
  BY <1>1, <1>2, GrownObjects
<1> QED BY <1>3 DEF f

(* append of a method's entries keeps the invariant.                       *)
LEMMA RecordKeeps ==
    ASSUME JInv, NEW st, NEW entries, Grown(st, entries), Record(st, entries)
    PROVE  JInv'
<1>1. s' = st /\ journal' = journal \o entries /\ dirties' = Counted(entries) /\ keeper' = keeper
  BY DEF Record, chainVars
<1>2. IsSeq(journal \o entries) /\ Len(journal \o entries) = Len(journal) + Len(entries)
  BY Concatenated DEF JInv, Grown
<1>3. ExactTo(Counted(entries), journal \o entries, Len(journal) + Len(entries))
  BY CountedExact DEF JInv, Grown
<1>4. StoredTyped'
  BY <1>1 DEF JInv, StoredTyped
<1> QED BY <1>1, <1>2, <1>3, <1>4 DEF JInv, Grown

(* getStateObject loads accounts as they are stored.                       *)
LEMMA GrownLoaded ==
    ASSUME JInv, NEW a \in Addresses
    PROVE  /\ Grown(Loaded(s, a), <<>>)
           /\ Exist(a) <=> a \in DOMAIN Loaded(s, a).objects
<1>1. CASE a \in DOMAIN s.objects \/ keeper.account[a] = NoAccount
  BY <1>1, GrownStart DEF Loaded, Exist
<1>2. CASE a \notin DOMAIN s.objects /\ keeper.account[a] # NoAccount
  <2> DEFINE o == newObject(keeper.account[a])
             f == With(s.objects, a, o)
  <2>1. Loaded(s, a) = [s EXCEPT !.objects = f]
    BY <1>2 DEF Loaded
  <2>2. DOMAIN f = DOMAIN s.objects \cup {a} /\ f[a] = o /\ \A x \in DOMAIN s.objects : x # a => f[x] = s.objects[x]
    BY DEF With
  <2>3. IsObject(o)
    BY <1>2 DEF IsObject, newObject, ObjectFields, JInv, StoredTyped
  <2>4. /\ DOMAIN s.objects \subseteq Addresses /\ DOMAIN s = StateFields
        /\ \A x \in DOMAIN s.objects : IsObject(s.objects[x])
    BY DEF JInv, Fits, Objects
  <2> HIDE DEF f, o
  <2>5. Grown([s EXCEPT !.objects = f], <<>>)
    <3>1. \A x \in DOMAIN f : IsObject(f[x])
      BY <2>2, <2>3, <2>4
    <3> QED BY <2>2, <2>4, <3>1, GrownStart, GrownObjects
  <2>6. [s EXCEPT !.objects = f].objects = f
    BY <2>4 DEF StateFields
  <2> QED BY <1>2, <2>1, <2>2, <2>5, <2>6 DEF Exist
<1> QED BY <1>1, <1>2

(* createObject: a new object, and how to get back.                        *)
LEMMA GrownCreated ==
    ASSUME JInv, NEW a \in Addresses, NEW st, Grown(st, <<>>)
    PROVE  LET c == createObject(st, a)
           IN Grown(c.st, c.entries) /\ a \in DOMAIN c.st.objects
<1> DEFINE c == createObject(st, a)
           o == newObject(EmptyAccount)
<1>1. IsObject(o) /\ IsObject([o EXCEPT !.created = TRUE])
  BY DEF IsObject, newObject, EmptyAccount, ObjectFields
<1>2. Append(<<>>, Entry("reset", a, NoAccount, st.objects[a])) = <<Entry("reset", a, NoAccount, st.objects[a])>>
  BY SMT
<1>3. Append(<<>>, Entry("create", a, NoAccount, NoAccount)) = <<Entry("create", a, NoAccount, NoAccount)>>
  BY SMT
<1>4. DOMAIN st = StateFields /\ \A x \in DOMAIN st.objects : IsObject(st.objects[x])
  BY DEF Grown, Fits, Objects
<1>5. CASE a \in DOMAIN st.objects
  <2> DEFINE e == Entry("reset", a, NoAccount, st.objects[a])
             st1 == [st EXCEPT !.objects = [st.objects EXCEPT ![a] = o]]
  <2>1. c.st = st1 /\ c.entries = Append(<<>>, e)
    BY <1>2, <1>5 DEF createObject
  <2>2. IsEntry(e) /\ e.kind = "reset" /\ e.account = a
    BY <1>4, <1>5 DEF IsEntry, Entry, EntryKinds, Dirtying
  <2>3. Grown(st, Append(<<>>, e))
    BY <1>5, <2>2, GrownEntry
  <2>4. Grown(st1, Append(<<>>, e))
    BY <1>1, <1>5, <2>3, GrownObject
  <2>5. st1.objects = [st.objects EXCEPT ![a] = o]
    BY <1>4 DEF StateFields
  <2> QED BY <1>5, <2>1, <2>4, <2>5
<1>6. CASE a \notin DOMAIN st.objects
  <2> DEFINE e == Entry("create", a, NoAccount, NoAccount)
             o1 == [o EXCEPT !.created = TRUE]
             st1 == [st EXCEPT !.objects = With(st.objects, a, o1)]
             q == journal \o Append(<<>>, e)
             n == Len(journal) + Len(<<>>)
  <2>1. c.st = st1 /\ c.entries = Append(<<>>, e)
    BY <1>3, <1>6 DEF createObject
  <2>2. IsEntry(e) /\ e.kind = "create" /\ e.account = a
    BY DEF IsEntry, Entry, EntryKinds, Dirtying
  <2>3. /\ IsSeq(Append(<<>>, e)) /\ n \in Nat /\ Len(journal) + Len(Append(<<>>, e)) = n + 1
        /\ q[n + 1] = e /\ \A i \in 1..n : q[i] = (journal \o <<>>)[i]
    BY ZenonT(30), Lengthened, EmptyIsSeq DEF JInv
  <2>4. Fits(st, journal \o <<>>, n)
    BY DEF Grown
  <2>5. st1.objects = With(st.objects, a, o1)
    BY <1>4 DEF StateFields
  <2>6. a \in DOMAIN st1.objects
    BY <2>5 DEF With
  <2> HIDE DEF e, o1, q, n
  <2>7. Fits(st, q, n)
    BY <2>3, <2>4, SameFits
  <2>8. Fits(st1, q, n + 1)
    BY <1>1, <1>6, <2>2, <2>3, <2>7, CreateFits DEF o1
  <2>9. Grown(st1, Append(<<>>, e))
    BY <2>3, <2>8 DEF Grown, q
  <2> QED BY <2>1, <2>6, <2>9 DEF o1, e
<1> QED BY <1>5, <1>6

(* getOrNewStateObject.                                                    *)
LEMMA GrownGetOrNew ==
    ASSUME JInv, NEW a \in Addresses
    PROVE  LET g == getOrNewStateObject(a)
           IN /\ Grown(g.st, g.entries) /\ a \in DOMAIN g.st.objects
              /\ Exist(a) => g.st = Loaded(s, a)
<1>1. Grown(Loaded(s, a), <<>>) /\ (Exist(a) <=> a \in DOMAIN Loaded(s, a).objects)
  BY GrownLoaded
<1>2. CASE a \in DOMAIN Loaded(s, a).objects
  BY <1>1, <1>2 DEF getOrNewStateObject
<1>3. CASE a \notin DOMAIN Loaded(s, a).objects
  <2>1. getOrNewStateObject(a) = createObject(Loaded(s, a), a)
    BY <1>3 DEF getOrNewStateObject
  <2> QED BY <1>1, <1>3, <2>1, GrownCreated
<1> QED BY <1>2, <1>3

(* A change of one object, with the entry that undoes it.                  *)
LEMMA ChangeKeeps ==
    ASSUME JInv, NEW st, NEW entries, Grown(st, entries), NEW a \in DOMAIN st.objects, NEW o, IsObject(o),
           NEW e, IsEntry(e), e.kind \in (Dirtying \ {"create"}) \cup {"reset"}, e.account = a,
           NEW st1, st1 = [st EXCEPT !.objects = [st.objects EXCEPT ![a] = o]],
           Record(st1, Append(entries, e))
    PROVE  JInv'
<1>1. Grown(st, Append(entries, e))
  BY GrownEntry
<1>2. Grown(st1, Append(entries, e))
  BY <1>1, GrownObject
<1> QED BY <1>2, RecordKeeps

(* The methods on accounts.                                                *)
LEMMA ChangeBalanceKeeps ==
    ASSUME JInv, NEW a \in Addresses, NEW x \in Int, ChangeBalance(a, x),
           x < 0 => Exist(a) /\ Loaded(s, a).objects[a].balance + x >= 0
    PROVE  JInv'
<1> DEFINE g == getOrNewStateObject(a)
           o == g.st.objects[a]
           e == Entry("balance", a, NoAccount, o.balance)
           o1 == [o EXCEPT !.balance = o.balance + x]
<1>1. Grown(g.st, g.entries) /\ a \in DOMAIN g.st.objects /\ (Exist(a) => g.st = Loaded(s, a))
  BY GrownGetOrNew
<1>2. IsObject(o)
  BY <1>1 DEF Grown, Fits, Objects
<1>3. o.balance + x \in Nat
  BY SMT, <1>1, <1>2 DEF IsObject
<1>4. IsObject(o1) /\ IsEntry(e) /\ e.kind = "balance" /\ e.account = a
  BY <1>2, <1>3 DEF IsObject, ObjectFields, IsEntry, Entry, EntryKinds, Dirtying
<1>5. CASE x = 0
  <2>1. Record(g.st, g.entries)
    BY <1>5 DEF ChangeBalance
  <2> QED BY <1>1, <2>1, RecordKeeps
<1>6. CASE x # 0
  <2> DEFINE st1 == [g.st EXCEPT !.objects[a].balance = @ + x]
  <2>1. Record(st1, Append(g.entries, e))
    BY <1>6 DEF ChangeBalance
  <2>2. st1 = [g.st EXCEPT !.objects = [g.st.objects EXCEPT ![a] = o1]]
    OBVIOUS
  <2>3. e.kind \in (Dirtying \ {"create"}) \cup {"reset"}
    BY <1>4 DEF Dirtying
  <2> HIDE DEF g, o1, e, st1
  <2> QED BY SMTT(20), <1>1, <1>4, <2>1, <2>2, <2>3, ChangeKeeps DEF g, o1
<1> QED BY <1>5, <1>6

(* SetNonce.                                                               *)
LEMMA SetNonceKeeps ==
    ASSUME JInv, NEW a \in Addresses, NEW n \in Nat, SetNonce(a, n)
    PROVE  JInv'
<1> DEFINE g == getOrNewStateObject(a)
           o == g.st.objects[a]
           e == Entry("nonce", a, NoAccount, o.nonce)
           o1 == [o EXCEPT !.nonce = n]
           st1 == [g.st EXCEPT !.objects[a].nonce = n]
<1>1. Grown(g.st, g.entries) /\ a \in DOMAIN g.st.objects
  BY GrownGetOrNew
<1>2. IsObject(o)
  BY <1>1 DEF Grown, Fits, Objects
<1>3. IsObject(o1) /\ IsEntry(e) /\ e.kind \in (Dirtying \ {"create"}) \cup {"reset"} /\ e.account = a
  BY <1>2 DEF IsObject, ObjectFields, IsEntry, Entry, EntryKinds, Dirtying
<1>4. Record(st1, Append(g.entries, e))
  BY DEF SetNonce
<1>5. st1 = [g.st EXCEPT !.objects = [g.st.objects EXCEPT ![a] = o1]]
  OBVIOUS
<1> HIDE DEF g, o1, e, st1
<1> QED BY <1>1, <1>3, <1>4, <1>5, ChangeKeeps DEF g, o1

(* SetCode.                                                                *)
LEMMA SetCodeKeeps ==
    ASSUME JInv, NEW a \in Addresses, NEW c, SetCode(a, c)
    PROVE  JInv'
<1> DEFINE g == getOrNewStateObject(a)
           o == g.st.objects[a]
           e == Entry("code", a, NoAccount, o.code)
           o1 == [o EXCEPT !.code = c, !.dirtyCode = TRUE]
           st1 == [g.st EXCEPT !.objects[a].code = c, !.objects[a].dirtyCode = TRUE]
<1>1. Grown(g.st, g.entries) /\ a \in DOMAIN g.st.objects
  BY GrownGetOrNew
<1>2. IsObject(o)
  BY <1>1 DEF Grown, Fits, Objects
<1>3. IsObject(o1) /\ IsEntry(e) /\ e.kind \in (Dirtying \ {"create"}) \cup {"reset"} /\ e.account = a
  BY <1>2 DEF IsObject, ObjectFields, IsEntry, Entry, EntryKinds, Dirtying
<1>4. Record(st1, Append(g.entries, e))
  BY DEF SetCode
<1>5. st1 = [g.st EXCEPT !.objects = [g.st.objects EXCEPT ![a] = o1]]
  OBVIOUS
<1> HIDE DEF g, o1, e, st1
<1> QED BY <1>1, <1>3, <1>4, <1>5, ChangeKeeps DEF g, o1

(* SetState, which first remembers the committed value it reads.           *)
LEMMA SetStateKeeps ==
    ASSUME JInv, NEW a \in Addresses, NEW k, NEW v, SetState(a, k, v)
    PROVE  JInv'
<1> DEFINE g == getOrNewStateObject(a)
           o == g.st.objects[a]
           prev == GetState(o, a, k)
           read == IF k \in DOMAIN o.dirty THEN g.st ELSE [g.st EXCEPT !.objects[a].origin = With(@, k, prev)]
           e == Entry("storage", a, k, prev)
<1>1. Grown(g.st, g.entries) /\ a \in DOMAIN g.st.objects
  BY GrownGetOrNew
<1>2. IsObject(o) /\ DOMAIN g.st = StateFields
  BY <1>1 DEF Grown, Fits, Objects
<1>3. Grown(read, g.entries) /\ a \in DOMAIN read.objects
  <2>1. CASE k \in DOMAIN o.dirty
    BY <1>1, <2>1
  <2>2. CASE k \notin DOMAIN o.dirty
    <3> DEFINE o2 == [o EXCEPT !.origin = With(@, k, prev)]
    <3>1. read = [g.st EXCEPT !.objects = [g.st.objects EXCEPT ![a] = o2]]
      BY <2>2
    <3>2. IsObject(o2)
      BY <1>2 DEF IsObject, ObjectFields
    <3>3. read.objects = [g.st.objects EXCEPT ![a] = o2]
      BY <1>2, <3>1 DEF StateFields
    <3>4. DOMAIN read.objects = DOMAIN g.st.objects
      BY <3>3
    <3> HIDE DEF g, o2, read
    <3>5. Grown(read, g.entries)
      BY <1>1, <3>1, <3>2, GrownObject DEF g
    <3> QED BY <1>1, <3>4, <3>5 DEF g
  <2> QED BY <2>1, <2>2
<1>4. \/ prev = v /\ Record(read, g.entries)
      \/ Record([read EXCEPT !.objects[a].dirty = With(@, k, v)], Append(g.entries, e))
  BY DEF SetState
<1>5. CASE Record(read, g.entries)
  BY <1>3, <1>5, RecordKeeps
<1>6. CASE Record([read EXCEPT !.objects[a].dirty = With(@, k, v)], Append(g.entries, e))
  <2> HIDE DEF read, g, prev
  <2> DEFINE o1 == [read.objects[a] EXCEPT !.dirty = With(@, k, v)]
             st1 == [read EXCEPT !.objects[a].dirty = With(@, k, v)]
  <2>1. IsObject(read.objects[a])
    BY <1>3 DEF Grown, Fits, Objects
  <2>2. IsObject(o1) /\ IsEntry(e) /\ e.kind \in (Dirtying \ {"create"}) \cup {"reset"} /\ e.account = a
    BY <2>1 DEF IsObject, ObjectFields, IsEntry, Entry, EntryKinds, Dirtying
  <2>3. st1 = [read EXCEPT !.objects = [read.objects EXCEPT ![a] = o1]]
    OBVIOUS
  <2>4. Record(st1, Append(g.entries, e))
    BY <1>6
  <2> HIDE DEF st1, o1, e
  <2> QED BY <1>3, <2>2, <2>3, <2>4, ChangeKeeps
<1> QED BY <1>4, <1>5, <1>6

(* CreateAccount, of a call and of a creation.                             *)
LEMMA CreateKeeps ==
    ASSUME JInv, NEW a \in Addresses, CreateAccount(a) \/ CreateContract(a)
    PROVE  JInv'
<1> DEFINE old == Loaded(s, a)
           c == createObject(old, a)
<1>1. Grown(old, <<>>) /\ (Exist(a) <=> a \in DOMAIN old.objects)
  BY GrownLoaded
<1>2. Grown(c.st, c.entries) /\ a \in DOMAIN c.st.objects
  BY <1>1, GrownCreated
<1>3. CASE CreateAccount(a)
  <2>1. Record(c.st, c.entries)
    BY <1>3 DEF CreateAccount
  <2> QED BY <1>2, <2>1, RecordKeeps
<1>4. CASE CreateContract(a)
  <2> DEFINE kept == IF Exist(a) THEN old.objects[a].balance ELSE 0
             o == c.st.objects[a]
             e == Entry("nonce", a, NoAccount, 0)
             o1 == [o EXCEPT !.balance = kept, !.nonce = 1]
             st1 == [c.st EXCEPT !.objects[a].balance = kept, !.objects[a].nonce = 1]
  <2>1. Record(st1, Append(c.entries, e))
    BY <1>4 DEF CreateContract
  <2>2. IsObject(o)
    BY <1>2 DEF Grown, Fits, Objects
  <2>3. kept \in Nat
    BY <1>1 DEF Grown, Fits, Objects, IsObject
  <2> HIDE DEF kept, c, old
  <2>4. IsObject(o1) /\ IsEntry(e) /\ e.kind \in (Dirtying \ {"create"}) \cup {"reset"} /\ e.account = a
    BY <2>2, <2>3 DEF IsObject, ObjectFields, IsEntry, Entry, EntryKinds, Dirtying
  <2>5. st1 = [c.st EXCEPT !.objects = [c.st.objects EXCEPT ![a] = o1]]
    OBVIOUS
  <2> HIDE DEF o1, e, st1
  <2> QED BY <1>2, <2>1, <2>4, <2>5, ChangeKeeps
<1> QED BY <1>3, <1>4

(* Suicide and SelfDestruct, and the latter as of EIP-6780.                *)
LEMMA DestructKeeps ==
    ASSUME JInv, NEW a \in Addresses, Suicide(a) \/ SelfDestruct(a) \/ Selfdestruct6780(a)
    PROVE  JInv'
<1> DEFINE st == Loaded(s, a)
           o == st.objects[a]
<1>1. Grown(st, <<>>) /\ a \in DOMAIN st.objects
  BY GrownLoaded DEF Suicide, SelfDestruct, Selfdestruct6780
<1>2. IsObject(o)
  BY <1>1 DEF Grown, Fits, Objects
<1>3. ASSUME Suicide(a) PROVE JInv'
  <2> DEFINE e == Entry("suicide", a, NoAccount, [flag |-> o.suicided, balance |-> o.balance])
             o1 == [o EXCEPT !.suicided = TRUE, !.balance = 0]
             st1 == [st EXCEPT !.objects[a].suicided = TRUE, !.objects[a].balance = 0]
  <2>1. Record(st1, <<e>>)
    BY <1>3 DEF Suicide
  <2>2. <<e>> = Append(<<>>, e)
    BY SMT
  <2> HIDE DEF st
  <2>3. IsObject(o1) /\ IsEntry(e) /\ e.kind \in (Dirtying \ {"create"}) \cup {"reset"} /\ e.account = a
    BY <1>2 DEF IsObject, ObjectFields, IsEntry, Entry, EntryKinds, Dirtying
  <2>4. st1 = [st EXCEPT !.objects = [st.objects EXCEPT ![a] = o1]]
    OBVIOUS
  <2> HIDE DEF o1, e, st1
  <2>5. Record(st1, Append(<<>>, e))
    BY <2>1, <2>2
  <2> QED BY <1>1, <2>3, <2>4, <2>5, ChangeKeeps
<1>4. ASSUME SelfDestruct(a) PROVE JInv'
  <2> DEFINE e == Entry("selfDestruct", a, NoAccount, [flag |-> o.selfDestructed, balance |-> o.balance])
             o1 == [o EXCEPT !.selfDestructed = TRUE, !.balance = 0]
             st1 == [st EXCEPT !.objects[a].selfDestructed = TRUE, !.objects[a].balance = 0]
  <2>1. Record(st1, <<e>>)
    BY <1>4 DEF SelfDestruct
  <2>2. <<e>> = Append(<<>>, e)
    BY SMT
  <2> HIDE DEF st
  <2>3. IsObject(o1) /\ IsEntry(e) /\ e.kind \in (Dirtying \ {"create"}) \cup {"reset"} /\ e.account = a
    BY <1>2 DEF IsObject, ObjectFields, IsEntry, Entry, EntryKinds, Dirtying
  <2>4. st1 = [st EXCEPT !.objects = [st.objects EXCEPT ![a] = o1]]
    OBVIOUS
  <2> HIDE DEF o1, e, st1
  <2>5. Record(st1, Append(<<>>, e))
    BY <2>1, <2>2
  <2> QED BY <1>1, <2>3, <2>4, <2>5, ChangeKeeps
<1>5. ASSUME Selfdestruct6780(a) PROVE JInv'
  <2>1. SelfDestruct(a) \/ Record(st, <<>>)
    BY <1>5 DEF Selfdestruct6780
  <2> QED BY <1>1, <1>4, <2>1, RecordKeeps
<1> QED BY <1>3, <1>4, <1>5

(* A list of entries a method has gathered, and the next one: what is left *)
(* to show is that the state fits the journal with that entry.             *)
LEMMA Extended ==
    ASSUME JInv, NEW st, NEW entries, Grown(st, entries), NEW e
    PROVE  LET q == journal \o Append(entries, e)
               n == Len(journal) + Len(entries)
           IN /\ n \in Nat /\ q[n + 1] = e /\ Fits(st, q, n)
              /\ \A st1 : Fits(st1, q, n + 1) => Grown(st1, Append(entries, e))
<1> DEFINE q == journal \o entries
           r == journal \o Append(entries, e)
           n == Len(journal) + Len(entries)
<1>1. /\ IsSeq(Append(entries, e)) /\ n \in Nat /\ Len(journal) + Len(Append(entries, e)) = n + 1
      /\ r[n + 1] = e /\ \A i \in 1..n : r[i] = q[i]
  BY SMT, Lengthened DEF JInv, Grown
<1>2. Fits(st, q, n)
  BY DEF Grown
<1>3. ASSUME NEW st1, Fits(st1, r, n + 1) PROVE Grown(st1, Append(entries, e))
  BY <1>1, <1>3 DEF Grown
<1> HIDE DEF q, r, n
<1>4. Fits(st, r, n)
  BY <1>1, <1>2, SameFits
<1> QED BY <1>1, <1>3, <1>4 DEF r, n

(* Refunds, logs and transient storage.                                    *)
LEMMA PlainKeeps ==
    ASSUME JInv, NEW st1, DOMAIN st1 = StateFields, st1.refund \in Nat, st1.objects = s.objects,
           st1.addresses = s.addresses, st1.slots = s.slots, NEW e, IsEntry(e),
           e.kind \in {"refund", "log", "transient"}, Record(st1, <<e>>)
    PROVE  JInv'
<1> DEFINE r == journal \o Append(<<>>, e)
           n == Len(journal) + Len(<<>>)
<1>1. Grown(s, <<>>) /\ <<e>> = Append(<<>>, e)
  BY SMT, GrownStart
<1>2. n \in Nat /\ r[n + 1] = e /\ Fits(s, r, n) /\ \A st : Fits(st, r, n + 1) => Grown(st, Append(<<>>, e))
  BY <1>1, Extended
<1> HIDE DEF r, n
<1>3. Fits(s, r, n + 1)
  BY <1>2, PlainEntry
<1>4. Fits(st1, r, n + 1)
  BY SMT, <1>2, <1>3, PlainChange
<1>5. Grown(st1, <<e>>)
  BY <1>1, <1>2, <1>4
<1> QED BY <1>5, RecordKeeps

(* AddRefund, SubRefund, AddLog and SetTransientState touch no object.     *)
LEMMA PlainMethodKeeps ==
    ASSUME JInv,
           \/ \E x \in Amounts : AddRefund(x) \/ SubRefund(x)
           \/ \E p \in Payloads : AddLog(p)
           \/ \E a \in Addresses, k \in Keys, v \in Values : SetTransientState(a, k, v)
    PROVE  JInv'
<1>1. DOMAIN s = StateFields /\ s.refund \in Nat
  BY DEF JInv, Fits
<1>2. ASSUME NEW x \in Int, s.refund + x >= 0, AddRefund(x) PROVE JInv'
  <2> DEFINE e == Entry("refund", NoAccount, NoAccount, s.refund)
             st1 == [s EXCEPT !.refund = @ + x]
  <2>1. Record(st1, <<e>>)
    BY <1>2 DEF AddRefund
  <2>2. IsEntry(e) /\ e.kind = "refund"
    BY <1>1 DEF IsEntry, Entry, EntryKinds, Dirtying
  <2>3. /\ DOMAIN st1 = StateFields /\ st1.refund \in Nat /\ st1.objects = s.objects
        /\ st1.addresses = s.addresses /\ st1.slots = s.slots
    BY SMT, <1>1, <1>2 DEF StateFields
  <2> HIDE DEF e, st1
  <2> QED BY <2>1, <2>2, <2>3, PlainKeeps
<1>3. ASSUME NEW p, AddLog(p) PROVE JInv'
  <2> DEFINE e == Entry("log", NoAccount, NoAccount, NoAccount)
             st1 == [s EXCEPT !.logs = Append(@, p)]
  <2>1. Record(st1, <<e>>)
    BY <1>3 DEF AddLog
  <2>2. IsEntry(e) /\ e.kind = "log"
    BY DEF IsEntry, Entry, EntryKinds, Dirtying
  <2>3. /\ DOMAIN st1 = StateFields /\ st1.refund \in Nat /\ st1.objects = s.objects
        /\ st1.addresses = s.addresses /\ st1.slots = s.slots
    BY <1>1 DEF StateFields
  <2> HIDE DEF e, st1
  <2> QED BY <2>1, <2>2, <2>3, PlainKeeps
<1>4. ASSUME NEW a, NEW k, NEW v, SetTransientState(a, k, v) PROVE JInv'
  <2> DEFINE e == Entry("transient", a, k, s.transient[a, k])
             st1 == [s EXCEPT !.transient[<<a, k>>] = v]
  <2>1. Record(st1, <<e>>)
    BY <1>4 DEF SetTransientState
  <2>2. IsEntry(e) /\ e.kind = "transient"
    BY DEF IsEntry, Entry, EntryKinds, Dirtying
  <2>3. /\ DOMAIN st1 = StateFields /\ st1.refund \in Nat /\ st1.objects = s.objects
        /\ st1.addresses = s.addresses /\ st1.slots = s.slots
    BY <1>1 DEF StateFields
  <2> HIDE DEF e, st1
  <2> QED BY <2>1, <2>2, <2>3, PlainKeeps
<1>5. \A x \in Amounts : x \in Nat
  BY StateDBAssumption
<1>6. \A x \in Amounts : SubRefund(x) => x <= s.refund /\ AddRefund(-x)
  BY DEF SubRefund
<1>7. \A x \in Amounts : AddRefund(x) \/ SubRefund(x) => JInv'
  BY SMT, <1>1, <1>2, <1>5, <1>6
<1> QED BY <1>3, <1>4, <1>7

(* AddAddressToAccessList.                                                 *)
LEMMA GrownAddress ==
    ASSUME JInv, NEW a \in Addresses, a \notin DOMAIN s.addresses
    PROVE  Grown([s EXCEPT !.addresses = With(s.addresses, a, 0)],
                 Append(<<>>, Entry("accessAccount", a, NoAccount, NoAccount)))
<1> DEFINE e == Entry("accessAccount", a, NoAccount, NoAccount)
           r == journal \o Append(<<>>, e)
           n == Len(journal) + Len(<<>>)
<1>1. Grown(s, <<>>)
  BY GrownStart
<1>2. IsEntry(e) /\ e.kind = "accessAccount" /\ e.account = a
  BY DEF IsEntry, Entry, EntryKinds, Dirtying
<1> HIDE DEF e
<1>3. n \in Nat /\ r[n + 1] = e /\ Fits(s, r, n) /\ \A st : Fits(st, r, n + 1) => Grown(st, Append(<<>>, e))
  BY <1>1, Extended
<1> HIDE DEF r, n
<1>4. Fits([s EXCEPT !.addresses = With(s.addresses, a, 0)], r, n + 1)
  BY <1>2, <1>3, AddressFits
<1>5. Grown([s EXCEPT !.addresses = With(s.addresses, a, 0)], Append(<<>>, e))
  BY <1>3, <1>4
<1> QED BY <1>5 DEF e

(* The first slot of an address that is on the list, and a further one.    *)
LEMMA GrownSlot ==
    ASSUME JInv, NEW st, NEW entries, Grown(st, entries), NEW a \in DOMAIN st.addresses, NEW k
    PROVE  LET e == Entry("accessSlot", a, k, NoAccount)
               idx == st.addresses[a]
           IN /\ idx = 0 => Grown([st EXCEPT !.addresses = With(st.addresses, a, Len(st.slots) + 1),
                                             !.slots = Append(st.slots, {k})], Append(entries, e))
              /\ idx # 0 /\ k \notin st.slots[idx] =>
                    Grown([st EXCEPT !.slots = [st.slots EXCEPT ![idx] = st.slots[idx] \cup {k}]],
                          Append(entries, e))
<1> DEFINE e == Entry("accessSlot", a, k, NoAccount)
           r == journal \o Append(entries, e)
           n == Len(journal) + Len(entries)
           first == [st EXCEPT !.addresses = With(st.addresses, a, Len(st.slots) + 1), !.slots = Append(st.slots, {k})]
           next == [st EXCEPT !.slots = [st.slots EXCEPT ![st.addresses[a]] = st.slots[st.addresses[a]] \cup {k}]]
<1>1. IsEntry(e) /\ e.kind = "accessSlot" /\ e.account = a /\ e.key = k
  BY DEF IsEntry, Entry, EntryKinds, Dirtying
<1> HIDE DEF e
<1>2. n \in Nat /\ r[n + 1] = e /\ Fits(st, r, n) /\ \A st1 : Fits(st1, r, n + 1) => Grown(st1, Append(entries, e))
  BY Extended
<1> HIDE DEF r, n
<1>3. st.addresses[a] = 0 => Fits(first, r, n + 1)
  BY <1>1, <1>2, FirstSlotFits
<1>4. st.addresses[a] # 0 /\ k \notin st.slots[st.addresses[a]] => Fits(next, r, n + 1)
  BY <1>1, <1>2, NextSlotFits
<1> HIDE DEF first, next
<1>5. /\ st.addresses[a] = 0 => Grown(first, Append(entries, e))
      /\ st.addresses[a] # 0 /\ k \notin st.slots[st.addresses[a]] => Grown(next, Append(entries, e))
  BY <1>2, <1>3, <1>4
<1> QED BY <1>5 DEF e, first, next

(* AddAddressToAccessList and AddSlotToAccessList.                         *)
LEMMA AccessKeeps ==
    ASSUME JInv, NEW a \in Addresses,
           AddAddressToAccessList(a) \/ \E k \in Slots : AddSlotToAccessList(a, k)
    PROVE  JInv'
<1> DEFINE e0 == Entry("accessAccount", a, NoAccount, NoAccount)
           st0 == [s EXCEPT !.addresses = With(s.addresses, a, 0)]
<1>1. a \notin DOMAIN s.addresses => Grown(st0, <<e0>>)
  <2>1. <<e0>> = Append(<<>>, e0)
    BY SMT
  <2> QED BY <2>1, GrownAddress
<1>2. CASE AddAddressToAccessList(a)
  <2>1. a \notin DOMAIN s.addresses /\ Record(st0, <<e0>>)
    BY <1>2 DEF AddAddressToAccessList
  <2> HIDE DEF st0, e0
  <2> QED BY <1>1, <2>1, RecordKeeps
<1>3. ASSUME NEW k, AddSlotToAccessList(a, k) PROVE JInv'
  <2> DEFINE e == Entry("accessSlot", a, k, NoAccount)
             First(st) == [st EXCEPT !.addresses = With(st.addresses, a, Len(st.slots) + 1),
                                     !.slots = Append(st.slots, {k})]
             Another == [s EXCEPT !.slots = [s.slots EXCEPT ![s.addresses[a]] = s.slots[s.addresses[a]] \cup {k}]]
  <2>1. CASE a \in DOMAIN s.addresses /\ s.addresses[a] = 0
    <3>1. Record(First(s), Append(<<>>, e))
      BY <1>3, <2>1 DEF AddSlotToAccessList
    <3>2. Grown(First(s), Append(<<>>, e))
      BY <2>1, GrownStart, GrownSlot
    <3> HIDE DEF e, First
    <3> QED BY <3>1, <3>2, RecordKeeps
  <2>2. CASE a \in DOMAIN s.addresses /\ s.addresses[a] # 0
    <3>1. Record(Another, Append(<<>>, e)) /\ k \notin s.slots[s.addresses[a]]
      BY <1>3, <2>2 DEF AddSlotToAccessList
    <3>2. Grown(Another, Append(<<>>, e))
      BY <2>2, <3>1, GrownStart, GrownSlot
    <3> HIDE DEF e, Another
    <3> QED BY <3>1, <3>2, RecordKeeps
  <2>3. CASE a \notin DOMAIN s.addresses
    <3>1. Record(First(s), Append(<<e0>>, e))
      BY <1>3, <2>3 DEF AddSlotToAccessList
    <3>2. DOMAIN s = StateFields
      BY DEF JInv, Fits
    <3>3. /\ st0.addresses = With(s.addresses, a, 0) /\ st0.slots = s.slots
          /\ First(st0) = [s EXCEPT !.addresses = With(st0.addresses, a, Len(s.slots) + 1), !.slots = Append(s.slots, {k})]
      BY <3>2 DEF StateFields
    <3>4. With(With(s.addresses, a, 0), a, Len(s.slots) + 1) = With(s.addresses, a, Len(s.slots) + 1)
      BY DEF With
    <3>5. First(st0) = First(s)
      BY <3>3, <3>4
    <3>6. a \in DOMAIN st0.addresses /\ st0.addresses[a] = 0
      BY <3>3 DEF With
    <3> HIDE DEF e0, st0
    <3>7. Grown(First(st0), Append(<<e0>>, e))
      BY <1>1, <2>3, <3>6, GrownSlot
    <3> HIDE DEF e, First
    <3> QED BY <3>1, <3>5, <3>7, RecordKeeps
  <2> QED BY <2>1, <2>2, <2>3
<1> QED BY <1>2, <1>3

(* Every method that is about one account keeps the invariant.             *)
LEMMA AccountMethodKeeps ==
    ASSUME JInv, NEW a \in Addresses, AccountMethod(a)
    PROVE  JInv'
<1>1. \A x \in Amounts : x \in Nat /\ x \in Int /\ -x \in Int
  BY SMT, StateDBAssumption
<1>2. \A n \in Nonces : n \in Nat
  BY StateDBAssumption
<1>3. ASSUME NEW x \in Amounts, AddBalance(a, x) PROVE JInv'
  <2>1. ChangeBalance(a, x) /\ x \in Int /\ ~(x < 0)
    BY SMT, <1>1, <1>3 DEF AddBalance
  <2> QED BY <2>1, ChangeBalanceKeeps
<1>4. ASSUME NEW x \in Amounts, SubBalance(a, x) PROVE JInv'
  <2>1. ChangeBalance(a, -x) /\ x <= IF Exist(a) THEN Loaded(s, a).objects[a].balance ELSE 0
    BY <1>4 DEF SubBalance
  <2>2. Exist(a) => Loaded(s, a).objects[a].balance \in Nat
    BY GrownLoaded DEF Grown, Fits, Objects, IsObject
  <2>3. -x < 0 => Exist(a) /\ Loaded(s, a).objects[a].balance + (-x) >= 0
    BY SMT, <1>1, <2>1, <2>2
  <2> QED BY <1>1, <2>1, <2>3, ChangeBalanceKeeps
<1> QED
  BY <1>2, <1>3, <1>4, SetNonceKeeps, SetCodeKeeps, SetStateKeeps, CreateKeeps, DestructKeeps DEF AccountMethod

(* journal.Revert leaves the state, the counts and the journal as they     *)
(* were when the snapshot was taken.                                       *)
LEMMA RevertKeeps ==
    ASSUME JInv, Ordered, NEW revid, RevertToSnapshot(revid)
    PROVE  JInv'
<1>1. PICK idx \in DOMAIN validRevisions : Revert(validRevisions[idx].index)
  BY DEF RevertToSnapshot
<1> DEFINE n == validRevisions[idx].index
<1>2. n \in Nat /\ n <= Len(journal)
  BY DEF Ordered, RevisionsOrdered
<1>3. s' = Undone(n) /\ dirties' = Uncounted(n) /\ journal' = SubSeq(journal, 1, n) /\ keeper' = keeper
  BY <1>1 DEF Revert, RevertToSnapshot, chainVars
<1> HIDE DEF n
<1>4. /\ IsSeq(SubSeq(journal, 1, n)) /\ Len(SubSeq(journal, 1, n)) = n
      /\ \A i \in 1..n : journal[i] = SubSeq(journal, 1, n)[i]
  BY <1>2, PrefixIsSeq DEF JInv
<1>5. ExactTo(Uncounted(n), SubSeq(journal, 1, n), n)
  BY <1>2, <1>4, UncountedExact, SameCounts DEF JInv
<1>6. Fits(Undone(n), SubSeq(journal, 1, n), n)
  BY <1>2, <1>4, UndoneFits, SameFits DEF JInv
<1>7. StoredTyped'
  BY <1>3 DEF JInv, StoredTyped
<1> QED BY <1>3, <1>4, <1>5, <1>6, <1>7 DEF JInv

(* New: no entry, no object, nothing dirty.                                *)
LEMMA NewFits ==
    /\ IsSeq(<<>>) /\ Len(<<>>) = 0
    /\ ExactTo(<<>>, <<>>, 0)
    /\ Fits(NewState, <<>>, 0)
<1>1. IsSeq(<<>>) /\ Len(<<>>) = 0 /\ DOMAIN <<>> = {}
  BY SMT, EmptyIsSeq
<1>2. ExactTo(<<>>, <<>>, 0)
  BY SMT, <1>1 DEF ExactTo
<1>3. Entries(<<>>, 0)
  BY SMT DEF Entries
<1>4. /\ DOMAIN NewState = StateFields /\ NewState.refund = 0 /\ NewState.objects = <<>>
      /\ NewState.addresses = <<>> /\ NewState.slots = <<>>
  BY DEF NewState, StateFields
<1>5. Objects(NewState, <<>>, 0)
  BY SMT, <1>1, <1>4 DEF Objects
<1>6. Indexed(NewState)
  BY SMT, <1>1, <1>4 DEF Indexed
<1>7. \A a : Slotted(<<>>, 0, a) = {}
  BY SMT DEF Slotted
<1>8. Access(NewState, <<>>, 0)
  BY <1>1, <1>4, <1>6, <1>7 DEF Access
<1> QED BY SMT, <1>1, <1>2, <1>3, <1>4, <1>5, <1>8 DEF Fits

(* So the invariant holds again after New, whatever was committed.         *)
LEMMA NewKeeps ==
    ASSUME New, StoredTyped'
    PROVE  JInv'
<1>1. s' = NewState /\ journal' = <<>> /\ dirties' = <<>>
  BY DEF New
<1> QED BY <1>1, NewFits DEF JInv

(* The accounts the journal counts as dirty have a state object.           *)
LEMMA DirtyAreLive == ASSUME JInv PROVE DOMAIN dirties \subseteq DOMAIN s.objects
<1>1. DOMAIN dirties = {journal[i].dirtied : i \in 1..Len(journal)} \ {NoAccount}
  BY DEF JInv, ExactTo
<1>2. \A i \in 1..Len(journal) : journal[i].dirtied # NoAccount => journal[i].dirtied \in DOMAIN s.objects
  BY DEF JInv, Fits, Objects
<1> QED BY <1>1, <1>2

(* Commit writes balances and nonces that are numbers.                     *)
LEMMA CommittedTyped ==
    ASSUME JInv, keeper' = Committed
    PROVE  StoredTyped'
<1> SUFFICES ASSUME NEW a \in Addresses, keeper'.account[a] # NoAccount
             PROVE  keeper'.account[a].nonce \in Nat /\ keeper'.account[a].balance \in Nat
  BY DEF StoredTyped
<1>1. keeper'.account[a] = IF a \notin DOMAIN dirties THEN keeper.account[a]
                           ELSE IF Destroyed(s.objects[a]) THEN NoAccount
                           ELSE [nonce |-> s.objects[a].nonce, balance |-> s.objects[a].balance,
                                 code |-> s.objects[a].code]
  BY DEF Committed
<1>2. CASE a \notin DOMAIN dirties
  BY <1>1, <1>2 DEF JInv, StoredTyped
<1>3. CASE a \in DOMAIN dirties
  <2>1. s.objects[a].nonce \in Nat /\ s.objects[a].balance \in Nat
    BY <1>3, DirtyAreLive DEF JInv, Fits, Objects, IsObject
  <2> QED BY SMT, <1>1, <1>3, <2>1
<1> QED BY <1>2, <1>3

(* The journal, the counts and the state fit each other in every reachable *)
(* state.                                                                  *)
LEMMA AlwaysFits == Spec => []JInv
<1>1. Init => JInv
  <2> SUFFICES ASSUME Init PROVE JInv
    OBVIOUS
  <2>1. s = NewState /\ journal = <<>> /\ dirties = <<>> /\ keeper \in Genesis
    BY DEF Init
  <2>2. StoredTyped
    BY <2>1, StateDBAssumption DEF StoredTyped
  <2> QED BY <2>1, <2>2, NewFits DEF JInv
<1>2. JInv /\ Ordered /\ [Next]_vars => JInv'
  <2> SUFFICES ASSUME JInv, Ordered, [Next]_vars PROVE JInv'
    OBVIOUS
  <2>1. ASSUME NEW a \in Addresses, AccountMethod(a) PROVE JInv'
    BY <2>1, AccountMethodKeeps
  <2>2. CASE OtherMethod
    BY <2>2, PlainMethodKeeps, AccessKeeps DEF OtherMethod
  <2>3. CASE Snapshot \/ UNCHANGED vars
    <3>1. UNCHANGED <<s, journal, dirties, keeper>>
      BY <2>3 DEF Snapshot, vars, journalVars, chainVars
    <3> QED BY <3>1 DEF JInv, StoredTyped
  <2>4. ASSUME NEW revid, RevertToSnapshot(revid) PROVE JInv'
    BY <2>4, RevertKeeps
  <2>5. CASE Commit
    BY <2>5, CommittedTyped, NewKeeps DEF Commit
  <2>6. CASE Discard
    <3>1. New /\ keeper' = keeper
      BY <2>6 DEF Discard, chainVars
    <3>2. StoredTyped'
      BY <3>1 DEF JInv, StoredTyped
    <3> QED BY <3>1, <3>2, NewKeeps
  <2> QED BY <2>1, <2>2, <2>3, <2>4, <2>5, <2>6 DEF Next
<1> QED BY <1>1, <1>2, AlwaysOrdered, PTL DEF Spec

(* The journal's dirty counts are exact, and every account it calls dirty  *)
(* has a state object, in every reachable state of every instance: Commit, *)
(* which walks journal.dirties, and the Revert of an entry never meet an   *)
(* account that was not loaded, whatever was created, destroyed and        *)
(* reverted before.                                                        *)
THEOREM JournalIsExact == Spec => []JournalExact
<1>1. JInv => JournalExact
  <2> SUFFICES ASSUME JInv PROVE JournalExact
    OBVIOUS
  <2>1. DOMAIN journal = 1..Len(journal)
    BY LenIsNat DEF JInv
  <2>2. ExactTo(dirties, journal, Len(journal))
    BY DEF JInv
  <2>3. DOMAIN dirties \subseteq DOMAIN s.objects
    BY DirtyAreLive
  <2> QED BY <2>1, <2>2, <2>3 DEF JournalExact, ExactTo, Places
<1> QED BY <1>1, AlwaysFits, PTL

(* Balances are never negative, refunds never drop below zero and every    *)
(* index of the access list points into its list of slot sets, in every    *)
(* reachable state of every instance, across every Revert.                 *)
THEOREM StateIsTyped == Spec => []TypeOK
<1>1. JInv /\ Ordered => TypeOK
  <2> SUFFICES ASSUME JInv, Ordered PROVE TypeOK
    OBVIOUS
  <2>1. DOMAIN s.objects \subseteq Addresses /\ \A a \in DOMAIN s.objects : IsObject(s.objects[a])
    BY DEF JInv, Fits, Objects
  <2>2. s.refund \in Nat /\ Indexed(s)
    BY DEF JInv, Fits, Access
  <2> QED BY SMT, <2>1, <2>2 DEF TypeOK, IsObject, Indexed, Ordered
<1> QED BY <1>1, AlwaysFits, AlwaysOrdered, PTL
=============================================================================
