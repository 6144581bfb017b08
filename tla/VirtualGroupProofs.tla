------------------------- MODULE VirtualGroupProofs -------------------------
(***************************************************************************)
(* For any providers, groups, amounts and prices: families and groups      *)
(* agree; a place is settled in the step in which it changes hands; the    *)
(* counters of a provider are the numbers of groups and of places that it  *)
(* serves, so that one that exits leaves nothing behind; and the module    *)
(* account holds exactly the deposits of the groups.                       *)
(***************************************************************************)
EXTENDS VirtualGroup, FiniteSetTheorems, TLAPS

(* A leaf that names no prover is for Zenon, with more time than the       *)
(* default.                                                                *)
USE ZenonT(20)

GvgFields == {"family", "primary", "secondary", "stored", "charged", "deposit"}
FamilyFields == {"primary", "gvgs"}

(* The ids in the stores: families are numbered from 1, a group has a      *)
(* smaller id than the next one will get; and the fields of the records.   *)
Stores ==
    /\ \E n \in Nat : DOMAIN family = 1..n
    /\ \A f \in DOMAIN family : DOMAIN family[f] = FamilyFields
    /\ nextGvg \in Nat
    /\ \A g \in DOMAIN gvg : g \in Nat /\ g < nextGvg /\ DOMAIN gvg[g] = GvgFields

Agreed == Stores /\ FamiliesAgree

(* A step that leaves every group where it is.                             *)
LEMMA SameMembers ==
    ASSUME Agreed, UNCHANGED <<family, nextGvg>>, DOMAIN gvg' = DOMAIN gvg,
           \A g \in DOMAIN gvg : /\ DOMAIN gvg'[g] = GvgFields
                                 /\ gvg'[g].family = gvg[g].family /\ gvg'[g].primary = gvg[g].primary
    PROVE  Agreed'
BY DEF Agreed, Stores, FamiliesAgree, HasFamily

(* Replacing one field of a group other than its family and primary.       *)
LEMMA FieldReplaced ==
    ASSUME Agreed, UNCHANGED <<family, nextGvg>>, NEW g \in DOMAIN gvg,
           NEW field \in {"secondary", "stored", "charged", "deposit"}, NEW x,
           gvg' = [gvg EXCEPT ![g] = [gvg[g] EXCEPT ![field] = x]]
    PROVE  Agreed'
<1>1. DOMAIN gvg' = DOMAIN gvg /\ DOMAIN gvg[g] = GvgFields
  BY DEF Agreed, Stores
<1>2. ASSUME NEW h \in DOMAIN gvg
      PROVE  DOMAIN gvg'[h] = GvgFields /\ gvg'[h].family = gvg[h].family /\ gvg'[h].primary = gvg[h].primary
  BY <1>1, <1>2 DEF GvgFields, Agreed, Stores
<1> QED
  BY <1>1, <1>2, SameMembers

(* CreateGlobalVirtualGroup, in a new family or in one of the creator's.   *)
LEMMA CreateAgreed ==
    ASSUME Agreed, NEW p, NEW f \in {NoSpecifiedFamilyID} \cup DOMAIN family, NEW secondary, NEW amount,
           CreateGlobalVirtualGroup(p, f, secondary, amount)
    PROVE  Agreed'
<1> DEFINE id == IF f = NoSpecifiedFamilyID THEN Cardinality(DOMAIN family) + 1 ELSE f
           fam == Family(f, p)
           new == [family |-> id, primary |-> p, secondary |-> secondary,
                   stored |-> 0, charged |-> 0, deposit |-> amount]
<1>1. PICK n \in Nat : DOMAIN family = 1..n
  BY DEF Agreed, Stores
<1>2. Cardinality(DOMAIN family) = n
  BY SMT, <1>1, FS_Interval
<1>3. f = NoSpecifiedFamilyID => id = n + 1 /\ id \notin DOMAIN family
  BY SMT, <1>1, <1>2
<1>4. f # NoSpecifiedFamilyID => id = f /\ f \in DOMAIN family
  OBVIOUS
<1>5. \E m \in Nat : DOMAIN family \cup {id} = 1..m
  BY SMT, <1>1, <1>3, <1>4
<1>6. /\ DOMAIN fam = FamilyFields /\ fam.primary = p
      /\ fam.gvgs = {g \in DOMAIN gvg : gvg[g].family = id}
  <2>1. CASE f = NoSpecifiedFamilyID
    BY <2>1, <1>3 DEF Agreed, FamiliesAgree, HasFamily, Family, FamilyFields
  <2>2. CASE f # NoSpecifiedFamilyID
    BY <2>2, <1>4 DEF Agreed, Stores, FamiliesAgree, Family, CreateGlobalVirtualGroup, Owns
  <2> QED BY <2>1, <2>2
<1>7. /\ nextGvg \in Nat /\ nextGvg' = nextGvg + 1 /\ nextGvg \notin DOMAIN gvg
  BY SMT DEF CreateGlobalVirtualGroup, Agreed, Stores
<1>8. /\ DOMAIN gvg' = DOMAIN gvg \cup {nextGvg} /\ gvg'[nextGvg] = new
      /\ \A g \in DOMAIN gvg : gvg'[g] = gvg[g]
  BY <1>7 DEF CreateGlobalVirtualGroup, With
<1>9. /\ DOMAIN family' = DOMAIN family \cup {id} /\ family'[id] = [fam EXCEPT !.gvgs = @ \cup {nextGvg}]
      /\ \A h \in DOMAIN family \ {id} : family'[h] = family[h]
  BY DEF CreateGlobalVirtualGroup, With
<1>10. Stores'
  BY SMT, <1>5, <1>6, <1>7, <1>8, <1>9 DEF Agreed, Stores, FamilyFields, GvgFields
<1>11. FamiliesAgree'
  <2>1. ASSUME NEW h \in DOMAIN family' PROVE family'[h].gvgs = {g \in DOMAIN gvg' : gvg'[g].family = h}
    <3>1. CASE h = id
      BY SMT, <3>1, <1>6, <1>8, <1>9 DEF FamilyFields
    <3>2. CASE h # id
      BY SMT, <2>1, <3>2, <1>8, <1>9 DEF Agreed, FamiliesAgree
    <3> QED BY <3>1, <3>2
  <2>2. ASSUME NEW g \in DOMAIN gvg'
        PROVE  gvg'[g].family \in DOMAIN family' /\ gvg'[g].primary = family'[gvg'[g].family].primary
    <3>1. CASE g = nextGvg
      BY SMT, <3>1, <1>6, <1>8, <1>9 DEF FamilyFields, HasFamily
    <3>2. CASE g # nextGvg
      <4>1. g \in DOMAIN gvg /\ gvg'[g] = gvg[g]
        BY <2>2, <3>2, <1>8
      <4>2. gvg[g].family \in DOMAIN family /\ gvg[g].primary = family[gvg[g].family].primary
        BY <4>1 DEF Agreed, FamiliesAgree, HasFamily
      <4>3. CASE gvg[g].family = id
        <5>1. id \in DOMAIN family /\ fam = family[id]
          BY <4>2, <4>3, <1>3 DEF Family
        <5> QED BY SMT, <5>1, <4>1, <4>2, <4>3, <1>6, <1>9 DEF HasFamily, FamilyFields
      <4>4. CASE gvg[g].family # id
        BY <4>1, <4>2, <4>4, <1>9 DEF HasFamily
      <4> QED BY <4>3, <4>4
    <3> QED BY <3>1, <3>2
  <2> QED
    BY <2>1, <2>2 DEF FamiliesAgree, HasFamily
<1> QED
  BY <1>10, <1>11 DEF Agreed

(* DeleteGVG: the group leaves the store and its family's list.            *)
LEMMA DeleteAgreed ==
    ASSUME Agreed, NEW p, NEW g, DeleteGlobalVirtualGroup(p, g)
    PROVE  Agreed'
<1> DEFINE f == gvg[g].family
<1>1. g \in DOMAIN gvg /\ f \in DOMAIN family /\ DOMAIN family[f] = FamilyFields
  BY DEF DeleteGlobalVirtualGroup, HasGvg, Agreed, Stores, FamiliesAgree, HasFamily
<1>2. /\ DOMAIN gvg' = DOMAIN gvg \ {g} /\ \A h \in DOMAIN gvg' : gvg'[h] = gvg[h]
      /\ nextGvg' = nextGvg
  BY DEF DeleteGlobalVirtualGroup, Without, Restrict
<1>3. /\ DOMAIN family' = DOMAIN family
      /\ \A h \in DOMAIN family : /\ DOMAIN family'[h] = FamilyFields /\ family'[h].primary = family[h].primary
                                  /\ family'[h].gvgs = family[h].gvgs \ (IF h = f THEN {g} ELSE {})
  BY <1>1 DEF DeleteGlobalVirtualGroup, Agreed, Stores, FamilyFields
<1>4. Stores'
  BY <1>2, <1>3 DEF Agreed, Stores
<1>5. FamiliesAgree'
  BY SMT, <1>1, <1>2, <1>3 DEF Agreed, FamiliesAgree, HasFamily
<1> QED
  BY <1>4, <1>5 DEF Agreed

(* SwapAsPrimarySP: a family and all its groups get the new primary.       *)
LEMMA PrimaryAgreed ==
    ASSUME Agreed, NEW leaver, NEW successor, NEW f, NEW isSwapIn,
           SwapAsPrimarySP(leaver, successor, f, isSwapIn)
    PROVE  Agreed'
<1>1. f \in DOMAIN family /\ nextGvg' = nextGvg
  BY DEF SwapAsPrimarySP, HasFamily
<1>2. /\ DOMAIN family' = DOMAIN family
      /\ \A h \in DOMAIN family : /\ DOMAIN family'[h] = FamilyFields /\ family'[h].gvgs = family[h].gvgs
                                  /\ family'[h].primary = IF h = f THEN successor ELSE family[h].primary
  BY <1>1 DEF SwapAsPrimarySP, Agreed, Stores, FamilyFields
<1>3. DOMAIN gvg' = DOMAIN gvg
  BY DEF SwapAsPrimarySP, GvgsHandedOver
<1>4. ASSUME NEW g \in DOMAIN gvg
      PROVE  /\ DOMAIN gvg'[g] = GvgFields /\ gvg'[g].family = gvg[g].family
             /\ gvg'[g].primary = IF gvg[g].family = f THEN successor ELSE gvg[g].primary
  <2>1. g \in family[f].gvgs <=> gvg[g].family = f
    BY <1>1 DEF Agreed, FamiliesAgree
  <2> QED
    BY <2>1, <1>4 DEF SwapAsPrimarySP, GvgsHandedOver, Agreed, Stores, GvgFields
<1>5. Stores'
  BY <1>1, <1>2, <1>3, <1>4 DEF Agreed, Stores
<1>6. FamiliesAgree'
  BY SMT, <1>2, <1>3, <1>4 DEF Agreed, FamiliesAgree, HasFamily
<1> QED
  BY <1>5, <1>6 DEF Agreed

(* A secondary place changes hands.                                        *)
LEMMA SecondaryAgreed ==
    ASSUME Agreed, NEW leaver, NEW successor, NEW g, HasGvg(g), ReplaceSecondary(leaver, successor, g)
    PROVE  Agreed'
<1>1. g \in DOMAIN gvg /\ UNCHANGED <<family, nextGvg>>
  BY DEF HasGvg, ReplaceSecondary
<1>2. \E x : gvg' = [gvg EXCEPT ![g] = [gvg[g] EXCEPT !["secondary"] = x]]
  BY Zenon DEF ReplaceSecondary
<1> QED
  BY Zenon, <1>1, <1>2, FieldReplaced

(* RebindingVirtualGroup: the sizes of two groups change.                  *)
LEMMA RebindingAgreed ==
    ASSUME Agreed, NEW src, NEW dst, NEW size, RebindingVirtualGroup(src, dst, size)
    PROVE  Agreed'
<1>1. src \in DOMAIN gvg /\ dst \in DOMAIN gvg /\ UNCHANGED <<family, nextGvg>>
  BY DEF RebindingVirtualGroup, HoldsObject, HasGvg
<1>2. DOMAIN gvg' = DOMAIN gvg
  BY DEF RebindingVirtualGroup
<1>3. ASSUME NEW h \in DOMAIN gvg
      PROVE  DOMAIN gvg'[h] = GvgFields /\ gvg'[h].family = gvg[h].family /\ gvg'[h].primary = gvg[h].primary
  BY <1>1, <1>3 DEF RebindingVirtualGroup, Agreed, Stores, GvgFields
<1> QED
  BY <1>1, <1>2, <1>3, SameMembers

(* SealObjectOnVirtualGroup and DeleteObjectFromVirtualGroup: the size of  *)
(* one group changes.                                                      *)
LEMMA ObjectAgreed ==
    ASSUME Agreed, NEW g, NEW size,
           SealObjectOnVirtualGroup(g, size) \/ DeleteObjectFromVirtualGroup(g, size)
    PROVE  Agreed'
<1>1. g \in DOMAIN gvg /\ UNCHANGED <<family, nextGvg>>
  BY DEF SealObjectOnVirtualGroup, DeleteObjectFromVirtualGroup, HoldsObject, HasGvg
<1>2. DOMAIN gvg' = DOMAIN gvg
  BY DEF SealObjectOnVirtualGroup, DeleteObjectFromVirtualGroup
<1>3. ASSUME NEW h \in DOMAIN gvg
      PROVE  DOMAIN gvg'[h] = GvgFields /\ gvg'[h].family = gvg[h].family /\ gvg'[h].primary = gvg[h].primary
  <2>1. CASE SealObjectOnVirtualGroup(g, size)
    BY <1>1, <1>3, <2>1 DEF SealObjectOnVirtualGroup, Agreed, Stores, GvgFields
  <2>2. CASE DeleteObjectFromVirtualGroup(g, size)
    BY <1>1, <1>3, <2>2 DEF DeleteObjectFromVirtualGroup, Agreed, Stores, GvgFields
  <2> QED
    BY <2>1, <2>2
<1> QED
  BY <1>1, <1>2, <1>3, SameMembers

(* Every step keeps the lists of the families and the groups in agreement. *)
LEMMA NextAgreed ==
    ASSUME Agreed, [Next]_vars
    PROVE  Agreed'
<1>1. ASSUME UNCHANGED <<family, gvg, nextGvg>> PROVE Agreed'
  BY <1>1 DEF Agreed, Stores, FamiliesAgree, HasFamily
<1>2. ASSUME NEW p, NEW g, NEW amount, Deposit(p, g, amount) \/ Withdraw(p, g, amount) PROVE Agreed'
  <2>1. g \in DOMAIN gvg /\ UNCHANGED <<family, nextGvg>>
    BY <1>2 DEF Deposit, Withdraw, HasGvg
  <2>2. \E x : gvg' = [gvg EXCEPT ![g] = [gvg[g] EXCEPT !["deposit"] = x]]
    BY <1>2 DEF Deposit, Withdraw
  <2> QED
    BY Zenon, <2>1, <2>2, FieldReplaced
<1>3. CASE GroupMessages
  <2>1. ASSUME NEW k \in Keys, Settle(k) PROVE Agreed'
    BY <1>1, <2>1 DEF Settle, groupVars
  <2>2. ASSUME NEW p \in Prices, UpdateParams(p) PROVE Agreed'
    BY <1>1, <2>2 DEF UpdateParams, groupVars
  <2> QED
    BY <1>2, <1>3, <2>1, <2>2, CreateAgreed, DeleteAgreed DEF GroupMessages
<1>4. CASE SwapMessages
  <2>1. ASSUME NEW p \in Providers, NEW q \in Providers, NEW k \in Keys,
               \/ SwapOut(p, q, k) \/ ReserveSwapIn(p, q, k) \/ CancelSwapOut(p, k) \/ CancelSwapIn(p, k)
        PROVE  Agreed'
    BY <1>1, <2>1 DEF SwapOut, ReserveSwapIn, CancelSwapOut, CancelSwapIn, groupVars
  <2>2. ASSUME NEW p \in Providers, NEW k \in Keys, CompleteSwapOut(p, k) PROVE Agreed'
    BY Zenon, <2>2, PrimaryAgreed, SecondaryAgreed DEF CompleteSwapOut, SwapOutAsSecondarySP
  <2>3. ASSUME NEW p \in Providers, NEW k \in Keys, CompleteSwapIn(p, k) PROVE Agreed'
    BY Zenon, <2>3, PrimaryAgreed, SecondaryAgreed DEF CompleteSwapIn, CompleteSwapInGVG
  <2> QED
    BY <1>4, <2>1, <2>2, <2>3 DEF SwapMessages
<1>5. CASE ExitMessages
  BY <1>1, <1>5 DEF ExitMessages, StorageProviderExit, StorageProviderForcedExit,
     CompleteStorageProviderExit, groupVars
<1>6. CASE OtherModules
  <2>1. ASSUME NEW p \in Providers, UpdateSpStatus(p) \/ ForceUpdateMaintenanceRecords(p) PROVE Agreed'
    BY <1>1, <2>1 DEF UpdateSpStatus, ForceUpdateMaintenanceRecords, groupVars
  <2>2. ASSUME NEW k \in Keys, Earn(k) PROVE Agreed'
    BY <1>1, <2>2 DEF Earn, groupVars
  <2>3. ASSUME NextBlock PROVE Agreed'
    BY <1>1, <2>3 DEF NextBlock, groupVars
  <2> QED
    BY <1>6, <2>1, <2>2, <2>3, ObjectAgreed, RebindingAgreed DEF OtherModules
<1> QED
  BY <1>1, <1>3, <1>4, <1>5, <1>6 DEF Next, vars, groupVars

(* The empty stores agree.                                                 *)
LEMMA InitAgreed == Init => Agreed
<1> SUFFICES ASSUME Init PROVE Agreed
  OBVIOUS
<1>1. DOMAIN family = 1..0 /\ DOMAIN gvg = {} /\ nextGvg = 1
  BY SMT DEF Init
<1> QED
  BY SMT, <1>1 DEF Agreed, Stores, FamiliesAgree

(* However families and groups are created, deleted and swapped, a group   *)
(* is listed by the family it names and by no other, and has its primary.  *)
THEOREM FamiliesAlwaysAgree == Spec => []FamiliesAgree
<1>1. Agreed => FamiliesAgree
  BY DEF Agreed
<1> QED
  BY <1>1, InitAgreed, NextAgreed, PTL DEF Spec

-----------------------------------------------------------------------------
(* What the second theorem needs besides: the ids are bounded, so that the *)
(* virtual payment address of each is one of Keys, and holds whole coins.  *)
Earned ==
    /\ income \in [Keys -> Nat]
    /\ DOMAIN family \subseteq FamilyIds /\ DOMAIN gvg \subseteq GvgIds

Paying == Agreed /\ Earned

(* What SettleAndDistributeGVG leaves is less than a coin each.            *)
LEMMA RestIsSmall ==
    ASSUME Earned, NEW g \in DOMAIN gvg
    PROVE  GVGRest(g) \in Nat /\ GVGRest(g) < NumSecondary
<1>1. income[GvgKey(g)] \in Nat /\ NumSecondary \in Nat \ {0}
  BY VirtualGroupAssumption DEF Earned, Keys
<1> QED
  BY SMT, <1>1 DEF GVGRest, Share

(* SwapAsPrimarySP leaves nothing at the family's address.                 *)
LEMMA PrimarySettled ==
    ASSUME Paying, NEW leaver, NEW successor, NEW f, NEW isSwapIn,
           SwapAsPrimarySP(leaver, successor, f, isSwapIn)
    PROVE  /\ Earned' /\ income'[FamilyKey(f)] = 0
           /\ \A h \in DOMAIN family : h # f => family'[h].primary = family[h].primary
           /\ \A g \in DOMAIN gvg : gvg'[g].secondary = gvg[g].secondary
<1>1. f \in DOMAIN family /\ FamilyKey(f) \in Keys
  BY DEF SwapAsPrimarySP, HasFamily, Paying, Earned, Keys
<1>2. Earned' /\ income'[FamilyKey(f)] = 0
  BY <1>1 DEF SwapAsPrimarySP, GvgsHandedOver, Paying, Earned
<1>3. ASSUME NEW g \in DOMAIN gvg PROVE gvg'[g].secondary = gvg[g].secondary
  BY <1>3 DEF SwapAsPrimarySP, GvgsHandedOver, Paying, Agreed, Stores, GvgFields
<1>4. ASSUME NEW h \in DOMAIN family, h # f PROVE family'[h].primary = family[h].primary
  BY <1>4 DEF SwapAsPrimarySP
<1> QED
  BY <1>2, <1>3, <1>4

(* Settling a group keeps whole coins.                                     *)
LEMMA GroupSettled ==
    ASSUME Earned, NEW g \in DOMAIN gvg, income' = [income EXCEPT ![GvgKey(g)] = GVGRest(g)],
           DOMAIN family' = DOMAIN family, DOMAIN gvg' = DOMAIN gvg
    PROVE  Earned' /\ income'[GvgKey(g)] < NumSecondary
<1>1. GvgKey(g) \in Keys
  BY DEF Earned, Keys
<1> QED
  BY <1>1, RestIsSmall DEF Earned

(* Replacing a secondary pays the group's income out first, and touches no *)
(* other group's places.                                                   *)
LEMMA SecondarySettled ==
    ASSUME Paying, NEW leaver, NEW successor, NEW g, HasGvg(g), ReplaceSecondary(leaver, successor, g)
    PROVE  /\ Earned' /\ UNCHANGED family /\ income'[GvgKey(g)] < NumSecondary
           /\ \A h \in DOMAIN gvg : h # g => gvg'[h].secondary = gvg[h].secondary
<1>1. g \in DOMAIN gvg /\ UNCHANGED family /\ DOMAIN gvg' = DOMAIN gvg
  BY DEF HasGvg, ReplaceSecondary
<1>2. income' = [income EXCEPT ![GvgKey(g)] = GVGRest(g)]
  BY DEF ReplaceSecondary
<1>3. \A h \in DOMAIN gvg : h # g => gvg'[h].secondary = gvg[h].secondary
  BY DEF ReplaceSecondary
<1> QED
  BY Zenon, <1>1, <1>2, <1>3, GroupSettled DEF Paying

(* What SettledBeforeSwap says of a step.                                  *)
Settled ==
    /\ \A f \in DOMAIN family :
        family'[f].primary # family[f].primary => income'[FamilyKey(f)] = 0
    /\ \A g \in DOMAIN gvg \cap DOMAIN gvg' :
        gvg'[g].secondary # gvg[g].secondary => income'[GvgKey(g)] < NumSecondary

(* A created group has a fresh id and its income record starts empty.      *)
LEMMA CreateSettled ==
    ASSUME Paying, NEW p, NEW f \in {NoSpecifiedFamilyID} \cup DOMAIN family, NEW secondary, NEW amount,
           CreateGlobalVirtualGroup(p, f, secondary, amount)
    PROVE  Earned' /\ Settled
<1> DEFINE id == IF f = NoSpecifiedFamilyID THEN Cardinality(DOMAIN family) + 1 ELSE f
           fam == Family(f, p)
<1>1. PICK n \in Nat : DOMAIN family = 1..n
  BY DEF Paying, Agreed, Stores
<1>2. Cardinality(DOMAIN family) = n
  BY SMT, <1>1, FS_Interval
<1>3. id \in DOMAIN family => id = f /\ fam = family[id] /\ DOMAIN fam = FamilyFields
  BY SMT, <1>1, <1>2 DEF Family, Paying, Agreed, Stores
<1>4. family' = With(family, id, [fam EXCEPT !.gvgs = @ \cup {nextGvg}])
  BY DEF CreateGlobalVirtualGroup
<1>5. \A h \in DOMAIN family : family'[h].primary = family[h].primary
  BY <1>3, <1>4 DEF With, FamilyFields
<1>6. nextGvg \notin DOMAIN gvg
  BY SMT DEF Paying, Agreed, Stores
<1>7. \A g \in DOMAIN gvg : gvg'[g] = gvg[g]
  BY <1>6 DEF CreateGlobalVirtualGroup, With
<1>8. DOMAIN family' = DOMAIN family \cup {id} /\ DOMAIN gvg' = DOMAIN gvg \cup {nextGvg}
  BY <1>4 DEF CreateGlobalVirtualGroup, With
<1>9. id \in FamilyIds /\ nextGvg \in GvgIds /\ UNCHANGED income
  BY DEF CreateGlobalVirtualGroup
<1> QED
  BY <1>5, <1>7, <1>8, <1>9 DEF Settled, Earned, Paying

(* The messages that neither move a place nor touch what it has earned.    *)
LEMMA NothingSwapped ==
    ASSUME Paying, UNCHANGED income, DOMAIN family' = DOMAIN family, DOMAIN gvg' \subseteq DOMAIN gvg,
           \A f \in DOMAIN family : family'[f].primary = family[f].primary,
           \A g \in DOMAIN gvg' : gvg'[g].secondary = gvg[g].secondary
    PROVE  Earned' /\ Settled
BY DEF Paying, Earned, Settled

(* The messages about groups settle what they change.                      *)
LEMMA GroupMessagesSettled ==
    ASSUME Paying, GroupMessages
    PROVE  Earned' /\ Settled
<1>1. ASSUME NEW p, NEW g, DeleteGlobalVirtualGroup(p, g) PROVE Earned' /\ Settled
  <2>1. UNCHANGED income /\ DOMAIN family' = DOMAIN family
    BY <1>1 DEF DeleteGlobalVirtualGroup
  <2>2. \A f \in DOMAIN family : family'[f].primary = family[f].primary
    BY <1>1 DEF DeleteGlobalVirtualGroup, Paying, Agreed, Stores, FamilyFields
  <2>3. DOMAIN gvg' \subseteq DOMAIN gvg /\ \A h \in DOMAIN gvg' : gvg'[h].secondary = gvg[h].secondary
    BY <1>1 DEF DeleteGlobalVirtualGroup, Without, Restrict
  <2> QED
    BY <2>1, <2>2, <2>3, NothingSwapped
<1>2. ASSUME NEW p, NEW g, NEW amount, Deposit(p, g, amount) \/ Withdraw(p, g, amount)
      PROVE  Earned' /\ Settled
  <2>1. UNCHANGED <<income, family>> /\ DOMAIN gvg' = DOMAIN gvg
    BY <1>2 DEF Deposit, Withdraw
  <2>2. \A h \in DOMAIN gvg : gvg'[h].secondary = gvg[h].secondary
    BY SMT, <1>2 DEF Deposit, Withdraw, Paying, Agreed, Stores, GvgFields
  <2> QED
    BY <2>1, <2>2, NothingSwapped
<1>3. ASSUME NEW k \in Keys, Settle(k) PROVE Earned' /\ Settled
  <2>1. UNCHANGED <<family, gvg>>
    BY <1>3 DEF Settle, groupVars
  <2>2. CASE income' = [income EXCEPT ![k] = 0]
    BY <2>1, <2>2 DEF Paying, Earned, Settled
  <2>3. ASSUME NEW g \in DOMAIN gvg, income' = [income EXCEPT ![GvgKey(g)] = GVGRest(g)]
        PROVE  Earned' /\ Settled
    BY Zenon, <2>1, <2>3, GroupSettled DEF Paying, Settled
  <2> QED
    BY <1>3, <2>2, <2>3 DEF Settle
<1>4. ASSUME NEW p \in Prices, UpdateParams(p) PROVE Earned' /\ Settled
  BY <1>4, NothingSwapped DEF UpdateParams, groupVars, moneyVars
<1> QED
  BY <1>1, <1>2, <1>3, <1>4, CreateSettled DEF GroupMessages

(* So do the swap messages, in either of their two forms.                  *)
LEMMA SwapMessagesSettled ==
    ASSUME Paying, SwapMessages
    PROVE  Earned' /\ Settled
<1>1. ASSUME NEW p, NEW q, NEW k,
             \/ SwapOut(p, q, k) \/ ReserveSwapIn(p, q, k) \/ CancelSwapOut(p, k) \/ CancelSwapIn(p, k)
      PROVE  Earned' /\ Settled
  BY <1>1, NothingSwapped DEF SwapOut, ReserveSwapIn, CancelSwapOut, CancelSwapIn, groupVars, moneyVars
<1>2. ASSUME NEW leaver, NEW successor, NEW f, NEW isSwapIn, SwapAsPrimarySP(leaver, successor, f, isSwapIn)
      PROVE  Earned' /\ Settled
  BY <1>2, PrimarySettled DEF Settled
<1>3. ASSUME NEW leaver, NEW successor, NEW g, HasGvg(g), ReplaceSecondary(leaver, successor, g)
      PROVE  Earned' /\ Settled
  BY <1>3, SecondarySettled DEF Settled
<1>4. ASSUME NEW p, NEW k, CompleteSwapOut(p, k) PROVE Earned' /\ Settled
  BY Zenon, <1>2, <1>3, <1>4 DEF CompleteSwapOut, SwapOutAsSecondarySP
<1>5. ASSUME NEW p, NEW k, CompleteSwapIn(p, k) PROVE Earned' /\ Settled
  BY Zenon, <1>2, <1>3, <1>5 DEF CompleteSwapIn, CompleteSwapInGVG
<1> QED
  BY <1>1, <1>4, <1>5 DEF SwapMessages

(* The calls of the sp and storage modules change no place.                *)
LEMMA OtherModulesSettled ==
    ASSUME Paying, OtherModules
    PROVE  Earned' /\ Settled
<1>1. ASSUME NEW p \in Providers, UpdateSpStatus(p) \/ ForceUpdateMaintenanceRecords(p)
      PROVE  Earned' /\ Settled
  BY <1>1, NothingSwapped DEF UpdateSpStatus, ForceUpdateMaintenanceRecords, groupVars, moneyVars
<1>2. ASSUME NEW g, NEW size, SealObjectOnVirtualGroup(g, size) \/ DeleteObjectFromVirtualGroup(g, size)
      PROVE  Earned' /\ Settled
  <2>1. UNCHANGED <<income, family>> /\ DOMAIN gvg' = DOMAIN gvg
    BY <1>2 DEF SealObjectOnVirtualGroup, DeleteObjectFromVirtualGroup, moneyVars
  <2>2. CASE SealObjectOnVirtualGroup(g, size)
    BY <2>1, <2>2, NothingSwapped DEF SealObjectOnVirtualGroup, Paying, Agreed, Stores, GvgFields
  <2>3. CASE DeleteObjectFromVirtualGroup(g, size)
    BY <2>1, <2>3, NothingSwapped DEF DeleteObjectFromVirtualGroup, Paying, Agreed, Stores, GvgFields
  <2> QED
    BY <1>2, <2>2, <2>3
<1>3. ASSUME NEW src, NEW dst, NEW size, RebindingVirtualGroup(src, dst, size) PROVE Earned' /\ Settled
  <2>1. src \in DOMAIN gvg /\ UNCHANGED family /\ DOMAIN gvg' = DOMAIN gvg
    BY <1>3 DEF RebindingVirtualGroup, HoldsObject, HasGvg
  <2>2. Earned'
    BY Zenon, <1>3, <2>1, GroupSettled DEF RebindingVirtualGroup, Paying
  <2>3. \A h \in DOMAIN gvg : gvg'[h].secondary = gvg[h].secondary
    BY <1>3 DEF RebindingVirtualGroup, Paying, Agreed, Stores, GvgFields
  <2> QED
    BY <2>1, <2>2, <2>3 DEF Settled
<1>4. ASSUME NEW k \in Keys, Earn(k) PROVE Earned' /\ Settled
  BY SMT, <1>4 DEF Earn, groupVars, Paying, Earned, Settled
<1>5. ASSUME NextBlock PROVE Earned' /\ Settled
  BY <1>5, NothingSwapped DEF NextBlock, groupVars, moneyVars
<1> QED
  BY <1>1, <1>2, <1>3, <1>4, <1>5 DEF OtherModules

(* Nothing has been earned before the first group exists.                  *)
LEMMA InitPaying == Init => Paying
<1> SUFFICES ASSUME Init PROVE Earned
  BY InitAgreed DEF Paying
<1>1. DOMAIN family = {} /\ DOMAIN gvg = {} /\ income = [k \in Keys |-> 0]
  BY SMT DEF Init
<1> QED
  BY <1>1 DEF Earned

(* Every step keeps the incomes of the right shape, and settles the places *)
(* that it moves.                                                          *)
LEMMA NextPaying ==
    ASSUME Paying, [Next]_vars
    PROVE  Paying' /\ [Settled]_vars
<1>1. Agreed'
  BY NextAgreed DEF Paying
<1>2. ASSUME ExitMessages PROVE Earned' /\ Settled
  BY <1>2, NothingSwapped DEF ExitMessages, StorageProviderExit, StorageProviderForcedExit,
     CompleteStorageProviderExit, groupVars, moneyVars
<1>3. ASSUME UNCHANGED vars PROVE Earned'
  BY <1>3 DEF vars, groupVars, moneyVars, Paying, Earned
<1> QED
  BY <1>1, <1>2, <1>3, GroupMessagesSettled, SwapMessagesSettled, OtherModulesSettled DEF Next, Paying

(* A family or a secondary place changes hands only in a step that pays    *)
(* what it has earned: nothing at a family's address is left for the       *)
(* successor, and at a group's less than one coin for each secondary.      *)
THEOREM SwapsSettle == Spec => SettledBeforeSwap
BY InitPaying, NextPaying, PTL DEF Spec, SettledBeforeSwap, Settled

-----------------------------------------------------------------------------
(* The statistics.  What they are about: who serves a group or a family,   *)
(* and the domains of what is kept for each provider.                      *)
StatFields == {"primary", "secondary", "broken"}

Typed ==
    /\ \A g \in DOMAIN gvg : /\ gvg[g].primary \in Providers
                             /\ gvg[g].secondary \in [1..NumSecondary -> Providers]
    /\ \A f \in DOMAIN family : family[f].primary \in Providers
    /\ DOMAIN stat = Providers /\ \A p \in Providers : DOMAIN stat[p] = StatFields
    /\ DOMAIN status = Providers

Primaries(p) == {g \in DOMAIN gvg : gvg[g].primary = p}

Counted(p) ==
    stat[p].primary = Cardinality(Primaries(p)) /\ stat[p].secondary = Cardinality(PlacesOf(p))

Counts == \A p \in Providers : Counted(p)

(* No statistic comes near the end of its range: a set of groups, or of    *)
(* places, is finite and has fewer members than a counter has values.      *)
Fits(S) == IsFiniteSet(S) /\ Cardinality(S) \in Nat /\ Cardinality(S) < CounterModulus

(* No set of groups or of places outgrows a counter: there are at most     *)
(* MaxGvgs groups, each with NumSecondary places.                          *)
LEMMA SetsFit ==
    /\ \A S \in SUBSET GvgIds : Fits(S)
    /\ \A S \in SUBSET (GvgIds \X (1..NumSecondary)) : Fits(S)
<1>1. /\ NumSecondary \in Nat \ {0} /\ MaxGvgs \in Nat /\ CounterModulus \in Nat
      /\ MaxGvgs * NumSecondary < CounterModulus
  BY VirtualGroupAssumption
<1>2. \A m, n \in Nat : n # 0 => m <= m * n /\ m * n \in Nat
  BY SMT
<1>3. MaxGvgs <= MaxGvgs * NumSecondary /\ MaxGvgs * NumSecondary \in Nat
  BY <1>1, <1>2
<1>4. IsFiniteSet(GvgIds) /\ Cardinality(GvgIds) = MaxGvgs
  BY SMT, <1>1, FS_Interval DEF GvgIds
<1>5. IsFiniteSet(1..NumSecondary) /\ Cardinality(1..NumSecondary) = NumSecondary
  BY SMT, <1>1, FS_Interval
<1>6. /\ IsFiniteSet(GvgIds \X (1..NumSecondary))
      /\ Cardinality(GvgIds \X (1..NumSecondary)) = MaxGvgs * NumSecondary
  BY Zenon, <1>4, <1>5, FS_Product
<1>7. ASSUME NEW T, IsFiniteSet(T), Cardinality(T) <= MaxGvgs * NumSecondary, NEW S \in SUBSET T
      PROVE  Fits(S)
  <2>1. IsFiniteSet(S) /\ Cardinality(S) <= Cardinality(T)
    BY <1>7, FS_Subset
  <2>2. Cardinality(S) \in Nat /\ Cardinality(T) \in Nat
    BY <1>7, <2>1, FS_CardinalityType
  <2> QED
    BY SMT, <1>1, <1>3, <1>7, <2>1, <2>2 DEF Fits
<1> QED
  BY SMT, <1>3, <1>4, <1>6, <1>7

(* So the groups and the places of a provider fit its counters, before a   *)
(* step and after it.                                                      *)
LEMMA CountsFit ==
    ASSUME Earned, Earned', NEW p
    PROVE  Fits(Primaries(p)) /\ Fits(PlacesOf(p)) /\ Fits(Primaries(p)') /\ Fits(PlacesOf(p)')
<1>1. Primaries(p) \in SUBSET GvgIds /\ PlacesOf(p) \in SUBSET (GvgIds \X (1..NumSecondary))
  BY DEF Primaries, PlacesOf, Earned
<1>2. Primaries(p)' \in SUBSET GvgIds /\ PlacesOf(p)' \in SUBSET (GvgIds \X (1..NumSecondary))
  BY DEF Primaries, PlacesOf, Earned
<1> QED
  BY <1>1, <1>2, SetsFit

(* The uint32 arithmetic of the statistics is exact where it fits.         *)
LEMMA AddExact ==
    ASSUME NEW c \in Nat, NEW d \in Int, c + d \in Nat, c + d < CounterModulus
    PROVE  Add(c, d) = c + d
<1>1. CounterModulus \in Nat
  BY VirtualGroupAssumption
<1> QED
  BY SMT, <1>1 DEF Add

(* A step that moves no place.                                             *)
LEMMA SamePlaces ==
    ASSUME Counts, UNCHANGED stat, DOMAIN gvg' = DOMAIN gvg,
           \A g \in DOMAIN gvg : gvg'[g].primary = gvg[g].primary /\ gvg'[g].secondary = gvg[g].secondary
    PROVE  Counts'
<1>1. ASSUME NEW p \in Providers PROVE Counted(p)'
  <2>1. Primaries(p)' = Primaries(p)
    BY DEF Primaries
  <2>2. PlacesOf(p)' = PlacesOf(p)
    BY DEF PlacesOf
  <2> QED
    BY <2>1, <2>2 DEF Counts, Counted
<1> QED
  BY <1>1 DEF Counts

(* CreateGlobalVirtualGroup counts the new group for its primary and, the  *)
(* list of secondaries having no provider twice, one place for each.       *)
LEMMA CreateCounts ==
    ASSUME Paying, Typed, Counts, Earned', NEW p \in Providers,
           NEW f \in {NoSpecifiedFamilyID} \cup DOMAIN family, NEW secondary \in SecondaryLists, NEW amount,
           CreateGlobalVirtualGroup(p, f, secondary, amount)
    PROVE  Counts'
<1>1. /\ nextGvg \notin DOMAIN gvg /\ DOMAIN gvg' = DOMAIN gvg \cup {nextGvg}
      /\ gvg'[nextGvg].primary = p /\ gvg'[nextGvg].secondary = secondary
      /\ \A g \in DOMAIN gvg : gvg'[g] = gvg[g]
      /\ p \notin Range(secondary)
  BY SMT DEF CreateGlobalVirtualGroup, With, Paying, Agreed, Stores
<1>2. ASSUME NEW q \in Providers PROVE Counted(q)'
  <2>1. /\ IsFiniteSet(Primaries(q)) /\ Cardinality(Primaries(q)) \in Nat
        /\ IsFiniteSet(PlacesOf(q)) /\ Cardinality(PlacesOf(q)) \in Nat
    BY CountsFit DEF Paying, Fits
  <2>2. Cardinality(Primaries(q)') < CounterModulus /\ Cardinality(PlacesOf(q)') < CounterModulus
    BY CountsFit DEF Paying, Fits
  <2>3. stat[q].primary = Cardinality(Primaries(q)) /\ stat[q].secondary = Cardinality(PlacesOf(q))
    BY DEF Counts, Counted
  <2>4. /\ DOMAIN stat[q] = StatFields
        /\ stat'[q] = IF q \in Range(secondary) THEN [stat[q] EXCEPT !.secondary = Add(@, 1)]
                      ELSE IF q = p THEN [stat[q] EXCEPT !.primary = Add(@, 1)] ELSE stat[q]
    BY DEF Typed, CreateGlobalVirtualGroup, StatCreated
  <2>5. stat'[q].primary = IF q = p THEN Add(stat[q].primary, 1) ELSE stat[q].primary
    BY <2>4, <1>1 DEF StatFields
  <2>6. stat'[q].secondary = IF q \in Range(secondary) THEN Add(stat[q].secondary, 1) ELSE stat[q].secondary
    BY <2>4 DEF StatFields
  <2>7. stat'[q].primary = Cardinality(Primaries(q)')
    <3>1. CASE q = p
      <4>1. Primaries(q)' = Primaries(q) \cup {nextGvg} /\ nextGvg \notin Primaries(q)
        BY <1>1, <3>1 DEF Primaries
      <4>2. Cardinality(Primaries(q)') = Cardinality(Primaries(q)) + 1
        BY Zenon, <2>1, <4>1, FS_AddElement
      <4> QED
        BY SMT, <2>1, <2>2, <2>3, <2>5, <3>1, <4>2, AddExact
    <3>2. CASE q # p
      <4>1. Primaries(q)' = Primaries(q)
        BY <1>1, <3>2 DEF Primaries
      <4> QED
        BY <2>3, <2>5, <3>2, <4>1
    <3> QED
      BY <3>1, <3>2
  <2>8. stat'[q].secondary = Cardinality(PlacesOf(q)')
    <3>1. secondary \in [1..NumSecondary -> Providers] /\ IsInjective(secondary)
      BY DEF SecondaryLists
    <3>2. \A pl : pl \in PlacesOf(q)' <=>
                    pl \in PlacesOf(q) \/ \E i \in 1..NumSecondary : pl = <<nextGvg, i>> /\ secondary[i] = q
      BY SMT, <1>1 DEF PlacesOf
    <3>3. CASE q \in Range(secondary)
      <4>1. PICK i \in 1..NumSecondary : secondary[i] = q
        BY <3>1, <3>3 DEF Range
      <4>2. \A j \in 1..NumSecondary : secondary[j] = q => j = i
        BY <3>1, <4>1 DEF IsInjective
      <4>3. PlacesOf(q)' = PlacesOf(q) \cup {<<nextGvg, i>>}
        BY <3>2, <4>1, <4>2
      <4>4. <<nextGvg, i>> \notin PlacesOf(q)
        BY <1>1 DEF PlacesOf
      <4>5. Cardinality(PlacesOf(q)') = Cardinality(PlacesOf(q)) + 1
        BY Zenon, <2>1, <4>3, <4>4, FS_AddElement
      <4> QED
        BY SMT, <2>1, <2>2, <2>3, <2>6, <3>3, <4>5, AddExact
    <3>4. CASE q \notin Range(secondary)
      <4>1. \A i \in 1..NumSecondary : secondary[i] # q
        BY <3>1, <3>4 DEF Range
      <4>2. PlacesOf(q)' = PlacesOf(q)
        BY <3>2, <4>1
      <4> QED
        BY <2>3, <2>6, <3>4, <4>2
    <3> QED
      BY <3>3, <3>4
  <2> QED
    BY <2>7, <2>8 DEF Counted
<1> QED
  BY <1>2 DEF Counts

(* DeleteGVG takes the group from the counts of all who served it.         *)
LEMMA DeleteCounts ==
    ASSUME Paying, Typed, Counts, Earned', NEW p, NEW g, DeleteGlobalVirtualGroup(p, g)
    PROVE  Counts'
<1>1. /\ g \in DOMAIN gvg /\ DOMAIN gvg' = DOMAIN gvg \ {g} /\ \A h \in DOMAIN gvg' : gvg'[h] = gvg[h]
      /\ gvg[g].secondary \in [1..NumSecondary -> Providers]
  BY DEF DeleteGlobalVirtualGroup, Without, Restrict, HasGvg, Typed
<1>2. family[gvg[g].family].primary = gvg[g].primary
  BY <1>1 DEF Paying, Agreed, FamiliesAgree
<1>3. ASSUME NEW q \in Providers PROVE Counted(q)'
  <2> DEFINE lost == {i \in 1..NumSecondary : gvg[g].secondary[i] = q}
  <2>1. Fits(Primaries(q)) /\ Fits(PlacesOf(q)) /\ Fits(Primaries(q)') /\ Fits(PlacesOf(q)')
    BY CountsFit DEF Paying
  <2>2. stat[q].primary = Cardinality(Primaries(q)) /\ stat[q].secondary = Cardinality(PlacesOf(q))
    BY DEF Counts, Counted
  <2>3. Places(gvg[g].secondary, q) = Cardinality(lost)
    BY Zenon, <1>1 DEF Places, Quantify
  <2>4. /\ DOMAIN stat[q] = StatFields
        /\ stat'[q] = [stat[q] EXCEPT
                !.primary = IF q = gvg[g].primary THEN Add(@, -1) ELSE @,
                !.secondary = Add(@, -Cardinality(lost))]
    BY Zenon, <1>2, <2>3 DEF Typed, DeleteGlobalVirtualGroup, StatDeleted
  <2>5. /\ stat'[q].primary = IF q = gvg[g].primary THEN Add(stat[q].primary, -1) ELSE stat[q].primary
        /\ stat'[q].secondary = Add(stat[q].secondary, -Cardinality(lost))
    BY <2>4 DEF StatFields
  <2>6. stat'[q].primary = Cardinality(Primaries(q)')
    <3>1. Primaries(q)' = Primaries(q) \ {g} /\ (g \in Primaries(q) <=> q = gvg[g].primary)
      BY <1>1 DEF Primaries
    <3>2. Cardinality(Primaries(q)') = IF q = gvg[g].primary THEN Cardinality(Primaries(q)) - 1
                                       ELSE Cardinality(Primaries(q))
      BY <2>1, <3>1, FS_RemoveElement DEF Fits
    <3> QED
      BY SMT, <2>1, <2>2, <2>5, <3>2, AddExact DEF Fits
  <2>7. stat'[q].secondary = Cardinality(PlacesOf(q)')
    <3>1. NumSecondary \in Nat
      BY VirtualGroupAssumption
    <3>2. IsFiniteSet(1..NumSecondary) /\ lost \in SUBSET (1..NumSecondary)
      BY SMT, <3>1, FS_Interval
    <3>3. IsFiniteSet(lost) /\ Cardinality(lost) \in Nat
      BY Zenon, <3>2, FS_Subset, FS_CardinalityType
    <3>4. IsFiniteSet({g}) /\ Cardinality({g}) = 1
      BY Zenon, FS_Singleton
    <3>5. Cardinality({g} \X lost) = Cardinality(lost)
      BY SMT, <3>3, <3>4, FS_Product
    <3>6. PlacesOf(q)' = PlacesOf(q) \ ({g} \X lost)
      BY <1>1 DEF PlacesOf
    <3>7. PlacesOf(q) \cap ({g} \X lost) = {g} \X lost
      BY <1>1 DEF PlacesOf
    <3> HIDE DEF lost
    <3>8. Cardinality(PlacesOf(q) \ ({g} \X lost)) =
              Cardinality(PlacesOf(q)) - Cardinality(PlacesOf(q) \cap ({g} \X lost))
      BY Zenon, <2>1, FS_Difference DEF Fits
    <3>9. Cardinality(PlacesOf(q)') = Cardinality(PlacesOf(q)) - Cardinality(lost)
      BY Zenon, <3>5, <3>6, <3>7, <3>8
    <3> QED
      BY SMT, <2>1, <2>2, <2>5, <3>3, <3>9, AddExact DEF Fits
  <2> QED
    BY <2>6, <2>7 DEF Counted
<1> QED
  BY <1>3 DEF Counts

(* SwapAsPrimarySP: the groups of the family, all of them the leaver's,    *)
(* are taken from the leaver's count and added to the successor's.         *)
LEMMA PrimaryCounts ==
    ASSUME Paying, Typed, Counts, Earned', NEW leaver, NEW successor \in Providers, leaver # successor,
           NEW f, NEW isSwapIn, SwapAsPrimarySP(leaver, successor, f, isSwapIn)
    PROVE  Counts'
<1> DEFINE gvgs == family[f].gvgs
           n == Cardinality(gvgs)
<1>1. /\ f \in DOMAIN family /\ family[f].primary = leaver /\ leaver \in Providers
      /\ gvgs \in SUBSET DOMAIN gvg /\ \A g \in gvgs : gvg[g].primary = leaver
  BY DEF SwapAsPrimarySP, HasFamily, Typed, Paying, Agreed, FamiliesAgree
<1>2. /\ DOMAIN gvg' = DOMAIN gvg
      /\ \A g \in DOMAIN gvg : /\ gvg'[g].primary = IF g \in gvgs THEN successor ELSE gvg[g].primary
                               /\ gvg'[g].secondary = gvg[g].secondary
  BY DEF SwapAsPrimarySP, GvgsHandedOver, Paying, Agreed, Stores, GvgFields
<1>3. IsFiniteSet(gvgs) /\ n \in Nat
  <2>1. gvgs \in SUBSET GvgIds
    BY <1>1 DEF Paying, Earned
  <2> QED
    BY <2>1, SetsFit DEF Fits
<1>4. \E both : stat' = [stat EXCEPT
            ![leaver] = [stat[leaver] EXCEPT !.primary = Add(@, -n)],
            ![successor] = [stat[successor] EXCEPT !.primary = Add(@, n), !.broken = Add(@, both)]]
  BY Zenon DEF SwapAsPrimarySP
<1>5. ASSUME NEW q \in Providers
      PROVE  /\ stat'[q].secondary = stat[q].secondary
             /\ stat'[q].primary = IF q = successor THEN Add(stat[q].primary, n)
                                   ELSE IF q = leaver THEN Add(stat[q].primary, -n) ELSE stat[q].primary
  <2>1. DOMAIN stat = Providers /\ DOMAIN stat[leaver] = StatFields /\ DOMAIN stat[successor] = StatFields
    BY <1>1 DEF Typed
  <2> HIDE DEF n
  <2> QED
    BY SMT, <1>1, <1>4, <2>1 DEF StatFields
<1>6. ASSUME NEW q \in Providers PROVE Counted(q)'
  <2>1. Fits(Primaries(q)) /\ Fits(Primaries(q)')
    BY CountsFit DEF Paying
  <2>2. stat[q].primary = Cardinality(Primaries(q)) /\ stat[q].secondary = Cardinality(PlacesOf(q))
    BY DEF Counts, Counted
  <2>3. PlacesOf(q)' = PlacesOf(q)
    BY <1>2 DEF PlacesOf
  <2>4. Cardinality(Primaries(q)') =
            Cardinality(Primaries(q)) + (IF q = successor THEN n ELSE IF q = leaver THEN -n ELSE 0)
    <3>1. CASE q = successor
      <4>1. Primaries(q)' = Primaries(q) \cup gvgs /\ Primaries(q) \cap gvgs = {}
        BY <1>1, <1>2, <3>1 DEF Primaries
      <4>2. Cardinality(Primaries(q) \cup gvgs) =
                Cardinality(Primaries(q)) + n - Cardinality(Primaries(q) \cap gvgs)
        BY Zenon, <1>3, <2>1, FS_Union DEF Fits
      <4>3. Cardinality(Primaries(q)') = Cardinality(Primaries(q)) + n - 0
        BY Zenon, <4>1, <4>2, FS_EmptySet
      <4> HIDE DEF n
      <4> QED
        BY SMT, <1>3, <2>1, <3>1, <4>3 DEF Fits
    <3>2. CASE q = leaver
      <4>1. Primaries(q)' = Primaries(q) \ gvgs /\ Primaries(q) \cap gvgs = gvgs
        BY <1>1, <1>2, <3>2 DEF Primaries
      <4>2. Cardinality(Primaries(q) \ gvgs) =
                Cardinality(Primaries(q)) - Cardinality(Primaries(q) \cap gvgs)
        BY Zenon, <2>1, FS_Difference DEF Fits
      <4>3. Cardinality(Primaries(q)') = Cardinality(Primaries(q)) - n
        BY Zenon, <4>1, <4>2
      <4> HIDE DEF n
      <4> QED
        BY <1>3, <2>1, <3>2, <4>3 DEF Fits
    <3>3. CASE q # leaver /\ q # successor
      <4>1. Primaries(q)' = Primaries(q)
        BY <1>1, <1>2, <3>3 DEF Primaries
      <4> QED
        BY SMT, <2>1, <3>3, <4>1 DEF Fits
    <3> QED
      BY <3>1, <3>2, <3>3
  <2> HIDE DEF n
  <2>5. stat'[q].primary = Cardinality(Primaries(q)')
    BY SMT, <1>3, <1>5, <2>1, <2>2, <2>4, AddExact DEF Fits
  <2> QED
    BY <1>5, <2>2, <2>3, <2>5 DEF Counted
<1> QED
  BY <1>6 DEF Counts

(* A nonempty set of naturals has a least member, the one Min chooses.     *)
LEMMA LeastNatural ==
    ASSUME NEW T \in SUBSET Nat, T # {}
    PROVE  Min(T) \in T /\ \A j \in T : Min(T) <= j
<1>1. PICK k \in T : \A j \in T : <<j, k>> \notin OpToRel(<, Nat)
  <2>1. T \subseteq Nat /\ IsWellFoundedOn(OpToRel(<, Nat), Nat)
    BY Zenon, NatLessThanWellFounded
  <2> QED
    BY Zenon, <2>1, WFMin
<1>2. \A j \in T : k <= j
  <2>1. ASSUME NEW j \in T, j < k PROVE <<j, k>> \in OpToRel(<, Nat)
    BY <2>1 DEF OpToRel
  <2>2. \A j \in T : ~(j < k)
    BY Zenon, <1>1, <2>1
  <2> QED
    BY SMT, <2>2
<1>3. \E x \in T : \A y \in T : x =< y
  BY <1>2
<1> QED
  BY Zenon, <1>3 DEF Min

(* A bounded nonempty set of naturals has a greatest member, the one Max   *)
(* chooses.                                                                *)
LEMMA GreatestNatural ==
    ASSUME NEW n \in Nat, NEW S \in SUBSET (1..n), S # {}
    PROVE  Max(S) \in S /\ \A j \in S : Max(S) >= j
<1> DEFINE T == {n - i : i \in S}
<1>1. T \in SUBSET Nat /\ T # {}
  <2>1. \A i \in S : n - i \in Nat
    BY SMT
  <2> QED
    BY Zenon, <2>1
<1>2. PICK k \in T : \A j \in T : k <= j
  <2> HIDE DEF T
  <2> QED BY Zenon, <1>1, LeastNatural
<1>3. PICK i \in S : k = n - i
  OBVIOUS
<1>4. \A j \in S : n - j \in T
  OBVIOUS
<1>5. \A j \in S : i >= j
  BY SMT, <1>2, <1>3, <1>4
<1>6. \E x \in S : \A y \in S : x >= y
  BY <1>5
<1> QED
  BY Zenon, <1>6 DEF Max

(* The place that ReplaceSecondary finds is one of q's.                    *)
LEMMA PlaceFound ==
    ASSUME NEW s \in [1..NumSecondary -> Providers], NEW q, LastPlace(s, q) # 0
    PROVE  LastPlace(s, q) \in 1..NumSecondary /\ s[LastPlace(s, q)] = q
<1> DEFINE places == {i \in 1..NumSecondary : s[i] = q}
<1>1. NumSecondary \in Nat
  BY VirtualGroupAssumption
<1>2. LastPlace(s, q) = IF places = {} THEN 0 ELSE Max(places)
  BY DEF LastPlace
<1>3. Max(places) \in places
  BY Zenon, <1>1, <1>2, GreatestNatural
<1> QED
  BY <1>2, <1>3

(* ReplaceSecondary: one place of the group goes from the leaver to the    *)
(* successor.                                                              *)
LEMMA PlaceReplaced ==
    ASSUME Typed, Stores, NEW g \in DOMAIN gvg, NEW leaver, NEW successor \in Providers,
           ReplaceSecondary(leaver, successor, g)
    PROVE  /\ leaver \in Providers /\ DOMAIN gvg' = DOMAIN gvg
           /\ \A h \in DOMAIN gvg : gvg'[h].primary = gvg[h].primary
           /\ \E i \in 1..NumSecondary :
                /\ gvg[g].secondary[i] = leaver
                /\ \A h \in DOMAIN gvg :
                    gvg'[h].secondary = IF h = g THEN [gvg[g].secondary EXCEPT ![i] = successor]
                                        ELSE gvg[h].secondary
<1> DEFINE i == LastPlace(gvg[g].secondary, leaver)
<1>1. gvg[g].secondary \in [1..NumSecondary -> Providers] /\ DOMAIN gvg[g] = GvgFields
  BY DEF Typed, Stores
<1>2. i # 0 /\ gvg' = [gvg EXCEPT ![g].secondary[i] = successor]
  BY Zenon DEF ReplaceSecondary
<1>3. i \in 1..NumSecondary /\ gvg[g].secondary[i] = leaver
  BY Zenon, <1>1, <1>2, PlaceFound
<1> HIDE DEF i
<1>4. /\ \A h \in DOMAIN gvg : gvg'[h].primary = gvg[h].primary
      /\ \A h \in DOMAIN gvg : gvg'[h].secondary = IF h = g THEN [gvg[g].secondary EXCEPT ![i] = successor]
                                                   ELSE gvg[h].secondary
  BY <1>1, <1>2 DEF GvgFields
<1> QED
  BY Zenon, <1>1, <1>2, <1>3, <1>4

(* The place is taken from the leaver's count and added to the successor's,*)
(* whether it was swapped out or swapped in.                               *)
LEMMA SecondaryCounts ==
    ASSUME Paying, Typed, Counts, Earned', NEW g \in DOMAIN gvg, NEW leaver, NEW successor \in Providers,
           leaver # successor, ReplaceSecondary(leaver, successor, g),
           \A q \in Providers :
               /\ stat'[q].primary = stat[q].primary
               /\ stat'[q].secondary = IF q = leaver THEN Add(stat[q].secondary, -1)
                                       ELSE IF q = successor THEN Add(stat[q].secondary, 1)
                                       ELSE stat[q].secondary
    PROVE  Counts'
<1>1. Stores
  BY DEF Paying, Agreed
<1>2. /\ DOMAIN gvg' = DOMAIN gvg /\ \A h \in DOMAIN gvg : gvg'[h].primary = gvg[h].primary
  BY <1>1, PlaceReplaced
<1>3. PICK i \in 1..NumSecondary :
        /\ gvg[g].secondary[i] = leaver
        /\ \A h \in DOMAIN gvg :
            gvg'[h].secondary = IF h = g THEN [gvg[g].secondary EXCEPT ![i] = successor]
                                ELSE gvg[h].secondary
  BY SMT, <1>1, PlaceReplaced
<1>4. gvg[g].secondary \in [1..NumSecondary -> Providers]
  BY DEF Typed
<1>5. ASSUME NEW q \in Providers PROVE Counted(q)'
  <2>1. Fits(PlacesOf(q)) /\ Fits(PlacesOf(q)')
    BY CountsFit DEF Paying
  <2>2. stat[q].primary = Cardinality(Primaries(q)) /\ stat[q].secondary = Cardinality(PlacesOf(q))
    BY DEF Counts, Counted
  <2>3. Primaries(q)' = Primaries(q)
    BY <1>2 DEF Primaries
  <2>4. <<g, i>> \in PlacesOf(q) <=> q = leaver
    BY <1>3 DEF PlacesOf
  <2>5. \A h \in DOMAIN gvg, j \in 1..NumSecondary :
            gvg'[h].secondary[j] = IF h = g /\ j = i THEN successor ELSE gvg[h].secondary[j]
    <3>1. \A s \in [1..NumSecondary -> Providers], j \in 1..NumSecondary :
            [s EXCEPT ![i] = successor][j] = IF j = i THEN successor ELSE s[j]
      OBVIOUS
    <3>2. ASSUME NEW h \in DOMAIN gvg, NEW j \in 1..NumSecondary
          PROVE  gvg'[h].secondary[j] = IF h = g /\ j = i THEN successor ELSE gvg[h].secondary[j]
      <4>1. CASE h = g
        <5>1. gvg'[h].secondary = [gvg[g].secondary EXCEPT ![i] = successor]
          BY Zenon, <1>3, <4>1
        <5>2. gvg'[h].secondary[j] = IF j = i THEN successor ELSE gvg[g].secondary[j]
          BY Zenon, <1>4, <3>1, <5>1
        <5> QED
          BY Zenon, <4>1, <5>2
      <4>2. CASE h # g
        BY Zenon, <1>3, <4>2
      <4> QED
        BY <4>1, <4>2
    <3> QED
      BY Zenon, <3>2
  <2>6. stat'[q].secondary = Cardinality(PlacesOf(q)')
    <3>1. CASE q = leaver
      <4>1. PlacesOf(q)' = PlacesOf(q) \ {<<g, i>>}
        BY SMT, <1>2, <1>3, <2>5, <3>1 DEF PlacesOf
      <4>2. Cardinality(PlacesOf(q)') = Cardinality(PlacesOf(q)) - 1
        BY SMT, <2>1, <2>4, <3>1, <4>1, FS_RemoveElement DEF Fits
      <4> QED
        BY SMT, <2>1, <2>2, <3>1, <4>2, AddExact DEF Fits
    <3>2. CASE q = successor
      <4>1. PlacesOf(q)' = PlacesOf(q) \cup {<<g, i>>}
        BY SMT, <1>2, <1>3, <2>5, <3>2 DEF PlacesOf
      <4>2. Cardinality(PlacesOf(q)') = Cardinality(PlacesOf(q)) + 1
        BY <2>1, <2>4, <3>2, <4>1, FS_AddElement DEF Fits
      <4> QED
        BY SMT, <2>1, <2>2, <3>2, <4>2, AddExact DEF Fits
    <3>3. CASE q # leaver /\ q # successor
      <4>1. PlacesOf(q)' = PlacesOf(q)
        BY SMT, <1>2, <1>3, <2>5, <3>3 DEF PlacesOf
      <4> QED
        BY <2>2, <3>3, <4>1
    <3> QED
      BY <3>1, <3>2, <3>3
  <2> QED
    BY <2>2, <2>3, <2>6 DEF Counted
<1> QED
  BY <1>5 DEF Counts

(* SwapOutAsSecondarySP and CompleteSwapInGVG write the two records so.    *)
LEMMA SwapsCounted ==
    ASSUME Paying, Typed, Counts, Earned', NEW g, NEW leaver, NEW successor \in Providers, leaver # successor,
           SwapOutAsSecondarySP(leaver, successor, g) \/ CompleteSwapInGVG(successor, leaver, g)
    PROVE  Counts'
<1>1. g \in DOMAIN gvg /\ ReplaceSecondary(leaver, successor, g)
  BY DEF SwapOutAsSecondarySP, CompleteSwapInGVG, HasGvg
<1>2. leaver \in Providers
  BY <1>1, PlaceReplaced DEF Paying, Agreed
<1>3. DOMAIN stat = Providers /\ DOMAIN stat[leaver] = StatFields /\ DOMAIN stat[successor] = StatFields
  BY <1>2 DEF Typed
<1>4. ASSUME NEW q \in Providers
      PROVE  /\ stat'[q].primary = stat[q].primary
             /\ stat'[q].secondary = IF q = leaver THEN Add(stat[q].secondary, -1)
                                     ELSE IF q = successor THEN Add(stat[q].secondary, 1)
                                     ELSE stat[q].secondary
  <2>1. CASE SwapOutAsSecondarySP(leaver, successor, g)
    <3>1. stat' = [stat EXCEPT ![leaver].secondary = Add(@, -1), ![successor].secondary = Add(@, 1)]
      BY <2>1 DEF SwapOutAsSecondarySP
    <3> QED
      BY <1>2, <1>3, <3>1 DEF StatFields
  <2>2. CASE CompleteSwapInGVG(successor, leaver, g)
    <3>1. PICK b : stat' = [stat EXCEPT
                    ![leaver] = [stat[leaver] EXCEPT !.secondary = Add(@, -1), !.broken = b],
                    ![successor].secondary = Add(@, 1)]
      BY Zenon, <2>2 DEF CompleteSwapInGVG
    <3>2. /\ stat'[leaver] = [stat[leaver] EXCEPT !.secondary = Add(@, -1), !.broken = b]
          /\ stat'[successor] = [stat[successor] EXCEPT !.secondary = Add(@, 1)]
          /\ q # leaver /\ q # successor => stat'[q] = stat[q]
      BY <1>2, <1>3, <3>1
    <3> QED
      BY ZenonT(30), <1>3, <3>2 DEF StatFields
  <2> QED
    BY <2>1, <2>2
<1> QED
  BY <1>1, <1>4, SecondaryCounts

-----------------------------------------------------------------------------
(* The lists of family ids: GVGFamilyStatisticsWithinSP.                   *)
LEMMA Appended ==
    ASSUME NEW s \in Seq(Nat), IsInjective(s), NEW e \in Nat, e \notin Range(s)
    PROVE  /\ Append(s, e) \in Seq(Nat) /\ IsInjective(Append(s, e))
           /\ Range(Append(s, e)) = Range(s) \cup {e}
<1> DEFINE t == Append(s, e)
<1>1. /\ t \in Seq(Nat) /\ Len(s) \in Nat /\ DOMAIN s = 1..Len(s) /\ DOMAIN t = 1..(Len(s) + 1)
      /\ \A i \in 1..Len(s) : t[i] = s[i]
      /\ t[Len(s) + 1] = e
  BY SMT
<1> HIDE DEF t
<1>2. IsInjective(t)
  <2>1. /\ \A i, j \in 1..Len(s) : s[i] = s[j] => i = j
        /\ \A i \in 1..Len(s) : s[i] # e
    BY Zenon, <1>1 DEF IsInjective, Range
  <2>2. \A i \in 1..(Len(s) + 1) : i \in 1..Len(s) \/ i = Len(s) + 1
    BY SMT, <1>1
  <2> HIDE DEF t
  <2>3. \A i, j \in 1..(Len(s) + 1) : t[i] = t[j] => i = j
    BY Zenon, <1>1, <2>1, <2>2
  <2> QED
    BY Zenon, <1>1, <2>3 DEF IsInjective
<1>3. Range(t) = Range(s) \cup {e}
  <2>1. 1..(Len(s) + 1) = (1..Len(s)) \cup {Len(s) + 1}
    BY SMT, <1>1
  <2>2. DOMAIN t = DOMAIN s \cup {Len(s) + 1} /\ \A i \in DOMAIN s : t[i] = s[i]
    BY Zenon, <1>1, <2>1
  <2>3. Range(t) \subseteq Range(s) \cup {e}
    BY Zenon, <1>1, <2>2 DEF Range
  <2>4. Range(s) \subseteq Range(t) /\ e \in Range(t)
    BY Zenon, <1>1, <2>2 DEF Range
  <2> QED
    BY Zenon, <2>3, <2>4
<1> QED
  BY Zenon, <1>1, <1>2, <1>3 DEF t

(* Taking an id out of a list without duplicates takes out just that id.   *)
LEMMA Removed ==
    ASSUME NEW s \in Seq(Nat), IsInjective(s), NEW e \in Range(s)
    PROVE  /\ WithoutFamily(s, e) \in Seq(Nat) /\ IsInjective(WithoutFamily(s, e))
           /\ Range(WithoutFamily(s, e)) = Range(s) \ {e}
<1> DEFINE n == Len(s)
           found == {j \in 1..n : s[j] = e}
           i == Min(found)
           t == WithoutFamily(s, e)
<1>1. n \in Nat /\ DOMAIN s = 1..n /\ s \in [1..n -> Nat]
  BY SMT
<1>2. PICK k \in 1..n : s[k] = e
  BY <1>1 DEF Range
<1>3. found # {} /\ found \in SUBSET Nat
  BY SMT, <1>2
<1>4. i \in 1..n /\ s[i] = e
  <2>1. i \in found
    BY Zenon, <1>3, LeastNatural
  <2> QED
    BY <2>1
<1>5. t = [j \in 1..(n - 1) |-> IF j < i THEN s[j] ELSE s[j + 1]]
  BY Zenon, <1>1, <1>3 DEF WithoutFamily
<1> HIDE DEF i, t, n
<1>6. \A j \in 1..(n - 1) : t[j] = IF j < i THEN s[j] ELSE s[j + 1]
  BY Zenon, <1>5
<1>7. t \in Seq(Nat) /\ DOMAIN t = 1..(n - 1)
  <2>1. n - 1 \in Nat /\ t \in [1..(n - 1) -> Nat]
    BY SMT, <1>1, <1>4, <1>5
  <2> QED
    BY SMT, <2>1
<1>8. ASSUME NEW j \in 1..(n - 1) PROVE t[j] \in Range(s) \ {e}
  <2>1. PICK m \in 1..n : m # i /\ t[j] = s[m]
    BY SMT, <1>1, <1>4, <1>6
  <2> QED
    BY <1>1, <1>4, <2>1 DEF IsInjective, Range
<1>9. ASSUME NEW j \in 1..n, s[j] # e PROVE \E m \in 1..(n - 1) : t[m] = s[j]
  <2>1. CASE j < i
    BY SMT, <1>1, <1>4, <1>6, <2>1
  <2>2. CASE j > i
    <3>1. j - 1 \in 1..(n - 1) /\ ~(j - 1 < i) /\ (j - 1) + 1 = j
      BY SMT, <1>1, <1>4, <2>2
    <3> QED
      BY <1>6, <3>1
  <2> QED
    BY SMT, <1>1, <1>4, <1>9, <2>1, <2>2
<1>10. Range(t) = Range(s) \ {e}
  <2>1. Range(t) \subseteq Range(s) \ {e}
    BY Zenon, <1>7, <1>8 DEF Range
  <2>2. ASSUME NEW x \in Range(s), x # e PROVE x \in Range(t)
    <3>1. PICK j \in 1..n : s[j] = x
      BY Zenon, <1>1 DEF Range
    <3>2. PICK m \in 1..(n - 1) : t[m] = s[j]
      BY Zenon, <1>9, <2>2, <3>1
    <3> QED
      BY Zenon, <1>7, <3>1, <3>2 DEF Range
  <2> QED
    BY <2>1, <2>2
<1>11. IsInjective(t)
  <2> SUFFICES ASSUME NEW a \in 1..(n - 1), NEW b \in 1..(n - 1), t[a] = t[b] PROVE a = b
    BY <1>7 DEF IsInjective
  <2>1. \A x, y \in 1..n : s[x] = s[y] => x = y
    BY <1>1 DEF IsInjective
  <2>2. PICK x \in 1..n : t[a] = s[x] /\ x = IF a < i THEN a ELSE a + 1
    BY SMT, <1>1, <1>4, <1>6
  <2>3. PICK y \in 1..n : t[b] = s[y] /\ y = IF b < i THEN b ELSE b + 1
    BY SMT, <1>1, <1>4, <1>6
  <2>4. x = y
    BY Zenon, <2>1, <2>2, <2>3
  <2> QED
    BY SMT, <1>1, <1>4, <2>2, <2>3, <2>4
<1> QED
  BY <1>7, <1>10, <1>11 DEF t

(* The length of a list without duplicates is the number of its members.   *)
LEMMA LengthCounts ==
    ASSUME NEW s \in Seq(Nat), IsInjective(s)
    PROVE  Len(s) = Cardinality(Range(s))
<1>1. Len(s) \in Nat /\ DOMAIN s = 1..Len(s) /\ s \in [1..Len(s) -> Range(s)]
  BY SMT DEF Range
<1>2. s \in Bijection(1..Len(s), Range(s))
  BY <1>1 DEF Bijection, Injection, Surjection, IsInjective, Range
<1>3. ExistsBijection(1..Len(s), Range(s))
  BY Zenon, <1>2 DEF ExistsBijection
<1>4. IsFiniteSet(1..Len(s)) /\ Cardinality(1..Len(s)) = Len(s)
  BY SMT, <1>1, FS_Interval
<1> QED
  BY Zenon, <1>3, <1>4, FS_Bijection

(* A provider's list names the families it is primary of, each once.       *)
Lists ==
    /\ DOMAIN famStat = Providers
    /\ \A p \in Providers :
        /\ famStat[p] \in Seq(Nat) /\ IsInjective(famStat[p])
        /\ Range(famStat[p]) = {f \in DOMAIN family : family[f].primary = p}

(* No provider swaps with itself.                                          *)
Apart ==
    /\ \A k \in DOMAIN swapOut : swapOut[k].sp # swapOut[k].successor
    /\ \A k \in DOMAIN swapIn : swapIn[k].target # swapIn[k].successor

Served == Typed /\ Counts /\ Lists /\ ExitedIsGone

(* Whoever is registered stays so.                                         *)
Remain == DOMAIN status' = Providers /\ \A p \in Providers : Registered(p) => Registered(p)'

(* A step that moves no place and removes no provider.                     *)
LEMMA Quiet ==
    ASSUME Served, Remain, UNCHANGED <<family, stat, famStat>>, DOMAIN gvg' = DOMAIN gvg,
           \A g \in DOMAIN gvg : gvg'[g].primary = gvg[g].primary /\ gvg'[g].secondary = gvg[g].secondary
    PROVE  Served'
<1>1. Typed'
  BY DEF Served, Typed, Remain
<1>2. Counts'
  BY SamePlaces DEF Served
<1>3. Lists'
  BY DEF Served, Lists
<1>4. ExitedIsGone'
  <2>1. ASSUME NEW g \in DOMAIN gvg
        PROVE  Registered(gvg[g].primary)' /\ \A q \in Range(gvg[g].secondary)' : Registered(q)'
    <3>1. gvg[g].primary \in Providers /\ \A q \in Range(gvg[g].secondary) : q \in Providers
      BY Zenon DEF Served, Typed, Range
    <3>2. Registered(gvg[g].primary) /\ \A q \in Range(gvg[g].secondary) : Registered(q)
      BY DEF Served, ExitedIsGone
    <3>3. Range(gvg[g].secondary)' = Range(gvg[g].secondary) /\ gvg'[g].primary = gvg[g].primary
      BY DEF Range
    <3> QED
      BY <3>1, <3>2, <3>3 DEF Remain, Registered
  <2> QED
    BY <2>1 DEF ExitedIsGone
<1> QED
  BY <1>1, <1>2, <1>3, <1>4 DEF Served

(* The store of family ids after CreateGlobalVirtualGroup: a new family is *)
(* appended to the creator's list.                                         *)
LEMMA CreateServed ==
    ASSUME Paying, Served, Earned', NEW p \in Providers,
           NEW f \in {NoSpecifiedFamilyID} \cup DOMAIN family, NEW secondary \in SecondaryLists, NEW amount,
           CreateGlobalVirtualGroup(p, f, secondary, amount)
    PROVE  Served'
<1> DEFINE id == IF f = NoSpecifiedFamilyID THEN Cardinality(DOMAIN family) + 1 ELSE f
           fam == Family(f, p)
<1>1. PICK n \in Nat : DOMAIN family = 1..n
  BY DEF Paying, Agreed, Stores
<1>2. Cardinality(DOMAIN family) = n
  BY SMT, <1>1, FS_Interval
<1>3. fam.primary = p /\ DOMAIN fam = FamilyFields /\ (f # NoSpecifiedFamilyID => fam = family[f])
  BY DEF CreateGlobalVirtualGroup, Owns, Family, FamilyFields, Paying, Agreed, Stores
<1>4. /\ DOMAIN family' = DOMAIN family \cup {id} /\ family'[id].primary = p
      /\ \A h \in DOMAIN family : family'[h].primary = family[h].primary
  <2>1. family' = With(family, id, [fam EXCEPT !.gvgs = @ \cup {nextGvg}])
    BY DEF CreateGlobalVirtualGroup
  <2>2. id \in DOMAIN family => family[id] = fam
    BY SMT, <1>1, <1>2, <1>3
  <2> HIDE DEF id, fam
  <2> QED
    BY <1>3, <2>1, <2>2 DEF With, FamilyFields
<1>5. /\ nextGvg \notin DOMAIN gvg /\ DOMAIN gvg' = DOMAIN gvg \cup {nextGvg}
      /\ gvg'[nextGvg].primary = p /\ gvg'[nextGvg].secondary = secondary
      /\ \A g \in DOMAIN gvg : gvg'[g] = gvg[g]
  BY SMT DEF CreateGlobalVirtualGroup, With, Paying, Agreed, Stores
<1>6. secondary \in [1..NumSecondary -> Providers]
  BY DEF SecondaryLists
<1>7. Typed'
  <2>1. DOMAIN stat' = Providers /\ \A q \in Providers : DOMAIN stat'[q] = StatFields
    BY DEF CreateGlobalVirtualGroup, StatCreated, Served, Typed
  <2>2. DOMAIN status' = Providers
    BY DEF CreateGlobalVirtualGroup, spVars, Served, Typed
  <2> HIDE DEF id
  <2> QED
    BY <1>4, <1>5, <1>6, <2>1, <2>2 DEF Served, Typed
<1>8. Counts'
  BY CreateCounts DEF Served
<1>9. Lists'
  <2>1. CASE f = NoSpecifiedFamilyID
    <3>1. famStat' = [famStat EXCEPT ![p] = Append(@, id)] /\ id = n + 1 /\ id \in Nat /\ id \notin DOMAIN family
      BY SMT, <1>1, <1>2, <2>1 DEF CreateGlobalVirtualGroup
    <3> HIDE DEF id
    <3>2. /\ Append(famStat[p], id) \in Seq(Nat) /\ IsInjective(Append(famStat[p], id))
          /\ Range(Append(famStat[p], id)) = Range(famStat[p]) \cup {id}
      BY <3>1, Appended DEF Served, Lists
    <3> QED
      BY ZenonT(30), <1>4, <3>1, <3>2 DEF Served, Lists
  <2>2. CASE f # NoSpecifiedFamilyID
    BY ZenonT(30), <1>4, <2>2 DEF CreateGlobalVirtualGroup, Served, Lists
  <2> QED
    BY <2>1, <2>2
<1>10. ExitedIsGone'
  <2>1. /\ Registered(p)' /\ \A q \in Range(secondary) : Registered(q)'
    BY DEF CreateGlobalVirtualGroup, Available, Registered, spVars
  <2>2. status' = status
    BY DEF CreateGlobalVirtualGroup, spVars
  <2> QED
    BY <1>5, <2>1, <2>2 DEF Served, ExitedIsGone, Registered
<1> QED
  BY <1>7, <1>8, <1>9, <1>10 DEF Served

(* DeleteGVG takes the group out of the counts of the primary and of every *)
(* secondary it had.                                                       *)
LEMMA DeleteServed ==
    ASSUME Paying, Served, Earned', NEW p, NEW g, DeleteGlobalVirtualGroup(p, g)
    PROVE  Served'
<1>1. /\ DOMAIN gvg' = DOMAIN gvg \ {g} /\ \A h \in DOMAIN gvg' : gvg'[h] = gvg[h]
      /\ UNCHANGED <<status, famStat>>
  BY DEF DeleteGlobalVirtualGroup, Without, Restrict, spVars
<1>2. /\ DOMAIN family' = DOMAIN family /\ \A h \in DOMAIN family : family'[h].primary = family[h].primary
  BY DEF DeleteGlobalVirtualGroup, Paying, Agreed, Stores, FamilyFields
<1>3. DOMAIN stat' = Providers /\ \A q \in Providers : DOMAIN stat'[q] = StatFields
  BY Zenon DEF DeleteGlobalVirtualGroup, StatDeleted, Served, Typed
<1>4. Typed'
  BY <1>1, <1>2, <1>3 DEF Served, Typed
<1>5. Counts'
  BY DeleteCounts DEF Served
<1>6. Lists' /\ ExitedIsGone'
  BY SMT, <1>1, <1>2 DEF Served, Lists, ExitedIsGone, Registered
<1> QED
  BY <1>4, <1>5, <1>6 DEF Served

(* SwapAsPrimarySP: the family moves from the leaver's list to the         *)
(* successor's.                                                            *)
LEMMA PrimaryServed ==
    ASSUME Paying, Served, Earned', NEW leaver, NEW successor \in Providers, leaver # successor,
           NEW f, NEW isSwapIn, SwapAsPrimarySP(leaver, successor, f, isSwapIn),
           Registered(successor), UNCHANGED status
    PROVE  Served'
<1>1. f \in DOMAIN family /\ family[f].primary = leaver /\ leaver \in Providers
  BY DEF SwapAsPrimarySP, HasFamily, Served, Typed
<1>2. /\ DOMAIN family' = DOMAIN family
      /\ \A h \in DOMAIN family : family'[h].primary = IF h = f THEN successor ELSE family[h].primary
  BY <1>1 DEF SwapAsPrimarySP, Paying, Agreed, Stores, FamilyFields
<1>3. /\ DOMAIN gvg' = DOMAIN gvg
      /\ \A g \in DOMAIN gvg : /\ gvg'[g].primary \in {gvg[g].primary, successor}
                               /\ gvg'[g].secondary = gvg[g].secondary
  BY DEF SwapAsPrimarySP, GvgsHandedOver, Paying, Agreed, Stores, GvgFields
<1>4. DOMAIN stat' = Providers /\ \A q \in Providers : DOMAIN stat'[q] = StatFields
  <2>1. \E x, y, z : stat' = [stat EXCEPT
            ![leaver] = [stat[leaver] EXCEPT !.primary = x],
            ![successor] = [stat[successor] EXCEPT !.primary = y, !.broken = z]]
    BY Zenon DEF SwapAsPrimarySP
  <2> QED
    BY <1>1, <2>1 DEF Served, Typed
<1>5. Typed'
  BY <1>2, <1>3, <1>4 DEF Served, Typed
<1>6. Counts'
  BY PrimaryCounts DEF Served
<1>7. Lists'
  <2>1. famStat' = [famStat EXCEPT ![leaver] = WithoutFamily(famStat[leaver], f),
                                   ![successor] = Append(famStat[successor], f)]
    BY Zenon DEF SwapAsPrimarySP
  <2>2. f \in Nat
    BY SMT, <1>1 DEF Paying, Agreed, Stores
  <2>3. f \in Range(famStat[leaver]) /\ f \notin Range(famStat[successor])
    BY <1>1 DEF Served, Lists
  <2>4. /\ WithoutFamily(famStat[leaver], f) \in Seq(Nat) /\ IsInjective(WithoutFamily(famStat[leaver], f))
        /\ Range(WithoutFamily(famStat[leaver], f)) = Range(famStat[leaver]) \ {f}
    BY <1>1, <2>3, Removed DEF Served, Lists
  <2>5. /\ Append(famStat[successor], f) \in Seq(Nat) /\ IsInjective(Append(famStat[successor], f))
        /\ Range(Append(famStat[successor], f)) = Range(famStat[successor]) \cup {f}
    BY <2>2, <2>3, Appended DEF Served, Lists
  <2>6. /\ DOMAIN famStat' = Providers
        /\ famStat'[leaver] = WithoutFamily(famStat[leaver], f)
        /\ famStat'[successor] = Append(famStat[successor], f)
        /\ \A q \in Providers \ {leaver, successor} : famStat'[q] = famStat[q]
    BY <1>1, <2>1 DEF Served, Lists
  <2>7. ASSUME NEW q \in Providers
        PROVE  /\ famStat'[q] \in Seq(Nat) /\ IsInjective(famStat'[q])
               /\ Range(famStat'[q]) = {h \in DOMAIN family' : family'[h].primary = q}
    <3> DEFINE own == {h \in DOMAIN family : family[h].primary = q}
               after == {h \in DOMAIN family' : family'[h].primary = q}
    <3>1. famStat[q] \in Seq(Nat) /\ IsInjective(famStat[q]) /\ Range(famStat[q]) = own
      BY Zenon DEF Served, Lists
    <3>2. /\ q = leaver => after = own \ {f}
          /\ q = successor => after = own \cup {f}
          /\ q \notin {leaver, successor} => after = own
      BY <1>1, <1>2
    <3> HIDE DEF own, after
    <3>3. CASE q = leaver
      BY Zenon, <2>4, <2>6, <3>1, <3>2, <3>3 DEF after
    <3>4. CASE q = successor
      BY Zenon, <2>5, <2>6, <3>1, <3>2, <3>4 DEF after
    <3>5. CASE q \notin {leaver, successor}
      BY Zenon, <2>6, <3>1, <3>2, <3>5 DEF after
    <3> QED
      BY Zenon, <3>3, <3>4, <3>5
  <2> QED
    BY <2>6, <2>7 DEF Lists
<1>8. ExitedIsGone'
  BY <1>3 DEF Served, ExitedIsGone, Registered
<1> QED
  BY <1>5, <1>6, <1>7, <1>8 DEF Served

(* A secondary's swap moves one place from the leaver's count to the       *)
(* successor's.                                                            *)
LEMMA SecondaryServed ==
    ASSUME Paying, Served, Earned', NEW g, NEW leaver, NEW successor \in Providers, leaver # successor,
           SwapOutAsSecondarySP(leaver, successor, g) \/ CompleteSwapInGVG(successor, leaver, g),
           Registered(successor), UNCHANGED status
    PROVE  Served'
<1>1. g \in DOMAIN gvg /\ ReplaceSecondary(leaver, successor, g) /\ Stores /\ Typed
  BY DEF SwapOutAsSecondarySP, CompleteSwapInGVG, HasGvg, Paying, Agreed, Served
<1>2. /\ leaver \in Providers /\ DOMAIN gvg' = DOMAIN gvg
      /\ \A h \in DOMAIN gvg : gvg'[h].primary = gvg[h].primary
  BY <1>1, PlaceReplaced
<1>3. PICK i \in 1..NumSecondary :
        \A h \in DOMAIN gvg :
            gvg'[h].secondary = IF h = g THEN [gvg[g].secondary EXCEPT ![i] = successor]
                                ELSE gvg[h].secondary
  BY SMT, <1>1, PlaceReplaced
<1>4. gvg[g].secondary \in [1..NumSecondary -> Providers]
  BY <1>1 DEF Typed
<1>5. /\ [gvg[g].secondary EXCEPT ![i] = successor] \in [1..NumSecondary -> Providers]
      /\ \A q \in Range([gvg[g].secondary EXCEPT ![i] = successor]) :
            q = successor \/ q \in Range(gvg[g].secondary)
  BY <1>4 DEF Range
<1>6. UNCHANGED <<family, famStat>>
  BY <1>1 DEF ReplaceSecondary
<1>7. DOMAIN stat' = Providers /\ \A q \in Providers : DOMAIN stat'[q] = StatFields
  BY Zenon, <1>1, <1>2 DEF SwapOutAsSecondarySP, CompleteSwapInGVG, Typed
<1>8. Typed'
  BY Zenon, <1>1, <1>2, <1>3, <1>5, <1>6, <1>7 DEF Typed
<1>9. Counts'
  BY SwapsCounted DEF Served
<1>10. Lists'
  BY <1>6 DEF Served, Lists
<1>11. ExitedIsGone'
  BY <1>2, <1>3, <1>5 DEF Served, ExitedIsGone, Registered
<1> QED
  BY <1>8, <1>9, <1>10, <1>11 DEF Served

(* CompleteStorageProviderExit: who is counted nowhere is in no group.     *)
LEMMA ExitServed ==
    ASSUME Paying, Served, Earned', NEW p \in Providers, CompleteStorageProviderExit(p)
    PROVE  Served'
<1>1. UNCHANGED <<family, gvg, stat, famStat>> /\ status' = [status EXCEPT ![p] = "gone"]
  BY DEF CompleteStorageProviderExit, groupVars
<1>2. Fits(Primaries(p)) /\ Fits(PlacesOf(p))
  BY CountsFit DEF Paying
<1>3. Cardinality(Primaries(p)) = 0 /\ Cardinality(PlacesOf(p)) = 0
  BY DEF CompleteStorageProviderExit, StorageProviderExitable, Served, Counts, Counted
<1>4. Primaries(p) = {} /\ PlacesOf(p) = {}
  BY <1>2, <1>3, FS_EmptySet DEF Fits
<1>5. Typed' /\ Lists'
  BY <1>1 DEF Served, Typed, Lists
<1>6. Counts'
  BY <1>1, SamePlaces DEF Served
<1>7. ExitedIsGone'
  <2>1. ASSUME NEW g \in DOMAIN gvg
        PROVE  gvg[g].primary # p /\ \A q \in Range(gvg[g].secondary) : q # p /\ q \in Providers
    <3>1. gvg[g].primary # p
      BY <1>4 DEF Primaries
    <3>2. gvg[g].secondary \in [1..NumSecondary -> Providers]
      BY DEF Served, Typed
    <3>3. ASSUME NEW i \in 1..NumSecondary PROVE gvg[g].secondary[i] # p
      <4>1. <<g, i>> \notin PlacesOf(p)
        BY <1>4
      <4> QED
        BY <4>1 DEF PlacesOf
    <3> QED
      BY Zenon, <3>1, <3>2, <3>3 DEF Range
  <2>2. \A q \in Providers : q # p /\ Registered(q) => Registered(q)'
    BY <1>1 DEF Served, Typed, Registered
  <2>3. \A g \in DOMAIN gvg : gvg[g].primary \in Providers
    BY DEF Served, Typed
  <2> QED
    BY <1>1, <2>1, <2>2, <2>3 DEF Served, ExitedIsGone, Registered
<1> QED
  BY <1>5, <1>6, <1>7 DEF Served

(* The messages about groups keep the counts exact, and touch no           *)
(* reservation.                                                            *)
LEMMA GroupMessagesServed ==
    ASSUME Paying, Served, Apart, Earned', GroupMessages
    PROVE  Served' /\ Apart'
<1>1. Apart'
  <2>1. ASSUME NEW p, NEW f, NEW s, NEW amount, CreateGlobalVirtualGroup(p, f, s, amount)
        PROVE  UNCHANGED swapVars
    BY Zenon, <2>1 DEF CreateGlobalVirtualGroup
  <2>2. ASSUME NEW p, NEW g, NEW amount,
               DeleteGlobalVirtualGroup(p, g) \/ Deposit(p, g, amount) \/ Withdraw(p, g, amount)
        PROVE  UNCHANGED swapVars
    BY Zenon, <2>2 DEF DeleteGlobalVirtualGroup, Deposit, Withdraw
  <2>3. ASSUME NEW k, Settle(k) \/ UpdateParams(k) PROVE UNCHANGED swapVars
    BY Zenon, <2>3 DEF Settle, UpdateParams
  <2>4. UNCHANGED swapVars
    BY Zenon, <2>1, <2>2, <2>3 DEF GroupMessages
  <2> QED
    BY <2>4 DEF swapVars, Apart
<1>2. ASSUME NEW p, NEW g, NEW amount, Deposit(p, g, amount) \/ Withdraw(p, g, amount) PROVE Served'
  <2>1. Remain /\ UNCHANGED <<family, stat, famStat>> /\ DOMAIN gvg' = DOMAIN gvg
    BY <1>2 DEF Deposit, Withdraw, spVars, Remain, Registered, Served, Typed
  <2>2. \A h \in DOMAIN gvg : gvg'[h].primary = gvg[h].primary /\ gvg'[h].secondary = gvg[h].secondary
    BY SMT, <1>2 DEF Deposit, Withdraw, Paying, Agreed, Stores, GvgFields
  <2> QED
    BY <2>1, <2>2, Quiet
<1>3. ASSUME UNCHANGED <<groupVars, spVars>> PROVE Served'
  BY <1>3, Quiet DEF groupVars, spVars, Remain, Registered, Served, Typed
<1>4. ASSUME NEW k \in Keys, Settle(k) PROVE Served'
  BY <1>3, <1>4 DEF Settle
<1>5. ASSUME NEW p \in Prices, UpdateParams(p) PROVE Served'
  BY <1>3, <1>5 DEF UpdateParams
<1> QED
  BY <1>1, <1>2, <1>4, <1>5, CreateServed, DeleteServed DEF GroupMessages

(* The swap messages keep the counts exact, and a reservation never names  *)
(* one provider twice.                                                     *)
LEMMA SwapMessagesServed ==
    ASSUME Paying, Served, Apart, Earned', SwapMessages
    PROVE  Served' /\ Apart'
<1>1. ASSUME NEW p, NEW q, NEW k,
             SwapOut(p, q, k) \/ ReserveSwapIn(p, q, k) \/ CancelSwapOut(p, k) \/ CancelSwapIn(p, k)
      PROVE  Served' /\ Apart'
  <2>1. UNCHANGED <<groupVars, spVars>>
    BY <1>1 DEF SwapOut, ReserveSwapIn, CancelSwapOut, CancelSwapIn
  <2>2. Served'
    BY <2>1, Quiet DEF groupVars, spVars, Remain, Registered, Served, Typed
  <2>3. Apart'
    BY SMT, <1>1 DEF SwapOut, ReserveSwapIn, CancelSwapOut, CancelSwapIn, With, Without, Restrict, Apart
  <2> QED
    BY <2>2, <2>3
<1>2. ASSUME NEW p \in Providers, NEW k \in Keys, CompleteSwapOut(p, k) PROVE Served' /\ Apart'
  <2>1. /\ swapOut[k].sp # p /\ Registered(p) /\ UNCHANGED status
        /\ \/ SwapAsPrimarySP(swapOut[k].sp, p, k[2], FALSE) \/ SwapOutAsSecondarySP(swapOut[k].sp, p, k[2])
    BY Zenon, <1>2 DEF CompleteSwapOut, Apart, spVars
  <2>2. Served'
    BY Zenon, <2>1, PrimaryServed, SecondaryServed
  <2>3. Apart'
    BY <1>2 DEF CompleteSwapOut, Without, Restrict, Apart
  <2> QED
    BY <2>2, <2>3
<1>3. ASSUME NEW p \in Providers, NEW k \in Keys, CompleteSwapIn(p, k) PROVE Served' /\ Apart'
  <2>1. /\ swapIn[k].target # p /\ Registered(p) /\ UNCHANGED status
        /\ \/ SwapAsPrimarySP(swapIn[k].target, p, k[2], TRUE) \/ CompleteSwapInGVG(p, swapIn[k].target, k[2])
    BY Zenon, <1>3 DEF CompleteSwapIn, Apart, spVars
  <2>2. Served'
    BY Zenon, <2>1, PrimaryServed, SecondaryServed
  <2>3. Apart'
    BY <1>3 DEF CompleteSwapIn, Without, Restrict, Apart
  <2> QED
    BY <2>2, <2>3
<1> QED
  BY <1>1, <1>2, <1>3 DEF SwapMessages

(* The exit messages delete a provider only when it serves nothing.        *)
LEMMA ExitMessagesServed ==
    ASSUME Paying, Served, Apart, Earned', ExitMessages
    PROVE  Served' /\ Apart'
<1>1. Apart'
  BY DEF ExitMessages, StorageProviderExit, StorageProviderForcedExit, CompleteStorageProviderExit, swapVars, Apart
<1>2. ASSUME NEW p \in Providers, StorageProviderExit(p) \/ StorageProviderForcedExit(p) PROVE Served'
  <2>1. UNCHANGED groupVars /\ Remain
    BY <1>2 DEF StorageProviderExit, StorageProviderForcedExit, Remain, Registered, Served, Typed
  <2> QED
    BY <2>1, Quiet DEF groupVars
<1> QED
  BY <1>1, <1>2, ExitServed DEF ExitMessages

(* The calls of the sp and storage modules change neither groups' members  *)
(* nor registrations.                                                      *)
LEMMA OtherModulesServed ==
    ASSUME Paying, Served, Apart, Earned', OtherModules
    PROVE  Served' /\ Apart'
<1>1. Apart'
  <2>1. ASSUME NEW p, UpdateSpStatus(p) \/ ForceUpdateMaintenanceRecords(p) PROVE UNCHANGED swapVars
    BY Zenon, <2>1 DEF UpdateSpStatus, ForceUpdateMaintenanceRecords
  <2>2. ASSUME NEW g, NEW h, NEW size,
               \/ SealObjectOnVirtualGroup(g, size) \/ DeleteObjectFromVirtualGroup(g, size)
               \/ RebindingVirtualGroup(g, h, size)
        PROVE  UNCHANGED swapVars
    BY Zenon, <2>2 DEF SealObjectOnVirtualGroup, DeleteObjectFromVirtualGroup, RebindingVirtualGroup
  <2>3. ASSUME NEW k, Earn(k) \/ NextBlock PROVE UNCHANGED swapVars
    BY Zenon, <2>3 DEF Earn, NextBlock
  <2>4. UNCHANGED swapVars
    BY Zenon, <2>1, <2>2, <2>3 DEF OtherModules
  <2> QED
    BY <2>4 DEF swapVars, Apart
<1>2. ASSUME NEW p \in Providers, UpdateSpStatus(p) \/ ForceUpdateMaintenanceRecords(p) PROVE Served'
  <2>1. UNCHANGED groupVars /\ Remain
    BY <1>2 DEF UpdateSpStatus, ForceUpdateMaintenanceRecords, Remain, Registered, Served, Typed
  <2> QED
    BY <2>1, Quiet DEF groupVars
<1>3. ASSUME NEW g, NEW size, SealObjectOnVirtualGroup(g, size) \/ DeleteObjectFromVirtualGroup(g, size)
      PROVE  Served'
  <2>1. Remain /\ UNCHANGED <<family, stat, famStat>> /\ DOMAIN gvg' = DOMAIN gvg
    BY <1>3 DEF SealObjectOnVirtualGroup, DeleteObjectFromVirtualGroup, spVars, Remain, Registered, Served, Typed
  <2>2. \A h \in DOMAIN gvg : gvg'[h].primary = gvg[h].primary /\ gvg'[h].secondary = gvg[h].secondary
    <3>1. CASE SealObjectOnVirtualGroup(g, size)
      BY <3>1 DEF SealObjectOnVirtualGroup, Paying, Agreed, Stores, GvgFields
    <3>2. CASE DeleteObjectFromVirtualGroup(g, size)
      BY <3>2 DEF DeleteObjectFromVirtualGroup, Paying, Agreed, Stores, GvgFields
    <3> QED
      BY <1>3, <3>1, <3>2
  <2> QED
    BY <2>1, <2>2, Quiet
<1>4. ASSUME NEW src, NEW dst, NEW size, RebindingVirtualGroup(src, dst, size) PROVE Served'
  <2>1. Remain /\ UNCHANGED <<family, stat, famStat>> /\ DOMAIN gvg' = DOMAIN gvg
    BY <1>4 DEF RebindingVirtualGroup, spVars, Remain, Registered, Served, Typed
  <2>2. \A h \in DOMAIN gvg : gvg'[h].primary = gvg[h].primary /\ gvg'[h].secondary = gvg[h].secondary
    BY Zenon, <1>4 DEF RebindingVirtualGroup, Paying, Agreed, Stores, GvgFields
  <2> QED
    BY <2>1, <2>2, Quiet
<1>5. ASSUME UNCHANGED <<groupVars, spVars>> PROVE Served'
  BY <1>5, Quiet DEF groupVars, spVars, Remain, Registered, Served, Typed
<1>6. ASSUME NEW k \in Keys, Earn(k) PROVE Served'
  BY <1>5, <1>6 DEF Earn
<1>7. ASSUME NextBlock PROVE Served'
  BY <1>5, <1>7 DEF NextBlock
<1> QED
  BY <1>1, <1>2, <1>3, <1>4, <1>6, <1>7 DEF OtherModules

(* The groups are served by the providers that the statistics name.        *)
ServedInv == Paying /\ Served /\ Apart

(* No provider serves anything at first.                                   *)
LEMMA InitServed == Init => ServedInv
<1> SUFFICES ASSUME Init PROVE ServedInv
  OBVIOUS
<1>1. Paying
  BY InitPaying
<1>2. /\ DOMAIN family = {} /\ DOMAIN gvg = {} /\ DOMAIN swapOut = {} /\ DOMAIN swapIn = {}
      /\ stat = [p \in Providers |-> NoStat] /\ famStat = [p \in Providers |-> <<>>]
      /\ status = [p \in Providers |-> "service"]
  BY SMT DEF Init
<1>3. Typed /\ Apart /\ ExitedIsGone
  BY <1>2 DEF Typed, Apart, ExitedIsGone, NoStat, StatFields
<1>4. Counts
  <2>1. ASSUME NEW p \in Providers PROVE Counted(p)
    <3>1. Primaries(p) = {} /\ PlacesOf(p) = {}
      BY <1>2 DEF Primaries, PlacesOf
    <3>2. stat[p].primary = 0 /\ stat[p].secondary = 0
      BY <1>2 DEF NoStat
    <3> QED
      BY Zenon, <3>1, <3>2, FS_EmptySet DEF Counted
  <2> QED
    BY <2>1 DEF Counts
<1>5. Lists
  <2>1. <<>> \in Seq(Nat) /\ IsInjective(<<>>) /\ Range(<<>>) = {}
    BY SMT DEF IsInjective, Range
  <2> QED
    BY <1>2, <2>1 DEF Lists
<1> QED
  BY <1>1, <1>3, <1>4, <1>5 DEF ServedInv, Served

(* Every step keeps the counts exact and every member of a group           *)
(* registered.                                                             *)
LEMMA NextServed ==
    ASSUME ServedInv, [Next]_vars
    PROVE  ServedInv'
<1>1. Paying'
  BY NextPaying DEF ServedInv
<1>2. CASE UNCHANGED vars
  <2>1. UNCHANGED <<groupVars, spVars, swapVars>>
    BY <1>2 DEF vars
  <2>2. Served'
    BY <2>1, Quiet DEF ServedInv, groupVars, spVars, Remain, Registered, Served, Typed
  <2>3. Apart'
    BY <2>1 DEF ServedInv, swapVars, Apart
  <2> QED
    BY <1>1, <2>2, <2>3 DEF ServedInv
<1>3. Paying /\ Served /\ Apart /\ Earned'
  BY <1>1 DEF ServedInv, Paying
<1>4. CASE GroupMessages
  BY <1>1, <1>3, <1>4, GroupMessagesServed DEF ServedInv
<1>5. CASE SwapMessages
  BY <1>1, <1>3, <1>5, SwapMessagesServed DEF ServedInv
<1>6. CASE ExitMessages
  BY <1>1, <1>3, <1>6, ExitMessagesServed DEF ServedInv
<1>7. CASE OtherModules
  BY <1>1, <1>3, <1>7, OtherModulesServed DEF ServedInv
<1> QED
  BY <1>2, <1>4, <1>5, <1>6, <1>7 DEF Next

(* In every reachable state the counts are exact and every member of a     *)
(* group is registered.                                                    *)
LEMMA AlwaysServed == Spec => []ServedInv
BY InitServed, NextServed, PTL DEF Spec

(* Through any creations, deletions, swaps and exits, the statistics count *)
(* exactly the groups a provider is primary of and the secondary places it *)
(* holds, none of the uint32 counters wrapping around, and its list names  *)
(* exactly its families.                                                   *)
THEOREM StatisticsAreExact == Spec => []StatisticsExact
<1>1. ServedInv => StatisticsExact
  <2> SUFFICES ASSUME ServedInv, NEW p \in Providers
               PROVE  /\ stat[p].primary = Quantify(DOMAIN gvg, LAMBDA g : gvg[g].primary = p)
                      /\ stat[p].secondary = Cardinality(PlacesOf(p))
                      /\ Len(famStat[p]) = Cardinality(Range(famStat[p]))
                      /\ Range(famStat[p]) = {f \in DOMAIN family : family[f].primary = p}
    BY Zenon DEF StatisticsExact
  <2>1. Counted(p)
    BY DEF ServedInv, Served, Counts
  <2>2. /\ famStat[p] \in Seq(Nat) /\ IsInjective(famStat[p])
        /\ Range(famStat[p]) = {f \in DOMAIN family : family[f].primary = p}
    BY DEF ServedInv, Served, Lists
  <2>3. Quantify(DOMAIN gvg, LAMBDA g : gvg[g].primary = p) = Cardinality(Primaries(p))
    BY DEF Quantify, Primaries
  <2>4. Len(famStat[p]) = Cardinality(Range(famStat[p]))
    BY Zenon, <2>2, LengthCounts
  <2> QED
    BY <2>1, <2>2, <2>3, <2>4 DEF Counted
<1> QED
  BY <1>1, AlwaysServed, PTL

(* A provider that has completed its exit serves no group and will serve   *)
(* none, although the exit is decided by its counters alone.               *)
THEOREM ExitIsSafe == Spec => []ExitedIsGone
<1>1. ServedInv => ExitedIsGone
  BY DEF ServedInv, Served
<1> QED
  BY <1>1, AlwaysServed, PTL

-----------------------------------------------------------------------------
(* The deposits.  What is staked on a group, 0 if it does not exist.       *)
Stake(g) == IF g \in DOMAIN gvg THEN gvg[g].deposit ELSE 0

(* The amounts: what Withdraw compares with is at most the deposit.        *)
Staked ==
    /\ price \in Nat
    /\ \A g \in DOMAIN gvg : gvg[g].deposit \in Nat /\ gvg[g].stored \in Nat
    /\ IsFiniteSet(StakedCoins) /\ module = Cardinality(StakedCoins)

(* The coins of one group.                                                 *)
LEMMA PileSize ==
    ASSUME NEW g, NEW n \in Nat
    PROVE  IsFiniteSet({g} \X (1..n)) /\ Cardinality({g} \X (1..n)) = n
<1>1. IsFiniteSet(1..n) /\ Cardinality(1..n) = n
  BY SMT, FS_Interval
<1>2. IsFiniteSet({g}) /\ Cardinality({g}) = 1
  BY Zenon, FS_Singleton
<1> QED
  BY SMT, <1>1, <1>2, FS_Product

(* The stake of one group changes, also by being created or deleted.       *)
LEMMA StakeMoves ==
    ASSUME Staked, NEW g, Stake(g)' \in Nat,
           DOMAIN gvg \cup {g} = DOMAIN gvg' \cup {g},
           \A h \in DOMAIN gvg \ {g} : gvg'[h].deposit = gvg[h].deposit
    PROVE  /\ IsFiniteSet(StakedCoins)' /\ module \in Nat
           /\ Cardinality(StakedCoins)' = module - Stake(g) + Stake(g)'
<1> DEFINE rest == {c \in StakedCoins : c[1] # g}
           before == {g} \X (1..Stake(g))
           after == {g} \X (1..(Stake(g)'))
<1>1. Stake(g) \in Nat
  BY DEF Stake, Staked
<1>2. \A c : c \in StakedCoins <=> \E h \in DOMAIN gvg : c \in {h} \X (1..gvg[h].deposit)
  BY DEF StakedCoins
<1>3. \A c : c \in StakedCoins' <=> \E h \in DOMAIN gvg' : c \in {h} \X (1..gvg'[h].deposit)
  BY DEF StakedCoins
<1>4. StakedCoins = rest \cup before
  BY SMT, <1>2 DEF Stake
<1>5. StakedCoins' = rest \cup after
  <2>1. ASSUME NEW c \in StakedCoins' PROVE c \in rest \cup after
    <3>1. PICK h \in DOMAIN gvg' : c \in {h} \X (1..gvg'[h].deposit)
      BY <1>3
    <3>2. CASE h = g
      BY <3>1, <3>2 DEF Stake
    <3>3. CASE h # g
      <4>1. h \in DOMAIN gvg /\ gvg'[h].deposit = gvg[h].deposit /\ c[1] = h
        BY <3>1, <3>3
      <4> QED
        BY <1>2, <3>1, <3>3, <4>1
    <3> QED
      BY <3>2, <3>3
  <2>2. ASSUME NEW c \in rest PROVE c \in StakedCoins'
    <3>1. PICK h \in DOMAIN gvg : c \in {h} \X (1..gvg[h].deposit)
      BY <1>2
    <3>2. h # g
      BY <3>1
    <3>3. h \in DOMAIN gvg' /\ gvg'[h].deposit = gvg[h].deposit
      BY <3>2
    <3> QED
      BY <1>3, <3>1, <3>3
  <2>3. ASSUME NEW c \in after PROVE c \in StakedCoins'
    BY SMT, <1>3 DEF Stake
  <2> QED
    BY <2>1, <2>2, <2>3
<1>6. rest \cap before = {} /\ rest \cap after = {} /\ rest \subseteq StakedCoins
  OBVIOUS
<1>7. IsFiniteSet(rest) /\ Cardinality(rest) \in Nat
  BY <1>6, FS_Subset, FS_CardinalityType DEF Staked
<1>8. /\ IsFiniteSet(before) /\ Cardinality(before) = Stake(g)
      /\ IsFiniteSet(after) /\ Cardinality(after) = Stake(g)'
  BY Zenon, <1>1, PileSize
<1> HIDE DEF rest, before, after
<1>9. ASSUME NEW pile, IsFiniteSet(pile), Cardinality(pile) \in Nat, rest \cap pile = {}
      PROVE  IsFiniteSet(rest \cup pile) /\ Cardinality(rest \cup pile) = Cardinality(rest) + Cardinality(pile)
  <2>1. /\ IsFiniteSet(rest \cup pile)
        /\ Cardinality(rest \cup pile) = Cardinality(rest) + Cardinality(pile) - Cardinality(rest \cap pile)
    BY Zenon, <1>7, <1>9, FS_Union
  <2>2. Cardinality(rest \cap pile) = 0
    BY Zenon, <1>9, FS_EmptySet
  <2> QED
    BY SMT, <1>7, <1>9, <2>1, <2>2
<1>10. module = Cardinality(rest) + Stake(g)
  BY <1>1, <1>4, <1>6, <1>8, <1>9 DEF Staked
<1>11. IsFiniteSet(StakedCoins)' /\ Cardinality(StakedCoins)' = Cardinality(rest) + Stake(g)'
  BY <1>5, <1>6, <1>8, <1>9
<1> QED
  BY SMT, <1>1, <1>7, <1>10, <1>11

(* A step that leaves every deposit and the module account alone.          *)
LEMMA SameStakes ==
    ASSUME Staked, UNCHANGED module, price' \in Nat, DOMAIN gvg' = DOMAIN gvg,
           \A g \in DOMAIN gvg : gvg'[g].deposit = gvg[g].deposit /\ gvg'[g].stored \in Nat
    PROVE  Staked'
<1>1. StakedCoins' = StakedCoins
  BY DEF StakedCoins
<1> QED
  BY <1>1 DEF Staked

(* CreateGlobalVirtualGroup and DeleteGVG: the whole stake comes or goes.  *)
LEMMA CreateStaked ==
    ASSUME Agreed, Staked, NEW p, NEW f, NEW secondary, NEW amount \in Amounts,
           CreateGlobalVirtualGroup(p, f, secondary, amount)
    PROVE  Staked'
<1>1. amount \in Nat
  BY VirtualGroupAssumption
<1>2. /\ nextGvg \notin DOMAIN gvg /\ DOMAIN gvg' = DOMAIN gvg \cup {nextGvg}
      /\ gvg'[nextGvg].deposit = amount /\ gvg'[nextGvg].stored = 0
      /\ \A g \in DOMAIN gvg : gvg'[g] = gvg[g]
      /\ module' = module + amount /\ price' = price
  BY SMT DEF CreateGlobalVirtualGroup, With, Agreed, Stores
<1>3. Stake(nextGvg) = 0
  BY <1>2 DEF Stake
<1>4. PICK g : g = nextGvg
  OBVIOUS
<1>5. Stake(g)' = amount
  BY <1>2, <1>4 DEF Stake
<1>6. IsFiniteSet(StakedCoins)' /\ module \in Nat /\ Cardinality(StakedCoins)' = module - Stake(g) + Stake(g)'
  BY <1>1, <1>2, <1>4, <1>5, StakeMoves
<1> QED
  BY SMT, <1>1, <1>2, <1>3, <1>4, <1>5, <1>6 DEF Staked

(* DeleteGVG refunds exactly the deposit of the group that it removes.     *)
LEMMA DeleteStaked ==
    ASSUME Agreed, Staked, NEW p, NEW g, DeleteGlobalVirtualGroup(p, g)
    PROVE  Staked'
<1>1. /\ g \in DOMAIN gvg /\ DOMAIN gvg' = DOMAIN gvg \ {g} /\ \A h \in DOMAIN gvg' : gvg'[h] = gvg[h]
      /\ module' = module - gvg[g].deposit /\ price' = price
  BY DEF DeleteGlobalVirtualGroup, HasGvg, Without, Restrict, Refund
<1>2. Stake(g) = gvg[g].deposit /\ Stake(g)' = 0
  BY <1>1 DEF Stake
<1>3. IsFiniteSet(StakedCoins)' /\ module \in Nat /\ Cardinality(StakedCoins)' = module - Stake(g) + Stake(g)'
  BY SMT, <1>1, <1>2, StakeMoves
<1> QED
  BY SMT, <1>1, <1>2, <1>3 DEF Staked

(* Deposit and Withdraw: what is available is never more than the stake.   *)
LEMMA TopUpStaked ==
    ASSUME Agreed, Staked, NEW p, NEW g, NEW amount \in TopUps, Deposit(p, g, amount) \/ Withdraw(p, g, amount)
    PROVE  Staked'
<1>1. amount \in Nat /\ g \in DOMAIN gvg /\ price' = price
  BY VirtualGroupAssumption DEF Deposit, Withdraw, HasGvg
<1>2. gvg[g].deposit \in Nat /\ gvg[g].stored \in Nat /\ price \in Nat /\ DOMAIN gvg[g] = GvgFields
  BY <1>1 DEF Staked, Agreed, Stores
<1>3. PICK d \in {amount, -amount} :
        /\ gvg' = [gvg EXCEPT ![g].deposit = @ + d] /\ module' = module + d /\ gvg[g].deposit + d >= 0
  <2>1. CASE Deposit(p, g, amount)
    BY SMT, <1>1, <1>2, <2>1 DEF Deposit
  <2>2. CASE Withdraw(p, g, amount)
    <3>1. gvg[g].deposit - price * gvg[g].stored >= amount
      BY <2>2 DEF Withdraw, GetAvailableStakingTokens
    <3>2. \A x, y \in Nat : x * y \in Nat
      BY SMT
    <3>3. price * gvg[g].stored \in Nat
      BY <1>2, <3>2
    <3>4. gvg[g].deposit + (-amount) >= 0
      BY SMT, <1>1, <1>2, <3>1, <3>3
    <3>5. gvg' = [gvg EXCEPT ![g].deposit = @ - amount] /\ module' = module - amount
      BY <2>2 DEF Withdraw, Refund
    <3>6. module \in Int
      BY SMT, FS_CardinalityType DEF Staked
    <3> QED
      BY Zenon, <1>1, <1>2, <3>4, <3>5, <3>6
  <2> QED
    BY <2>1, <2>2
<1>4. /\ DOMAIN gvg' = DOMAIN gvg /\ gvg'[g].deposit = gvg[g].deposit + d /\ gvg'[g].stored = gvg[g].stored
      /\ \A h \in DOMAIN gvg \ {g} : gvg'[h] = gvg[h]
  BY <1>1, <1>2, <1>3 DEF GvgFields
<1>5. Stake(g) = gvg[g].deposit /\ Stake(g)' = gvg[g].deposit + d /\ gvg[g].deposit + d \in Nat
  BY SMT, <1>1, <1>2, <1>3, <1>4 DEF Stake
<1>6. IsFiniteSet(StakedCoins)' /\ module \in Nat /\ Cardinality(StakedCoins)' = module - Stake(g) + Stake(g)'
  BY <1>1, <1>4, <1>5, StakeMoves
<1>7. Cardinality(StakedCoins)' = module'
  BY SMT, <1>1, <1>2, <1>3, <1>5, <1>6
<1> QED
  BY <1>1, <1>2, <1>4, <1>5, <1>6, <1>7 DEF Staked

(* Swaps leave the deposits with their groups: SwapAsPrimarySP pays the    *)
(* leaver from the successor's funds.                                      *)
LEMMA SwapStaked ==
    ASSUME Agreed, Staked, UNCHANGED price, NEW leaver, NEW successor, NEW k, NEW isSwapIn,
           \/ SwapAsPrimarySP(leaver, successor, k, isSwapIn)
           \/ HasGvg(k) /\ ReplaceSecondary(leaver, successor, k)
    PROVE  Staked'
<1>1. CASE SwapAsPrimarySP(leaver, successor, k, isSwapIn)
  <2>1. module' = module /\ gvg' = GvgsHandedOver(family[k].gvgs, successor)
    BY Zenon, <1>1 DEF SwapAsPrimarySP
  <2>2. DOMAIN gvg' = DOMAIN gvg /\ \A g \in DOMAIN gvg : gvg'[g].deposit = gvg[g].deposit /\ gvg'[g].stored = gvg[g].stored
    BY <2>1 DEF GvgsHandedOver, Agreed, Stores, GvgFields
  <2> QED
    BY <2>1, <2>2, SameStakes DEF Staked
<1>2. CASE HasGvg(k) /\ ReplaceSecondary(leaver, successor, k)
  <2>1. module' = module /\ \E s : gvg' = [gvg EXCEPT ![k].secondary = s]
    BY Zenon, <1>2 DEF ReplaceSecondary
  <2>2. DOMAIN gvg' = DOMAIN gvg /\ \A g \in DOMAIN gvg : gvg'[g].deposit = gvg[g].deposit /\ gvg'[g].stored = gvg[g].stored
    BY SMT, <2>1 DEF Agreed, Stores, GvgFields
  <2> QED
    BY <2>1, <2>2, SameStakes DEF Staked
<1> QED
  BY <1>1, <1>2

(* Objects come and go: the stored size stays a natural number.            *)
LEMMA ObjectStaked ==
    ASSUME Agreed, Staked, NEW g, NEW h, NEW size \in 0..1,
           \/ SealObjectOnVirtualGroup(g, size) \/ DeleteObjectFromVirtualGroup(g, size)
           \/ RebindingVirtualGroup(g, h, size)
    PROVE  Staked'
<1>1. UNCHANGED <<price, module>> /\ g \in DOMAIN gvg /\ DOMAIN gvg' = DOMAIN gvg
  BY DEF SealObjectOnVirtualGroup, DeleteObjectFromVirtualGroup, RebindingVirtualGroup, HoldsObject, HasGvg, moneyVars
<1>2. ASSUME NEW x \in DOMAIN gvg PROVE gvg'[x].deposit = gvg[x].deposit /\ gvg'[x].stored \in Nat
  <2>1. gvg[x].stored \in Nat /\ DOMAIN gvg[x] = GvgFields
    BY DEF Staked, Agreed, Stores
  <2>2. CASE SealObjectOnVirtualGroup(g, size)
    BY SMT, <2>1, <2>2 DEF SealObjectOnVirtualGroup, GvgFields
  <2>3. CASE DeleteObjectFromVirtualGroup(g, size)
    BY SMT, <2>1, <2>3 DEF DeleteObjectFromVirtualGroup, HoldsObject, GvgFields
  <2>4. CASE RebindingVirtualGroup(g, h, size)
    <3>1. /\ g # h /\ h \in DOMAIN gvg /\ size <= gvg[g].stored
          /\ gvg' = [gvg EXCEPT ![g].stored = @ - size, ![g].charged = @ - 1,
                                ![h].stored = @ + size, ![h].charged = @ + 1]
      BY <2>4 DEF RebindingVirtualGroup, HoldsObject, HasGvg
    <3> QED
      BY SMT, <1>1, <2>1, <3>1 DEF GvgFields
  <2> QED
    BY <2>2, <2>3, <2>4
<1> QED
  BY <1>1, <1>2, SameStakes DEF Staked

(* Every step keeps the module account equal to the deposits on record.    *)
LEMMA NextStaked ==
    ASSUME Agreed, Staked, [Next]_vars
    PROVE  Staked'
<1>1. ASSUME UNCHANGED <<module, gvg>>, price' \in Nat PROVE Staked'
  BY <1>1, SameStakes DEF Staked
<1>2. price \in Nat
  BY DEF Staked
<1>3. CASE GroupMessages
  <2>1. ASSUME NEW k \in Keys, Settle(k) PROVE Staked'
    BY <1>1, <1>2, <2>1 DEF Settle, groupVars
  <2>2. ASSUME NEW p \in Prices, UpdateParams(p) PROVE Staked'
    <3>1. price' \in Nat /\ UNCHANGED <<module, gvg>>
      BY <2>2, VirtualGroupAssumption DEF UpdateParams, groupVars, moneyVars
    <3> QED
      BY <1>1, <3>1
  <2> QED
    BY <1>3, <2>1, <2>2, CreateStaked, DeleteStaked, TopUpStaked DEF GroupMessages
<1>4. CASE SwapMessages
  <2>1. ASSUME NEW p, NEW q, NEW k,
               SwapOut(p, q, k) \/ ReserveSwapIn(p, q, k) \/ CancelSwapOut(p, k) \/ CancelSwapIn(p, k)
        PROVE  Staked'
    BY <1>1, <1>2, <2>1 DEF SwapOut, ReserveSwapIn, CancelSwapOut, CancelSwapIn, groupVars, moneyVars
  <2>2. ASSUME NEW p, NEW k, CompleteSwapOut(p, k) PROVE Staked'
    BY Zenon, <2>2, SwapStaked DEF CompleteSwapOut, SwapOutAsSecondarySP
  <2>3. ASSUME NEW p, NEW k, CompleteSwapIn(p, k) PROVE Staked'
    BY Zenon, <2>3, SwapStaked DEF CompleteSwapIn, CompleteSwapInGVG
  <2> QED
    BY <1>4, <2>1, <2>2, <2>3 DEF SwapMessages
<1>5. CASE ExitMessages
  BY <1>1, <1>2, <1>5 DEF ExitMessages, StorageProviderExit, StorageProviderForcedExit,
     CompleteStorageProviderExit, groupVars, moneyVars
<1>6. CASE OtherModules
  <2>1. ASSUME NEW p, UpdateSpStatus(p) \/ ForceUpdateMaintenanceRecords(p) PROVE Staked'
    BY <1>1, <1>2, <2>1 DEF UpdateSpStatus, ForceUpdateMaintenanceRecords, groupVars, moneyVars
  <2>2. ASSUME NEW k, Earn(k) PROVE Staked'
    BY <1>1, <1>2, <2>2 DEF Earn, groupVars
  <2>3. ASSUME NextBlock PROVE Staked'
    BY <1>1, <1>2, <2>3 DEF NextBlock, groupVars, moneyVars
  <2> QED
    BY <1>6, <2>1, <2>2, <2>3, ObjectStaked DEF OtherModules
<1>7. CASE UNCHANGED vars
  BY <1>1, <1>2, <1>7 DEF vars, groupVars, moneyVars
<1> QED
  BY <1>3, <1>4, <1>5, <1>6, <1>7 DEF Next

(* The module account holds exactly the deposits staked on the groups, and *)
(* no deposit is overdrawn, whatever is staked, withdrawn, swapped or      *)
(* deleted and however the staking price moves.                            *)
THEOREM DepositsAreBacked == Spec => []DepositsBacked
<1> DEFINE Both == Agreed /\ Staked
<1>1. Init => Both
  <2> SUFFICES ASSUME Init PROVE Staked
    BY InitAgreed
  <2>1. DOMAIN gvg = {} /\ module = 0 /\ price \in Nat
    BY SMT, VirtualGroupAssumption DEF Init
  <2>2. StakedCoins = {}
    BY <2>1 DEF StakedCoins
  <2> QED
    BY <2>1, <2>2, FS_EmptySet DEF Staked
<1>2. Both /\ [Next]_vars => Both'
  BY NextAgreed, NextStaked
<1>3. Both => DepositsBacked
  BY SMT DEF Staked, DepositsBacked
<1> HIDE DEF Both
<1> QED
  BY <1>1, <1>2, <1>3, PTL DEF Spec

=============================================================================
