---------------------------- MODULE VirtualGroup ----------------------------
(***************************************************************************)
(* x/virtualgroup: global virtual groups (GVGs), each with a primary and a *)
(* list of secondary storage providers, the families that collect them,    *)
(* the deposits staked on them, the statistics that decide whether a       *)
(* provider may leave, and the two protocols by which one provider takes   *)
(* another's place (swap out, agreed between the two, and swap in, for a   *)
(* provider that is exiting).                                              *)
(*                                                                         *)
(* A message is one action; an error return or a panic inside it reverts   *)
(* the transaction, so either is a guard.  Of x/sp the model keeps what    *)
(* these messages read (a provider's status, its funding account, its      *)
(* deposit) and the x/sp steps that change a status; of x/payment, the     *)
(* balance of each virtual payment address; of x/storage, the stored size. *)
(***************************************************************************)
EXTENDS Integers, Sequences, FiniteSetsExt, Functions

CONSTANTS
    Providers,            \* storage providers, in service at genesis
    MaxGvgs, MaxFamilies, \* bounds: ids handed out
    NumSecondary,         \* secondaries of a group
    SpDeposit,            \* a provider's deposit with x/sp
    InitFunds,            \* balance of each funding account at genesis
    Amounts, TopUps,      \* amounts staked at creation; of later deposits and withdrawals
    Prices,               \* values of GVGStakingPerBytes
    MaxGvgNumPerFamily,   \* parameter MaxGlobalVirtualGroupNumPerFamily
    SpConcurrentExitNum,  \* parameter
    SwapInValidityPeriod, \* parameter
    CounterModulus,       \* 2^32 in the code: statistics are uint32
    MaxTime,              \* bounds: the last block's time,
    MaxSwaps, MaxLapsed,  \* reservations and open maintenance records at one time,
    MaxExits,             \* providers that leave or have left,
    MaxIncome, MaxStored  \* coins users pay in all, objects of a group

GvgIds == 1..MaxGvgs
FamilyIds == 1..MaxFamilies
NoSpecifiedFamilyID == 0

(* Store keys, also the virtual payment addresses: one per family or group. *)
FamilyKey(f) == <<"family", f>>
GvgKey(g) == <<"gvg", g>>
Keys == {FamilyKey(f) : f \in FamilyIds} \cup {GvgKey(g) : g \in GvgIds}

SecondaryLists == {s \in [1..NumSecondary -> Providers] : IsInjective(s)}

ASSUME VirtualGroupAssumption ==
    /\ NumSecondary \in Nat \ {0} /\ Prices \subseteq Nat \ {0} /\ Prices # {}
    /\ MaxGvgs \in Nat /\ CounterModulus \in Nat
    /\ Amounts \subseteq Nat \ {0} /\ TopUps \subseteq Nat \ {0}
    /\ CounterModulus > MaxGvgs * NumSecondary

VARIABLES
    now, price,
    status,      \* a provider's status; "gone" once x/sp has removed it
    lapsed,      \* providers with a maintenance record that was never closed
    funds,       \* balances of the funding accounts
    gov,         \* balance of payment's governance address
    module,      \* balance of the virtualgroup module account
    family, gvg, \* the stores, functions on the ids present
    nextGvg,     \* GVGs are deleted, so their sequence is state of its own
    stat,        \* GVGStatisticsWithinSP
    famStat,     \* GVGFamilyStatisticsWithinSP: lists of family ids
    swapOut, swapIn,  \* SwapOutInfo and SwapInInfo by key
    income       \* balance of the virtual payment addresses

spVars == <<status, lapsed>>
groupVars == <<family, gvg, nextGvg, stat, famStat>>
swapVars == <<swapOut, swapIn>>
moneyVars == <<funds, gov, module, income>>
vars == <<now, price, spVars, moneyVars, groupVars, swapVars>>

-----------------------------------------------------------------------------
(* Reading the state.                                                      *)
Registered(p) == status[p] # "gone"
InService(p) == status[p] = "service"
Available(p) == status[p] \in {"service", "maintenance"}
Exiting(p) == status[p] \in {"graceful", "forced"}
HasGvg(g) == g \in DOMAIN gvg
HasFamily(f) == f \in DOMAIN family

(* How many of a group's secondary places p holds.                         *)
Places(secondary, p) == Quantify(DOMAIN secondary, LAMBDA i : secondary[i] = p)

(* The last of the places p holds, 0 if it holds none.                     *)
LastPlace(secondary, p) ==
    LET places == {i \in DOMAIN secondary : secondary[i] = p} IN
    IF places = {} THEN 0 ELSE Max(places)

(* uint32 arithmetic of the statistics.                                    *)
Add(count, delta) == (count + delta) % CounterModulus

OpenSwaps == Cardinality(DOMAIN swapOut) + Cardinality(DOMAIN swapIn)

(* Store.Set and Store.Delete.                                             *)
With(store, k, x) == [j \in DOMAIN store \cup {k} |-> IF j = k THEN x ELSE store[j]]
Without(store, k) == Restrict(store, DOMAIN store \ {k})

(* DeleteSpecificGVGFamilyStatisticsFromSP: the first entry for f goes.     *)
WithoutFamily(ids, f) ==
    LET found == {i \in DOMAIN ids : ids[i] = f}
        at == Min(found) IN
    IF found = {} THEN ids
    ELSE [i \in 1..(Len(ids) - 1) |-> IF i < at THEN ids[i] ELSE ids[i + 1]]

NoStat == [primary |-> 0, secondary |-> 0, broken |-> 0]

-----------------------------------------------------------------------------
(* Settlement: x/payment pays a virtual address's balance out.             *)
Paid(fs, p, amount) == [fs EXCEPT ![p] = @ + amount]

(* SettleAndDistributeGVGFamily: all of it to one provider.                *)
FamilySettled(fs, f, p) == Paid(fs, p, income[FamilyKey(f)])

(* SettleAndDistributeGVG: equal shares to the secondaries, all of whom    *)
(* must still exist if there is anything to share; the rest stays.         *)
Share(g) == income[GvgKey(g)] \div NumSecondary
CanSettleGVG(g) == Share(g) = 0 \/ \A p \in Range(gvg[g].secondary) : Registered(p)
GVGSettled(fs, g) == [p \in Providers |-> fs[p] + Share(g) * Places(gvg[g].secondary, p)]
GVGRest(g) == income[GvgKey(g)] - Share(g) * NumSecondary

(* Mutant: the balance is paid out but not cleared.                        *)
SettleTwice(k) ==
    /\ \E f \in DOMAIN family :
        /\ k = FamilyKey(f) /\ Registered(family[f].primary)
        /\ funds' = FamilySettled(funds, f, family[f].primary)
    /\ UNCHANGED <<now, price, spVars, gov, module, income, groupVars, swapVars>>

Settle(k) ==
    /\ \/ \E f \in DOMAIN family :
            /\ k = FamilyKey(f) /\ Registered(family[f].primary)
            /\ funds' = FamilySettled(funds, f, family[f].primary)
            /\ income' = [income EXCEPT ![k] = 0]
       \/ \E g \in DOMAIN gvg :
            /\ k = GvgKey(g) /\ CanSettleGVG(g)
            /\ funds' = GVGSettled(funds, g)
            /\ income' = [income EXCEPT ![k] = GVGRest(g)]
    /\ UNCHANGED <<now, price, spVars, gov, module, groupVars, swapVars>>

-----------------------------------------------------------------------------
(* Groups and their deposits.                                              *)

(* The statistics CreateGlobalVirtualGroup writes: read for every provider *)
(* first, then written, primary first; a provider in both roles keeps the  *)
(* last record written.                                                    *)
StatCreated(p, secondary) ==
    [q \in Providers |->
        IF q \in Range(secondary) THEN [stat[q] EXCEPT !.secondary = Add(@, 1)]
        ELSE IF q = p THEN [stat[q] EXCEPT !.primary = Add(@, 1)]
        ELSE stat[q]]

(* What the model relies on a provider to respect and the messages do not  *)
(* check: it creates and deletes groups in its own families only, does not *)
(* name itself as a secondary, and offers to another provider only places  *)
(* it holds (see Holds).                                                   *)
Owns(p, primary) == p = primary

Family(f, p) ==
    IF f = NoSpecifiedFamilyID THEN [primary |-> p, gvgs |-> {}] ELSE family[f]

CreateGlobalVirtualGroup(p, f, secondary, amount) ==
    LET id == IF f = NoSpecifiedFamilyID THEN Cardinality(DOMAIN family) + 1 ELSE f
        fam == Family(f, p) IN
    /\ nextGvg \in GvgIds /\ id \in FamilyIds
    /\ Owns(p, fam.primary) /\ p \notin Range(secondary)
    /\ Available(p) /\ \A q \in Range(secondary) : Available(q)
    /\ \A g \in fam.gvgs : gvg[g].secondary # secondary
    /\ Cardinality(fam.gvgs) <= MaxGvgNumPerFamily
    /\ funds[p] >= amount
    /\ funds' = [funds EXCEPT ![p] = @ - amount]
    /\ module' = module + amount
    /\ gvg' = With(gvg, nextGvg, [family |-> id, primary |-> p, secondary |-> secondary,
                                  stored |-> 0, charged |-> 0, deposit |-> amount])
    /\ family' = With(family, id, [fam EXCEPT !.gvgs = @ \cup {nextGvg}])
    /\ nextGvg' = nextGvg + 1
    /\ stat' = StatCreated(p, secondary)
    /\ famStat' = IF f = NoSpecifiedFamilyID THEN [famStat EXCEPT ![p] = Append(@, id)] ELSE famStat
    /\ UNCHANGED <<now, price, spVars, gov, income, swapVars>>

(* Mutant: the secondaries of a deleted group keep it in their counts.     *)
StatDeletedPrimaryOnly(g) ==
    [stat EXCEPT ![family[gvg[g].family].primary].primary = Add(@, -1)]

(* The statistics DeleteGVG writes: of the family's primary, then of each  *)
(* secondary.                                                              *)
StatDeleted(g) ==
    [q \in Providers |->
        [stat[q] EXCEPT
            !.primary = IF q = family[gvg[g].family].primary THEN Add(@, -1) ELSE @,
            !.secondary = Add(@, -Places(gvg[g].secondary, q))]]

(* SendCoinsFromModuleToAccount, to the funding account of p.              *)
Refund(p, amount) == funds' = Paid(funds, p, amount) /\ module' = module - amount

(* The deposit goes to the provider that asks.  What must be empty is the  *)
(* stored size and the flow to the group's address, not its balance.       *)
DeleteGlobalVirtualGroup(p, g) ==
    /\ HasGvg(g) /\ Registered(p)
    /\ Owns(p, gvg[g].primary)
    /\ gvg[g].stored = 0 /\ gvg[g].charged = 0
    /\ Refund(p, gvg[g].deposit)
    /\ family' = [family EXCEPT ![gvg[g].family].gvgs = @ \ {g}]
    /\ stat' = StatDeleted(g)
    /\ gvg' = Without(gvg, g)
    /\ UNCHANGED <<now, price, spVars, gov, income, nextGvg, famStat, swapVars>>

Deposit(p, g, amount) ==
    /\ HasGvg(g) /\ Registered(p) /\ funds[p] >= amount
    /\ funds' = [funds EXCEPT ![p] = @ - amount]
    /\ module' = module + amount
    /\ gvg' = [gvg EXCEPT ![g].deposit = @ + amount]
    /\ UNCHANGED <<now, price, spVars, gov, income, family, nextGvg, stat, famStat, swapVars>>

GetAvailableStakingTokens(g) == gvg[g].deposit - price * gvg[g].stored

(* Mutant: what is available is not looked at.                             *)
WithdrawUnchecked(p, g, amount) ==
    /\ HasGvg(g) /\ Registered(p) /\ gvg[g].primary = p
    /\ Refund(p, amount)
    /\ gvg' = [gvg EXCEPT ![g].deposit = @ - amount]
    /\ UNCHANGED <<now, price, spVars, gov, income, family, nextGvg, stat, famStat, swapVars>>

(* ValidateBasic refuses the amount 0 that would mean "all".               *)
Withdraw(p, g, amount) ==
    /\ HasGvg(g) /\ Registered(p) /\ gvg[g].primary = p
    /\ GetAvailableStakingTokens(g) >= amount
    /\ Refund(p, amount)
    /\ gvg' = [gvg EXCEPT ![g].deposit = @ - amount]
    /\ UNCHANGED <<now, price, spVars, gov, income, family, nextGvg, stat, famStat, swapVars>>

-----------------------------------------------------------------------------
(* Taking another provider's place.                                        *)

(* Mutant: the groups keep their primary when their family changes hands.  *)
GvgsKept(gvgs, successor) == gvg

(* The groups of a family get its new primary.                             *)
GvgsHandedOver(gvgs, successor) ==
    [g \in DOMAIN gvg |-> IF g \in gvgs THEN [gvg[g] EXCEPT !.primary = successor] ELSE gvg[g]]

(* SwapAsPrimarySP: the successor becomes primary of the whole family and  *)
(* refunds the deposits.  Statistics are read first and written at the     *)
(* end, the leaver's before the successor's.                               *)
SwapAsPrimarySP(leaver, successor, f, isSwapIn) ==
    LET gvgs == family[f].gvgs
        n == Cardinality(gvgs)
        both == Quantify(gvgs, LAMBDA g : successor \in Range(gvg[g].secondary))
        staked == MapThenSumSet(LAMBDA g : gvg[g].deposit, gvgs) IN
    /\ HasFamily(f) /\ family[f].primary = leaver
    /\ \A g \in gvgs : gvg[g].primary = leaver
    /\ isSwapIn \/ both = 0
    /\ funds[successor] >= staked
    /\ funds' = FamilySettled([funds EXCEPT ![successor] = @ - staked, ![leaver] = @ + staked], f, leaver)
    /\ income' = [income EXCEPT ![FamilyKey(f)] = 0]
    /\ family' = [family EXCEPT ![f].primary = successor]
    /\ gvg' = GvgsHandedOver(gvgs, successor)
    /\ stat' = [stat EXCEPT
            ![leaver] = [stat[leaver] EXCEPT !.primary = Add(@, -n)],
            ![successor] = [stat[successor] EXCEPT !.primary = Add(@, n), !.broken = Add(@, both)]]
    /\ famStat' = [famStat EXCEPT
            ![leaver] = WithoutFamily(famStat[leaver], f),
            ![successor] = Append(famStat[successor], f)]
    /\ UNCHANGED <<gov, module, nextGvg>>

(* Mutant: the group is not settled first.                                 *)
ReplaceUnsettled(leaver, successor, g) ==
    LET i == LastPlace(gvg[g].secondary, leaver) IN
    /\ i # 0
    /\ gvg' = [gvg EXCEPT ![g].secondary[i] = successor]
    /\ UNCHANGED <<moneyVars, family, nextGvg, famStat>>

(* A secondary place changes hands: the group is settled, the last place   *)
(* the leaver holds goes to the successor.                                 *)
ReplaceSecondary(leaver, successor, g) ==
    LET i == LastPlace(gvg[g].secondary, leaver) IN
    /\ i # 0
    /\ CanSettleGVG(g)
    /\ funds' = GVGSettled(funds, g)
    /\ income' = [income EXCEPT ![GvgKey(g)] = GVGRest(g)]
    /\ gvg' = [gvg EXCEPT ![g].secondary[i] = successor]
    /\ UNCHANGED <<gov, module, family, nextGvg, famStat>>

SwapOutAsSecondarySP(leaver, successor, g) ==
    /\ HasGvg(g)
    /\ gvg[g].primary # successor /\ successor \notin Range(gvg[g].secondary)
    /\ ReplaceSecondary(leaver, successor, g)
    /\ stat' = [stat EXCEPT ![leaver].secondary = Add(@, -1), ![successor].secondary = Add(@, 1)]

CompleteSwapInGVG(successor, target, g) ==
    /\ HasGvg(g)
    /\ gvg[g].primary # successor
    /\ ReplaceSecondary(target, successor, g)
    /\ stat' = [stat EXCEPT
            ![target] = [stat[target] EXCEPT
                            !.secondary = Add(@, -1),
                            !.broken = IF target = gvg[g].primary THEN Add(@, -1) ELSE @],
            ![successor].secondary = Add(@, 1)]

(* Whether p has the place that key k stands for.                          *)
Holds(p, k) ==
    \/ \E f \in DOMAIN family : k = FamilyKey(f) /\ family[f].primary = p
    \/ \E g \in DOMAIN gvg : k = GvgKey(g) /\ p \in Range(gvg[g].secondary)

(* MsgSwapOut, approved by the successor.  A message naming several groups *)
(* is the sequence of the messages that name one.                          *)
SwapOut(p, successor, k) ==
    /\ Registered(p) /\ InService(successor)
    /\ Holds(p, k) /\ successor # p
    /\ k \notin DOMAIN swapOut /\ OpenSwaps < MaxSwaps
    /\ swapOut' = With(swapOut, k, [sp |-> p, successor |-> successor])
    /\ UNCHANGED <<now, price, spVars, moneyVars, groupVars, swapIn>>

CancelSwapOut(p, k) ==
    /\ Registered(p) /\ k \in DOMAIN swapOut /\ swapOut[k].sp = p
    /\ swapOut' = Without(swapOut, k)
    /\ UNCHANGED <<now, price, spVars, moneyVars, groupVars, swapIn>>

CompleteSwapOut(successor, k) ==
    /\ k \in DOMAIN swapOut /\ swapOut[k].successor = successor
    /\ Registered(successor) /\ Registered(swapOut[k].sp)
    /\ \/ k[1] = "family" /\ SwapAsPrimarySP(swapOut[k].sp, successor, k[2], FALSE)
       \/ k[1] = "gvg" /\ SwapOutAsSecondarySP(swapOut[k].sp, successor, k[2])
    /\ swapOut' = Without(swapOut, k)
    /\ UNCHANGED <<now, price, spVars, swapIn>>

(* Which places may be swapped in: those of an exiting provider, and any   *)
(* secondary place of a group whose primary is also a secondary.           *)
CanSwapIn(successor, target, k) ==
    \/ \E f \in DOMAIN family :
        k = FamilyKey(f) /\ Exiting(target) /\ family[f].primary = target
    \/ \E g \in DOMAIN gvg : LET secondaries == Range(gvg[g].secondary) IN
        /\ k = GvgKey(g)
        /\ gvg[g].primary # successor /\ successor \notin secondaries
        /\ target \in secondaries
        /\ Exiting(target) \/ gvg[g].primary \in secondaries

(* setSwapInInfo: a reservation that has expired gives way to another      *)
(* successor's.                                                            *)
CanReserve(successor, k) ==
    k \in DOMAIN swapIn => now >= swapIn[k].expires /\ swapIn[k].successor # successor

ReserveSwapIn(successor, target, k) ==
    /\ Registered(successor) /\ Registered(target) /\ successor # target
    /\ CanSwapIn(successor, target, k)
    /\ CanReserve(successor, k) /\ (k \in DOMAIN swapIn \/ OpenSwaps < MaxSwaps)
    /\ swapIn' = With(swapIn, k, [successor |-> successor, target |-> target,
                                   expires |-> now + SwapInValidityPeriod])
    /\ UNCHANGED <<now, price, spVars, moneyVars, groupVars, swapOut>>

CancelSwapIn(successor, k) ==
    /\ Registered(successor) /\ k \in DOMAIN swapIn /\ swapIn[k].successor = successor
    /\ swapIn' = Without(swapIn, k)
    /\ UNCHANGED <<now, price, spVars, moneyVars, groupVars, swapOut>>

CompleteSwapIn(successor, k) ==
    /\ k \in DOMAIN swapIn /\ swapIn[k].successor = successor
    /\ Registered(successor) /\ Registered(swapIn[k].target)
    /\ \/ k[1] = "family" /\ SwapAsPrimarySP(swapIn[k].target, successor, k[2], TRUE)
       \/ k[1] = "gvg" /\ CompleteSwapInGVG(successor, swapIn[k].target, k[2])
    /\ swapIn' = Without(swapIn, k)
    /\ UNCHANGED <<now, price, spVars, swapOut>>

-----------------------------------------------------------------------------
(* Leaving.                                                                *)
Leaving == {p \in Providers : Exiting(p)}

(* The limit is only compared when somebody is exiting.                    *)
ExitSlotFree ==
    /\ Leaving = {} \/ Cardinality(Leaving) < SpConcurrentExitNum
    /\ Quantify(Providers, LAMBDA p : ~Available(p)) < MaxExits

StorageProviderExit(p) ==
    /\ InService(p) /\ stat[p].broken = 0 /\ ExitSlotFree
    /\ status' = [status EXCEPT ![p] = "graceful"]
    /\ UNCHANGED <<now, price, lapsed, moneyVars, groupVars, swapVars>>

StorageProviderForcedExit(p) ==
    /\ Registered(p) /\ ExitSlotFree
    /\ status' = [status EXCEPT ![p] = "forced"]
    /\ UNCHANGED <<now, price, lapsed, moneyVars, groupVars, swapVars>>

(* Mutant: only the families are looked at.                                *)
ExitableAsSecondary(p) == stat[p].primary = 0

StorageProviderExitable(p) == stat[p].primary = 0 /\ stat[p].secondary = 0

CompleteStorageProviderExit(p) ==
    /\ Exiting(p) /\ StorageProviderExitable(p)
    /\ IF status[p] = "graceful"
       THEN funds' = Paid(funds, p, SpDeposit) /\ UNCHANGED gov
       ELSE gov' = gov + SpDeposit /\ UNCHANGED funds
    /\ status' = [status EXCEPT ![p] = "gone"]
    /\ UNCHANGED <<now, price, lapsed, module, income, groupVars, swapVars>>

-----------------------------------------------------------------------------
(* Steps of x/sp on a provider's status.  A maintenance record counts as   *)
(* open until a duration other than zero is written to it, so a return     *)
(* within the same second leaves it open.                                  *)
UpdateSpStatus(p) ==
    /\ \/ /\ status[p] = "service" /\ (p \in lapsed \/ Cardinality(lapsed) < MaxLapsed)
          /\ status' = [status EXCEPT ![p] = "maintenance"]
          /\ lapsed' = lapsed \cup {p}
       \/ /\ status[p] = "maintenance"
          /\ status' = [status EXCEPT ![p] = "service"]
          /\ lapsed' \in {lapsed, lapsed \ {p}}
    /\ UNCHANGED <<now, price, moneyVars, groupVars, swapVars>>

(* ForceUpdateMaintenanceRecords, for whatever status is not in service.   *)
ForceUpdateMaintenanceRecords(p) ==
    /\ Registered(p) /\ ~InService(p) /\ p \in lapsed
    /\ status' = [status EXCEPT ![p] = "service"]
    /\ lapsed' = lapsed \ {p}
    /\ UNCHANGED <<now, price, moneyVars, groupVars, swapVars>>

(* Steps of x/storage on a group: an object (of any size, also none) is    *)
(* sealed on it, deleted from it, or moved to another by a migration.      *)
SealObjectOnVirtualGroup(g, size) ==
    /\ HasGvg(g) /\ Registered(gvg[g].primary) /\ gvg[g].charged < MaxStored
    /\ gvg[g].stored + size <= gvg[g].deposit \div price
    /\ gvg' = [gvg EXCEPT ![g].stored = @ + size, ![g].charged = @ + 1]
    /\ UNCHANGED <<now, price, spVars, moneyVars, family, nextGvg, stat, famStat, swapVars>>

(* Whether an object of that size can be among those of the group.         *)
HoldsObject(g, size) ==
    /\ HasGvg(g) /\ gvg[g].charged > 0 /\ size <= gvg[g].stored
    /\ gvg[g].stored - size <= gvg[g].charged - 1

DeleteObjectFromVirtualGroup(g, size) ==
    /\ HoldsObject(g, size)
    /\ gvg' = [gvg EXCEPT ![g].stored = @ - size, ![g].charged = @ - 1]
    /\ UNCHANGED <<now, price, spVars, moneyVars, family, nextGvg, stat, famStat, swapVars>>

RebindingVirtualGroup(src, dst, size) ==
    /\ HoldsObject(src, size) /\ HasGvg(dst) /\ src # dst /\ gvg[dst].charged < MaxStored
    /\ CanSettleGVG(src)
    /\ funds' = GVGSettled(funds, src)
    /\ income' = [income EXCEPT ![GvgKey(src)] = GVGRest(src)]
    /\ gvg' = [gvg EXCEPT ![src].stored = @ - size, ![src].charged = @ - 1,
                          ![dst].stored = @ + size, ![dst].charged = @ + 1]
    /\ UNCHANGED <<now, price, spVars, gov, module, family, nextGvg, stat, famStat, swapVars>>

(* All coins.                                                              *)
Total ==
    SumFunction(funds) + gov + module + SumFunction(income)
        + SpDeposit * Quantify(Providers, Registered)

(* Users pay: a virtual payment address that has a flow earns.             *)
Earn(k) ==
    /\ \/ \E f \in DOMAIN family : k = FamilyKey(f) /\ \E g \in family[f].gvgs : gvg[g].charged > 0
       \/ \E g \in DOMAIN gvg : k = GvgKey(g) /\ gvg[g].charged > 0
    /\ Total < Cardinality(Providers) * (InitFunds + SpDeposit) + MaxIncome
    /\ income' = [income EXCEPT ![k] = @ + 1]
    /\ UNCHANGED <<now, price, spVars, funds, gov, module, groupVars, swapVars>>

UpdateParams(p) ==
    /\ price' = p /\ p # price
    /\ UNCHANGED <<now, spVars, moneyVars, groupVars, swapVars>>

NextBlock ==
    /\ now < MaxTime
    /\ now' = now + 1
    /\ UNCHANGED <<price, spVars, moneyVars, groupVars, swapVars>>

-----------------------------------------------------------------------------
Init ==
    /\ now = 0 /\ price \in Prices
    /\ status = [p \in Providers |-> "service"] /\ lapsed = {}
    /\ funds = [p \in Providers |-> InitFunds] /\ gov = 0 /\ module = 0
    /\ family = <<>> /\ gvg = <<>> /\ nextGvg = 1
    /\ stat = [p \in Providers |-> NoStat] /\ famStat = [p \in Providers |-> <<>>]
    /\ swapOut = <<>> /\ swapIn = <<>>
    /\ income = [k \in Keys |-> 0]

GroupMessages ==
    \/ \E p \in Providers, f \in {NoSpecifiedFamilyID} \cup DOMAIN family,
          secondary \in SecondaryLists, amount \in Amounts :
            CreateGlobalVirtualGroup(p, f, secondary, amount)
    \/ \E p \in Providers, g \in GvgIds : DeleteGlobalVirtualGroup(p, g)
    \/ \E p \in Providers, g \in GvgIds, amount \in TopUps :
            Deposit(p, g, amount) \/ Withdraw(p, g, amount)
    \/ \E k \in Keys : Settle(k)
    \/ \E p \in Prices : UpdateParams(p)

SwapMessages ==
    \E p \in Providers, k \in Keys :
        \/ \E q \in Providers : SwapOut(p, q, k) \/ ReserveSwapIn(p, q, k)
        \/ CancelSwapOut(p, k) \/ CompleteSwapOut(p, k)
        \/ CancelSwapIn(p, k) \/ CompleteSwapIn(p, k)

ExitMessages ==
    \E p \in Providers :
        StorageProviderExit(p) \/ StorageProviderForcedExit(p) \/ CompleteStorageProviderExit(p)

OtherModules ==
    \/ \E p \in Providers : UpdateSpStatus(p) \/ ForceUpdateMaintenanceRecords(p)
    \/ \E g \in GvgIds, size \in 0..1 :
        \/ SealObjectOnVirtualGroup(g, size) \/ DeleteObjectFromVirtualGroup(g, size)
        \/ \E dst \in GvgIds : RebindingVirtualGroup(g, dst, size)
    \/ \E k \in Keys : Earn(k)
    \/ NextBlock

Next == GroupMessages \/ SwapMessages \/ ExitMessages \/ OtherModules

Spec == Init /\ [][Next]_vars

-----------------------------------------------------------------------------
(* The coins staked on the groups, each by its group and its number.       *)
StakedCoins == UNION {{g} \X (1..gvg[g].deposit) : g \in DOMAIN gvg}

(* Every deposit staked on a group is in the module account, nothing else  *)
(* is, and none is overdrawn: the refunds of DeleteGVG and Withdraw, with  *)
(* a staking price that has risen since, and the deposits that             *)
(* SwapAsPrimarySP passes directly between funding accounts keep it so.    *)
DepositsBacked ==
    /\ \A g \in DOMAIN gvg : gvg[g].deposit >= 0
    /\ module = Cardinality(StakedCoins)

(* A group is listed by the family it names and by no other, and has that  *)
(* family's primary, also after either has been swapped: SealObject relies *)
(* on it (x/storage/keeper/keeper.go:940), and SwapAsPrimarySP refuses to  *)
(* work on a family in which it fails.                                     *)
FamiliesAgree ==
    /\ \A f \in DOMAIN family : family[f].gvgs = {g \in DOMAIN gvg : gvg[g].family = f}
    /\ \A g \in DOMAIN gvg : HasFamily(gvg[g].family) /\ gvg[g].primary = family[gvg[g].family].primary

(* The secondary places of provider p, each by its group and its index.    *)
PlacesOf(p) == {pl \in (DOMAIN gvg) \X (1..NumSecondary) : gvg[pl[1]].secondary[pl[2]] = p}

(* primary_count, secondary_count and global_virtual_group_family_ids are  *)
(* what their comments in virtualgroup/types.proto say, whatever creations,*)
(* deletions and swaps have happened.                                      *)
StatisticsExact ==
    \A p \in Providers :
        /\ stat[p].primary = Quantify(DOMAIN gvg, LAMBDA g : gvg[g].primary = p)
        /\ stat[p].secondary = Cardinality(PlacesOf(p))
        /\ Len(famStat[p]) = Cardinality(Range(famStat[p]))
        /\ Range(famStat[p]) = {f \in DOMAIN family : family[f].primary = p}

(* A provider that has completed its exit is in no group (a family that    *)
(* has lost all its groups keeps it as primary): the exit is decided by    *)
(* the counters alone, and x/storage panics on a secondary that does not   *)
(* exist ("should not happen", x/storage/keeper/virtualgroup.go:122).      *)
ExitedIsGone ==
    \A g \in DOMAIN gvg :
        Registered(gvg[g].primary) /\ \A q \in Range(gvg[g].secondary) : Registered(q)

(* No coin is created or lost: messages only move coins between funding    *)
(* accounts, module accounts and virtual payment addresses, and the total  *)
(* grows by what users pay.                                                *)
CoinsConserved == [][Total' = Total \/ \E k \in Keys : Earn(k)]_<<moneyVars, status>>

(* Whoever served is paid: when a family or a secondary place changes      *)
(* hands, what it has earned is settled in the same step, so that none of  *)
(* the leaver's income is left for the successor (a remainder smaller than *)
(* one coin each may stay with the group).                                 *)
SettledBeforeSwap ==
    [][/\ \A f \in DOMAIN family :
            family'[f].primary # family[f].primary => income'[FamilyKey(f)] = 0
       /\ \A g \in DOMAIN gvg \cap DOMAIN gvg' :
            gvg'[g].secondary # gvg[g].secondary => income'[GvgKey(g)] < NumSecondary]_vars

(* break_redundancy_reqmt_gvg_count is "the number of gvg that sp serves   *)
(* as sp and secondary sp" (proto/moca/virtualgroup/types.proto:70).       *)
BreakRedundancyExact ==
    \A p \in Providers :
        stat[p].broken = Quantify(DOMAIN gvg, LAMBDA g : gvg[g].primary = p /\ p \in Range(gvg[g].secondary))

(* "a successor sp which need to swapIn a GVG as secondary must be unique  *)
(* to all other SP" (proto/moca/virtualgroup/types.proto:74): no provider  *)
(* holds two secondary places of one group.                                *)
SecondariesDistinct == \A g \in DOMAIN gvg : IsInjective(gvg[g].secondary)
=============================================================================
