------------------------------ MODULE Storage ------------------------------
(***************************************************************************)
(* x/storage: buckets, objects and what their payment accounts owe.        *)
(*                                                                         *)
(* Every message handler is one action.  The EndBlocker deletes what the   *)
(* storage providers have discontinued, at most DeletionMax things a block;*)
(* it is broken into one step per thing deleted, and no handler runs       *)
(* between those steps (phase).                                            *)
(*                                                                         *)
(* x/payment is what the keeper uses of it: per account, the outflow rates *)
(* to each receiver and the locked balance.  Checks that can only refuse a *)
(* message (permissions, signatures, provider status, balances, windows)   *)
(* are left out: the model takes every step the code may take, and more.   *)
(* One account owns every bucket; payment accounts may be somebody else's. *)
(***************************************************************************)
EXTENDS Integers, Sequences, FiniteSetsExt, Functions, TLC

CONSTANTS
    BucketNames, ObjectNames,   \* names, numbered in the store's order
    Accounts, OwnAccounts,      \* payment accounts; those of the bucket owner
    Families,                   \* family -> the sequence of its GVGs
    Mappings,                   \* GVG mappings a migration may bring
    CopyTargets,                \* names CopyObject may be given as destination
    Sizes, Quotas, ConfirmPeriods,
    FirstTariff, Tariffs,       \* pairs of a global price and a MinChargeSize
    Limits,                     \* pairs of a payment account and a flow rate limit
    SecondaryNum, PrimaryUnit, SecondaryUnit, ReadUnit, TaxUnit,
    ReserveTime, DeletionMax,
    MaxTime, MaxBuckets, MaxObjects, MaxLVGId   \* bounds of the instance

ASSUME DeletionAssumption == DeletionMax \in Nat \ {0}

VARIABLES
    now, priceLog, sizeLog,     \* clock; global price and MinChargeSize by time
    bucketByName, bucket, internal, lockedCount, migration,
    objectByName, object, shadow, saved,
    objectQueue, bucketQueue,   \* ids to delete, by time
    limit, limited,             \* flow rate limits; names of limited buckets
    flow, lock,                 \* x/payment: outflows and locked balances
    stored,                     \* StoredSize of the GVGs
    nextBucket, nextObject,
    phase, budget, deleting, halted

clockVars == <<now, priceLog, sizeLog>>
bucketVars == <<bucketByName, bucket, internal, lockedCount, migration, nextBucket>>
objectVars == <<objectByName, object, shadow, saved, nextObject>>
queueVars == <<objectQueue, bucketQueue>>
limitVars == <<limit, limited>>
moneyVars == <<flow, lock, stored>>
blockVars == <<phase, budget, deleting, halted>>
vars == <<clockVars, bucketVars, objectVars, queueVars, limitVars, moneyVars, blockVars>>

Without(store, k) == Restrict(store, DOMAIN store \ {k})
With(store, k, x) == (k :> x) @@ store
Append1(queue, t, id) ==
    With(queue, t, IF t \in DOMAIN queue THEN Append(queue[t], id) ELSE <<id>>)

-----------------------------------------------------------------------------
(* Prices and bills.                                                       *)

(* The record in force at t: the last one written before t.  What a block  *)
(* writes at its own time is never seen by a reader at that time.          *)
InForce(log, t) ==
    log[CHOOSE u \in DOMAIN log : u < t /\ \A v \in DOMAIN log : v < t => v <= u]

Gvgs == UNION {Range(Families[f]) : f \in DOMAIN Families}
FamilyAddr(f) == <<"family", f>>
GvgAddr(g) == <<"gvg", g>>
TaxPool == <<"tax", 0>>
Receivers == {FamilyAddr(f) : f \in DOMAIN Families} \cup {GvgAddr(g) : g \in Gvgs} \cup {TaxPool}
NoFlow == [r \in Receivers |-> 0]

(* A rate for the family, one for the group, and the tax on both.          *)
Split(f, g, primary, secondary) ==
    [r \in Receivers |->
        CASE r = FamilyAddr(f) -> primary
          [] r = GvgAddr(g) -> secondary
          [] r = TaxPool -> (primary + secondary) \div TaxUnit
          [] OTHER -> 0]

Added(x, y) == [r \in Receivers |-> x[r] + y[r]]

(* The store fee of one local virtual group: every rate is truncated.      *)
calculateLVGStoreBill(t, f, lvg) ==
    LET cost == InForce(priceLog, t) * lvg.charge
    IN Split(f, lvg.gvg, cost \div PrimaryUnit, (cost \div SecondaryUnit) * SecondaryNum)

GetBucketReadBill(b, i) ==
    Split(b.family, 0, (InForce(priceLog, i.priceTime) * b.quota) \div ReadUnit, 0)

GetBucketReadStoreBill(b, i) ==
    LET upTo[k \in 0..Len(i.lvgs)] ==
            IF k = 0 THEN GetBucketReadBill(b, i)
            ELSE Added(upTo[k - 1], calculateLVGStoreBill(i.priceTime, b.family, i.lvgs[k]))
    IN IF i.total = 0 /\ b.quota = 0 THEN NoFlow ELSE upTo[Len(i.lvgs)]

getTotalOutFlowRate(bill) == SumFunction(bill)

GetObjectChargeSize(size, t) ==
    LET min == InForce(sizeLog, t) IN IF size < min THEN min ELSE size

(* The rate an object will cost, and the balance locked until it is sealed.*)
LockRate(size, t) ==
    LET cost == InForce(priceLog, t) * GetObjectChargeSize(size, t)
        shares == cost \div PrimaryUnit + (cost \div SecondaryUnit) * SecondaryNum
    IN shares + shares \div TaxUnit
GetObjectLockFee(size, t) == LockRate(size, t) * ReserveTime

GetLatestUpdatedTime(o) == IF o.updatedAt # 0 THEN o.updatedAt ELSE o.createAt
IsPriceChanged(t) == InForce(priceLog, t) # InForce(priceLog, now)

-----------------------------------------------------------------------------
(* Flow rate limits.                                                       *)
IsBucketRateLimited(n) == n \in limited

isBucketFlowRateUnderLimitWithRate(a, n, rate) ==
    \/ IF <<a, n>> \in DOMAIN limit THEN rate <= limit[<<a, n>>] ELSE a \in OwnAccounts
    \/ rate = 0

isBucketFlowRateUnderLimit(b, i) ==
    isBucketFlowRateUnderLimitWithRate(b.account, b.name,
                                       getTotalOutFlowRate(GetBucketReadStoreBill(b, i)))

-----------------------------------------------------------------------------
(* A handler works on the books of one bucket: its two records, and the    *)
(* payment and group state they are reflected in.                          *)
Books(id) == [b |-> bucket[id], i |-> internal[id], flow |-> flow, lock |-> lock, stored |-> stored]

GetMaxLVGID(i) == IF i.lvgs = <<>> THEN 0 ELSE i.lvgs[Len(i.lvgs)].id

Save(id, w) ==
    /\ GetMaxLVGID(w.i) <= MaxLVGId   \* bound
    /\ bucket' = [bucket EXCEPT ![id] = w.b]
    /\ internal' = [internal EXCEPT ![id] = w.i]
    /\ flow' = w.flow /\ lock' = w.lock /\ stored' = w.stored

(* ApplyUserFlowsList: a's flows change from one bill to another.          *)
Rebilled(fl, a, old, new) == [fl EXCEPT ![a] = [r \in Receivers |-> @[r] - old[r] + new[r]]]

HasLVG(i, id) == \E k \in DOMAIN i.lvgs : i.lvgs[k].id = id
LVGIndex(i, id) == CHOOSE k \in DOMAIN i.lvgs : i.lvgs[k].id = id

AddCharge(i, id, d) ==
    [i EXCEPT !.total = @ + d, !.lvgs[LVGIndex(i, id)].charge = @ + d]

(* The bill of one local group moves; a limited bucket is not billed.      *)
ChargeViaObjectChange(w, id, d) ==
    LET i == AddCharge(w.i, id, d)
        Bill(x) == calculateLVGStoreBill(x.priceTime, w.b.family, x.lvgs[LVGIndex(x, id)])
    IN [w EXCEPT !.i = i,
                 !.flow = IF IsBucketRateLimited(w.b.name) THEN @
                          ELSE Rebilled(@, w.b.account, Bill(w.i), Bill(i))]

(* Mutant: the old bill is computed at the current price.                  *)
RepricedBothWays(w, b, i) ==
    LET old == IF IsBucketRateLimited(w.b.name) THEN NoFlow
               ELSE GetBucketReadStoreBill(w.b, [w.i EXCEPT !.priceTime = now])
        repriced == [i EXCEPT !.priceTime = now]
    IN [w EXCEPT !.b = b, !.i = repriced,
                 !.flow = Rebilled(Rebilled(@, w.b.account, old, NoFlow), b.account, NoFlow,
                                   GetBucketReadStoreBill(b, repriced))]

(* The whole bill is replaced by one at the current price.                 *)
ChargeViaBucketChange(w, b, i) ==
    LET repriced == [i EXCEPT !.priceTime = now]
        old == IF IsBucketRateLimited(w.b.name) THEN NoFlow ELSE GetBucketReadStoreBill(w.b, w.i)
    IN [w EXCEPT !.b = b, !.i = repriced,
                 !.flow = Rebilled(Rebilled(@, w.b.account, old, NoFlow), b.account, NoFlow,
                                   GetBucketReadStoreBill(b, repriced))]

(* Mutant: the new bill is not compared with the limit.                    *)
MayChargeAnything(b, w) == IsBucketRateLimited(b.name) => b.account # w.b.account

(* What both refuse unless the caller is the EndBlocker: a bucket that is  *)
(* limited and keeps its account, and a new bill above the limit.          *)
MayCharge(b, w) ==
    /\ IsBucketRateLimited(b.name) => b.account # w.b.account
    /\ isBucketFlowRateUnderLimit(w.b, w.i)

ChargeObjectStoreFee(w, o) ==
    LET d == GetObjectChargeSize(o.size, GetLatestUpdatedTime(o))
    IN IF IsPriceChanged(w.i.priceTime)
       THEN ChargeViaBucketChange(w, w.b, AddCharge(w.i, o.lvg, d))
       ELSE ChargeViaObjectChange(w, o.lvg, d)

(* Mutant: the size charged is looked up at the creation of the object,    *)
(* also when its content has been updated since.                           *)
UnChargeAsCreated(w, o) ==
    ChargeViaObjectChange(w, o.lvg, -GetObjectChargeSize(o.size, o.createAt))

UnChargeObjectStoreFee(w, o) ==
    ChargeViaObjectChange(w, o.lvg, -GetObjectChargeSize(o.size, GetLatestUpdatedTime(o)))

(* Mutant: the fee unlocked is the one of today.                           *)
UnlockAtCurrentPrice(w, size, t) == [w EXCEPT !.lock[w.b.account] = @ - GetObjectLockFee(size, now)]

UnlockStoreFee(w, size, t) == [w EXCEPT !.lock[w.b.account] = @ - GetObjectLockFee(size, t)]
UnlockObjectStoreFee(w, o) == UnlockStoreFee(w, o.size, GetLatestUpdatedTime(o))
UnlockShadowObjectStoreFee(w, s) == UnlockStoreFee(w, s.size, s.updatedAt)

(* lockObjectStoreFee.  A bucket with a limit, or on somebody else's       *)
(* account, must have room for the object in a bill at the price of t.     *)
MayLock(w, size, t) ==
    \/ <<w.b.account, w.b.name>> \notin DOMAIN limit /\ w.b.account \in OwnAccounts
    \/ isBucketFlowRateUnderLimitWithRate(w.b.account, w.b.name,
          getTotalOutFlowRate(GetBucketReadStoreBill(w.b, [w.i EXCEPT !.priceTime = t]))
            + LockRate(size, t))
lockObjectStoreFee(w, size, t) == [w EXCEPT !.lock[w.b.account] = @ + GetObjectLockFee(size, t)]

-----------------------------------------------------------------------------
(* Local and global virtual groups.                                        *)
(* The bucket's local group on GVG g, appended if there is none.           *)
HasLVGOn(i, g) == \E k \in DOMAIN i.lvgs : i.lvgs[k].gvg = g
BoundTo(i, g) ==
    IF HasLVGOn(i, g) THEN i
    ELSE [i EXCEPT !.lvgs = Append(@, [id |-> GetMaxLVGID(i) + 1, gvg |-> g, stored |-> 0, charge |-> 0])]
LVGOn(i, g) == Min({k \in DOMAIN i.lvgs : i.lvgs[k].gvg = g})

(* The object as sealed on g, and the books after it.                      *)
SealedOn(w, g, o) ==
    LET i == BoundTo(w.i, g)
    IN [o EXCEPT !.lvg = i.lvgs[LVGOn(i, g)].id, !.status = "sealed"]

SealObjectOnVirtualGroup(w, g, o) ==
    LET i == BoundTo(w.i, g)
        held == [w EXCEPT !.i = [i EXCEPT !.lvgs[LVGOn(i, g)].stored = @ + o.size],
                          !.stored[g] = @ + o.size]
    IN ChargeObjectStoreFee(IF o.size = 0 THEN held ELSE UnlockObjectStoreFee(held, o),
                            SealedOn(w, g, o))

(* DeleteObjectFromVirtualGroup: a local group nothing is charged for is   *)
(* removed, and panics if it still stores something.                       *)
DeleteObjectFromVirtualGroup(w, o) ==
    LET k == LVGIndex(w.i, o.lvg)
        i == [w.i EXCEPT !.lvgs[k].stored = @ - o.size]
    IN [w EXCEPT !.stored[w.i.lvgs[k].gvg] = @ - o.size,
                 !.i = IF i.lvgs[k].charge # 0 THEN i
                       ELSE [i EXCEPT !.lvgs = SubSeq(@, 1, k - 1) \o SubSeq(@, k + 1, Len(@))]]
CanLeaveGroup(w, o) ==
    /\ HasLVG(w.i, o.lvg)
    /\ LET l == w.i.lvgs[LVGIndex(w.i, o.lvg)] IN l.charge = 0 => l.stored = o.size

(* RebindingVirtualGroup, without its charge: each local group moves to    *)
(* the GVG its own is mapped to.  Source and target GVG are two copies read*)
(* from the store, and the target is written last: a GVG mapped to itself  *)
(* only gains.                                                             *)
Rebound(w, mapping) ==
    LET Moved(k, g) == LET l == w.i.lvgs[k]
                       IN CASE mapping[l.gvg] = g -> l.stored
                            [] l.gvg = g /\ mapping[l.gvg] # g -> -l.stored
                            [] OTHER -> 0
    IN [w EXCEPT
          !.i.lvgs = [k \in DOMAIN @ |-> [@[k] EXCEPT !.gvg = mapping[@]]],
          !.stored = [g \in Gvgs |-> @[g] + MapThenSumSet(LAMBDA k : Moved(k, g), DOMAIN w.i.lvgs)]]

-----------------------------------------------------------------------------
(* Buckets.                                                                *)
HasBucket(n) == n \in DOMAIN bucketByName
IdOf(n) == bucketByName[n]
InfoOf(n) == bucket[IdOf(n)]
NamesIn(n) == {x \in ObjectNames : <<n, x>> \in DOMAIN objectByName}
Locked(id) == IF id \in DOMAIN lockedCount THEN lockedCount[id] ELSE 0
IncreaseLockedObjectCount(id) == With(lockedCount, id, Locked(id) + 1)
DecreaseLockedObjectCount(id) == With(lockedCount, id, IF Locked(id) > 0 THEN Locked(id) - 1 ELSE 0)

CreateBucket(n, a, q, f) ==
    LET b == [name |-> n, status |-> "created", account |-> a, quota |-> q, family |-> f]
        i == [priceTime |-> now, total |-> 0, lvgs |-> <<>>]
    IN /\ ~HasBucket(n) /\ nextBucket <= MaxBuckets
       /\ q # 0 => isBucketFlowRateUnderLimit(b, i)
       /\ flow' = Rebilled(flow, a, NoFlow, GetBucketReadBill(b, i))
       /\ bucketByName' = With(bucketByName, n, nextBucket)
       /\ bucket' = With(bucket, nextBucket, b)
       /\ internal' = With(internal, nextBucket, i)
       /\ nextBucket' = nextBucket + 1
       /\ UNCHANGED <<clockVars, objectVars, queueVars, limitVars, blockVars,
                      lockedCount, migration, lock, stored>>

(* UnChargeBucketReadFee and doDeleteBucket.                               *)
DropBucket(n) ==
    LET id == IdOf(n)
    IN /\ flow' = IF IsBucketRateLimited(n) THEN flow
                  ELSE Rebilled(flow, InfoOf(n).account, GetBucketReadBill(InfoOf(n), internal[id]), NoFlow)
       /\ bucketByName' = Without(bucketByName, n)
       /\ bucket' = Without(bucket, id)
       /\ internal' = Without(internal, id)
       /\ migration' = migration \ {id}
       /\ lockedCount' = Without(lockedCount, id)
       /\ limited' = limited \ {n}
       /\ UNCHANGED <<nextBucket, limit, lock, stored>>

DeleteBucket(n) ==
    /\ HasBucket(n) /\ NamesIn(n) = {}
    /\ \A k \in DOMAIN internal[IdOf(n)].lvgs :
          LET l == internal[IdOf(n)].lvgs[k] IN l.stored = 0 /\ l.charge = 0
    /\ internal[IdOf(n)].total = 0
    /\ DropBucket(n)
    /\ UNCHANGED <<clockVars, objectVars, queueVars, blockVars>>

(* UpdateBucketInfo: a new account or a new quota, not both.  The account  *)
(* may not change while something is locked on the old one.                *)
UpdateBucketInfo(n, a, q) ==
    LET w == Books(IdOf(n))
        changed == ChargeViaBucketChange(w, [w.b EXCEPT !.account = a, !.quota = q], w.i)
    IN /\ HasBucket(n)
       /\ w.b.account = a \/ w.b.quota = q
       /\ w.b.account # a => Locked(IdOf(n)) = 0
       /\ MayCharge(w.b, changed)
       /\ Save(IdOf(n), changed)
       /\ limited' = limited \ {n}
       /\ UNCHANGED <<clockVars, objectVars, queueVars, blockVars, bucketByName, lockedCount,
                      migration, nextBucket, limit>>

(* SetBucketFlowRateLimit, by the owner of payment account a.  A limited   *)
(* bucket resumes when its bill at the current price fits the new limit; a *)
(* bucket whose bill exceeds it is uncharged and limited.                  *)
SetBucketFlowRateLimit(a, n, x) ==
    LET inUse == HasBucket(n) /\ InfoOf(n).account = a
        w == Books(IdOf(n))
        known == <<a, n>> \in DOMAIN limit
        bill == GetBucketReadStoreBill(w.b, w.i)
        repriced == [w.i EXCEPT !.priceTime = now]
        resumed == GetBucketReadStoreBill(w.b, repriced)
        same == known /\ limit[<<a, n>>] = x
    IN /\ \/ /\ inUse => same
             /\ UNCHANGED <<flow, internal, limited>>
          \/ /\ inUse /\ ~same /\ known /\ IsBucketRateLimited(n)
             /\ IF getTotalOutFlowRate(resumed) <= x
                THEN /\ flow' = Rebilled(flow, a, NoFlow, resumed)
                     /\ internal' = [internal EXCEPT ![IdOf(n)] = repriced]
                     /\ limited' = limited \ {n}
                ELSE UNCHANGED <<flow, internal, limited>>
          \/ /\ inUse /\ ~same /\ ~(known /\ IsBucketRateLimited(n))
             /\ IF getTotalOutFlowRate(bill) > x
                THEN flow' = Rebilled(flow, a, bill, NoFlow) /\ limited' = limited \cup {n}
                ELSE UNCHANGED <<flow, limited>>
             /\ UNCHANGED internal
       /\ limit' = With(limit, <<a, n>>, x)
       /\ UNCHANGED <<clockVars, objectVars, queueVars, blockVars, bucketByName, bucket,
                      lockedCount, migration, nextBucket, lock, stored>>

-----------------------------------------------------------------------------
(* Migration to another provider's family.                                 *)
SetStatus(n, st) == bucket' = [bucket EXCEPT ![IdOf(n)].status = st]

(* MigrateBucket.  It panics if the bucket already has a migration record. *)
MigrateBucket(n) ==
    /\ HasBucket(n) /\ InfoOf(n).status = "created" /\ ~IsBucketRateLimited(n)
    /\ IdOf(n) \notin migration
    /\ migration' = migration \cup {IdOf(n)}
    /\ SetStatus(n, "migrating")
    /\ UNCHANGED <<clockVars, objectVars, queueVars, limitVars, moneyVars, blockVars,
                   bucketByName, internal, lockedCount, nextBucket>>

(* Mutant: the record of the migration is not deleted.                     *)
CancelKeepsRecord(n) ==
    /\ HasBucket(n) /\ InfoOf(n).status = "migrating" /\ IdOf(n) \in migration
    /\ SetStatus(n, "created")
    /\ UNCHANGED <<clockVars, objectVars, queueVars, limitVars, moneyVars, blockVars,
                   bucketByName, internal, lockedCount, nextBucket, migration>>

(* CancelBucketMigration by the owner, RejectBucketMigration by the        *)
(* destination provider.                                                   *)
CancelBucketMigration(n) ==
    /\ HasBucket(n) /\ InfoOf(n).status = "migrating" /\ IdOf(n) \in migration
    /\ migration' = migration \ {IdOf(n)}
    /\ SetStatus(n, "created")
    /\ UNCHANGED <<clockVars, objectVars, queueVars, limitVars, moneyVars, blockVars,
                   bucketByName, internal, lockedCount, nextBucket>>

(* CompleteMigrateBucket: the bill is withdrawn, the bucket moves to family *)
(* f and its local groups to the mapped GVGs, and is billed anew.          *)
CompleteMigrateBucket(n, f, mapping) ==
    LET w == Books(IdOf(n))
        bare == [w EXCEPT !.b.family = f, !.b.status = "created", !.i.priceTime = now,
                          !.flow = Rebilled(@, w.b.account, GetBucketReadStoreBill(w.b, w.i), NoFlow)]
        moved == Rebound(bare, mapping)
    IN /\ HasBucket(n) /\ w.b.status = "migrating" /\ IdOf(n) \in migration
       /\ \A k \in DOMAIN w.i.lvgs : w.i.lvgs[k].gvg \in DOMAIN mapping
       /\ ~IsBucketRateLimited(n)
       /\ isBucketFlowRateUnderLimit(moved.b, moved.i)
       /\ Save(IdOf(n), [moved EXCEPT !.flow =
                Rebilled(@, w.b.account, NoFlow, GetBucketReadStoreBill(moved.b, moved.i))])
       /\ migration' = migration \ {IdOf(n)}
       /\ UNCHANGED <<clockVars, objectVars, queueVars, limitVars, blockVars,
                      bucketByName, lockedCount, nextBucket>>

-----------------------------------------------------------------------------
(* Objects.  k is <<bucket name, object name>>.                            *)
HasObject(k) == k \in DOMAIN objectByName
ObjectAt(k) == object[objectByName[k]]
BucketOf(k) == IdOf(k[1])

(* CreateObject and CopyObject: an empty object is sealed at once, on the  *)
(* first GVG of the family; for another its fee is locked.  Whether the    *)
(* name is free is for the caller to check.                                *)
NewObject(k, size) ==
    LET o == [bucket |-> k[1], name |-> k[2], size |-> size, status |-> "created", createAt |-> now,
              updatedAt |-> 0, updating |-> FALSE, lvg |-> 0]
        w == Books(BucketOf(k))
        family == Families[w.b.family]
    IN /\ HasBucket(k[1]) /\ w.b.status = "created" /\ nextObject <= MaxObjects
       /\ IF size = 0
          THEN LET done == SealObjectOnVirtualGroup(w, family[1], o)
               IN /\ MayCharge(w.b, done)
                  /\ Save(BucketOf(k), done)
                  /\ object' = With(object, nextObject, SealedOn(w, family[1], o))
                  /\ UNCHANGED lockedCount
          ELSE /\ MayLock(w, size, now)
               /\ Save(BucketOf(k), lockObjectStoreFee(w, size, now))
               /\ object' = With(object, nextObject, o)
               /\ lockedCount' = IncreaseLockedObjectCount(BucketOf(k))
       /\ objectByName' = With(objectByName, k, nextObject)
       /\ nextObject' = nextObject + 1
       /\ UNCHANGED <<clockVars, queueVars, limitVars, blockVars, bucketByName, migration,
                      nextBucket, shadow, saved>>

CreateObject(k, size) == ~HasObject(k) /\ NewObject(k, size)

(* CopyObject does not look whether the destination exists: what keeps the *)
(* name free is CopyTargets.                                               *)
CopyObject(src, dst) ==
    /\ HasObject(src) /\ ~ObjectAt(src).updating
    /\ CopyTargets = "any" \/ ~HasObject(dst)
    /\ NewObject(dst, ObjectAt(src).size)

(* SealObject of a new object, or of the new content of an updated one.    *)
SealObject(k, g) ==
    LET o == ObjectAt(k)
        w == Books(BucketOf(k))
        uncharged == UnChargeObjectStoreFee(w, o)
        new == [o EXCEPT !.size = shadow[k].size, !.updatedAt = shadow[k].updatedAt, !.updating = FALSE]
        before == IF o.updating THEN DeleteObjectFromVirtualGroup(uncharged, o) ELSE w
        content == IF o.updating THEN new ELSE o
        done == SealObjectOnVirtualGroup(before, g, content)
    IN /\ HasObject(k) /\ HasBucket(k[1])
       /\ g \in Range(Families[w.b.family])
       /\ \/ o.status = "created" /\ ~o.updating
          \/ /\ o.status = "sealed" /\ o.updating
             /\ MayCharge(w.b, uncharged) /\ CanLeaveGroup(uncharged, o)
       /\ MayCharge(w.b, done)
       /\ Save(BucketOf(k), done)
       /\ object' = [object EXCEPT ![objectByName[k]] = SealedOn(before, g, content)]
       /\ shadow' = IF o.updating THEN Without(shadow, k) ELSE shadow
       /\ lockedCount' = DecreaseLockedObjectCount(BucketOf(k))
       /\ UNCHANGED <<clockVars, queueVars, limitVars, blockVars, bucketByName, migration,
                      nextBucket, objectByName, saved, nextObject>>

(* UpdateObjectContent: empty content is sealed at once; other content     *)
(* waits in a shadow object, its fee locked, until sealed or rejected.     *)
UpdateObjectContent(k, size) ==
    LET o == ObjectAt(k)
        w == Books(BucketOf(k))
        uncharged == UnChargeObjectStoreFee(w, o)
        before == DeleteObjectFromVirtualGroup(uncharged, o)
        new == [o EXCEPT !.size = 0, !.updatedAt = now]
        g == Families[w.b.family][1]
        done == SealObjectOnVirtualGroup(before, g, new)
    IN /\ HasObject(k) /\ HasBucket(k[1]) /\ w.b.status = "created"
       /\ o.status = "sealed" /\ ~o.updating
       /\ IF size = 0
          THEN /\ MayCharge(w.b, uncharged) /\ CanLeaveGroup(uncharged, o) /\ MayCharge(w.b, done)
               /\ Save(BucketOf(k), done)
               /\ object' = [object EXCEPT ![objectByName[k]] = SealedOn(before, g, new)]
               /\ UNCHANGED <<shadow, lockedCount>>
          ELSE /\ MayLock(w, size, now)
               /\ Save(BucketOf(k), lockObjectStoreFee(w, size, now))
               /\ object' = [object EXCEPT ![objectByName[k]].updating = TRUE]
               /\ shadow' = With(shadow, k, [size |-> size, updatedAt |-> now])
               /\ lockedCount' = IncreaseLockedObjectCount(BucketOf(k))
       /\ UNCHANGED <<clockVars, queueVars, limitVars, blockVars, bucketByName, migration,
                      nextBucket, objectByName, saved, nextObject>>

(* CancelUpdateObjectContent, and RejectSealObject of an update.           *)
CancelUpdateObjectContent(k) ==
    /\ HasObject(k) /\ HasBucket(k[1]) /\ ObjectAt(k).updating
    /\ Save(BucketOf(k), UnlockShadowObjectStoreFee(Books(BucketOf(k)), shadow[k]))
    /\ object' = [object EXCEPT ![objectByName[k]].updating = FALSE]
    /\ shadow' = Without(shadow, k)
    /\ lockedCount' = DecreaseLockedObjectCount(BucketOf(k))
    /\ UNCHANGED <<clockVars, queueVars, limitVars, blockVars, bucketByName, migration,
                   nextBucket, objectByName, saved, nextObject>>

(* Mutant: any object that is not sealed can be cancelled.                 *)
CancelUnlessSealed(k) ==
    /\ HasObject(k) /\ HasBucket(k[1]) /\ ObjectAt(k).status # "sealed" /\ ~ObjectAt(k).updating
    /\ Save(BucketOf(k), UnlockObjectStoreFee(Books(BucketOf(k)), ObjectAt(k)))
    /\ object' = Without(object, objectByName[k])
    /\ objectByName' = Without(objectByName, k)
    /\ lockedCount' = DecreaseLockedObjectCount(BucketOf(k))
    /\ UNCHANGED <<clockVars, queueVars, limitVars, blockVars, bucketByName, migration,
                   nextBucket, shadow, saved, nextObject>>

(* CancelCreateObject, DeleteObject of an object not yet sealed, and       *)
(* RejectSealObject of one.                                                *)
CancelCreateObject(k) ==
    /\ HasObject(k) /\ HasBucket(k[1]) /\ ObjectAt(k).status = "created" /\ ~ObjectAt(k).updating
    /\ Save(BucketOf(k), UnlockObjectStoreFee(Books(BucketOf(k)), ObjectAt(k)))
    /\ object' = Without(object, objectByName[k])
    /\ objectByName' = Without(objectByName, k)
    /\ lockedCount' = DecreaseLockedObjectCount(BucketOf(k))
    /\ UNCHANGED <<clockVars, queueVars, limitVars, blockVars, bucketByName, migration,
                   nextBucket, shadow, saved, nextObject>>

(* doDeleteObject, after the books are settled.                            *)
DropObject(id, w) ==
    LET o == object[id]
        k == <<o.bucket, o.name>>
    IN /\ Save(IdOf(o.bucket), IF o.lvg # 0 THEN DeleteObjectFromVirtualGroup(w, o) ELSE w)
       /\ objectByName' = Without(objectByName, k)
       /\ object' = Without(object, id)
       /\ UNCHANGED <<nextObject, bucketByName, migration, nextBucket>>

(* The books when a sealed object goes: its charge, and the fee locked for *)
(* an update under way.                                                    *)
Released(w, o) ==
    LET uncharged == UnChargeObjectStoreFee(w, o)
    IN IF o.updating THEN UnlockShadowObjectStoreFee(uncharged, shadow[<<o.bucket, o.name>>])
       ELSE uncharged

(* Mutant: the shadow object of a deleted object is kept.                  *)
DropNoShadow(o) == UNCHANGED shadow

DropShadow(o) ==
    shadow' = IF o.updating THEN Without(shadow, <<o.bucket, o.name>>) ELSE shadow

DeleteObject(k) ==
    LET o == ObjectAt(k)
        w == Books(BucketOf(k))
        released == Released(w, o)
    IN /\ HasObject(k) /\ HasBucket(k[1]) /\ o.status = "sealed"
       /\ MayCharge(w.b, released) /\ CanLeaveGroup(released, o)
       /\ DropObject(objectByName[k], released)
       /\ DropShadow(o)
       /\ lockedCount' = IF o.updating THEN DecreaseLockedObjectCount(BucketOf(k)) ELSE lockedCount
       /\ UNCHANGED <<clockVars, queueVars, limitVars, blockVars, saved>>

-----------------------------------------------------------------------------
(* Mutant: the status it had is not saved.                                 *)
DiscontinueUnsaved(id, period) ==
    LET o == object[id]
    IN /\ id \in DOMAIN object /\ HasBucket(o.bucket) /\ now + period <= MaxTime
       /\ InfoOf(o.bucket).status # "discontinued"
       /\ o.status \in {"created", "sealed"}
       /\ object' = [object EXCEPT ![id].status = "discontinued"]
       /\ objectQueue' = Append1(objectQueue, now + period, id)
       /\ UNCHANGED <<clockVars, bucketVars, limitVars, moneyVars, blockVars, objectByName,
                      shadow, nextObject, bucketQueue, saved>>

(* Discontinuing: the provider announces a deletion, which the EndBlocker  *)
(* performs once the confirm period (a parameter) has passed.  (Bound:     *)
(* what would be deleted after MaxTime is not announced.)                  *)
DiscontinueObject(id, period) ==
    LET o == object[id]
    IN /\ id \in DOMAIN object /\ HasBucket(o.bucket) /\ now + period <= MaxTime
       /\ InfoOf(o.bucket).status # "discontinued"
       /\ o.status \in {"created", "sealed"}
       /\ saved' = With(saved, id, o.status)
       /\ object' = [object EXCEPT ![id].status = "discontinued"]
       /\ objectQueue' = Append1(objectQueue, now + period, id)
       /\ UNCHANGED <<clockVars, bucketVars, limitVars, moneyVars, blockVars, objectByName,
                      shadow, nextObject, bucketQueue>>

(* The migration record of a bucket that was migrating is kept.            *)
DiscontinueBucket(n, period) ==
    /\ HasBucket(n) /\ InfoOf(n).status # "discontinued" /\ now + period <= MaxTime
    /\ SetStatus(n, "discontinued")
    /\ bucketQueue' = Append1(bucketQueue, now + period, IdOf(n))
    /\ UNCHANGED <<clockVars, objectVars, limitVars, moneyVars, blockVars, bucketByName, internal,
                   lockedCount, migration, nextBucket, objectQueue>>

-----------------------------------------------------------------------------
(* The end of a block.                                                     *)
Due(queue) == {t \in DOMAIN queue : t <= now}
First(queue) == queue[Min(Due(queue))][1]
Popped(queue) ==
    LET t == Min(Due(queue))
    IN IF Len(queue[t]) = 1 THEN Without(queue, t) ELSE [queue EXCEPT ![t] = Tail(@)]

(* The price and the parameters are written, under this block's time, by   *)
(* the end blockers of x/sp and x/gov, which run before this one; a price  *)
(* is not replaced within its second.  (Bound: what is written at MaxTime  *)
(* would never be read.)                                                   *)
StartEndBlock(p, m) ==
    /\ phase = "txs"
    /\ now \in DOMAIN priceLog => p = priceLog[now]
    /\ now = MaxTime => p = InForce(priceLog, now) /\ m = InForce(sizeLog, now)
    /\ priceLog' = IF p = InForce(priceLog, now + 1) THEN priceLog ELSE With(priceLog, now, p)
    /\ sizeLog' = IF m = InForce(sizeLog, now + 1) THEN sizeLog ELSE With(sizeLog, now, m)
    /\ phase' = "objects" /\ budget' = DeletionMax
    /\ UNCHANGED <<now, bucketVars, objectVars, queueVars, limitVars, moneyVars, deleting, halted>>

(* ForceDeleteObject and the loop body of ForceDeleteBucket: st is the     *)
(* status from before the object was discontinued.                         *)
OriginalStatus(id) == IF object[id].status = "discontinued" THEN saved[id] ELSE object[id].status

ForceDelete(id) ==
    LET o == object[id]
        st == OriginalStatus(id)
        w == Books(IdOf(o.bucket))
    IN /\ DropObject(id, IF st = "created" THEN UnlockObjectStoreFee(w, o) ELSE Released(w, o))
       /\ saved' = Without(saved, id)
       /\ DropShadow(o)
       /\ lockedCount' = IF st = "created" \/ o.updating
                         THEN DecreaseLockedObjectCount(IdOf(o.bucket)) ELSE lockedCount

(* Where it returns an error or panics.                                    *)
ForceDeleteFails(id) ==
    LET o == object[id]
        w == Books(IdOf(o.bucket))
    IN \/ ~HasBucket(o.bucket)
       \/ o.status = "discontinued" /\ id \notin DOMAIN saved
       \/ o.updating /\ <<o.bucket, o.name>> \notin DOMAIN shadow
       \/ /\ OriginalStatus(id) = "sealed"
          /\ ~HasLVG(w.i, o.lvg) \/ ~CanLeaveGroup(Released(w, o), o)

Halt ==
    /\ halted' = TRUE
    /\ UNCHANGED <<clockVars, bucketVars, objectVars, queueVars, limitVars, moneyVars,
                   phase, budget, deleting>>

(* DeleteDiscontinueObjectsUntil, one id: an object already gone counts.   *)
DeleteDiscontinueObject ==
    LET id == First(objectQueue)
    IN /\ phase = "objects" /\ budget > 0 /\ Due(objectQueue) # {}
       /\ \/ /\ id \in DOMAIN object
             /\ id \notin DOMAIN saved \/ ForceDeleteFails(id)
             /\ Halt
          \/ /\ \/ /\ id \in DOMAIN object
                   /\ id \in DOMAIN saved /\ ~ForceDeleteFails(id)
                   /\ ForceDelete(id)
                \/ id \notin DOMAIN object /\ UNCHANGED <<bucketVars, objectVars, moneyVars>>
             /\ objectQueue' = Popped(objectQueue)
             /\ budget' = budget - 1
             /\ UNCHANGED <<clockVars, limitVars, bucketQueue, phase, deleting, halted>>

StartBuckets ==
    /\ phase = "objects" /\ budget > 0 /\ Due(objectQueue) = {}
    /\ phase' = "buckets"
    /\ UNCHANGED <<clockVars, bucketVars, objectVars, queueVars, limitVars, moneyVars,
                   budget, deleting, halted>>

(* DeleteDiscontinueBucketsUntil, one step of ForceDeleteBucket: the       *)
(* bucket's objects in name order, until the budget is spent, and then the *)
(* bucket, which may exceed the budget.                                    *)
DeleteDiscontinueBucket ==
    LET id == First(bucketQueue)
        n == bucket[id].name
        victim == objectByName[<<n, Min(NamesIn(n))>>]
        NextId == /\ bucketQueue' = Popped(bucketQueue)
                  /\ budget' = Max({budget - 1, 0}) /\ deleting' = FALSE
                  /\ UNCHANGED <<clockVars, objectQueue, phase, halted>>
    IN /\ phase = "buckets" /\ (budget > 0 \/ deleting) /\ Due(bucketQueue) # {}
       /\ \/ /\ id \notin DOMAIN bucket
             /\ NextId
             /\ UNCHANGED <<bucketVars, objectVars, limitVars, moneyVars>>
          \/ /\ id \in DOMAIN bucket /\ NamesIn(n) # {} /\ budget = 0
             /\ deleting' = FALSE
             /\ UNCHANGED <<clockVars, bucketVars, objectVars, queueVars, limitVars, moneyVars,
                            phase, budget, halted>>
          \/ /\ id \in DOMAIN bucket /\ NamesIn(n) # {} /\ budget > 0
             /\ IF victim \notin DOMAIN object \/ ForceDeleteFails(victim) THEN Halt
                ELSE /\ ForceDelete(victim)
                     /\ budget' = budget - 1 /\ deleting' = TRUE
                     /\ UNCHANGED <<clockVars, queueVars, limitVars, phase, halted>>
          \/ /\ id \in DOMAIN bucket /\ NamesIn(n) = {}
             /\ IF internal[id].total > 0 THEN Halt
                ELSE DropBucket(n) /\ NextId /\ UNCHANGED objectVars

BeginBlock(gap) ==
    /\ \/ phase = "objects" /\ budget = 0
       \/ phase = "buckets" /\ (Due(bucketQueue) = {} \/ (budget = 0 /\ ~deleting))
    /\ now + gap <= MaxTime
    /\ now' = now + gap
    /\ phase' = "txs" /\ budget' = 0
    /\ UNCHANGED <<priceLog, sizeLog, bucketVars, objectVars, queueVars, limitVars, moneyVars,
                   deleting, halted>>

-----------------------------------------------------------------------------
Init ==
    /\ now = 1
    /\ priceLog = (0 :> FirstTariff[1]) /\ sizeLog = (0 :> FirstTariff[2])
    /\ bucketByName = <<>> /\ bucket = <<>> /\ internal = <<>> /\ lockedCount = <<>>
    /\ migration = {}
    /\ objectByName = <<>> /\ object = <<>> /\ shadow = <<>> /\ saved = <<>>
    /\ objectQueue = <<>> /\ bucketQueue = <<>>
    /\ limit = <<>> /\ limited = {}
    /\ flow = [a \in Accounts |-> NoFlow] /\ lock = [a \in Accounts |-> 0]
    /\ stored = [g \in Gvgs |-> 0]
    /\ nextBucket = 1 /\ nextObject = 1
    /\ phase = "txs" /\ budget = 0 /\ deleting = FALSE /\ halted = FALSE

Keys == BucketNames \X ObjectNames

BucketMessage ==
    \E n \in BucketNames :
        \/ \E a \in Accounts, q \in Quotas :
              \/ \E f \in DOMAIN Families : CreateBucket(n, a, q, f)
              \/ UpdateBucketInfo(n, a, q)
        \/ DeleteBucket(n)
        \/ \E x \in Limits : SetBucketFlowRateLimit(x[1], n, x[2])
        \/ MigrateBucket(n)
        \/ CancelBucketMigration(n)
        \/ \E f \in DOMAIN Families, m \in Mappings : CompleteMigrateBucket(n, f, m)
        \/ \E t \in ConfirmPeriods : DiscontinueBucket(n, t)

ObjectMessage ==
    \/ \E k \in Keys :
        \/ \E size \in Sizes : CreateObject(k, size) \/ UpdateObjectContent(k, size)
        \/ \E src \in Keys : CopyObject(src, k)
        \/ \E g \in Gvgs : SealObject(k, g)
        \/ CancelUpdateObjectContent(k)
        \/ CancelCreateObject(k)
        \/ DeleteObject(k)
    \/ \E id \in 1..MaxObjects, t \in ConfirmPeriods : DiscontinueObject(id, t)

EndBlock ==
    \/ \E x \in Tariffs : StartEndBlock(x[1], x[2])
    \/ DeleteDiscontinueObject
    \/ StartBuckets
    \/ DeleteDiscontinueBucket
    \/ \E gap \in {0, 1} : BeginBlock(gap)

Next ==
    /\ ~halted
    /\ \/ phase = "txs" /\ (BucketMessage \/ ObjectMessage)
       \/ EndBlock

Spec == Init /\ [][Next]_vars

-----------------------------------------------------------------------------
(* Properties.                                                             *)

Charged(a) == {id \in DOMAIN bucket : bucket[id].account = a /\ bucket[id].name \notin limited}
BillsOn(a) ==
    FoldSet(LAMBDA id, sum : Rebilled(sum, a, NoFlow, GetBucketReadStoreBill(bucket[id], internal[id])),
            (a :> NoFlow), Charged(a))[a]

(* What every payment account pays each receiver is exactly the sum of the *)
(* bills of its buckets that are not limited: charging object by object    *)
(* (ChargeViaObjectChange), as a whole (ChargeViaBucketChange), and        *)
(* through migrations, limits, price changes and forced deletions adds up. *)
BillsMatchFlows ==
    \A a \in Accounts : flow[a] = BillsOn(a)

Unsealed(id) == object[id].status # "sealed" /\ OriginalStatus(id) = "created"
IsIn(id, b) == object[id].bucket = bucket[b].name
UnsealedIn(b) == {id \in DOMAIN object : IsIn(id, b) /\ Unsealed(id)}
UpdatesIn(b) == {k \in DOMAIN shadow : k[1] = bucket[b].name}

(* The balance locked on an account is exactly the fees of the objects and *)
(* updates waiting to be sealed in its buckets, discontinued ones included,*)
(* whatever prices and parameters became since (GetObjectLockFee), and the *)
(* count that keeps a bucket on its account (LockedObjectCount) is exact.  *)
LocksMatchObjects ==
    /\ \A a \in Accounts :
          lock[a] = MapThenSumSet(
              LAMBDA b :
                  MapThenSumSet(LAMBDA id : GetObjectLockFee(object[id].size, GetLatestUpdatedTime(object[id])),
                                UnsealedIn(b))
                  + MapThenSumSet(LAMBDA k : GetObjectLockFee(shadow[k].size, shadow[k].updatedAt),
                                  UpdatesIn(b)),
              {b \in DOMAIN bucket : bucket[b].account = a})
    /\ \A b \in DOMAIN bucket :
          Locked(b) = Cardinality(UnsealedIn(b)) + Cardinality(UpdatesIn(b))

SealedIn(b, l) == {id \in DOMAIN object : IsIn(id, b) /\ object[id].lvg = l}
ChargeOf(id) == GetObjectChargeSize(object[id].size, GetLatestUpdatedTime(object[id]))

(* Every local virtual group stores and charges exactly its objects, is    *)
(* gone when it has none, its ids are distinct and ascending; the bucket's *)
(* total is their sum, and a GVG stores what the local groups on it store. *)
SizesExact ==
    /\ \A b \in DOMAIN bucket :
          LET i == internal[b]
          IN /\ \A k \in DOMAIN i.lvgs :
                   /\ i.lvgs[k].stored = MapThenSumSet(LAMBDA id : object[id].size, SealedIn(b, i.lvgs[k].id))
                   /\ i.lvgs[k].charge = MapThenSumSet(ChargeOf, SealedIn(b, i.lvgs[k].id))
                   /\ i.lvgs[k].charge > 0
                   /\ k > 1 => i.lvgs[k].id > i.lvgs[k - 1].id
             /\ i.total = MapThenSumSet(LAMBDA k : i.lvgs[k].charge, DOMAIN i.lvgs)
    /\ \A g \in Gvgs :
          stored[g] = MapThenSumSet(
              LAMBDA b : MapThenSumSet(LAMBDA k : IF internal[b].lvgs[k].gvg = g
                                                  THEN internal[b].lvgs[k].stored ELSE 0,
                                       DOMAIN internal[b].lvgs),
              DOMAIN bucket)

Queued(queue, id) == \E t \in DOMAIN queue : id \in Range(queue[t])

(* Names and ids agree in both directions; every bucket has its internal   *)
(* record and no record outlives it; a shadow object exists exactly        *)
(* for an object being updated, a remembered status exactly for a          *)
(* discontinued object; and whatever is discontinued is queued for         *)
(* deletion, so that nothing is discontinued for ever.                     *)
NamesAgree ==
    /\ \A n \in DOMAIN bucketByName : IdOf(n) \in DOMAIN bucket /\ InfoOf(n).name = n
    /\ \A b \in DOMAIN bucket : HasBucket(bucket[b].name) /\ IdOf(bucket[b].name) = b
    /\ \A k \in DOMAIN objectByName :
          objectByName[k] \in DOMAIN object /\ <<ObjectAt(k).bucket, ObjectAt(k).name>> = k
    /\ \A id \in DOMAIN object :
          LET k == <<object[id].bucket, object[id].name>>
          IN HasBucket(k[1]) /\ HasObject(k) /\ objectByName[k] = id
    /\ DOMAIN internal = DOMAIN bucket /\ DOMAIN lockedCount \subseteq DOMAIN bucket
    /\ DOMAIN shadow = {k \in DOMAIN objectByName : ObjectAt(k).updating}
    /\ DOMAIN saved = {id \in DOMAIN object : object[id].status = "discontinued"}
    /\ \A id \in DOMAIN saved : Queued(objectQueue, id)
    /\ \A b \in DOMAIN bucket : bucket[b].status = "discontinued" => Queued(bucketQueue, b)

(* A bucket that is open has no migration record, one that is migrating    *)
(* has: the panic of MigrateBucket is out of reach and a migration can     *)
(* always be ended; and a record never outlives its bucket.                *)
MigrationRecorded ==
    /\ migration \subseteq DOMAIN bucket
    /\ \A b \in DOMAIN bucket :
          /\ bucket[b].status = "created" => b \notin migration
          /\ bucket[b].status = "migrating" => b \in migration

(* A bucket that is charged costs no more than the limit set for it, and   *)
(* nothing on an account that is not its owner's and sets no limit; one    *)
(* that is limited has a limit on its current account (setFlowRateLimit    *)
(* would charge it twice otherwise), and only existing buckets are limited.*)
LimitRespected ==
    /\ limited \subseteq DOMAIN bucketByName
    /\ \A n \in limited : <<InfoOf(n).account, n>> \in DOMAIN limit
    /\ \A b \in DOMAIN bucket :
          bucket[b].name \notin limited => isBucketFlowRateUnderLimit(bucket[b], internal[b])

(* The EndBlocker never meets an error, which it turns into a panic that   *)
(* stops the chain ("should not happen").                                  *)
NeverHalts == ~halted

(* What is discontinued stays so until the EndBlocker deletes it, and that *)
(* is not before the time announced for it or for its bucket.              *)
DiscontinuedIsFinal ==
    [][\A id \in DOMAIN object :
          object[id].status = "discontinued" =>
             \/ id \in DOMAIN object' /\ object'[id].status = "discontinued"
             \/ /\ phase # "txs"
                /\ \/ \E t \in Due(objectQueue) : id \in Range(objectQueue[t])
                   \/ \E t \in Due(bucketQueue) : IdOf(object[id].bucket) \in Range(bucketQueue[t])]_vars

=============================================================================
