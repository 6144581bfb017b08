----------------------------- MODULE Challenge -----------------------------
(***************************************************************************)
(* x/challenge: storage providers are challenged to prove that they hold   *)
(* an object, by users (Submit) or by the chain (EndBlocker); validators   *)
(* vote off chain and one of them submits the vote (Attest), upon which    *)
(* the provider is slashed or, at a heartbeat, the validators are paid.    *)
(*                                                                         *)
(* External: where objects are stored and which providers serve            *)
(* (x/storage, x/virtualgroup, x/sp), the tax pool (x/payment), and the    *)
(* votes: more than two thirds of the validators sign only what the start  *)
(* event of a challenge says, any number of times.  At every moment one    *)
(* validator is in turn to submit.                                         *)
(***************************************************************************)
EXTENDS Integers, Sequences, SequencesExt, Functions

CONSTANTS
    Sps, Objects, Gone,
    Size,           \* payload size of each object
    Homes,          \* where an object may be: primary, secondaries, sealed or not
    Validators,     \* how many there are
    ChallengeCountPerBlock, ChallengeKeepAlivePeriod, SlashCoolingOffPeriod,
    SlashAmountSizeRate, OneGB, SlashAmountMin, SlashAmountMax,
    SpSlashMaxAmount, SpSlashCountingWindow,
    RewardValidatorRatio, RewardSubmitterRatio, RewardSubmitterThreshold,    \* ratios in percent
    HeartbeatInterval, KeptCounts,
    InitDeposit, TaxIncome,
    MaxHeight, MaxChallenges    \* bounds of the instance

(* Params.Validate asks for positive periods, intervals and counts.  That  *)
(* a slash is remembered at least as long as a challenge lives is true of  *)
(* the default parameters; nothing enforces it.                            *)
ASSUME ParamsAssumption ==
    /\ ChallengeKeepAlivePeriod \in Nat \ {0} /\ SlashCoolingOffPeriod \in Nat
    /\ ChallengeKeepAlivePeriod <= SlashCoolingOffPeriod
    /\ {SlashAmountSizeRate, SlashAmountMin, SlashAmountMax, SpSlashMaxAmount} \subseteq Nat
    /\ {OneGB, SpSlashCountingWindow, HeartbeatInterval, Validators} \subseteq Nat \ {0}
    /\ KeptCounts \subseteq Nat \ {0} /\ KeptCounts # {}
    /\ {RewardValidatorRatio, RewardSubmitterRatio} \subseteq 0..100
    /\ RewardSubmitterThreshold \in Nat /\ TaxIncome \in Nat
    /\ InitDeposit \in [Sps -> Nat] /\ Size \in [Objects -> Nat]

Nobody == "nobody"
Overridden(f, g) == [x \in DOMAIN f \cup DOMAIN g |-> IF x \in DOMAIN g THEN g[x] ELSE f[x]]
With(f, k, x) == Overridden(f, [y \in {k} |-> x])

VARIABLES
    height, inBlock,
    challengeId, challenges,    \* last id; expired height of each challenge
    count,                      \* challenges submitted in this block
    slashes, slashAmount,       \* height of recent slashes; amount per window
    size, cursor, ring,         \* the attested challenges, a ring
    kept,                       \* AttestationKeptCount
    deposit, pool,              \* deposits of providers, the tax pool
    home, serving,              \* where objects are, who serves
    target,                     \* history: the start event of each challenge
    hits,                       \*   how often each led to a slash
    opening, paid, taxPaid      \*   deposits when the window began, payouts

blockVars == <<height, inBlock>>
challengeVars == <<challengeId, challenges, target, hits>>
slashVars == <<slashes, slashAmount, deposit, opening, paid>>
taxVars == <<pool, taxPaid>>
ringVars == <<size, cursor, ring>>
worldVars == <<home, serving>>
vars == <<blockVars, challengeVars, count, slashVars, taxVars, ringVars, kept, worldVars>>

-----------------------------------------------------------------------------
(* The ring of attested challenges: size 0 and cursor -1 stand for keys    *)
(* that are not set.                                                       *)
GetAttestedChallenges ==
    LET walk == [i \in 1..size |-> (cursor + i) % size]
        filled == SelectSeq(walk, LAMBDA p : p \in DOMAIN ring)
    IN [i \in DOMAIN filled |-> ring[filled[i]]]

enqueueAttestedChallenge(r, c) ==
    LET at == IF r.cursor = -1 THEN 0 ELSE (r.cursor + 1) % r.size
    IN [r EXCEPT !.cursor = at, !.ring = With(@, at, c)]

(* Mutant: a changed parameter resizes the ring without rebuilding it.     *)
AppendResized(c) ==
    LET current == [size |-> kept, cursor |-> cursor, ring |-> ring]
        new == enqueueAttestedChallenge(current, c)
    IN size' = new.size /\ cursor' = new.cursor /\ ring' = new.ring

AppendAttestedChallenge(c) ==
    LET old == [size |-> size, cursor |-> cursor, ring |-> ring]
        empty == [size |-> kept, cursor |-> -1, ring |-> <<>>]
        current == CASE size = 0 -> empty
                     [] size = kept -> old
                     [] OTHER -> FoldLeft(enqueueAttestedChallenge, empty, GetAttestedChallenges)
        new == enqueueAttestedChallenge(current, c)
    IN size' = new.size /\ cursor' = new.cursor /\ ring' = new.ring

-----------------------------------------------------------------------------
(* Challenges.                                                             *)
Event(sp, o, challenger) == [sp |-> sp, object |-> o, challenger |-> challenger]

(* SaveChallenge of each of a sequence of new challenges, under new ids.   *)
SaveChallenges(events) ==
    LET new == (challengeId + 1)..(challengeId + Len(events))
    IN /\ challengeId' = challengeId + Len(events)
       /\ challenges' = Overridden(challenges, [id \in new |-> height + ChallengeKeepAlivePeriod])
       /\ target' = Overridden(target, [id \in new |-> events[id - challengeId]])
       /\ hits' = Overridden(hits, [id \in new |-> 0])

StoredOn(o) == {home[o].primary} \cup home[o].secondaries
Challengeable(o) == home[o] # Gone /\ home[o].sealed /\ Size[o] > 0
ExistsSlash(sp, o) == <<sp, o>> \in DOMAIN slashes

(* A user challenges a provider.  The status and the recent slash looked   *)
(* at are the primary's, whoever is challenged.                            *)
Submit(sp, o, challenger) ==
    /\ inBlock /\ challengeId < MaxChallenges    \* bound
    /\ Challengeable(o)
    /\ home[o].primary \in serving
    /\ sp \in StoredOn(o)
    /\ ~ExistsSlash(home[o].primary, o)
    /\ count' = count + 1
    /\ SaveChallenges(<<Event(sp, o, challenger)>>)
    /\ UNCHANGED <<blockVars, slashVars, taxVars, ringVars, kept, worldVars>>

(* The EndBlocker fills the block up with challenges of pairs drawn at     *)
(* random, no pair twice; it may draw too few that can be challenged.      *)
CanDraw(e) ==
    /\ Challengeable(e.object)
    /\ e.sp \in StoredOn(e.object) \cap serving
    /\ ~ExistsSlash(e.sp, e.object)
Candidates == {e \in [sp : Sps, object : Objects, challenger : {Nobody}] : CanDraw(e)}

EndBlocker ==
    /\ inBlock
    /\ \E n \in 0..ChallengeCountPerBlock : \E draws \in [1..n -> Candidates] :
          /\ IsInjective(draws)
          /\ n > 0 => count + n <= ChallengeCountPerBlock
          /\ challengeId + n <= MaxChallenges    \* bound
          /\ SaveChallenges(draws)
    /\ inBlock' = FALSE
    /\ UNCHANGED <<height, count, slashVars, taxVars, ringVars, kept, worldVars>>

-----------------------------------------------------------------------------
(* Attestations.                                                           *)
calculateSlashAmount(objectSize) ==
    LET amount == (objectSize * SlashAmountSizeRate) \div OneGB
    IN IF amount < SlashAmountMin THEN SlashAmountMin
       ELSE IF amount > SlashAmountMax THEN SlashAmountMax ELSE amount

(* The first slash of a window is not checked against the maximum.         *)
ToSlash(sp, o) ==
    LET amount == calculateSlashAmount(Size[o])
    IN IF slashAmount[sp] # 0 /\ slashAmount[sp] + amount > SpSlashMaxAmount THEN 0 ELSE amount

SubmitterReward(total) ==
    LET share == (RewardSubmitterRatio * total) \div 100
    IN IF share > RewardSubmitterThreshold THEN RewardSubmitterThreshold ELSE share

(* Mutant: the remainder of the division goes to nobody.                   *)
RewardsRoundedDown(total, challenger, n) ==
    LET submitter == SubmitterReward(total)
        left == total - submitter
    IN IF challenger = Nobody
       THEN [challenger |-> 0, each |-> left \div n, submitter |-> submitter]
       ELSE [challenger |-> left - (RewardValidatorRatio * left) \div 100,
             each |-> (RewardValidatorRatio * left) \div (100 * n), submitter |-> submitter]

(* calculateSlashRewards, for n voters: what is left after dividing goes   *)
(* to the submitter or to the challenger.                                  *)
calculateSlashRewards(total, challenger, n) ==
    LET submitter == SubmitterReward(total)
        left == total - submitter
        each == IF challenger = Nobody THEN left \div n
                ELSE (RewardValidatorRatio * left) \div (100 * n)
        rest == left - n * each
    IN IF challenger = Nobody
       THEN [challenger |-> 0, each |-> each, submitter |-> submitter + rest]
       ELSE [challenger |-> rest, each |-> each, submitter |-> submitter]

(* SpKeeper.Slash: the rewards are paid from the provider's deposit.       *)
Payout(total, challenger, n) ==
    LET r == calculateSlashRewards(total, challenger, n)
    IN IF total = 0 THEN 0 ELSE r.challenger + n * r.each + r.submitter

Quorum == {n \in 1..Validators : n > (Validators * 2) \div 3}

(* The vote on challenge id: the provider still stores the object, sealed  *)
(* or not.                                                                 *)
MayAttest(id) ==
    /\ inBlock /\ id \in DOMAIN challenges
    /\ home[target[id].object] # Gone
    /\ target[id].sp \in StoredOn(target[id].object)

AttestSucceed(id, n) ==
    LET sp == target[id].sp
        o == target[id].object
        amount == ToSlash(sp, o)
        total == Payout(amount, target[id].challenger, n)
    IN /\ MayAttest(id)
       /\ ~ExistsSlash(sp, o)
       /\ total <= deposit[sp]
       /\ deposit' = [deposit EXCEPT ![sp] = @ - total]
       /\ paid' = [paid EXCEPT ![sp] = @ + total]
       /\ slashes' = With(slashes, <<sp, o>>, height)    \* SaveSlash
       /\ slashAmount' = [slashAmount EXCEPT ![sp] = @ + amount]
       /\ hits' = [hits EXCEPT ![id] = @ + 1]
       /\ AppendAttestedChallenge([id |-> id, result |-> "succeed"])
       /\ UNCHANGED <<blockVars, challengeId, challenges, target, count, opening, taxVars, kept, worldVars>>

(* A vote that nothing is wrong, accepted at the heartbeat interval: the   *)
(* whole tax pool is paid out, to the submitter and for the validators.    *)
AttestFailed(id) ==
    LET submitter == SubmitterReward(pool)
        validators == pool - submitter
    IN /\ MayAttest(id)
       /\ id % HeartbeatInterval = 0
       /\ pool' = pool - validators - submitter
       /\ taxPaid' = taxPaid + validators + submitter
       /\ AppendAttestedChallenge([id |-> id, result |-> "failed"])
       /\ UNCHANGED <<blockVars, challengeVars, count, slashVars, kept, worldVars>>

UpdateParams(k) ==
    /\ inBlock /\ k # kept
    /\ kept' = k
    /\ UNCHANGED <<blockVars, challengeVars, count, slashVars, taxVars, ringVars, worldVars>>

-----------------------------------------------------------------------------
(* Blocks.  The count of the block is in a transient store, and taxes flow *)
(* into the pool.                                                          *)
RemoveChallengeUntil(h) == Restrict(challenges, {id \in DOMAIN challenges : challenges[id] > h})

(* Mutant: a slash is forgotten one block early.                           *)
RemoveSlashUntilNext(h) == Restrict(slashes, {x \in DOMAIN slashes : slashes[x] > h + 1})

RemoveSlashUntil(h) == Restrict(slashes, {x \in DOMAIN slashes : slashes[x] > h})

BeginBlocker ==
    /\ ~inBlock /\ height < MaxHeight    \* bound
    /\ height' = height + 1 /\ inBlock' = TRUE /\ count' = 0
    /\ challenges' = RemoveChallengeUntil(height')
    /\ slashes' = IF height' > SlashCoolingOffPeriod
                  THEN RemoveSlashUntil(height' - SlashCoolingOffPeriod) ELSE slashes
    /\ IF height' % SpSlashCountingWindow = 0
       THEN slashAmount' = [sp \in Sps |-> 0] /\ opening' = deposit
       ELSE UNCHANGED <<slashAmount, opening>>
    /\ pool' = pool + TaxIncome
    /\ UNCHANGED <<challengeId, target, hits, deposit, paid, taxPaid, ringVars, kept, worldVars>>

(* External: an object moves, is discontinued or deleted; a provider stops *)
(* serving or serves again.                                                *)
MoveObject(o, h) ==
    /\ inBlock /\ home[o] # Gone
    /\ home' = [home EXCEPT ![o] = h]
    /\ UNCHANGED <<blockVars, challengeVars, count, slashVars, taxVars, ringVars, kept, serving>>

ChangeStatus(sp) ==
    /\ inBlock
    /\ serving' = IF sp \in serving THEN serving \ {sp} ELSE serving \cup {sp}
    /\ UNCHANGED <<blockVars, challengeVars, count, slashVars, taxVars, ringVars, kept, home>>

Init ==
    /\ height = 1 /\ inBlock = TRUE
    /\ challengeId = 0 /\ challenges = <<>> /\ count = 0 /\ target = <<>> /\ hits = <<>>
    /\ slashes = <<>> /\ slashAmount = [sp \in Sps |-> 0]
    /\ size = 0 /\ cursor = -1 /\ ring = <<>>
    /\ kept \in KeptCounts
    /\ deposit = InitDeposit /\ opening = InitDeposit /\ paid = [sp \in Sps |-> 0]
    /\ pool = TaxIncome /\ taxPaid = 0
    /\ home \in [Objects -> Homes] /\ serving = Sps

Next ==
    \/ \E sp \in Sps, o \in Objects : Submit(sp, o, "user")
    \/ \E id \in 1..challengeId : AttestFailed(id) \/ \E n \in Quorum : AttestSucceed(id, n)
    \/ \E k \in KeptCounts : UpdateParams(k)
    \/ \E o \in Objects, h \in Homes \cup {Gone} : MoveObject(o, h)
    \/ \E sp \in Sps : ChangeStatus(sp)
    \/ EndBlocker
    \/ BeginBlocker

Spec == Init /\ [][Next]_vars

-----------------------------------------------------------------------------
(* Properties.                                                             *)

(* One challenge slashes its provider at most once, although Attest leaves *)
(* the challenge in place and accepts the same signed vote again: as long  *)
(* as the challenge lives, the slash is still remembered.                  *)
SlashedOnce == \A id \in DOMAIN hits : hits[id] <= 1

MostPerSlash == IF SlashAmountMin > SlashAmountMax THEN SlashAmountMin ELSE SlashAmountMax
MostPerWindow == IF SpSlashMaxAmount > MostPerSlash THEN SpSlashMaxAmount ELSE MostPerSlash

(* What a provider lost from its deposit since the counting window began   *)
(* is what SpSlashAmount records for it, within the limit of a window; and *)
(* every coin that left a deposit or the tax pool was paid to somebody,    *)
(* however the rewards were divided and rounded.                           *)
LossExact ==
    /\ \A sp \in Sps : /\ opening[sp] - deposit[sp] = slashAmount[sp]
                        /\ slashAmount[sp] <= MostPerWindow
                        /\ deposit[sp] >= 0 /\ InitDeposit[sp] - deposit[sp] = paid[sp]
    /\ pool >= 0 /\ pool + taxPaid = TaxIncome * height

Log == INSTANCE AttestationLog WITH
          log <- GetAttestedChallenges,
          Attestations <- [id : 1..MaxChallenges, result : {"succeed", "failed"}]

(* The ring, which is rebuilt when the parameter has changed, holds the    *)
(* newest attestations in their order: GetAttestedChallenges is the log of *)
(* AttestationLog, through wrapping around, growing and shrinking.         *)
ImplementsLog == Log!Spec
=============================================================================
