-------------------------- MODULE ChallengeProofs --------------------------
(***************************************************************************)
(* That a challenge slashes at most once, and that what a provider loses   *)
(* is recorded, limited and paid out, for all parameters that satisfy      *)
(* ParamsAssumption, all providers, objects and validators.                *)
(***************************************************************************)
EXTENDS Challenge, TLAPS

Pair(id) == <<target[id].sp, target[id].object>>

(* SlashedOnce is not inductive: a live challenge that has led to a slash  *)
(* must still be protected by that slash.  It is, because the slash was    *)
(* made while the challenge lived and is remembered for as long as any     *)
(* challenge lives.                                                        *)
Protected ==
    /\ height \in Nat /\ challengeId \in Nat
    /\ DOMAIN hits = 1..challengeId /\ DOMAIN target = 1..challengeId
    /\ \A id \in DOMAIN hits : hits[id] \in {0, 1}
    /\ DOMAIN challenges \subseteq 1..challengeId
    /\ \A id \in DOMAIN challenges :
          /\ challenges[id] \in Nat
          /\ challenges[id] <= height + ChallengeKeepAlivePeriod
          /\ hits[id] = 1 => /\ Pair(id) \in DOMAIN slashes
                             /\ challenges[id] <= slashes[Pair(id)] + SlashCoolingOffPeriod
    /\ \A x \in DOMAIN slashes : slashes[x] \in Nat

(* Saving new challenges keeps the invariant: their ids are new and they   *)
(* have not led to a slash.                                                *)
LEMMA SaveKeepsProtected ==
    ASSUME NEW events, Len(events) \in Nat, Protected, SaveChallenges(events),
           UNCHANGED <<height, slashes>>
    PROVE Protected'
<1> DEFINE new == (challengeId + 1)..(challengeId + Len(events))
<1>1. /\ challengeId' \in Nat /\ challengeId' = challengeId + Len(events)
      /\ 1..challengeId' = (1..challengeId) \cup new
  BY DEF SaveChallenges, Protected
<1>2. /\ DOMAIN hits' = 1..challengeId' /\ DOMAIN target' = 1..challengeId'
      /\ DOMAIN challenges' = DOMAIN challenges \cup new
  BY <1>1 DEF SaveChallenges, Overridden, Protected
<1>3. \A id \in new : hits'[id] = 0 /\ challenges'[id] = height + ChallengeKeepAlivePeriod
  BY DEF SaveChallenges, Overridden
<1>4. \A id \in 1..challengeId : id \notin new
  BY DEF Protected
<1>5. \A id \in 1..challengeId : hits'[id] = hits[id] /\ target'[id] = target[id]
  BY <1>4 DEF SaveChallenges, Overridden, Protected
<1>6. \A id \in DOMAIN challenges : challenges'[id] = challenges[id]
  BY <1>4 DEF SaveChallenges, Overridden, Protected
<1>7. \A id \in DOMAIN hits' : hits'[id] \in {0, 1}
  BY <1>1, <1>2, <1>3, <1>5 DEF Protected
<1>8. ASSUME NEW id \in DOMAIN challenges'
      PROVE /\ challenges'[id] \in Nat
            /\ challenges'[id] <= height' + ChallengeKeepAlivePeriod
            /\ hits'[id] = 1 => /\ Pair(id)' \in DOMAIN slashes'
                                /\ challenges'[id] <= slashes'[Pair(id)'] + SlashCoolingOffPeriod
  <2>1. CASE id \in new
    BY <1>3, <2>1, ParamsAssumption DEF Protected
  <2>2. CASE id \in DOMAIN challenges
    <3>1. id \in 1..challengeId /\ challenges'[id] = challenges[id] /\ Pair(id)' = Pair(id)
      BY <2>2, <1>5, <1>6 DEF Protected, Pair
    <3> QED BY <2>2, <3>1, <1>5 DEF Protected
  <2> QED BY <1>2, <2>1, <2>2
<1> QED
  BY <1>1, <1>2, <1>7, <1>8 DEF Protected

(* A slash keeps it: the pair was not slashed before, so no live challenge *)
(* of the pair had led to a slash, and the new record outlives them all.   *)
LEMMA AttestKeepsProtected ==
    ASSUME NEW id, NEW n, Protected, AttestSucceed(id, n)
    PROVE Protected'
<1>1. /\ id \in DOMAIN challenges /\ id \in 1..challengeId
      /\ Pair(id) \notin DOMAIN slashes
  BY DEF AttestSucceed, MayAttest, ExistsSlash, Pair, Protected
<1>2. hits[id] = 0
  BY <1>1 DEF Protected
<1>3. /\ UNCHANGED <<height, challengeId, challenges, target>>
      /\ hits' = [hits EXCEPT ![id] = @ + 1]
      /\ slashes' = With(slashes, Pair(id), height)
  BY DEF AttestSucceed, Pair, blockVars
<1>4. /\ DOMAIN slashes' = DOMAIN slashes \cup {Pair(id)}
      /\ slashes'[Pair(id)] = height
      /\ \A x \in DOMAIN slashes : slashes'[x] = slashes[x]
  BY <1>1, <1>3 DEF With, Overridden
<1>5. /\ DOMAIN hits' = 1..challengeId
      /\ hits'[id] = 1
      /\ \A i \in 1..challengeId : i # id => hits'[i] = hits[i]
  BY <1>1, <1>2, <1>3 DEF Protected
<1>6. \A i : Pair(i)' = Pair(i)
  BY <1>3 DEF Pair
<1>7. ASSUME NEW i \in DOMAIN challenges, hits'[i] = 1
      PROVE Pair(i) \in DOMAIN slashes' /\ challenges[i] <= slashes'[Pair(i)] + SlashCoolingOffPeriod
  <2>1. CASE i = id
    BY <2>1, <1>4, ParamsAssumption DEF Protected
  <2>2. CASE i # id
    <3>1. i \in 1..challengeId /\ hits[i] = 1
      BY <2>2, <1>5, <1>7 DEF Protected
    <3> QED BY <3>1, <1>4 DEF Protected
  <2> QED BY <2>1, <2>2
<1>8. \A x \in DOMAIN slashes' : slashes'[x] \in Nat
  BY <1>4 DEF Protected
<1>9. \A i \in DOMAIN hits' : hits'[i] \in {0, 1}
  BY <1>5 DEF Protected
<1>10. ASSUME NEW i \in DOMAIN challenges'
       PROVE /\ challenges'[i] \in Nat
             /\ challenges'[i] <= height' + ChallengeKeepAlivePeriod
             /\ hits'[i] = 1 => /\ Pair(i)' \in DOMAIN slashes'
                                /\ challenges'[i] <= slashes'[Pair(i)'] + SlashCoolingOffPeriod
  BY <1>3, <1>6, <1>7 DEF Protected
<1> QED
  BY <1>3, <1>5, <1>8, <1>9, <1>10 DEF Protected

(* A new block keeps it: a challenge that survives RemoveChallengeUntil    *)
(* expires later than the block, so RemoveSlashUntil keeps its slash.      *)
LEMMA BeginKeepsProtected ==
    ASSUME Protected, BeginBlocker
    PROVE Protected'
<1>1. /\ height' = height + 1 /\ UNCHANGED <<challengeId, target, hits>>
      /\ challenges' = RemoveChallengeUntil(height')
      /\ slashes' = IF height' > SlashCoolingOffPeriod
                    THEN RemoveSlashUntil(height' - SlashCoolingOffPeriod) ELSE slashes
  BY DEF BeginBlocker
<1>2. /\ DOMAIN challenges' = {i \in DOMAIN challenges : challenges[i] > height'}
      /\ \A i \in DOMAIN challenges' : challenges'[i] = challenges[i]
  BY <1>1 DEF RemoveChallengeUntil, Restrict
<1>3. /\ DOMAIN slashes' \subseteq DOMAIN slashes
      /\ \A x \in DOMAIN slashes' : slashes'[x] = slashes[x]
      /\ \A x \in DOMAIN slashes : slashes[x] > height' - SlashCoolingOffPeriod => x \in DOMAIN slashes'
  BY <1>1 DEF RemoveSlashUntil, Restrict
<1>4. \A i : Pair(i)' = Pair(i)
  BY <1>1 DEF Pair
<1>5. ASSUME NEW i \in DOMAIN challenges'
      PROVE /\ challenges'[i] \in Nat
            /\ challenges'[i] <= height' + ChallengeKeepAlivePeriod
            /\ hits'[i] = 1 => /\ Pair(i)' \in DOMAIN slashes'
                               /\ challenges'[i] <= slashes'[Pair(i)'] + SlashCoolingOffPeriod
  <2>1. i \in DOMAIN challenges /\ challenges'[i] = challenges[i] /\ challenges[i] > height'
    BY <1>2
  <2>2. challenges'[i] \in Nat /\ challenges'[i] <= height' + ChallengeKeepAlivePeriod
    BY <2>1, <1>1, ParamsAssumption DEF Protected
  <2>3. ASSUME hits[i] = 1
        PROVE Pair(i) \in DOMAIN slashes' /\ challenges[i] <= slashes'[Pair(i)] + SlashCoolingOffPeriod
    <3>1. Pair(i) \in DOMAIN slashes /\ challenges[i] <= slashes[Pair(i)] + SlashCoolingOffPeriod
      BY <2>1, <2>3 DEF Protected
    <3>2. slashes[Pair(i)] > height' - SlashCoolingOffPeriod
      BY <3>1, <2>1, <1>1, ParamsAssumption DEF Protected
    <3> QED BY <3>1, <3>2, <1>3
  <2> QED BY <2>1, <2>2, <2>3, <1>1, <1>4
<1>6. \A x \in DOMAIN slashes' : slashes'[x] \in Nat
  BY <1>3 DEF Protected
<1> QED
  BY <1>1, <1>2, <1>5, <1>6 DEF Protected

(* No challenge is live at genesis.                                        *)
LEMMA InitProtected == Init => Protected
  BY DEF Init, Protected

(* Every block and every message keeps a live challenge that led to a      *)
(* slash protected by that slash.                                          *)
LEMMA NextProtected == Protected /\ [Next]_vars => Protected'
<1> SUFFICES ASSUME Protected, [Next]_vars PROVE Protected'
  OBVIOUS
<1> DEFINE Same == UNCHANGED <<height, challengeId, hits, target, challenges, slashes>>
<1>1. ASSUME Same PROVE Protected'
  <2>1. \A i : Pair(i)' = Pair(i)
    BY <1>1 DEF Pair
  <2> QED BY <1>1, <2>1 DEF Protected
<1>2. ASSUME NEW sp \in Sps, NEW o \in Objects, Submit(sp, o, "user") PROVE Protected'
  <2>1. Len(<<Event(sp, o, "user")>>) \in Nat
    OBVIOUS
  <2> QED BY <2>1, <1>2, SaveKeepsProtected DEF Submit, blockVars, slashVars
<1>3. ASSUME NEW id \in 1..challengeId, AttestFailed(id) PROVE Protected'
  BY <1>1, <1>3 DEF AttestFailed, blockVars, challengeVars, slashVars
<1>4. ASSUME NEW id \in 1..challengeId, NEW n \in Quorum, AttestSucceed(id, n) PROVE Protected'
  BY <1>4, AttestKeepsProtected
<1>5. ASSUME NEW k \in KeptCounts, UpdateParams(k) PROVE Protected'
  BY <1>1, <1>5 DEF UpdateParams, blockVars, challengeVars, slashVars
<1>6. ASSUME NEW o \in Objects, NEW h \in Homes \cup {Gone}, MoveObject(o, h) PROVE Protected'
  BY <1>1, <1>6 DEF MoveObject, blockVars, challengeVars, slashVars
<1>7. ASSUME NEW sp \in Sps, ChangeStatus(sp) PROVE Protected'
  BY <1>1, <1>7 DEF ChangeStatus, blockVars, challengeVars, slashVars
<1>8. CASE EndBlocker
  <2>1. PICK n \in 0..ChallengeCountPerBlock : \E draws \in [1..n -> Candidates] : SaveChallenges(draws)
    BY <1>8 DEF EndBlocker
  <2>2. PICK draws \in [1..n -> Candidates] : SaveChallenges(draws)
    BY <2>1
  <2>3. draws \in Seq(Candidates) /\ Len(draws) \in Nat
    BY <2>2
  <2> QED BY <2>2, <2>3, <1>8, SaveKeepsProtected DEF EndBlocker, slashVars
<1>9. CASE BeginBlocker
  BY <1>9, BeginKeepsProtected
<1>10. CASE UNCHANGED vars
  BY <1>1, <1>10 DEF vars, blockVars, challengeVars, slashVars
<1> QED
  BY <1>2, <1>3, <1>4, <1>5, <1>6, <1>7, <1>8, <1>9, <1>10 DEF Next

(* A challenge never slashes twice (Attest, RemoveChallengeUntil and       *)
(* RemoveSlashUntil together), as long as slashes are remembered no        *)
(* shorter than challenges live.                                           *)
THEOREM ChallengeSlashesOnce == Spec => []SlashedOnce
<1>1. Protected => SlashedOnce
  BY DEF Protected, SlashedOnce
<1> QED
  BY <1>1, InitProtected, NextProtected, PTL DEF Spec

-----------------------------------------------------------------------------
(* The submitter's share of a slash, capped by the threshold, is an amount *)
(* of coins.                                                               *)
LEMMA SubmitterRewardIsInt == \A total \in Int : SubmitterReward(total) \in Int
<1> TAKE total \in Int
<1>1. RewardSubmitterRatio \in Int /\ RewardSubmitterThreshold \in Int
  BY ParamsAssumption
<1>2. RewardSubmitterRatio * total \in Int
  BY <1>1
<1>3. \A x \in Int : x \div 100 \in Int
  OBVIOUS
<1> QED
  BY <1>1, <1>2, <1>3 DEF SubmitterReward

(* Whatever is slashed is paid: dividing the rewards loses nothing.        *)
LEMMA PayoutIsTotal ==
    ASSUME NEW total \in Nat, NEW challenger, NEW n \in Quorum
    PROVE Payout(total, challenger, n) = total
<1> DEFINE submitter == SubmitterReward(total)
           left == total - submitter
           each == IF challenger = Nobody THEN left \div n ELSE (RewardValidatorRatio * left) \div (100 * n)
<1>1. n \in Nat \ {0}
  BY DEF Quorum
<1>2. submitter \in Int
  BY SubmitterRewardIsInt
<1>3. each \in Int
  <2>1. left \in Int /\ RewardValidatorRatio \in Int
    BY <1>2, ParamsAssumption
  <2> HIDE DEF left
  <2>2. RewardValidatorRatio * left \in Int /\ 100 * n \in Nat \ {0}
    BY <2>1, <1>1
  <2>3. \A x \in Int, y \in Nat \ {0} : x \div y \in Int
    OBVIOUS
  <2> QED BY <2>1, <2>2, <2>3, <1>1
<1>4. n * each \in Int
  BY <1>1, <1>3
<1> HIDE DEF submitter, each
<1>5. calculateSlashRewards(total, challenger, n) =
         IF challenger = Nobody
         THEN [challenger |-> 0, each |-> each, submitter |-> submitter + (left - n * each)]
         ELSE [challenger |-> left - n * each, each |-> each, submitter |-> submitter]
  BY DEF calculateSlashRewards, submitter, each
<1>6. CASE challenger = Nobody
  BY <1>2, <1>4, <1>5, <1>6 DEF Payout
<1>7. CASE challenger # Nobody
  BY <1>2, <1>4, <1>5, <1>7 DEF Payout
<1> QED
  BY <1>6, <1>7

(* One slash stays within the bounds of the amount, and the slashes of a   *)
(* window within the limit of a window.                                    *)
LEMMA SlashBounded ==
    ASSUME NEW sp, NEW o \in Objects, slashAmount[sp] \in Nat, slashAmount[sp] <= MostPerWindow
    PROVE ToSlash(sp, o) \in Nat /\ slashAmount[sp] + ToSlash(sp, o) <= MostPerWindow
<1> DEFINE amount == calculateSlashAmount(Size[o])
<1>1. (Size[o] * SlashAmountSizeRate) \div OneGB \in Int
  BY ParamsAssumption
<1>2. amount \in Nat /\ amount <= MostPerSlash
  BY <1>1, ParamsAssumption DEF calculateSlashAmount, MostPerSlash
<1>3. MostPerSlash <= MostPerWindow /\ SpSlashMaxAmount <= MostPerWindow
      /\ {MostPerSlash, MostPerWindow, SpSlashMaxAmount} \subseteq Nat
  BY ParamsAssumption DEF MostPerSlash, MostPerWindow
<1> QED
  BY <1>2, <1>3 DEF ToSlash

(* LossExact with the types it needs.                                      *)
Accounted ==
    /\ height \in Nat /\ challengeId \in Nat /\ DOMAIN challenges \subseteq 1..challengeId
    /\ DOMAIN target = 1..challengeId
    /\ \A id \in 1..challengeId : target[id].sp \in Sps /\ target[id].object \in Objects
    /\ slashAmount \in [Sps -> Nat]
    /\ deposit \in [Sps -> Int] /\ opening \in [Sps -> Int] /\ paid \in [Sps -> Int]
    /\ pool \in Int /\ taxPaid \in Int
    /\ LossExact

(* Nobody has lost anything at genesis.                                    *)
LEMMA InitAccounted == Init => Accounted
<1> SUFFICES ASSUME Init PROVE Accounted
  OBVIOUS
<1>1. MostPerWindow >= 0
  BY ParamsAssumption DEF MostPerSlash, MostPerWindow
<1>2. InitDeposit \in [Sps -> Int] /\ \A sp \in Sps : InitDeposit[sp] >= 0
  BY ParamsAssumption
<1>3. LossExact
  BY <1>1, <1>2, ParamsAssumption DEF Init, LossExact
<1> QED
  BY <1>2, <1>3, ParamsAssumption DEF Init, Accounted

(* Saving a batch of challenges gives them fresh ids and moves no coin.    *)
LEMMA SaveKeepsAccounted ==
    ASSUME NEW events, Len(events) \in Nat,
           \A i \in 1..Len(events) : events[i].sp \in Sps /\ events[i].object \in Objects,
           Accounted, SaveChallenges(events),
           UNCHANGED <<height, slashAmount, deposit, opening, paid, pool, taxPaid>>
    PROVE Accounted'
<1> DEFINE new == (challengeId + 1)..(challengeId + Len(events))
<1>1. /\ challengeId' \in Nat /\ challengeId' = challengeId + Len(events)
      /\ 1..challengeId' = (1..challengeId) \cup new
  BY DEF SaveChallenges, Accounted
<1>2. DOMAIN target' = 1..challengeId' /\ DOMAIN challenges' \subseteq 1..challengeId'
  BY <1>1 DEF SaveChallenges, Overridden, Accounted
<1>3. ASSUME NEW id \in 1..challengeId' PROVE target'[id].sp \in Sps /\ target'[id].object \in Objects
  <2>1. CASE id \in new
    <3>1. target'[id] = events[id - challengeId] /\ id - challengeId \in 1..Len(events)
      BY <2>1, <1>1 DEF SaveChallenges, Overridden, Accounted
    <3> QED BY <3>1
  <2>2. CASE id \notin new
    <3>1. id \in 1..challengeId /\ target'[id] = target[id]
      BY <2>2, <1>1 DEF SaveChallenges, Overridden, Accounted
    <3> QED BY <3>1 DEF Accounted
  <2> QED BY <2>1, <2>2
<1>4. LossExact'
  BY DEF LossExact, Accounted
<1> QED
  BY <1>1, <1>2, <1>3, <1>4 DEF Accounted

(* A slash takes from the deposit what it adds to the amount of the window.*)
LEMMA AttestKeepsAccounted ==
    ASSUME NEW id \in 1..challengeId, NEW n \in Quorum, Accounted, AttestSucceed(id, n)
    PROVE Accounted'
<1> DEFINE sp == target[id].sp
           amount == ToSlash(sp, target[id].object)
<1>1. sp \in Sps /\ target[id].object \in Objects
  BY DEF Accounted
<1>2. amount \in Nat /\ slashAmount[sp] + amount <= MostPerWindow
  BY <1>1, SlashBounded DEF Accounted, LossExact
<1>3. Payout(amount, target[id].challenger, n) = amount
  BY <1>2, PayoutIsTotal
<1> HIDE DEF amount, sp
<1>4. /\ amount <= deposit[sp]
      /\ deposit' = [deposit EXCEPT ![sp] = @ - amount]
      /\ paid' = [paid EXCEPT ![sp] = @ + amount]
      /\ slashAmount' = [slashAmount EXCEPT ![sp] = @ + amount]
      /\ UNCHANGED <<height, challengeId, challenges, target, opening, pool, taxPaid>>
  BY <1>3 DEF AttestSucceed, blockVars, taxVars, amount, sp
<1>5. /\ slashAmount' \in [Sps -> Nat]
      /\ deposit' \in [Sps -> Int] /\ opening' \in [Sps -> Int] /\ paid' \in [Sps -> Int]
  BY <1>1, <1>2, <1>4 DEF Accounted
<1>6. ASSUME NEW x \in Sps
      PROVE /\ opening'[x] - deposit'[x] = slashAmount'[x]
            /\ slashAmount'[x] <= MostPerWindow
            /\ deposit'[x] >= 0 /\ InitDeposit[x] - deposit'[x] = paid'[x]
  <2>1. InitDeposit[x] \in Int
    BY ParamsAssumption
  <2>2. CASE x = sp
    <3>1. /\ deposit'[sp] = deposit[sp] - amount /\ paid'[sp] = paid[sp] + amount
          /\ slashAmount'[sp] = slashAmount[sp] + amount /\ opening'[sp] = opening[sp]
      BY <1>1, <1>4 DEF Accounted
    <3>2. /\ slashAmount[sp] \in Int /\ deposit[sp] \in Int /\ opening[sp] \in Int /\ paid[sp] \in Int
          /\ opening[sp] - deposit[sp] = slashAmount[sp] /\ InitDeposit[sp] - deposit[sp] = paid[sp]
      BY <1>1 DEF Accounted, LossExact
    <3>3. opening'[sp] - deposit'[sp] = slashAmount'[sp] /\ InitDeposit[sp] - deposit'[sp] = paid'[sp]
      BY <2>1, <2>2, <3>1, <3>2, <1>2
    <3>4. deposit'[sp] >= 0 /\ slashAmount'[sp] <= MostPerWindow
      BY <3>1, <3>2, <1>2, <1>4
    <3> QED BY <2>2, <3>3, <3>4
  <2>3. CASE x # sp
    BY <2>1, <2>3, <1>1, <1>4 DEF Accounted, LossExact
  <2> QED BY <2>2, <2>3
<1>7. LossExact'
  BY <1>4, <1>6 DEF LossExact, Accounted
<1> QED
  BY <1>4, <1>5, <1>7 DEF Accounted

(* BeginBlocker expires challenges and slash records, and moves no         *)
(* provider's deposit.                                                     *)
LEMMA BeginKeepsAccounted ==
    ASSUME Accounted, BeginBlocker
    PROVE Accounted'
<1>1. /\ height' = height + 1 /\ pool' = pool + TaxIncome
      /\ UNCHANGED <<challengeId, target, deposit, paid, taxPaid>>
      /\ DOMAIN challenges' \subseteq DOMAIN challenges
  BY DEF BeginBlocker, RemoveChallengeUntil, Restrict
<1>2. TaxIncome * height' = TaxIncome * height + TaxIncome /\ TaxIncome * height \in Int
  <2>1. \A x, y \in Int : x * (y + 1) = x * y + x /\ x * y \in Int
    OBVIOUS
  <2>2. TaxIncome \in Int /\ height \in Int
    BY ParamsAssumption DEF Accounted
  <2> QED BY <1>1, <2>1, <2>2
<1>3. \/ slashAmount' = [x \in Sps |-> 0] /\ opening' = deposit
      \/ UNCHANGED <<slashAmount, opening>>
  BY DEF BeginBlocker
<1>4. MostPerWindow >= 0
  BY ParamsAssumption DEF MostPerSlash, MostPerWindow
<1>5. /\ slashAmount' \in [Sps -> Nat]
      /\ deposit' \in [Sps -> Int] /\ opening' \in [Sps -> Int] /\ paid' \in [Sps -> Int]
  BY <1>1, <1>3 DEF Accounted
<1>6. ASSUME NEW x \in Sps
      PROVE /\ opening'[x] - deposit'[x] = slashAmount'[x]
            /\ slashAmount'[x] <= MostPerWindow
            /\ deposit'[x] >= 0 /\ InitDeposit[x] - deposit'[x] = paid'[x]
  BY <1>1, <1>3, <1>4 DEF Accounted, LossExact
<1>7. pool' >= 0 /\ pool' + taxPaid' = TaxIncome * height'
  BY <1>1, <1>2, ParamsAssumption DEF Accounted, LossExact
<1>8. LossExact'
  BY <1>6, <1>7 DEF LossExact
<1>9. height' \in Nat /\ pool' \in Int /\ taxPaid' \in Int
  BY <1>1, ParamsAssumption DEF Accounted
<1> QED
  BY <1>1, <1>5, <1>8, <1>9 DEF Accounted

(* Every step keeps the losses of the providers accounted for.             *)
LEMMA NextAccounted == Accounted /\ [Next]_vars => Accounted'
<1> SUFFICES ASSUME Accounted, [Next]_vars PROVE Accounted'
  OBVIOUS
<1> DEFINE Same == UNCHANGED <<height, challengeId, challenges, target, slashAmount, deposit,
                               opening, paid, pool, taxPaid>>
<1>1. ASSUME Same PROVE Accounted'
  BY <1>1 DEF Accounted, LossExact
<1>2. ASSUME NEW sp \in Sps, NEW o \in Objects, Submit(sp, o, "user") PROVE Accounted'
  <2> DEFINE events == <<Event(sp, o, "user")>>
  <2>1. /\ Len(events) \in Nat
        /\ \A i \in 1..Len(events) : events[i].sp \in Sps /\ events[i].object \in Objects
    BY DEF Event
  <2>2. SaveChallenges(events)
    BY <1>2 DEF Submit
  <2> HIDE DEF events
  <2> QED BY <2>1, <2>2, <1>2, SaveKeepsAccounted DEF Submit, blockVars, slashVars, taxVars
<1>3. ASSUME NEW id \in 1..challengeId, AttestFailed(id) PROVE Accounted'
  <2>1. SubmitterReward(pool) \in Int
    BY SubmitterRewardIsInt DEF Accounted
  <2>2. /\ pool' = 0 /\ taxPaid' = taxPaid + pool
        /\ UNCHANGED <<height, challengeId, challenges, target, slashAmount, deposit, opening, paid>>
    BY <1>3, <2>1 DEF AttestFailed, Accounted, blockVars, challengeVars, slashVars
  <2>3. LossExact'
    BY <2>2 DEF Accounted, LossExact
  <2> QED BY <2>2, <2>3 DEF Accounted
<1>4. ASSUME NEW id \in 1..challengeId, NEW n \in Quorum, AttestSucceed(id, n) PROVE Accounted'
  BY <1>4, AttestKeepsAccounted
<1>5. ASSUME NEW k \in KeptCounts, UpdateParams(k) PROVE Accounted'
  BY <1>1, <1>5 DEF UpdateParams, blockVars, challengeVars, slashVars, taxVars
<1>6. ASSUME NEW o \in Objects, NEW h \in Homes \cup {Gone}, MoveObject(o, h) PROVE Accounted'
  BY <1>1, <1>6 DEF MoveObject, blockVars, challengeVars, slashVars, taxVars
<1>7. ASSUME NEW sp \in Sps, ChangeStatus(sp) PROVE Accounted'
  BY <1>1, <1>7 DEF ChangeStatus, blockVars, challengeVars, slashVars, taxVars
<1>8. CASE EndBlocker
  <2>1. PICK n \in 0..ChallengeCountPerBlock : \E draws \in [1..n -> Candidates] : SaveChallenges(draws)
    BY <1>8 DEF EndBlocker
  <2>2. PICK draws \in [1..n -> Candidates] : SaveChallenges(draws)
    BY <2>1
  <2>3. draws \in Seq(Candidates) /\ Len(draws) \in Nat
    BY <2>2
  <2>4. \A i \in 1..Len(draws) : draws[i].sp \in Sps /\ draws[i].object \in Objects
    BY <2>3 DEF Candidates
  <2> QED BY <2>2, <2>3, <2>4, <1>8, SaveKeepsAccounted DEF EndBlocker, slashVars, taxVars
<1>9. CASE BeginBlocker
  BY <1>9, BeginKeepsAccounted
<1>10. CASE UNCHANGED vars
  BY <1>1, <1>10 DEF vars, blockVars, challengeVars, slashVars, taxVars
<1> QED
  BY <1>2, <1>3, <1>4, <1>5, <1>6, <1>7, <1>8, <1>9, <1>10 DEF Next

(* A provider's loss of a window is recorded and limited, and every coin   *)
(* taken from a deposit or from the tax pool is paid out                   *)
(* (doSlashAndRewards, Slash, doHeartbeatAndRewards, ClearSpSlashAmount).  *)
THEOREM LossesAccounted == Spec => []LossExact
<1>1. Accounted => LossExact
  BY DEF Accounted
<1> QED
  BY <1>1, InitAccounted, NextAccounted, PTL DEF Spec
=============================================================================
