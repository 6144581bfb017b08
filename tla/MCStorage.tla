----------------------------- MODULE MCStorage -----------------------------
(***************************************************************************)
(* An instance of Storage for TLC.  With every input at once and two       *)
(* objects the state space is out of reach, so a behaviour belongs to one  *)
(* of three scenarios, each of which keeps some inputs to itself:          *)
(*   one    a single object, and every message, but a bucket with a limit  *)
(*          is not migrated;                                               *)
(*   pair   two objects sharing groups, and either updates or a new price, *)
(*          either a bucket or objects discontinued; one account, no       *)
(*          limit, no migration;                                           *)
(*   moved  two objects, one of them sealed before the other moves: limits,*)
(*          accounts and migration; one price, nothing discontinued or     *)
(*          updated.                                                       *)
(* Buckets are created in family 1, and of two objects the first is named  *)
(* 1: what is left out differs by the order of names only.                 *)
(***************************************************************************)
EXTENDS Storage

VARIABLE scenario

TwoFamilies == <<<<1, 2>>, <<3>>>>
Tariff1 == <<2, 1>>
TwoTariffs == {Tariff1, <<3, 2>>}
OthersLimits == {<<"other", 0>>, <<"other", 5>>}
Moves == {[g \in 1..3 |-> IF g = 3 THEN 1 ELSE 3]}

Within ==
    CASE scenario = "one" -> nextObject <= 2 /\ (limit = <<>> \/ migration = {})
      [] scenario = "pair" ->
            /\ limit = <<>> /\ migration = {}
            /\ DOMAIN priceLog = {0} \/ shadow = <<>>
            /\ DOMAIN bucketQueue = {} \/ DOMAIN objectQueue = {}
            /\ \A b \in DOMAIN bucket : /\ bucket[b].account = "own"
                                        /\ bucket[b].quota = 1
      [] scenario = "moved" ->
            /\ DOMAIN priceLog = {0} /\ DOMAIN objectQueue = {} /\ DOMAIN bucketQueue = {}
            /\ shadow = <<>> /\ \A id \in DOMAIN object : object[id].updatedAt = 0
            /\ \A b \in DOMAIN bucket : bucket[b].quota = 1

MCInit == Init /\ scenario \in {"one", "pair", "moved"}
InFamily1 == \A b \in DOMAIN bucket' \ DOMAIN bucket : bucket'[b].family = 1
NamedInOrder == \A id \in DOMAIN object : object[id].name = id

MCNext == Next /\ UNCHANGED scenario /\ InFamily1 /\ (NamedInOrder /\ Within)'
MCSpec == MCInit /\ [][MCNext]_<<vars, scenario>>
=============================================================================
