------------------------------ MODULE MCGroups ------------------------------
(***************************************************************************)
(* Two groups of one family.  A behaviour belongs to one of two scenarios: *)
(*   places  who is in which group: maintenance, exits and reservations    *)
(*           that expire; the groups stay empty;                           *)
(*   stakes  what is staked, stored and earned: deposits, objects, prices  *)
(*           and income; everybody stays in service.                       *)
(* What does not meet in one handler is kept apart: time passes only while *)
(* a reservation can expire and nobody has an open maintenance record, and *)
(* the staking price changes only while nothing is earned.                 *)
(***************************************************************************)
EXTENDS MCVirtualGroup

VARIABLE scenario

Within ==
    CASE scenario = "places" ->
            /\ now = 0 \/ lapsed = {}
            /\ \A p \in lapsed : ~InService(p)
            /\ price = 1 /\ \A k \in Keys : income[k] = 0
            /\ \A g \in DOMAIN gvg : gvg[g].charged = 0 /\ gvg[g].deposit = 1
      [] scenario = "stakes" ->
            /\ now = 0 /\ lapsed = {} /\ \A p \in Providers : InService(p)
            /\ price = 1 \/ \A k \in Keys : income[k] = 0

MCInit == Init /\ scenario \in {"places", "stakes"} /\ Within
MCNext ==
    /\ Next /\ UNCHANGED scenario
    /\ now' > now => swapIn # <<>>
    /\ Within'
MCSpec == MCInit /\ [][MCNext]_<<vars, scenario>>
=============================================================================
