---------------------------- MODULE MCChallenge ----------------------------
(***************************************************************************)
(* An instance of Challenge for TLC.  A behaviour is of one scenario:      *)
(*   slash  two providers, two objects, challenges and slashes of all;     *)
(*   moves  the same with fewer challenges, while objects and providers    *)
(*          move;                                                          *)
(*   log    challenges of one pair, heartbeats, a changing parameter.      *)
(***************************************************************************)
EXTENDS Challenge

VARIABLE scenario

TwoSizes == [o \in {1, 2} |-> IF o = 1 THEN 5 ELSE 2]
First == [primary |-> 1, secondaries |-> {2}, sealed |-> TRUE]
ThreeHomes == {First, [First EXCEPT !.sealed = FALSE], [First EXCEPT !.primary = 2, !.secondaries = {}]}
TwoDeposits == [sp \in {1, 2} |-> IF sp = 1 THEN 20 ELSE 7]

(* Time ends at the bound.                                                 *)
LastBlock == IF scenario = "moves" THEN 4 ELSE MaxHeight

AtHome == home = [o \in Objects |-> First]
Within ==
    CASE scenario = "slash" -> AtHome /\ serving = Sps /\ kept = 1 /\ taxPaid = 0
      [] scenario = "moves" -> /\ home[2] = First /\ 1 \in serving /\ kept = 1 /\ taxPaid = 0
                               /\ challengeId <= 2 /\ height <= LastBlock
      [] scenario = "log" -> /\ AtHome /\ serving = Sps
                             /\ \A id \in DOMAIN target : target[id].sp = 1 /\ target[id].object = 1

MCInit ==
    /\ Init /\ scenario \in {"slash", "moves", "log"}
    /\ AtHome /\ (scenario = "log" \/ kept = 1)
Horizon == height = LastBlock /\ ~inBlock /\ UNCHANGED vars
MCNext == (Next \/ Horizon) /\ UNCHANGED scenario /\ Within'
MCSpec == MCInit /\ [][MCNext]_<<vars, scenario>>
=============================================================================
