--------------------------- MODULE MCEventSystem ---------------------------
(* A small instance of EventSystem for TLC: what the filters of two topics *)
(* share is filtersMu and the event loop, so the filters of a behaviour    *)
(* are of one kind.                                                        *)
EXTENDS EventSystem

OneKind == \A f, g \in Ids : kind[f] = kind[g]
MCInit == Init /\ OneKind
MCSpec == MCInit /\ [][Next]_vars /\ Fairness
=============================================================================
