--------------------------- MODULE AttestationLog ---------------------------
(***************************************************************************)
(* What x/challenge promises of its record of attested challenges: a log   *)
(* to which every attestation is appended and which keeps the newest as    *)
(* many as the parameter says at that moment.                              *)
(***************************************************************************)
EXTENDS Naturals, Sequences

CONSTANT Attestations    \* what may be attested

VARIABLES log, kept

Newest(seq, n) == IF Len(seq) <= n THEN seq ELSE SubSeq(seq, Len(seq) - n + 1, Len(seq))

Attested(c) == log' = Newest(Append(log, c), kept) /\ UNCHANGED kept
KeepOther == kept' \in Nat \ {0} /\ UNCHANGED log

Init == log = <<>> /\ kept \in Nat \ {0}
Next == KeepOther \/ \E c \in Attestations : Attested(c)
Spec == Init /\ [][Next]_<<log, kept>>
=============================================================================
