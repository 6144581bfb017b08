-------------------------------- MODULE Sums --------------------------------
(***************************************************************************)
(* Sums of integer-valued functions over 1..n.  Addresses are numbered     *)
(* (the order of the store's keys), so a total over accounts is a sum of   *)
(* this kind.  A recursive function instead of a fold: its properties are  *)
(* proved in PaymentRecords, for the proofs about every total.             *)
(***************************************************************************)
EXTENDS Integers

(* The partial sums of f: PartialSum(f, n)[i] is f[1] + ... + f[i].        *)
PartialSum(f, n) ==
    LET s[i \in 0..n] == IF i = 0 THEN 0 ELSE s[i - 1] + f[i] IN s

Sum(f, n) == PartialSum(f, n)[n]
=============================================================================
