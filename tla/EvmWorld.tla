------------------------------ MODULE EvmWorld ------------------------------
(***************************************************************************)
(* What x/evm/statedb promises the interpreter: one world of accounts and  *)
(* per-transaction scratch data that every call changes in place, a stack  *)
(* of copies of it to go back to, and a chain that takes over the accounts *)
(* when the transaction is committed.  No cache, no journal, no dirty      *)
(* accounts: those are how StateDB keeps the promise.                      *)
(***************************************************************************)
EXTENDS Integers, Sequences, FiniteSets

CONSTANTS Addresses, Keys, Slots, Values, Amounts, Nonces, Codes, Payloads, NoAccount, NoCode

VARIABLES
    world,      \* accounts, refund, logs, access list, transient storage
    marks,      \* the snapshots: an id and a copy of the world
    nextId,
    chain       \* the accounts as committed

vars == <<world, marks, nextId, chain>>

Blank == [nonce |-> 0, balance |-> 0, code |-> NoCode, storage |-> [k \in Keys |-> 0],
          destructed |-> FALSE, created |-> FALSE]

Opened(c) ==
    [account |-> c, refund |-> 0, logs |-> <<>>, addresses |-> {}, slots |-> {},
     transient |-> [x \in Addresses \X Keys |-> 0]]

(* What one call of the interpreter about a may make of world w.           *)
Outcomes(w, a) ==
    LET exists == w.account[a] # NoAccount
        old == IF exists THEN w.account[a] ELSE [Blank EXCEPT !.created = TRUE]
        Put(acct) == [w EXCEPT !.account[a] = acct]
        destroyed == [old EXCEPT !.balance = 0, !.destructed = TRUE]
        contract == [Blank EXCEPT !.balance = old.balance, !.nonce = 1, !.created = ~exists]
    IN  {Put([old EXCEPT !.balance = @ + x]) : x \in Amounts}
        \cup {Put([old EXCEPT !.balance = @ - x]) : x \in {y \in Amounts : y <= old.balance}}
        \cup {Put([old EXCEPT !.nonce = n]) : n \in Nonces}
        \cup {Put([old EXCEPT !.code = c]) : c \in Codes}
        \cup {Put([old EXCEPT !.storage[k] = v]) : k \in Keys, v \in Values}
        \cup {Put(old), Put(contract)} \cup (IF exists THEN {Put(destroyed)} ELSE {})
        \cup {[w EXCEPT !.refund = @ + x] : x \in Amounts}
        \cup {[w EXCEPT !.refund = @ - x] : x \in {y \in Amounts : y <= w.refund}}
        \cup {[w EXCEPT !.logs = Append(@, p)] : p \in Payloads}
        \cup {[w EXCEPT !.transient[<<a, k>>] = v] : k \in Keys, v \in Values}
        \cup {[w EXCEPT !.addresses = @ \cup {a}, !.slots = @ \cup ks] :
                 ks \in {{}} \cup {{<<a, k>>} : k \in Slots}}

Write ==
    /\ UNCHANGED <<nextId, chain>>
    /\ \E a \in Addresses : world' \in Outcomes(world, a)
    /\ UNCHANGED marks

Mark ==
    /\ nextId' = nextId + 1
    /\ marks' = Append(marks, [id |-> nextId, world |-> world])
    /\ UNCHANGED <<world, chain>>

(* Back to a snapshot: the world is what it was, and the snapshots taken   *)
(* since, and the one gone back to, are used up.                           *)
GoBack ==
    /\ UNCHANGED <<nextId, chain>>
    /\ \E i \in DOMAIN marks :
          /\ marks' = SubSeq(marks, 1, i - 1)
          /\ world' = marks[i].world

(* A transaction ends: with its accounts on the chain, or without.         *)
Persisted(acct) ==
    IF acct = NoAccount THEN NoAccount
    ELSE IF acct.destructed THEN NoAccount
    ELSE [acct EXCEPT !.created = FALSE]
End ==
    /\ nextId' = 0
    /\ \/ chain' = [a \in Addresses |-> Persisted(world.account[a])]
       \/ chain' = chain
    /\ world' = Opened(chain')
    /\ marks' = <<>>

Init ==
    /\ chain \in [Addresses -> {NoAccount} \cup
                     [nonce : Nat, balance : Nat, code : Codes \cup {NoCode},
                      storage : [Keys -> Values], destructed : {FALSE}, created : {FALSE}]]
    /\ world = Opened(chain) /\ marks = <<>> /\ nextId = 0

Next == Write \/ Mark \/ GoBack \/ End
Spec == Init /\ [][Next]_vars
=============================================================================
