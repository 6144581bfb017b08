------------------------------ MODULE StateDB ------------------------------
(***************************************************************************)
(* x/evm/statedb: the state the interpreter works on during one Ethereum   *)
(* transaction.  Accounts are loaded from the keeper into state objects    *)
(* when first touched; every change appends what undoes it to a journal; a *)
(* snapshot is an index into the journal; Commit writes the objects the    *)
(* journal counts as dirty, and the next transaction starts from New.      *)
(*                                                                         *)
(* One method of StateDB is one action, and a code is its own hash.  The   *)
(* interpreter (go-ethereum) is external: what it calls, and when, is a    *)
(* guard named after it.                                                   *)
(***************************************************************************)
EXTENDS Integers, Sequences, FiniteSets, Functions, TLC

CONSTANTS
    Addresses, Keys, Slots, Values, Amounts, Nonces, Codes, Payloads, NoAccount, NoCode,
    Genesis,                                \* what the keeper may start with
    MaxJournal, MaxRevisions, MaxCommits    \* bounds of the instance

(* Amounts are not negative, nonces are numbers.                           *)
ASSUME StateDBAssumption ==
    /\ Amounts \subseteq Nat /\ Nonces \subseteq Nat
    /\ \A g \in Genesis, a \in Addresses : g.account[a] # NoAccount =>
          g.account[a].nonce \in Nat /\ g.account[a].balance \in Nat

VARIABLES
    s,                  \* objects, refund, logs, access list, transient storage
    journal, dirties,   \* undo entries; dirty accounts and how often changed
    validRevisions, nextRevisionID,
    keeper,             \* accounts, storage and codes in the stores
    commits

journalVars == <<journal, dirties>>
revisionVars == <<validRevisions, nextRevisionID>>
chainVars == <<keeper, commits>>
vars == <<s, journalVars, revisionVars, chainVars>>

With(f, k, x) == [j \in DOMAIN f \cup {k} |-> IF j = k THEN x ELSE f[j]]
Without(f, k) == Restrict(f, DOMAIN f \ {k})

-----------------------------------------------------------------------------
(* State objects.                                                          *)
newObject(account) ==
    [nonce |-> account.nonce, balance |-> account.balance, code |-> account.code,
     origin |-> <<>>, dirty |-> <<>>, dirtyCode |-> FALSE,
     suicided |-> FALSE, selfDestructed |-> FALSE, created |-> FALSE]

EmptyAccount == [nonce |-> 0, balance |-> 0, code |-> NoCode]

(* getStateObject: st with the object of a, if there is such an account.   *)
Loaded(st, a) ==
    IF a \in DOMAIN st.objects \/ keeper.account[a] = NoAccount THEN st
    ELSE [st EXCEPT !.objects = With(@, a, newObject(keeper.account[a]))]

Exist(a) == a \in DOMAIN s.objects \/ keeper.account[a] # NoAccount

GetCommittedState(o, a, k) == IF k \in DOMAIN o.origin THEN o.origin[k] ELSE keeper.storage[a, k]
GetState(o, a, k) == IF k \in DOMAIN o.dirty THEN o.dirty[k] ELSE GetCommittedState(o, a, k)

-----------------------------------------------------------------------------
(* The journal.  An entry has the account it marks dirty, or NoAccount.    *)
Entry(kind, a, k, prev) ==
    [kind |-> kind, account |-> a, key |-> k, prev |-> prev,
     dirtied |-> IF kind \in {"create", "balance", "nonce", "code", "storage", "suicide", "selfDestruct"}
                 THEN a ELSE NoAccount]

Count(d, e) ==
    IF e.dirtied = NoAccount THEN d
    ELSE With(d, e.dirtied, IF e.dirtied \in DOMAIN d THEN d[e.dirtied] + 1 ELSE 1)

(* Mutant: the first change undone makes an account clean.                 *)
UncountAll(d, e) == IF e.dirtied = NoAccount THEN d ELSE Without(d, e.dirtied)

Uncount(d, e) ==
    IF e.dirtied = NoAccount THEN d
    ELSE IF d[e.dirtied] = 1 THEN Without(d, e.dirtied) ELSE [d EXCEPT ![e.dirtied] = @ - 1]

(* journal.append, of one entry after the other.                           *)
Counted(entries) ==
    LET up[i \in 0..Len(entries)] == IF i = 0 THEN dirties ELSE Count(up[i - 1], entries[i])
    IN up[Len(entries)]

(* A method's effect: the new state and the entries it appends.            *)
Record(st, entries) ==
    /\ Len(journal) + Len(entries) <= MaxJournal    \* bound
    /\ s' = st
    /\ journal' = journal \o entries
    /\ dirties' = Counted(entries)
    /\ UNCHANGED <<revisionVars, chainVars>>

(* Mutant: the address keeps the index of the slot set cut off.            *)
DeleteSlotKeepsIndex(st, a, k) ==
    LET idx == st.addresses[a]
        rest == st.slots[idx] \ {k}
    IN [st EXCEPT !.slots = IF rest = {} THEN SubSeq(@, 1, idx - 1) ELSE [@ EXCEPT ![idx] = rest]]

(* DeleteSlot truncates the list of slot sets where the last slot of an    *)
(* address was, trusting that sets are emptied in the reverse order.       *)
DeleteSlot(st, a, k) ==
    LET idx == st.addresses[a]
        rest == st.slots[idx] \ {k}
    IN IF rest = {} THEN [st EXCEPT !.slots = SubSeq(@, 1, idx - 1), !.addresses[a] = 0]
       ELSE [st EXCEPT !.slots[idx] = rest]

(* The Revert methods of the entries.                                      *)
Undo(e, st) ==
    LET a == e.account
    IN CASE e.kind = "create" -> [st EXCEPT !.objects = Without(@, a)]
         [] e.kind = "reset" -> [st EXCEPT !.objects[a] = e.prev]
         [] e.kind = "balance" -> [st EXCEPT !.objects[a].balance = e.prev]
         [] e.kind = "nonce" -> [st EXCEPT !.objects[a].nonce = e.prev]
         [] e.kind = "code" -> [st EXCEPT !.objects[a].code = e.prev, !.objects[a].dirtyCode = TRUE]
         [] e.kind = "storage" -> [st EXCEPT !.objects[a].dirty = With(@, e.key, e.prev)]
         [] e.kind = "suicide" -> [st EXCEPT !.objects[a].suicided = e.prev.flag,
                                             !.objects[a].balance = e.prev.balance]
         [] e.kind = "selfDestruct" -> [st EXCEPT !.objects[a].selfDestructed = e.prev.flag,
                                                  !.objects[a].balance = e.prev.balance]
         [] e.kind = "refund" -> [st EXCEPT !.refund = e.prev]
         [] e.kind = "log" -> [st EXCEPT !.logs = SubSeq(@, 1, Len(@) - 1)]
         [] e.kind = "transient" -> [st EXCEPT !.transient[<<a, e.key>>] = e.prev]
         [] e.kind = "accessAccount" -> [st EXCEPT !.addresses = Without(@, a)]
         [] e.kind = "accessSlot" -> DeleteSlot(st, a, e.key)

-----------------------------------------------------------------------------
(* Mutant: an object that replaces another is not journaled.               *)
createObjectUnlogged(st, a) ==
    [st |-> [st EXCEPT !.objects = With(@, a, [newObject(EmptyAccount) EXCEPT !.created = a \notin DOMAIN st.objects])],
     entries |-> IF a \in DOMAIN st.objects THEN <<>> ELSE <<Entry("create", a, NoAccount, NoAccount)>>]

(* createObject, on a state in which a is loaded if it exists.             *)
createObject(st, a) ==
    IF a \in DOMAIN st.objects
    THEN [st |-> [st EXCEPT !.objects[a] = newObject(EmptyAccount)],
          entries |-> <<Entry("reset", a, NoAccount, st.objects[a])>>]
    ELSE [st |-> [st EXCEPT !.objects = With(@, a, [newObject(EmptyAccount) EXCEPT !.created = TRUE])],
          entries |-> <<Entry("create", a, NoAccount, NoAccount)>>]

getOrNewStateObject(a) ==
    LET st == Loaded(s, a)
    IN IF a \in DOMAIN st.objects THEN [st |-> st, entries |-> <<>>] ELSE createObject(st, a)

(* SetBalance of a state object, by way of AddBalance or SubBalance.       *)
ChangeBalance(a, x) ==
    LET g == getOrNewStateObject(a)
    IN IF x = 0 THEN Record(g.st, g.entries)
       ELSE Record([g.st EXCEPT !.objects[a].balance = @ + x],
                   Append(g.entries, Entry("balance", a, NoAccount, g.st.objects[a].balance)))

AddBalance(a, x) == ChangeBalance(a, x)

(* The interpreter looks first whether the account can pay (CanTransfer).  *)
SubBalance(a, x) ==
    /\ x <= IF Exist(a) THEN Loaded(s, a).objects[a].balance ELSE 0
    /\ ChangeBalance(a, -x)

SetNonce(a, n) ==
    LET g == getOrNewStateObject(a)
    IN Record([g.st EXCEPT !.objects[a].nonce = n],
              Append(g.entries, Entry("nonce", a, NoAccount, g.st.objects[a].nonce)))

SetCode(a, c) ==
    LET g == getOrNewStateObject(a)
    IN Record([g.st EXCEPT !.objects[a].code = c, !.objects[a].dirtyCode = TRUE],
              Append(g.entries, Entry("code", a, NoAccount, g.st.objects[a].code)))

(* SetState, of a contract that runs: it has code or is being created.     *)
HasNonceOrCode(a) == LET o == Loaded(s, a).objects[a] IN o.nonce # 0 \/ o.code # NoCode
SetState(a, k, v) ==
    LET g == getOrNewStateObject(a)
        o == g.st.objects[a]
        prev == GetState(o, a, k)
        read == IF k \in DOMAIN o.dirty THEN g.st
                ELSE [g.st EXCEPT !.objects[a].origin = With(@, k, prev)]
    IN /\ Exist(a) /\ HasNonceOrCode(a)
       /\ IF prev = v THEN Record(read, g.entries)
          ELSE Record([read EXCEPT !.objects[a].dirty = With(@, k, v)],
                      Append(g.entries, Entry("storage", a, k, prev)))

(* CreateAccount: by a call of an address without account, or by a         *)
(* creation, which accepts an account without nonce and code, keeps its    *)
(* balance, and sets the nonce.                                            *)
CreateAccount(a) ==
    LET c == createObject(Loaded(s, a), a)
    IN ~Exist(a) /\ Record(c.st, c.entries)

CreateContract(a) ==
    LET old == Loaded(s, a)
        c == createObject(old, a)
        kept == IF Exist(a) THEN old.objects[a].balance ELSE 0
    IN /\ Exist(a) => ~HasNonceOrCode(a)
       /\ Record([c.st EXCEPT !.objects[a].balance = kept, !.objects[a].nonce = 1],
                 Append(c.entries, Entry("nonce", a, NoAccount, 0)))

Suicide(a) ==
    LET o == Loaded(s, a).objects[a]
    IN /\ Exist(a)
       /\ Record([Loaded(s, a) EXCEPT !.objects[a].suicided = TRUE, !.objects[a].balance = 0],
                 <<Entry("suicide", a, NoAccount, [flag |-> o.suicided, balance |-> o.balance])>>)

SelfDestruct(a) ==
    LET o == Loaded(s, a).objects[a]
    IN /\ Exist(a)
       /\ Record([Loaded(s, a) EXCEPT !.objects[a].selfDestructed = TRUE, !.objects[a].balance = 0],
                 <<Entry("selfDestruct", a, NoAccount, [flag |-> o.selfDestructed, balance |-> o.balance])>>)

(* Only an account created in this transaction is destroyed.               *)
Selfdestruct6780(a) ==
    /\ Exist(a)
    /\ IF Loaded(s, a).objects[a].created THEN SelfDestruct(a) ELSE Record(Loaded(s, a), <<>>)

-----------------------------------------------------------------------------
(* What is not in accounts.                                                *)
AddRefund(x) == Record([s EXCEPT !.refund = @ + x], <<Entry("refund", NoAccount, NoAccount, s.refund)>>)
SubRefund(x) == x <= s.refund /\ AddRefund(-x)

AddLog(p) == Record([s EXCEPT !.logs = Append(@, p)], <<Entry("log", NoAccount, NoAccount, NoAccount)>>)

SetTransientState(a, k, v) ==
    /\ s.transient[a, k] # v
    /\ Record([s EXCEPT !.transient[<<a, k>>] = v], <<Entry("transient", a, k, s.transient[a, k])>>)

(* The access list: addresses with the index of their slot set, 0 for none.*)
AddAddressToAccessList(a) ==
    /\ a \notin DOMAIN s.addresses
    /\ Record([s EXCEPT !.addresses = With(@, a, 0)], <<Entry("accessAccount", a, NoAccount, NoAccount)>>)

AddSlotToAccessList(a, k) ==
    LET known == a \in DOMAIN s.addresses
        idx == IF known THEN s.addresses[a] ELSE 0
        new == IF known THEN <<>> ELSE <<Entry("accessAccount", a, NoAccount, NoAccount)>>
    IN /\ idx # 0 => k \notin s.slots[idx]
       /\ Record(IF idx = 0
                 THEN [s EXCEPT !.addresses = With(@, a, Len(s.slots) + 1), !.slots = Append(@, {k})]
                 ELSE [s EXCEPT !.slots[idx] = @ \cup {k}],
                 Append(new, Entry("accessSlot", a, k, NoAccount)))

-----------------------------------------------------------------------------
(* Snapshots.                                                              *)
Snapshot ==
    /\ nextRevisionID < MaxRevisions    \* bound
    /\ validRevisions' = Append(validRevisions, [id |-> nextRevisionID, index |-> Len(journal)])
    /\ nextRevisionID' = nextRevisionID + 1
    /\ UNCHANGED <<s, journalVars, chainVars>>

(* The search stops at the first revision with an id not below revid, and  *)
(* the method panics unless it has that id.                                *)
Finds(revid, idx) ==
    /\ validRevisions[idx].id = revid
    /\ \A j \in 1..(idx - 1) : validRevisions[j].id < revid

(* journal.Revert, from the last entry down to index n.                    *)
Undone(n) ==
    LET down[i \in n..Len(journal)] == IF i = Len(journal) THEN s ELSE Undo(journal[i + 1], down[i + 1])
    IN down[n]
Uncounted(n) ==
    LET down[i \in n..Len(journal)] ==
            IF i = Len(journal) THEN dirties ELSE Uncount(down[i + 1], journal[i + 1])
    IN down[n]
Revert(n) ==
    /\ s' = Undone(n)
    /\ dirties' = Uncounted(n)
    /\ journal' = SubSeq(journal, 1, n)

(* Mutant: the revisions taken since stay valid.                           *)
RevertKeepsRevisions(revid) ==
    /\ \E idx \in DOMAIN validRevisions : Finds(revid, idx) /\ Revert(validRevisions[idx].index)
    /\ UNCHANGED <<revisionVars, chainVars>>

RevertToSnapshot(revid) ==
    /\ \E idx \in DOMAIN validRevisions :
          /\ Finds(revid, idx)
          /\ Revert(validRevisions[idx].index)
          /\ validRevisions' = SubSeq(validRevisions, 1, idx - 1)
    /\ UNCHANGED <<nextRevisionID, chainVars>>

-----------------------------------------------------------------------------
(* The end of a transaction.                                               *)
Destroyed(o) == o.suicided \/ o.selfDestructed

(* The keeper after Commit.  DeleteAccount clears the storage, except of   *)
(* an address that has no account.                                         *)
Committed ==
    LET dirty == DOMAIN dirties
        Deleted(a) == Destroyed(s.objects[a])
        Origin(o, k) == IF k \in DOMAIN o.origin THEN o.origin[k] ELSE 0
        Changed(o, k) == k \in DOMAIN o.dirty /\ o.dirty[k] # Origin(o, k)
    IN [account |-> [a \in Addresses |->
            IF a \notin dirty THEN keeper.account[a]
            ELSE IF Deleted(a) THEN NoAccount
            ELSE [nonce |-> s.objects[a].nonce, balance |-> s.objects[a].balance, code |-> s.objects[a].code]],
        storage |-> [x \in Addresses \X Keys |->
            LET a == x[1]
                k == x[2]
            IN IF a \notin dirty THEN keeper.storage[x]
               ELSE IF Deleted(a) THEN (IF keeper.account[a] = NoAccount THEN keeper.storage[x] ELSE 0)
               ELSE IF Changed(s.objects[a], k) THEN s.objects[a].dirty[k]
               ELSE keeper.storage[x]],
        codes |-> keeper.codes \cup
            {s.objects[a].code : a \in {x \in dirty : ~Deleted(x) /\ s.objects[x].dirtyCode}}]

NewState ==
    [objects |-> <<>>, refund |-> 0, logs |-> <<>>, addresses |-> <<>>, slots |-> <<>>,
     transient |-> [x \in Addresses \X Keys |-> 0]]

New ==
    /\ s' = NewState
    /\ journal' = <<>> /\ dirties' = <<>> /\ validRevisions' = <<>> /\ nextRevisionID' = 0

Commit ==
    /\ commits < MaxCommits    \* bound
    /\ commits' = commits + 1
    /\ keeper' = Committed
    /\ New

(* ApplyMessageWithConfig without commit, or failing.                      *)
Discard == New /\ UNCHANGED chainVars

-----------------------------------------------------------------------------
Init ==
    /\ keeper \in Genesis
    /\ s = NewState
    /\ journal = <<>> /\ dirties = <<>> /\ validRevisions = <<>> /\ nextRevisionID = 0
    /\ commits = 0

AccountMethod(a) ==
    \/ \E x \in Amounts : AddBalance(a, x) \/ SubBalance(a, x)
    \/ \E n \in Nonces : SetNonce(a, n)
    \/ \E c \in Codes : SetCode(a, c)
    \/ \E k \in Keys, v \in Values : SetState(a, k, v)
    \/ CreateAccount(a)
    \/ CreateContract(a)
    \/ Suicide(a)
    \/ SelfDestruct(a)
    \/ Selfdestruct6780(a)

OtherMethod ==
    \/ \E x \in Amounts : AddRefund(x) \/ SubRefund(x)
    \/ \E p \in Payloads : AddLog(p)
    \/ \E a \in Addresses :
          \/ AddAddressToAccessList(a)
          \/ \E k \in Slots : AddSlotToAccessList(a, k)
          \/ \E k \in Keys, v \in Values : SetTransientState(a, k, v)

Next ==
    \/ \E a \in Addresses : AccountMethod(a)
    \/ OtherMethod
    \/ Snapshot
    \/ \E revid \in 0..(nextRevisionID - 1) : RevertToSnapshot(revid)
    \/ Commit
    \/ Discard

Spec == Init /\ [][Next]_vars

-----------------------------------------------------------------------------
(* Properties.                                                             *)

(* State objects and access list indices belong to known addresses.        *)
TypeOK ==
    /\ DOMAIN s.objects \subseteq Addresses /\ DOMAIN s.addresses \subseteq Addresses
    /\ \A a \in DOMAIN s.objects : s.objects[a].balance >= 0 /\ s.objects[a].nonce \in Nat
    /\ \A a \in DOMAIN s.addresses : s.addresses[a] \in 0..Len(s.slots)
    /\ s.refund \in Nat /\ nextRevisionID \in Nat

(* The journal counts, per account, exactly the entries that mark it dirty *)
(* (append and Revert keep the count in step), and every account an entry  *)
(* is about has a live state object: neither the Revert of an entry nor    *)
(* Commit, which follow the journal, can meet a nil object.                *)
JournalExact ==
    /\ DOMAIN dirties = {journal[i].dirtied : i \in DOMAIN journal} \ {NoAccount}
    /\ \A a \in DOMAIN dirties :
          dirties[a] = Cardinality({i \in DOMAIN journal : journal[i].dirtied = a})
    /\ DOMAIN dirties \subseteq DOMAIN s.objects

(* The binary search of RevertToSnapshot is over ascending ids, and the    *)
(* positions they stand for are ascending and within the journal.          *)
RevisionsOrdered ==
    \A i \in DOMAIN validRevisions :
        /\ validRevisions[i].index <= Len(journal)
        /\ validRevisions[i].id < nextRevisionID
        /\ \A j \in 1..(i - 1) : /\ validRevisions[j].id < validRevisions[i].id
                                  /\ validRevisions[j].index <= validRevisions[i].index

-----------------------------------------------------------------------------
(* The world of EvmWorld that a state stands for.                          *)
CodeAt(c, known) == IF known \/ c \in keeper.codes THEN c ELSE NoAccount
Stored(a) ==
    IF keeper.account[a] = NoAccount THEN NoAccount
    ELSE [nonce |-> keeper.account[a].nonce, balance |-> keeper.account[a].balance,
          code |-> CodeAt(keeper.account[a].code, FALSE),
          storage |-> [k \in Keys |-> keeper.storage[a, k]], destructed |-> FALSE, created |-> FALSE]
Chain == [a \in Addresses |-> Stored(a)]

Live(o, a) ==
    [nonce |-> o.nonce, balance |-> o.balance, code |-> CodeAt(o.code, o.dirtyCode),
     storage |-> [k \in Keys |-> GetState(o, a, k)], destructed |-> Destroyed(o), created |-> o.created]
WorldOf(st) ==
    [account |-> [a \in Addresses |-> IF a \in DOMAIN st.objects THEN Live(st.objects[a], a) ELSE Stored(a)],
     refund |-> st.refund, logs |-> st.logs, addresses |-> DOMAIN st.addresses,
     slots |-> {x \in Addresses \X Slots :
                  x[1] \in DOMAIN st.addresses /\ st.addresses[x[1]] # 0 /\ x[2] \in st.slots[st.addresses[x[1]]]},
     transient |-> st.transient]

Marks ==
    [i \in DOMAIN validRevisions |->
        [id |-> validRevisions[i].id,
         world |-> WorldOf(Undone(validRevisions[i].index))]]

World == INSTANCE EvmWorld WITH
            world <- WorldOf(s), marks <- Marks, nextId <- nextRevisionID, chain <- Chain

(* StateDB keeps the promise of EvmWorld: each method changes the world as *)
(* the interpreter expects and no snapshot changes with it, going back to  *)
(* a snapshot restores all of that world, through accounts created, reset, *)
(* destroyed and nested snapshots, and Commit puts exactly the accounts of *)
(* the world on the chain.                                                 *)
ImplementsWorld == World!Spec
=============================================================================
