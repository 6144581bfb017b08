----------------------------- MODULE MCStateDB -----------------------------
(***************************************************************************)
(* An instance of StateDB for TLC.  The methods on accounts and the others *)
(* share the journal and nothing else, so a behaviour is of one scenario:  *)
(*   one     one account, long journals and nested snapshots;              *)
(*   two     two accounts and every method on them;                        *)
(*   others  logs, refund, access list, transient storage.                 *)
(***************************************************************************)
EXTENDS StateDB

VARIABLE scenario

(* No account, an account with a balance, a contract with storage.         *)
Start(account, value) ==
    [account |-> ("a" :> account @@ "b" :> NoAccount),
     storage |-> [x \in {"a", "b"} \X {1} |-> IF x[1] = "a" THEN value ELSE 0],
     codes |-> {NoCode, "c"}]
ThreeStarts ==
    {Start(NoAccount, 0),
     Start([nonce |-> 0, balance |-> 1, code |-> NoCode], 0),
     Start([nonce |-> 1, balance |-> 1, code |-> "c"], 1)}

AccountKinds == {"create", "reset", "balance", "nonce", "code", "storage", "suicide"}

Kinds == {journal[i].kind : i \in DOMAIN journal}
Touched == {journal[i].account : i \in DOMAIN journal}

Within ==
    CASE scenario = "one" ->
            /\ commits = 1 => journal = <<>> /\ nextRevisionID = 0
            /\ Kinds \subseteq AccountKinds \ {"code"} /\ Touched \subseteq {"a"}
            /\ \A a \in DOMAIN s.objects : s.objects[a].nonce <= 1
      [] scenario = "two" ->
            /\ commits = 1 => Len(journal) <= 2 /\ nextRevisionID = 0
            /\ Kinds \subseteq AccountKinds \cup {"selfDestruct"}
            /\ nextRevisionID <= 1 /\ keeper.account["b"] = NoAccount
      [] scenario = "others" ->
            /\ commits = 1 => journal = <<>> /\ nextRevisionID = 0
            /\ s.objects = <<>> /\ s.transient["b", 1] = 0

MCInit ==
    /\ Init /\ scenario \in {"one", "two", "others"}
    /\ (scenario = "one") = (keeper.account["a"] # NoAccount)
MCNext == Next /\ UNCHANGED scenario /\ Within'
MCSpec == MCInit /\ [][MCNext]_<<vars, scenario>>
=============================================================================
