------------------------- MODULE EventSystemProofs -------------------------
(***************************************************************************)
(* What the locks of the filter API achieve, for any number of filters:    *)
(* nothing is removed twice and no topic is installed over a live one.     *)
(***************************************************************************)
EXTENDS EventSystem, TLAPS

(* The creations that are under way.                                       *)
Busy(f) == call[f] \in {"topics", "request", "install", "subscribe", "register"}

(* A listed filter has not been handed over for removal, and one that is   *)
(* not created yet is not listed; so each is handed over at most once.     *)
ListedOrGone ==
    /\ filters \subseteq Ids
    /\ call \in [Ids -> {"none", "topics", "request", "install", "subscribe", "register", "done", "failed"}]
    /\ uninstall \in [Ids -> Nat] /\ errClosed \in [Ids -> Nat]
    /\ \A f \in Ids : f \in filters \/ call[f] # "done" => uninstall[f] = 0 /\ errClosed[f] = 0
    /\ \A f \in filters : call[f] = "done"
    /\ UninstalledOnce

(* A creation under way holds filtersMu, so there is one at most, and from *)
(* its lookup until it has the topic installed the bus does not have it.   *)
OneInstalls ==
    /\ call \in [Ids -> {"none", "topics", "request", "install", "subscribe", "register", "done", "failed"}]
    /\ \A f \in Ids : Busy(f) => mu = f
    /\ \A f \in Ids : call[f] \in {"request", "install"} => kind[f] \notin DOMAIN topics

(* The steps of a creation before the filter is listed.                    *)
LEMMA CallKeepsListed ==
    ASSUME ListedOrGone, NEW f \in Ids, call[f] # "done",
           NEW to \in {"topics", "request", "install", "subscribe", "register", "failed"},
           call' = [call EXCEPT ![f] = to], UNCHANGED <<filters, uninstall, errClosed>>
    PROVE  ListedOrGone'
BY DEF ListedOrGone, UninstalledOnce

(* A filter that is listed and served.                                     *)
LEMMA RegisterKeepsListed ==
    ASSUME ListedOrGone, NEW f \in Ids, Register(f)
    PROVE  ListedOrGone'
BY DEF ListedOrGone, UninstalledOnce, Register

(* The event loop takes a removal and closes the err channel.              *)
LEMMA UninstallKeepsListed ==
    ASSUME ListedOrGone, NEW f \in Ids, Uninstall(f)
    PROVE  ListedOrGone'
BY DEF ListedOrGone, UninstalledOnce, Uninstall, apiVars

(* Filters are delisted and handed over for removal in one section.        *)
LEMMA HandOverKeepsListed ==
    ASSUME ListedOrGone, NEW gone \in SUBSET filters, Unsubscribe(gone),
           filters' = filters \ gone, UNCHANGED <<call, errClosed>>
    PROVE  ListedOrGone'
BY DEF ListedOrGone, UninstalledOnce, Unsubscribe

(* Filters are only delisted.                                              *)
LEMMA DelistKeepsListed ==
    ASSUME ListedOrGone, filters' \subseteq filters, UNCHANGED <<call, uninstall, errClosed>>
    PROVE  ListedOrGone'
BY DEF ListedOrGone, UninstalledOnce

(* Every step keeps ListedOrGone.                                          *)
LEMMA NextListed == ListedOrGone /\ [Next]_vars => ListedOrGone'
<1> SUFFICES ASSUME ListedOrGone, [Next]_vars PROVE ListedOrGone'
  OBVIOUS
<1> DEFINE Rest == filters' \subseteq filters /\ UNCHANGED <<call, uninstall, errClosed>>
<1>1. ASSUME NEW f \in Ids, NewFilter(f) \/ LookUp(f) \/ Request(f) \/ FindTopic(f) \/ Install(f)
      PROVE  ListedOrGone'
  <2>1. UNCHANGED <<filters, uninstall, errClosed>> /\ call[f] # "done"
    BY <1>1 DEF NewFilter, LookUp, Request, FindTopic, Install, apiVars
  <2>2. \E to \in {"topics", "request", "install", "subscribe", "register", "failed"} :
            call' = [call EXCEPT ![f] = to]
    BY <1>1 DEF NewFilter, LookUp, Request, FindTopic, Install, Goes, Fails
  <2> QED
    BY <2>1, <2>2, CallKeepsListed
<1>2. ASSUME NEW f \in Ids, Register(f) PROVE ListedOrGone'
  BY <1>2, RegisterKeepsListed
<1>3. ASSUME NEW f \in Ids, Uninstall(f) PROVE ListedOrGone'
  BY <1>3, UninstallKeepsListed
<1>4. ASSUME NEW f \in Ids, UninstallFilter(f) PROVE ListedOrGone'
  <2>1. {f} \in SUBSET filters /\ Unsubscribe({f}) /\ filters' = filters \ {f} /\ UNCHANGED <<call, errClosed>>
    BY <1>4 DEF UninstallFilter
  <2> QED
    BY <2>1, HandOverKeepsListed
<1>5. CASE TimeoutLoop
  <2> DEFINE expired == {f \in filters : deadline[f] = "fired"}
  <2>1. expired \in SUBSET filters /\ Unsubscribe(expired) /\ filters' = filters \ expired /\ UNCHANGED <<call, errClosed>>
    BY <1>5 DEF TimeoutLoop
  <2> QED
    BY <2>1, HandOverKeepsListed
<1>6. ASSUME NEW f \in Ids, Serve(f) \/ DeadlineFires(f) \/ GetFilterChanges(f) PROVE Rest
  BY <1>6 DEF Serve, EventsClosed, ErrClosed, CancelSubs, DeadlineFires, GetFilterChanges, apiVars
<1>7. ASSUME ConsumeEvents PROVE Rest
  BY <1>7 DEF ConsumeEvents, Receive, Send, Drop, SendOnClosed, apiVars
<1>8. ASSUME NEW c \in Chans, PublishTopic(c) \/ MapRace(c) PROVE Rest
  BY <1>8 DEF PublishTopic, Publish, Published, CloseAllSubscribers, DeleteTopic, MapRace, apiVars
<1>9. ASSUME UNCHANGED vars PROVE Rest
  BY <1>9 DEF vars, apiVars
<1> QED
  BY <1>1, <1>2, <1>3, <1>4, <1>5, <1>6, <1>7, <1>8, <1>9, DelistKeepsListed DEF Next, Clients, Create

(* However many filters there are, and whatever clients, the timeout loop  *)
(* and the filters' own goroutines do, the event loop gets each filter for *)
(* removal at most once, and so closes its err channel at most once.       *)
THEOREM RemovedOnce == Spec => []UninstalledOnce
<1>1. Init => ListedOrGone
  BY DEF Init, ListedOrGone, UninstalledOnce
<1>2. ListedOrGone => UninstalledOnce
  BY DEF ListedOrGone
<1> QED
  BY <1>1, <1>2, NextListed, PTL DEF Spec

(* Taking topics away, or the steps of others, leaves a creation alone.    *)
LEMMA FewerTopics ==
    ASSUME OneInstalls, DOMAIN topics' \subseteq DOMAIN topics, UNCHANGED <<kind, mu, call>>
    PROVE  OneInstalls'
BY DEF OneInstalls, Busy

(* What removing a topic leaves.                                           *)
LEMMA WithoutShrinks == \A t : DOMAIN Without(topics, t) \subseteq DOMAIN topics
BY DEF Without, Restrict

(* The creation that holds filtersMu moves on once the topic is there.     *)
LEMMA HolderMoves ==
    ASSUME OneInstalls, NEW f \in Ids, Busy(f), NEW to \in {"subscribe", "register"}, Goes(f, to),
           UNCHANGED kind
    PROVE  OneInstalls'
<1>1. \A g \in Ids : g # f => ~Busy(g)
  BY DEF OneInstalls, Busy
<1> QED
  BY <1>1 DEF OneInstalls, Busy, Goes

(* The creation that holds filtersMu ends and frees it.                    *)
LEMMA HolderEnds ==
    ASSUME OneInstalls, NEW f \in Ids, Busy(f), NEW to \in {"done", "failed"},
           call' = [call EXCEPT ![f] = to], mu' = Nobody, UNCHANGED kind
    PROVE  OneInstalls'
<1>1. \A g \in Ids : g # f => ~Busy(g)
  BY DEF OneInstalls, Busy
<1> QED
  BY <1>1 DEF OneInstalls, Busy

(* Every step keeps OneInstalls.                                           *)
LEMMA NextInstalls == OneInstalls /\ [Next]_vars => OneInstalls'
<1> SUFFICES ASSUME OneInstalls, [Next]_vars PROVE OneInstalls'
  OBVIOUS
<1> DEFINE Rest == DOMAIN topics' \subseteq DOMAIN topics /\ UNCHANGED <<kind, mu, call>>
<1>1. ASSUME NEW f \in Ids, NewFilter(f) PROVE OneInstalls'
  <2>1. \A g \in Ids : ~Busy(g)
    BY <1>1, NobodyAssumption DEF OneInstalls, NewFilter, Locked
  <2> QED
    BY <1>1, <2>1 DEF OneInstalls, NewFilter, Busy, busVars
<1>2. ASSUME NEW f \in Ids, LookUp(f) PROVE OneInstalls'
  BY <1>2 DEF OneInstalls, LookUp, Goes, Busy, busVars
<1>3. ASSUME NEW f \in Ids, Request(f) PROVE OneInstalls'
  <2>1. CASE Goes(f, "install")
    BY <1>3, <2>1 DEF OneInstalls, Request, Goes, Busy, busVars
  <2>2. CASE Fails(f)
    BY <1>3, <2>2, HolderEnds DEF Request, Fails, Busy
  <2> QED
    BY <1>3, <2>1, <2>2 DEF Request
<1>4. ASSUME NEW f \in Ids, FindTopic(f) \/ Install(f) \/ Register(f) PROVE OneInstalls'
  <2>1. Busy(f) /\ UNCHANGED kind
    BY <1>4 DEF FindTopic, Install, Register, Busy
  <2>2. CASE Goes(f, "subscribe")
    BY <2>1, <2>2, HolderMoves
  <2>3. CASE Goes(f, "register")
    BY <2>1, <2>3, HolderMoves
  <2>4. CASE Fails(f)
    BY <2>1, <2>4, HolderEnds DEF Fails
  <2>5. CASE call' = [call EXCEPT ![f] = "done"] /\ mu' = Nobody
    BY <2>1, <2>5, HolderEnds
  <2> QED
    BY <1>4, <2>2, <2>3, <2>4, <2>5 DEF FindTopic, Install, Register
<1>5. ASSUME NEW f \in Ids, Uninstall(f) PROVE Rest
  BY <1>5, WithoutShrinks DEF Uninstall, CloseTopic
<1>6. ASSUME NEW f \in Ids, UninstallFilter(f) \/ Serve(f) \/ DeadlineFires(f) \/ GetFilterChanges(f) PROVE Rest
  BY <1>6 DEF UninstallFilter, Serve, EventsClosed, ErrClosed, CancelSubs, DeadlineFires, GetFilterChanges, busVars
<1>7. ASSUME TimeoutLoop \/ ConsumeEvents PROVE Rest
  BY <1>7 DEF TimeoutLoop, ConsumeEvents, Receive, Send, Drop, SendOnClosed, busVars
<1>8. ASSUME NEW c \in Chans, PublishTopic(c) \/ MapRace(c) PROVE Rest
  BY <1>8, WithoutShrinks DEF PublishTopic, Publish, Published, CloseAllSubscribers, DeleteTopic, MapRace, busVars
<1>9. ASSUME UNCHANGED vars PROVE Rest
  BY <1>9 DEF vars, busVars
<1> QED
  BY <1>1, <1>2, <1>3, <1>4, <1>5, <1>6, <1>7, <1>8, <1>9, FewerTopics DEF Next, Clients, Create

(* However many creations overlap with topics being closed, the topic that *)
(* the event loop is asked to install is not on the bus: AddTopic never    *)
(* refuses it, and the channel the loop keeps for it has a publisher.      *)
THEOREM TopicsInstalledFresh == Spec => []InstallsFresh
<1>1. Init => OneInstalls
  BY DEF Init, OneInstalls, Busy
<1>2. OneInstalls => InstallsFresh
  BY DEF OneInstalls, InstallsFresh
<1> QED
  BY <1>1, <1>2, NextInstalls, PTL DEF Spec
=============================================================================
