---------------------------- MODULE EventSystem ----------------------------
(***************************************************************************)
(* Polling filters of the JSON-RPC server: the goroutines, locks and       *)
(* channels of PublicFilterAPI (rpc/namespaces/ethereum/eth/filters), of   *)
(* its EventSystem and of the event bus (rpc/ethereum/pubsub).             *)
(*                                                                         *)
(* A filter is created under filtersMu.  It joins its topic if the bus has *)
(* it, or else asks CometBFT for the events and has the event loop install *)
(* the topic.  Events travel from consumeEvents through the topic's        *)
(* channel to the goroutine publishTopic and from there to the goroutine   *)
(* that serves the filter.  Events and what a filter collects are not      *)
(* modelled; a section under a lock, and a handler of the event loop, is   *)
(* one step.  A filter's type determines the query it listens to, so       *)
(* kinds, queries and topics are one.                                      *)
(***************************************************************************)
EXTENDS Integers, FiniteSets, Functions, TLC

CONSTANTS
    Ids,         \* the ids of the filters ever created
    Kinds,       \* a subset of {"blocks", "logs", "txs"}
    FilterCap,   \* RPCFilterCap
    Nobody       \* not an id: filtersMu is free

ASSUME NobodyAssumption == Nobody \notin Ids

VARIABLES
    kind,        \* the kind of each filter
    mu,          \* filtersMu: the creation that holds it, or Nobody
    filters,     \* api.filters
    deadline,    \* whether a filter's timer is running or has fired
    call,        \* where the creation of each filter is
    server,      \* the goroutine that serves each filter
    uninstall,   \* how many Unsubscribe goroutines wait to hand the filter over
    errClosed,   \* how often its channel err was closed
    index,       \* es.index
    topicChans,  \* es.topicChans: the channel of each topic
    topics,      \* m.topics of the bus
    subscribers, \* m.subscribers: the filters listening to each topic
    subsClosed,  \* the filters whose event channel is closed
    chans,       \* the channels made so far; publisher and closed are about them
    publisher,   \* the publishTopic goroutines by channel
    closed,      \* the topic channels that are closed
    consumer,    \* the channel consumeEvents is about to send to, 0 for none
    crashed      \* a panic has ended the process

apiVars == <<filters, deadline>>
loopVars == <<index, topicChans>>
busVars == <<topics, subscribers, subsClosed, chans, publisher, closed>>
vars == <<kind, mu, apiVars, call, server, uninstall, errClosed, loopVars, busVars, consumer, crashed>>

Without(f, x) == Restrict(f, DOMAIN f \ {x})
Locked == mu # Nobody

-----------------------------------------------------------------------------
(* Mutant: filtersMu is not held while subscribing.                        *)
NewFilterUnlocked(f) ==
    /\ ~Locked /\ call[f] = "none"
    /\ Cardinality(filters) < FilterCap
    /\ call' = [call EXCEPT ![f] = "topics"]
    /\ UNCHANGED <<kind, mu, apiVars, server, uninstall, errClosed, loopVars, busVars, consumer, crashed>>

(* Creating a filter: NewFilter, NewBlockFilter, NewPendingTransactionFilter *)
(* hold filtersMu while EventSystem.subscribe goes through these steps.    *)
NewFilter(f) ==
    /\ ~Locked /\ call[f] = "none"
    /\ Cardinality(filters) < FilterCap
    /\ mu' = f
    /\ call' = [call EXCEPT ![f] = "topics"]
    /\ UNCHANGED <<kind, apiVars, server, uninstall, errClosed, loopVars, busVars, consumer, crashed>>

Goes(f, to) == call' = [call EXCEPT ![f] = to] /\ UNCHANGED mu
Fails(f) == call' = [call EXCEPT ![f] = "failed"] /\ mu' = Nobody

(* Topics() of the bus.                                                    *)
LookUp(f) ==
    /\ call[f] = "topics"
    /\ Goes(f, IF kind[f] \in DOMAIN topics THEN "subscribe" ELSE "request")
    /\ UNCHANGED <<kind, apiVars, server, uninstall, errClosed, loopVars, busVars, consumer, crashed>>

(* The request to CometBFT.                                                *)
Request(f) ==
    /\ call[f] = "request"
    /\ Goes(f, "install") \/ Fails(f)
    /\ UNCHANGED <<kind, apiVars, server, uninstall, errClosed, loopVars, busVars, consumer, crashed>>

(* Subscribe of the bus, in two sections: the topic is looked up,          *)
FindTopic(f) ==
    /\ call[f] = "subscribe"
    /\ IF kind[f] \in DOMAIN topics THEN Goes(f, "register") ELSE Fails(f)
    /\ UNCHANGED <<kind, apiVars, server, uninstall, errClosed, loopVars, busVars, consumer, crashed>>

(* and the channel is entered.  The filter is then listed, served, and the *)
(* lock released.                                                          *)
Register(f) ==
    /\ call[f] = "register"
    /\ subscribers' = [subscribers EXCEPT ![kind[f]] = @ \cup {f}]
    /\ filters' = filters \cup {f}
    /\ server' = [server EXCEPT ![f] = "serving"]
    /\ call' = [call EXCEPT ![f] = "done"] /\ mu' = Nobody
    /\ UNCHANGED <<kind, deadline, uninstall, errClosed, loopVars, topics, subsClosed, chans,
                   publisher, closed, consumer, crashed>>

-----------------------------------------------------------------------------
(* The event loop.                                                         *)

(* The publisher of a topic is started unless the bus still has the topic. *)
AddTopic(t, c) ==
    /\ topics' = topics @@ (t :> c)
    /\ publisher' = [publisher EXCEPT ![c] =
                        IF t \in DOMAIN topics THEN @ ELSE [topic |-> t, at |-> "reading", todo |-> {}]]

(* Case install: a new channel replaces the topic's.                       *)
Install(f) ==
    LET t == kind[f] c == chans + 1 IN
    /\ call[f] = "install"
    /\ index' = index \cup {f}
    /\ chans' = c
    /\ topicChans' = (t :> c) @@ topicChans
    /\ AddTopic(t, c)
    /\ Goes(f, "subscribe")
    /\ UNCHANGED <<kind, apiVars, server, uninstall, errClosed, subscribers, subsClosed, closed,
                   consumer, crashed>>

(* RemoveTopic, and the channel is closed and forgotten.                   *)
CloseTopic(t) ==
    /\ topics' = Without(topics, t)
    /\ closed' = closed \cup {topicChans[t]}
    /\ topicChans' = Without(topicChans, t)

(* Case uninstall.                                                         *)
Uninstall(f) ==
    LET t == kind[f]
        channelInUse == \E g \in index \ {f} : kind[g] = t IN
    /\ uninstall[f] > 0
    /\ uninstall' = [uninstall EXCEPT ![f] = @ - 1]
    /\ index' = index \ {f}
    /\ IF ~channelInUse /\ t \in DOMAIN topicChans THEN CloseTopic(t)
       ELSE UNCHANGED <<topics, closed, topicChans>>
    /\ errClosed' = [errClosed EXCEPT ![f] = @ + 1]
    /\ UNCHANGED <<kind, mu, apiVars, call, server, subscribers, subsClosed, chans, publisher,
                   consumer, crashed>>

-----------------------------------------------------------------------------
(* The way of an event.                                                    *)

(* consumeEvents looks the topic's channel up under the lock,              *)
Receive(t) ==
    /\ consumer = 0 /\ t \in DOMAIN topicChans
    /\ consumer' = topicChans[t]
    /\ UNCHANGED <<kind, mu, apiVars, call, server, uninstall, errClosed, loopVars, busVars, crashed>>

(* and sends without it: the publisher takes the event and a reference to  *)
(* the map of subscribers, or a second passes,                             *)
Send ==
    /\ consumer # 0 /\ consumer \notin closed
    /\ publisher[consumer].at = "reading"
    /\ publisher' = [publisher EXCEPT ![consumer] =
                        [@ EXCEPT !.at = "publishing", !.todo = subscribers[publisher[consumer].topic]]]
    /\ consumer' = 0
    /\ UNCHANGED <<kind, mu, apiVars, call, server, uninstall, errClosed, loopVars, topics,
                   subscribers, subsClosed, chans, closed, crashed>>

Drop ==
    /\ consumer # 0
    /\ consumer' = 0
    /\ UNCHANGED <<kind, mu, apiVars, call, server, uninstall, errClosed, loopVars, busVars, crashed>>

(* or the channel has been closed meanwhile, on which Go panics.           *)
SendOnClosed ==
    /\ consumer \in closed
    /\ crashed' = TRUE
    /\ UNCHANGED <<kind, mu, apiVars, call, server, uninstall, errClosed, loopVars, busVars, consumer>>

(* publishAllSubscribers, one filter of the map at a time and without a    *)
(* lock: who does not wait for the event misses it.  What matters here is  *)
(* only that the goroutine of a log filter ends when it cannot decode it.  *)
Publish(c, f) ==
    /\ f \in publisher[c].todo
    /\ publisher' = [publisher EXCEPT ![c].todo = @ \ {f}]
    /\ \/ f \notin subsClosed /\ UNCHANGED <<server, crashed>>
       \/ /\ f \notin subsClosed /\ kind[f] = "logs" /\ server[f] = "serving"
          /\ server' = [server EXCEPT ![f] = "leaving"]
          /\ UNCHANGED crashed
       \/ f \in subsClosed /\ crashed' = TRUE /\ UNCHANGED server
    /\ UNCHANGED <<kind, mu, apiVars, call, uninstall, errClosed, loopVars, topics, subscribers,
                   subsClosed, chans, closed, consumer>>

Published(c) ==
    /\ publisher[c].at = "publishing" /\ publisher[c].todo = {}
    /\ publisher' = [publisher EXCEPT ![c].at = "reading"]
    /\ UNCHANGED <<kind, mu, apiVars, call, server, uninstall, errClosed, loopVars, topics,
                   subscribers, subsClosed, chans, closed, consumer, crashed>>

(* The map is iterated without the lock under which it is written: when    *)
(* the runtime notices, it ends the process.                               *)
MapRace(c) ==
    /\ publisher[c].todo # {}
    /\ \E f \in Ids :
        /\ kind[f] = publisher[c].topic
        /\ call[f] = "register" \/ (server[f] = "leaving" /\ f \in subscribers[kind[f]])
    /\ crashed' = TRUE
    /\ UNCHANGED <<kind, mu, apiVars, call, server, uninstall, errClosed, loopVars, busVars, consumer>>

(* The channel is closed: closeAllSubscribers, and then the topic goes,    *)
(* whichever channel it now has.                                           *)
CloseAllSubscribers(c) ==
    LET t == publisher[c].topic IN
    /\ publisher[c].at = "reading" /\ c \in closed
    /\ subsClosed' = subsClosed \cup subscribers[t]
    /\ subscribers' = [subscribers EXCEPT ![t] = {}]
    /\ publisher' = [publisher EXCEPT ![c].at = "closing"]
    /\ UNCHANGED <<kind, mu, apiVars, call, server, uninstall, errClosed, loopVars, topics, chans,
                   closed, consumer, crashed>>

DeleteTopic(c) ==
    /\ publisher[c].at = "closing"
    /\ topics' = Without(topics, publisher[c].topic)
    /\ publisher' = [publisher EXCEPT ![c].at = "ended"]
    /\ UNCHANGED <<kind, mu, apiVars, call, server, uninstall, errClosed, loopVars, subscribers,
                   subsClosed, chans, closed, consumer, crashed>>

-----------------------------------------------------------------------------
(* The goroutine that serves a filter.                                     *)

(* Its event channel is closed: the filter is delisted.                    *)
EventsClosed(f) ==
    /\ server[f] = "serving" /\ f \in subsClosed /\ ~Locked
    /\ filters' = filters \ {f}
    /\ server' = [server EXCEPT ![f] = "leaving"]
    /\ UNCHANGED <<kind, mu, deadline, call, uninstall, errClosed, loopVars, busVars, consumer, crashed>>

(* Mutant: every kind of filter stays in its loop.                         *)
StaysInLoop(f) == TRUE

(* After its err channel is closed a pending transaction filter stays in   *)
(* its loop, the others return.                                            *)
LoopsOnErr(f) == kind[f] = "txs"

ErrClosed(f) ==
    /\ server[f] = "serving" /\ errClosed[f] > 0 /\ ~Locked
    /\ filters' = filters \ {f}
    /\ server' = [server EXCEPT ![f] = IF LoopsOnErr(f) THEN @ ELSE "leaving"]
    /\ UNCHANGED <<kind, mu, deadline, call, uninstall, errClosed, loopVars, busVars, consumer, crashed>>

(* cancelSubs, deferred: the unsubscribe function of the bus.              *)
CancelSubs(f) ==
    /\ server[f] = "leaving"
    /\ subscribers' = [subscribers EXCEPT ![kind[f]] = @ \ {f}]
    /\ server' = [server EXCEPT ![f] = "ended"]
    /\ UNCHANGED <<kind, mu, apiVars, call, uninstall, errClosed, loopVars, topics, subsClosed, chans,
                   publisher, closed, consumer, crashed>>

-----------------------------------------------------------------------------
(* Using and removing filters.  Unsubscribe starts a goroutine that waits  *)
(* for the event loop.                                                     *)
Unsubscribe(gone) == uninstall' = [f \in Ids |-> uninstall[f] + (IF f \in gone THEN 1 ELSE 0)]

(* Mutant: the filter is looked up under the lock and deleted after it.    *)
UninstallFilterLate(f) ==
    /\ ~Locked /\ f \in filters
    /\ Unsubscribe({f})
    /\ filters' \in {filters, filters \ {f}}
    /\ UNCHANGED <<kind, mu, deadline, call, server, errClosed, loopVars, busVars, consumer, crashed>>

UninstallFilter(f) ==
    /\ ~Locked /\ f \in filters
    /\ filters' = filters \ {f}
    /\ Unsubscribe({f})
    /\ UNCHANGED <<kind, mu, deadline, call, server, errClosed, loopVars, busVars, consumer, crashed>>

(* A filter that is not polled runs into its deadline, and timeoutLoop     *)
(* removes all that have.                                                  *)
DeadlineFires(f) ==
    /\ f \in filters /\ deadline[f] = "running"
    /\ deadline' = [deadline EXCEPT ![f] = "fired"]
    /\ UNCHANGED <<kind, mu, filters, call, server, uninstall, errClosed, loopVars, busVars, consumer, crashed>>

TimeoutLoop ==
    LET expired == {f \in filters : deadline[f] = "fired"} IN
    /\ ~Locked /\ expired # {}
    /\ filters' = filters \ expired
    /\ Unsubscribe(expired)
    /\ UNCHANGED <<kind, mu, deadline, call, server, errClosed, loopVars, busVars, consumer, crashed>>

GetFilterChanges(f) ==
    /\ ~Locked /\ f \in filters
    /\ deadline' = [deadline EXCEPT ![f] = "running"]
    /\ UNCHANGED <<kind, mu, filters, call, server, uninstall, errClosed, loopVars, busVars, consumer, crashed>>

-----------------------------------------------------------------------------
Chans == 1..Cardinality(Ids)

Init ==
    /\ kind \in [Ids -> Kinds]
    /\ mu = Nobody /\ filters = {} /\ deadline = [f \in Ids |-> "running"]
    /\ call = [f \in Ids |-> "none"] /\ server = [f \in Ids |-> "none"]
    /\ uninstall = [f \in Ids |-> 0] /\ errClosed = [f \in Ids |-> 0]
    /\ index = {} /\ topicChans = <<>>
    /\ topics = <<>> /\ subscribers = [t \in Kinds |-> {}] /\ subsClosed = {}
    /\ chans = 0 /\ closed = {}
    /\ publisher = [c \in Chans |-> [topic |-> "none", at |-> "none", todo |-> {}]]
    /\ consumer = 0 /\ crashed = FALSE

Create(f) == LookUp(f) \/ Request(f) \/ Install(f) \/ FindTopic(f) \/ Register(f)
Serve(f) == EventsClosed(f) \/ ErrClosed(f) \/ CancelSubs(f)
PublishTopic(c) ==
    (\E f \in Ids : Publish(c, f)) \/ Published(c) \/ CloseAllSubscribers(c) \/ DeleteTopic(c)
ConsumeEvents == (\E t \in Kinds : Receive(t)) \/ Send \/ Drop \/ SendOnClosed
Clients ==
    \/ \E f \in Ids : NewFilter(f) \/ UninstallFilter(f) \/ DeadlineFires(f) \/ GetFilterChanges(f)
    \/ TimeoutLoop

Next ==
    /\ ~crashed
    /\ \/ Clients
       \/ \E f \in Ids : Create(f) \/ Uninstall(f) \/ Serve(f)
       \/ ConsumeEvents
       \/ \E c \in Chans : PublishTopic(c) \/ MapRace(c)

(* Every goroutine that can go on does: the scheduler is fair, select      *)
(* takes its ready cases at random, the locks are handed to whoever waits, *)
(* and CometBFT answers.  Clients may stop at any time.                    *)
Fairness ==
    /\ \A f \in Ids : WF_vars(~crashed /\ Create(f)) /\ WF_vars(~crashed /\ Uninstall(f))
    /\ \A f \in Ids : WF_vars(~crashed /\ Serve(f))
    /\ \A c \in Chans : WF_vars(~crashed /\ PublishTopic(c))
    /\ WF_vars(~crashed /\ (Send \/ Drop \/ SendOnClosed))

Spec == Init /\ [][Next]_vars /\ Fairness

-----------------------------------------------------------------------------
(* Properties.                                                             *)

(* A filter is handed to the event loop for removal at most once, whatever *)
(* UninstallFilter, timeoutLoop and its own goroutine do at the same time: *)
(* the loop closes its err channel, and closing it twice would panic.      *)
UninstalledOnce == \A f \in Ids : uninstall[f] + errClosed[f] <= 1

(* Two creations never install the same topic: AddTopic would refuse the   *)
(* second, whose channel has then replaced the first one's and has no      *)
(* publisher, and every event of the topic would be lost.  The lookup and  *)
(* the installation are far apart; filtersMu is what keeps them together.  *)
InstallsFresh == \A f \in Ids : call[f] = "install" => kind[f] \notin DOMAIN topics

(* Nobody waits for ever: a creation, which keeps filtersMu from everybody *)
(* else while it waits for the event loop, returns, and a removed filter   *)
(* is taken off the bus and its goroutine ends (other than a pending       *)
(* transaction filter's), unless the process has crashed.                  *)
RequestsComplete ==
    \A f \in Ids :
        /\ mu = f ~> mu # f \/ crashed
        /\ uninstall[f] > 0 /\ kind[f] # "txs" ~> server[f] = "ended" \/ crashed

=============================================================================
