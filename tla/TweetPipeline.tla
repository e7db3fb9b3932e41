--------------------------- MODULE TweetPipeline ----------------------------
(* From a POST at the tweets service through RabbitMQ to the search index:   *)
(* TweetCreation publishes, SearchIndexing consumes, Broker is between them. *)
EXTENDS TweetCreation, SearchIndexing

vars == <<brokerVars, faults, creationVars, indexingVars>>

Init == BrokerInit /\ CreationInit /\ IndexingInit

(* The other publishers send events about posts that exist.                  *)
OtherPublisher ==
    \E k \in OtherEvents, p \in committed : publish_tweet(k[1], p, k[2])

Next ==
    \/ CreationStep /\ UNCHANGED indexingVars
    \/ IndexingStep /\ UNCHANGED creationVars
    \/ OtherPublisher /\ UNCHANGED creationVars

Spec == Init /\ [][Next]_vars

(* The broker delivers to a consumer that listens, and the worker's loop     *)
(* runs.  Nothing starts or restarts the worker by itself.                   *)
Worker(A) == A /\ UNCHANGED creationVars

FairSpec ==
    /\ Spec
    /\ WF_vars(Worker(Deliver)) /\ WF_vars(Worker(Handle))
    /\ WF_vars(Worker(Recreate)) /\ WF_vars(Worker(Settle))

----------------------------------------------------------------------------
(* Types of all variables.                                                   *)
TypeOK == BrokerType /\ CreationType /\ IndexingType

(* No other service hears of a post that was not committed: whatever is      *)
(* counted, published or indexed was stored at some time, though commits and *)
(* refreshes fail and the service dies half way.                             *)
NothingBeforeCommit ==
    counted \union {s[1] : s \in sent} \union {d.post : d \in index} \subseteq committed

(* "tweet created" is the answer only after the commit and, for a tweet, both*)
(* publications, and after the call that counts it, which alone may have     *)
(* failed unnoticed.                                                         *)
OkMeansDone ==
    \A p \in Posts : answer[p] = "ok" =>
        /\ p \in committed
        /\ p \notin reply => {<<p, "general_tweets">>, <<p, "tweet.create">>} \subseteq sent
        /\ p \in counted \union uncounted

InHand == IF cur.stage # "none" /\ cur.held THEN {cur.n} ELSE {}

(* An event that was routed waits, or is with the worker once, or is         *)
(* acknowledged, refused, or lost by a restart of the broker; never two of   *)
(* these, and never none.                                                    *)
EventOnePlace ==
    LET places == <<ready, ToSet(inbox), InHand, acked, rejected, lost>>
    IN /\ DOMAIN events = UNION ToSet(places)
       /\ \A i, j \in DOMAIN places : i # j => places[i] \intersect places[j] = {}
       /\ IsInjective(inbox)

(* One loop and one queue keep events in order: a later event is             *)
(* acknowledged before an earlier one only if handle_message gave the earlier*)
(* one back.  Crashes and broken connections do not reorder.                 *)
LateOnlyAfterRequeue ==
    \A n \in acked : \A m \in 1..(n - 1) : m \in acked \union rejected \union lost \union requeued

(* An acknowledged create or update is in the index, however often and at    *)
(* whichever call the worker died on the way, unless Elasticsearch refused   *)
(* this very document (which Create only logs).                              *)
AckedIndexed ==
    \A m \in acked \ refused :
        events[m].key \in {"tweet.create", "tweet.update"} => \E d \in index : d.event = m

(* An event is in the index more than once only because it was delivered     *)
(* again or the Elasticsearch client sent a request again.                   *)
DocumentsNeedDeliveries ==
    \A m \in DOMAIN events :
        Cardinality({d \in index : d.event = m}) <= (1 + Resends) * deliveries[m]

(* While the worker listens, an event that is published reaches its queue:   *)
(* publishers declare the queue but do not bind it, and the exchange drops   *)
(* what no binding matches, so that events are lost unnoticed before the     *)
(* first start of the worker and after a restart of the broker, but not then.*)
NothingDroppedWhileListening ==
    [][listening => \A s \in sent' \ sent : s[2] \in EventKeys =>
          \E m \in DOMAIN events' \ DOMAIN events :
              events'[m].post = s[1] /\ events'[m].key = s[2]]_vars

(* Every event is acknowledged or refused in the end, or lost by a restart   *)
(* of the broker, whatever calls to Elasticsearch fail, workers die and      *)
(* connections break on the way, if only the worker is started again         *)
(* whenever it has stopped listening, which nothing does by itself.          *)
EventsSettle ==
    []<>listening =>
        \A m \in 1..MaxEvents : m \in DOMAIN events ~> m \in acked \union rejected \union lost

(* Broker and worker together implement at-least-once indexing in order.     *)
Indexing == INSTANCE IndexDelivery WITH
    mayLose <- "broker" \in Failures,
    wants <- {m \in DOMAIN events : events[m].key \in {"tweet.create", "tweet.update"}},
    malformed <- {m \in DOMAIN events : ~events[m].json},
    pending <- DOMAIN events \ (acked \union rejected \union lost),
    putback <- requeued,
    done <- acked,
    written <- {d.event : d \in index}

IndexDeliverySpec == Indexing!Spec

----------------------------------------------------------------------------
(* What the documentation says, and the code does not do.                    *)

(* routes/__init__.py: the first publication goes to the tweet feed queue.   *)
(* Nothing binds that queue to the exchange.                                 *)
FeedQueueFed == \A p \in Posts : answer[p] = "ok" /\ p \notin reply => p \in fed

(* README.md: the index is kept updated.  After the event that deletes a     *)
(* tweet, no document of an earlier event about it is left.                  *)
DeletedUnsearchable ==
    \A m \in acked : events[m].key = "tweet.delete" =>
        ~\E d \in index : d.post = events[m].post /\ d.event < m
=============================================================================
