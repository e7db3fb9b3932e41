------------------------------- MODULE Broker -------------------------------
(* What RabbitMQ keeps for the publishers and the search worker: the queues  *)
(* declared, their bindings to the topic exchange tweet_exchange, and the    *)
(* messages of the queue tweet_events.  The exchange is durable and every    *)
(* client declares it first, so it is always there.  The queues are not      *)
(* durable: a restart of the broker takes them away with their bindings and  *)
(* their messages.                                                           *)
(*                                                                           *)
(* Messages routed to tweet_events are numbered in the order of publication. *)
(* The queue is the set of the numbers that wait: its head is the least of   *)
(* them, and a message given back takes its old place again.                 *)
EXTENDS Naturals, Sequences, SequencesExt

CONSTANTS
    MaxPosts,   \* bound: posts (tweets and replies) ever requested
    MaxEvents,  \* bound: messages ever routed to tweet_events
    Failures,   \* what may fail: a subset of FailureKinds
    MaxFaults   \* bound: failures so far

(* "db": a commit or refresh of the tweets service; "users": the call of     *)
(* IncrementsTweets; "mq": a publication; "tweets": the tweets service dies; *)
(* "es_index", "es_delete": a call to Elasticsearch; "worker": the search    *)
(* worker dies; "channel": its connection breaks; "broker": a restart.       *)
FailureKinds ==
    {"db", "users", "mq", "tweets", "es_index", "es_delete", "worker", "channel", "broker"}

ASSUME BrokerAssumption ==
    /\ MaxPosts \in Nat
    /\ MaxEvents \in Nat
    /\ Failures \subseteq FailureKinds
    /\ MaxFaults \in Nat

Posts == 1..MaxPosts

Queues == {"general_tweets", "tweet_events"}

(* Routing keys.  "tweet.other" stands for any further key under "tweet.".   *)
EventKeys == {"tweet.create", "tweet.update", "tweet.delete", "tweet.other"}
Keys == EventKeys \union {"general_tweets"}

(* A message: its routing key, the post in its body, whether that is JSON.   *)
Event == [key : Keys, post : Posts, json : BOOLEAN]

VARIABLES
    declared,   \* the queues there are
    bindings,   \* pairs of a queue and a binding key
    events,     \* the messages routed to tweet_events so far
    ready,      \* the numbers of those that wait in the queue
    lost,       \* history: the numbers of those a restart took away
    fed,        \* the posts routed to general_tweets
    sent,       \* history: pairs of a post and a routing key it was published with
    faults      \* failures so far

brokerVars == <<declared, bindings, events, ready, lost, fed, sent>>

BrokerInit ==
    /\ declared = {}
    /\ bindings = {}
    /\ events = << >>
    /\ ready = {}
    /\ lost = {}
    /\ fed = {}
    /\ sent = {}
    /\ faults = 0

Fault(kind) ==
    /\ kind \in Failures /\ faults < MaxFaults
    /\ faults' = faults + 1

(* Topic matching, for the one binding key in use.                           *)
Matches(pattern, key) == pattern = "tweet.#" /\ key \in EventKeys

Route(bound, key) == {b[1] : b \in {b \in bound : Matches(b[2], key)}}

(* Mutated form: the queue is taken to be there.                             *)
AssumeDeclared(queue) == UNCHANGED declared

QueueDeclare(queue) == declared' = declared \union {queue}

(* basic_publish to tweet_exchange, with the bindings there are.  A message  *)
(* that no binding matches is dropped, and the publisher is not told.        *)
BasicPublish(bound, key, post, json) ==
    /\ IF "tweet_events" \in Route(bound, key)
       THEN /\ Len(events) < MaxEvents
            /\ events' = Append(events, [key |-> key, post |-> post, json |-> json])
            /\ ready' = ready \union {Len(events) + 1}
       ELSE UNCHANGED <<events, ready>>
    /\ fed' = IF "general_tweets" \in Route(bound, key) THEN fed \union {post} ELSE fed
    /\ sent' = sent \union {<<post, key>>}

BrokerType ==
    /\ declared \subseteq Queues
    /\ bindings \subseteq declared \X {"tweet.#"}
    /\ events \in Seq(Event) /\ Len(events) <= MaxEvents
    /\ ready \subseteq DOMAIN events
    /\ lost \subseteq DOMAIN events
    /\ fed \subseteq Posts
    /\ sent \subseteq Posts \X Keys
    /\ faults \in 0..MaxFaults
=============================================================================
