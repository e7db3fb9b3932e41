--------------------------- MODULE SearchIndexing ---------------------------
(* The search worker (search-worker/main.go, rabbitmq.go, elasticsearch.go). *)
(* It declares and binds the queue tweet_events, and its one loop handles a  *)
(* delivery after the other.  There is no prefetch limit, so that the broker *)
(* hands over whatever is ready, and the client library keeps it in order.   *)
EXTENDS Broker, FiniteSets, FiniteSetsExt

CONSTANTS
    OtherEvents,    \* what others publish: pairs of a routing key and whether
                    \* the body is JSON
    Resends         \* times the Elasticsearch client sends a request again
                    \* that had no answer or a 502, 503 or 504: 3 by default

ASSUME IndexingAssumption ==
    /\ OtherEvents \subseteq EventKeys \X BOOLEAN
    /\ Resends \in Nat

VARIABLES
    alive,      \* the worker process runs
    listening,  \* its channel is open and consumes
    inbox,      \* deliveries in the client library, by number
    cur,        \* the delivery handle_message works on
    index,      \* the documents in Elasticsearch
    docs,       \* documents ever indexed
    acked,      \* events acknowledged
    rejected,   \* events refused for good
    deliveries, \* history: how often every event was delivered
    requeued,   \* history: events given back by handle_message
    refused     \* history: events whose document Elasticsearch refused

indexingVars == <<alive, listening, inbox, cur, index, docs, acked, rejected, deliveries,
                  requeued, refused>>

(* held: the delivery can still be settled, for its channel is open.         *)
None == [n |-> 0, stage |-> "none", err |-> FALSE, held |-> FALSE]

IndexingInit ==
    /\ alive = FALSE
    /\ listening = FALSE
    /\ inbox = << >>
    /\ cur = None
    /\ index = {}
    /\ docs = 0
    /\ acked = {}
    /\ rejected = {}
    /\ deliveries = [m \in 1..MaxEvents |-> 0]
    /\ requeued = {}
    /\ refused = {}

Unacked ==
    ToSet(inbox) \union (IF cur.stage # "none" /\ cur.held THEN {cur.n} ELSE {})

----------------------------------------------------------------------------
(* ESClient.  Documents are indexed without an id, so Elasticsearch makes    *)
(* one up; they are deleted by the id of the tweet.                          *)

AutoId(n) == <<"auto", n>>
TweetId(p) == <<"tweet", p>>

IndexDocument(m, copies) ==
    /\ docs' = docs + copies
    /\ index' = index \union
          {[id |-> AutoId(docs + i), event |-> m, post |-> events[m].post] : i \in 1..copies}

(* Create: what Index returns is only logged.  Without an id, every request  *)
(* that was sent again and executed makes a document of its own.             *)
Create(m) ==
    \/ IndexDocument(m, 1) /\ UNCHANGED <<faults, refused>>
    \/ /\ Fault("es_index")
       /\ \E copies \in 0..(1 + Resends) :
             /\ IndexDocument(m, copies)
             /\ \/ refused' = refused \union {m}
                \/ copies > 0 /\ UNCHANGED refused

DeleteDocument(p) == index' = {d \in index : d.id # TweetId(p)}

(* Delete: only an error of the transport is one, not the answer 404.        *)
Delete(p, Ok, Failed) ==
    \/ DeleteDocument(p) /\ Ok /\ UNCHANGED faults
    \/ Fault("es_delete") /\ (DeleteDocument(p) \/ UNCHANGED index) /\ Failed

----------------------------------------------------------------------------
(* Mutated form: the queue is declared and not bound.                        *)
Unbound == UNCHANGED bindings

Bound == bindings' = bindings \union {<<"tweet_events", "tweet.#">>}

(* NewClient, innit, Consume.  An error of Consume is dropped: the worker    *)
(* lives, with no deliveries.                                                *)
WorkerStart ==
    /\ ~alive
    /\ alive' = TRUE
    /\ \/ listening' = TRUE /\ UNCHANGED faults
       \/ listening' = FALSE /\ Fault("channel")
    /\ QueueDeclare("tweet_events")
    /\ Bound
    /\ UNCHANGED <<events, ready, lost, fed, sent, inbox, cur, index, docs,
                   acked, rejected, deliveries, requeued, refused>>

Deliver ==
    /\ listening /\ ready # {}
    /\ LET m == Min(ready)
       IN /\ ready' = ready \ {m}
          /\ inbox' = Append(inbox, m)
          /\ deliveries' = [deliveries EXCEPT ![m] = @ + 1]
    /\ UNCHANGED <<declared, bindings, events, lost, fed, sent, faults, alive, listening,
                   cur, index, docs, acked, rejected, requeued, refused>>

(* Mutated form: the last delivery is handled first.                         *)
LastIn(s) == Len(s)

FirstIn(s) == 1

At(m, stage, err) == cur' = [n |-> m, stage |-> stage, err |-> err, held |-> TRUE]

(* handle_update goes on with Create.                                        *)
UpdateDeleted(m) == At(m, "recreate", FALSE)

(* handle_message up to the end of the switch; for an update, up to the      *)
(* Delete.  A body that is not JSON is refused for good.                     *)
Handle ==
    /\ alive /\ cur = None /\ inbox # << >>
    /\ LET m == inbox[FirstIn(inbox)]
           e == events[m]
       IN /\ inbox' = RemoveAt(inbox, FirstIn(inbox))
          /\ \/ /\ ~e.json
                /\ rejected' = rejected \union {m}
                /\ UNCHANGED <<cur, index, docs, faults, refused>>
             \/ /\ e.json /\ e.key = "tweet.create"
                /\ Create(m)
                /\ At(m, "settle", FALSE)
                /\ UNCHANGED rejected
             \/ /\ e.json /\ e.key = "tweet.update"
                /\ Delete(e.post, UpdateDeleted(m), At(m, "settle", TRUE))
                /\ UNCHANGED <<docs, rejected, refused>>
             \/ /\ e.json /\ e.key = "tweet.delete"
                /\ Delete(e.post, At(m, "settle", FALSE), At(m, "settle", TRUE))
                /\ UNCHANGED <<docs, rejected, refused>>
             \/ /\ e.json /\ e.key = "tweet.other"
                /\ At(m, "settle", FALSE)
                /\ UNCHANGED <<index, docs, faults, rejected, refused>>
    /\ UNCHANGED <<declared, bindings, events, ready, lost, fed, sent, alive, listening,
                   acked, deliveries, requeued>>

(* Mutated form: the stage is not left, so the document is indexed again.    *)
StayThere == UNCHANGED cur

RecreateDone == cur' = [cur EXCEPT !.stage = "settle"]

Recreate ==
    /\ cur.stage = "recreate"
    /\ Create(cur.n)
    /\ RecreateDone
    /\ UNCHANGED <<declared, bindings, events, ready, lost, fed, sent, alive, listening,
                   inbox, acked, rejected, deliveries, requeued>>

(* Mutated form: the error is only logged, and nothing is settled.           *)
LogError(m) == UNCHANGED <<ready, requeued>>

NackRequeue(m) ==
    /\ ready' = ready \union {m}
    /\ requeued' = requeued \union {m}

(* The end of handle_message.  Without its channel, Nack and Ack return an   *)
(* error that nobody looks at.                                               *)
Settle ==
    /\ cur.stage = "settle"
    /\ \/ /\ cur.held /\ cur.err
          /\ NackRequeue(cur.n)
          /\ UNCHANGED acked
       \/ /\ cur.held /\ ~cur.err
          /\ acked' = acked \union {cur.n}
          /\ UNCHANGED <<ready, requeued>>
       \/ /\ ~cur.held
          /\ UNCHANGED <<ready, acked, requeued>>
    /\ cur' = None
    /\ UNCHANGED <<declared, bindings, events, lost, fed, sent, faults, alive, listening,
                   inbox, index, docs, rejected, deliveries, refused>>

----------------------------------------------------------------------------
(* The connection of the worker breaks: the broker requeues what it has not  *)
(* settled, the library drops its deliveries, and the loop ends after the    *)
(* message it works on.  The process hangs on; nothing connects again.       *)
ChannelLost ==
    /\ listening
    /\ Fault("channel")
    /\ listening' = FALSE
    /\ ready' = ready \union Unacked
    /\ inbox' = << >>
    /\ cur' = [cur EXCEPT !.held = FALSE]
    /\ UNCHANGED <<declared, bindings, events, lost, fed, sent, alive, index, docs,
                   acked, rejected, deliveries, requeued, refused>>

WorkerCrash ==
    /\ alive
    /\ Fault("worker")
    /\ alive' = FALSE
    /\ listening' = FALSE
    /\ ready' = ready \union Unacked
    /\ inbox' = << >>
    /\ cur' = None
    /\ UNCHANGED <<declared, bindings, events, lost, fed, sent, index, docs,
                   acked, rejected, deliveries, requeued, refused>>

(* Queues, bindings and messages are gone, and so is the worker's channel.   *)
BrokerRestart ==
    /\ Fault("broker")
    /\ declared' = {}
    /\ bindings' = {}
    /\ ready' = {}
    /\ lost' = lost \union ready \union Unacked
    /\ listening' = FALSE
    /\ inbox' = << >>
    /\ cur' = [cur EXCEPT !.held = FALSE]
    /\ UNCHANGED <<events, fed, sent, alive, index, docs, acked, rejected, deliveries, requeued,
                   refused>>

(* Another publisher of events (producer/producer.py): it declares and binds *)
(* the queue itself.                                                         *)
publish_tweet(key, post, json) ==
    LET bound == bindings \union {<<"tweet_events", "tweet.#">>}
    IN /\ QueueDeclare("tweet_events")
       /\ bindings' = bound
       /\ BasicPublish(bound, key, post, json)
       /\ UNCHANGED <<lost, faults, indexingVars>>

WorkerStep == Deliver \/ Handle \/ Recreate \/ Settle

IndexingStep == WorkerStep \/ WorkerStart \/ ChannelLost \/ WorkerCrash \/ BrokerRestart

IndexingType ==
    /\ alive \in BOOLEAN
    /\ listening \in BOOLEAN
    /\ inbox \in Seq(DOMAIN events)
    /\ cur \in [n : 0..MaxEvents, stage : {"none", "recreate", "settle"},
                err : BOOLEAN, held : BOOLEAN]
    /\ \A d \in index : d.event \in DOMAIN events /\ d.id \in {AutoId(i) : i \in 1..docs}
    /\ docs \in Nat
    /\ acked \subseteq DOMAIN events
    /\ rejected \subseteq DOMAIN events
    /\ deliveries \in [1..MaxEvents -> Nat]
    /\ requeued \subseteq DOMAIN events
    /\ refused \subseteq DOMAIN events
=============================================================================
