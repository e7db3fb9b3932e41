----------------------------- MODULE FeedFanout -----------------------------
(* The fan-out worker (feed-worker/main.go).  RabbitMQ delivers the messages *)
(* of the queue general_tweets to the one consumer of the worker, every      *)
(* delivery is handled by a goroutine of its own (handle_message), and the   *)
(* goroutine pushes the tweet id to the Redis list "feed:<follower>" of      *)
(* every follower the users service names.                                   *)
(*                                                                           *)
(* Messages are the numbers 1..MaxMsgs in the order of publication, so the   *)
(* queue is the set of its numbers and its head is the least of them: a      *)
(* requeued message takes its old place again.  Delivery tags number the     *)
(* deliveries of all the channels the worker opens one after the other.      *)
EXTENDS Naturals, Sequences, FiniteSets

CONSTANTS
    Authors,    \* users who tweet
    Readers,    \* users who may follow an author
    Bodies,     \* the kinds of message body published: a subset of BodyKinds
    Failures,   \* what may fail: a subset of FailureKinds
    MaxMsgs,    \* bound: messages published
    MaxTags,    \* bound: deliveries made
    MaxFaults,  \* bound: failures of the worker, Redis and the broker
    Retries,    \* times the Redis client sends an LPUSH again (MaxRetries)
    FeedCap     \* entries LTRIM keeps: 1000 in the code

(* "tweet": a JSON object with user_id and tweet_id.  "mistyped": an object  *)
(* whose user_id is decoded before another field makes Unmarshal fail.       *)
(* "garbage": not JSON, so both fields of Tweet stay empty.                  *)
BodyKinds == {"tweet", "mistyped", "garbage"}
FailureKinds == {"lookup", "lpush", "ltrim", "crash", "connection", "broker"}

ASSUME FanoutAssumption ==
    /\ Bodies \subseteq BodyKinds
    /\ Failures \subseteq FailureKinds
    /\ MaxMsgs \in Nat
    /\ MaxTags \in Nat
    /\ MaxFaults \in Nat
    /\ Retries \in Nat
    /\ FeedCap \in Nat \ {0}

Msgs == 1..MaxMsgs
Tags == 1..MaxTags
EmptyId == 0                  \* the tweet id of a body that carries none
Entries == Msgs \union {EmptyId}

VARIABLES
    followers,  \* users service: the followers of every author
    published,  \* messages published so far
    body,       \* the kind of body of every message
    author,     \* the user_id in every message
    ready,      \* broker: messages waiting in general_tweets
    unacked,    \* broker: delivery tags not settled on the open channel
    alive,      \* the worker process runs
    open,       \* its AMQP channel is open
    tags,       \* delivery tags given out so far
    h,          \* the handler (goroutine) of every delivery tag
    feeds,      \* Redis: the list of every reader, newest push first
    faults,     \* failures so far, but for failed lookups
    acked,      \* history: messages acknowledged
    lost,       \* history: messages a restart of the broker took away
    blind,      \* history: messages acknowledged after a failed lookup
    reached,    \* history: what was ever pushed to the feed of a reader
    steady,     \* history: who followed the author since publication, and
    ever        \* who did at some time since, both up to the acknowledgement

env     == <<followers, published, body, author, steady, ever, lost>>
broker  == <<ready, unacked, open, acked, blind>>
vars    == <<followers, published, body, author, ready, unacked, alive, open,
             tags, h, feeds, faults, acked, lost, blind, reached, steady, ever>>

(* A handler: the message it carries, the statement it is at, whether it has *)
(* read the followers, those it has not pushed to yet, and the one whose     *)
(* feed it is about to trim.                                                 *)
Handler == [msg : Msgs \union {0},
            pc : {"idle", "decode", "lookup", "push", "trim", "done"},
            ok : BOOLEAN, todo : SUBSET Readers, cur : SUBSET Readers]

Idle == [msg |-> 0, pc |-> "idle", ok |-> FALSE, todo |-> {}, cur |-> {}]

Init ==
    /\ followers \in [Authors -> SUBSET Readers]
    /\ published = 0
    /\ body \in [Msgs -> Bodies]
    /\ author \in [Msgs -> Authors]
    /\ ready = {}
    /\ unacked = {}
    /\ alive = TRUE
    /\ open = TRUE
    /\ tags = 0
    /\ h = [t \in Tags |-> Idle]
    /\ feeds = [r \in Readers |-> << >>]
    /\ faults = 0
    /\ acked = {}
    /\ lost = {}
    /\ blind = {}
    /\ reached = [r \in Readers |-> {}]
    /\ steady = [m \in Msgs |-> {}]
    /\ ever = [m \in Msgs |-> {}]

----------------------------------------------------------------------------
(* The rest of the system: a publisher (producer/producer.py), who declares  *)
(* the queue himself and sends through the default exchange, and the users   *)
(* service, where readers follow and unfollow authors.                       *)

Publish ==
    /\ published < MaxMsgs
    /\ published' = published + 1
    /\ ready' = ready \union {published + 1}
    /\ LET now == followers[author[published + 1]]
       IN /\ steady' = [steady EXCEPT ![published + 1] = now]
          /\ ever' = [ever EXCEPT ![published + 1] = now]
    /\ UNCHANGED <<followers, body, author, unacked, alive, open, tags, h, feeds,
                   faults, acked, lost, blind, reached>>

Pending == (1..published) \ acked

Affected(a) == {m \in Pending : author[m] = a}

Follow(a, r) ==
    /\ r \notin followers[a]
    /\ followers' = [followers EXCEPT ![a] = @ \union {r}]
    /\ ever' = [m \in Msgs |-> IF m \in Affected(a) THEN ever[m] \union {r} ELSE ever[m]]
    /\ UNCHANGED <<published, body, author, ready, unacked, alive, open, tags, h,
                   feeds, faults, acked, lost, blind, reached, steady>>

Unfollow(a, r) ==
    /\ r \in followers[a]
    /\ followers' = [followers EXCEPT ![a] = @ \ {r}]
    /\ steady' = [m \in Msgs |-> IF m \in Affected(a) THEN steady[m] \ {r} ELSE steady[m]]
    /\ UNCHANGED <<published, body, author, ready, unacked, alive, open, tags, h,
                   feeds, faults, acked, lost, blind, reached, ever>>

----------------------------------------------------------------------------
Fault(kind) ==
    /\ kind \in Failures /\ faults < MaxFaults
    /\ faults' = faults + 1

(* What the broker does with a settlement.  A tag can be settled once: to    *)
(* settle it again is a channel error, the broker closes the channel and     *)
(* requeues what was outstanding.  On a closed channel the call returns an   *)
(* error that the handler ignores.                                           *)

MsgsOf(T) == {h[t].msg : t \in T}

CloseChannel ==
    /\ open' = FALSE
    /\ ready' = ready \union MsgsOf(unacked)
    /\ unacked' = {}

(* Mutated form: the message is requeued and the delivery stays outstanding. *)
NackKeepsTag(t) ==
    /\ ready' = ready \union {h[t].msg}
    /\ UNCHANGED <<unacked, open, acked, blind>>

NackRequeue(t) ==
    /\ \/ /\ t \in unacked
          /\ unacked' = unacked \ {t}
          /\ ready' = ready \union {h[t].msg}
          /\ open' = open
       \/ /\ t \notin unacked /\ open
          /\ CloseChannel
       \/ /\ ~open
          /\ UNCHANGED <<ready, unacked, open>>
    /\ UNCHANGED <<acked, blind>>

Ack(t) ==
    \/ /\ t \in unacked
       /\ unacked' = unacked \ {t}
       /\ acked' = acked \union {h[t].msg}
       /\ blind' = IF h[t].ok THEN blind ELSE blind \union {h[t].msg}
       /\ UNCHANGED <<ready, open>>
    \/ /\ t \notin unacked /\ open
       /\ CloseChannel
       /\ UNCHANGED <<acked, blind>>
    \/ /\ ~open
       /\ UNCHANGED broker

----------------------------------------------------------------------------
(* Mutated form: the tag given out is not counted.                           *)
SameTag == tags

NextTag == tags + 1

(* run_worker: the consumer has no prefetch limit, and the loop starts a     *)
(* goroutine for every delivery without waiting for the others.              *)
Deliver ==
    /\ alive /\ open /\ tags < MaxTags
    /\ \E m \in ready :
          /\ \A n \in ready : m <= n
          /\ ready' = ready \ {m}
          /\ tags' = NextTag
          /\ unacked' = unacked \union {tags + 1}
          /\ h' = [h EXCEPT ![tags + 1] = [Idle EXCEPT !.msg = m, !.pc = "decode"]]
    /\ UNCHANGED <<env, alive, open, feeds, faults, acked, blind, reached>>

(* Mutated form: the decoding error is only logged.                          *)
OnlyLogged(t) == UNCHANGED broker

OnDecodeError(t) == NackRequeue(t)

(* json.Unmarshal.  On an error the message is given back, and the handler   *)
(* carries on with what was decoded.                                         *)
Decode(t) ==
    /\ h[t].pc = "decode"
    /\ h' = [h EXCEPT ![t].pc = "lookup"]
    /\ \/ /\ body[h[t].msg] = "tweet"
          /\ UNCHANGED broker
       \/ /\ body[h[t].msg] # "tweet"
          /\ OnDecodeError(t)
    /\ UNCHANGED <<env, alive, tags, feeds, faults, reached>>

(* Mutated form: the query for the followers lost its filter.                *)
Everyone(m) == Readers

FollowersOf(m) == followers[author[m]]

(* get_user_followers, one GetFollowers call to the users service.           *)
LookupOk(t) ==
    /\ h[t].pc = "lookup"
    /\ body[h[t].msg] # "garbage"
    /\ h' = [h EXCEPT ![t].pc = "push", ![t].ok = TRUE,
                      ![t].todo = FollowersOf(h[t].msg)]
    /\ UNCHANGED <<env, broker, alive, tags, feeds, faults, reached>>

(* The call fails or takes more than 3 seconds, or the empty user id of a    *)
(* garbage body is refused: the error is logged, the follower list is empty. *)
LookupFailed(t) ==
    /\ h[t].pc = "lookup"
    /\ "lookup" \in Failures \/ body[h[t].msg] = "garbage"
    /\ h' = [h EXCEPT ![t].pc = "push"]
    /\ UNCHANGED <<env, broker, alive, tags, feeds, faults, reached>>

EntryOf(m) == IF body[m] = "tweet" THEN m ELSE EmptyId

(* Mutated form: pushed at the other end.                                    *)
RPush(t, r, copies) ==
    /\ feeds' = [feeds EXCEPT ![r] = @ \o [i \in 1..copies |-> EntryOf(h[t].msg)]]
    /\ reached' = [reached EXCEPT
          ![r] = IF copies > 0 THEN @ \union {EntryOf(h[t].msg)} ELSE @]

LPush(t, r, copies) ==
    LET e == EntryOf(h[t].msg)
    IN /\ feeds' = [feeds EXCEPT ![r] = [i \in 1..copies |-> e] \o @]
       /\ reached' = [reached EXCEPT ![r] = IF copies > 0 THEN @ \union {e} ELSE @]

(* Mutated form: the follower pushed to is not struck off.                   *)
NoneStruckOff(t, r) == h[t].todo

Remaining(t, r) == h[t].todo \ {r}

(* One turn of the loop over the followers, up to the LPUSH.  The client     *)
(* sends a timed-out LPUSH again, so that it may have run more than once.    *)
PushOk(t, r) ==
    /\ h[t].pc = "push"
    /\ r \in h[t].todo
    /\ \E copies \in 1..(1 + Retries) : LPush(t, r, copies)
    /\ h' = [h EXCEPT ![t].pc = "trim", ![t].todo = Remaining(t, r), ![t].cur = {r}]
    /\ UNCHANGED <<env, broker, alive, tags, faults>>

(* Mutated forms: the follower is skipped; the loop goes on after the Nack;  *)
(* the handler returns without the Nack.                                     *)
SkipFollower(t, r) == h' = [h EXCEPT ![t].todo = @ \ {r}] /\ UNCHANGED broker
NackAndGoOn(t, r) == h' = [h EXCEPT ![t].todo = @ \ {r}] /\ NackRequeue(t)
JustReturn(t, r) == h' = [h EXCEPT ![t].pc = "done"] /\ UNCHANGED broker

OnPushError(t, r) == h' = [h EXCEPT ![t].pc = "done"] /\ NackRequeue(t)

(* LPUSH fails for good, run by the server or not: the message is requeued   *)
(* and the handler returns.                                                  *)
PushFailed(t, r) ==
    /\ Fault("lpush")
    /\ h[t].pc = "push"
    /\ r \in h[t].todo
    /\ \E copies \in 0..(1 + Retries) : LPush(t, r, copies)
    /\ OnPushError(t, r)
    /\ UNCHANGED <<env, alive, tags>>

(* Mutated form: LTRIM keeps one entry too many.                             *)
TrimmedOneShort(s) == IF Len(s) > FeedCap + 1 THEN SubSeq(s, 1, FeedCap + 1) ELSE s

(* LTRIM 0 FeedCap-1.  An error is only logged.                              *)
Trimmed(s) == IF Len(s) > FeedCap THEN SubSeq(s, 1, FeedCap) ELSE s

Trim(t) ==
    /\ h[t].pc = "trim"
    /\ h' = [h EXCEPT ![t].pc = "push", ![t].cur = {}]
    /\ \/ /\ feeds' = [r \in Readers |-> IF r \in h[t].cur THEN Trimmed(feeds[r]) ELSE feeds[r]]
          /\ UNCHANGED faults
       \/ Fault("ltrim") /\ UNCHANGED feeds
    /\ UNCHANGED <<env, broker, alive, tags, reached>>

(* Mutated form: acknowledged once the followers are known.                  *)
AnyTime(t) == TRUE

LoopEnded(t) == h[t].todo = {}

(* msg.Ack after the loop.                                                   *)
Finish(t) ==
    /\ h[t].pc = "push"
    /\ LoopEnded(t)
    /\ h' = [h EXCEPT ![t].pc = "done"]
    /\ Ack(t)
    /\ UNCHANGED <<env, alive, tags, feeds, faults, reached>>

HandlerStep(t) ==
    \/ Decode(t) \/ LookupOk(t) \/ LookupFailed(t)
    \/ \E r \in Readers : PushOk(t, r) \/ PushFailed(t, r)
    \/ Trim(t) \/ Finish(t)

----------------------------------------------------------------------------
(* The process dies with all its handlers; the broker sees the connection    *)
(* close.  Of a worker that has lost its channel before, this death takes    *)
(* nothing more, and is not counted.                                         *)
Crash ==
    /\ alive
    /\ \/ open /\ Fault("crash")
       \/ ~open /\ "crash" \in Failures /\ UNCHANGED faults
    /\ alive' = FALSE
    /\ CloseChannel
    /\ h' = [t \in Tags |-> IF h[t].pc = "idle" THEN h[t] ELSE [h[t] EXCEPT !.pc = "done"]]
    /\ UNCHANGED <<env, tags, feeds, acked, blind, reached>>

(* The connection breaks under a worker that lives: the deliveries end, main *)
(* waits on for ever, and the handlers carry on with what they have.         *)
ChannelLost ==
    /\ open
    /\ Fault("connection")
    /\ CloseChannel
    /\ UNCHANGED <<env, alive, tags, h, feeds, acked, blind, reached>>

(* general_tweets is transient: its messages, outstanding or not, are gone.  *)
Dropped == ready' = {} /\ lost' = lost \union ready \union MsgsOf(unacked)

(* The broker restarts: for the worker, its connection breaks.               *)
BrokerRestart ==
    /\ Fault("broker")
    /\ Dropped
    /\ open' = FALSE
    /\ unacked' = {}
    /\ UNCHANGED <<followers, published, body, author, steady, ever, alive, tags, h, feeds,
                   acked, blind, reached>>

(* A new process (main, run_worker) opens a new channel.                     *)
Start ==
    /\ ~alive
    /\ alive' = TRUE
    /\ open' = TRUE
    /\ UNCHANGED <<env, ready, unacked, tags, h, feeds, faults, acked, blind, reached>>

Next ==
    \/ Publish
    \/ \E a \in Authors, r \in Readers : Follow(a, r) \/ Unfollow(a, r)
    \/ Deliver
    \/ \E t \in Tags : HandlerStep(t)
    \/ Crash \/ ChannelLost \/ BrokerRestart
    \/ Start

Spec == Init /\ [][Next]_vars

(* The broker delivers while a consumer listens and the Go runtime runs      *)
(* every goroutine.  Nothing restarts a dead worker (the restart policies    *)
(* of docker-compose.yml are commented out): no fairness on Start.           *)
Fairness == WF_vars(Deliver) /\ \A t \in Tags : WF_vars(HandlerStep(t))

FairSpec == Spec /\ Fairness
----------------------------------------------------------------------------
(* Types of all variables.                                                   *)
TypeOK ==
    /\ followers \in [Authors -> SUBSET Readers]
    /\ published \in 0..MaxMsgs
    /\ body \in [Msgs -> Bodies]
    /\ author \in [Msgs -> Authors]
    /\ ready \subseteq Msgs
    /\ tags \in 0..MaxTags
    /\ unacked \subseteq 1..tags
    /\ alive \in BOOLEAN
    /\ open \in BOOLEAN
    /\ h \in [Tags -> Handler]
    /\ feeds \in [Readers -> Seq(Entries)]
    /\ faults \in 0..MaxFaults
    /\ acked \subseteq Msgs
    /\ lost \subseteq Msgs
    /\ blind \subseteq acked
    /\ reached \in [Readers -> SUBSET Entries]
    /\ steady \in [Msgs -> SUBSET Readers]
    /\ ever \in [Msgs -> SUBSET Readers]

(* The worker neither loses nor doubles a message: a published message waits *)
(* in the queue, or one delivery of it is outstanding, or it was             *)
(* acknowledged, or a restart of the broker took it away, and never two of   *)
(* these, whatever pushes fail, processes die, connections break and         *)
(* deliveries are settled twice.                                             *)
OnePlace ==
    /\ 1..published = ready \union MsgsOf(unacked) \union acked \union lost
    /\ ready \intersect MsgsOf(unacked) = {}
    /\ (acked \union lost) \intersect (ready \union MsgsOf(unacked)) = {}
    /\ acked \intersect lost = {}
    /\ \A t, u \in unacked : h[t].msg = h[u].msg => t = u

ReachedBy(m) == {r \in Readers : m \in reached[r]}

(* The promise of the fan-out: once a message is acknowledged (and its       *)
(* followers could be read), everyone who followed the author all the way    *)
(* from publication to acknowledgement was pushed the tweet.                 *)
SteadyFollowersReached ==
    \A m \in acked \ blind : steady[m] \subseteq ReachedBy(m)

(* Nobody gets the tweet of an author he did not follow at some time between *)
(* publication and acknowledgement, not even from a handler that goes on     *)
(* after its message was given back.                                         *)
OnlyFollowersReached ==
    \A m \in Msgs : ReachedBy(m) \subseteq ever[m]

(* A handler of a well-formed message never costs the worker its channel: on *)
(* every path (the return after the failed LPUSH, the Ack at the end) it     *)
(* settles its delivery once.  Of all handlers only those of a body that     *)
(* cannot be decoded can make the broker close the channel.                  *)
GoodBodiesKeepChannel ==
    [][\A t \in Tags : HandlerStep(t) /\ open /\ ~open' => body[h[t].msg] # "tweet"]_vars

(* A body that cannot be decoded is never acknowledged, by whichever of its  *)
(* deliveries: it stays with the broker for ever.                            *)
BadBodyNeverAcked == \A m \in acked : body[m] = "tweet"

Occurrences(e, s) == Cardinality({i \in DOMAIN s : s[i] = e})

DeliveriesOf(m) == {t \in 1..tags : h[t].msg = m}

(* A feed holds a tweet twice only because the message was delivered again   *)
(* or the Redis client sent the LPUSH again.                                 *)
DuplicatesNeedRedelivery ==
    \A r \in Readers, m \in Msgs :
        Occurrences(m, feeds[r]) <= (1 + Retries) * Cardinality(DeliveriesOf(m))

Untrimmed(r) == {t \in Tags : h[t].pc \in {"trim", "done"} /\ r \in h[t].cur}

(* A feed is longer than the cap only by the pushes of handlers that are     *)
(* about to trim it or died there, of LTRIMs that failed, and of pushes that *)
(* failed (which skip the LTRIM), however handlers interleave.               *)
FeedBounded ==
    \A r \in Readers :
        Len(feeds[r]) <= FeedCap + (1 + Retries) * (Cardinality(Untrimmed(r)) + faults)

(* Every published message is acknowledged in the end or lost with a restart *)
(* of the broker, failed pushes, failed lookups, deaths and broken           *)
(* connections included, while no body is malformed, if only the worker is   *)
(* started again whenever it has lost its channel.                           *)
EveryMessageSettles ==
    (\A m \in Msgs : body[m] = "tweet") /\ []<>open =>
        \A m \in Msgs : (m <= published) ~> (m \in acked \union lost)

----------------------------------------------------------------------------
(* What the documentation and the tests of the worker say, and the code does *)
(* not do.                                                                   *)

(* main_test.go, GetFollowersError: a message whose followers cannot be read *)
(* is requeued.  The code acknowledges it.                                   *)
NeverBlindlyAcked == blind = {}

(* The worker implements at-least-once fan-out.                              *)
Delivery == INSTANCE FeedDelivery WITH
    mayDrop <- "lookup" \in Failures,
    mayLose <- "broker" \in Failures,
    pending <- Pending \ lost,
    settled <- acked \ blind,
    dropped <- blind,
    reached <- [r \in Readers |-> reached[r] \ {EmptyId}]

DeliverySpec == Delivery!Spec

(* Every list is one that FeedRead can read: pushed to at the front and      *)
(* trimmed at the back, by one handler at a time, and never longer than what *)
(* all deliveries together may push there, each of them once.                *)
List(r) == INSTANCE FeedList WITH
    list <- feeds[r],
    Items <- Entries,
    Cap <- FeedCap,
    MaxLen <- (1 + Retries) * MaxTags

FeedListSpec ==
    /\ \A r \in Readers : List(r)!Init
    /\ [][\A r \in Readers : UNCHANGED feeds[r] \/ List(r)!Next]_feeds
=============================================================================
