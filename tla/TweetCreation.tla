--------------------------- MODULE TweetCreation ----------------------------
(* Posts in the tweets service (routes/__init__.py): createTweet stores a    *)
(* tweet, has it counted by the users service and publishes it twice;        *)
(* createTweetReply stores a reply and has it counted.  Three systems take   *)
(* part and no transaction spans them.                                       *)
EXTENDS Broker, FiniteSets

CONSTANT Slots  \* requests that may be under way at the same time

VARIABLES
    requested,  \* posts requested so far: the next has the next number as its id
    reply,      \* the posts that are replies
    stored,     \* tables tweets and reply_tweets
    committed,  \* history: posts ever committed
    counted,    \* posts counted in num_tweets at the users service
    uncounted,  \* history: posts whose call of IncrementTweets was not executed
    req,        \* the request every slot works on
    answer      \* what the client was told of every post

creationVars == <<requested, reply, stored, committed, counted, uncounted, req, answer>>

Steps == {"idle", "commit", "refresh", "count", "feed", "events"}

Idle == [pc |-> "idle", post |-> 0]

CreationInit ==
    /\ requested = 0
    /\ reply = {}
    /\ stored = {}
    /\ committed = {}
    /\ counted = {}
    /\ uncounted = {}
    /\ req = [q \in Slots |-> Idle]
    /\ answer = [p \in Posts |-> "none"]

GoTo(q, pc) == req' = [req EXCEPT ![q].pc = pc] /\ UNCHANGED answer

Answer(q, a) ==
    /\ req' = [req EXCEPT ![q] = Idle]
    /\ answer' = [answer EXCEPT ![req[q].post] = a]

----------------------------------------------------------------------------
(* A request arrives; the post exists in memory only.                        *)
Request(q, isReply) ==
    /\ req[q] = Idle
    /\ requested < MaxPosts
    /\ requested' = requested + 1
    /\ reply' = IF isReply THEN reply \union {requested + 1} ELSE reply
    /\ req' = [req EXCEPT ![q] = [pc |-> "commit", post |-> requested + 1]]
    /\ UNCHANGED <<stored, committed, counted, uncounted, answer, faults, brokerVars>>

(* Mutated form: the error is logged, as errors of IncrementTweets are.      *)
GoOn(q) == GoTo(q, "count")

(* The database error: rolled back, and the client is told 500.              *)
OnDatabaseError(q) == Answer(q, "error")

(* add and commit.  A commit that fails may have been done all the same,     *)
(* when it is the database's answer that is missing.                         *)
Commit(q) ==
    LET p == req[q].post
        Store == stored' = stored \union {p} /\ committed' = committed \union {p}
    IN /\ req[q].pc = "commit"
       /\ \/ /\ Store
             /\ GoTo(q, IF p \in reply THEN "count" ELSE "refresh")
             /\ UNCHANGED faults
          \/ /\ Fault("db")
             /\ Store \/ UNCHANGED <<stored, committed>>
             /\ OnDatabaseError(q)
       /\ UNCHANGED <<requested, reply, counted, uncounted, brokerVars>>

(* refresh, which fails also when the owner has deleted the tweet since.     *)
Refresh(q) ==
    /\ req[q].pc = "refresh"
    /\ \/ /\ req[q].post \in stored
          /\ GoTo(q, "count")
          /\ UNCHANGED faults
       \/ /\ req[q].post \notin stored
          /\ Answer(q, "error")
          /\ UNCHANGED faults
       \/ Fault("db") /\ Answer(q, "error")
    /\ UNCHANGED <<requested, reply, stored, committed, counted, uncounted, brokerVars>>

(* Mutated form: the call is left out.                                       *)
NotCalled(q) == UNCHANGED <<counted, uncounted, faults>>

CountCall(q) ==
    LET p == req[q].post
    IN \/ /\ counted' = counted \union {p}
          /\ UNCHANGED uncounted
          /\ UNCHANGED faults \/ Fault("users")
       \/ /\ Fault("users")
          /\ uncounted' = uncounted \union {p}
          /\ UNCHANGED counted

(* IncrementTweets: an error is dropped, whether the call was executed or    *)
(* not.  For a reply it is the last step.                                    *)
IncrementTweets(q) ==
    /\ req[q].pc = "count"
    /\ CountCall(q)
    /\ IF req[q].post \in reply THEN Answer(q, "ok") ELSE GoTo(q, "feed")
    /\ UNCHANGED <<requested, reply, stored, committed, brokerVars>>

(* An exception of pika is not caught: the client is told 500.               *)
OnPublishError(q) == Answer(q, "error")

(* produce_message: the queue is declared, and the message goes to the       *)
(* exchange.  The connection may break before, between and after.            *)
produce_message(q, queue, key, Continue) ==
    LET p == req[q].post
    IN /\ \/ /\ QueueDeclare(queue) /\ BasicPublish(bindings, key, p, TRUE)
             /\ Continue
             /\ UNCHANGED faults
          \/ /\ Fault("mq")
             /\ \/ UNCHANGED declared /\ UNCHANGED <<events, ready, fed, sent>>
                \/ QueueDeclare(queue) /\ UNCHANGED <<events, ready, fed, sent>>
                \/ QueueDeclare(queue) /\ BasicPublish(bindings, key, p, TRUE)
             /\ OnPublishError(q)
       /\ UNCHANGED <<requested, reply, stored, committed, counted, uncounted, bindings, lost>>

PublishToFeed(q) ==
    /\ req[q].pc = "feed"
    /\ produce_message(q, "general_tweets", "general_tweets", GoTo(q, "events"))

PublishEvent(q) ==
    /\ req[q].pc = "events"
    /\ produce_message(q, "tweet_events", "tweet.create", Answer(q, "ok"))

createTweet(q) ==
    \/ Request(q, FALSE)
    \/ Commit(q) \/ Refresh(q)
    \/ IncrementTweets(q)
    \/ PublishToFeed(q) \/ PublishEvent(q)

(* createTweetReply shares Commit and IncrementTweets, and has nothing else. *)
createTweetReply(q) == Request(q, TRUE)

(* deleteTweet and deleteTweetReply, at their commit: neither the users      *)
(* service nor the broker is told.                                           *)
deletePost(p) ==
    /\ p \in stored
    /\ stored' = stored \ {p}
    /\ UNCHANGED <<requested, reply, committed, counted, uncounted, req, answer, faults, brokerVars>>

(* The process dies: its requests are gone, what they did stays.             *)
ServiceCrash ==
    /\ Fault("tweets")
    /\ req' = [q \in Slots |-> Idle]
    /\ UNCHANGED <<requested, reply, stored, committed, counted, uncounted, answer, brokerVars>>

CreationStep ==
    \/ \E q \in Slots : createTweet(q) \/ createTweetReply(q)
    \/ \E p \in Posts : deletePost(p)
    \/ ServiceCrash

CreationType ==
    /\ requested \in 0..MaxPosts
    /\ reply \subseteq 1..requested
    /\ stored \subseteq committed
    /\ committed \subseteq 1..requested
    /\ counted \subseteq 1..requested
    /\ uncounted \subseteq 1..requested
    /\ req \in [Slots -> [pc : Steps, post : 0..requested]]
    /\ answer \in [Posts -> {"none", "ok", "error"}]
=============================================================================
