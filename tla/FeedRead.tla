------------------------------ MODULE FeedRead ------------------------------
(* A client pages through a feed: GET /feed of the feed service (its routes, *)
(* dependencies/redis.py, grpc/client) with a token of the users service,    *)
(* over a list in Redis that feed-workers push to and trim meanwhile (any    *)
(* list that FeedList allows), and the tweets service's GetTweets, which     *)
(* only knows tweets not deleted.                                            *)
EXTENDS Auth, Rpc, FiniteSets

CONSTANTS
    TweetIds,     \* tweets posted
    EmptyId,      \* the entry that a message without a tweet_id leaves
    FeedCap,      \* entries LTRIM leaves: 1000 in the code
    MaxLen,       \* bound: entries of the list between two trims
    Limit,        \* length of the client's pages: 1..100 in the code
    MaxClock,     \* bound: time
    Deployments   \* a subset of Deployment

ASSUME ReadAssumption ==
    /\ FeedCap \in Nat \ {0} /\ MaxLen \in Nat /\ MaxClock \in Nat
    /\ Limit \in 1..100
    /\ EmptyId \notin TweetIds
    /\ Deployments \subseteq Deployment

Ids == TweetIds \union {EmptyId}

VARIABLES
    deployed, clock,
    token,    \* the client's token, if any
    tweets,   \* table tweets: those not deleted
    feed,     \* feed:{user_id}
    call,     \* the request under way
    offset,   \* what the client asks for next
    start,    \* history: the list when the client began
    shift,    \* history: entries pushed since, up to MaxLen
    shown,    \* history: tweets shown to the client
    missed,   \* history: tweets of pages for which GetTweets failed
    stage     \* of the client: "new", "paging" or "ended"

client == <<offset, start, shift, shown, missed, stage>>
secrets == <<deployed, clock, token>>
vars == <<deployed, clock, token, tweets, feed, call, client, serving, outcome>>

Feed == INSTANCE FeedList WITH list <- feed, Items <- Ids, Cap <- FeedCap

NoToken == [secret |-> "none", exp |-> 0]
NoCall == [at |-> "none", ids |-> <<>>]

Init ==
    /\ RpcInit
    /\ deployed \in Deployments /\ clock = 0 /\ token = NoToken
    /\ tweets = TweetIds
    /\ Feed!Init
    /\ call = NoCall
    /\ offset = 0 /\ start = <<>> /\ shift = 0 /\ shown = {} /\ missed = {}
    /\ stage = "new"

Entries(list) == {list[i] : i \in DOMAIN list}

----------------------------------------------------------------------------
(* What goes on meanwhile.                                                   *)

Tick == clock < MaxClock /\ clock' = clock + 1
        /\ UNCHANGED <<deployed, token, tweets, feed, call, client, rpcVars>>

(* LPUSH by a feed-worker, perhaps late, perhaps again, perhaps of nothing.  *)
Push(e, copies) ==
    /\ Feed!Push(e, copies)
    /\ shift' = IF stage = "new" THEN shift
                ELSE IF shift + copies < MaxLen THEN shift + copies ELSE MaxLen
    /\ UNCHANGED <<secrets, tweets, call, offset, start, shown, missed, stage, rpcVars>>

(* LTRIM by a feed-worker.                                                   *)
Trim ==
    /\ Feed!Trim
    /\ UNCHANGED <<secrets, tweets, call, client, rpcVars>>

(* deleteTweet; ids of deleted tweets stay in the lists.                     *)
Delete(t) ==
    /\ t \in tweets
    /\ tweets' = tweets \ {t}
    /\ UNCHANGED <<secrets, feed, call, client, rpcVars>>

(* The tweets service's gRPC server starts, or stops with its container.     *)
Restart ==
    /\ serve("tweets") \/ Stop("tweets")
    /\ UNCHANGED <<secrets, tweets, feed, call, client>>

----------------------------------------------------------------------------
Accepted == Accepts(deployed, "feed", token, clock)

(* The client registers or logs in, for want of a token the service takes.   *)
Issue ==
    /\ Starts(deployed, "users") /\ Starts(deployed, "feed") /\ ~Accepted
    /\ token' = sign_jwt(deployed, clock)
    /\ token' # token
    /\ UNCHANGED <<deployed, clock, tweets, feed, call, client, rpcVars>>

(* LRANGE of Redis: both ends included, and no further than the list goes.   *)
LRange(list, from, to) ==
    SubSeq(list, from + 1, IF to < Len(list) THEN to + 1 ELSE Len(list))

(* Mutated form: the last entry of the page is left out.                     *)
EndOneShort(from) == from + Limit - 2

PageEnd(from) == from + Limit - 1

get_feed_tweet_ids == LRange(feed, offset, PageEnd(offset))

(* GET /feed finds its handler, gets past VerifyToken, and reads the ids.    *)
(* When there are none the answer is without limit and offset, and the       *)
(* client knows that it is at the end.  The first page is the beginning.     *)
Read ==
    /\ stage \in {"new", "paging"} /\ call = NoCall
    /\ Resolve(feed_api, "GET", <<"feed">>) = "get_feed"
    /\ Accepted
    /\ IF get_feed_tweet_ids = <<>>
       THEN call' = NoCall /\ stage' = "ended"
       ELSE call' = [at |-> "read", ids |-> get_feed_tweet_ids] /\ stage' = "paging"
    /\ start' = IF stage = "new" THEN feed ELSE start
    /\ UNCHANGED <<secrets, tweets, feed, offset, shift, shown, missed, rpcVars>>

(* GetTweets of the tweets service: rows in no particular order.  PostgreSQL *)
(* takes the query only if everything asked for is a UUID.                   *)
TweetsFound(ids) == Entries(ids) \intersect tweets
Answerable(ids) == Reply("GetTweets") = "OK" /\ EmptyId \notin Entries(ids)

(* GetTweets of the feed service: an error, which the database of the tweets *)
(* service may also be the reason for, gives no tweets.                      *)
GetTweets(ids, answered) == IF answered THEN TweetsFound(ids) ELSE {}

(* The page is filled in and answered; the client goes on behind it.         *)
Hydrate ==
    /\ call.at = "read"
    /\ \E answered \in BOOLEAN :
          /\ answered => Answerable(call.ids)
          /\ shown' = shown \union GetTweets(call.ids, answered)
          /\ missed' = IF answered THEN missed
                       ELSE missed \union (Entries(call.ids) \ {EmptyId})
    /\ offset' = offset + Limit
    /\ call' = NoCall
    /\ UNCHANGED <<secrets, tweets, feed, start, shift, stage, rpcVars>>

get_feed == Read \/ Hydrate

Next ==
    \/ Tick \/ Trim \/ Restart
    \/ \E e \in Ids, copies \in 1..MaxLen : Push(e, copies)
    \/ \E t \in TweetIds : Delete(t)
    \/ Issue \/ get_feed

Spec == Init /\ [][Next]_vars

(* A request that has begun is answered, and the client asks on, with a new  *)
(* token when it needs one.                                                  *)
Fairness == WF_vars(get_feed) /\ WF_vars(Issue)

FairSpec == Spec /\ Fairness

----------------------------------------------------------------------------
(* Types of all variables.                                                   *)
TypeOK ==
    /\ deployed \in Deployments
    /\ clock \in 0..MaxClock
    /\ token \in {NoToken} \union Token
    /\ tweets \subseteq TweetIds
    /\ feed \in Seq(Ids) /\ Len(feed) <= MaxLen
    /\ call \in [at : {"none", "read"}, ids : Seq(Ids)]
    /\ offset \in Nat
    /\ start \in Seq(Ids)
    /\ shift \in 0..MaxLen
    /\ shown \subseteq TweetIds /\ missed \subseteq TweetIds
    /\ stage \in {"new", "paging", "ended"}
    /\ serving \subseteq {"users", "tweets"}
    /\ outcome \in [DOMAIN CallSites -> Outcomes]

(* A client that pages through get_feed by offset to the end has been shown  *)
(* every tweet that was in the list when it began, though everything moves   *)
(* down while it reads: all but those that were trimmed off, deleted, or on  *)
(* a page whose GetTweets failed (with an empty id on it, it always does),   *)
(* which looks like a page of deleted tweets.                                *)
PagingComplete ==
    stage = "ended" =>
        \A i \in 1..Len(start) :
            \/ i + shift > Len(feed)
            \/ start[i] \in shown \union missed
            \/ start[i] \notin tweets

(* The services take the same tokens, at every moment, if the tweets         *)
(* service's .env file names no other secret than the environment, or, where *)
(* the environment has none, if all .env files name the same, and if the     *)
(* tweets service finds the algorithm there too: .env files of the other     *)
(* services do no harm, and clocks and refusals agree.                       *)
SameSecrets ==
    /\ tweets_JWT_ALGO(deployed)
    /\ IF deployed.environ # "none"
       THEN Config(deployed, "tweets") = deployed.environ
       ELSE \A s \in Services : Config(deployed, s) = Config(deployed, "users")
ServicesAgree ==
    SameSecrets =>
        \A s \in Services :
            Accepts(deployed, s, token, clock) = Accepts(deployed, "users", token, clock)

(* The lists of likes, reposts and replies of a user cannot be had: their    *)
(* routes come after /tweet/{tweet_id}.  All other routes are reached, in    *)
(* every service that starts.                                                *)
Unreached == [s \in Services |-> {route \in Entries(Apis[s]) : ~Reached(Apis[s], route)}]
RoutesReached ==
    \A s \in Services : Starts(deployed, s) =>
        {route.handler : route \in Unreached[s]} =
            IF s = "tweets" THEN {"getTweetReplys", "getLikes", "getReposts"} ELSE {}

(* However much is pushed while the client reads, it gets to the end, if     *)
(* the feed service takes the tokens it is given: pushing does not outrun    *)
(* the client, because the list is kept short (LTRIM).                       *)
PagingEnds ==
    (Starts(deployed, "feed") /\ JWT_SECRET(deployed, "feed") = JWT_SECRET(deployed, "users"))
        ~> stage = "ended"
=============================================================================
