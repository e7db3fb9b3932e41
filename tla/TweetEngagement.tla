--------------------------- MODULE TweetEngagement ---------------------------
(* Likes and reposts in the tweets service (routes/__init__.py, models.py).  *)
(* A request runs on a thread of its own with a database session of its own. *)
(* PostgreSQL runs at READ COMMITTED: every SELECT is a step that sees what  *)
(* is committed by then, and the flush and commit of a session are one step, *)
(* for the row it writes stays locked in between.  SQLAlchemy writes the     *)
(* counter as a literal, computed from the value the request has read.       *)
EXTENDS Integers, FiniteSets

CONSTANTS
    Users,
    Tweets,     \* the tweets there are at the start
    Slots,      \* requests that may be under way at the same time
    MaxRows,    \* bound: likes and reposts ever created
    DbErrors    \* whether the database may refuse a commit for its own reasons

ASSUME EngagementAssumption == MaxRows \in Nat /\ DbErrors \in BOOLEAN

Kinds == {"like", "repost"}

VARIABLES
    owner,      \* the user_id of every tweet
    tweets,     \* table tweets
    num,        \* columns num_likes and num_reposts
    rows,       \* tables tweet_like and tweet_repost
    ids,        \* ids given to rows so far
    req,        \* the request every slot works on
    raced       \* history: the counters two requests worked on at the same time

vars == <<owner, tweets, num, rows, ids, req, raced>>

Row == [kind : Kinds, id : 1..MaxRows, user : Users, tweet : Tweets]

IdleReq == [op |-> "idle"]
CreateReq == [op : {"create"}, kind : Kinds, user : Users, tweet : Tweets, seen : Int]
DeleteReq == [op : {"delete"}, row : Row, user : Users, found : {"unread", "none", "tweet"}, seen : Int]
DropReq == [op : {"drop"}, tweet : Tweets, user : Users]

Init ==
    /\ owner \in [Tweets -> Users]
    /\ tweets = Tweets
    /\ num = [k \in Kinds |-> [t \in Tweets |-> 0]]
    /\ rows = {}
    /\ ids = 0
    /\ req = [q \in Slots |-> IdleReq]
    /\ raced = {}

(* The counter a request works on: that of a kind and a tweet.               *)
Counter(r) ==
    IF r.op = "create" THEN <<r.kind, r.tweet>> ELSE <<r.row.kind, r.row.tweet>>

WorksOn(q, c) == req[q].op \in {"create", "delete"} /\ Counter(req[q]) = c

(* A request begins to work on counter c.                                    *)
Note(q, c) ==
    raced' = IF \E p \in Slots \ {q} : WorksOn(p, c) THEN raced \union {c} ELSE raced

Begin(q, r) == req[q] = IdleReq /\ req' = [req EXCEPT ![q] = r]
End(q) == req' = [req EXCEPT ![q] = IdleReq]

(* The session is rolled back, and the answer is 500.                        *)
Rollback(q) == End(q) /\ UNCHANGED <<owner, tweets, num, rows, ids, raced>>

(* Mutated form: the counter is forgotten.                                   *)
unchanged(n) == n

(* increment_likes, increment_reposts; decrement_likes, decrement_reposts.   *)
increment(n) == n + 1
decrement(n) == n - 1

RowsOf(k, t) == {r \in rows : r.kind = k /\ r.tweet = t}

(* Mutated form: the table has no constraint.                                *)
unconstrained(k, u, t) == TRUE

(* Mutated form: an id may be given again.                                   *)
staleId == ids

(* The default of the column id, uuid4: an id not given before.              *)
freshId == ids + 1

(* unique_like and unique_repost.                                            *)
unique(k, u, t) == \A r \in RowsOf(k, t) : r.user # u

(* Mutated form: an UPDATE that finds no row is taken for done.              *)
unconfirmed(t) == TRUE

(* An UPDATE of the counter finds its row, or SQLAlchemy raises.             *)
matches(t) == t \in tweets

----------------------------------------------------------------------------
(* createLike, createRepost.  The tweet is read, then the row is inserted    *)
(* and the counter written in one transaction.  (A tweet that is not there   *)
(* is a 404, which changes nothing.)                                         *)

ReadTarget(q, k, u, t) ==
    /\ t \in tweets
    /\ Begin(q, [op |-> "create", kind |-> k, user |-> u, tweet |-> t, seen |-> num[k][t]])
    /\ Note(q, <<k, t>>)
    /\ UNCHANGED <<owner, tweets, num, rows, ids>>

Insert(q, k) ==
    LET r == req[q]
    IN /\ r.op = "create" /\ r.kind = k
       /\ \/ /\ matches(r.tweet) /\ unique(k, r.user, r.tweet)
             /\ ids < MaxRows
             /\ ids' = freshId
             /\ rows' = rows \union
                    {[kind |-> k, id |-> ids + 1, user |-> r.user, tweet |-> r.tweet]}
             /\ num' = [num EXCEPT ![k][r.tweet] = increment(r.seen)]
             /\ End(q)
             /\ UNCHANGED <<owner, tweets, raced>>
          \/ /\ DbErrors \/ ~matches(r.tweet) \/ ~unique(k, r.user, r.tweet)
             /\ Rollback(q)

createLike(q) ==
    \/ \E u \in Users, t \in Tweets : ReadTarget(q, "like", u, t)
    \/ Insert(q, "like")

createRepost(q) ==
    \/ \E u \in Users, t \in Tweets : ReadTarget(q, "repost", u, t)
    \/ Insert(q, "repost")

----------------------------------------------------------------------------
(* deleteLike, deleteRepost.  The row is read and checked, then its tweet is *)
(* read, then the row is deleted and the counter written.  A DELETE that     *)
(* finds no row is only a warning.  (No row: 404.  Not its user: 403.)       *)

(* Mutated form: the user of the row is not compared.                        *)
anyone(u, r) == TRUE

mayDelete(u, r) == r.user = u

ReadRow(q, k, u, r) ==
    /\ r \in rows /\ r.kind = k
    /\ mayDelete(u, r)
    /\ Begin(q, [op |-> "delete", row |-> r, user |-> u, found |-> "unread", seen |-> 0])
    /\ Note(q, <<k, r.tweet>>)
    /\ UNCHANGED <<owner, tweets, num, rows, ids>>

ReadItsTweet(q, k) ==
    /\ req[q].op = "delete" /\ req[q].row.kind = k /\ req[q].found = "unread"
    /\ LET t == req[q].row.tweet
       IN \/ /\ t \in tweets
             /\ req' = [req EXCEPT ![q].found = "tweet", ![q].seen = num[k][t]]
          \/ /\ t \notin tweets
             /\ req' = [req EXCEPT ![q].found = "none"]
    /\ UNCHANGED <<owner, tweets, num, rows, ids, raced>>

Remove(q, k) ==
    LET r == req[q]
        t == req[q].row.tweet
    IN /\ r.op = "delete" /\ r.row.kind = k
       /\ \/ /\ r.found = "none"
             /\ rows' = rows \ {r.row}
             /\ End(q)
             /\ UNCHANGED <<owner, tweets, num, ids, raced>>
          \/ /\ r.found = "tweet" /\ matches(t)
             /\ rows' = rows \ {r.row}
             /\ num' = [num EXCEPT ![k][t] = decrement(r.seen)]
             /\ End(q)
             /\ UNCHANGED <<owner, tweets, ids, raced>>
          \/ /\ r.found # "unread"
             /\ DbErrors \/ (r.found = "tweet" /\ ~matches(t))
             /\ Rollback(q)

deleteLike(q) ==
    \/ \E u \in Users, r \in rows : ReadRow(q, "like", u, r)
    \/ ReadItsTweet(q, "like")
    \/ Remove(q, "like")

deleteRepost(q) ==
    \/ \E u \in Users, r \in rows : ReadRow(q, "repost", u, r)
    \/ ReadItsTweet(q, "repost")
    \/ Remove(q, "repost")

----------------------------------------------------------------------------
(* deleteTweet.  The likes and reposts of the tweet stay.                    *)

isOwner(u, t) == owner[t] = u

ReadOwn(q, u, t) ==
    /\ t \in tweets
    /\ isOwner(u, t)
    /\ Begin(q, [op |-> "drop", tweet |-> t, user |-> u])
    /\ UNCHANGED <<owner, tweets, num, rows, ids, raced>>

Drop(q) ==
    /\ req[q].op = "drop"
    /\ \/ /\ tweets' = tweets \ {req[q].tweet}
          /\ End(q)
          /\ UNCHANGED <<owner, num, rows, ids, raced>>
       \/ DbErrors /\ Rollback(q)

deleteTweet(q) == (\E u \in Users, t \in Tweets : ReadOwn(q, u, t)) \/ Drop(q)

(* The lists a user can ask for: the own tweets, likes and reposts.          *)
getTweets(u) == {t \in tweets : owner[t] = u}
getLikes(u) == {r \in rows : r.kind = "like" /\ r.user = u}
getReposts(u) == {r \in rows : r.kind = "repost" /\ r.user = u}

----------------------------------------------------------------------------
Next ==
    \E q \in Slots :
        \/ createLike(q) \/ createRepost(q)
        \/ deleteLike(q) \/ deleteRepost(q)
        \/ deleteTweet(q)

Spec == Init /\ [][Next]_vars

----------------------------------------------------------------------------
(* Types of all variables.                                                   *)
TypeOK ==
    /\ owner \in [Tweets -> Users]
    /\ tweets \subseteq Tweets
    /\ num \in [Kinds -> [Tweets -> Int]]
    /\ rows \subseteq Row
    /\ ids \in 0..MaxRows
    /\ \A r \in rows : r.id <= ids
    /\ req \in [Slots -> {IdleReq} \union CreateReq \union DeleteReq \union DropReq]
    /\ raced \subseteq Kinds \X Tweets

(* No list of a user's likes (reposts) names a tweet twice, though no        *)
(* request checks: two requests for the same like may both read before       *)
(* either inserts.                                                           *)
OnePerUser ==
    \A u \in Users :
        /\ \A r, s \in getLikes(u) : r.tweet = s.tweet => r = s
        /\ \A r, s \in getReposts(u) : r.tweet = s.tweet => r = s

(* num_likes (num_reposts) of a tweet is the number of its likes (reposts),  *)
(* refused, repeated and rolled back requests included, until two requests   *)
(* for the same counter are under way at the same time.                      *)
ExactUnlessRaced ==
    \A k \in Kinds, t \in tweets :
        <<k, t>> \notin raced => num[k][t] = Cardinality(RowsOf(k, t))

(* No request, with whatever it read before, likes a tweet that is gone, or  *)
(* writes the counter of one.                                                *)
GoneTweetsUntouched ==
    [][\A t \in Tweets \ tweets :
          /\ t \notin tweets'
          /\ \A k \in Kinds : num'[k][t] = num[k][t]
          /\ \A r \in rows' \ rows : r.tweet # t]_vars

(* Rows vanish only at the request of the user they belong to, and tweets    *)
(* from a user's list only at the request of that user.                      *)
OnlyOwnersDelete ==
    [][/\ \A r \in rows \ rows' :
             \E q \in Slots : req[q].op = "delete" /\ req[q].row = r /\ req[q].user = r.user
       /\ \A u \in Users : \A t \in getTweets(u) \ getTweets(u)' :
             \E q \in Slots : req[q].op = "drop" /\ req[q].tweet = t /\ req[q].user = u]_vars

(* The tables tweet_like and tweet_repost as their requests see them: every  *)
(* request takes effect in one step, or is refused for a reason; there is    *)
(* one row per user and tweet, of a tweet that was there; and a late         *)
(* deleteLike or deleteRepost removes no other row than the one it read.     *)
Key(r) == <<r.kind, r.user, r.tweet>>
Begun(r) ==
    CASE r.op = "create" -> [op |-> "insert", key |-> Key(r)]
      [] r.op = "delete" -> [op |-> "remove", key |-> Key(r.row), id |-> r.row.id]
      [] OTHER           -> IdleReq

Keys == Kinds \X Users \X Tweets

table == [k \in Keys |-> {r.id : r \in {s \in rows : Key(s) = k}}]
used == 1..ids
open == Kinds \X Users \X tweets
pend == [q \in Slots |-> Begun(req[q])]

Table == INSTANCE UniqueTable WITH Ids <- 1..MaxRows, MayFail <- DbErrors
TableSpec == Table!Spec
=============================================================================
