---------------------------- MODULE UserFollows -----------------------------
(* Follows and user counters in the users service (routes/follower_routes.py *)
(* for HTTP, grpc/server.py for the other services, models.py).  Every       *)
(* request has a thread and a database session of its own; PostgreSQL runs   *)
(* at READ COMMITTED, so a SELECT is a step, and so is the flush and commit. *)
(* A counter is written as the value the request has read, plus one.         *)
EXTENDS Naturals, FiniteSets

CONSTANTS
    Users,
    Slots,      \* requests that may be under way at the same time
    Spellings,  \* ways a client writes a user id: a subset of AllSpellings
    MaxFollows, \* bound: follows ever created
    MaxTweets,  \* bound: tweets counted per user
    DbErrors    \* whether the database may refuse a commit for its own reasons

(* PostgreSQL takes a UUID in upper case or with other punctuation for the   *)
(* same UUID; Python compares the strings.                                   *)
AllSpellings == {"canonical", "other"}

ASSUME FollowsAssumption ==
    /\ Spellings \subseteq AllSpellings
    /\ MaxFollows \in Nat
    /\ MaxTweets \in Nat
    /\ DbErrors \in BOOLEAN

VARIABLES
    actors,         \* table actors: the users registered
    num_followers,  \* columns of table actors
    num_tweets,
    follows,        \* table follows
    ids,            \* ids given to follows so far
    req,            \* the request every slot works on
    created,        \* history: follows ever created, per user followed
    counted,        \* history: tweets ever counted, per user
    raced           \* history: counters two requests worked on at the same time

history == <<created, counted, raced>>
vars == <<actors, num_followers, num_tweets, follows, ids, req, created, counted, raced>>

Follow == [id : 1..MaxFollows, follower_id : Users, following_id : Users]

IdleReq == [op |-> "idle"]
FollowReq == [op : {"follow"}, user : Users, target : Users, seen : Nat]
UnfollowReq == [op : {"unfollow"}, row : Follow]
CountReq == [op : {"count"}, target : Users, seen : Nat]

Init ==
    /\ actors = {}
    /\ num_followers = [u \in Users |-> 0]
    /\ num_tweets = [u \in Users |-> 0]
    /\ follows = {}
    /\ ids = 0
    /\ req = [q \in Slots |-> IdleReq]
    /\ created = [u \in Users |-> 0]
    /\ counted = [u \in Users |-> 0]
    /\ raced = {}

Begin(q, r) == req[q] = IdleReq /\ req' = [req EXCEPT ![q] = r]
End(q) == req' = [req EXCEPT ![q] = IdleReq]

(* User.increment_followers and User.increment_tweets.  Mutated form: two    *)
(* are counted.                                                              *)
incrementByTwo(n) == n + 2
increment(n) == n + 1

(* Mutated form: the counter is committed before the row is refused.         *)
CounterKept(q) ==
    /\ End(q)
    /\ num_followers' =
          IF req[q].op = "follow"
          THEN [num_followers EXCEPT ![req[q].target] = increment(req[q].seen)]
          ELSE num_followers
    /\ UNCHANGED <<actors, num_tweets, follows, ids, history>>

(* The session is rolled back: neither row nor counter is written.           *)
Rollback(q) ==
    /\ End(q)
    /\ UNCHANGED <<actors, num_followers, num_tweets, follows, ids, history>>

(* A request begins to work on the counter of one operation and one user.    *)
WorksOn(q, op, u) == req[q].op = op /\ req[q].target = u

Note(q, op, u) ==
    raced' = IF \E p \in Slots \ {q} : WorksOn(p, op, u) THEN raced \union {<<op, u>>} ELSE raced

(* unique_follow.                                                            *)
unique_follow(u, v) == \A f \in follows : f.follower_id # u \/ f.following_id # v

----------------------------------------------------------------------------
(* register: the user can follow, be followed and tweet from now on.         *)
register(u) ==
    /\ u \notin actors
    /\ actors' = actors \union {u}
    /\ UNCHANGED <<num_followers, num_tweets, follows, ids, req, history>>

(* CreateFollow, up to the commit: the string of the user id in the request  *)
(* is compared with that in the token, and the user followed is read.        *)
ReadTarget(q, u, v, spelling) ==
    /\ u \in actors
    /\ ~(v = u /\ spelling = "canonical")
    /\ v \in actors
    /\ Begin(q, [op |-> "follow", user |-> u, target |-> v, seen |-> num_followers[v]])
    /\ Note(q, "follow", v)
    /\ UNCHANGED <<actors, num_followers, num_tweets, follows, ids, created, counted>>

(* Mutated form: an id may be given again.                                   *)
staleId == ids

(* The default of the column id, uuid4: an id not given before.              *)
freshId == ids + 1

(* The commit: the counter and the new row, or neither.                      *)
InsertFollow(q) ==
    LET r == req[q]
    IN /\ r.op = "follow"
       /\ \/ /\ unique_follow(r.user, r.target)
             /\ ids < MaxFollows
             /\ ids' = freshId
             /\ follows' = follows \union
                    {[id |-> ids + 1, follower_id |-> r.user, following_id |-> r.target]}
             /\ num_followers' = [num_followers EXCEPT ![r.target] = increment(r.seen)]
             /\ created' = [created EXCEPT ![r.target] = @ + 1]
             /\ End(q)
             /\ UNCHANGED <<actors, num_tweets, counted, raced>>
          \/ /\ DbErrors \/ ~unique_follow(r.user, r.target)
             /\ Rollback(q)

CreateFollow(q) ==
    \/ \E u, v \in Users, s \in Spellings : ReadTarget(q, u, v, s)
    \/ InsertFollow(q)

----------------------------------------------------------------------------
(* DeleteFollow: the row is read, then deleted by its id.  A DELETE that     *)
(* finds no row is only a warning, and num_followers stays.                  *)

(* Mutated form: the row is deleted by its users.                            *)
sameUsers(f) == {g \in follows : g.follower_id = f.follower_id /\ g.following_id = f.following_id}

sameRow(f) == {f}

DeleteFollow(q) ==
    \/ /\ \E f \in follows : Begin(q, [op |-> "unfollow", row |-> f])
       /\ UNCHANGED <<actors, num_followers, num_tweets, follows, ids, history>>
    \/ /\ req[q].op = "unfollow"
       /\ \/ /\ follows' = follows \ sameRow(req[q].row)
             /\ End(q)
             /\ UNCHANGED <<actors, num_followers, num_tweets, ids, history>>
          \/ DbErrors /\ Rollback(q)

----------------------------------------------------------------------------
(* IncrementsTweets: called by the tweets service after it stored a tweet.   *)
IncrementsTweets(q) ==
    \/ \E u \in actors :
          /\ Begin(q, [op |-> "count", target |-> u, seen |-> num_tweets[u]])
          /\ Note(q, "count", u)
          /\ UNCHANGED <<actors, num_followers, num_tweets, follows, ids, created, counted>>
    \/ LET r == req[q]
       IN /\ r.op = "count"
          /\ \/ /\ counted[r.target] < MaxTweets
                /\ num_tweets' = [num_tweets EXCEPT ![r.target] = increment(r.seen)]
                /\ counted' = [counted EXCEPT ![r.target] = @ + 1]
                /\ End(q)
                /\ UNCHANGED <<actors, num_followers, follows, ids, created, raced>>
             \/ DbErrors /\ Rollback(q)

(* GetFollowers and GetFollowing: one SELECT, and an entry of the answer for *)
(* every row.                                                                *)
GetFollowers(u) == {f \in follows : f.following_id = u}
GetFollowing(u) == {f \in follows : f.follower_id = u}

(* The same for the client, and one follow by its id.                        *)
GetUsersFollowers(u) == {f \in follows : f.following_id = u}
GetUsersFollowing(u) == {f \in follows : f.follower_id = u}
GetFollowByID(i) == {f \in follows : f.id = i}

Next ==
    \/ \E u \in Users : register(u)
    \/ \E q \in Slots : CreateFollow(q) \/ DeleteFollow(q) \/ IncrementsTweets(q)

Spec == Init /\ [][Next]_vars

----------------------------------------------------------------------------
(* Types of all variables.                                                   *)
TypeOK ==
    /\ actors \subseteq Users
    /\ num_followers \in [Users -> Nat]
    /\ num_tweets \in [Users -> Nat]
    /\ follows \subseteq Follow
    /\ ids \in 0..MaxFollows
    /\ \A f \in follows : f.id <= ids
    /\ req \in [Slots -> {IdleReq} \union FollowReq \union UnfollowReq \union CountReq]
    /\ created \in [Users -> Nat]
    /\ counted \in [Users -> Nat]
    /\ raced \subseteq {"follow", "count"} \X Users

(* Lost updates may make a counter too small, never too large: num_followers *)
(* is at most the number of follows ever created, num_tweets at most the     *)
(* number of tweets counted, however stale the value a request writes.       *)
NeverOvercounted ==
    \A u \in Users : num_followers[u] <= created[u] /\ num_tweets[u] <= counted[u]

(* A counter is exact as long as no two requests for the same counter were   *)
(* under way together: requests for the other column, for other users, or    *)
(* rolled back do no harm.                                                   *)
ExactUnlessRaced ==
    \A u \in Users :
        /\ <<"follow", u>> \notin raced => num_followers[u] = created[u]
        /\ <<"count", u>> \notin raced => num_tweets[u] = counted[u]

(* An unfollow that is late, because another one and a new follow came       *)
(* before its DELETE, does not remove the new follow.                        *)
OnlyTheRowReadIsDeleted ==
    [][\A f \in follows \ follows' :
          \E q \in Slots : req[q].op = "unfollow" /\ req[q].row = f]_vars

(* The table follows as its requests see it: every CreateFollow and          *)
(* DeleteFollow takes effect in one step, or is refused for a reason; there  *)
(* is one follow per pair of users, and a late unfollow removes no other.    *)
Pair(f) == <<f.follower_id, f.following_id>>
Begun(r) ==
    CASE r.op = "follow"   -> [op |-> "insert", key |-> <<r.user, r.target>>]
      [] r.op = "unfollow" -> [op |-> "remove", key |-> Pair(r.row), id |-> r.row.id]
      [] OTHER             -> IdleReq

table == [k \in Users \X Users |-> {f.id : f \in {g \in follows : Pair(g) = k}}]
used == 1..ids
open == actors \X actors
pend == [q \in Slots |-> Begun(req[q])]

Table == INSTANCE UniqueTable WITH
    Keys <- Users \X Users, Ids <- 1..MaxFollows, MayFail <- DbErrors
TableSpec == Table!Spec
=============================================================================
