------------------------- MODULE UserFollowsProofs --------------------------
(* Proofs about UserFollows, for any number of users, requests and follows.  *)
(* Lost updates make the counters of this service differ from the tables;    *)
(* the inductive invariant says how a counter, what requests have read of it *)
(* and what was ever counted are related.                                    *)
EXTENDS UserFollows, TLAPS

(* A request never holds a value larger than what was ever counted.          *)
SeenBounded ==
    \A q \in Slots :
        /\ req[q].op = "follow" => req[q].seen <= created[req[q].target]
        /\ req[q].op = "count" => req[q].seen <= counted[req[q].target]

(* Where no two requests met, the value that one holds is the current one.   *)
SeenCurrent ==
    \A q \in Slots :
        /\ req[q].op = "follow" =>
              <<"follow", req[q].target>> \in raced \/ req[q].seen = created[req[q].target]
        /\ req[q].op = "count" =>
              <<"count", req[q].target>> \in raced \/ req[q].seen = counted[req[q].target]

(* Requests for the same counter at the same time have met.                  *)
MetNoted ==
    \A p, q \in Slots :
        p # q /\ req[p].op = req[q].op /\ req[p].op \in {"follow", "count"}
              /\ req[p].target = req[q].target
            => <<req[q].op, req[q].target>> \in raced

(* A follow is known by its id, and by its users.                            *)
RowsOnce ==
    \A f, g \in follows :
        \/ f.id = g.id
        \/ f.follower_id = g.follower_id /\ f.following_id = g.following_id
        => f = g

IInv ==
    /\ TypeOK
    /\ RowsOnce
    /\ NeverOvercounted
    /\ SeenBounded
    /\ ExactUnlessRaced
    /\ SeenCurrent
    /\ MetNoted

USE FollowsAssumption DEF AllSpellings

(* Initially there are no users, no rows and no requests.                    *)
LEMMA InitInv == Init => IInv
BY DEF Init, IInv, TypeOK, RowsOnce, NeverOvercounted,
   SeenBounded, ExactUnlessRaced, SeenCurrent, MetNoted, IdleReq

(* The state of a request is one of four records, told apart by op.          *)
LEMMA ReqFields ==
    ASSUME TypeOK, NEW q \in Slots
    PROVE  /\ req[q].op \in {"idle", "follow", "unfollow", "count"}
           /\ req[q].op = "follow" =>
                 /\ req[q].user \in Users /\ req[q].target \in Users /\ req[q].seen \in Nat
           /\ req[q].op = "count" => req[q].target \in Users /\ req[q].seen \in Nat
           /\ req[q].op = "unfollow" => req[q].row \in Follow
           /\ req[q] = IdleReq => req[q].op = "idle"
BY DEF TypeOK, IdleReq, FollowReq, UnfollowReq, CountReq

(* Ending a request leaves the other requests alone.                         *)
LEMMA EndFacts ==
    ASSUME TypeOK, NEW q \in Slots, End(q)
    PROVE  /\ req'[q] = IdleReq
           /\ \A p \in Slots : p # q => req'[p] = req[p]
           /\ \A p \in Slots : req'[p] # IdleReq => p # q /\ req'[p] = req[p]
BY DEF TypeOK, End

(* Beginning one does, too.                                                  *)
LEMMA BeginFacts ==
    ASSUME TypeOK, NEW q \in Slots, NEW r, Begin(q, r)
    PROVE  /\ req'[q] = r
           /\ req[q].op = "idle"
           /\ \A p \in Slots : p # q => req'[p] = req[p]
BY DEF TypeOK, Begin, IdleReq

----------------------------------------------------------------------------
(* A rolled back request, and every other end of one that writes no counter, *)
(* keeps what is said about counters.                                        *)
LEMMA EndKeepsCounters ==
    ASSUME IInv, NEW q \in Slots, End(q),
           UNCHANGED <<num_followers, num_tweets, created, counted, raced>>
    PROVE  NeverOvercounted' /\ SeenBounded' /\ ExactUnlessRaced' /\ SeenCurrent' /\ MetNoted'
<1>1. NeverOvercounted' /\ ExactUnlessRaced'
  BY DEF IInv, NeverOvercounted, ExactUnlessRaced
<1>2. \A p \in Slots : req'[p].op \in {"follow", "count"} => p # q /\ req'[p] = req[p]
  BY EndFacts DEF IInv, IdleReq
<1>3. SeenBounded'
  BY <1>2 DEF IInv, SeenBounded
<1>4. SeenCurrent'
  BY <1>2 DEF IInv, SeenCurrent
<1>5. MetNoted'
  BY <1>2 DEF IInv, MetNoted
<1> QED
  BY <1>1, <1>3, <1>4, <1>5

(* The rollback of a refused commit.                                         *)
LEMMA RollbackStep ==
    ASSUME IInv, NEW q \in Slots, Rollback(q)
    PROVE  IInv'
<1>1. TypeOK'
  BY DEF IInv, TypeOK, Rollback, End, history
<1>2. RowsOnce'
  BY DEF IInv, RowsOnce, Rollback
<1> QED
  BY <1>1, <1>2, EndKeepsCounters DEF IInv, Rollback, history

(* A registration touches neither rows nor requests.                         *)
LEMMA RegisterStep ==
    ASSUME IInv, NEW u \in Users, register(u)
    PROVE  IInv'
<1>1. TypeOK'
  BY DEF IInv, TypeOK, register, history
<1>2. RowsOnce'
  BY DEF IInv, RowsOnce, register
<1>3. NeverOvercounted' /\ SeenBounded' /\ ExactUnlessRaced' /\ SeenCurrent' /\ MetNoted'
  BY DEF IInv, NeverOvercounted, SeenBounded, ExactUnlessRaced, SeenCurrent, MetNoted,
     register, history
<1> QED
  BY <1>1, <1>2, <1>3 DEF IInv

(* CreateFollow reads the user to follow, and his counter.                   *)
LEMMA ReadTargetStep ==
    ASSUME IInv, NEW q \in Slots, NEW u \in Users, NEW v \in Users, NEW s \in Spellings,
           ReadTarget(q, u, v, s)
    PROVE  IInv'
<1> DEFINE r == [op |-> "follow", user |-> u, target |-> v, seen |-> num_followers[v]]
<1>0. TypeOK /\ Begin(q, r) /\ UNCHANGED <<num_followers, num_tweets, follows, created, counted>>
  BY DEF IInv, ReadTarget
<1>1. r \in FollowReq
  BY <1>0 DEF TypeOK, FollowReq
<1>2. TypeOK'
  BY <1>0, <1>1 DEF TypeOK, ReadTarget, Begin, Note
<1>3. RowsOnce'
  BY <1>0 DEF IInv, RowsOnce
<1>4. NeverOvercounted'
  BY <1>0 DEF IInv, NeverOvercounted
<1>5. SeenBounded'
  <2>1. r.op = "follow" /\ r.target = v /\ r.seen <= created[v]
    BY DEF IInv, NeverOvercounted
  <2> HIDE DEF r
  <2> QED
    BY <1>0, <2>1, BeginFacts DEF IInv, SeenBounded
<1>6. /\ raced \subseteq raced'
      /\ <<"follow", v>> \in raced' \/ \A p \in Slots \ {q} : ~(req[p].op = "follow" /\ req[p].target = v)
  BY DEF ReadTarget, Note, WorksOn
<1>7. ExactUnlessRaced'
  BY <1>0, <1>6 DEF IInv, ExactUnlessRaced
<1>8. /\ req'[q].op = "follow" /\ req'[q].target = v /\ req'[q].seen = num_followers[v]
      /\ \A p \in Slots : p # q => req'[p] = req[p]
  BY <1>0, BeginFacts
<1>9. SeenCurrent'
  BY <1>0, <1>6, <1>8 DEF IInv, ExactUnlessRaced, SeenCurrent
<1>10. MetNoted'
  BY <1>0, <1>6, <1>8 DEF IInv, MetNoted
<1> QED
  BY <1>2, <1>3, <1>4, <1>5, <1>7, <1>9, <1>10 DEF IInv

(* The new follow and the counter, in one commit.                            *)
LEMMA FollowCommitStep ==
    ASSUME IInv, NEW q \in Slots, InsertFollow(q), ~Rollback(q)
    PROVE  IInv'
<1> DEFINE v == req[q].target
           new == [id |-> ids + 1, follower_id |-> req[q].user, following_id |-> v]
<1>1. /\ TypeOK /\ req[q].op = "follow" /\ v \in Users /\ req[q].user \in Users
      /\ req[q].seen \in Nat
  BY ReqFields DEF IInv, InsertFollow
<1>2. /\ unique_follow(req[q].user, v) /\ ids < MaxFollows /\ ids' = ids + 1
      /\ follows' = follows \union {new}
      /\ num_followers' = [num_followers EXCEPT ![v] = req[q].seen + 1]
      /\ created' = [created EXCEPT ![v] = @ + 1]
      /\ End(q)
      /\ UNCHANGED <<actors, num_tweets, counted, raced>>
  BY DEF InsertFollow, increment, freshId
<1>3. new \in Follow /\ new.id = ids' /\ new.follower_id = req[q].user /\ new.following_id = v
  BY <1>1, <1>2 DEF TypeOK, Follow
<1>4. /\ created \in [Users -> Nat] /\ created' \in [Users -> Nat]
      /\ created'[v] = created[v] + 1 /\ num_followers'[v] = req[q].seen + 1
      /\ \A w \in Users : w # v => created'[w] = created[w] /\ num_followers'[w] = num_followers[w]
  BY <1>1, <1>2 DEF TypeOK
<1> HIDE DEF new
<1>5. TypeOK'
  <2>1. num_followers' \in [Users -> Nat] /\ req' \in [Slots -> {IdleReq} \union FollowReq \union UnfollowReq \union CountReq]
    BY <1>1, <1>2 DEF TypeOK, End
  <2>2. ids' \in 0..MaxFollows /\ follows' \subseteq Follow /\ \A f \in follows' : f.id <= ids'
    BY <1>1, <1>2, <1>3 DEF TypeOK, Follow
  <2> QED
    BY <1>1, <1>2, <1>4, <2>1, <2>2 DEF TypeOK
<1>6. RowsOnce'
  <2>1. \A f \in follows : f.id # new.id
    BY <1>1, <1>2, <1>3 DEF TypeOK, Follow
  <2> QED
    BY <1>2, <1>3, <2>1 DEF IInv, RowsOnce, unique_follow
<1>7. \A p \in Slots : req'[p].op # "idle" => p # q /\ req'[p] = req[p]
  BY <1>1, <1>2, EndFacts DEF IdleReq
<1>8. NeverOvercounted'
  BY <1>1, <1>2, <1>4 DEF IInv, NeverOvercounted, SeenBounded
<1>9. SeenBounded'
  <2> SUFFICES ASSUME NEW p \in Slots
               PROVE  /\ req'[p].op = "follow" => req'[p].seen <= created'[req'[p].target]
                      /\ req'[p].op = "count" => req'[p].seen <= counted'[req'[p].target]
    BY DEF SeenBounded
  <2>1. ASSUME req'[p].op = "follow" PROVE req'[p].seen <= created'[req'[p].target]
    <3>1. p # q /\ req'[p] = req[p] /\ req[p].target \in Users /\ req[p].seen \in Nat
      BY <1>1, <1>7, <2>1, ReqFields
    <3>2. req[p].seen <= created[req[p].target]
      BY <2>1, <3>1 DEF IInv, SeenBounded
    <3> QED
      BY <1>1, <1>4, <3>1, <3>2
  <2> QED
    BY <1>2, <1>7, <2>1 DEF IInv, SeenBounded
<1>10. ExactUnlessRaced'
  BY <1>1, <1>2, <1>4 DEF IInv, ExactUnlessRaced, SeenCurrent
<1>11. SeenCurrent'
  <2> SUFFICES ASSUME NEW p \in Slots
               PROVE  /\ req'[p].op = "follow" => \/ <<"follow", req'[p].target>> \in raced'
                                                  \/ req'[p].seen = created'[req'[p].target]
                      /\ req'[p].op = "count" => \/ <<"count", req'[p].target>> \in raced'
                                                 \/ req'[p].seen = counted'[req'[p].target]
    BY DEF SeenCurrent
  <2>1. ASSUME req'[p].op = "follow"
        PROVE  <<"follow", req'[p].target>> \in raced' \/ req'[p].seen = created'[req'[p].target]
    <3>1. p # q /\ req'[p] = req[p] /\ req[p].target \in Users
      BY <1>1, <1>7, <2>1, ReqFields
    <3>2. CASE req[p].target = v
      BY <1>1, <1>2, <2>1, <3>1, <3>2 DEF IInv, MetNoted
    <3>3. CASE req[p].target # v
      BY <1>2, <1>4, <2>1, <3>1, <3>3 DEF IInv, SeenCurrent
    <3> QED
      BY <3>2, <3>3
  <2> QED
    BY <1>2, <1>7, <2>1 DEF IInv, SeenCurrent
<1>12. MetNoted'
  BY <1>2, <1>7 DEF IInv, MetNoted
<1> QED
  BY <1>5, <1>6, <1>8, <1>9, <1>10, <1>11, <1>12 DEF IInv

(* DeleteFollow reads its row.                                               *)
LEMMA UnfollowReadStep ==
    ASSUME IInv, NEW q \in Slots, NEW f \in follows,
           Begin(q, [op |-> "unfollow", row |-> f]),
           UNCHANGED <<actors, num_followers, num_tweets, follows, ids, history>>
    PROVE  IInv'
<1>1. TypeOK /\ f \in Follow /\ UNCHANGED <<created, counted, raced>>
  BY DEF IInv, TypeOK, history
<1>2. TypeOK'
  BY <1>1 DEF TypeOK, Begin, UnfollowReq
<1>3. RowsOnce' /\ NeverOvercounted' /\ ExactUnlessRaced'
  BY <1>1 DEF IInv, RowsOnce, NeverOvercounted, ExactUnlessRaced
<1>4. \A p \in Slots : req'[p].op \in {"follow", "count"} => p # q /\ req'[p] = req[p]
  BY <1>1, BeginFacts
<1>5. SeenBounded' /\ SeenCurrent'
  BY <1>1, <1>4 DEF IInv, SeenBounded, SeenCurrent
<1>6. MetNoted'
  BY <1>1, <1>4 DEF IInv, MetNoted
<1> QED
  BY <1>2, <1>3, <1>5, <1>6 DEF IInv

(* DeleteFollow deletes it.                                                  *)
LEMMA UnfollowCommitStep ==
    ASSUME IInv, NEW q \in Slots, req[q].op = "unfollow",
           follows' = follows \ sameRow(req[q].row), End(q),
           UNCHANGED <<actors, num_followers, num_tweets, ids, history>>
    PROVE  IInv'
<1>1. follows' \subseteq follows
  OBVIOUS
<1>2. TypeOK'
  BY <1>1 DEF IInv, TypeOK, End, history
<1>3. RowsOnce'
  BY <1>1 DEF IInv, RowsOnce
<1> QED
  BY <1>2, <1>3, EndKeepsCounters DEF IInv, history

(* IncrementsTweets reads the counter.                                       *)
LEMMA CountReadStep ==
    ASSUME IInv, NEW q \in Slots, NEW v \in actors,
           Begin(q, [op |-> "count", target |-> v, seen |-> num_tweets[v]]),
           Note(q, "count", v),
           UNCHANGED <<actors, num_followers, num_tweets, follows, ids, created, counted>>
    PROVE  IInv'
<1> DEFINE r == [op |-> "count", target |-> v, seen |-> num_tweets[v]]
<1>1. TypeOK /\ v \in Users /\ r \in CountReq
  BY DEF IInv, TypeOK, CountReq
<1>2. TypeOK'
  BY <1>1 DEF TypeOK, Begin, Note
<1>3. RowsOnce' /\ NeverOvercounted'
  BY DEF IInv, RowsOnce, NeverOvercounted
<1>4. /\ raced \subseteq raced'
      /\ <<"count", v>> \in raced' \/ \A p \in Slots \ {q} : ~(req[p].op = "count" /\ req[p].target = v)
  BY DEF Note, WorksOn
<1>5. /\ req'[q].op = "count" /\ req'[q].target = v /\ req'[q].seen = num_tweets[v]
      /\ \A p \in Slots : p # q => req'[p] = req[p]
  BY <1>1, BeginFacts
<1>6. SeenBounded'
  BY <1>1, <1>5 DEF IInv, SeenBounded, NeverOvercounted
<1>7. ExactUnlessRaced'
  BY <1>4 DEF IInv, ExactUnlessRaced
<1>8. SeenCurrent'
  BY <1>1, <1>4, <1>5 DEF IInv, ExactUnlessRaced, SeenCurrent
<1>9. MetNoted'
  BY <1>4, <1>5 DEF IInv, MetNoted
<1> QED
  BY <1>2, <1>3, <1>6, <1>7, <1>8, <1>9 DEF IInv

(* IncrementsTweets writes what it has read, plus one.                       *)
LEMMA CountCommitStep ==
    ASSUME IInv, NEW q \in Slots, req[q].op = "count",
           num_tweets' = [num_tweets EXCEPT ![req[q].target] = increment(req[q].seen)],
           counted' = [counted EXCEPT ![req[q].target] = @ + 1],
           End(q),
           UNCHANGED <<actors, num_followers, follows, ids, created, raced>>
    PROVE  IInv'
<1> DEFINE v == req[q].target
<1>1. TypeOK /\ v \in Users /\ req[q].seen \in Nat
  BY ReqFields DEF IInv
<1>2. /\ counted \in [Users -> Nat] /\ counted' \in [Users -> Nat]
      /\ counted'[v] = counted[v] + 1 /\ num_tweets'[v] = req[q].seen + 1
      /\ \A w \in Users : w # v => counted'[w] = counted[w] /\ num_tweets'[w] = num_tweets[w]
  BY <1>1 DEF TypeOK, increment
<1>3. TypeOK'
  BY <1>1, <1>2 DEF TypeOK, End, increment
<1>4. RowsOnce'
  BY DEF IInv, RowsOnce
<1>5. \A p \in Slots : req'[p].op # "idle" => p # q /\ req'[p] = req[p]
  BY <1>1, EndFacts DEF IdleReq
<1>6. NeverOvercounted'
  BY <1>1, <1>2 DEF IInv, NeverOvercounted, SeenBounded
<1>7. SeenBounded'
  <2> SUFFICES ASSUME NEW p \in Slots
               PROVE  /\ req'[p].op = "follow" => req'[p].seen <= created'[req'[p].target]
                      /\ req'[p].op = "count" => req'[p].seen <= counted'[req'[p].target]
    BY DEF SeenBounded
  <2>1. ASSUME req'[p].op = "count" PROVE req'[p].seen <= counted'[req'[p].target]
    <3>1. p # q /\ req'[p] = req[p] /\ req[p].target \in Users /\ req[p].seen \in Nat
      BY <1>1, <1>5, <2>1, ReqFields
    <3>2. req[p].seen <= counted[req[p].target]
      BY <2>1, <3>1 DEF IInv, SeenBounded
    <3> QED
      BY <1>1, <1>2, <3>1, <3>2
  <2> QED
    BY <1>5, <2>1 DEF IInv, SeenBounded
<1>8. ExactUnlessRaced'
  BY <1>1, <1>2 DEF IInv, ExactUnlessRaced, SeenCurrent
<1>9. SeenCurrent'
  <2> SUFFICES ASSUME NEW p \in Slots
               PROVE  /\ req'[p].op = "follow" => \/ <<"follow", req'[p].target>> \in raced'
                                                  \/ req'[p].seen = created'[req'[p].target]
                      /\ req'[p].op = "count" => \/ <<"count", req'[p].target>> \in raced'
                                                 \/ req'[p].seen = counted'[req'[p].target]
    BY DEF SeenCurrent
  <2>1. ASSUME req'[p].op = "count"
        PROVE  <<"count", req'[p].target>> \in raced' \/ req'[p].seen = counted'[req'[p].target]
    <3>1. p # q /\ req'[p] = req[p] /\ req[p].target \in Users
      BY <1>1, <1>5, <2>1, ReqFields
    <3>2. CASE req[p].target = v
      BY <1>1, <2>1, <3>1, <3>2 DEF IInv, MetNoted
    <3>3. CASE req[p].target # v
      BY <1>2, <2>1, <3>1, <3>3 DEF IInv, SeenCurrent
    <3> QED
      BY <3>2, <3>3
  <2> QED
    BY <1>5, <2>1 DEF IInv, SeenCurrent
<1>10. MetNoted'
  BY <1>5 DEF IInv, MetNoted
<1> QED
  BY <1>3, <1>4, <1>6, <1>7, <1>8, <1>9, <1>10 DEF IInv

----------------------------------------------------------------------------
(* Every step keeps the inductive invariant.                                 *)
LEMMA StepInv == IInv /\ [Next]_vars => IInv'
<1> SUFFICES ASSUME IInv, [Next]_vars PROVE IInv'
  OBVIOUS
<1>1. ASSUME NEW u \in Users, register(u) PROVE IInv'
  BY <1>1, RegisterStep
<1>2. ASSUME NEW q \in Slots, CreateFollow(q) PROVE IInv'
  BY <1>2, ReadTargetStep, FollowCommitStep, RollbackStep DEF CreateFollow
<1>3. ASSUME NEW q \in Slots, DeleteFollow(q) PROVE IInv'
  BY <1>3, UnfollowReadStep, UnfollowCommitStep, RollbackStep DEF DeleteFollow
<1>4. ASSUME NEW q \in Slots, IncrementsTweets(q) PROVE IInv'
  <2>1. CASE \E u \in actors :
               /\ Begin(q, [op |-> "count", target |-> u, seen |-> num_tweets[u]])
               /\ Note(q, "count", u)
               /\ UNCHANGED <<actors, num_followers, num_tweets, follows, ids, created, counted>>
    BY <2>1, CountReadStep
  <2>2. CASE req[q].op = "count" /\ Rollback(q)
    BY <2>2, RollbackStep
  <2>3. CASE /\ req[q].op = "count"
             /\ num_tweets' = [num_tweets EXCEPT ![req[q].target] = increment(req[q].seen)]
             /\ counted' = [counted EXCEPT ![req[q].target] = @ + 1]
             /\ End(q)
             /\ UNCHANGED <<actors, num_followers, follows, ids, created, raced>>
    BY <2>3, CountCommitStep
  <2> QED
    BY <1>4, <2>1, <2>2, <2>3 DEF IncrementsTweets
<1>5. CASE UNCHANGED vars
  BY <1>5 DEF vars, IInv, TypeOK, RowsOnce, NeverOvercounted,
     SeenBounded, ExactUnlessRaced, SeenCurrent, MetNoted
<1> QED
  BY <1>1, <1>2, <1>3, <1>4, <1>5 DEF Next

(* The inductive invariant holds in every reachable state.                   *)
THEOREM Invariance == Spec => []IInv
  BY InitInv, StepInv, PTL DEF Spec

(* Every variable keeps its type.                                            *)
THEOREM TypeCorrect == Spec => []TypeOK
<1>1. IInv => TypeOK
  BY DEF IInv
<1> QED
  BY Invariance, <1>1, PTL

(* Lost updates only make counters too small: increment_followers and        *)
(* increment_tweets of models.py.                                            *)
THEOREM NeverTooMany == Spec => []NeverOvercounted
<1>1. IInv => NeverOvercounted
  BY DEF IInv
<1> QED
  BY Invariance, <1>1, PTL

(* Counters are exact where requests did not meet: CreateFollow,             *)
(* IncrementsTweets and refused commits.                                     *)
THEOREM Counters == Spec => []ExactUnlessRaced
<1>1. IInv => ExactUnlessRaced
  BY DEF IInv
<1> QED
  BY Invariance, <1>1, PTL

(* A row disappears only by an unfollow that read this very row: DeleteFollow*)
(* deletes by id, and ids are not given twice.                               *)
THEOREM LateUnfollowHarmless == Spec => OnlyTheRowReadIsDeleted
<1> DEFINE A == \A f \in follows \ follows' : \E q \in Slots : req[q].op = "unfollow" /\ req[q].row = f
<1>1. [Next]_vars => [A]_vars
  <2> SUFFICES ASSUME Next PROVE A
    OBVIOUS
  <2>1. ASSUME NEW u \in Users, register(u) PROVE A
    BY <2>1 DEF register
  <2>2. ASSUME NEW q \in Slots, CreateFollow(q) PROVE A
    BY <2>2 DEF CreateFollow, ReadTarget, InsertFollow, Rollback
  <2>3. ASSUME NEW q \in Slots, DeleteFollow(q) PROVE A
    BY <2>3 DEF DeleteFollow, sameRow, Rollback
  <2>4. ASSUME NEW q \in Slots, IncrementsTweets(q) PROVE A
    BY <2>4 DEF IncrementsTweets, Rollback
  <2> QED
    BY <2>1, <2>2, <2>3, <2>4 DEF Next
<1> QED
  BY <1>1, PTL DEF Spec, OnlyTheRowReadIsDeleted

----------------------------------------------------------------------------
(* The table as its requests see it.                                         *)

(* A follow is only inserted for users there are.                            *)
Known == \A q \in Slots : req[q].op = "follow" => req[q].user \in actors /\ req[q].target \in actors

LEMMA KnownStep ==
    ASSUME IInv, Known, [Next]_vars
    PROVE  Known'
<1>1. actors \subseteq actors'
  BY DEF Next, register, CreateFollow, DeleteFollow, IncrementsTweets, ReadTarget, InsertFollow,
         Rollback, vars
<1>2. ASSUME NEW p \in Slots, req'[p].op = "follow", req'[p] # req[p]
      PROVE  req'[p].user \in actors /\ req'[p].target \in actors
  <2>1. TypeOK BY DEF IInv
  <2>2. PICK q \in Slots : CreateFollow(q) \/ DeleteFollow(q) \/ IncrementsTweets(q)
    BY <1>2 DEF Next, register, vars
  <2>3. CASE \E u, v \in Users, s \in Spellings : ReadTarget(q, u, v, s)
    <3>1. PICK u \in Users, v \in Users, s \in Spellings : ReadTarget(q, u, v, s)
      BY <2>3
    <3>2. /\ req' = [req EXCEPT ![q] = [op |-> "follow", user |-> u, target |-> v,
                                         seen |-> num_followers[v]]]
          /\ u \in actors /\ v \in actors
      BY <3>1 DEF ReadTarget, Begin
    <3> QED BY <1>2, <2>1, <3>2 DEF TypeOK
  <2>4. CASE End(q)
    BY <1>2, <2>1, <2>4, EndFacts DEF IdleReq
  <2>5. CASE \E f \in follows : Begin(q, [op |-> "unfollow", row |-> f])
    BY <1>2, <2>1, <2>5, BeginFacts
  <2>6. CASE \E u \in actors : Begin(q, [op |-> "count", target |-> u, seen |-> num_tweets[u]])
    BY <1>2, <2>1, <2>6, BeginFacts
  <2> QED
    BY <2>2, <2>3, <2>4, <2>5, <2>6
    DEF CreateFollow, DeleteFollow, IncrementsTweets, InsertFollow, Rollback
<1> QED BY <1>1, <1>2 DEF Known

(* What begins or ends in a slot begins or ends for the table.               *)
LEMMA PendBegin ==
    ASSUME TypeOK, NEW q \in Slots, NEW r, Begin(q, r)
    PROVE  pend[q] = IdleReq /\ pend' = [pend EXCEPT ![q] = Begun(r)]
<1>1. req \in [Slots -> {IdleReq} \union FollowReq \union UnfollowReq \union CountReq]
  BY DEF TypeOK
<1>2. req[q] = IdleReq /\ req' = [req EXCEPT ![q] = r]
  BY DEF Begin
<1>3. Begun(IdleReq) = IdleReq
  BY DEF Begun, IdleReq
<1> QED BY <1>1, <1>2, <1>3 DEF pend

LEMMA PendEnd ==
    ASSUME TypeOK, NEW q \in Slots, End(q)
    PROVE  pend' = [pend EXCEPT ![q] = IdleReq]
<1>1. req \in [Slots -> {IdleReq} \union FollowReq \union UnfollowReq \union CountReq]
  BY DEF TypeOK
<1>2. req' = [req EXCEPT ![q] = IdleReq]
  BY DEF End
<1>3. Begun(IdleReq) = IdleReq
  BY DEF Begun, IdleReq
<1> QED BY <1>1, <1>2, <1>3 DEF pend

(* The table begins empty, and nobody is known.                              *)
LEMMA TableInit == Init => Table!Init
<1> SUFFICES ASSUME Init PROVE Table!Init
  OBVIOUS
<1>1. table = [k \in Users \X Users |-> {}]
  BY DEF Init, table
<1>2. used = {} /\ open \subseteq Users \X Users
  BY DEF Init, used, open
<1>3. pend = [q \in Slots |-> Table!Idle]
  BY DEF Init, pend, Begun, IdleReq, Table!Idle
<1> QED BY <1>1, <1>2, <1>3 DEF Table!Init

(* A row under a key, and the other way round.                               *)
LEMMA Lookup ==
    ASSUME NEW k \in Users \X Users, NEW i
    PROVE  i \in table[k] <=> \E f \in follows : f.id = i /\ Pair(f) = k
BY DEF table

(* A registration opens keys.                                                *)
LEMMA TableRegister ==
    ASSUME IInv, NEW u \in Users, register(u)
    PROVE  Table!Change
<1>1. UNCHANGED <<table, used, pend>>
  BY DEF register, table, used, pend
<1>2. open' \subseteq Users \X Users
  BY DEF IInv, TypeOK, register, open
<1> QED BY <1>1, <1>2 DEF Table!Change

(* CreateFollow reads: an insertion begins.                                  *)
LEMMA TableReadTarget ==
    ASSUME IInv, NEW q \in Slots, NEW u \in Users, NEW v \in Users, NEW s \in Spellings,
           ReadTarget(q, u, v, s)
    PROVE  Table!BeginInsert(q, <<u, v>>)
<1> DEFINE r == [op |-> "follow", user |-> u, target |-> v, seen |-> num_followers[v]]
<1>1. Begun(r) = Table!Inserting(<<u, v>>)
  BY DEF Begun, Table!Inserting
<1>2. Begin(q, r) /\ TypeOK
  BY DEF ReadTarget, IInv
<1> HIDE DEF r
<1>3. Table!Begin(q, Table!Inserting(<<u, v>>))
  BY <1>1, <1>2, PendBegin DEF Table!Begin, Table!Idle, IdleReq
<1>4. UNCHANGED <<table, used, open>> /\ <<u, v>> \in open
  BY DEF ReadTarget, table, used, open
<1> QED BY <1>3, <1>4 DEF Table!BeginInsert

(* CreateFollow commits: the insertion is carried out.                       *)
LEMMA TableInsert ==
    ASSUME IInv, Known, NEW q \in Slots, InsertFollow(q), ~Rollback(q)
    PROVE  \E k \in Users \X Users, i \in 1..MaxFollows : Table!Insert(q, k, i)
<1> DEFINE r == req[q]
           k == <<r.user, r.target>>
           new == [id |-> ids + 1, follower_id |-> r.user, following_id |-> r.target]
<1>1. /\ TypeOK /\ r.op = "follow" /\ unique_follow(r.user, r.target)
      /\ ids < MaxFollows /\ ids' = ids + 1 /\ follows' = follows \union {new}
      /\ End(q) /\ UNCHANGED actors
  BY DEF IInv, InsertFollow, freshId
<1>2. k \in Users \X Users /\ k \in open
  BY <1>1, ReqFields DEF Known, open
<1>3. ids \in Nat /\ ids + 1 \in 1..MaxFollows
  BY <1>1 DEF TypeOK
<1>4. pend[q] = Table!Inserting(k)
  BY <1>1 DEF pend, Begun, Table!Inserting
<1>5. Table!End(q)
  BY <1>1, <1>4, PendEnd DEF Table!End, Table!Idle, Table!Inserting, IdleReq
<1>6. table[k] = {}
  BY <1>1, <1>2, Lookup DEF unique_follow, Pair
<1>7. used' = used \union {ids + 1} /\ ids + 1 \notin used
  BY <1>1, <1>3 DEF used
<1>8. table' = [table EXCEPT ![k] = {ids + 1}]
  <2>1. new.id = ids + 1 /\ Pair(new) = k
    BY DEF Pair
  <2> HIDE DEF new, k, r
  <2>2. \A l \in Users \X Users : l # k =>
           {f.id : f \in {g \in follows \union {new} : Pair(g) = l}}
             = {f.id : f \in {g \in follows : Pair(g) = l}}
    BY <2>1
  <2>3. {f.id : f \in {g \in follows \union {new} : Pair(g) = k}}
          = {f.id : f \in {g \in follows : Pair(g) = k}} \union {ids + 1}
    BY <2>1
  <2> QED BY <1>1, <1>2, <1>6, <2>2, <2>3 DEF table
<1>9. UNCHANGED open
  BY <1>1 DEF open
<1> QED BY <1>2, <1>3, <1>4, <1>5, <1>6, <1>7, <1>8, <1>9 DEF Table!Insert

(* CreateFollow is refused.                                                  *)
LEMMA TableInsertRefused ==
    ASSUME IInv, NEW q \in Slots, req[q].op = "follow", Rollback(q),
           DbErrors \/ ~unique_follow(req[q].user, req[q].target)
    PROVE  \E k \in Users \X Users : Table!Refuse(q, k)
<1> DEFINE k == <<req[q].user, req[q].target>>
<1>1. TypeOK /\ End(q) /\ k \in Users \X Users
  BY ReqFields DEF IInv, Rollback
<1>2. pend[q] = Table!Inserting(k)
  BY DEF pend, Begun, Table!Inserting
<1>3. Table!End(q)
  BY <1>1, <1>2, PendEnd DEF Table!End, Table!Idle, Table!Inserting, IdleReq
<1>4. UNCHANGED <<table, used, open>>
  BY DEF Rollback, table, used, open
<1>5. DbErrors \/ table[k] # {}
  <2>1. ASSUME NEW f \in follows, f.follower_id = req[q].user, f.following_id = req[q].target
        PROVE  table[k] # {}
    BY <1>1, <2>1, Lookup DEF Pair
  <2> QED BY <2>1 DEF unique_follow
<1> QED BY <1>1, <1>2, <1>3, <1>4, <1>5 DEF Table!Refuse

(* DeleteFollow reads its row: a removal begins.                             *)
LEMMA TableReadRow ==
    ASSUME IInv, NEW q \in Slots, NEW f \in follows,
           Begin(q, [op |-> "unfollow", row |-> f]), UNCHANGED <<actors, follows, ids>>
    PROVE  \E k \in Users \X Users, i \in 1..MaxFollows : Table!BeginRemove(q, k, i)
<1>1. TypeOK /\ f.id \in 1..MaxFollows /\ Pair(f) \in Users \X Users
  BY DEF IInv, TypeOK, Follow, Pair
<1>2. Begun([op |-> "unfollow", row |-> f]) = Table!Removing(Pair(f), f.id)
  BY DEF Begun, Table!Removing
<1>3. Table!Begin(q, Table!Removing(Pair(f), f.id))
  BY <1>1, <1>2, PendBegin DEF Table!Begin, Table!Idle, IdleReq
<1>4. f.id \in table[Pair(f)]
  BY <1>1, Lookup
<1>5. UNCHANGED <<table, used, open>>
  BY DEF table, used, open
<1> QED BY <1>1, <1>3, <1>4, <1>5 DEF Table!BeginRemove

(* DeleteFollow deletes: one row is removed, or none.                        *)
LEMMA TableRemove ==
    ASSUME IInv, NEW q \in Slots, req[q].op = "unfollow", End(q),
           follows' = follows \ sameRow(req[q].row), UNCHANGED <<actors, ids>>
    PROVE  \E k \in Users \X Users, i \in 1..MaxFollows : Table!Remove(q, k, i)
<1> DEFINE row == req[q].row
<1>1. TypeOK /\ row \in Follow /\ follows \subseteq Follow
  BY ReqFields DEF IInv, TypeOK
<1>2. row.id \in 1..MaxFollows /\ Pair(row) \in Users \X Users
  BY <1>1 DEF Follow, Pair
<1>3. pend[q] = Table!Removing(Pair(row), row.id)
  BY DEF pend, Begun, Table!Removing
<1>4. Table!End(q)
  BY <1>1, <1>3, PendEnd DEF Table!End, Table!Idle, Table!Removing, IdleReq
<1>5. follows' = follows \ {row}
  BY DEF sameRow
<1>6. \A f \in follows : f.id = row.id /\ Pair(f) = Pair(row) => f = row
  BY <1>1 DEF Follow, Pair
<1> HIDE DEF row
<1>7. table' = [table EXCEPT ![Pair(row)] = @ \ {row.id}]
  <2>1. \A l \in Users \X Users : l # Pair(row) =>
           {f.id : f \in {g \in follows \ {row} : Pair(g) = l}}
             = {f.id : f \in {g \in follows : Pair(g) = l}}
    OBVIOUS
  <2>2. {f.id : f \in {g \in follows \ {row} : Pair(g) = Pair(row)}}
          = {f.id : f \in {g \in follows : Pair(g) = Pair(row)}} \ {row.id}
    BY <1>6
  <2> QED BY <1>2, <1>5, <2>1, <2>2 DEF table
<1>8. UNCHANGED <<used, open>>
  BY DEF used, open
<1> QED BY <1>2, <1>3, <1>4, <1>7, <1>8 DEF Table!Remove

(* DeleteFollow is refused.                                                  *)
LEMMA TableRemoveRefused ==
    ASSUME IInv, NEW q \in Slots, req[q].op = "unfollow", Rollback(q), DbErrors
    PROVE  \E k \in Users \X Users : Table!Refuse(q, k)
<1> DEFINE row == req[q].row
<1>1. TypeOK /\ End(q) /\ row.id \in 1..MaxFollows /\ Pair(row) \in Users \X Users
  BY ReqFields DEF IInv, Rollback, Follow, Pair
<1>2. pend[q] = Table!Removing(Pair(row), row.id)
  BY DEF pend, Begun, Table!Removing
<1>3. Table!End(q)
  BY <1>1, <1>2, PendEnd DEF Table!End, Table!Idle, Table!Removing, IdleReq
<1>4. UNCHANGED <<table, used, open>>
  BY DEF Rollback, table, used, open
<1> QED BY <1>1, <1>2, <1>3, <1>4 DEF Table!Refuse

(* IncrementsTweets is not seen by the table.                                *)
LEMMA TableCount ==
    ASSUME IInv, NEW q \in Slots, IncrementsTweets(q)
    PROVE  UNCHANGED <<table, used, open, pend>>
<1>1. UNCHANGED <<table, used, open>>
  BY DEF IncrementsTweets, Rollback, table, used, open
<1>2. TypeOK /\ \A p \in Slots : req[p].op = "count" => Begun(req[p]) = IdleReq
  BY DEF IInv, Begun
<1>3. UNCHANGED pend
  <2>1. CASE \E u \in actors : Begin(q, [op |-> "count", target |-> u, seen |-> num_tweets[u]])
    <3>1. PICK u \in actors : Begin(q, [op |-> "count", target |-> u, seen |-> num_tweets[u]])
      BY <2>1
    <3> DEFINE r == [op |-> "count", target |-> u, seen |-> num_tweets[u]]
    <3>2. Begun(r) = IdleReq
      BY DEF Begun
    <3> HIDE DEF r
    <3>3. pend[q] = IdleReq /\ pend' = [pend EXCEPT ![q] = IdleReq]
      BY <1>2, <3>1, <3>2, PendBegin DEF r
    <3> QED BY <3>3 DEF pend
  <2>2. CASE req[q].op = "count" /\ End(q)
    <3>1. pend[q] = IdleReq /\ pend' = [pend EXCEPT ![q] = IdleReq]
      BY <1>2, <2>2, PendEnd DEF pend
    <3> QED BY <3>1 DEF pend
  <2> QED BY <2>1, <2>2 DEF IncrementsTweets, Rollback
<1> QED BY <1>1, <1>3

(* Every step is a step of the table, or is not seen.                        *)
LEMMA TableStep == IInv /\ Known /\ [Next]_vars => [Table!Next]_(Table!vars)
<1> SUFFICES ASSUME IInv, Known, [Next]_vars PROVE [Table!Next]_(Table!vars)
  OBVIOUS
<1> USE DEF Table!Next
<1>1. ASSUME NEW u \in Users, register(u) PROVE Table!Next
  BY <1>1, TableRegister
<1>2. ASSUME NEW q \in Slots, CreateFollow(q) PROVE Table!Next
  <2>1. CASE \E u, v \in Users, s \in Spellings : ReadTarget(q, u, v, s)
    <3>1. PICK u \in Users, v \in Users, s \in Spellings : ReadTarget(q, u, v, s)
      BY <2>1
    <3>2. Table!BeginInsert(q, <<u, v>>) /\ <<u, v>> \in Users \X Users
      BY <3>1, TableReadTarget
    <3> QED BY <3>2
  <2>2. CASE InsertFollow(q) /\ ~Rollback(q)
    BY <2>2, TableInsert
  <2>3. CASE InsertFollow(q) /\ Rollback(q)
    <3>1. req[q].op = "follow" /\ (DbErrors \/ ~unique_follow(req[q].user, req[q].target))
      BY <2>3 DEF InsertFollow, IInv, TypeOK, Rollback, freshId
    <3> QED BY <2>3, <3>1, TableInsertRefused
  <2> QED BY <1>2, <2>1, <2>2, <2>3 DEF CreateFollow
<1>3. ASSUME NEW q \in Slots, DeleteFollow(q) PROVE Table!Next
  <2>1. ASSUME NEW f \in follows, Begin(q, [op |-> "unfollow", row |-> f]),
               UNCHANGED <<actors, follows, ids>>
        PROVE  Table!Next
    BY <2>1, TableReadRow
  <2>2. CASE /\ req[q].op = "unfollow" /\ follows' = follows \ sameRow(req[q].row)
             /\ End(q) /\ UNCHANGED <<actors, ids>>
    BY <2>2, TableRemove
  <2>3. CASE req[q].op = "unfollow" /\ DbErrors /\ Rollback(q)
    BY <2>3, TableRemoveRefused
  <2> QED BY <1>3, <2>1, <2>2, <2>3 DEF DeleteFollow
<1>4. ASSUME NEW q \in Slots, IncrementsTweets(q) PROVE UNCHANGED Table!vars
  BY <1>4, TableCount DEF Table!vars
<1>5. CASE UNCHANGED vars
  BY <1>5 DEF vars, Table!vars, table, used, open, pend
<1> QED BY <1>1, <1>2, <1>3, <1>4, <1>5 DEF Next

(* CreateFollow and DeleteFollow, whose reads and commits interleave, are    *)
(* those of a table that carries out each of them in one step: unique_follow *)
(* stands for the check that CreateFollow does not make, and deletion by id  *)
(* for the one that DeleteFollow does not.                                   *)
THEOREM FollowsAreAtomic == Spec => TableSpec
<1>1. Init => Known
  BY DEF Init, Known, IdleReq
<1>2. Spec => []Known
  BY <1>1, Invariance, KnownStep, PTL DEF Spec
<1> QED BY <1>2, Invariance, TableInit, TableStep, PTL DEF Spec, TableSpec, Table!Spec
=============================================================================
