----------------------- MODULE TweetEngagementProofs ------------------------
(* Proofs about TweetEngagement, for any number of users, tweets, requests   *)
(* and rows.  Counters are exact where requests did not meet; the inductive  *)
(* invariant says what a request knows that met no other.                    *)
EXTENDS TweetEngagement, FiniteSetTheorems, TLAPS

Working(q) == req[q].op \in {"create", "delete"}

(* Requests for the same counter at the same time have met.                  *)
MetNoted ==
    \A p, q \in Slots :
        p # q /\ Working(p) /\ Working(q) /\ Counter(req[p]) = Counter(req[q])
            => Counter(req[q]) \in raced

(* A request that met no other holds the current value of the counter; one   *)
(* that deletes holds a row that is still there.                             *)
SeenCurrent ==
    \A q \in Slots :
        /\ req[q].op = "create" /\ <<req[q].kind, req[q].tweet>> \notin raced
             => req[q].seen = num[req[q].kind][req[q].tweet]
        /\ req[q].op = "delete" /\ <<req[q].row.kind, req[q].row.tweet>> \notin raced
             => /\ req[q].row \in rows
                /\ req[q].found = "tweet" => req[q].seen = num[req[q].row.kind][req[q].row.tweet]

(* A tweet that was not found does not come back.                            *)
GoneStays ==
    \A q \in Slots : req[q].op = "delete" /\ req[q].found = "none" => req[q].row.tweet \notin tweets

(* What a request is about to delete belongs to its user.                    *)
Authorized ==
    \A q \in Slots :
        /\ req[q].op = "delete" => req[q].row.user = req[q].user
        /\ req[q].op = "drop" => owner[req[q].tweet] = req[q].user

(* A user likes (reposts) a tweet at most once.                              *)
OneRowEach ==
    \A r, s \in rows :
        r.kind = s.kind /\ r.user = s.user /\ r.tweet = s.tweet => r = s

IInv ==
    /\ TypeOK
    /\ IsFiniteSet(rows)
    /\ OneRowEach
    /\ ExactUnlessRaced
    /\ SeenCurrent
    /\ MetNoted
    /\ GoneStays
    /\ Authorized

USE EngagementAssumption DEF Kinds

----------------------------------------------------------------------------
(* Initially there are no rows and no requests.                              *)
LEMMA InitInv == Init => IInv
<1> SUFFICES ASSUME Init PROVE IInv
  OBVIOUS
<1>1. TypeOK
  BY DEF Init, TypeOK
<1>2. IsFiniteSet(rows) /\ \A k \in Kinds, t \in Tweets : RowsOf(k, t) = {}
  BY FS_EmptySet DEF Init, RowsOf
<1>3. OneRowEach /\ SeenCurrent /\ MetNoted /\ GoneStays /\ Authorized
  BY DEF Init, OneRowEach, SeenCurrent, MetNoted, GoneStays, Authorized, Working, IdleReq
<1>4. ExactUnlessRaced
  BY <1>2, FS_EmptySet DEF Init, ExactUnlessRaced
<1> QED
  BY <1>1, <1>2, <1>3, <1>4 DEF IInv

(* The state of a request is one of four records, told apart by op.          *)
LEMMA ReqFields ==
    ASSUME TypeOK, NEW q \in Slots
    PROVE  /\ req[q].op \in {"idle", "create", "delete", "drop"}
           /\ req[q].op = "create" =>
                 /\ req[q].kind \in Kinds /\ req[q].user \in Users
                 /\ req[q].tweet \in Tweets /\ req[q].seen \in Int
           /\ req[q].op = "delete" =>
                 /\ req[q] \in DeleteReq
                 /\ req[q].row \in Row /\ req[q].user \in Users /\ req[q].seen \in Int
                 /\ req[q].row.kind \in Kinds /\ req[q].row.tweet \in Tweets
                 /\ req[q].found \in {"unread", "none", "tweet"}
           /\ req[q].op = "drop" => req[q].tweet \in Tweets /\ req[q].user \in Users
BY DEF TypeOK, IdleReq, CreateReq, DeleteReq, DropReq, Row

(* Ending a request leaves the others alone.                                 *)
LEMMA EndFacts ==
    ASSUME TypeOK, NEW q \in Slots, End(q)
    PROVE  /\ req'[q] = IdleReq /\ req'[q].op = "idle"
           /\ \A p \in Slots : p # q => req'[p] = req[p]
           /\ req' \in [Slots -> {IdleReq} \union CreateReq \union DeleteReq \union DropReq]
BY DEF TypeOK, End, IdleReq

(* Beginning one does, too.                                                  *)
LEMMA BeginFacts ==
    ASSUME TypeOK, NEW q \in Slots, NEW r, Begin(q, r)
    PROVE  /\ req'[q] = r
           /\ \A p \in Slots : p # q => req'[p] = req[p]
           /\ r \in CreateReq \union DeleteReq \union DropReq =>
                 req' \in [Slots -> {IdleReq} \union CreateReq \union DeleteReq \union DropReq]
BY DEF TypeOK, Begin

(* A request that is idle or at a deletion of a tweet met nobody, and the    *)
(* others stay as they are.                                                  *)
LEMMA MetKept ==
    ASSUME IInv, NEW q \in Slots, req'[q].op \in {"idle", "drop"}, UNCHANGED raced,
           \A p \in Slots : p # q => req'[p] = req[p]
    PROVE  MetNoted'
BY DEF IInv, MetNoted, Working

(* A new request notes those that it met.                                    *)
LEMMA MetByNote ==
    ASSUME IInv, NEW q \in Slots, NEW c, Note(q, c), Counter(req'[q]) = c,
           \A p \in Slots : p # q => req'[p] = req[p]
    PROVE  MetNoted' /\ raced \subseteq raced' /\ (c \in raced' \/ \A p \in Slots \ {q} : ~WorksOn(p, c))
BY DEF IInv, MetNoted, Working, WorksOn, Note

(* The rollback of a refused commit.                                         *)
LEMMA RollbackStep ==
    ASSUME IInv, NEW q \in Slots, Rollback(q)
    PROVE  IInv'
<1>1. TypeOK /\ End(q) /\ UNCHANGED <<owner, tweets, num, rows, ids, raced>>
  BY DEF IInv, Rollback
<1>2. TypeOK' /\ MetNoted'
  BY <1>1, EndFacts, MetKept DEF IInv, TypeOK
<1>3. IsFiniteSet(rows)' /\ OneRowEach'
  BY <1>1 DEF IInv, OneRowEach
<1>4. ExactUnlessRaced'
  BY <1>1 DEF IInv, ExactUnlessRaced, RowsOf
<1>5. SeenCurrent' /\ GoneStays' /\ Authorized'
  BY <1>1, EndFacts DEF IInv, SeenCurrent, GoneStays, Authorized
<1> QED
  BY <1>2, <1>3, <1>4, <1>5 DEF IInv

(* createLike and createRepost read the tweet.                               *)
LEMMA ReadTargetStep ==
    ASSUME IInv, NEW q \in Slots, NEW k \in Kinds, NEW u \in Users, NEW t \in Tweets,
           ReadTarget(q, k, u, t)
    PROVE  IInv'
<1> DEFINE r == [op |-> "create", kind |-> k, user |-> u, tweet |-> t, seen |-> num[k][t]]
<1>1. TypeOK /\ Begin(q, r) /\ Note(q, <<k, t>>) /\ UNCHANGED <<owner, tweets, num, rows, ids>>
  BY DEF IInv, ReadTarget
<1>2. r \in CreateReq /\ r.op = "create" /\ r.kind = k /\ r.tweet = t /\ r.seen = num[k][t]
  BY <1>1 DEF TypeOK, CreateReq
<1> HIDE DEF r
<1>3. req'[q] = r /\ \A p \in Slots : p # q => req'[p] = req[p]
  BY <1>1, BeginFacts
<1>4. MetNoted' /\ raced \subseteq raced'
  BY <1>1, <1>2, <1>3, MetByNote DEF Counter
<1>5. TypeOK'
  BY <1>1, <1>2, BeginFacts DEF TypeOK, Note
<1>6. IsFiniteSet(rows)' /\ OneRowEach'
  BY <1>1 DEF IInv, OneRowEach
<1>7. ExactUnlessRaced'
  BY <1>1, <1>4 DEF IInv, ExactUnlessRaced, RowsOf
<1>8. SeenCurrent' /\ GoneStays' /\ Authorized'
  BY <1>1, <1>2, <1>3, <1>4 DEF IInv, SeenCurrent, GoneStays, Authorized
<1> QED
  BY <1>4, <1>5, <1>6, <1>7, <1>8 DEF IInv

(* The new row and the counter, in one commit.                               *)
LEMMA InsertStep ==
    ASSUME IInv, NEW q \in Slots, NEW k \in Kinds, Insert(q, k), ~Rollback(q)
    PROVE  IInv'
<1> DEFINE t == req[q].tweet
           new == [kind |-> k, id |-> ids + 1, user |-> req[q].user, tweet |-> t]
<1>1. /\ TypeOK /\ req[q].op = "create" /\ req[q].kind = k /\ t \in Tweets
      /\ req[q].user \in Users /\ req[q].seen \in Int
  BY ReqFields DEF IInv, Insert
<1>2. /\ t \in tweets /\ unique(k, req[q].user, t) /\ ids < MaxRows /\ ids' = ids + 1
      /\ rows' = rows \union {new}
      /\ num' = [num EXCEPT ![k][t] = req[q].seen + 1]
      /\ End(q)
      /\ UNCHANGED <<owner, tweets, raced>>
  BY DEF Insert, matches, increment, freshId
<1>3. /\ new \in Row /\ new.id = ids' /\ new.kind = k /\ new.user = req[q].user /\ new.tweet = t
      /\ new \notin rows
  BY <1>1, <1>2 DEF TypeOK, Row
<1> HIDE DEF new
<1>4. /\ num \in [Kinds -> [Tweets -> Int]] /\ num' \in [Kinds -> [Tweets -> Int]]
      /\ num'[k][t] = req[q].seen + 1
      /\ \A j \in Kinds, w \in Tweets : <<j, w>> # <<k, t>> => num'[j][w] = num[j][w]
  BY <1>1, <1>2 DEF TypeOK
<1>5. TypeOK'
  <2>1. ids' \in 0..MaxRows /\ rows' \subseteq Row /\ \A r \in rows' : r.id <= ids'
    BY <1>1, <1>2, <1>3 DEF TypeOK, Row
  <2> QED
    BY <1>1, <1>2, <1>4, <2>1, EndFacts DEF TypeOK
<1>6. IsFiniteSet(rows)'
  BY <1>2, FS_AddElement DEF IInv
<1>7. OneRowEach'
  BY <1>2, <1>3 DEF IInv, OneRowEach, unique, RowsOf
<1>8. \A p \in Slots : p # q => req'[p] = req[p]
  BY <1>1, <1>2, EndFacts
<1>9. req'[q].op = "idle"
  BY <1>1, <1>2, EndFacts
<1>10. ExactUnlessRaced'
  <2> SUFFICES ASSUME NEW j \in Kinds, NEW w \in tweets', <<j, w>> \notin raced'
               PROVE  num'[j][w] = Cardinality(RowsOf(j, w)')
    BY DEF ExactUnlessRaced
  <2>1. w \in Tweets /\ num[j][w] = Cardinality(RowsOf(j, w))
    BY <1>1, <1>2 DEF IInv, ExactUnlessRaced, TypeOK
  <2>2. CASE j = k /\ w = t
    <3>1. req[q].seen = num[j][w]
      BY <1>1, <1>2, <2>2 DEF IInv, SeenCurrent
    <3>2. RowsOf(j, w)' = RowsOf(j, w) \union {new} /\ new \notin RowsOf(j, w)
      BY <1>2, <1>3, <2>2 DEF RowsOf
    <3>3. IsFiniteSet(RowsOf(j, w))
      BY FS_Subset DEF IInv, RowsOf
    <3>4. Cardinality(RowsOf(j, w)') = Cardinality(RowsOf(j, w)) + 1
      BY <3>2, <3>3, FS_AddElement
    <3> QED
      BY <1>4, <2>1, <2>2, <3>1, <3>4
  <2>3. CASE ~(j = k /\ w = t)
    <3>1. RowsOf(j, w)' = RowsOf(j, w)
      BY <1>2, <1>3, <2>3 DEF RowsOf
    <3> QED
      BY <1>4, <2>1, <2>3, <3>1
  <2> QED
    BY <2>2, <2>3
<1>11. SeenCurrent'
  <2> SUFFICES ASSUME NEW p \in Slots, p # q
               PROVE  /\ req[p].op = "create" /\ <<req[p].kind, req[p].tweet>> \notin raced
                            => req[p].seen = num'[req[p].kind][req[p].tweet]
                      /\ req[p].op = "delete" /\ <<req[p].row.kind, req[p].row.tweet>> \notin raced
                            => /\ req[p].row \in rows'
                               /\ req[p].found = "tweet" =>
                                     req[p].seen = num'[req[p].row.kind][req[p].row.tweet]
    BY <1>2, <1>8, <1>9 DEF SeenCurrent
  <2>1. Working(p) /\ Counter(req[p]) \notin raced => Counter(req[p]) # <<k, t>>
    BY <1>1 DEF IInv, MetNoted, Working, Counter
  <2>2. ASSUME req[p].op = "create", <<req[p].kind, req[p].tweet>> \notin raced
        PROVE  req[p].seen = num'[req[p].kind][req[p].tweet]
    <3>1. <<req[p].kind, req[p].tweet>> # <<k, t>>
      BY <2>1, <2>2 DEF Working, Counter
    <3> QED
      BY <1>1, <1>4, <2>2, <3>1, ReqFields DEF IInv, SeenCurrent
  <2>3. ASSUME req[p].op = "delete", <<req[p].row.kind, req[p].row.tweet>> \notin raced
        PROVE  /\ req[p].row \in rows'
               /\ req[p].found = "tweet" => req[p].seen = num'[req[p].row.kind][req[p].row.tweet]
    <3>1. <<req[p].row.kind, req[p].row.tweet>> # <<k, t>>
      BY <2>1, <2>3 DEF Working, Counter
    <3>2. /\ req[p].row \in rows
          /\ req[p].found = "tweet" => req[p].seen = num[req[p].row.kind][req[p].row.tweet]
      BY <2>3 DEF IInv, SeenCurrent
    <3>3. req[p].row.kind \in Kinds /\ req[p].row.tweet \in Tweets
      BY <1>1, <2>3, ReqFields
    <3> QED
      BY <1>2, <1>4, <3>1, <3>2, <3>3
  <2> QED
    BY <2>2, <2>3
<1>12. MetNoted'
  BY <1>2, <1>8, <1>9, MetKept
<1>13. GoneStays' /\ Authorized'
  BY <1>2, <1>8, <1>9 DEF IInv, GoneStays, Authorized
<1> QED
  BY <1>5, <1>6, <1>7, <1>10, <1>11, <1>12, <1>13 DEF IInv

----------------------------------------------------------------------------
(* deleteLike and deleteRepost read their row.                               *)
LEMMA ReadRowStep ==
    ASSUME IInv, NEW q \in Slots, NEW k \in Kinds, NEW u \in Users, NEW d \in rows,
           ReadRow(q, k, u, d)
    PROVE  IInv'
<1> DEFINE r == [op |-> "delete", row |-> d, user |-> u, found |-> "unread", seen |-> 0]
<1>1. /\ TypeOK /\ Begin(q, r) /\ d.kind = k /\ d.user = u /\ Note(q, <<k, d.tweet>>)
      /\ UNCHANGED <<owner, tweets, num, rows, ids>>
  BY DEF IInv, ReadRow, mayDelete
<1>2. /\ r \in DeleteReq /\ r.op = "delete" /\ r.row = d /\ r.user = u /\ r.found = "unread"
      /\ d \in Row /\ d.tweet \in Tweets
  BY <1>1 DEF TypeOK, DeleteReq, Row
<1> HIDE DEF r
<1>3. req'[q] = r /\ \A p \in Slots : p # q => req'[p] = req[p]
  BY <1>1, BeginFacts
<1>4. MetNoted' /\ raced \subseteq raced'
  BY <1>1, <1>2, <1>3, MetByNote DEF Counter
<1>5. TypeOK'
  BY <1>1, <1>2, BeginFacts DEF TypeOK, Note
<1>6. IsFiniteSet(rows)' /\ OneRowEach'
  BY <1>1 DEF IInv, OneRowEach
<1>7. ExactUnlessRaced'
  BY <1>1, <1>4 DEF IInv, ExactUnlessRaced, RowsOf
<1>8. SeenCurrent' /\ GoneStays' /\ Authorized'
  BY <1>1, <1>2, <1>3, <1>4 DEF IInv, SeenCurrent, GoneStays, Authorized
<1> QED
  BY <1>4, <1>5, <1>6, <1>7, <1>8 DEF IInv

(* They read its tweet, or find none.                                        *)
LEMMA ReadItsTweetStep ==
    ASSUME IInv, NEW q \in Slots, NEW k \in Kinds, ReadItsTweet(q, k)
    PROVE  IInv'
<1> DEFINE d == req[q].row
<1>1. /\ TypeOK /\ req[q].op = "delete" /\ d.kind = k /\ d \in Row /\ d.tweet \in Tweets
      /\ req[q] \in DeleteReq
      /\ UNCHANGED <<owner, tweets, num, rows, ids, raced>>
  BY ReqFields DEF IInv, ReadItsTweet
<1>2. /\ req'[q] \in DeleteReq /\ req'[q].op = "delete"
      /\ req'[q].row = d /\ req'[q].user = req[q].user
      /\ req'[q].found = "tweet" => req'[q].seen = num[k][d.tweet]
      /\ req'[q].found = "none" => d.tweet \notin tweets
      /\ \A p \in Slots : p # q => req'[p] = req[p]
      /\ req' \in [Slots -> {IdleReq} \union CreateReq \union DeleteReq \union DropReq]
  <2>1. num[k][d.tweet] \in Int
    BY <1>1 DEF TypeOK
  <2>2. CASE d.tweet \in tweets
    <3>1. req' = [req EXCEPT ![q].found = "tweet", ![q].seen = num[k][d.tweet]]
      BY <2>2 DEF ReadItsTweet
    <3> QED
      BY <1>1, <2>1, <3>1 DEF TypeOK, DeleteReq
  <2>3. CASE d.tweet \notin tweets
    <3>1. req' = [req EXCEPT ![q].found = "none"]
      BY <2>3 DEF ReadItsTweet
    <3> QED
      BY <1>1, <2>3, <3>1 DEF TypeOK, DeleteReq
  <2> QED
    BY <2>2, <2>3
<1>3. TypeOK'
  BY <1>1, <1>2 DEF TypeOK
<1>4. IsFiniteSet(rows)' /\ OneRowEach'
  BY <1>1 DEF IInv, OneRowEach
<1>5. ExactUnlessRaced'
  BY <1>1 DEF IInv, ExactUnlessRaced, RowsOf
<1>6. SeenCurrent'
  BY <1>1, <1>2 DEF IInv, SeenCurrent
<1>7. GoneStays' /\ Authorized'
  BY <1>1, <1>2 DEF IInv, GoneStays, Authorized
<1>8. MetNoted'
  <2>1. /\ Counter(req'[q]) = Counter(req[q])
        /\ \A p \in Slots : Working(p)' => Working(p) /\ Counter(req'[p]) = Counter(req[p])
    BY <1>1, <1>2 DEF Working, Counter
  <2> QED
    BY <1>1, <2>1 DEF IInv, MetNoted
<1> QED
  BY <1>3, <1>4, <1>5, <1>6, <1>7, <1>8 DEF IInv

(* They delete the row and, for a tweet they found, write the counter.       *)
LEMMA RemoveStep ==
    ASSUME IInv, NEW q \in Slots, NEW k \in Kinds, Remove(q, k), ~Rollback(q)
    PROVE  IInv'
<1> DEFINE d == req[q].row
           t == req[q].row.tweet
<1>1. /\ TypeOK /\ req[q].op = "delete" /\ d.kind = k /\ d \in Row /\ t \in Tweets
      /\ req[q].found \in {"none", "tweet"} /\ req[q].seen \in Int
  BY ReqFields DEF IInv, Remove
<1>2. /\ rows' = rows \ {d} /\ End(q) /\ UNCHANGED <<owner, tweets, ids, raced>>
      /\ req[q].found = "none" => UNCHANGED num
      /\ req[q].found = "tweet" => num' = [num EXCEPT ![k][t] = req[q].seen - 1]
  BY DEF Remove, decrement
<1>3. /\ num \in [Kinds -> [Tweets -> Int]] /\ num' \in [Kinds -> [Tweets -> Int]]
      /\ req[q].found = "tweet" => num'[k][t] = req[q].seen - 1
      /\ \A j \in Kinds, w \in Tweets : <<j, w>> # <<k, t>> => num'[j][w] = num[j][w]
  BY <1>1, <1>2 DEF TypeOK
<1>4. TypeOK'
  BY <1>1, <1>2, <1>3, EndFacts DEF TypeOK
<1>5. IsFiniteSet(rows)' /\ OneRowEach'
  BY <1>2, FS_RemoveElement DEF IInv, OneRowEach
<1>6. req'[q].op = "idle" /\ \A p \in Slots : p # q => req'[p] = req[p]
  BY <1>1, <1>2, EndFacts
<1>7. ExactUnlessRaced'
  <2> SUFFICES ASSUME NEW j \in Kinds, NEW w \in tweets', <<j, w>> \notin raced'
               PROVE  num'[j][w] = Cardinality(RowsOf(j, w)')
    BY DEF ExactUnlessRaced
  <2>1. w \in Tweets /\ num[j][w] = Cardinality(RowsOf(j, w))
    BY <1>1, <1>2 DEF IInv, ExactUnlessRaced, TypeOK
  <2>2. CASE j = k /\ w = t
    <3>1. req[q].found = "tweet"
      BY <1>1, <1>2, <2>2 DEF IInv, GoneStays
    <3>2. d \in rows /\ req[q].seen = num[j][w]
      BY <1>1, <1>2, <2>2, <3>1 DEF IInv, SeenCurrent
    <3>3. RowsOf(j, w)' = RowsOf(j, w) \ {d} /\ d \in RowsOf(j, w)
      BY <1>1, <1>2, <2>2, <3>2 DEF RowsOf
    <3>4. IsFiniteSet(RowsOf(j, w))
      BY FS_Subset DEF IInv, RowsOf
    <3>5. Cardinality(RowsOf(j, w) \ {d}) = Cardinality(RowsOf(j, w)) - 1
      BY <3>3, <3>4, FS_RemoveElement
    <3> QED
      BY <1>3, <2>1, <2>2, <3>1, <3>2, <3>3, <3>5
  <2>3. CASE ~(j = k /\ w = t)
    <3>1. RowsOf(j, w)' = RowsOf(j, w)
      BY <1>1, <1>2, <2>3 DEF RowsOf
    <3> QED
      BY <1>3, <2>1, <2>3, <3>1
  <2> QED
    BY <2>2, <2>3
<1>8. SeenCurrent'
  <2> SUFFICES ASSUME NEW p \in Slots, p # q
               PROVE  /\ req[p].op = "create" /\ <<req[p].kind, req[p].tweet>> \notin raced
                            => req[p].seen = num'[req[p].kind][req[p].tweet]
                      /\ req[p].op = "delete" /\ <<req[p].row.kind, req[p].row.tweet>> \notin raced
                            => /\ req[p].row \in rows'
                               /\ req[p].found = "tweet" =>
                                     req[p].seen = num'[req[p].row.kind][req[p].row.tweet]
    BY <1>2, <1>6 DEF SeenCurrent
  <2>1. Working(p) /\ Counter(req[p]) \notin raced => Counter(req[p]) # <<k, t>>
    BY <1>1 DEF IInv, MetNoted, Working, Counter
  <2>2. ASSUME req[p].op = "create", <<req[p].kind, req[p].tweet>> \notin raced
        PROVE  req[p].seen = num'[req[p].kind][req[p].tweet]
    <3>1. <<req[p].kind, req[p].tweet>> # <<k, t>>
      BY <2>1, <2>2 DEF Working, Counter
    <3> QED
      BY <1>1, <1>3, <2>2, <3>1, ReqFields DEF IInv, SeenCurrent
  <2>3. ASSUME req[p].op = "delete", <<req[p].row.kind, req[p].row.tweet>> \notin raced
        PROVE  /\ req[p].row \in rows'
               /\ req[p].found = "tweet" => req[p].seen = num'[req[p].row.kind][req[p].row.tweet]
    <3>1. <<req[p].row.kind, req[p].row.tweet>> # <<k, t>>
      BY <2>1, <2>3 DEF Working, Counter
    <3>2. /\ req[p].row \in rows
          /\ req[p].found = "tweet" => req[p].seen = num[req[p].row.kind][req[p].row.tweet]
      BY <2>3 DEF IInv, SeenCurrent
    <3>3. req[p].row.kind \in Kinds /\ req[p].row.tweet \in Tweets
      BY <1>1, <2>3, ReqFields
    <3>4. req[p].row # d
      BY <1>1, <3>1
    <3> QED
      BY <1>2, <1>3, <3>1, <3>2, <3>3, <3>4
  <2> QED
    BY <2>2, <2>3
<1>9. MetNoted'
  BY <1>2, <1>6, MetKept
<1>10. GoneStays' /\ Authorized'
  BY <1>2, <1>6 DEF IInv, GoneStays, Authorized
<1> QED
  BY <1>4, <1>5, <1>7, <1>8, <1>9, <1>10 DEF IInv

----------------------------------------------------------------------------
(* deleteTweet reads its tweet.                                              *)
LEMMA ReadOwnStep ==
    ASSUME IInv, NEW q \in Slots, NEW u \in Users, NEW t \in Tweets, ReadOwn(q, u, t)
    PROVE  IInv'
<1> DEFINE r == [op |-> "drop", tweet |-> t, user |-> u]
<1>1. TypeOK /\ Begin(q, r) /\ owner[t] = u /\ UNCHANGED <<owner, tweets, num, rows, ids, raced>>
  BY DEF IInv, ReadOwn, isOwner
<1>2. r \in DropReq /\ r.op = "drop" /\ r.tweet = t /\ r.user = u
  BY DEF DropReq
<1> HIDE DEF r
<1>3. req'[q] = r /\ \A p \in Slots : p # q => req'[p] = req[p]
  BY <1>1, BeginFacts
<1>4. TypeOK'
  BY <1>1, <1>2, BeginFacts DEF TypeOK
<1>5. IsFiniteSet(rows)' /\ OneRowEach'
  BY <1>1 DEF IInv, OneRowEach
<1>6. ExactUnlessRaced'
  BY <1>1 DEF IInv, ExactUnlessRaced, RowsOf
<1>7. MetNoted'
  BY <1>1, <1>2, <1>3, MetKept
<1>8. SeenCurrent' /\ GoneStays' /\ Authorized'
  BY <1>1, <1>2, <1>3 DEF IInv, SeenCurrent, GoneStays, Authorized
<1> QED
  BY <1>4, <1>5, <1>6, <1>7, <1>8 DEF IInv

(* deleteTweet deletes it; the rows stay.                                    *)
LEMMA DropStep ==
    ASSUME IInv, NEW q \in Slots, Drop(q), ~Rollback(q)
    PROVE  IInv'
<1>1. /\ TypeOK /\ tweets' \subseteq tweets /\ End(q)
      /\ UNCHANGED <<owner, num, rows, ids, raced>>
  BY DEF IInv, Drop
<1>2. req'[q].op = "idle" /\ \A p \in Slots : p # q => req'[p] = req[p]
  BY <1>1, EndFacts
<1>3. TypeOK'
  BY <1>1, EndFacts DEF TypeOK
<1>4. IsFiniteSet(rows)' /\ OneRowEach'
  BY <1>1 DEF IInv, OneRowEach
<1>5. ExactUnlessRaced'
  BY <1>1 DEF IInv, ExactUnlessRaced, RowsOf
<1>6. MetNoted'
  BY <1>1, <1>2, MetKept
<1>7. SeenCurrent' /\ GoneStays' /\ Authorized'
  BY <1>1, <1>2 DEF IInv, SeenCurrent, GoneStays, Authorized
<1> QED
  BY <1>3, <1>4, <1>5, <1>6, <1>7 DEF IInv

----------------------------------------------------------------------------
(* Every step keeps the inductive invariant.                                 *)
LEMMA StepInv == IInv /\ [Next]_vars => IInv'
<1> SUFFICES ASSUME IInv, [Next]_vars PROVE IInv'
  OBVIOUS
<1>1. ASSUME NEW q \in Slots, createLike(q) PROVE IInv'
  BY <1>1, ReadTargetStep, InsertStep, RollbackStep DEF createLike
<1>2. ASSUME NEW q \in Slots, createRepost(q) PROVE IInv'
  BY <1>2, ReadTargetStep, InsertStep, RollbackStep DEF createRepost
<1>3. ASSUME NEW q \in Slots, deleteLike(q) PROVE IInv'
  BY <1>3, ReadRowStep, ReadItsTweetStep, RemoveStep, RollbackStep DEF deleteLike
<1>4. ASSUME NEW q \in Slots, deleteRepost(q) PROVE IInv'
  BY <1>4, ReadRowStep, ReadItsTweetStep, RemoveStep, RollbackStep DEF deleteRepost
<1>5. ASSUME NEW q \in Slots, deleteTweet(q) PROVE IInv'
  BY <1>5, ReadOwnStep, DropStep, RollbackStep DEF deleteTweet
<1>6. CASE UNCHANGED vars
  BY <1>6 DEF vars, IInv, TypeOK, OneRowEach, ExactUnlessRaced, RowsOf, SeenCurrent, MetNoted,
     Working, Counter, GoneStays, Authorized
<1> QED
  BY <1>1, <1>2, <1>3, <1>4, <1>5, <1>6 DEF Next

(* The inductive invariant holds in every reachable state.                   *)
THEOREM Invariance == Spec => []IInv
  BY InitInv, StepInv, PTL DEF Spec

(* Every variable keeps its type.                                            *)
THEOREM TypeCorrect == Spec => []TypeOK
<1>1. IInv => TypeOK
  BY DEF IInv
<1> QED
  BY Invariance, <1>1, PTL

(* A user likes (reposts) a tweet at most once: unique_like of models.py     *)
(* against requests that both read before either inserts.                    *)
THEOREM OneLikeEach == Spec => []OnePerUser
<1>1. IInv => OnePerUser
  BY DEF IInv, OneRowEach, OnePerUser, getLikes, getReposts
<1> QED
  BY Invariance, <1>1, PTL

(* num_likes and num_reposts of a tweet are the numbers of its rows as long  *)
(* as no two requests for the counter met, refused ones included.            *)
THEOREM Counters == Spec => []ExactUnlessRaced
<1>1. IInv => ExactUnlessRaced
  BY DEF IInv
<1> QED
  BY Invariance, <1>1, PTL

(* What was read before the tweet went does no harm: an UPDATE that matches  *)
(* no row is an error of SQLAlchemy, which rolls the new like back.          *)
THEOREM GoneTweets == Spec => GoneTweetsUntouched
<1> DEFINE A == \A t \in Tweets \ tweets :
                  /\ t \notin tweets'
                  /\ \A k \in Kinds : num'[k][t] = num[k][t]
                  /\ \A r \in rows' \ rows : r.tweet # t
<1>1. IInv /\ [Next]_vars => [A]_vars
  <2> SUFFICES ASSUME IInv, Next, NEW t \in Tweets \ tweets
               PROVE  /\ t \notin tweets'
                      /\ \A k \in Kinds : num'[k][t] = num[k][t]
                      /\ \A r \in rows' \ rows : r.tweet # t
    OBVIOUS
  <2>1. ASSUME NEW q \in Slots, NEW k \in Kinds, Insert(q, k), ~Rollback(q)
        PROVE  /\ UNCHANGED tweets
               /\ \A j \in Kinds : num'[j][t] = num[j][t]
               /\ \A r \in rows' \ rows : r.tweet # t
    <3>1. /\ req[q].tweet \in tweets /\ UNCHANGED tweets
          /\ rows' = rows \union {[kind |-> k, id |-> ids + 1, user |-> req[q].user, tweet |-> req[q].tweet]}
          /\ num' = [num EXCEPT ![k][req[q].tweet] = increment(req[q].seen)]
      BY <2>1 DEF Insert, matches
    <3> QED
      BY <3>1 DEF IInv, TypeOK
  <2>2. ASSUME NEW q \in Slots, NEW k \in Kinds, Remove(q, k), ~Rollback(q)
        PROVE  /\ UNCHANGED tweets /\ rows' \subseteq rows
               /\ \A j \in Kinds : num'[j][t] = num[j][t]
    <3>1. /\ UNCHANGED tweets /\ rows' \subseteq rows
          /\ \/ UNCHANGED num
             \/ /\ req[q].row.tweet \in tweets
                /\ num' = [num EXCEPT ![k][req[q].row.tweet] = decrement(req[q].seen)]
      BY <2>2 DEF Remove, matches
    <3> QED
      BY <3>1 DEF IInv, TypeOK
  <2>3. ASSUME NEW q \in Slots, createLike(q) \/ createRepost(q)
        PROVE  /\ UNCHANGED tweets
               /\ \A k \in Kinds : num'[k][t] = num[k][t]
               /\ \A r \in rows' \ rows : r.tweet # t
    BY <2>1, <2>3 DEF createLike, createRepost, ReadTarget, Rollback
  <2>4. ASSUME NEW q \in Slots, deleteLike(q) \/ deleteRepost(q)
        PROVE  /\ UNCHANGED tweets /\ rows' \subseteq rows
               /\ \A k \in Kinds : num'[k][t] = num[k][t]
    BY <2>2, <2>4 DEF deleteLike, deleteRepost, ReadRow, ReadItsTweet, Rollback
  <2>5. ASSUME NEW q \in Slots, deleteTweet(q)
        PROVE  tweets' \subseteq tweets /\ UNCHANGED <<num, rows>>
    BY <2>5 DEF deleteTweet, ReadOwn, Drop, Rollback
  <2> QED
    BY <2>3, <2>4, <2>5 DEF Next
<1> QED
  BY Invariance, <1>1, PTL DEF Spec, GoneTweetsUntouched

(* Whoever deletes a like, a repost or a tweet owns it, though the check is  *)
(* made when the row is read, not when it is deleted.                        *)
THEOREM Ownership == Spec => OnlyOwnersDelete
<1> DEFINE A == /\ \A r \in rows \ rows' :
                     \E q \in Slots : req[q].op = "delete" /\ req[q].row = r /\ req[q].user = r.user
                /\ \A u \in Users : \A t \in getTweets(u) \ getTweets(u)' :
                     \E q \in Slots : req[q].op = "drop" /\ req[q].tweet = t /\ req[q].user = u
<1>1. IInv /\ [Next]_vars => [A]_vars
  <2> SUFFICES ASSUME IInv, Next PROVE A
    OBVIOUS
  <2>1. ASSUME NEW q \in Slots, createLike(q) \/ createRepost(q)
        PROVE  rows \subseteq rows' /\ UNCHANGED tweets
    BY <2>1 DEF createLike, createRepost, ReadTarget, Insert, Rollback
  <2>2. ASSUME NEW q \in Slots, NEW k \in Kinds, Remove(q, k)
        PROVE  UNCHANGED tweets /\ req[q].op = "delete" /\ rows \ rows' \subseteq {req[q].row}
    BY <2>2 DEF Remove, Rollback
  <2>3. ASSUME NEW q \in Slots, deleteLike(q) \/ deleteRepost(q)
        PROVE  UNCHANGED tweets /\ \A r \in rows \ rows' : req[q].op = "delete" /\ req[q].row = r
    BY <2>2, <2>3 DEF deleteLike, deleteRepost, ReadRow, ReadItsTweet
  <2>4. ASSUME NEW q \in Slots, deleteTweet(q)
        PROVE  /\ UNCHANGED rows
               /\ \A t \in tweets \ tweets' : req[q].op = "drop" /\ req[q].tweet = t
    BY <2>4 DEF deleteTweet, ReadOwn, Drop, Rollback
  <2>5. Authorized
    BY DEF IInv
  <2>6. UNCHANGED owner
    BY DEF Next, createLike, createRepost, deleteLike, deleteRepost, deleteTweet, ReadTarget,
           Insert, ReadRow, ReadItsTweet, Remove, ReadOwn, Drop, Rollback
  <2>7. \A r \in rows \ rows' :
           \E q \in Slots : req[q].op = "delete" /\ req[q].row = r /\ req[q].user = r.user
    BY <2>1, <2>3, <2>4, <2>5 DEF Next, Authorized
  <2>8. \A t \in tweets \ tweets' :
           \E q \in Slots : req[q].op = "drop" /\ req[q].tweet = t /\ req[q].user = owner[t]
    BY <2>1, <2>3, <2>4, <2>5 DEF Next, Authorized
  <2>9. ASSUME NEW u \in Users, NEW t \in getTweets(u) \ getTweets(u)'
        PROVE  \E q \in Slots : req[q].op = "drop" /\ req[q].tweet = t /\ req[q].user = u
    <3>1. t \in tweets \ tweets' /\ owner[t] = u
      BY <2>6 DEF getTweets
    <3> QED
      BY <2>8, <3>1
  <2> QED
    BY <2>7, <2>9
<1> QED
  BY Invariance, <1>1, PTL DEF Spec, OnlyOwnersDelete

----------------------------------------------------------------------------
(* The tables as their requests see them.                                    *)

(* What begins in a slot begins for the table.                               *)
LEMMA PendBegin ==
    ASSUME TypeOK, NEW q \in Slots, NEW r, Begin(q, r)
    PROVE  pend[q] = IdleReq /\ pend' = [pend EXCEPT ![q] = Begun(r)]
<1>1. req \in [Slots -> {IdleReq} \union CreateReq \union DeleteReq \union DropReq]
  BY DEF TypeOK
<1>2. req[q] = IdleReq /\ req' = [req EXCEPT ![q] = r]
  BY DEF Begin
<1>3. Begun(IdleReq) = IdleReq
  BY DEF Begun, IdleReq
<1> QED BY <1>1, <1>2, <1>3 DEF pend

(* What ends in a slot ends for the table.                                   *)
LEMMA PendEnd ==
    ASSUME TypeOK, NEW q \in Slots, End(q)
    PROVE  pend' = [pend EXCEPT ![q] = IdleReq]
<1>1. req \in [Slots -> {IdleReq} \union CreateReq \union DeleteReq \union DropReq]
  BY DEF TypeOK
<1>2. req' = [req EXCEPT ![q] = IdleReq]
  BY DEF End
<1>3. Begun(IdleReq) = IdleReq
  BY DEF Begun, IdleReq
<1> QED BY <1>1, <1>2, <1>3 DEF pend

(* The tables begin empty, and there are all tweets.                         *)
LEMMA TableInit == Init => Table!Init
<1> SUFFICES ASSUME Init PROVE Table!Init
  OBVIOUS
<1>1. table = [k \in Keys |-> {}]
  BY DEF Init, table
<1>2. used = {} /\ open \subseteq Keys
  BY DEF Init, used, open, Keys
<1>3. pend = [q \in Slots |-> Table!Idle]
  BY DEF Init, pend, Begun, IdleReq, Table!Idle
<1> QED BY <1>1, <1>2, <1>3 DEF Table!Init

(* A row under a key, and the other way round.                               *)
LEMMA Lookup ==
    ASSUME NEW k \in Keys, NEW i
    PROVE  i \in table[k] <=> \E r \in rows : r.id = i /\ Key(r) = k
BY DEF table

(* createLike and createRepost read: an insertion begins.                    *)
LEMMA TableReadTarget ==
    ASSUME IInv, NEW q \in Slots, NEW k \in Kinds, NEW u \in Users, NEW t \in Tweets,
           ReadTarget(q, k, u, t)
    PROVE  \E key \in Keys : Table!BeginInsert(q, key)
<1> DEFINE r == [op |-> "create", kind |-> k, user |-> u, tweet |-> t, seen |-> num[k][t]]
           key == <<k, u, t>>
<1>1. Begun(r) = Table!Inserting(key)
  BY DEF Begun, Key, Table!Inserting
<1>2. Begin(q, r) /\ TypeOK
  BY DEF ReadTarget, IInv
<1>3. UNCHANGED <<table, used, open>> /\ key \in open /\ key \in Keys
  BY DEF ReadTarget, table, used, open, Keys
<1> HIDE DEF r, key
<1>4. Table!Begin(q, Table!Inserting(key))
  BY <1>1, <1>2, PendBegin DEF Table!Begin, Table!Idle, IdleReq
<1> QED BY <1>3, <1>4 DEF Table!BeginInsert

(* They commit: the insertion is carried out.                                *)
LEMMA TableInsert ==
    ASSUME IInv, NEW q \in Slots, NEW k \in Kinds, Insert(q, k), ~Rollback(q)
    PROVE  \E key \in Keys, i \in 1..MaxRows : Table!Insert(q, key, i)
<1> DEFINE r == req[q]
           key == Key(r)
           new == [kind |-> k, id |-> ids + 1, user |-> r.user, tweet |-> r.tweet]
<1>1. /\ TypeOK /\ r.op = "create" /\ r.kind = k
      /\ r.tweet \in tweets /\ unique(k, r.user, r.tweet)
      /\ ids < MaxRows /\ ids' = ids + 1 /\ rows' = rows \union {new}
      /\ End(q) /\ UNCHANGED tweets
  BY DEF IInv, Insert, matches, freshId
<1>2. key \in Keys /\ key \in open
  BY <1>1, ReqFields DEF Keys, Key, open
<1>3. ids \in Nat /\ ids + 1 \in 1..MaxRows
  BY <1>1 DEF TypeOK
<1>4. pend[q] = Table!Inserting(key)
  BY <1>1 DEF pend, Begun, Table!Inserting
<1>5. Table!End(q)
  BY <1>1, <1>4, PendEnd DEF Table!End, Table!Idle, Table!Inserting, IdleReq
<1>6. table[key] = {}
  <2>1. \A s \in rows : Key(s) # key
    BY <1>1 DEF unique, RowsOf, Key
  <2> HIDE DEF key
  <2> QED BY <1>2, <2>1, Lookup
<1>7. used' = used \union {ids + 1} /\ ids + 1 \notin used
  BY <1>1, <1>3 DEF used
<1>8. table' = [table EXCEPT ![key] = {ids + 1}]
  <2>1. new.id = ids + 1 /\ Key(new) = key
    BY <1>1 DEF Key
  <2> HIDE DEF new, key, r
  <2>2. \A l \in Keys : l # key =>
           {s.id : s \in {x \in rows \union {new} : Key(x) = l}}
             = {s.id : s \in {x \in rows : Key(x) = l}}
    BY <2>1
  <2>3. {s.id : s \in {x \in rows \union {new} : Key(x) = key}}
          = {s.id : s \in {x \in rows : Key(x) = key}} \union {ids + 1}
    BY <2>1
  <2> QED BY <1>1, <1>2, <1>6, <2>2, <2>3 DEF table
<1>9. UNCHANGED open
  BY <1>1 DEF open
<1> QED BY <1>2, <1>3, <1>4, <1>5, <1>6, <1>7, <1>8, <1>9 DEF Table!Insert

(* They are refused.                                                         *)
LEMMA TableInsertRefused ==
    ASSUME IInv, NEW q \in Slots, NEW k \in Kinds, req[q].op = "create", req[q].kind = k,
           Rollback(q),
           DbErrors \/ ~matches(req[q].tweet) \/ ~unique(k, req[q].user, req[q].tweet)
    PROVE  \E key \in Keys : Table!Refuse(q, key)
<1> DEFINE key == Key(req[q])
<1>1. TypeOK /\ End(q) /\ key \in Keys
  BY ReqFields DEF IInv, Rollback, Key, Keys
<1>2. pend[q] = Table!Inserting(key)
  BY DEF pend, Begun, Table!Inserting
<1>3. Table!End(q)
  BY <1>1, <1>2, PendEnd DEF Table!End, Table!Idle, Table!Inserting, IdleReq
<1>4. UNCHANGED <<table, used, open>>
  BY DEF Rollback, table, used, open
<1>5. DbErrors \/ key \notin open \/ table[key] # {}
  <2>1. CASE ~matches(req[q].tweet)
    BY <2>1 DEF matches, Key, open
  <2>2. CASE ~unique(k, req[q].user, req[q].tweet)
    <3>1. PICK s \in rows : s.kind = k /\ s.tweet = req[q].tweet /\ s.user = req[q].user
      BY <2>2 DEF unique, RowsOf
    <3>2. Key(s) = key
      BY <3>1 DEF Key
    <3> QED BY <1>1, <3>1, <3>2, Lookup
  <2> QED BY <2>1, <2>2
<1> QED BY <1>1, <1>2, <1>3, <1>4, <1>5 DEF Table!Refuse

(* deleteLike and deleteRepost read their row: a removal begins.             *)
LEMMA TableReadRow ==
    ASSUME IInv, NEW q \in Slots, NEW k \in Kinds, NEW u \in Users, NEW r \in rows,
           ReadRow(q, k, u, r)
    PROVE  \E key \in Keys, i \in 1..MaxRows : Table!BeginRemove(q, key, i)
<1> DEFINE d == [op |-> "delete", row |-> r, user |-> u, found |-> "unread", seen |-> 0]
<1>1. TypeOK /\ r.id \in 1..MaxRows /\ Key(r) \in Keys
  BY DEF IInv, TypeOK, Row, Key, Keys
<1>2. Begun(d) = Table!Removing(Key(r), r.id)
  BY DEF Begun, Table!Removing
<1>3. Begin(q, d) /\ UNCHANGED <<table, used, open>>
  BY DEF ReadRow, table, used, open
<1> HIDE DEF d
<1>4. Table!Begin(q, Table!Removing(Key(r), r.id))
  BY <1>1, <1>2, <1>3, PendBegin DEF Table!Begin, Table!Idle, IdleReq
<1>5. r.id \in table[Key(r)]
  BY <1>1, Lookup
<1> QED BY <1>1, <1>3, <1>4, <1>5 DEF Table!BeginRemove

(* The tweet of the row is read, which the table does not see.               *)
LEMMA TableReadItsTweet ==
    ASSUME IInv, NEW q \in Slots, NEW k \in Kinds, ReadItsTweet(q, k)
    PROVE  UNCHANGED <<table, used, open, pend>>
<1>1. UNCHANGED <<table, used, open>>
  BY DEF ReadItsTweet, table, used, open
<1>2. TypeOK /\ req[q].op = "delete" /\ req[q] \in DeleteReq
  BY ReqFields DEF IInv, ReadItsTweet
<1>3. PICK d : req' = [req EXCEPT ![q] = d] /\ d.op = "delete" /\ d.row = req[q].row
  <2>1. CASE req' = [req EXCEPT ![q].found = "none"]
    <3> DEFINE d == [req[q] EXCEPT !.found = "none"]
    <3>1. d.op = "delete" /\ d.row = req[q].row
      BY <1>2 DEF DeleteReq
    <3>2. req' = [req EXCEPT ![q] = d]
      BY <2>1
    <3> QED BY <3>1, <3>2
  <2>2. CASE req' = [req EXCEPT ![q].found = "tweet",
                                ![q].seen = num[k][req[q].row.tweet]]
    <3> DEFINE d == [req[q] EXCEPT !.found = "tweet", !.seen = num[k][req[q].row.tweet]]
    <3>1. d.op = "delete" /\ d.row = req[q].row
      BY <1>2 DEF DeleteReq
    <3>2. req' = [req EXCEPT ![q] = d]
      BY <1>2, <2>2 DEF TypeOK
    <3> QED BY <3>1, <3>2
  <2> QED BY <2>1, <2>2 DEF ReadItsTweet
<1>4. Begun(d) = Begun(req[q])
  BY <1>2, <1>3 DEF Begun
<1>5. \A p \in Slots : Begun(req'[p]) = Begun(req[p])
  BY <1>2, <1>3, <1>4 DEF TypeOK
<1> QED BY <1>1, <1>5 DEF pend

(* They delete: one row is removed, or none.                                 *)
LEMMA TableRemove ==
    ASSUME IInv, NEW q \in Slots, req[q].op = "delete", rows' = rows \ {req[q].row},
           End(q), UNCHANGED <<tweets, ids>>
    PROVE  \E key \in Keys, i \in 1..MaxRows : Table!Remove(q, key, i)
<1> DEFINE row == req[q].row
<1>1. /\ TypeOK /\ req[q].op = "delete" /\ row \in Row /\ rows \subseteq Row
      /\ End(q) /\ rows' = rows \ {row} /\ UNCHANGED <<tweets, ids>>
  BY ReqFields DEF IInv, TypeOK
<1>2. row.id \in 1..MaxRows /\ Key(row) \in Keys
  BY <1>1 DEF Row, Key, Keys
<1>3. pend[q] = Table!Removing(Key(row), row.id)
  BY <1>1 DEF pend, Begun, Table!Removing
<1>4. Table!End(q)
  BY <1>1, <1>3, PendEnd DEF Table!End, Table!Idle, Table!Removing, IdleReq
<1>5. \A r \in rows : r.id = row.id /\ Key(r) = Key(row) => r = row
  BY <1>1 DEF Row, Key
<1> HIDE DEF row
<1>6. table' = [table EXCEPT ![Key(row)] = @ \ {row.id}]
  <2>1. \A l \in Keys : l # Key(row) =>
           {s.id : s \in {x \in rows \ {row} : Key(x) = l}}
             = {s.id : s \in {x \in rows : Key(x) = l}}
    OBVIOUS
  <2>2. {s.id : s \in {x \in rows \ {row} : Key(x) = Key(row)}}
          = {s.id : s \in {x \in rows : Key(x) = Key(row)}} \ {row.id}
    BY <1>5
  <2> QED BY <1>1, <1>2, <2>1, <2>2 DEF table
<1>7. UNCHANGED <<used, open>>
  BY <1>1 DEF used, open
<1> QED BY <1>2, <1>3, <1>4, <1>6, <1>7 DEF Table!Remove

(* They are refused.                                                         *)
LEMMA TableRemoveRefused ==
    ASSUME IInv, NEW q \in Slots, req[q].op = "delete", Rollback(q),
           DbErrors \/ ~matches(req[q].row.tweet)
    PROVE  \E key \in Keys : Table!Refuse(q, key)
<1> DEFINE row == req[q].row
<1>1. TypeOK /\ End(q) /\ row.id \in 1..MaxRows /\ Key(row) \in Keys
  BY ReqFields DEF IInv, Rollback, Row, Key, Keys
<1>2. pend[q] = Table!Removing(Key(row), row.id)
  BY DEF pend, Begun, Table!Removing
<1>3. Table!End(q)
  BY <1>1, <1>2, PendEnd DEF Table!End, Table!Idle, Table!Removing, IdleReq
<1>4. UNCHANGED <<table, used, open>>
  BY DEF Rollback, table, used, open
<1>5. DbErrors \/ Key(row) \notin open
  BY DEF matches, Key, open
<1> QED BY <1>1, <1>2, <1>3, <1>4, <1>5 DEF Table!Refuse

(* deleteTweet closes the keys of the tweet, or is not seen.                 *)
LEMMA TableDrop ==
    ASSUME IInv, NEW q \in Slots, deleteTweet(q)
    PROVE  Table!Change
<1>1. UNCHANGED <<table, used>>
  BY DEF deleteTweet, ReadOwn, Drop, Rollback, table, used
<1>2. open' \subseteq Keys
  BY DEF IInv, TypeOK, deleteTweet, ReadOwn, Drop, Rollback, open, Keys
<1>3. TypeOK /\ (req[q].op = "drop" => pend[q] = IdleReq)
  BY DEF IInv, Begun, pend
<1>4. UNCHANGED pend
  <2>1. CASE \E u \in Users, t \in Tweets : ReadOwn(q, u, t)
    <3>1. PICK u \in Users, t \in Tweets : Begin(q, [op |-> "drop", tweet |-> t, user |-> u])
      BY <2>1 DEF ReadOwn
    <3> DEFINE r == [op |-> "drop", tweet |-> t, user |-> u]
    <3>2. Begun(r) = IdleReq
      BY DEF Begun
    <3> HIDE DEF r
    <3>3. pend[q] = IdleReq /\ pend' = [pend EXCEPT ![q] = IdleReq]
      BY <1>3, <3>1, <3>2, PendBegin DEF r
    <3> QED BY <3>3 DEF pend
  <2>2. CASE req[q].op = "drop" /\ End(q)
    <3>1. pend[q] = IdleReq /\ pend' = [pend EXCEPT ![q] = IdleReq]
      BY <1>3, <2>2, PendEnd
    <3> QED BY <3>1 DEF pend
  <2> QED BY <2>1, <2>2 DEF deleteTweet, Drop, Rollback
<1> QED BY <1>1, <1>2, <1>4 DEF Table!Change

(* Every step is a step of the table, or is not seen.                        *)
LEMMA TableStep == IInv /\ [Next]_vars => [Table!Next]_(Table!vars)
<1> SUFFICES ASSUME IInv, [Next]_vars PROVE [Table!Next]_(Table!vars)
  OBVIOUS
<1> USE DEF Table!Next
<1>1. ASSUME NEW q \in Slots, NEW k \in Kinds,
             NEW u \in Users, NEW t \in Tweets, ReadTarget(q, k, u, t)
      PROVE  Table!Next
  BY <1>1, TableReadTarget
<1>2. ASSUME NEW q \in Slots, NEW k \in Kinds, Insert(q, k) PROVE Table!Next
  <2>1. CASE ~Rollback(q)
    BY <1>2, <2>1, TableInsert
  <2>2. CASE Rollback(q)
    <3>1. /\ req[q].op = "create" /\ req[q].kind = k
          /\ DbErrors \/ ~matches(req[q].tweet) \/ ~unique(k, req[q].user, req[q].tweet)
      BY <1>2, <2>2 DEF Insert, IInv, TypeOK, Rollback, freshId
    <3> QED BY <2>2, <3>1, TableInsertRefused
  <2> QED BY <2>1, <2>2
<1>3. ASSUME NEW q \in Slots, NEW k \in Kinds,
             NEW u \in Users, NEW r \in rows, ReadRow(q, k, u, r)
      PROVE  Table!Next
  BY <1>3, TableReadRow
<1>4. ASSUME NEW q \in Slots, NEW k \in Kinds, ReadItsTweet(q, k)
      PROVE  UNCHANGED Table!vars
  BY <1>4, TableReadItsTweet DEF Table!vars
<1>5. ASSUME NEW q \in Slots, NEW k \in Kinds, Remove(q, k) PROVE Table!Next
  <2>1. CASE req[q].op = "delete" /\ Rollback(q) /\ (DbErrors \/ ~matches(req[q].row.tweet))
    BY <2>1, TableRemoveRefused
  <2>2. CASE /\ req[q].op = "delete" /\ rows' = rows \ {req[q].row}
             /\ End(q) /\ UNCHANGED <<tweets, ids>>
    BY <2>2, TableRemove
  <2> QED BY <1>5, <2>1, <2>2 DEF Remove
<1>6. ASSUME NEW q \in Slots, deleteTweet(q) PROVE Table!Next
  BY <1>6, TableDrop
<1>7. CASE UNCHANGED vars
  BY <1>7 DEF vars, Table!vars, table, used, open, pend
<1> QED BY <1>1, <1>2, <1>3, <1>4, <1>5, <1>6, <1>7
        DEF Next, createLike, createRepost, deleteLike, deleteRepost

(* Likes and reposts are those of tables that carry out every request in one *)
(* step, though requests read a row, then a tweet, then commit: by           *)
(* unique_like and unique_repost, deletion by id, and an UPDATE of the       *)
(* counter that fails when the tweet is gone.                                *)
THEOREM EngagementIsAtomic == Spec => TableSpec
  BY Invariance, TableInit, TableStep, PTL DEF Spec, TableSpec, Table!Spec
=============================================================================
