--------------------------- MODULE FeedReadProofs ---------------------------
(* Paging through a feed leaves nothing out, for lists of any length, pages  *)
(* of any size, and pushes, trims, deletions and restarts in between.        *)
EXTENDS FeedRead, HttpRoutesProofs, SequenceTheorems, TLAPS

(* The client has been shown the entry it began with at place i, or it may   *)
(* do without.                                                               *)
Covered(i) == start[i] \in shown \union missed \/ start[i] \notin tweets

(* Where that entry is in the list now, unless it has been trimmed off.      *)
InList(i) == i + shift <= Len(feed)

(* The entries of the beginning, in the list and above place n.              *)
Above(n) == {i \in 1..Len(start) : InList(i) /\ i + shift <= n}

(* What is still in the list has only moved down.                            *)
Aligned == \A i \in 1..Len(start) : InList(i) => feed[i + shift] = start[i]

PagingInv ==
    /\ stage = "new" => start = <<>> /\ call = NoCall /\ shift = 0 /\ offset = 0
    /\ Aligned
    /\ call.at = "none" => \A i \in Above(offset) : Covered(i)
    /\ call.at = "read" =>
          \A i \in Above(offset + Limit) : Covered(i) \/ start[i] \in Entries(call.ids)
    /\ stage = "ended" => \A i \in Above(Len(feed)) : Covered(i)

IInv == TypeOK /\ PagingInv

(* Copies pushed in front move the others down by so many places.            *)
LEMMA Pushed ==
    ASSUME NEW S, NEW list \in Seq(S), NEW e \in S, NEW n \in Nat,
           NEW p, p = [i \in 1..n |-> e] \o list
    PROVE  /\ p \in Seq(S)
           /\ Len(p) = Len(list) + n
           /\ \A k \in 1..Len(list) : p[k + n] = list[k]
<1>1. [i \in 1..n |-> e] \in Seq(S) /\ Len([i \in 1..n |-> e]) = n OBVIOUS
<1>2. Len(list) \in Nat BY LenProperties
<1> QED BY <1>1, <1>2, ConcatProperties

(* What a part of a list holds.                                              *)
LEMMA Part ==
    ASSUME NEW S, NEW list \in Seq(S), NEW m \in 1..Len(list) + 1, NEW n \in 0..Len(list)
    PROVE  /\ SubSeq(list, m, n) \in Seq(S)
           /\ Len(SubSeq(list, m, n)) = IF m <= n THEN n - m + 1 ELSE 0
           /\ \A k \in m..n : SubSeq(list, m, n)[k - m + 1] = list[k]
<1>1. \A k \in m..n : list[k] \in S BY ElementOfSeq
<1> QED BY <1>1, SubSeqProperties

(* A page of LRANGE: entries of the list, and all of those in its range.     *)
LEMMA Page ==
    ASSUME NEW list \in Seq(Ids), NEW from \in Nat, ReadAssumption
    PROVE  LET page == LRange(list, from, PageEnd(from))
           IN /\ page \in Seq(Ids)
              /\ \A k \in 1..Len(list) :
                    from < k /\ k <= from + Limit => list[k] \in Entries(page)
<1> DEFINE to == IF PageEnd(from) < Len(list) THEN PageEnd(from) + 1 ELSE Len(list)
           page == SubSeq(list, from + 1, to)
<1>1. Len(list) \in Nat /\ Limit \in Nat /\ Limit >= 1 BY LenProperties DEF ReadAssumption
<1>2. to \in 0..Len(list) /\ (to = from + Limit \/ to = Len(list)) BY <1>1 DEF PageEnd
<1>3. \A k \in (from + 1)..to : list[k] \in Ids BY <1>1, <1>2, ElementOfSeq
<1>4. /\ page \in Seq(Ids)
      /\ Len(page) = IF from + 1 <= to THEN to - (from + 1) + 1 ELSE 0
      /\ \A k \in 1..to - (from + 1) + 1 : page[k] = list[from + 1 + k - 1]
  <2> HIDE DEF to
  <2> QED BY <1>2, <1>3, SubSeqProperties
<1>5. ASSUME NEW k \in 1..Len(list), from < k, k <= from + Limit
      PROVE  list[k] \in Entries(page)
  <2>1. k <= to BY <1>1, <1>5 DEF PageEnd
  <2>2. k - from \in 1..Len(page) BY <1>2, <1>4, <1>5, <2>1
  <2>3. page[k - from] = list[k] BY <1>2, <1>4, <1>5, <2>1
  <2>4. DOMAIN page = 1..Len(page) BY <1>4, LenProperties
  <2> QED BY <2>2, <2>3, <2>4 DEF Entries
<1> QED BY <1>4, <1>5 DEF LRange

----------------------------------------------------------------------------
(* The invariant holds at the start.                                         *)
LEMMA InitInv == ASSUME ReadAssumption, Init PROVE IInv
<1>1. TypeOK
  <2>1. feed \in Seq(Ids) /\ start \in Seq(Ids) /\ Len(feed) = 0
    BY EmptySeq DEF Init, Feed!Init
  <2>2. serving \subseteq {"users", "tweets"} /\ outcome \in [DOMAIN CallSites -> Outcomes]
    BY DEF Init, RpcInit, Outcomes
  <2> QED BY <2>1, <2>2 DEF Init, TypeOK, ReadAssumption, NoCall
<1>2. start = <<>> /\ Len(start) = 0 BY EmptySeq DEF Init
<1>3. PagingInv BY <1>1, <1>2 DEF PagingInv, Init, Aligned, Above, NoCall, TypeOK
<1> QED BY <1>1, <1>3 DEF IInv

(* A step that leaves list, request and client alone, and adds no tweets,    *)
(* leaves the paging alone.                                                  *)
LEMMA Elsewhere ==
    ASSUME IInv, UNCHANGED <<feed, call, offset, start, shift, shown, missed, stage>>,
           tweets' \subseteq tweets
    PROVE  PagingInv'
<1> QED BY DEF IInv, PagingInv, Aligned, Above, InList, Covered, NoCall

(* Time passes.                                                              *)
LEMMA TickInv == ASSUME IInv, ReadAssumption, Tick PROVE IInv'
<1>1. TypeOK' BY DEF IInv, TypeOK, Tick, client, rpcVars, ReadAssumption
<1>2. PagingInv' BY Elsewhere DEF Tick, client
<1> QED BY <1>1, <1>2 DEF IInv

(* A tweet is deleted.                                                       *)
LEMMA DeleteInv == ASSUME IInv, NEW t, Delete(t) PROVE IInv'
<1>1. TypeOK' BY DEF IInv, TypeOK, Delete, secrets, client, rpcVars
<1>2. PagingInv' BY Elsewhere DEF Delete, client
<1> QED BY <1>1, <1>2 DEF IInv

(* The tweets service's server starts or stops.                              *)
LEMMA RestartInv == ASSUME IInv, Restart PROVE IInv'
<1>1. serving' \subseteq {"users", "tweets"} /\ outcome' = outcome
  BY DEF IInv, TypeOK, Restart, serve, Stop
<1>2. TypeOK' BY <1>1 DEF IInv, TypeOK, Restart, secrets, client
<1>3. PagingInv' BY Elsewhere DEF Restart, client
<1> QED BY <1>2, <1>3 DEF IInv

(* A token is issued.                                                        *)
LEMMA IssueInv == ASSUME IInv, ReadAssumption, AuthAssumption, Issue PROVE IInv'
<1>1. deployed \in Deployment BY DEF IInv, TypeOK, ReadAssumption
<1>2. Config(deployed, "users") \in Secrets \union {"none"}
  <2>1. deployed.environ \in Secrets \union {"none"} BY <1>1 DEF Deployment
  <2>2. deployed.dotenv["users"] \in Secrets \union {"none", "nofile"}
    BY <1>1 DEF Deployment, Services
  <2> QED BY <2>1, <2>2 DEF Config
<1>3. users_JWT_SECRET(deployed) \in Secrets \union {"none"}
  BY <1>1, <1>2 DEF users_JWT_SECRET, EnvironFirst, Deployment
<1>4. users_JWT_SECRET(deployed) \in Secrets BY <1>3 DEF Issue, Starts, JWT_SECRET
<1>5. clock + Lifetime \in Nat BY DEF IInv, TypeOK, ReadAssumption, AuthAssumption
<1>6. token' \in Token BY <1>4, <1>5 DEF Issue, sign_jwt, Token
<1>7. TypeOK' BY <1>6 DEF IInv, TypeOK, Issue, client, rpcVars
<1>8. PagingInv' BY Elsewhere DEF Issue, client
<1> QED BY <1>7, <1>8 DEF IInv

----------------------------------------------------------------------------
(* A push: everything moves down, and the client's place does not.           *)
LEMMA PushInv ==
    ASSUME IInv, ReadAssumption, NEW e \in Ids, NEW n \in 1..MaxLen, Push(e, n)
    PROVE  IInv'
<1> USE DEF IInv
<1>0. n \in Nat \ {0} BY DEF ReadAssumption
<1>1. /\ feed' \in Seq(Ids) /\ Len(feed') = Len(feed) + n
      /\ \A k \in 1..Len(feed) : feed'[k + n] = feed[k]
  <2>1. feed \in Seq(Ids) /\ feed' = [i \in 1..n |-> e] \o feed BY DEF TypeOK, Push, Feed!Push
  <2> QED BY <1>0, <2>1, Pushed
<1>2. Len(feed) \in Nat /\ Len(start) \in Nat /\ MaxLen \in Nat /\ shift \in 0..MaxLen
      /\ shift' \in 0..MaxLen /\ Len(feed') <= MaxLen /\ offset \in Nat
  BY <1>0, <1>1, LenProperties DEF TypeOK, ReadAssumption, Push, Feed!Push
<1>3. TypeOK' BY <1>1, <1>2 DEF TypeOK, Push, secrets, rpcVars
<1>4. UNCHANGED <<tweets, call, offset, start, shown, missed, stage>> BY DEF Push
<1>5. CASE stage = "new"
  <2>1. Len(start) = 0 /\ shift' = shift BY <1>5, EmptySeq DEF PagingInv, Push
  <2> QED BY <1>3, <1>4, <1>5, <2>1 DEF PagingInv, Aligned, Above, NoCall
<1>6. CASE stage # "new"
  <2>1. ASSUME NEW i \in 1..Len(start), InList(i)'
        PROVE  shift' = shift + n /\ InList(i) /\ i + shift \in 1..Len(feed)
    <3>1. i + shift' <= Len(feed) + n BY <1>1, <1>4, <2>1 DEF InList
    <3>2. i \in Nat /\ i >= 1 BY <1>2
    <3>3. PICK moved \in Nat : moved = shift' /\ i + moved <= Len(feed) + n BY <1>2, <3>1
    <3>4. moved < MaxLen BY <1>0, <1>1, <1>2, <3>2, <3>3
    <3>5. shift' = shift + n BY <1>0, <1>2, <1>6, <3>3, <3>4 DEF Push
    <3> QED BY <1>0, <1>2, <3>1, <3>2, <3>5 DEF InList
  <2>2. Aligned'
    <3> SUFFICES ASSUME NEW i \in 1..Len(start), InList(i)'
                 PROVE  feed'[i + shift'] = start[i]
      BY <1>4 DEF Aligned
    <3>1. shift' = shift + n /\ InList(i) /\ i + shift \in 1..Len(feed) BY <2>1
    <3>2. feed'[(i + shift) + n] = feed[i + shift] BY <1>1, <3>1
    <3>3. i + shift' = (i + shift) + n BY <1>0, <1>2, <3>1
    <3> QED BY <3>1, <3>2, <3>3 DEF PagingInv, Aligned
  <2>3. ASSUME NEW place \in Nat, NEW i \in Above(place)'
        PROVE  i \in Above(place) /\ i \in Above(Len(feed))
    <3>1. i \in 1..Len(start) /\ InList(i)' /\ i + shift' <= place BY <1>4, <2>3 DEF Above
    <3>2. shift' = shift + n /\ InList(i) /\ i + shift \in 1..Len(feed) BY <2>1, <3>1
    <3>3. i \in Nat /\ i + shift <= place BY <1>0, <1>2, <3>1, <3>2
    <3> QED BY <3>1, <3>2, <3>3 DEF Above
  <2>4. \A i : Covered(i)' <=> Covered(i) BY <1>4 DEF Covered
  <2>5. call'.at = "none" => \A i \in Above(offset)' : Covered(i)'
    BY <1>2, <1>4, <2>3, <2>4 DEF PagingInv
  <2>6. call'.at = "read" =>
          \A i \in Above(offset + Limit)' : Covered(i)' \/ start'[i] \in Entries(call'.ids)
    <3>1. offset + Limit \in Nat BY <1>2 DEF ReadAssumption
    <3> QED BY <1>4, <2>3, <2>4, <3>1 DEF PagingInv
  <2>7. stage' = "ended" => \A i \in Above(Len(feed))' : Covered(i)'
    <3>1. Above(Len(feed))' = {i \in 1..Len(start') : InList(i)' /\ i + shift' <= Len(feed')}
      BY DEF Above
    <3>2. \A i \in Above(Len(feed))' : i \in 1..Len(start) /\ InList(i)' BY <1>4, <3>1
    <3>3. \A i \in Above(Len(feed))' : i \in Above(Len(feed)) BY <1>2, <2>1, <3>2 DEF Above
    <3> QED BY <1>4, <2>4, <3>3 DEF PagingInv
  <2> QED BY <1>3, <1>4, <1>6, <2>2, <2>5, <2>6, <2>7 DEF PagingInv
<1> QED BY <1>5, <1>6

(* The list is trimmed: what is left is where it was.                        *)
LEMMA TrimInv == ASSUME IInv, ReadAssumption, Trim PROVE IInv'
<1> USE DEF IInv
<1>1. Len(feed) \in Nat /\ FeedCap \in Nat /\ 1 \in 1..Len(feed) + 1 /\ FeedCap \in 0..Len(feed)
      /\ Len(start) \in Nat /\ shift \in Nat
  BY LenProperties DEF Trim, Feed!Trim, TypeOK, ReadAssumption
<1>2. /\ feed' \in Seq(Ids) /\ Len(feed') = FeedCap
      /\ \A k \in 1..FeedCap : feed'[k - 1 + 1] = feed[k]
  <2>1. feed \in Seq(Ids) /\ feed' = SubSeq(feed, 1, FeedCap)
    BY DEF TypeOK, Trim, Feed!Trim
  <2>2. /\ SubSeq(feed, 1, FeedCap) \in Seq(Ids)
        /\ Len(SubSeq(feed, 1, FeedCap)) = IF 1 <= FeedCap THEN FeedCap - 1 + 1 ELSE 0
        /\ \A k \in 1..FeedCap : SubSeq(feed, 1, FeedCap)[k - 1 + 1] = feed[k]
    BY <1>1, <2>1, Part
  <2> QED BY <1>1, <2>1, <2>2
<1>3. UNCHANGED <<tweets, call, offset, start, shift, shown, missed, stage>> BY DEF Trim, client
<1>4. TypeOK' BY <1>1, <1>2, <1>3 DEF TypeOK, Trim, secrets, rpcVars, ReadAssumption
<1>5. ASSUME NEW i \in 1..Len(start), InList(i)'
      PROVE  InList(i) /\ feed'[i + shift] = feed[i + shift] /\ i + shift <= Len(feed)
  <2>1. i + shift \in 1..FeedCap BY <1>1, <1>2, <1>3, <1>5 DEF InList
  <2>2. (i + shift) - 1 + 1 = i + shift BY <1>1, <2>1
  <2> QED BY <1>1, <1>2, <2>1, <2>2 DEF InList
<1>6. Aligned' BY <1>3, <1>5 DEF Aligned, PagingInv
<1>7. \A i : Covered(i)' <=> Covered(i) BY <1>3 DEF Covered
<1>8. \A n : Above(n)' \subseteq Above(n) BY <1>3, <1>5 DEF Above
<1>9. stage' = "ended" => \A i \in Above(Len(feed))' : Covered(i)'
  <2>1. \A i \in Above(Len(feed))' : i \in Above(Len(feed)) BY <1>3, <1>5 DEF Above
  <2> QED BY <1>3, <1>7, <2>1 DEF PagingInv
<1> QED BY <1>3, <1>4, <1>6, <1>7, <1>8, <1>9 DEF PagingInv

----------------------------------------------------------------------------
(* A page of ids is read, or there are none left.  With the first page the   *)
(* client begins: what it is owed is the list as it is.                      *)
LEMMA ReadInv == ASSUME IInv, ReadAssumption, Read PROVE IInv'
<1> USE DEF IInv
<1> DEFINE page == get_feed_tweet_ids
<1>1. feed \in Seq(Ids) /\ offset \in Nat /\ Limit \in Nat /\ Limit >= 1
      /\ Len(feed) \in Nat /\ Len(start) \in Nat /\ shift \in Nat
  BY LenProperties DEF TypeOK, ReadAssumption
<1>2. /\ page \in Seq(Ids)
      /\ \A k \in 1..Len(feed) : offset < k /\ k <= offset + Limit => feed[k] \in Entries(page)
  BY <1>1, Page DEF get_feed_tweet_ids
<1> HIDE DEF page
<1>3. UNCHANGED <<tweets, feed, offset, shift, shown, missed>> /\ call = NoCall
      /\ stage \in {"new", "paging"}
  BY DEF Read
<1>4. \/ page = <<>> /\ call' = NoCall /\ stage' = "ended"
      \/ call' = [at |-> "read", ids |-> page] /\ stage' = "paging"
  BY DEF Read, page
<1>5. \/ stage = "new" /\ start' = feed /\ shift = 0 /\ offset = 0
      \/ stage = "paging" /\ start' = start
  BY DEF Read, PagingInv
<1>6. TypeOK'
  <2>1. call' \in [at : {"none", "read"}, ids : Seq(Ids)] BY <1>2, <1>3, <1>4 DEF TypeOK
  <2>2. stage' \in {"new", "paging", "ended"} BY <1>4
  <2>3. start' \in Seq(Ids) BY <1>5 DEF TypeOK
  <2> QED BY <2>1, <2>2, <2>3 DEF TypeOK, Read, secrets, rpcVars
<1>7. Aligned'
  <2>1. CASE start' = feed /\ shift = 0 BY <1>1, <1>3, <2>1 DEF Aligned, InList
  <2>2. CASE start' = start BY <1>3, <2>2 DEF Aligned, InList, PagingInv
  <2> QED BY <1>5, <2>1, <2>2
<1>8. \A i \in Above(offset)' : Covered(i)'
  <2>1. CASE start' = feed /\ shift = 0 /\ offset = 0
    <3>1. Above(offset)' = {} BY <1>1, <1>3, <2>1 DEF Above
    <3> QED BY <3>1
  <2>2. CASE start' = start
    <3>1. Above(offset)' = Above(offset) /\ \A i : Covered(i)' <=> Covered(i)
      BY <1>3, <2>2 DEF Above, InList, Covered
    <3> QED BY <1>3, <3>1 DEF PagingInv, NoCall
  <2> QED BY <1>5, <2>1, <2>2
<1>9. Len(start') \in Nat BY <1>1, <1>5
<1>10. CASE page = <<>> /\ call' = NoCall /\ stage' = "ended"
  <2>1. Entries(page) = {} BY <1>10, EmptySeq DEF Entries
  <2>2. Len(feed) <= offset
    <3> SUFFICES ASSUME ~(Len(feed) <= offset) PROVE FALSE OBVIOUS
    <3>1. offset + 1 \in 1..Len(feed) /\ offset < offset + 1 /\ offset + 1 <= offset + Limit
      BY <1>1
    <3> QED BY <1>2, <2>1, <3>1
  <2>3. Above(Len(feed))' \subseteq Above(offset)' BY <1>1, <1>3, <1>9, <2>2 DEF Above
  <2> QED BY <1>6, <1>7, <1>8, <1>10, <2>3 DEF PagingInv, NoCall
<1>11. CASE call' = [at |-> "read", ids |-> page] /\ stage' = "paging"
  <2>1. ASSUME NEW i \in Above(offset + Limit)'
        PROVE  Covered(i)' \/ start'[i] \in Entries(page)
    <3>1. i \in 1..Len(start') /\ InList(i)' /\ i + shift <= offset + Limit
      BY <1>3, <2>1 DEF Above
    <3>2. CASE i + shift <= offset
      <4>1. i \in Above(offset)' BY <1>3, <3>1, <3>2 DEF Above
      <4> QED BY <1>8, <4>1
    <3>3. CASE ~(i + shift <= offset)
      <4>1. i + shift \in 1..Len(feed) BY <1>1, <1>3, <1>9, <3>1 DEF InList
      <4>2. feed[i + shift] \in Entries(page) BY <1>1, <1>2, <3>1, <3>3, <4>1
      <4>3. feed[i + shift] = start'[i] BY <1>3, <1>7, <3>1 DEF Aligned
      <4> QED BY <4>2, <4>3
    <3> QED BY <3>2, <3>3
  <2>2. call'.at = "read" /\ call'.ids = page BY <1>11
  <2> QED BY <1>6, <1>7, <1>11, <2>1, <2>2 DEF PagingInv
<1> QED BY <1>4, <1>10, <1>11

(* The page is filled in: what was on it is shown, missed, or deleted.       *)
LEMMA HydrateInv == ASSUME IInv, ReadAssumption, Hydrate PROVE IInv'
<1> USE DEF IInv
<1>1. call \in [at : {"none", "read"}, ids : Seq(Ids)] /\ offset \in Nat /\ Limit \in Nat
  BY DEF TypeOK, ReadAssumption
<1>2. Entries(call.ids) \subseteq Ids BY <1>1, ElementOfSeq, LenProperties DEF Entries
<1>3. UNCHANGED <<tweets, feed, start, shift, stage>> BY DEF Hydrate
<1>4. /\ shown \subseteq shown' /\ missed \subseteq missed'
      /\ \A t \in Entries(call.ids) : t \in shown' \union missed' \/ t \notin tweets
  <2>1. PICK answered \in BOOLEAN :
           /\ shown' = shown \union GetTweets(call.ids, answered)
           /\ missed' = IF answered THEN missed
                        ELSE missed \union (Entries(call.ids) \ {EmptyId})
    BY DEF Hydrate
  <2> QED BY <2>1 DEF GetTweets, TweetsFound, TypeOK, ReadAssumption
<1>5. offset' = offset + Limit /\ call' = NoCall BY DEF Hydrate
<1>6. TypeOK'
  <2>1. shown' \subseteq TweetIds /\ missed' \subseteq TweetIds
    BY <1>2 DEF TypeOK, Hydrate, GetTweets, TweetsFound, Ids
  <2>2. call' \in [at : {"none", "read"}, ids : Seq(Ids)] BY <1>5, EmptySeq DEF NoCall
  <2>3. offset' \in Nat BY <1>1, <1>5
  <2> QED BY <2>1, <2>2, <2>3 DEF TypeOK, Hydrate, secrets, rpcVars
<1>7. Aligned' BY <1>3 DEF Aligned, InList, PagingInv
<1>8. \A i : Covered(i) => Covered(i)' BY <1>3, <1>4 DEF Covered
<1>9. ASSUME NEW i \in Above(offset)' PROVE Covered(i)'
  <2>1. i \in Above(offset + Limit) BY <1>3, <1>5, <1>9 DEF Above, InList
  <2>2. Covered(i) \/ start[i] \in Entries(call.ids) BY <2>1 DEF Hydrate, PagingInv
  <2>3. CASE start[i] \in Entries(call.ids) BY <1>3, <1>4, <2>3 DEF Covered
  <2> QED BY <1>8, <2>2, <2>3
<1>10. Above(Len(feed))' = Above(Len(feed)) BY <1>3 DEF Above, InList
<1>11. stage = "paging" \/ stage = "ended"
  BY DEF Hydrate, PagingInv, NoCall, TypeOK
<1> QED BY <1>3, <1>5, <1>6, <1>7, <1>8, <1>9, <1>10, <1>11 DEF PagingInv, NoCall

----------------------------------------------------------------------------
(* The invariant holds in every state of every behaviour.                    *)
THEOREM Invariance == Spec => []IInv
<1> USE ReadAssumption, AuthAssumption
<1>1. Init => IInv BY InitInv
<1>2. ASSUME IInv, [Next]_vars PROVE IInv'
  <2>1. CASE Tick BY <1>2, <2>1, TickInv
  <2>2. CASE Trim BY <1>2, <2>2, TrimInv
  <2>3. CASE Restart BY <1>2, <2>3, RestartInv
  <2>4. ASSUME NEW e \in Ids, NEW n \in 1..MaxLen, Push(e, n) PROVE IInv'
    BY <1>2, <2>4, PushInv
  <2>5. ASSUME NEW t \in TweetIds, Delete(t) PROVE IInv' BY <1>2, <2>5, DeleteInv
  <2>6. CASE Issue BY <1>2, <2>6, IssueInv
  <2>7. CASE Read BY <1>2, <2>7, ReadInv
  <2>8. CASE Hydrate BY <1>2, <2>8, HydrateInv
  <2>9. CASE UNCHANGED vars
    <3>1. TypeOK' BY <1>2, <2>9 DEF IInv, TypeOK, vars, client
    <3>2. PagingInv' BY <1>2, <2>9, Elsewhere DEF vars, client
    <3> QED BY <3>1, <3>2 DEF IInv
  <2> QED
    BY <1>2, <2>1, <2>2, <2>3, <2>4, <2>5, <2>6, <2>7, <2>8, <2>9 DEF Next, get_feed
<1> QED BY <1>1, <1>2, PTL DEF Spec

(* Every variable keeps its type.                                            *)
THEOREM TypeCorrect == Spec => []TypeOK
<1>1. IInv => TypeOK BY DEF IInv
<1> QED BY <1>1, Invariance, PTL

(* A client that reads its feed to the end has been shown every tweet that   *)
(* was there when it began, but for those trimmed, deleted, or missed, for   *)
(* lists, pages and trims of any size, and whatever happens in between.      *)
THEOREM PagesLeaveNothingOut == Spec => []PagingComplete
<1>1. IInv => PagingComplete
  <2> SUFFICES ASSUME IInv, stage = "ended", NEW i \in 1..Len(start), InList(i)
               PROVE  Covered(i)
    <3>1. IInv => shift \in Nat /\ Len(feed) \in Nat /\ Len(start) \in Nat
      BY LenProperties, ReadAssumption DEF IInv, TypeOK
    <3> QED BY <3>1 DEF PagingComplete, InList, Covered
  <2>1. i \in Above(Len(feed)) BY DEF Above, InList
  <2> QED BY <2>1 DEF IInv, PagingInv
<1> QED BY <1>1, Invariance, PTL

(* The services take the same tokens, whatever secrets there are, if they    *)
(* find them in the places SameSecrets names.                                *)
THEOREM OneSecret == Spec => []ServicesAgree
<1>1. ServicesAgree
  <2> SUFFICES ASSUME SameSecrets, NEW s \in Services
               PROVE  Accepts(deployed, s, token, clock)
                        = Accepts(deployed, "users", token, clock)
    BY DEF ServicesAgree
  <2>1. JWT_SECRET(deployed, s) = JWT_SECRET(deployed, "users")
    BY DEF SameSecrets, Services, JWT_SECRET, users_JWT_SECRET, tweets_JWT_SECRET,
           feed_JWT_SECRET, search_JWT_SECRET, EnvironFirst
  <2>2. VerifyToken(deployed, s, token, clock) = "user"
          <=> VerifyToken(deployed, "users", token, clock) = "user"
    BY <2>1 DEF Services, VerifyToken, users_VerifyToken, tweets_VerifyToken,
                feed_VerifyToken, search_VerifyToken
  <2>3. Starts(deployed, s) <=> Starts(deployed, "users")
    <3>1. tweets_JWT_ALGO(deployed) BY DEF SameSecrets
    <3> QED BY <2>1, <3>1 DEF Starts
  <2> QED BY <2>2, <2>3 DEF Accepts
<1> QED BY <1>1, PTL

(* Whatever the secrets: the routes of each service are reached, but for the *)
(* three lists behind /tweet/{tweet_id}, which gets their requests.          *)
THEOREM RoutesBehindOthers == Spec => []RoutesReached
<1>1. ASSUME NEW s \in {"users", "feed", "search"}
      PROVE  Unreached[s] = {}
  <2>1. \A i \in DOMAIN Apis[s] : Reached(Apis[s], Apis[s][i])
    BY <1>1, Lengths, UsersReached, FeedReached, SearchReached DEF Apis
  <2> QED BY <1>1, <2>1 DEF Unreached, Entries, Services
<1>2. {route.handler : route \in Unreached["tweets"]}
        = {"getTweetReplys", "getLikes", "getReposts"}
  <2>1. Unreached["tweets"] = {tweets_api[i] : i \in {7, 10, 13}}
    BY Lengths, TweetsReached DEF Unreached, Entries, Apis, Services
  <2>2. /\ tweets_api[7].handler = "getTweetReplys"
        /\ tweets_api[10].handler = "getLikes"
        /\ tweets_api[13].handler = "getReposts"
    BY TweetRouterRoutes DEF tweets_api, Two
  <2> QED BY <2>1, <2>2
<1>3. RoutesReached
  BY <1>1, <1>2 DEF RoutesReached, Services
<1> QED BY <1>3, PTL
=============================================================================
