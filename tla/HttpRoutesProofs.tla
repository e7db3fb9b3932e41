-------------------------- MODULE HttpRoutesProofs --------------------------
(* Which handler a request gets to, for every route of the four services.    *)
EXTENDS HttpRoutes, SequenceTheorems, TLAPS

(* A request for route b gets past route a, segment by segment.              *)
Agree(x, y) == x = "param" \/ x = IF y = "param" THEN "id" ELSE y

Meets(a, b) ==
    /\ a.method = b.method
    /\ Len(a.path) = Len(b.path)
    /\ Agree(a.path[1], b.path[1])
    /\ Len(b.path) >= 2 => Agree(a.path[2], b.path[2])
    /\ Len(b.path) >= 3 => Agree(a.path[3], b.path[3])

(* The paths of the routers have one, two or three segments.                 *)
Short(r) == Len(r.path) \in 1..3 /\ DOMAIN r.path = 1..Len(r.path)

One(r, method, x, handler) ==
    /\ Short(r) /\ r.method = method /\ r.handler = handler
    /\ Len(r.path) = 1 /\ r.path[1] = x
Two(r, method, x, y, handler) ==
    /\ Short(r) /\ r.method = method /\ r.handler = handler
    /\ Len(r.path) = 2 /\ r.path[1] = x /\ r.path[2] = y
Three(r, method, x, y, z, handler) ==
    /\ Short(r) /\ r.method = method /\ r.handler = handler
    /\ Len(r.path) = 3 /\ r.path[1] = x /\ r.path[2] = y /\ r.path[3] = z

(* Matching a path, segment by segment.                                      *)
LEMMA Matching ==
    ASSUME NEW a, NEW b, Short(b), a.method = b.method
    PROVE  MatchesPath(a, PathOf(b)) <=> Meets(a, b)
<1> DEFINE f == PathOf(b)
           n == Len(b.path)
<1>1. n \in 1..3 /\ DOMAIN b.path = 1..n
  BY DEF Short
<1>2. f = [i \in 1..n |-> IF b.path[i] = "param" THEN "id" ELSE b.path[i]]
  BY <1>1 DEF PathOf
<1>3. f \in [1..n -> {f[i] : i \in 1..n}]
  BY <1>2
<1>4. Len(f) = n
  <2>1. f \in Seq({f[i] : i \in 1..n})
    BY <1>1, <1>3, SeqDef
  <2>2. DOMAIN f = 1..Len(f) /\ Len(f) \in Nat
    BY <2>1, LenProperties
  <2> HIDE DEF f, n
  <2> QED BY <1>1, <1>3, <2>2
<1>5. \A i \in 1..n : f[i] = IF b.path[i] = "param" THEN "id" ELSE b.path[i]
  BY <1>2
<1> HIDE DEF f
<1>6. MatchesPath(a, f) <=> Len(a.path) = n /\ \A i \in 1..n : Agree(a.path[i], b.path[i])
  BY <1>1, <1>4, <1>5 DEF MatchesPath, Agree
<1> HIDE DEF n
<1>7. 1 \in 1..n /\ (n >= 2 <=> 2 \in 1..n) /\ (n >= 3 <=> 3 \in 1..n)
      /\ \A i \in 1..n : i = 1 \/ i = 2 \/ i = 3
  BY <1>1
<1>8. (\A i \in 1..n : Agree(a.path[i], b.path[i])) <=>
        /\ Agree(a.path[1], b.path[1])
        /\ n >= 2 => Agree(a.path[2], b.path[2])
        /\ n >= 3 => Agree(a.path[3], b.path[3])
  BY <1>1, <1>7
<1> QED BY <1>6, <1>8 DEF Meets, f, n

(* The first route with the method and a path that matches takes a request.  *)
LEMMA Resolved ==
    ASSUME NEW api, NEW n \in Nat, DOMAIN api = 1..n,
           NEW i \in 1..n, Short(api[i]),
           NEW j \in 1..n, Meets(api[j], api[i]), \A k \in 1..(j - 1) : ~Meets(api[k], api[i])
    PROVE  Resolve(api, api[i].method, PathOf(api[i])) = api[j].handler
<1> DEFINE m == api[i].method
           path == PathOf(api[i])
           full == {k \in {l \in DOMAIN api : MatchesPath(api[l], path)} : api[k].method = m}
<1>1. \A k \in 1..n : k \in full <=> Meets(api[k], api[i])
  <2> SUFFICES ASSUME NEW k \in 1..n PROVE k \in full <=> Meets(api[k], api[i])
    OBVIOUS
  <2>1. CASE api[k].method = m
    <3>1. MatchesPath(api[k], path) <=> Meets(api[k], api[i])
      BY <2>1, Matching
    <3> QED BY <2>1, <3>1
  <2>2. CASE api[k].method # m
    BY <2>2 DEF Meets
  <2> QED BY <2>1, <2>2
<1>2. full \subseteq 1..n
  OBVIOUS
<1> HIDE DEF full
<1>3. j \in full /\ \A k \in full : k \in Nat /\ j <= k
  <2>1. \A k \in 1..n : k < j => k \in 1..(j - 1)
    OBVIOUS
  <2> QED BY <1>1, <1>2, <2>1
<1>4. First(full) = j
  <2>1. First(full) \in full /\ \A k \in full : First(full) <= k
    BY <1>3 DEF First
  <2>2. First(full) \in Nat /\ First(full) <= j /\ j <= First(full)
    BY <1>3, <2>1
  <2> QED BY <2>2
<1> QED BY <1>3, <1>4 DEF Resolve, full

(* The declarations, route by route.                                         *)
LEMMA UserRouterRoutes ==
    /\ DOMAIN UserRouter = 1..4
    /\ One(UserRouter[1], "GET", "health", "health_check")
    /\ One(UserRouter[2], "GET", "hello", "hello")
    /\ Two(UserRouter[3], "POST", "users", "register", "register")
    /\ Two(UserRouter[4], "POST", "users", "login", "login")
BY DEF UserRouter, Route, One, Two, Three, Short

(* Those of the follower router.                                             *)
LEMMA FollowerRouterRoutes ==
    /\ DOMAIN FollowerRouter = 1..5
    /\ One(FollowerRouter[1], "POST", "follow", "CreateFollow")
    /\ One(FollowerRouter[2], "GET", "follow", "GetUsersFollowers")
    /\ One(FollowerRouter[3], "GET", "following", "GetUsersFollowing")
    /\ Two(FollowerRouter[4], "GET", "follow", "param", "GetFollowByID")
    /\ Two(FollowerRouter[5], "DELETE", "follow", "param", "DeleteFollow")
BY DEF FollowerRouter, Route, One, Two, Three, Short

(* Those of the tweet router.                                                *)
LEMMA TweetRouterRoutes ==
    /\ DOMAIN TweetRouter = 1..15
    /\ One(TweetRouter[1], "GET", "health", "health_check")
    /\ One(TweetRouter[2], "POST", "tweet", "createTweet")
    /\ One(TweetRouter[3], "GET", "tweet", "getTweets")
    /\ Two(TweetRouter[4], "GET", "tweet", "param", "getTweetByID")
    /\ Two(TweetRouter[5], "DELETE", "tweet", "param", "deleteTweet")
    /\ Two(TweetRouter[6], "POST", "tweet", "reply", "createTweetReply")
    /\ Two(TweetRouter[7], "GET", "tweet", "reply", "getTweetReplys")
    /\ Three(TweetRouter[8], "DELETE", "tweet", "reply", "param", "deleteTweetReply")
    /\ Three(TweetRouter[9], "POST", "tweet", "like", "param", "createLike")
    /\ Two(TweetRouter[10], "GET", "tweet", "like", "getLikes")
    /\ Three(TweetRouter[11], "DELETE", "tweet", "like", "param", "deleteLike")
    /\ Three(TweetRouter[12], "POST", "tweet", "repost", "param", "createRepost")
    /\ Two(TweetRouter[13], "GET", "tweet", "repost", "getReposts")
    /\ Three(TweetRouter[14], "DELETE", "tweet", "repost", "param", "deleteRepost")
    /\ One(TweetRouter[15], "GET", "test", "testRoute")
BY SMTT(30) DEF TweetRouter, Route, One, Two, Three, Short

(* Those of the feed router.                                                 *)
LEMMA FeedRouterRoutes ==
    /\ DOMAIN FeedRouter = 1..2
    /\ One(FeedRouter[1], "GET", "feed", "get_feed")
    /\ One(FeedRouter[2], "GET", "health", "health_check")
BY DEF FeedRouter, Route, One, Two, Three, Short

(* Those of the search router.                                               *)
LEMMA SearchRouterRoutes ==
    /\ DOMAIN SearchRouter = 1..2
    /\ One(SearchRouter[1], "GET", "search", "search")
    /\ One(SearchRouter[2], "GET", "health", "health_check")
BY DEF SearchRouter, Route, One, Two, Three, Short


(* A route that no earlier one takes the requests of is reached.             *)
LEMMA NothingBefore ==
    ASSUME NEW api, NEW n \in Nat, DOMAIN api = 1..n, NEW i \in 1..n, Short(api[i]),
           \A k \in 1..(i - 1) : ~Meets(api[k], api[i])
    PROVE  Reached(api, api[i])
<1>1. Meets(api[i], api[i])
  BY DEF Meets, Agree
<1> QED BY <1>1, Resolved DEF Reached

(* Of the routes of tweets, the lists of replies, likes and reposts are      *)
(* behind the route of one tweet; the others have none before them that      *)
(* takes their requests.                                                     *)
LEMMA TweetsBefore ==
    ASSUME NEW i \in 1..15, NEW k \in 1..15, k < i, Meets(tweets_api[k], tweets_api[i])
    PROVE  i \in {7, 10, 13} /\ k = 4
<1>1. \/ k = 1 \/ k = 2 \/ k = 3 \/ k = 4 \/ k = 5 \/ k = 6 \/ k = 7
      \/ k = 8 \/ k = 9 \/ k = 10 \/ k = 11 \/ k = 12 \/ k = 13
      \/ k = 14 \/ k = 15
  OBVIOUS
<1>2. \/ i = 1 \/ i = 2 \/ i = 3 \/ i = 4 \/ i = 5 \/ i = 6 \/ i = 7
      \/ i = 8 \/ i = 9 \/ i = 10 \/ i = 11 \/ i = 12 \/ i = 13
      \/ i = 14 \/ i = 15
  OBVIOUS
<1>i1. CASE i = 1
  BY <1>1, <1>i1, TweetRouterRoutes
     DEF tweets_api, Meets, Agree, One, Two, Three
<1>i2. CASE i = 2
  BY <1>1, <1>i2, TweetRouterRoutes
     DEF tweets_api, Meets, Agree, One, Two, Three
<1>i3. CASE i = 3
  BY <1>1, <1>i3, TweetRouterRoutes
     DEF tweets_api, Meets, Agree, One, Two, Three
<1>i4. CASE i = 4
  BY <1>1, <1>i4, TweetRouterRoutes
     DEF tweets_api, Meets, Agree, One, Two, Three
<1>i5. CASE i = 5
  BY <1>1, <1>i5, TweetRouterRoutes
     DEF tweets_api, Meets, Agree, One, Two, Three
<1>i6. CASE i = 6
  BY <1>1, <1>i6, TweetRouterRoutes
     DEF tweets_api, Meets, Agree, One, Two, Three
<1>i7. CASE i = 7
  BY <1>1, <1>i7, TweetRouterRoutes
     DEF tweets_api, Meets, Agree, One, Two, Three
<1>i8. CASE i = 8
  BY <1>1, <1>i8, TweetRouterRoutes
     DEF tweets_api, Meets, Agree, One, Two, Three
<1>i9. CASE i = 9
  BY <1>1, <1>i9, TweetRouterRoutes
     DEF tweets_api, Meets, Agree, One, Two, Three
<1>i10. CASE i = 10
  BY <1>1, <1>i10, TweetRouterRoutes
     DEF tweets_api, Meets, Agree, One, Two, Three
<1>i11. CASE i = 11
  BY <1>1, <1>i11, TweetRouterRoutes
     DEF tweets_api, Meets, Agree, One, Two, Three
<1>i12. CASE i = 12
  BY <1>1, <1>i12, TweetRouterRoutes
     DEF tweets_api, Meets, Agree, One, Two, Three
<1>i13. CASE i = 13
  BY <1>1, <1>i13, TweetRouterRoutes
     DEF tweets_api, Meets, Agree, One, Two, Three
<1>i14. CASE i = 14
  BY <1>1, <1>i14, TweetRouterRoutes
     DEF tweets_api, Meets, Agree, One, Two, Three
<1>i15. CASE i = 15
  BY <1>1, <1>i15, TweetRouterRoutes
     DEF tweets_api, Meets, Agree, One, Two, Three
<1> QED BY <1>2,
    <1>i1, <1>i2, <1>i3, <1>i4, <1>i5, <1>i6, <1>i7, <1>i8,
    <1>i9, <1>i10, <1>i11, <1>i12, <1>i13, <1>i14, <1>i15

(* Requests for these lists go to getTweetByID.                              *)
LEMMA TweetsHidden ==
    ASSUME NEW i \in {7, 10, 13}
    PROVE  Resolve(tweets_api, tweets_api[i].method, PathOf(tweets_api[i])) = "getTweetByID"
<1>1. Meets(tweets_api[4], tweets_api[i])
  BY TweetRouterRoutes DEF tweets_api, Meets, Agree, One, Two, Three
<1>2. \A k \in 1..(4 - 1) : ~Meets(tweets_api[k], tweets_api[i])
  BY TweetsBefore
<1>3. Short(tweets_api[i]) /\ DOMAIN tweets_api = 1..15
  BY TweetRouterRoutes DEF tweets_api, Two
<1>4. tweets_api[4].handler = "getTweetByID"
  BY TweetRouterRoutes DEF tweets_api, Two
<1>5. Resolve(tweets_api, tweets_api[i].method, PathOf(tweets_api[i])) = tweets_api[4].handler
  <2>1. 15 \in Nat /\ i \in 1..15 /\ 4 \in 1..15
    OBVIOUS
  <2> QED BY ONLY <1>1, <1>2, <1>3, <2>1, Resolved
<1> QED BY <1>4, <1>5

(* Exactly these three are not reached.                                      *)
LEMMA TweetsReached ==
    \A i \in 1..15 : Reached(tweets_api, tweets_api[i]) <=> i \notin {7, 10, 13}
<1> SUFFICES ASSUME NEW i \in 1..15
             PROVE  Reached(tweets_api, tweets_api[i]) <=> i \notin {7, 10, 13}
  OBVIOUS
<1>1. CASE i \in {7, 10, 13}
  <2>1. tweets_api[i].handler # "getTweetByID"
    BY <1>1, TweetRouterRoutes DEF tweets_api, Two
  <2> QED BY <1>1, <2>1, TweetsHidden DEF Reached
<1>2. CASE i \notin {7, 10, 13}
  <2>1. \A k \in 1..(i - 1) : k \in 1..15 /\ k < i
    OBVIOUS
  <2>2. \A k \in 1..(i - 1) : ~Meets(tweets_api[k], tweets_api[i])
    BY <1>2, <2>1, TweetsBefore
  <2>3. \A j \in 1..15 : Short(tweets_api[j])
    <3> SUFFICES ASSUME NEW j \in 1..15 PROVE Short(tweets_api[j])
      OBVIOUS
    <3>1. \/ j = 1 \/ j = 2 \/ j = 3 \/ j = 4 \/ j = 5 \/ j = 6 \/ j = 7
          \/ j = 8 \/ j = 9 \/ j = 10 \/ j = 11 \/ j = 12 \/ j = 13
          \/ j = 14 \/ j = 15
      OBVIOUS
    <3> QED BY <3>1, TweetRouterRoutes DEF tweets_api, One, Two, Three
  <2>4. DOMAIN tweets_api = 1..15
    BY TweetRouterRoutes DEF tweets_api
  <2> QED BY <1>2, <2>2, <2>3, <2>4, NothingBefore
<1> QED BY <1>1, <1>2

(* The routes of users: those of its two routers, one after the other.       *)
LEMMA UsersRoutes ==
    /\ DOMAIN users_api = 1..9
    /\ \A i \in 1..4 : users_api[i] = UserRouter[i]
    /\ \A i \in 1..5 : users_api[i + 4] = FollowerRouter[i]
<1>1. UserRouter \in Seq({UserRouter[i] : i \in 1..4}) /\ Len(UserRouter) = 4
  <2>1. UserRouter = [i \in 1..4 |-> UserRouter[i]]
    BY DEF UserRouter
  <2>2. UserRouter \in [1..4 -> {UserRouter[i] : i \in 1..4}]
    BY <2>1
  <2> QED BY <2>2, SeqDef DEF UserRouter
<1>2. FollowerRouter \in Seq({FollowerRouter[i] : i \in 1..5}) /\ Len(FollowerRouter) = 5
  <2>1. FollowerRouter = [i \in 1..5 |-> FollowerRouter[i]]
    BY DEF FollowerRouter
  <2>2. FollowerRouter \in [1..5 -> {FollowerRouter[i] : i \in 1..5}]
    BY <2>1
  <2> QED BY <2>2, SeqDef DEF FollowerRouter
<1>3. /\ Len(users_api) = 9 /\ DOMAIN users_api = 1..Len(users_api)
      /\ \A i \in 1..9 : users_api[i] = IF i <= 4 THEN UserRouter[i] ELSE FollowerRouter[i - 4]
  <2> DEFINE S == {UserRouter[i] : i \in 1..4} \cup {FollowerRouter[i] : i \in 1..5}
  <2>1. UserRouter \in Seq(S) /\ FollowerRouter \in Seq(S)
    BY <1>1, <1>2
  <2> HIDE DEF S
  <2>2. /\ UserRouter \o FollowerRouter \in Seq(S)
        /\ Len(UserRouter \o FollowerRouter) = Len(UserRouter) + Len(FollowerRouter)
        /\ \A i \in 1..Len(UserRouter) + Len(FollowerRouter) :
              (UserRouter \o FollowerRouter)[i] =
                IF i <= Len(UserRouter) THEN UserRouter[i]
                                        ELSE FollowerRouter[i - Len(UserRouter)]
    BY ONLY <2>1, ConcatProperties
  <2>3. users_api \in Seq(S) /\ Len(users_api) = 9
    BY <1>1, <1>2, <2>2 DEF users_api
  <2>4. \A i \in 1..9 : users_api[i] = IF i <= 4 THEN UserRouter[i] ELSE FollowerRouter[i - 4]
    BY <1>1, <1>2, <2>2 DEF users_api
  <2> QED BY <2>3, <2>4, LenProperties
<1> QED BY <1>3

(* What users declares, as one list.                                         *)
LEMMA UserRouteList ==
    /\ DOMAIN users_api = 1..9
    /\ One(users_api[1], "GET", "health", "health_check")
    /\ One(users_api[2], "GET", "hello", "hello")
    /\ Two(users_api[3], "POST", "users", "register", "register")
    /\ Two(users_api[4], "POST", "users", "login", "login")
    /\ One(users_api[5], "POST", "follow", "CreateFollow")
    /\ One(users_api[6], "GET", "follow", "GetUsersFollowers")
    /\ One(users_api[7], "GET", "following", "GetUsersFollowing")
    /\ Two(users_api[8], "GET", "follow", "param", "GetFollowByID")
    /\ Two(users_api[9], "DELETE", "follow", "param", "DeleteFollow")
<1>1. users_api[5] = FollowerRouter[1] /\ users_api[6] = FollowerRouter[2]
      /\ users_api[7] = FollowerRouter[3] /\ users_api[8] = FollowerRouter[4]
      /\ users_api[9] = FollowerRouter[5]
  BY UsersRoutes
<1>2. users_api[1] = UserRouter[1] /\ users_api[2] = UserRouter[2]
      /\ users_api[3] = UserRouter[3] /\ users_api[4] = UserRouter[4]
  BY UsersRoutes
<1> QED BY <1>1, <1>2, UsersRoutes, UserRouterRoutes, FollowerRouterRoutes

(* Nothing of users hides anything.                                          *)
LEMMA UsersBefore ==
    ASSUME NEW i \in 1..9, NEW k \in 1..9, k < i
    PROVE  ~Meets(users_api[k], users_api[i])
<1>1. \/ k = 1 \/ k = 2 \/ k = 3 \/ k = 4 \/ k = 5 \/ k = 6 \/ k = 7 \/ k = 8
      \/ k = 9
  OBVIOUS
<1>2. \/ i = 1 \/ i = 2 \/ i = 3 \/ i = 4 \/ i = 5 \/ i = 6 \/ i = 7 \/ i = 8
      \/ i = 9
  OBVIOUS
<1> QED BY SMTT(30), <1>1, <1>2, UserRouteList DEF Meets, Agree, One, Two

(* Every route of users is reached.                                          *)
LEMMA UsersReached == \A i \in 1..9 : Reached(users_api, users_api[i])
<1> SUFFICES ASSUME NEW i \in 1..9 PROVE Reached(users_api, users_api[i])
  OBVIOUS
<1>1. \A k \in 1..(i - 1) : k \in 1..9 /\ k < i
  OBVIOUS
<1>2. \A k \in 1..(i - 1) : ~Meets(users_api[k], users_api[i])
  BY <1>1, UsersBefore
<1>3. Short(users_api[i])
  <2>1. \/ i = 1 \/ i = 2 \/ i = 3 \/ i = 4 \/ i = 5 \/ i = 6 \/ i = 7 \/ i = 8
        \/ i = 9
    OBVIOUS
  <2> QED BY <2>1, UserRouteList DEF One, Two
<1>4. DOMAIN users_api = 1..9
  BY UserRouteList
<1> QED BY <1>2, <1>3, <1>4, NothingBefore

(* Nor of feed.                                                              *)
LEMMA FeedBefore ==
    ASSUME NEW i \in 1..2, NEW k \in 1..2, k < i
    PROVE  ~Meets(feed_api[k], feed_api[i])
<1>1. k = 1 \/ k = 2
  OBVIOUS
<1>2. i = 1 \/ i = 2
  OBVIOUS
<1> QED BY SMTT(30), <1>1, <1>2, FeedRouterRoutes DEF feed_api, Meets, Agree, One, Two

(* Every route of feed is reached.                                           *)
LEMMA FeedReached == \A i \in 1..2 : Reached(feed_api, feed_api[i])
<1> SUFFICES ASSUME NEW i \in 1..2 PROVE Reached(feed_api, feed_api[i])
  OBVIOUS
<1>1. \A k \in 1..(i - 1) : k \in 1..2 /\ k < i
  OBVIOUS
<1>2. \A k \in 1..(i - 1) : ~Meets(feed_api[k], feed_api[i])
  BY <1>1, FeedBefore
<1>3. Short(feed_api[i])
  <2>1. i = 1 \/ i = 2
    OBVIOUS
  <2> QED BY <2>1, FeedRouterRoutes DEF feed_api, One, Two
<1>4. DOMAIN feed_api = 1..2
  BY FeedRouterRoutes DEF feed_api
<1> QED BY <1>2, <1>3, <1>4, NothingBefore

(* Nor of search.                                                            *)
LEMMA SearchBefore ==
    ASSUME NEW i \in 1..2, NEW k \in 1..2, k < i
    PROVE  ~Meets(search_api[k], search_api[i])
<1>1. k = 1 \/ k = 2
  OBVIOUS
<1>2. i = 1 \/ i = 2
  OBVIOUS
<1> QED BY SMTT(30), <1>1, <1>2, SearchRouterRoutes DEF search_api, Meets, Agree, One, Two

(* Every route of search is reached.                                         *)
LEMMA SearchReached == \A i \in 1..2 : Reached(search_api, search_api[i])
<1> SUFFICES ASSUME NEW i \in 1..2 PROVE Reached(search_api, search_api[i])
  OBVIOUS
<1>1. \A k \in 1..(i - 1) : k \in 1..2 /\ k < i
  OBVIOUS
<1>2. \A k \in 1..(i - 1) : ~Meets(search_api[k], search_api[i])
  BY <1>1, SearchBefore
<1>3. Short(search_api[i])
  <2>1. i = 1 \/ i = 2
    OBVIOUS
  <2> QED BY <2>1, SearchRouterRoutes DEF search_api, One, Two
<1>4. DOMAIN search_api = 1..2
  BY SearchRouterRoutes DEF search_api
<1> QED BY <1>2, <1>3, <1>4, NothingBefore

(* How many routes each service has.                                         *)
LEMMA Lengths ==
    /\ DOMAIN users_api = 1..9 /\ DOMAIN tweets_api = 1..15
    /\ DOMAIN feed_api = 1..2 /\ DOMAIN search_api = 1..2
BY UserRouteList, TweetRouterRoutes, FeedRouterRoutes, SearchRouterRoutes
   DEF tweets_api, feed_api, search_api
=============================================================================
