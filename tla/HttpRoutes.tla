----------------------------- MODULE HttpRoutes -----------------------------
(* The routes of the four HTTP services, in the order their routers declare  *)
(* them, and how a request finds its handler: the first route that matches.  *)
EXTENDS Naturals, Sequences

Services == {"users", "tweets", "feed", "search"}

(* "param" is a segment that is a parameter.                                 *)
Route(method, path, handler) == [method |-> method, path |-> path, handler |-> handler]

UserRouter == <<
    Route("GET", <<"health">>, "health_check"),
    Route("GET", <<"hello">>, "hello"),
    Route("POST", <<"users", "register">>, "register"),
    Route("POST", <<"users", "login">>, "login") >>

FollowerRouter == <<
    Route("POST", <<"follow">>, "CreateFollow"),
    Route("GET", <<"follow">>, "GetUsersFollowers"),
    Route("GET", <<"following">>, "GetUsersFollowing"),
    Route("GET", <<"follow", "param">>, "GetFollowByID"),
    Route("DELETE", <<"follow", "param">>, "DeleteFollow") >>

TweetRouter == <<
    Route("GET", <<"health">>, "health_check"),
    Route("POST", <<"tweet">>, "createTweet"),
    Route("GET", <<"tweet">>, "getTweets"),
    Route("GET", <<"tweet", "param">>, "getTweetByID"),
    Route("DELETE", <<"tweet", "param">>, "deleteTweet"),
    Route("POST", <<"tweet", "reply">>, "createTweetReply"),
    Route("GET", <<"tweet", "reply">>, "getTweetReplys"),
    Route("DELETE", <<"tweet", "reply", "param">>, "deleteTweetReply"),
    Route("POST", <<"tweet", "like", "param">>, "createLike"),
    Route("GET", <<"tweet", "like">>, "getLikes"),
    Route("DELETE", <<"tweet", "like", "param">>, "deleteLike"),
    Route("POST", <<"tweet", "repost", "param">>, "createRepost"),
    Route("GET", <<"tweet", "repost">>, "getReposts"),
    Route("DELETE", <<"tweet", "repost", "param">>, "deleteRepost"),
    Route("GET", <<"test">>, "testRoute") >>

FeedRouter == <<
    Route("GET", <<"feed">>, "get_feed"),
    Route("GET", <<"health">>, "health_check") >>

SearchRouter == <<
    Route("GET", <<"search">>, "search"),
    Route("GET", <<"health">>, "health_check") >>

users_api == UserRouter \o FollowerRouter
tweets_api == TweetRouter
feed_api == FeedRouter
search_api == SearchRouter

Apis == [users |-> users_api, tweets |-> tweets_api, feed |-> feed_api, search |-> search_api]

----------------------------------------------------------------------------
MatchesPath(route, path) ==
    /\ Len(route.path) = Len(path)
    /\ \A i \in 1..Len(path) : route.path[i] \in {"param", path[i]}

(* Mutated form: the last route that matches.                                *)
Last(S) == CHOOSE i \in S : \A j \in S : j <= i

First(S) == CHOOSE i \in S : \A j \in S : i <= j

Resolve(api, method, path) ==
    LET byPath == {i \in DOMAIN api : MatchesPath(api[i], path)}
        full == {i \in byPath : api[i].method = method}
    IN IF full # {} THEN api[First(full)].handler
       ELSE IF byPath # {} THEN "405" ELSE "404"

(* A request meant for a route: an id stands for every parameter.            *)
PathOf(route) == [i \in DOMAIN route.path |->
                    IF route.path[i] = "param" THEN "id" ELSE route.path[i]]

Reached(api, route) == Resolve(api, route.method, PathOf(route)) = route.handler
=============================================================================
