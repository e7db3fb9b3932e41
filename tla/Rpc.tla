-------------------------------- MODULE Rpc ---------------------------------
(* Calls between the services: the methods the stubs send (every client has  *)
(* a copy of the generated code), those the servers have registered, and     *)
(* what a call comes to while servers start and stop.                        *)
EXTENDS Sequences

VARIABLES
    serving,  \* services whose gRPC server runs
    outcome   \* of the last call from every call site

rpcVars == <<serving, outcome>>

UserMethods == {"GetUser", "IncrementsTweets", "GetFollowers", "GetFollowing"}

(* A method's full name, for every name a stub or client has for it.         *)
Named(service, methods) == [m \in methods |-> <<service, m>>]

feed_UserStub == Named("user_service.User", UserMethods)
search_UserStub == Named("user_service.User", UserMethods)

tweets_UserStub == Named("user_service.User", UserMethods)
feed_TweetStub == Named("tweet_service.Tweet", {"GetTweets"})
worker_UserClient == Named("user.User", UserMethods)

(* The methods the services define, and so answer.  (GetFollowing builds the *)
(* message of GetFollowers, which looks the same on the wire.)               *)
UserService == [m \in UserMethods |-> "OK"]
TweetService == [m \in {"GetTweets"} |-> "OK"]

(* A method a service does not define is inherited and answers so.           *)
UserServicer == [m \in UserMethods |-> "UNIMPLEMENTED"]
TweetServicer == [m \in {"GetTweets"} |-> "UNIMPLEMENTED"]

Overriding(service, base) ==
    [m \in DOMAIN base |-> IF m \in DOMAIN service THEN service[m] ELSE base[m]]

(* What a server answers to a full name.                                     *)
add_UserServicer_to_server(full) ==
    IF full[1] = "user_service.User" /\ full[2] \in UserMethods
    THEN Overriding(UserService, UserServicer)[full[2]]
    ELSE "UNIMPLEMENTED"
add_TweetServicer_to_server(full) ==
    IF full[1] = "tweet_service.Tweet" /\ full[2] \in DOMAIN TweetServicer
    THEN Overriding(TweetService, TweetServicer)[full[2]]
    ELSE "UNIMPLEMENTED"

Answer(server, full) ==
    IF server = "users" THEN add_UserServicer_to_server(full)
    ELSE add_TweetServicer_to_server(full)

(* The calls the code makes.  The functions GetUser of the clients are       *)
(* there, and called by nobody.                                              *)
Site(stub, method, server) == [full |-> stub[method], server |-> server]
CallSites ==
    [GetTweets |-> Site(feed_TweetStub, "GetTweets", "tweets"),
     IncrementTweets |-> Site(tweets_UserStub, "IncrementsTweets", "users"),
     GetFollowers |-> Site(worker_UserClient, "GetFollowers", "users"),
     tweets_GetUser |-> Site(tweets_UserStub, "GetUser", "users"),
     feed_GetUser |-> Site(feed_UserStub, "GetUser", "users"),
     search_GetUser |-> Site(search_UserStub, "GetUser", "users")]

Outcomes == {"none", "OK", "UNIMPLEMENTED", "UNAVAILABLE"}

RpcInit ==
    /\ serving = {}
    /\ outcome = [site \in DOMAIN CallSites |-> "none"]

(* The startup event starts the server in a thread of its own.               *)
serve(s) == s \notin serving /\ serving' = serving \union {s} /\ UNCHANGED outcome

Stop(s) == s \in serving /\ serving' = serving \ {s} /\ UNCHANGED outcome

(* What a call comes to if it is made now.                                   *)
Reply(site) ==
    LET c == CallSites[site]
    IN IF c.server \in serving THEN Answer(c.server, c.full) ELSE "UNAVAILABLE"

Call(site) == outcome' = [outcome EXCEPT ![site] = Reply(site)] /\ UNCHANGED serving

RpcNext ==
    \/ \E s \in {"users", "tweets"} : serve(s) \/ Stop(s)
    \/ \E site \in DOMAIN CallSites : Call(site)

RpcSpec == RpcInit /\ [][RpcNext]_rpcVars

(* "It then fetches the tweet author's followers (via gRPC to User service)" *)
(* (README.md:62): the users service has the method the worker calls.        *)
FollowersServed == outcome["GetFollowers"] # "UNIMPLEMENTED"
=============================================================================
