----------------------------- MODULE MCFeedRead -----------------------------
(* Instances of FeedRead for TLC.                                            *)
EXTENDS FeedRead

NoFiles == [s \in Services |-> "nofile"]

(* The environment, with a .env file of another secret for one service; .env *)
(* files only; the same with another secret for one, none for another, and   *)
(* no algorithm for the tweets service.                                      *)
SomeDeployments ==
    {[environ |-> "k1", dotenv |-> [NoFiles EXCEPT !["feed"] = "k2"], algo |-> {"environ"}],
     [environ |-> "none", dotenv |-> [s \in Services |-> "k1"], algo |-> Services],
     [environ |-> "none", algo |-> {"search"},
      dotenv |-> [s \in Services |->
                     CASE s = "users" -> "nofile" [] s = "feed" -> "k2" [] OTHER -> "k1"]]}
=============================================================================
