-------------------------- MODULE MCTweetPipeline ---------------------------
(* Instances of TweetPipeline for TLC.                                       *)
EXTENDS TweetPipeline

NoOtherEvents == {}
EveryOtherEvent == {<<k, TRUE>> : k \in EventKeys} \union {<<"tweet.create", FALSE>>}
DeletesOnly == {<<"tweet.delete", TRUE>>}
=============================================================================
