---------------------------- MODULE MCFeedFanout ----------------------------
(* Instances of FeedFanout for TLC.  Readers are interchangeable: no action  *)
(* and no invariant tells one from another.                                  *)
EXTENDS FeedFanout, TLC

ReaderSymmetry == Permutations(Readers)

(* Of the bodies only the last one published may be bad, which keeps the     *)
(* instance with two readers small: a bad body meets a good one all the same.*)
LastBodyBadInit == Init /\ \A m \in Msgs : m < MaxMsgs => body[m] = "tweet"
LastBodyBadSpec == LastBodyBadInit /\ [][Next]_vars
LastBodyBadFairSpec == LastBodyBadSpec /\ Fairness
=============================================================================
