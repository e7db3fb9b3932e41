------------------------- MODULE MCTweetEngagement --------------------------
(* Instances of TweetEngagement for TLC.                                     *)
EXTENDS TweetEngagement, TLC

SlotSymmetry == Permutations(Slots)
UserSymmetry == Permutations(Users)
Symmetric == SlotSymmetry \union UserSymmetry
=============================================================================
