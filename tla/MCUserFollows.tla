--------------------------- MODULE MCUserFollows ----------------------------
(* Instances of UserFollows for TLC.                                         *)
EXTENDS UserFollows, TLC

SlotSymmetry == Permutations(Slots)
UserSymmetry == Permutations(Users)
Symmetric == SlotSymmetry \union UserSymmetry
=============================================================================
