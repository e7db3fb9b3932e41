------------------------------ MODULE FeedList ------------------------------
(* What the list feed:{user_id} is to those who read it: entries come in at  *)
(* the front, the last ones go when there are more than Cap, and nothing     *)
(* else ever happens to it.                                                  *)
EXTENDS Naturals, Sequences

CONSTANTS
    Items,    \* what may be pushed
    Cap,      \* entries that a trim leaves
    MaxLen    \* the longest the list gets

VARIABLE list

Init == list = << >>

(* An LPUSH that the server ran some times.                                  *)
Push(e, copies) ==
    /\ Len(list) + copies <= MaxLen
    /\ list' = [i \in 1..copies |-> e] \o list

(* LTRIM 0 Cap-1.                                                            *)
Trim ==
    /\ Len(list) > Cap
    /\ list' = SubSeq(list, 1, Cap)

Next == Trim \/ \E e \in Items, copies \in 1..MaxLen : Push(e, copies)

Spec == Init /\ [][Next]_list
=============================================================================
