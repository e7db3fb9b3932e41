----------------------------- MODULE UniqueTable -----------------------------
(* What a table with a unique constraint promises to requests that work on   *)
(* it at the same time: a key has one row at most; a request is carried out  *)
(* in one step, or refused for a reason; a removal takes away the row it was *)
(* begun for, never a later row with the same key; ids are not given again.  *)
EXTENDS Naturals

CONSTANTS
    Keys,      \* what the constraint compares
    Ids,
    Slots,     \* requests that may be under way at the same time
    MayFail    \* whether a request may be refused for no reason

VARIABLES
    table,     \* the ids of the rows under every key
    used,      \* ids ever given
    open,      \* the keys that may be inserted for now
    pend       \* what every slot has begun

vars == <<table, used, open, pend>>

Idle == [op |-> "idle"]
Inserting(k) == [op |-> "insert", key |-> k]
Removing(k, i) == [op |-> "remove", key |-> k, id |-> i]

Init ==
    /\ table = [k \in Keys |-> {}]
    /\ used = {}
    /\ open \subseteq Keys
    /\ pend = [q \in Slots |-> Idle]

Begin(q, r) == pend[q] = Idle /\ pend' = [pend EXCEPT ![q] = r]
End(q) == pend[q] # Idle /\ pend' = [pend EXCEPT ![q] = Idle]

BeginInsert(q, k) == k \in open /\ Begin(q, Inserting(k)) /\ UNCHANGED <<table, used, open>>

Insert(q, k, i) ==
    /\ pend[q] = Inserting(k) /\ End(q)
    /\ k \in open /\ table[k] = {} /\ i \notin used
    /\ table' = [table EXCEPT ![k] = {i}]
    /\ used' = used \union {i}
    /\ UNCHANGED open

BeginRemove(q, k, i) ==
    i \in table[k] /\ Begin(q, Removing(k, i)) /\ UNCHANGED <<table, used, open>>

(* Somebody else may have removed the row before.                            *)
Remove(q, k, i) ==
    /\ pend[q] = Removing(k, i) /\ End(q)
    /\ table' = [table EXCEPT ![k] = @ \ {i}]
    /\ UNCHANGED <<used, open>>

Refuse(q, k) ==
    /\ \/ pend[q] = Inserting(k) /\ (MayFail \/ k \notin open \/ table[k] # {})
       \/ \E i \in Ids : pend[q] = Removing(k, i) /\ (MayFail \/ k \notin open)
    /\ End(q)
    /\ UNCHANGED <<table, used, open>>

(* Keys are opened and closed.                                               *)
Change == open' \subseteq Keys /\ UNCHANGED <<table, used, pend>>

Next ==
    \/ Change
    \/ \E q \in Slots, k \in Keys :
          \/ BeginInsert(q, k) \/ Refuse(q, k)
          \/ \E i \in Ids : Insert(q, k, i) \/ BeginRemove(q, k, i) \/ Remove(q, k, i)

Spec == Init /\ [][Next]_vars
=============================================================================
