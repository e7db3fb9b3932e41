---------------------------- MODULE FeedDelivery ----------------------------
(* What fan-out on write promises, with no queue, worker or Redis: a tweet   *)
(* reaches readers one by one while it is pending, reaches only readers who  *)
(* followed its author at some time since it was published, and is settled   *)
(* only when it has reached everyone who followed without interruption.  It  *)
(* may get lost on its way, and still reach somebody then.                   *)
EXTENDS Naturals

CONSTANTS Authors, Readers, MaxMsgs

Msgs == 1..MaxMsgs

VARIABLES
    mayDrop,    \* whether a tweet may be given up: does not change
    mayLose,    \* whether tweets may get lost: does not change
    author,     \* the author of every tweet: does not change
    followers,  \* the followers of every author
    pending,    \* tweets on their way
    settled,    \* tweets delivered
    dropped,    \* tweets given up
    lost,       \* tweets lost on their way
    reached,    \* the tweets every reader was given
    steady,     \* who followed from publication on
    ever        \* who followed at some time since publication

given == <<mayDrop, mayLose, author>>
vars == <<given, followers, pending, settled, dropped, lost, reached, steady, ever>>

Init ==
    /\ mayDrop \in BOOLEAN
    /\ mayLose \in BOOLEAN
    /\ author \in [Msgs -> Authors]
    /\ followers \in [Authors -> SUBSET Readers]
    /\ pending = {}
    /\ settled = {}
    /\ dropped = {}
    /\ lost = {}
    /\ reached = [r \in Readers |-> {}]
    /\ steady = [m \in Msgs |-> {}]
    /\ ever = [m \in Msgs |-> {}]

Publish(m) ==
    /\ m \notin pending \union settled \union dropped \union lost
    /\ pending' = pending \union {m}
    /\ steady' = [steady EXCEPT ![m] = followers[author[m]]]
    /\ ever' = [ever EXCEPT ![m] = followers[author[m]]]
    /\ UNCHANGED <<given, followers, settled, dropped, lost, reached>>

Affected(a) == {m \in pending \union lost : author[m] = a}

Follow(a, r) ==
    /\ r \notin followers[a]
    /\ followers' = [followers EXCEPT ![a] = @ \union {r}]
    /\ ever' = [m \in Msgs |-> IF m \in Affected(a) THEN ever[m] \union {r} ELSE ever[m]]
    /\ UNCHANGED <<given, pending, settled, dropped, lost, reached, steady>>

Unfollow(a, r) ==
    /\ r \in followers[a]
    /\ followers' = [followers EXCEPT ![a] = @ \ {r}]
    /\ steady' = [m \in Msgs |-> IF m \in Affected(a) THEN steady[m] \ {r} ELSE steady[m]]
    /\ UNCHANGED <<given, pending, settled, dropped, lost, reached, ever>>

Reach(m, r) ==
    /\ m \in pending \union lost
    /\ r \in ever[m]
    /\ reached' = [reached EXCEPT ![r] = @ \union {m}]
    /\ UNCHANGED <<given, followers, pending, settled, dropped, lost, steady, ever>>

Settle(m) ==
    /\ m \in pending
    /\ \A r \in steady[m] : m \in reached[r]
    /\ pending' = pending \ {m}
    /\ settled' = settled \union {m}
    /\ UNCHANGED <<given, followers, dropped, lost, reached, steady, ever>>

Drop(m) ==
    /\ mayDrop
    /\ m \in pending
    /\ pending' = pending \ {m}
    /\ dropped' = dropped \union {m}
    /\ UNCHANGED <<given, followers, settled, lost, reached, steady, ever>>

Lose(S) ==
    /\ mayLose
    /\ S \subseteq pending
    /\ pending' = pending \ S
    /\ lost' = lost \union S
    /\ UNCHANGED <<given, followers, settled, dropped, reached, steady, ever>>

Next ==
    \/ \E m \in Msgs : Publish(m) \/ Settle(m) \/ Drop(m)
    \/ \E m \in Msgs, r \in Readers : Reach(m, r)
    \/ \E S \in SUBSET Msgs : Lose(S)
    \/ \E a \in Authors, r \in Readers : Follow(a, r) \/ Unfollow(a, r)

Spec == Init /\ [][Next]_vars
=============================================================================
