--------------------------- MODULE IndexDelivery ---------------------------
(* What indexing promises, with no queue, worker or Elasticsearch: an event  *)
(* is written to the index as often as it takes while it is under way, is    *)
(* done only when it has been written or the index would not have it, and is *)
(* done before an earlier one only if that was put back.                     *)
EXTENDS Naturals

CONSTANTS
    MaxEvents,  \* events there may be
    mayLose     \* whether events may be lost

Numbers == 1..MaxEvents

VARIABLES
    wants,      \* events that ask for a document
    malformed,  \* events that cannot be read
    pending,    \* events on their way
    putback,    \* events that were put back at some time
    done,       \* events done
    rejected,   \* events refused because they cannot be read
    lost,       \* events lost on their way
    written,    \* events that have a document
    refused     \* events whose document the index did not confirm

vars == <<wants, malformed, pending, putback, done, rejected, lost, written, refused>>

Over == done \union rejected \union lost

Init ==
    /\ wants = {} /\ malformed = {}
    /\ pending = {} /\ putback = {}
    /\ done = {} /\ rejected = {} /\ lost = {}
    /\ written = {} /\ refused = {}

(* The next event.                                                           *)
Accept(m) ==
    /\ pending \union Over = 1..(m - 1)
    /\ pending' = pending \union {m}
    /\ wants' \in {wants, wants \union {m}}
    /\ malformed' \in {malformed, malformed \union {m}}
    /\ UNCHANGED <<putback, done, rejected, lost, written, refused>>

(* Once lost, an event may still be written by who has it in hand.           *)
Write(m) ==
    /\ m \in (pending \union lost) \intersect (wants \ malformed)
    /\ \/ written' = written \union {m} /\ UNCHANGED refused
       \/ written' \in {written, written \union {m}} /\ refused' = refused \union {m}
    /\ UNCHANGED <<wants, malformed, pending, putback, done, rejected, lost>>

PutBack(m) ==
    /\ m \in pending
    /\ putback' = putback \union {m}
    /\ UNCHANGED <<wants, malformed, pending, done, rejected, lost, written, refused>>

Finish(m) ==
    /\ m \in pending \ malformed
    /\ m \in wants => m \in written \union refused
    /\ \A n \in 1..(m - 1) : n \in Over \union putback
    /\ pending' = pending \ {m}
    /\ done' = done \union {m}
    /\ UNCHANGED <<wants, malformed, putback, rejected, lost, written, refused>>

Reject(m) ==
    /\ m \in pending \intersect malformed
    /\ pending' = pending \ {m}
    /\ rejected' = rejected \union {m}
    /\ UNCHANGED <<wants, malformed, putback, done, lost, written, refused>>

Lose(S) ==
    /\ mayLose
    /\ S \subseteq pending
    /\ pending' = pending \ S
    /\ lost' = lost \union S
    /\ UNCHANGED <<wants, malformed, putback, done, rejected, written, refused>>

Next ==
    \/ \E m \in Numbers : Accept(m) \/ Write(m) \/ PutBack(m) \/ Finish(m) \/ Reject(m)
    \/ \E S \in SUBSET Numbers : Lose(S)

Spec == Init /\ [][Next]_vars
=============================================================================
