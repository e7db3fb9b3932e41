-------------------------- MODULE FeedListsProofs --------------------------
(* Proofs about the Redis lists of FeedFanout: how often an entry is in a    *)
(* list, and how long a list gets, for every value of the constants.         *)
EXTENDS FeedFanoutProofs, FiniteSetTheorems

(* A handler that may still push to the list of a reader.                    *)
MayPush(t, r) ==
    \/ h[t].pc \in {"decode", "lookup"}
    \/ h[t].pc \in {"push", "trim"} /\ r \in h[t].todo

(* The deliveries of a message which are through with the list of a reader.  *)
Spent(m, r) == {t \in Tags : h[t].msg = m /\ ~MayPush(t, r)}

(* Stronger than DuplicatesNeedRedelivery: a delivery that may still push to *)
(* a list has put nothing there.                                             *)
CopiesInv ==
    \A r \in Readers, m \in Msgs :
        Occurrences(m, feeds[r]) <= (1 + Retries) * Cardinality(Spent(m, r))

----------------------------------------------------------------------------
USE FanoutAssumption DEF Msgs, Tags, Entries, EmptyId

(* Multiplication, which the provers do not do on their own.                 *)
LEMMA TimesMonotone ==
    ASSUME NEW k \in Nat, NEW a \in Nat, NEW b \in Nat, a <= b
    PROVE  k * a \in Nat /\ k * b \in Nat /\ k * a <= k * b
<1>1. PICK d \in Nat : b = a + d
  <2>1. b - a \in Nat /\ b = a + (b - a) OBVIOUS
  <2> QED BY <2>1
<1>2. k * a \in Nat /\ k * d \in Nat
  OBVIOUS
<1>3. k * b = k * a + k * d
  BY <1>1
<1> QED BY <1>1, <1>2, <1>3

(* One more of something.                                                    *)
LEMMA TimesNext ==
    ASSUME NEW k \in Nat, NEW a \in Nat
    PROVE  k * a \in Nat /\ k * (a + 1) = k * a + k
OBVIOUS

(* Sets of tags are finite.                                                  *)
LEMMA TagSets ==
    ASSUME NEW S, S \subseteq Tags
    PROVE  IsFiniteSet(S) /\ Cardinality(S) \in Nat
<1>1. IsFiniteSet(Tags)
  BY FS_Interval
<1> QED BY <1>1, FS_Subset, FS_CardinalityType

(* The places of an entry in a list.                                         *)
PlacesOf(e, s) == {i \in DOMAIN s : s[i] = e}

(* Occurrences are finitely many.                                            *)
LEMMA PlacesFinite ==
    ASSUME NEW e, NEW s \in Seq(Entries)
    PROVE  /\ IsFiniteSet(PlacesOf(e, s)) /\ Occurrences(e, s) = Cardinality(PlacesOf(e, s))
           /\ Occurrences(e, s) \in Nat
<1>1. PlacesOf(e, s) \subseteq 1..Len(s) /\ Len(s) \in Nat
  BY DEF PlacesOf
<1>2. IsFiniteSet(1..Len(s))
  BY <1>1, FS_Interval
<1>3. IsFiniteSet(PlacesOf(e, s))
  BY <1>1, <1>2, FS_Subset
<1> QED BY <1>3, FS_CardinalityType DEF PlacesOf, Occurrences

(* LTRIM adds no entry, and cuts the list to the cap.                        *)
LEMMA TrimmedFacts ==
    ASSUME NEW e, NEW s \in Seq(Entries)
    PROVE  /\ Trimmed(s) \in Seq(Entries) /\ Len(Trimmed(s)) <= FeedCap
           /\ Occurrences(e, Trimmed(s)) <= Occurrences(e, s)
<1>1. CASE Len(s) > FeedCap
  <2>1. PICK u : u = Trimmed(s)
    OBVIOUS
  <2>2. u \in Seq(Entries) /\ Len(u) = FeedCap /\ \A i \in 1..FeedCap : u[i] = s[i]
    BY <1>1, <2>1 DEF Trimmed
  <2>3. PlacesOf(e, u) \subseteq PlacesOf(e, s)
    BY <1>1, <2>2 DEF PlacesOf
  <2>4. Cardinality(PlacesOf(e, u)) <= Cardinality(PlacesOf(e, s))
    BY <2>3, PlacesFinite, FS_Subset
  <2>5. Occurrences(e, u) <= Occurrences(e, s)
    BY <2>2, <2>4, PlacesFinite
  <2> QED BY <2>1, <2>2, <2>5
<1>2. CASE ~(Len(s) > FeedCap)
  BY <1>2, PlacesFinite DEF Trimmed
<1> QED BY <1>1, <1>2

(* What an LPUSH puts in front of a list.                                    *)
Copies(x, n) == [i \in 1..n |-> x]

(* An LPUSH of some copies adds so many entries at most, and none of others. *)
LEMMA PushedFacts ==
    ASSUME NEW e \in Entries, NEW s \in Seq(Entries), NEW x \in Entries, NEW n \in Nat,
           NEW p, p = Copies(x, n) \o s
    PROVE  /\ p \in Seq(Entries) /\ Len(p) = n + Len(s)
           /\ Occurrences(e, p) <= n + Occurrences(e, s)
           /\ x # e => Occurrences(e, p) <= Occurrences(e, s)
<1> DEFINE A == {i \in 1..n : x = e}
           B == {i \in (n + 1)..(n + Len(s)) : s[i - n] = e}
<1>0. PICK new : new = Copies(x, n)
  OBVIOUS
<1>1. /\ new \in Seq(Entries) /\ Len(new) = n /\ Len(s) \in Nat
      /\ \A i \in 1..n : new[i] = x
  BY <1>0 DEF Copies
<1>2. /\ p \in Seq(Entries) /\ Len(p) = n + Len(s)
      /\ \A i \in 1..(n + Len(s)) : p[i] = IF i <= n THEN new[i] ELSE s[i - n]
  <2>1. p = new \o s
    BY <1>0
  <2>2. /\ new \o s \in Seq(Entries) /\ Len(new \o s) = Len(new) + Len(s)
        /\ \A i \in 1..(Len(new) + Len(s)) :
              (new \o s)[i] = IF i <= Len(new) THEN new[i] ELSE s[i - Len(new)]
    BY <1>1, ConcatProperties
  <2>3. p \in Seq(Entries)
    BY <2>1, <2>2
  <2>4. Len(p) = n + Len(s)
    BY <1>1, <2>1, <2>2
  <2>5. ASSUME NEW i \in 1..(n + Len(s))
        PROVE  p[i] = IF i <= n THEN new[i] ELSE s[i - n]
    <3>1. i \in 1..(Len(new) + Len(s)) /\ Len(new) = n
      BY <1>1
    <3> QED BY <2>1, <2>2, <3>1
  <2> QED BY <2>3, <2>4, <2>5
<1>3. PlacesOf(e, p) \subseteq A \union B
  <2> SUFFICES ASSUME NEW i \in PlacesOf(e, p) PROVE i \in A \union B
    OBVIOUS
  <2>1. i \in 1..(n + Len(s)) /\ p[i] = e
    BY <1>2 DEF PlacesOf
  <2>2. CASE i <= n
    BY <1>1, <1>2, <2>1, <2>2
  <2>3. CASE ~(i <= n)
    BY <1>1, <1>2, <2>1, <2>3
  <2> QED BY <2>2, <2>3
<1>4. IsFiniteSet(A) /\ Cardinality(A) \in Nat /\ Cardinality(A) <= n
  <2>1. A \subseteq 1..n
    OBVIOUS
  <2>2. /\ IsFiniteSet(1..n)
        /\ Cardinality(1..n) = IF 1 > n THEN 0 ELSE n - 1 + 1
    <3>1. n \in Int /\ 1 \in Int
      OBVIOUS
    <3> QED BY ONLY <3>1, FS_Interval
  <2>3. Cardinality(1..n) = n
    BY <2>2
  <2> HIDE DEF A
  <2> QED BY <2>1, <2>2, <2>3, FS_Subset, FS_CardinalityType
<1>5. /\ IsFiniteSet(B) /\ Cardinality(B) \in Nat
      /\ Cardinality(B) <= Cardinality(PlacesOf(e, s))
  <2> DEFINE f == [i \in B |-> i - n]
  <2>1. f \in [B -> PlacesOf(e, s)]
    BY <1>1 DEF PlacesOf
  <2>2. \A i, j \in B : f[i] = f[j] => i = j
    BY <1>1
  <2> HIDE DEF f, B
  <2>3. f \in Injection(B, PlacesOf(e, s))
    BY <2>1, <2>2 DEF Injection, IsInjective
  <2> QED BY <2>3, PlacesFinite, FS_Injection, FS_CardinalityType
<1> HIDE DEF A, B
<1>6. IsFiniteSet(A \union B) /\ Cardinality(A \union B) <= Cardinality(A) + Cardinality(B)
  <2>1. /\ IsFiniteSet(A \union B)
        /\ Cardinality(A \union B) = Cardinality(A) + Cardinality(B) - Cardinality(A \cap B)
    BY <1>4, <1>5, FS_Union
  <2>2. Cardinality(A \cap B) \in Nat
    BY <1>4, FS_Subset, FS_CardinalityType
  <2>3. Cardinality(A \union B) \in Nat
    BY <2>1, FS_CardinalityType
  <2> QED BY <1>4, <1>5, <2>1, <2>2, <2>3
<1>7. /\ Cardinality(PlacesOf(e, p)) <= Cardinality(A \union B)
      /\ Cardinality(A \union B) \in Nat
  BY <1>3, <1>6, FS_Subset, FS_CardinalityType
<1>8. x # e => Cardinality(A) = 0
  <2>1. x # e => A = {}
    BY DEF A
  <2> QED BY <2>1, FS_EmptySet
<1>9. /\ Occurrences(e, p) = Cardinality(PlacesOf(e, p)) /\ Occurrences(e, p) \in Nat
      /\ Occurrences(e, s) = Cardinality(PlacesOf(e, s)) /\ Occurrences(e, s) \in Nat
  BY <1>2, PlacesFinite
<1> QED BY <1>2, <1>4, <1>5, <1>6, <1>7, <1>8, <1>9

----------------------------------------------------------------------------
(* What the steps do to the handlers and to the lists.                       *)

(* A list is as it was, is trimmed, or gets copies of one entry.             *)
Unchanged(r) == feeds'[r] = feeds[r]
TrimmedNow(r) == feeds'[r] = Trimmed(feeds[r])
PushedBy(t, r, n) ==
    /\ feeds'[r] = Copies(EntryOf(h[t].msg), n) \o feeds[r]
    /\ h[t].pc = "push" /\ r \in h[t].todo
    /\ \A x \in Readers \ {r} : Unchanged(x)

(* Only a delivery's own handler gives it the means to push: no step makes a *)
(* delivery that is through with a list take it up again.                    *)
LEMMA SpentGrows ==
    ASSUME IInv, [Next]_vars, NEW m \in Msgs, NEW r \in Readers
    PROVE  Spent(m, r) \subseteq Spent(m, r)' /\ Spent(m, r)' \subseteq Tags
<1> SUFFICES ASSUME NEW u \in Tags, h[u].msg = m, ~MayPush(u, r)
             PROVE  h'[u].msg = m /\ ~MayPush(u, r)'
  BY DEF Spent
<1>0. h \in [Tags -> Handler] /\ u <= tags /\ h[u].pc # "idle"
  BY DEF IInv, TypeOK, TagsInv, Idle
<1>1. CASE Publish \/ ChannelLost \/ BrokerRestart \/ Start \/ UNCHANGED vars
  BY <1>1 DEF Publish, ChannelLost, BrokerRestart, Start, vars, MayPush
<1>2. ASSUME NEW a \in Authors, NEW x \in Readers, Follow(a, x) \/ Unfollow(a, x)
      PROVE  h' = h
  BY <1>2 DEF Follow, Unfollow
<1>3. CASE Deliver
  <2>1. h'[u] = h[u]
    BY <1>0, <1>3 DEF Deliver, IInv, TypeOK
  <2> QED BY <2>1 DEF MayPush
<1>4. CASE Crash
  <2>1. h'[u].msg = h[u].msg /\ h'[u].pc = "done"
    BY <1>0, <1>4 DEF Crash, Handler
  <2> QED BY <2>1 DEF MayPush
<1>5. ASSUME NEW t \in Tags, HandlerStep(t) PROVE h'[u].msg = m /\ ~MayPush(u, r)'
  <2>1. CASE u # t
    <3>1. h'[u] = h[u]
      BY <1>0, <1>5, <2>1 DEF HandlerStep, Decode, LookupOk, LookupFailed, PushOk, PushFailed,
            OnPushError, Trim, Finish
    <3> QED BY <3>1 DEF MayPush
  <2>2. CASE u = t
    <3>1. h[t].pc \notin {"decode", "lookup"}
      BY <2>2 DEF MayPush
    <3>2. ASSUME NEW x \in Readers, PushOk(t, x) PROVE h'[u].msg = m /\ ~MayPush(u, r)'
      <4>1. h'[u].msg = h[u].msg /\ h'[u].pc = "trim" /\ h'[u].todo = h[u].todo \ {x}
        BY <1>0, <2>2, <3>2 DEF PushOk, Remaining, Handler
      <4> QED BY <3>2, <2>2, <4>1 DEF MayPush, PushOk
    <3>3. ASSUME NEW x \in Readers, PushFailed(t, x) PROVE h'[u].msg = m /\ ~MayPush(u, r)'
      <4>1. h'[u].msg = h[u].msg /\ h'[u].pc = "done"
        BY <1>0, <2>2, <3>3 DEF PushFailed, OnPushError, Handler
      <4> QED BY <4>1 DEF MayPush
    <3>4. ASSUME Trim(t) PROVE h'[u].msg = m /\ ~MayPush(u, r)'
      <4>1. h'[u].msg = h[u].msg /\ h'[u].pc = "push" /\ h'[u].todo = h[u].todo
        BY <1>0, <2>2, <3>4 DEF Trim, Handler
      <4> QED BY <2>2, <3>4, <4>1 DEF MayPush, Trim
    <3>5. ASSUME Finish(t) PROVE h'[u].msg = m /\ ~MayPush(u, r)'
      <4>1. h'[u].msg = h[u].msg /\ h'[u].pc = "done"
        BY <1>0, <2>2, <3>5 DEF Finish, Handler
      <4> QED BY <4>1 DEF MayPush
    <3> QED
      BY <1>5, <3>1, <3>2, <3>3, <3>4, <3>5 DEF HandlerStep, Decode, LookupOk, LookupFailed
  <2> QED BY <2>1, <2>2
<1> QED BY <1>1, <1>2, <1>3, <1>4, <1>5 DEF Next, MayPush

(* Every list changes by at most one LPUSH or LTRIM in a step.               *)
LEMMA ListSteps ==
    ASSUME IInv, [Next]_vars, NEW r \in Readers
    PROVE  \/ Unchanged(r) \/ TrimmedNow(r)
           \/ \E t \in Tags, n \in 0..(1 + Retries) :
                 PushedBy(t, r, n) /\ (PushOk(t, r) \/ PushFailed(t, r))
<1>0. feeds \in [Readers -> Seq(Entries)]
  BY DEF IInv, TypeOK
<1>1. CASE feeds' = feeds
  BY <1>1 DEF Unchanged
<1>2. ASSUME NEW t \in Tags, Trim(t) PROVE Unchanged(r) \/ TrimmedNow(r)
  BY <1>2 DEF Trim, Unchanged, TrimmedNow
<1>3. ASSUME NEW t \in Tags, NEW x \in Readers, NEW n \in 0..(1 + Retries),
             LPush(t, x, n), h[t].pc = "push", x \in h[t].todo
      PROVE  (x = r /\ PushedBy(t, r, n)) \/ Unchanged(r)
  <2>1. feeds' = [feeds EXCEPT ![x] = [i \in 1..n |-> EntryOf(h[t].msg)] \o feeds[x]]
    BY <1>3 DEF LPush
  <2>2. \A y \in Readers \ {x} : feeds'[y] = feeds[y]
    BY <1>0, <2>1
  <2>3. feeds'[x] = [i \in 1..n |-> EntryOf(h[t].msg)] \o feeds[x]
    BY <1>0, <2>1
  <2> QED BY <1>3, <2>2, <2>3 DEF PushedBy, Unchanged, Copies
<1>4. ASSUME NEW t \in Tags, NEW x \in Readers, PushOk(t, x) \/ PushFailed(t, x)
      PROVE  \/ Unchanged(r)
             \/ \E n \in 0..(1 + Retries) : PushedBy(t, r, n) /\ x = r
  <2>1. PICK n \in 0..(1 + Retries) : LPush(t, x, n)
    BY <1>4 DEF PushOk, PushFailed
  <2>2. h[t].pc = "push" /\ x \in h[t].todo
    BY <1>4 DEF PushOk, PushFailed
  <2> QED BY <1>3, <2>1, <2>2
<1>5. CASE \/ Publish \/ Deliver \/ Crash \/ ChannelLost \/ BrokerRestart \/ Start
          \/ UNCHANGED vars
  BY <1>1, <1>5 DEF Publish, Deliver, Crash, ChannelLost, BrokerRestart, Start, vars
<1>6. ASSUME NEW a \in Authors, NEW x \in Readers, Follow(a, x) \/ Unfollow(a, x)
      PROVE  feeds' = feeds
  BY <1>6 DEF Follow, Unfollow
<1>7. ASSUME NEW t \in Tags, HandlerStep(t)
      PROVE  \/ feeds' = feeds \/ Trim(t)
             \/ \E x \in Readers : PushOk(t, x) \/ PushFailed(t, x)
  BY <1>7 DEF HandlerStep, Decode, LookupOk, LookupFailed, Finish
<1> QED BY <1>1, <1>2, <1>4, <1>5, <1>6, <1>7 DEF Next

(* An LPUSH of so many copies makes the list so much longer.                 *)
LEMMA PushedLength ==
    ASSUME IInv, NEW r \in Readers, NEW t \in Tags, NEW n \in 0..(1 + Retries),
           PushedBy(t, r, n)
    PROVE  Len(feeds'[r]) = n + Len(feeds[r]) /\ n \in Nat
<1>1. PICK s \in Seq(Entries) : s = feeds[r]
  BY DEF IInv, TypeOK
<1>2. PICK x \in Entries : x = EntryOf(h[t].msg)
  <2>1. h[t].msg \in Msgs
    BY RunningFacts DEF PushedBy, Running
  <2> QED BY <2>1 DEF EntryOf
<1>3. PICK p : p = Copies(x, n) \o s
  OBVIOUS
<1>4. Len(p) = n + Len(s)
  <2>1. n \in Nat
    OBVIOUS
  <2>2. s \in Seq(Entries) /\ x \in Entries
    BY <1>1, <1>2
  <2>3. p \in Seq(Entries) /\ Len(p) = n + Len(s)
    BY ONLY <1>3, <2>1, <2>2, PushedFacts
  <2> QED BY <2>3
<1>5. feeds'[r] = p
  <2>1. feeds'[r] = Copies(EntryOf(h[t].msg), n) \o feeds[r]
    BY DEF PushedBy
  <2> QED BY <1>1, <1>2, <1>3, <2>1
<1> QED BY <1>1, <1>4, <1>5

----------------------------------------------------------------------------
(* Duplicates.                                                               *)

(* Empty lists hold nothing twice.                                           *)
LEMMA CopiesInit == Init => CopiesInv
<1> SUFFICES ASSUME Init, NEW r \in Readers, NEW m \in Msgs
             PROVE  Occurrences(m, feeds[r]) <= (1 + Retries) * Cardinality(Spent(m, r))
  BY DEF CopiesInv
<1>1. feeds[r] = << >>
  BY DEF Init
<1>2. PlacesOf(m, << >>) = {} /\ << >> \in Seq(Entries)
  BY DEF PlacesOf
<1>3. Occurrences(m, << >>) = 0
  BY <1>2, PlacesFinite, FS_EmptySet
<1>4. PICK c \in Nat : c = Cardinality(Spent(m, r))
  <2>1. Spent(m, r) \subseteq Tags
    BY DEF Spent
  <2> QED BY <2>1, TagSets
<1>5. (1 + Retries) * c \in Nat
  OBVIOUS
<1> QED BY <1>1, <1>3, <1>4, <1>5

(* A push spends the delivery for that list.                                 *)
LEMMA PushSpends ==
    ASSUME IInv, NEW r \in Readers, NEW t \in Tags, h[t].pc = "push", r \in h[t].todo,
           NEW m, m = h[t].msg, PushOk(t, r) \/ PushFailed(t, r)
    PROVE  t \notin Spent(m, r) /\ t \in Spent(m, r)'
<1>1. t \notin Spent(m, r)
  BY DEF Spent, MayPush
<1>2. h[t] \in Handler /\ h \in [Tags -> Handler]
  BY DEF IInv, TypeOK
<1>3. h'[t].msg = m /\ ~MayPush(t, r)'
  <2>1. CASE PushOk(t, r)
    <3>1. h'[t].msg = m /\ h'[t].pc = "trim" /\ r \notin h'[t].todo
      BY <1>2, <2>1 DEF PushOk, Remaining, Handler
    <3> QED BY <3>1 DEF MayPush
  <2>2. CASE PushFailed(t, r)
    <3>1. h'[t].msg = m /\ h'[t].pc = "done"
      BY <1>2, <2>2 DEF PushFailed, OnPushError, Handler
    <3> QED BY <3>1 DEF MayPush
  <2> QED BY <2>1, <2>2
<1> QED BY <1>1, <1>3 DEF Spent

(* Every step keeps CopiesInv: what an LPUSH adds, a spent delivery pays for. *)
LEMMA CopiesStep == IInv /\ CopiesInv /\ [Next]_vars => CopiesInv'
<1> SUFFICES ASSUME IInv, CopiesInv, [Next]_vars, NEW r \in Readers, NEW m \in Msgs
             PROVE  Occurrences(m, feeds'[r]) <= (1 + Retries) * Cardinality(Spent(m, r)')
  BY DEF CopiesInv
<1>1. PICK s \in Seq(Entries) : s = feeds[r]
  BY DEF IInv, TypeOK
<1>2. PICK s2 : s2 = feeds'[r]
  OBVIOUS
<1>3. PICK A : A = Spent(m, r)
  OBVIOUS
<1>4. PICK B : B = Spent(m, r)'
  OBVIOUS
<1>5. A \subseteq B /\ B \subseteq Tags
  BY <1>3, <1>4, SpentGrows
<1>6. /\ Cardinality(A) \in Nat /\ Cardinality(B) \in Nat /\ Cardinality(A) <= Cardinality(B)
      /\ IsFiniteSet(A) /\ IsFiniteSet(B)
  BY <1>5, TagSets, FS_Subset
<1> DEFINE K == 1 + Retries
<1>7. K \in Nat
  OBVIOUS
<1> HIDE DEF K
<1>8. /\ K * Cardinality(A) \in Nat /\ K * Cardinality(B) \in Nat
      /\ K * Cardinality(A) <= K * Cardinality(B)
  BY <1>6, <1>7, TimesMonotone
<1>9. Occurrences(m, s) <= K * Cardinality(A) /\ Occurrences(m, s) \in Nat /\ m \in Entries
  BY <1>1, <1>3, PlacesFinite DEF CopiesInv, K
<1> SUFFICES Occurrences(m, s2) <= K * Cardinality(B)
  BY <1>2, <1>4 DEF K
<1>10. CASE Unchanged(r)
  BY <1>1, <1>2, <1>8, <1>9, <1>10 DEF Unchanged
<1>11. CASE TrimmedNow(r)
  <2>1. s2 = Trimmed(s)
    BY <1>1, <1>2, <1>11 DEF TrimmedNow
  <2>2. Occurrences(m, s2) <= Occurrences(m, s) /\ Occurrences(m, s2) \in Nat
    BY <1>1, <2>1, TrimmedFacts, PlacesFinite
  <2> QED BY <1>8, <1>9, <2>2
<1>12. ASSUME NEW t \in Tags, NEW n \in 0..(1 + Retries), PushedBy(t, r, n),
              PushOk(t, r) \/ PushFailed(t, r)
       PROVE  Occurrences(m, s2) <= K * Cardinality(B)
  <2>1. PICK x : x = EntryOf(h[t].msg)
    OBVIOUS
  <2>2. h[t].pc = "push" /\ r \in h[t].todo
    BY <1>12 DEF PushedBy
  <2>3. h[t].msg \in Msgs
    BY <2>2, RunningFacts DEF Running
  <2>4. x \in Entries /\ (x = m => h[t].msg = m)
    BY <2>1, <2>3 DEF EntryOf
  <2>5. s2 = Copies(x, n) \o s
    BY <1>1, <1>2, <1>12, <2>1 DEF PushedBy, Copies
  <2>6. n \in Nat /\ n <= K
    BY DEF K
  <2>7. /\ s2 \in Seq(Entries)
        /\ Occurrences(m, s2) <= n + Occurrences(m, s)
        /\ x # m => Occurrences(m, s2) <= Occurrences(m, s)
    <3>1. m \in Entries BY <1>9
    <3>2. s \in Seq(Entries) BY <1>1
    <3>3. x \in Entries BY <2>4
    <3>4. n \in Nat BY <2>6
    <3>5. /\ s2 \in Seq(Entries) /\ Len(s2) = n + Len(s)
          /\ Occurrences(m, s2) <= n + Occurrences(m, s)
          /\ x # m => Occurrences(m, s2) <= Occurrences(m, s)
      BY ONLY <3>1, <3>2, <3>3, <3>4, <2>5, PushedFacts
    <3> QED BY <3>5
  <2>8. Occurrences(m, s2) \in Nat
    BY <2>7, PlacesFinite
  <2>9. CASE x # m
    BY <1>8, <1>9, <2>7, <2>8, <2>9
  <2>10. CASE x = m
    <3>1. t \notin A /\ t \in B
      BY <1>3, <1>4, <1>12, <2>2, <2>4, <2>10, PushSpends
    <3>2. PICK C : C = A \union {t}
      OBVIOUS
    <3>3. Cardinality(C) = Cardinality(A) + 1
      BY <1>6, <3>1, <3>2, FS_AddElement
    <3>4. C \subseteq B /\ Cardinality(C) <= Cardinality(B)
      BY <1>5, <1>6, <3>1, <3>2, FS_Subset
    <3>5. K * Cardinality(C) = K * Cardinality(A) + K
      BY <1>6, <1>7, <3>3, TimesNext
    <3>6. Cardinality(C) \in Nat
      BY <1>6, <3>3
    <3>7. K * Cardinality(C) <= K * Cardinality(B) /\ K * Cardinality(C) \in Nat
      BY <1>6, <1>7, <3>4, <3>6, TimesMonotone
    <3> QED BY <1>7, <1>8, <1>9, <2>6, <2>7, <2>8, <3>5, <3>7
  <2> QED BY <2>9, <2>10
<1> QED BY <1>10, <1>11, <1>12, ListSteps

(* A feed holds a tweet at most as often as its message was delivered, times *)
(* the times the Redis client may have sent each LPUSH.                      *)
THEOREM DuplicatesCounted == Spec => []DuplicatesNeedRedelivery
<1>1. Spec => []CopiesInv
  BY CopiesInit, CopiesStep, Invariance, PTL DEF Spec
<1>2. IInv /\ CopiesInv => DuplicatesNeedRedelivery
  <2> SUFFICES ASSUME IInv, CopiesInv, NEW r \in Readers, NEW m \in Msgs
               PROVE  Occurrences(m, feeds[r]) <= (1 + Retries) * Cardinality(DeliveriesOf(m))
    BY DEF DuplicatesNeedRedelivery
  <2>1. Spent(m, r) \subseteq DeliveriesOf(m) /\ DeliveriesOf(m) \subseteq Tags
    BY DEF IInv, TypeOK, TagsInv, Idle, Spent, DeliveriesOf
  <2>2. PICK a \in Nat, b \in Nat :
           a = Cardinality(Spent(m, r)) /\ b = Cardinality(DeliveriesOf(m)) /\ a <= b
    BY <2>1, TagSets, FS_Subset
  <2>3. (1 + Retries) * a \in Nat /\ (1 + Retries) * b \in Nat
        /\ (1 + Retries) * a <= (1 + Retries) * b
    BY <2>2, TimesMonotone, 1 + Retries \in Nat
  <2>4. Occurrences(m, feeds[r]) \in Nat
    BY PlacesFinite DEF IInv, TypeOK
  <2>5. Occurrences(m, feeds[r]) <= (1 + Retries) * a
    BY <2>2 DEF CopiesInv
  <2> HIDE DEF DuplicatesNeedRedelivery
  <2>6. Occurrences(m, feeds[r]) <= (1 + Retries) * b
    BY <2>3, <2>4, <2>5
  <2> QED BY <2>2, <2>6
<1> QED BY <1>1, <1>2, Invariance, PTL

----------------------------------------------------------------------------
(* Length.                                                                   *)

(* Empty lists are within the cap.                                           *)
LEMMA LengthInit == Init => FeedBounded
<1> SUFFICES ASSUME Init, NEW r \in Readers
             PROVE  Len(feeds[r]) <= FeedCap + (1 + Retries) * (Cardinality(Untrimmed(r)) + faults)
  BY DEF FeedBounded
<1>1. PICK c \in Nat : c = Cardinality(Untrimmed(r))
  <2>1. Untrimmed(r) \subseteq Tags
    BY DEF Untrimmed
  <2> QED BY <2>1, TagSets
<1>2. Len(feeds[r]) = 0 /\ faults = 0
  BY DEF Init
<1>3. (1 + Retries) * (c + 0) \in Nat
  OBVIOUS
<1> QED BY <1>1, <1>2, <1>3

(* A handler that owes a list its LTRIM owes it until it has trimmed the     *)
(* list, died or not; if its LTRIM fails, that is counted as a fault.        *)
LEMMA TrimmersStay ==
    ASSUME IInv, [Next]_vars, NEW r \in Readers, ~TrimmedNow(r)
    PROVE  \/ Untrimmed(r) \subseteq Untrimmed(r)'
           \/ /\ \E t \in Tags : Untrimmed(r) \ {t} \subseteq Untrimmed(r)'
              /\ faults' = faults + 1 /\ feeds' = feeds
<1>0. h \in [Tags -> Handler]
      /\ \A u \in Untrimmed(r) : u \in Tags /\ u <= tags /\ h[u].pc \in {"trim", "done"}
  BY DEF IInv, TypeOK, TagsInv, Idle, Untrimmed
<1>1. CASE Publish \/ ChannelLost \/ BrokerRestart \/ Start \/ UNCHANGED vars
  <2>1. h' = h
    BY <1>1 DEF Publish, ChannelLost, BrokerRestart, Start, vars
  <2> QED BY <2>1 DEF Untrimmed
<1>2. ASSUME NEW a \in Authors, NEW x \in Readers, Follow(a, x) \/ Unfollow(a, x)
      PROVE  Untrimmed(r) \subseteq Untrimmed(r)'
  BY <1>2 DEF Follow, Unfollow, Untrimmed
<1>3. CASE Deliver
  <2>1. \A u \in Untrimmed(r) : h'[u] = h[u]
    BY <1>0, <1>3 DEF Deliver, IInv, TypeOK
  <2> QED BY <2>1 DEF Untrimmed
<1>4. CASE Crash
  <2>1. ASSUME NEW u \in Untrimmed(r) PROVE h'[u].pc = "done" /\ h'[u].cur = h[u].cur
    BY <1>0, <1>4, <2>1 DEF Crash, Handler
  <2> QED BY <2>1 DEF Untrimmed
<1>5. ASSUME NEW t \in Tags, HandlerStep(t)
      PROVE  \/ Untrimmed(r) \subseteq Untrimmed(r)'
             \/ /\ Untrimmed(r) \ {t} \subseteq Untrimmed(r)'
                /\ faults' = faults + 1 /\ feeds' = feeds
  <2>1. \A u \in Tags \ {t} : h'[u] = h[u]
    BY <1>0, <1>5 DEF HandlerStep, Decode, LookupOk, LookupFailed, PushOk, PushFailed,
       OnPushError, Trim, Finish
  <2>2. Untrimmed(r) \ {t} \subseteq Untrimmed(r)'
    BY <2>1 DEF Untrimmed
  <2>3. CASE t \notin Untrimmed(r)
    BY <2>2, <2>3
  <2>4. CASE t \in Untrimmed(r)
    <3>1. Trim(t) /\ r \in h[t].cur
      BY <1>0, <1>5, <2>4 DEF HandlerStep, Decode, LookupOk, LookupFailed, PushOk, PushFailed,
         Finish, Untrimmed
    <3>2. CASE Fault("ltrim") /\ UNCHANGED feeds
      BY <2>2, <3>2 DEF Fault
    <3>3. CASE feeds' = [x \in Readers |-> IF x \in h[t].cur THEN Trimmed(feeds[x]) ELSE feeds[x]]
      <4>1. feeds'[r] = Trimmed(feeds[r])
        BY <3>1, <3>3
      <4> QED BY <4>1 DEF TrimmedNow
    <3> QED BY <3>1, <3>2, <3>3, Zenon DEF Trim
  <2> QED BY <2>3, <2>4
<1> QED BY <1>1, <1>2, <1>3, <1>4, <1>5 DEF Next

(* Faults are counted up, never down.                                        *)
LEMMA FaultsGrow ==
    ASSUME IInv, [Next]_vars
    PROVE  faults \in Nat /\ faults' \in Nat /\ faults <= faults'
<1>1. faults \in Nat
  BY DEF IInv, TypeOK
<1>2. faults' \in {faults, faults + 1}
  <2>1. CASE \/ Publish \/ Deliver \/ Start \/ Crash \/ ChannelLost \/ BrokerRestart
             \/ UNCHANGED vars
    BY <2>1 DEF Publish, Deliver, Start, Crash, ChannelLost, BrokerRestart, Fault, vars
  <2>2. ASSUME NEW a \in Authors, NEW x \in Readers, Follow(a, x) \/ Unfollow(a, x)
        PROVE  faults' = faults
    BY <2>2 DEF Follow, Unfollow
  <2>3. ASSUME NEW t \in Tags, HandlerStep(t) PROVE faults' \in {faults, faults + 1}
    BY <2>3 DEF HandlerStep, Decode, LookupOk, LookupFailed, PushOk, PushFailed, Trim, Finish,
       Fault
  <2> QED BY <2>1, <2>2, <2>3 DEF Next
<1> QED BY <1>1, <1>2

(* Every step keeps FeedBounded: an LPUSH leaves somebody who owes an LTRIM  *)
(* behind, or a fault.                                                       *)
LEMMA LengthStep == IInv /\ FeedBounded /\ [Next]_vars => FeedBounded'
<1> SUFFICES ASSUME IInv, FeedBounded, [Next]_vars, NEW r \in Readers
             PROVE  Len(feeds'[r]) <=
                        FeedCap + (1 + Retries) * (Cardinality(Untrimmed(r)') + faults')
  BY DEF FeedBounded
<1>1. PICK s \in Seq(Entries) : s = feeds[r]
  BY DEF IInv, TypeOK
<1>2. PICK s2 : s2 = feeds'[r]
  OBVIOUS
<1>3. PICK A : A = Untrimmed(r)
  OBVIOUS
<1>4. PICK B : B = Untrimmed(r)'
  OBVIOUS
<1>5. PICK f \in Nat, g \in Nat : f = faults /\ g = faults' /\ f <= g
  BY FaultsGrow
<1>6. /\ A \subseteq Tags /\ B \subseteq Tags
      /\ \/ TrimmedNow(r) \/ A \subseteq B
         \/ (\E t \in Tags : A \ {t} \subseteq B) /\ g = f + 1 /\ Unchanged(r)
  BY <1>3, <1>4, <1>5, TrimmersStay DEF Untrimmed, Unchanged
<1>7. /\ IsFiniteSet(A) /\ IsFiniteSet(B)
      /\ Cardinality(A) \in Nat /\ Cardinality(B) \in Nat
  BY <1>6, TagSets
<1>8. PICK a \in Nat, b \in Nat : a = Cardinality(A) /\ b = Cardinality(B)
  BY <1>7
<1> DEFINE K == 1 + Retries
<1>9. K \in Nat
  OBVIOUS
<1>10. Len(s) <= FeedCap + K * (a + f) /\ Len(s) \in Nat
  BY <1>1, <1>3, <1>5, <1>8 DEF FeedBounded
<1> HIDE DEF K
<1>11. K * (a + f) \in Nat /\ K * (b + g) \in Nat /\ (a + f <= b + g => K * (a + f) <= K * (b + g))
  BY <1>9, TimesMonotone
<1> SUFFICES Len(s2) <= FeedCap + K * (b + g)
  BY <1>2, <1>4, <1>5, <1>8 DEF K
<1>12. CASE TrimmedNow(r)
  <2>1. s2 = Trimmed(s)
    BY <1>1, <1>2, <1>12 DEF TrimmedNow
  <2>2. /\ Trimmed(s) \in Seq(Entries) /\ Len(Trimmed(s)) <= FeedCap
        /\ Occurrences(EmptyId, Trimmed(s)) <= Occurrences(EmptyId, s)
    BY ONLY s \in Seq(Entries), TrimmedFacts
  <2>3. Len(s2) <= FeedCap /\ Len(s2) \in Nat
    BY <2>1, <2>2
  <2> QED BY <1>11, <2>3
<1>13. CASE Unchanged(r) /\ ~TrimmedNow(r)
  <2>1. s2 = s
    BY <1>1, <1>2, <1>13 DEF Unchanged
  <2>2. CASE A \subseteq B
    <3>1. a <= b
      BY <1>7, <1>8, <2>2, FS_Subset
    <3>2. f <= g
      BY <1>5
    <3>3. a + f <= b + g
      BY <3>1, <3>2
    <3> QED BY <1>10, <1>11, <2>1, <3>3
  <2>3. ASSUME NEW t \in Tags, A \ {t} \subseteq B, g = f + 1
        PROVE  Len(s2) <= FeedCap + K * (b + g)
    <3>1. PICK C : C = A \ {t}
      OBVIOUS
    <3>2. a <= Cardinality(C) + 1 /\ Cardinality(C) \in Nat
      <4>1. Cardinality(C) \in Nat
        BY <1>6, <3>1, TagSets
      <4>2. Cardinality(C) = IF t \in A THEN Cardinality(A) - 1 ELSE Cardinality(A)
        BY <1>7, <3>1, FS_RemoveElement
      <4> QED BY <1>8, <4>1, <4>2
    <3>3. Cardinality(C) <= b
      BY <1>7, <1>8, <2>3, <3>1, FS_Subset
    <3>4. a + f <= b + g
      BY <1>5, <2>3, <3>2, <3>3
    <3> QED BY <1>10, <1>11, <2>1, <3>4
  <2> QED BY <1>6, <1>13, <2>2, <2>3
<1>14. ASSUME NEW t \in Tags, NEW n \in 0..(1 + Retries), PushedBy(t, r, n),
              PushOk(t, r) \/ PushFailed(t, r), ~TrimmedNow(r), ~Unchanged(r)
       PROVE  Len(s2) <= FeedCap + K * (b + g)
  <2>1. A \subseteq B /\ a <= b
    <3>1. A \subseteq B
      BY <1>6, <1>14
    <3> QED BY <1>7, <1>8, <3>1, FS_Subset
  <2>2. h[t].pc = "push" /\ r \in h[t].todo
    BY <1>14 DEF PushedBy
  <2>3. n \in Nat /\ n <= K
    BY DEF K
  <2>4. Len(s2) = n + Len(s)
    BY <1>1, <1>2, <1>14, PushedLength
  <2>5. a + f + 1 <= b + g
    <3>1. CASE PushFailed(t, r)
      BY <1>5, <2>1, <3>1 DEF PushFailed, Fault
    <3>2. CASE PushOk(t, r)
      <4>1. t \notin A
        BY <1>3, <2>2 DEF Untrimmed
      <4>2. h'[t].pc = "trim" /\ h'[t].cur = {r}
        BY <3>2 DEF PushOk, IInv, TypeOK, Handler
      <4>3. t \in B
        BY <1>4, <4>2 DEF Untrimmed
      <4>4. PICK C : C = A \union {t}
        OBVIOUS
      <4>5. Cardinality(C) = a + 1
        BY <1>7, <1>8, <4>1, <4>4, FS_AddElement
      <4>6. C \subseteq B
        BY <2>1, <4>3, <4>4
      <4>7. Cardinality(C) <= Cardinality(B)
        BY <1>7, <4>6, FS_Subset
      <4> QED BY <1>5, <1>8, <4>5, <4>7
    <3> QED BY <1>14, <3>1, <3>2
  <2>6. K * (a + f + 1) \in Nat /\ K * (a + f + 1) <= K * (b + g)
    BY <1>9, <2>5, TimesMonotone
  <2>7. K * (a + f + 1) = K * (a + f) + K
    BY <1>9, TimesNext
  <2> QED BY <1>9, <1>10, <1>11, <2>3, <2>4, <2>6, <2>7
<1> QED BY <1>12, <1>13, <1>14, ListSteps

(* A feed is over its cap only by the pushes whose LTRIM is still to come,   *)
(* failed, or died with its handler, and by pushes that failed.              *)
THEOREM FeedsBounded == Spec => []FeedBounded
BY LengthInit, LengthStep, Invariance, PTL DEF Spec

----------------------------------------------------------------------------
(* What readers of the lists rely on.                                        *)

(* The deliveries which are through with the list of a reader.               *)
AllSpent(r) == {t \in Tags : h[t].msg \in Msgs /\ ~MayPush(t, r)}

(* A delivery pushes to a list once at most.                                 *)
TotalInv ==
    \A r \in Readers : Len(feeds[r]) <= (1 + Retries) * Cardinality(AllSpent(r))

(* Empty lists have had no pushes.                                           *)
LEMMA TotalInit == Init => TotalInv
<1> SUFFICES ASSUME Init, NEW r \in Readers
             PROVE  Len(feeds[r]) <= (1 + Retries) * Cardinality(AllSpent(r))
  BY DEF TotalInv
<1>1. Len(feeds[r]) = 0
  BY DEF Init
<1>2. PICK c \in Nat : c = Cardinality(AllSpent(r))
  <2>1. AllSpent(r) \subseteq Tags
    BY DEF AllSpent
  <2> QED BY <2>1, TagSets
<1>3. (1 + Retries) * c \in Nat
  OBVIOUS
<1> QED BY <1>1, <1>2, <1>3

(* Every step keeps TotalInv: a push spends its delivery for that list.      *)
LEMMA TotalStep == IInv /\ TotalInv /\ [Next]_vars => TotalInv'
<1> SUFFICES ASSUME IInv, TotalInv, [Next]_vars, NEW r \in Readers
             PROVE  Len(feeds'[r]) <= (1 + Retries) * Cardinality(AllSpent(r)')
  BY DEF TotalInv
<1>1. PICK s \in Seq(Entries) : s = feeds[r]
  BY DEF IInv, TypeOK
<1>2. PICK s2 : s2 = feeds'[r]
  OBVIOUS
<1>3. PICK A : A = AllSpent(r)
  OBVIOUS
<1>4. PICK B : B = AllSpent(r)'
  OBVIOUS
<1>5. A \subseteq B /\ B \subseteq Tags
  <2>1. \A m \in Msgs : Spent(m, r) \subseteq Spent(m, r)'
    BY SpentGrows
  <2>2. ASSUME NEW t \in Tags, h[t].msg \in Msgs, ~MayPush(t, r)
        PROVE  t \in AllSpent(r)'
    <3>1. PICK m \in Msgs : m = h[t].msg
      BY <2>2
    <3>2. t \in Spent(m, r)'
      BY <2>1, <2>2, <3>1 DEF Spent
    <3> QED BY <3>2 DEF Spent, AllSpent
  <2> QED BY <1>3, <1>4, <2>2 DEF AllSpent
<1>6. /\ Cardinality(A) \in Nat /\ Cardinality(B) \in Nat /\ Cardinality(A) <= Cardinality(B)
      /\ IsFiniteSet(A) /\ IsFiniteSet(B)
  BY <1>5, TagSets, FS_Subset
<1> DEFINE K == 1 + Retries
<1>7. K \in Nat
  OBVIOUS
<1>8. Len(s) <= K * Cardinality(A) /\ Len(s) \in Nat
  BY <1>1, <1>3 DEF TotalInv
<1> HIDE DEF K
<1>9. /\ K * Cardinality(A) \in Nat /\ K * Cardinality(B) \in Nat
      /\ K * Cardinality(A) <= K * Cardinality(B)
  BY <1>6, <1>7, TimesMonotone
<1> SUFFICES Len(s2) <= K * Cardinality(B)
  BY <1>2, <1>4 DEF K
<1>10. CASE Unchanged(r)
  BY <1>1, <1>2, <1>8, <1>9, <1>10 DEF Unchanged
<1>11. CASE TrimmedNow(r)
  <2>1. s2 = Trimmed(s)
    BY <1>1, <1>2, <1>11 DEF TrimmedNow
  <2>2. Len(s2) <= Len(s) /\ Len(s2) \in Nat
    BY <1>8, <2>1 DEF Trimmed
  <2> QED BY <1>8, <1>9, <2>2
<1>12. ASSUME NEW t \in Tags, NEW n \in 0..(1 + Retries), PushedBy(t, r, n),
              PushOk(t, r) \/ PushFailed(t, r)
       PROVE  Len(s2) <= K * Cardinality(B)
  <2>1. PICK m : m = h[t].msg
    OBVIOUS
  <2>2. h[t].pc = "push" /\ r \in h[t].todo /\ m \in Msgs
    BY <1>12, <2>1, RunningFacts DEF PushedBy, Running
  <2>3. Len(s2) = n + Len(s) /\ n \in Nat /\ n <= K
    BY <1>1, <1>2, <1>12, PushedLength DEF K
  <2>4. t \notin A
    BY <1>3, <2>2 DEF AllSpent, MayPush
  <2>5. t \in B
    <3>1. t \in Spent(m, r)'
      BY <1>12, <2>1, <2>2, PushSpends
    <3> QED BY <1>4, <2>2, <3>1 DEF Spent, AllSpent
  <2>6. PICK C : C = A \union {t}
    OBVIOUS
  <2>7. Cardinality(C) = Cardinality(A) + 1
    BY <1>6, <2>4, <2>6, FS_AddElement
  <2>8. Cardinality(C) <= Cardinality(B)
    BY <1>5, <1>6, <2>5, <2>6, FS_Subset
  <2>9. K * Cardinality(C) = K * Cardinality(A) + K
    BY <1>6, <1>7, <2>7, TimesNext
  <2>10. K * Cardinality(C) <= K * Cardinality(B) /\ K * Cardinality(C) \in Nat
    BY <1>6, <1>7, <2>7, <2>8, TimesMonotone
  <2> QED BY <1>7, <1>8, <1>9, <2>3, <2>9, <2>10
<1> QED BY <1>10, <1>11, <1>12, ListSteps

(* After a step, no list is longer than all deliveries may make it.          *)
LEMMA TotalBound ==
    ASSUME IInv', TotalInv', NEW r \in Readers
    PROVE  Len(feeds'[r]) <= (1 + Retries) * MaxTags /\ (1 + Retries) * MaxTags \in Nat
<1>1. PICK c \in Nat : c = Cardinality(AllSpent(r)') /\ c <= MaxTags
  <2>1. IsFiniteSet(Tags) /\ Cardinality(Tags) = MaxTags
    <3>1. IsFiniteSet(1..MaxTags)
          /\ Cardinality(1..MaxTags) = IF 1 <= MaxTags THEN MaxTags - 1 + 1 ELSE 0
      BY FS_Interval
    <3> QED BY <3>1
  <2>2. PICK B : B = AllSpent(r)'
    OBVIOUS
  <2>3. B \subseteq Tags
    BY <2>2 DEF AllSpent
  <2>4. Cardinality(B) \in Nat /\ Cardinality(B) <= Cardinality(Tags)
    BY <2>1, <2>3, TagSets, FS_Subset
  <2> QED BY <2>1, <2>2, <2>4
<1>2. /\ (1 + Retries) * c \in Nat /\ (1 + Retries) * MaxTags \in Nat
      /\ (1 + Retries) * c <= (1 + Retries) * MaxTags
  BY <1>1, TimesMonotone, 1 + Retries \in Nat
<1>3. Len(feeds'[r]) <= (1 + Retries) * c /\ Len(feeds'[r]) \in Nat
  BY <1>1 DEF TotalInv, IInv, TypeOK
<1> QED BY <1>2, <1>3

(* A step pushes at the front of a list, trims it at its end, or leaves it.  *)
LEMMA ListKept ==
    ASSUME IInv, TotalInv, [Next]_vars, IInv', TotalInv', NEW r \in Readers
    PROVE  UNCHANGED feeds[r] \/ List(r)!Next
<1>1. PICK s \in Seq(Entries) : s = feeds[r]
  BY DEF IInv, TypeOK
<1>2. CASE TrimmedNow(r)
  <2>1. CASE Len(s) > FeedCap
    BY <1>1, <1>2, <2>1 DEF TrimmedNow, Trimmed, List!Next, List!Trim
  <2>2. CASE ~(Len(s) > FeedCap)
    BY <1>1, <1>2, <2>2 DEF TrimmedNow, Trimmed
  <2> QED BY <2>1, <2>2
<1>3. ASSUME NEW t \in Tags, NEW n \in 0..(1 + Retries), PushedBy(t, r, n)
      PROVE  UNCHANGED feeds[r] \/ List(r)!Next
  <2>1. PICK x \in Entries : x = EntryOf(h[t].msg)
    <3>1. h[t].msg \in Msgs
      BY <1>3, RunningFacts DEF PushedBy, Running
    <3> QED BY <3>1 DEF EntryOf
  <2>2. feeds'[r] = [i \in 1..n |-> x] \o s
    BY <1>1, <1>3, <2>1 DEF PushedBy, Copies
  <2>3. Len(feeds'[r]) = n + Len(s) /\ n \in Nat /\ Len(s) \in Nat
    BY <1>1, <1>3, PushedLength
  <2>4. CASE n = 0
    <3>1. PICK u : u = [i \in 1..n |-> x]
      OBVIOUS
    <3>2. u = << >>
      <4>1. u \in Seq(Entries) /\ Len(u) = 0
        BY <2>4, <3>1
      <4> QED BY ONLY <4>1, EmptySeq
    <3>3. << >> \o s = s
      BY ONLY <1>1, ConcatEmptySeq
    <3>4. feeds'[r] = feeds[r]
      BY <1>1, <2>2, <3>1, <3>2, <3>3
    <3> QED BY <3>4
  <2>5. CASE n # 0
    <3>1. Len(feeds'[r]) <= (1 + Retries) * MaxTags /\ (1 + Retries) * MaxTags \in Nat
      BY TotalBound
    <3>2. n \in 1..((1 + Retries) * MaxTags) /\ Len(s) + n <= (1 + Retries) * MaxTags
      BY <2>3, <2>5, <3>1
    <3>3. List(r)!Push(x, n)
      BY <1>1, <2>2, <3>2 DEF List!Push
    <3> QED BY <2>1, <3>2, <3>3 DEF List!Next
  <2> QED BY <2>4, <2>5
<1> QED BY <1>2, <1>3, ListSteps DEF Unchanged

(* Every list is what FeedList promises to those who page through it.        *)
THEOREM ListsKept == Spec => FeedListSpec
<1>1. Spec => []TotalInv
  BY TotalInit, TotalStep, Invariance, PTL DEF Spec
<1>2. Init => \A r \in Readers : List(r)!Init
  BY DEF Init, List!Init
<1>3. IInv /\ TotalInv /\ [Next]_vars /\ IInv' /\ TotalInv' =>
         [\A r \in Readers : UNCHANGED feeds[r] \/ List(r)!Next]_feeds
  BY ListKept
<1> QED BY <1>1, <1>2, <1>3, Invariance, PTL DEF Spec, FeedListSpec
=============================================================================
