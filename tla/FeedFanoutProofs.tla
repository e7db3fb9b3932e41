-------------------------- MODULE FeedFanoutProofs --------------------------
(* Proofs about FeedFanout, for every value of its constants.                *)
EXTENDS FeedFanout, SequenceTheorems, TLAPS

(* The inductive invariant.  A handler runs between its delivery and its     *)
(* return.                                                                   *)
Running(t) == h[t].pc \in {"decode", "lookup", "push", "trim"}

(* A delivered tag carries a published message, the other tags are unused.   *)
TagsInv ==
    \A t \in Tags :
        /\ t <= tags => h[t].pc # "idle" /\ h[t].msg \in 1..published
        /\ t > tags => h[t] = Idle

(* An outstanding tag has a running handler, and the channel is open; a dead *)
(* worker has no channel and no running handler.                             *)
ChannelInv ==
    /\ unacked # {} => open
    /\ \A t \in unacked : Running(t)
    /\ ~alive => ~open /\ \A t \in Tags : ~Running(t)

(* A running handler whose tag is settled got a body it could not decode, or *)
(* its channel is closed.                                                    *)
SettledInv ==
    /\ \A t \in Tags : Running(t) /\ open /\ t \notin unacked => body[h[t].msg] # "tweet"
    /\ \A t \in unacked : body[h[t].msg] # "tweet" => h[t].pc = "decode"

(* While a message is pending, the followers of the moment lie between the   *)
(* steady and the past ones.                                                 *)
AudienceInv ==
    /\ \A m \in Pending :
          /\ steady[m] \subseteq followers[author[m]]
          /\ followers[author[m]] \subseteq ever[m]
    /\ \A m \in Msgs : m > published => ever[m] = {}

(* What a running handler of a tweet has still to do, and has done.          *)
HandlerInv ==
    \A t \in Tags : Running(t) /\ body[h[t].msg] = "tweet" =>
        /\ h[t].msg \notin acked
        /\ h[t].todo \subseteq ever[h[t].msg]
        /\ h[t].ok /\ h[t].pc \in {"push", "trim"} =>
              steady[h[t].msg] \ h[t].todo \subseteq ReachedBy(h[t].msg)

(* Before the lookup there is nothing to push.                               *)
LookupInv ==
    \A t \in Tags : h[t].pc \in {"decode", "lookup"} => ~h[t].ok /\ h[t].todo = {}

IInv ==
    /\ TypeOK
    /\ TagsInv
    /\ OnePlace
    /\ ChannelInv
    /\ SettledInv
    /\ BadBodyNeverAcked
    /\ AudienceInv
    /\ HandlerInv
    /\ LookupInv
    /\ SteadyFollowersReached
    /\ OnlyFollowersReached

----------------------------------------------------------------------------
USE FanoutAssumption DEF Msgs, Tags, Entries, EmptyId

(* The inductive invariant holds before anything is published.               *)
LEMMA InitIInv == Init => IInv
<1> SUFFICES ASSUME Init PROVE IInv
  OBVIOUS
<1>1. TypeOK
  BY DEF Init, TypeOK, Handler, Idle
<1>2. Pending = {} /\ MsgsOf(unacked) = {} /\ (\A t \in Tags : ~Running(t) /\ t > tags)
  BY DEF Init, Pending, MsgsOf, Running, Idle
<1>3. TagsInv /\ OnePlace
  BY <1>2 DEF Init, TagsInv, OnePlace
<1>4. ChannelInv /\ SettledInv /\ AudienceInv /\ HandlerInv /\ LookupInv
  BY <1>2 DEF Init, ChannelInv, SettledInv, AudienceInv, HandlerInv, LookupInv, Idle
<1>5. BadBodyNeverAcked /\ SteadyFollowersReached /\ OnlyFollowersReached
  BY DEF Init, BadBodyNeverAcked, SteadyFollowersReached, OnlyFollowersReached, ReachedBy
<1> QED BY <1>1, <1>3, <1>4, <1>5 DEF IInv

(* A publication keeps the invariant: the new message waits in the queue,    *)
(* its audience is the followers of that moment.                             *)
LEMMA PublishStep == IInv /\ Publish => IInv'
<1> SUFFICES ASSUME IInv, Publish PROVE IInv'
  OBVIOUS
<1> DEFINE new == published + 1
<1>0. /\ new \in Msgs /\ new \notin 1..published /\ 1..published' = (1..published) \union {new}
      /\ TypeOK
  BY DEF Publish, IInv, TypeOK
<1>1. TypeOK'
  BY <1>0 DEF Publish, TypeOK
<1>2. /\ MsgsOf(unacked)' = MsgsOf(unacked) /\ Pending' = Pending \union {new}
      /\ new \notin acked
  BY <1>0 DEF Publish, MsgsOf, Pending, IInv, OnePlace
<1>3. TagsInv'
  BY <1>0 DEF Publish, IInv, TagsInv
<1>4. OnePlace'
  BY <1>0, <1>2 DEF Publish, IInv, OnePlace
<1>5. ChannelInv' /\ LookupInv' /\ SettledInv' /\ BadBodyNeverAcked'
  BY <1>0 DEF Publish, IInv, ChannelInv, LookupInv, SettledInv,
              BadBodyNeverAcked, Running
<1>6. AudienceInv'
  BY <1>0, <1>2 DEF Publish, IInv, AudienceInv, TypeOK
<1>7. \A m \in Msgs \ {new} : steady'[m] = steady[m] /\ ever'[m] = ever[m]
  BY <1>0 DEF Publish, TypeOK
<1>8. HandlerInv'
  <2>1. \A t \in Tags : Running(t) => h[t].msg \in 1..published
    BY <1>0 DEF IInv, TagsInv, TypeOK, Running, Idle
  <2> QED
    BY <1>0, <1>7, <2>1 DEF Publish, IInv, HandlerInv, Running, ReachedBy, TypeOK
<1>9. SteadyFollowersReached'
  BY <1>0, <1>2, <1>7 DEF Publish, IInv, SteadyFollowersReached, ReachedBy, TypeOK
<1>10. OnlyFollowersReached'
  BY <1>0, <1>7 DEF Publish, IInv, OnlyFollowersReached, AudienceInv, ReachedBy, TypeOK
<1> QED BY <1>1, <1>3, <1>4, <1>5, <1>6, <1>8, <1>9, <1>10 DEF IInv

(* A running handler belongs to a live worker and carries a published        *)
(* message.                                                                  *)
LEMMA RunningFacts ==
    ASSUME IInv, NEW t \in Tags, Running(t)
    PROVE  /\ alive /\ t \in 1..tags
           /\ h[t].msg \in 1..published /\ h[t].msg \in Msgs
           /\ h[t] \in Handler
<1>1. t \in 1..tags
  BY DEF IInv, TypeOK, TagsInv, Running, Idle
<1>2. h[t].msg \in 1..published /\ h[t].msg \in Msgs /\ h[t] \in Handler
  BY <1>1 DEF IInv, TypeOK, TagsInv
<1>3. alive
  BY Zenon DEF IInv, ChannelInv
<1> QED BY <1>1, <1>2, <1>3

(* The steps of the users service touch only followers, steady and ever.     *)
LEMMA FollowStep ==
    ASSUME IInv, NEW a \in Authors, NEW r \in Readers, Follow(a, r)
    PROVE  IInv'
<1>1. /\ TypeOK' /\ Pending' = Pending /\ Pending \subseteq Msgs
      /\ MsgsOf(unacked)' = MsgsOf(unacked)
  BY DEF Follow, IInv, TypeOK, Pending, MsgsOf
<1>2. \A m \in Msgs : ever[m] \subseteq ever'[m]
  BY DEF Follow
<1>3. TagsInv' /\ OnePlace' /\ ChannelInv' /\ SettledInv' /\ LookupInv'
  BY <1>1 DEF Follow, IInv, TagsInv, OnePlace, ChannelInv, SettledInv, LookupInv, Running
<1>4. BadBodyNeverAcked' /\ SteadyFollowersReached'
  BY DEF Follow, IInv, BadBodyNeverAcked, SteadyFollowersReached, ReachedBy
<1>5. AudienceInv'
  <2>1. \A m \in Pending : /\ followers'[author[m]] \subseteq ever'[m]
                           /\ followers[author[m]] \subseteq followers'[author[m]]
    BY <1>1 DEF Follow, IInv, AudienceInv, Affected, TypeOK
  <2>2. \A m \in Msgs : m > published => m \notin Pending
    BY DEF Pending, IInv, TypeOK
  <2> QED
    BY <1>1, <2>1, <2>2 DEF Follow, IInv, AudienceInv, Affected
<1>6. HandlerInv'
  <2>1. \A t \in Tags : Running(t) => h[t].msg \in Msgs
    BY RunningFacts
  <2>2. /\ h' = h /\ body' = body /\ acked' = acked /\ steady' = steady
        /\ \A m : ReachedBy(m)' = ReachedBy(m)
        /\ \A t \in Tags : Running(t)' <=> Running(t)
    BY DEF Follow, Running, ReachedBy
  <2> QED BY <1>2, <2>1, <2>2 DEF IInv, HandlerInv
<1>7. OnlyFollowersReached'
  BY <1>2 DEF Follow, IInv, OnlyFollowersReached, ReachedBy
<1> QED BY <1>1, <1>3, <1>4, <1>5, <1>6, <1>7 DEF IInv

(* An unfollow keeps it: the steady audience only shrinks.                   *)
LEMMA UnfollowStep ==
    ASSUME IInv, NEW a \in Authors, NEW r \in Readers, Unfollow(a, r)
    PROVE  IInv'
<1>1. /\ TypeOK' /\ Pending' = Pending /\ Pending \subseteq Msgs
      /\ MsgsOf(unacked)' = MsgsOf(unacked)
  BY DEF Unfollow, IInv, TypeOK, Pending, MsgsOf
<1>2. \A m \in Msgs : steady'[m] \subseteq steady[m]
  BY DEF Unfollow
<1>3. TagsInv' /\ OnePlace' /\ ChannelInv' /\ SettledInv' /\ LookupInv'
  BY <1>1 DEF Unfollow, IInv, TagsInv, OnePlace, ChannelInv, SettledInv, LookupInv, Running
<1>4. BadBodyNeverAcked' /\ OnlyFollowersReached'
  BY DEF Unfollow, IInv, BadBodyNeverAcked, OnlyFollowersReached, ReachedBy
<1>5. AudienceInv'
  <2>1. \A m \in Pending : /\ steady'[m] \subseteq followers'[author[m]]
                           /\ followers'[author[m]] \subseteq followers[author[m]]
    BY <1>1 DEF Unfollow, IInv, AudienceInv, Affected, TypeOK
  <2> QED
    BY <1>1, <2>1 DEF Unfollow, IInv, AudienceInv
<1>6. HandlerInv'
  BY <1>1, <1>2 DEF Unfollow, IInv, TypeOK, TagsInv, HandlerInv, Running, ReachedBy, Idle
<1>7. SteadyFollowersReached'
  BY <1>2 DEF Unfollow, IInv, TypeOK, SteadyFollowersReached, ReachedBy
<1> QED BY <1>1, <1>3, <1>4, <1>5, <1>6, <1>7 DEF IInv

(* A delivery keeps it: the head of the queue becomes outstanding under a    *)
(* fresh tag, and a fresh handler carries it.                                *)
LEMMA DeliverStep == IInv /\ Deliver => IInv'
<1> SUFFICES ASSUME IInv, Deliver PROVE IInv'
  OBVIOUS
<1> DEFINE new == tags + 1
<1>1. PICK m \in ready :
         /\ ready' = ready \ {m}
         /\ tags' = new
         /\ unacked' = unacked \union {new}
         /\ h' = [h EXCEPT ![new] = [Idle EXCEPT !.msg = m, !.pc = "decode"]]
  BY DEF Deliver, NextTag
<1>2. /\ new \in Tags /\ new \notin 1..tags /\ 1..tags' = (1..tags) \union {new}
      /\ TypeOK /\ m \in 1..published /\ m \in Msgs /\ m \notin acked /\ m \notin MsgsOf(unacked)
      /\ new \notin unacked
  BY <1>1 DEF Deliver, IInv, TypeOK, OnePlace
<1>3. /\ h'[new] = [msg |-> m, pc |-> "decode", ok |-> FALSE, todo |-> {}, cur |-> {}]
      /\ \A t \in Tags \ {new} : h'[t] = h[t]
  BY <1>1, <1>2 DEF TypeOK, Idle
<1>4. TypeOK'
  <2>1. h' \in [Tags -> Handler]
    BY <1>1, <1>2 DEF TypeOK, Handler, Idle
  <2>2. unacked' \subseteq 1..tags' /\ tags' \in 0..MaxTags
    BY <1>1, <1>2 DEF TypeOK
  <2> QED
    BY <1>1, <2>1, <2>2 DEF Deliver, IInv, TypeOK, env
<1>5. TagsInv'
  BY <1>1, <1>2, <1>3, <1>4 DEF Deliver, IInv, TagsInv, env, TypeOK
<1>6. MsgsOf(unacked)' = MsgsOf(unacked) \union {m}
  BY <1>1, <1>2, <1>3 DEF MsgsOf, TypeOK
<1>7. OnePlace'
  <2>1. \A t, u \in unacked' : h'[t].msg = h'[u].msg => t = u
    <3>1. \A t \in unacked : t \in Tags /\ h'[t].msg = h[t].msg /\ h[t].msg # m
      BY <1>2, <1>3 DEF MsgsOf, TypeOK
    <3> QED BY <1>1, <1>3, <3>1 DEF IInv, OnePlace
  <2>2. published' = published /\ acked' = acked /\ lost' = lost
    BY DEF Deliver, env
  <2>3. /\ 1..published = ready \union MsgsOf(unacked) \union acked \union lost
        /\ ready \intersect MsgsOf(unacked) = {}
        /\ (acked \union lost) \intersect (ready \union MsgsOf(unacked)) = {}
        /\ acked \intersect lost = {}
    BY DEF IInv, OnePlace
  <2>4. m \in ready /\ ready' = ready \ {m} /\ MsgsOf(unacked)' = MsgsOf(unacked) \union {m}
    BY <1>1, <1>6
  <2>5. /\ 1..published' = ready' \union MsgsOf(unacked)' \union acked' \union lost'
        /\ ready' \intersect MsgsOf(unacked)' = {}
        /\ (acked' \union lost') \intersect (ready' \union MsgsOf(unacked)') = {}
        /\ acked' \intersect lost' = {}
    BY <2>2, <2>3, <2>4
  <2> QED
    BY <2>1, <2>5 DEF OnePlace
<1>8. ChannelInv' /\ LookupInv'
  <2>1. alive' = alive /\ open' = open /\ alive /\ open
    BY DEF Deliver
  <2>2. \A t \in unacked' : Running(t)'
    BY <1>1, <1>2, <1>3 DEF IInv, TypeOK, ChannelInv, Running
  <2>3. LookupInv'
    <3>1. ~h'[new].ok /\ h'[new].todo = {}
      BY <1>3
    <3> QED BY <1>3, <3>1 DEF IInv, LookupInv
  <2> QED BY <2>1, <2>2, <2>3, Zenon DEF ChannelInv
<1>9. SettledInv'
  BY <1>1, <1>2, <1>3 DEF Deliver, IInv, TypeOK, SettledInv, Running, env
<1>10. AudienceInv' /\ BadBodyNeverAcked' /\ SteadyFollowersReached' /\ OnlyFollowersReached'
  BY DEF Deliver, IInv, AudienceInv, BadBodyNeverAcked, SteadyFollowersReached,
         OnlyFollowersReached, ReachedBy, Pending, env
<1>11. HandlerInv'
  <2>1. /\ body' = body /\ acked' = acked /\ ever' = ever /\ steady' = steady
        /\ \A n : ReachedBy(n)' = ReachedBy(n)
    BY DEF Deliver, env, ReachedBy
  <2> QED
    BY <1>2, <1>3, <2>1 DEF IInv, HandlerInv, Running
<1> QED BY <1>4, <1>5, <1>7, <1>8, <1>9, <1>10, <1>11 DEF IInv

----------------------------------------------------------------------------
(* The steps of a handler.  None of them changes the message it carries.     *)

(* Steps that settle nothing: what the broker and the users service know     *)
(* stays, one running handler moves on.                                      *)
LEMMA QuietStep ==
    ASSUME IInv, NEW t \in Tags, Running(t),
           UNCHANGED <<env, broker, alive, tags>>,
           h' \in [Tags -> Handler],
           \A u \in Tags \ {t} : h'[u] = h[u],
           h'[t].msg = h[t].msg, Running(t)',
           t \in unacked => h[t].pc # "decode" \/ body[h[t].msg] = "tweet"
    PROVE  /\ TagsInv' /\ OnePlace' /\ ChannelInv' /\ SettledInv'
           /\ BadBodyNeverAcked' /\ AudienceInv'
<1>0. /\ followers' = followers /\ published' = published /\ body' = body
      /\ author' = author /\ steady' = steady /\ ever' = ever
      /\ ready' = ready /\ unacked' = unacked /\ open' = open /\ acked' = acked
      /\ blind' = blind /\ alive' = alive /\ tags' = tags /\ lost' = lost
  BY DEF env, broker
<1>1. /\ \A u \in Tags : h'[u].msg = h[u].msg
      /\ unacked \subseteq Tags /\ 1..tags \subseteq Tags /\ t \in 1..tags
  BY RunningFacts DEF IInv, TypeOK
<1>2. TagsInv'
  <2>1. \A u \in Tags \ {t} : /\ u <= tags => h'[u].pc # "idle" /\ h'[u].msg \in 1..published
                              /\ u > tags => h'[u] = Idle
    BY DEF IInv, TagsInv
  <2>2. h'[t].pc # "idle" /\ h'[t].msg \in 1..published /\ ~(t > tags)
    BY <1>1, RunningFacts DEF Running, IInv, TypeOK
  <2> QED BY <1>0, <2>1, <2>2 DEF TagsInv
<1>3. MsgsOf(unacked)' = MsgsOf(unacked)
  BY <1>0, <1>1 DEF MsgsOf
<1>4. OnePlace'
  BY <1>0, <1>1, <1>3 DEF IInv, OnePlace
<1>5. \A u \in Tags : Running(u)' <=> Running(u)
  BY DEF Running
<1>6. ChannelInv'
  <2>1. \A u \in unacked : Running(u)'
    BY <1>1, <1>5 DEF IInv, ChannelInv
  <2>2. (unacked # {} => open) /\ alive
    BY RunningFacts DEF IInv, ChannelInv
  <2>3. (unacked' # {} => open') /\ alive'
    BY <1>0, <2>2
  <2>4. \A u \in unacked' : Running(u)'
    BY <1>0, <2>1
  <2> QED BY <2>3, <2>4, Zenon DEF ChannelInv
<1>7. SettledInv'
  <2>1. \A u \in Tags : Running(u)' /\ open' /\ u \notin unacked' => body'[h'[u].msg] # "tweet"
    BY <1>0, <1>1, <1>5 DEF IInv, SettledInv
  <2>2. \A u \in unacked' : body'[h'[u].msg] # "tweet" => h'[u].pc = "decode"
    BY <1>0, <1>1 DEF IInv, SettledInv
  <2> QED BY <2>1, <2>2 DEF SettledInv
<1>8. BadBodyNeverAcked' /\ AudienceInv'
  BY <1>0 DEF IInv, BadBodyNeverAcked, AudienceInv, Pending
<1> QED BY <1>2, <1>4, <1>6, <1>7, <1>8

(* Steps that give the message back, on whichever channel: afterwards the    *)
(* handler has returned, or its body was not a tweet.                        *)
LEMMA NackStep ==
    ASSUME IInv, NEW t \in Tags, Running(t), NackRequeue(t),
           UNCHANGED <<env, alive, tags>>,
           NEW p \in {"lookup", "done"}, h' = [h EXCEPT ![t].pc = p],
           p = "lookup" => body[h[t].msg] # "tweet"
    PROVE  /\ TagsInv' /\ OnePlace' /\ ChannelInv' /\ SettledInv'
           /\ BadBodyNeverAcked' /\ AudienceInv'
<1>0. /\ followers' = followers /\ published' = published /\ body' = body
      /\ author' = author /\ steady' = steady /\ ever' = ever
      /\ acked' = acked /\ blind' = blind /\ alive' = alive /\ tags' = tags
      /\ lost' = lost
  BY DEF env, NackRequeue
<1>1. /\ \A u \in Tags : h'[u].msg = h[u].msg
      /\ \A u \in Tags \ {t} : h'[u] = h[u]
      /\ h'[t].pc = p
      /\ unacked \subseteq Tags /\ 1..tags \subseteq Tags /\ t \in 1..tags
      /\ h[t].msg \in 1..published /\ h[t].msg \in Msgs
  BY RunningFacts DEF IInv, TypeOK
<1>2. TagsInv'
  BY <1>0, <1>1 DEF IInv, TagsInv, TypeOK
<1>3. \/ /\ t \in unacked /\ unacked' = unacked \ {t}
         /\ ready' = ready \union {h[t].msg} /\ open' = open
      \/ /\ t \notin unacked /\ open /\ open' = FALSE
         /\ ready' = ready \union MsgsOf(unacked) /\ unacked' = {}
      \/ /\ ~open /\ ready' = ready /\ unacked' = unacked /\ open' = open
  BY DEF NackRequeue, CloseChannel
<1>4. OnePlace'
  <2>1. MsgsOf(unacked)' = {h[u].msg : u \in unacked'}
    <3>1. unacked' \subseteq Tags
      BY <1>1, <1>3
    <3> QED BY <1>1, <3>1 DEF MsgsOf
  <2>2. \/ /\ t \in unacked
           /\ MsgsOf(unacked)' = MsgsOf(unacked) \ {h[t].msg}
           /\ ready' = ready \union {h[t].msg}
           /\ h[t].msg \in MsgsOf(unacked)
        \/ /\ ready' = ready \union MsgsOf(unacked) /\ MsgsOf(unacked)' = {}
        \/ ready' = ready /\ MsgsOf(unacked)' = MsgsOf(unacked)
    BY <1>1, <1>3, <2>1 DEF MsgsOf, IInv, OnePlace
  <2>3. \A u, v \in unacked' : h'[u].msg = h'[v].msg => u = v
    BY <1>1, <1>3 DEF IInv, OnePlace
  <2>4. /\ 1..published = ready \union MsgsOf(unacked) \union acked \union lost
        /\ ready \intersect MsgsOf(unacked) = {}
        /\ (acked \union lost) \intersect (ready \union MsgsOf(unacked)) = {}
        /\ acked \intersect lost = {}
    BY DEF IInv, OnePlace
  <2>5. /\ 1..published' = ready' \union MsgsOf(unacked)' \union acked' \union lost'
        /\ ready' \intersect MsgsOf(unacked)' = {}
        /\ (acked' \union lost') \intersect (ready' \union MsgsOf(unacked)') = {}
        /\ acked' \intersect lost' = {}
    BY <1>0, <2>2, <2>4
  <2> QED BY <2>3, <2>5 DEF OnePlace
<1>5. \A u \in Tags : Running(u)' => Running(u)
  BY <1>1 DEF Running
<1>6. ChannelInv'
  <2>1. unacked' # {} => open'
    BY <1>3, Zenon DEF IInv, ChannelInv
  <2>2. \A u \in unacked' : Running(u)'
    BY <1>1, <1>3 DEF IInv, ChannelInv, Running
  <2>3. alive
    BY RunningFacts
  <2> QED BY <1>0, <2>1, <2>2, <2>3, Zenon DEF ChannelInv
<1>7. SettledInv'
  <2>1. \A u \in Tags : Running(u)' /\ open' /\ u \notin unacked' => body'[h'[u].msg] # "tweet"
    <3>1. CASE t \in unacked /\ unacked' = unacked \ {t} /\ open' = open
      BY <1>0, <1>1, <1>5, <3>1 DEF IInv, SettledInv, Running
    <3>2. CASE ~open'
      BY <3>2
    <3> QED BY <1>3, <3>1, <3>2, Zenon
  <2>2. \A u \in unacked' : body'[h'[u].msg] # "tweet" => h'[u].pc = "decode"
    <3>1. \A u \in unacked' : u \in unacked /\ u # t
      BY <1>3, Zenon DEF IInv, ChannelInv
    <3> QED BY <1>0, <1>1, <3>1 DEF IInv, SettledInv
  <2> QED BY <2>1, <2>2 DEF SettledInv
<1>8. BadBodyNeverAcked' /\ AudienceInv'
  BY <1>0 DEF IInv, BadBodyNeverAcked, AudienceInv, Pending
<1> QED BY <1>2, <1>4, <1>6, <1>7, <1>8

(* A settlement keeps the types of the broker's state.                       *)
LEMMA SettleType ==
    ASSUME IInv, NEW t \in Tags, Running(t), NackRequeue(t) \/ Ack(t)
    PROVE  /\ ready' \subseteq Msgs /\ unacked' \subseteq 1..tags /\ open' \in BOOLEAN
           /\ acked' \subseteq Msgs /\ blind' \subseteq acked'
<1>1. h[t].msg \in Msgs
  BY RunningFacts
<1>2. MsgsOf(unacked) \subseteq Msgs
  BY DEF IInv, OnePlace, TypeOK
<1>3. /\ ready \subseteq Msgs /\ unacked \subseteq 1..tags /\ open \in BOOLEAN
      /\ acked \subseteq Msgs /\ blind \subseteq acked
  BY DEF IInv, TypeOK
<1>4. CASE NackRequeue(t)
  BY <1>1, <1>2, <1>3, <1>4 DEF NackRequeue, CloseChannel
<1>5. CASE Ack(t)
  BY <1>1, <1>2, <1>3, <1>5 DEF Ack, CloseChannel, broker
<1> QED BY <1>4, <1>5

(* json.Unmarshal keeps it; a body that is no tweet is given back.           *)
LEMMA DecodeStep ==
    ASSUME IInv, NEW t \in Tags, Decode(t)
    PROVE  IInv'
<1>1. /\ h[t].pc = "decode" /\ Running(t) /\ h' = [h EXCEPT ![t].pc = "lookup"]
      /\ UNCHANGED <<env, alive, tags, feeds, faults, reached>>
  BY DEF Decode, Running
<1>2. /\ h[t] \in Handler /\ h[t].msg \in Msgs /\ h[t].msg \in 1..published
      /\ ~h[t].ok /\ h[t].todo = {}
  BY <1>1, RunningFacts DEF IInv, LookupInv
<1>3. /\ h' \in [Tags -> Handler] /\ \A u \in Tags \ {t} : h'[u] = h[u]
      /\ h'[t].msg = h[t].msg /\ h'[t].pc = "lookup" /\ ~h'[t].ok /\ h'[t].todo = {}
  BY <1>1, <1>2 DEF IInv, TypeOK, Handler
<1>4. /\ TagsInv' /\ OnePlace' /\ ChannelInv' /\ SettledInv'
      /\ BadBodyNeverAcked' /\ AudienceInv'
  <2>1. CASE body[h[t].msg] = "tweet" /\ UNCHANGED broker
    BY <1>1, <1>3, <2>1, QuietStep DEF Running
  <2>2. CASE body[h[t].msg] # "tweet" /\ NackRequeue(t)
    BY <1>1, <2>2, NackStep
  <2> QED BY <2>1, <2>2 DEF Decode, OnDecodeError
<1>5. acked' = acked /\ blind' = blind
  BY DEF Decode, OnDecodeError, NackRequeue, broker
<1>6. TypeOK'
  <2>1. /\ ready' \subseteq Msgs /\ unacked' \subseteq 1..tags /\ open' \in BOOLEAN
    <3>1. CASE UNCHANGED broker
      BY <3>1 DEF broker, IInv, TypeOK
    <3>2. CASE NackRequeue(t)
      BY <1>1, <3>2, SettleType
    <3> QED BY <3>1, <3>2 DEF Decode, OnDecodeError
  <2> QED BY <1>1, <1>3, <1>5, <2>1 DEF IInv, TypeOK, env
<1>7. LookupInv'
  BY <1>3 DEF IInv, LookupInv
<1>8. HandlerInv'
  BY <1>1, <1>2, <1>3, <1>5 DEF IInv, HandlerInv, Running, ReachedBy, env
<1>9. SteadyFollowersReached' /\ OnlyFollowersReached'
  BY <1>1, <1>5 DEF IInv, SteadyFollowersReached, OnlyFollowersReached, ReachedBy, env
<1> QED BY <1>4, <1>6, <1>7, <1>8, <1>9 DEF IInv

(* A successful GetFollowers keeps it: the followers of that moment are      *)
(* within ever and cover steady.                                             *)
LEMMA LookupOkStep ==
    ASSUME IInv, NEW t \in Tags, LookupOk(t)
    PROVE  IInv'
<1> DEFINE m == h[t].msg
<1>1. /\ h[t].pc = "lookup" /\ Running(t)
      /\ h' = [h EXCEPT ![t].pc = "push", ![t].ok = TRUE, ![t].todo = followers[author[m]]]
      /\ UNCHANGED <<env, broker, alive, tags, feeds, faults, reached>>
  BY DEF LookupOk, FollowersOf, Running
<1>2. h[t] \in Handler /\ m \in Msgs /\ m \in 1..published
  BY <1>1, RunningFacts
<1>3. followers[author[m]] \in SUBSET Readers
  BY <1>2 DEF IInv, TypeOK
<1>4. /\ h' \in [Tags -> Handler] /\ \A u \in Tags \ {t} : h'[u] = h[u]
      /\ h'[t].msg = m /\ h'[t].pc = "push" /\ h'[t].todo = followers[author[m]]
  BY <1>1, <1>2, <1>3 DEF IInv, TypeOK, Handler
<1>5. /\ TagsInv' /\ OnePlace' /\ ChannelInv' /\ SettledInv'
      /\ BadBodyNeverAcked' /\ AudienceInv'
  BY <1>1, <1>4, QuietStep DEF Running
<1>6. TypeOK'
  BY <1>1, <1>4 DEF IInv, TypeOK, env, broker
<1>7. LookupInv'
  BY <1>4 DEF IInv, LookupInv
<1>8. HandlerInv'
  <2>1. body[m] = "tweet" => /\ m \notin acked
                             /\ followers[author[m]] \subseteq ever[m]
                             /\ steady[m] \subseteq followers[author[m]]
    BY <1>1, <1>2 DEF IInv, HandlerInv, AudienceInv, Pending
  <2>2. UNCHANGED <<acked, ever, steady, body, reached>>
    BY <1>1 DEF env, broker
  <2> SUFFICES ASSUME NEW u \in Tags, Running(u)', body'[h'[u].msg] = "tweet"
               PROVE  /\ h'[u].msg \notin acked'
                      /\ h'[u].todo \subseteq ever'[h'[u].msg]
                      /\ h'[u].ok /\ h'[u].pc \in {"push", "trim"} =>
                            steady'[h'[u].msg] \ h'[u].todo \subseteq ReachedBy(h[u].msg)'
    BY DEF HandlerInv
  <2>3. CASE u = t
    BY <1>4, <2>1, <2>2, <2>3
  <2>4. CASE u # t
    <3>1. h'[u] = h[u] /\ Running(u)
      BY <1>4, <2>4 DEF Running
    <3> QED
      BY <2>2, <3>1 DEF IInv, HandlerInv, ReachedBy
  <2> QED
    BY <2>3, <2>4
<1>9. SteadyFollowersReached' /\ OnlyFollowersReached'
  BY <1>1 DEF IInv, SteadyFollowersReached, OnlyFollowersReached, ReachedBy, env, broker
<1> QED BY <1>5, <1>6, <1>7, <1>8, <1>9 DEF IInv

(* A failed GetFollowers keeps it: the handler goes on with nobody to push   *)
(* to and without the claim to have read the followers.                      *)
LEMMA LookupFailedStep ==
    ASSUME IInv, NEW t \in Tags, LookupFailed(t)
    PROVE  IInv'
<1>1. /\ h[t].pc = "lookup" /\ Running(t) /\ h' = [h EXCEPT ![t].pc = "push"]
      /\ UNCHANGED <<env, broker, alive, tags, feeds, faults, reached>>
  BY DEF LookupFailed, Running
<1>2. h[t] \in Handler /\ ~h[t].ok
  BY <1>1, RunningFacts DEF IInv, LookupInv
<1>3. /\ h' \in [Tags -> Handler] /\ \A u \in Tags \ {t} : h'[u] = h[u]
      /\ h'[t].msg = h[t].msg /\ h'[t].pc = "push" /\ h'[t].todo = h[t].todo /\ ~h'[t].ok
  BY <1>1, <1>2 DEF IInv, TypeOK, Handler
<1>4. /\ TagsInv' /\ OnePlace' /\ ChannelInv' /\ SettledInv'
      /\ BadBodyNeverAcked' /\ AudienceInv'
  BY <1>1, <1>3, QuietStep DEF Running
<1>5. TypeOK'
  BY <1>1, <1>3 DEF IInv, TypeOK, env, broker
<1>6. LookupInv'
  BY <1>3 DEF IInv, LookupInv
<1>7. HandlerInv'
  BY <1>1, <1>3 DEF IInv, HandlerInv, Running, ReachedBy, env, broker
<1>8. SteadyFollowersReached' /\ OnlyFollowersReached'
  BY <1>1 DEF IInv, SteadyFollowersReached, OnlyFollowersReached, ReachedBy, env, broker
<1> QED BY <1>4, <1>5, <1>6, <1>7, <1>8 DEF IInv

(* A push makes feeds longer and nobody less reached, and reaches whom the   *)
(* message had still to reach.                                               *)
LEMMA LPushFacts ==
    ASSUME IInv, NEW t \in Tags, Running(t), NEW r \in h[t].todo,
           NEW copies \in Nat, LPush(t, r, copies)
    PROVE  /\ feeds' \in [Readers -> Seq(Entries)]
           /\ reached' \in [Readers -> SUBSET Entries]
           /\ \A m \in Msgs : ReachedBy(m) \subseteq ReachedBy(m)'
           /\ \A m \in Msgs : ReachedBy(m)' \subseteq ever[m]
           /\ copies > 0 => \A m \in Msgs : m = h[t].msg /\ body[m] = "tweet" => r \in ReachedBy(m)'
<1> DEFINE e == EntryOf(h[t].msg)
<1>1. /\ h[t].msg \in Msgs /\ h[t] \in Handler /\ r \in Readers
      /\ e \in Entries /\ (body[h[t].msg] = "tweet" => e = h[t].msg)
      /\ (body[h[t].msg] # "tweet" => e \notin Msgs)
  BY RunningFacts DEF Handler, EntryOf
<1>2. /\ feeds' = [feeds EXCEPT ![r] = [i \in 1..copies |-> e] \o @]
      /\ reached' = [reached EXCEPT ![r] = IF copies > 0 THEN @ \union {e} ELSE @]
  BY DEF LPush
<1>3. feeds' \in [Readers -> Seq(Entries)]
  <2>1. [i \in 1..copies |-> e] \in Seq(Entries)
    BY <1>1
  <2>2. feeds \in [Readers -> Seq(Entries)]
    BY DEF IInv, TypeOK
  <2>3. [i \in 1..copies |-> e] \o feeds[r] \in Seq(Entries)
    BY <1>1, <2>1, <2>2, ConcatProperties
  <2> QED BY <1>2, <2>2, <2>3
<1>4. reached' \in [Readers -> SUBSET Entries]
  BY <1>1, <1>2 DEF IInv, TypeOK
<1>5. \A m \in Msgs : ReachedBy(m) \subseteq ReachedBy(m)'
  BY <1>1, <1>2 DEF IInv, TypeOK, ReachedBy
<1>6. \A m \in Msgs : ReachedBy(m)' \subseteq ReachedBy(m) \union (IF m = e THEN {r} ELSE {})
  BY <1>1, <1>2 DEF IInv, TypeOK, ReachedBy
<1>7. body[h[t].msg] = "tweet" => r \in ever[h[t].msg]
  BY DEF IInv, HandlerInv
<1>8. \A m \in Msgs : ReachedBy(m)' \subseteq ever[m]
  BY <1>1, <1>6, <1>7 DEF IInv, OnlyFollowersReached
<1>9. ASSUME copies > 0, NEW m \in Msgs, m = h[t].msg, body[m] = "tweet"
      PROVE  r \in ReachedBy(m)'
  <2>1. reached'[r] = reached[r] \union {m}
    BY <1>1, <1>2, <1>9 DEF IInv, TypeOK
  <2> QED BY <1>1, <2>1 DEF ReachedBy
<1> QED BY <1>3, <1>4, <1>5, <1>8, <1>9

(* A successful LPUSH keeps it: the follower struck off was reached.         *)
LEMMA PushOkStep ==
    ASSUME IInv, NEW t \in Tags, NEW r \in Readers, PushOk(t, r)
    PROVE  IInv'
<1> DEFINE m == h[t].msg
<1>1. /\ h[t].pc = "push" /\ Running(t) /\ r \in h[t].todo
      /\ h' = [h EXCEPT ![t].pc = "trim", ![t].todo = h[t].todo \ {r}, ![t].cur = {r}]
      /\ UNCHANGED <<env, broker, alive, tags, faults>>
  BY DEF PushOk, Remaining, Running
<1>2. PICK copies \in 1..(1 + Retries) : LPush(t, r, copies)
  BY DEF PushOk
<1>3. copies \in Nat /\ copies > 0
  OBVIOUS
<1>4. h[t] \in Handler /\ m \in Msgs /\ h[t].todo \subseteq Readers
  BY <1>1, RunningFacts DEF Handler
<1>5. /\ h' \in [Tags -> Handler] /\ \A u \in Tags \ {t} : h'[u] = h[u]
      /\ h'[t].msg = m /\ h'[t].pc = "trim" /\ h'[t].todo = h[t].todo \ {r}
      /\ h'[t].ok = h[t].ok
  <2>1. h[t].todo \ {r} \in SUBSET Readers /\ {r} \in SUBSET Readers
    BY <1>4
  <2>2. h \in [Tags -> Handler]
    BY DEF IInv, TypeOK
  <2>3. h'[t] = [h[t] EXCEPT !.pc = "trim", !.todo = h[t].todo \ {r}, !.cur = {r}]
    BY <1>1, <2>2
  <2>4. h'[t] \in Handler
    BY <1>4, <2>1, <2>3 DEF Handler
  <2>5. h' \in [Tags -> Handler] /\ \A u \in Tags \ {t} : h'[u] = h[u]
    BY <1>1, <2>2, <2>3, <2>4
  <2> QED BY <1>4, <2>3, <2>5 DEF Handler
<1>6. /\ TagsInv' /\ OnePlace' /\ ChannelInv' /\ SettledInv'
      /\ BadBodyNeverAcked' /\ AudienceInv'
  BY <1>1, <1>5, QuietStep DEF Running
<1>7. /\ feeds' \in [Readers -> Seq(Entries)]
      /\ reached' \in [Readers -> SUBSET Entries]
      /\ \A n \in Msgs : ReachedBy(n) \subseteq ReachedBy(n)'
      /\ \A n \in Msgs : ReachedBy(n)' \subseteq ever[n]
      /\ body[m] = "tweet" => \A n \in Msgs : n = m => r \in ReachedBy(n)'
  BY <1>1, <1>2, <1>3, LPushFacts
<1>8. TypeOK'
  BY <1>1, <1>5, <1>7 DEF IInv, TypeOK, env, broker
<1>9. LookupInv'
  BY <1>5 DEF IInv, LookupInv
<1>10. HandlerInv'
  <2>1. /\ body' = body /\ acked' = acked /\ ever' = ever /\ steady' = steady
    BY <1>1 DEF env, broker
  <2>2. ASSUME NEW u \in Tags, Running(u)', body'[h'[u].msg] = "tweet"
        PROVE  /\ h'[u].msg \notin acked'
               /\ h'[u].todo \subseteq ever'[h'[u].msg]
               /\ h'[u].ok /\ h'[u].pc \in {"push", "trim"} =>
                     steady'[h'[u].msg] \ h'[u].todo \subseteq ReachedBy(h[u].msg)'
    <3>1. h'[u].msg = h[u].msg /\ Running(u) /\ h[u].msg \in Msgs
      BY <1>1, <1>4, <1>5, <2>2, RunningFacts DEF Running, IInv, TypeOK, Handler
    <3>2. CASE u = t
      BY <1>1, <1>4, <1>5, <1>7, <2>1, <2>2, <3>1, <3>2 DEF IInv, HandlerInv
    <3>3. CASE u # t
      BY <1>5, <1>7, <2>1, <2>2, <3>1, <3>3 DEF IInv, HandlerInv
    <3> QED BY <3>2, <3>3
  <2> QED BY <2>2 DEF HandlerInv
<1>11. SteadyFollowersReached' /\ OnlyFollowersReached'
  BY <1>1, <1>7 DEF IInv, TypeOK, SteadyFollowersReached, OnlyFollowersReached, env, broker
<1> QED BY <1>6, <1>8, <1>9, <1>10, <1>11 DEF IInv

(* A failed LPUSH keeps it: the message is requeued, the handler ends.       *)
LEMMA PushFailedStep ==
    ASSUME IInv, NEW t \in Tags, NEW r \in Readers, PushFailed(t, r)
    PROVE  IInv'
<1>1. /\ h[t].pc = "push" /\ Running(t) /\ r \in h[t].todo /\ NackRequeue(t)
      /\ h' = [h EXCEPT ![t].pc = "done"]
      /\ faults < MaxFaults /\ faults' = faults + 1
      /\ UNCHANGED <<env, alive, tags>>
  BY DEF PushFailed, OnPushError, Running, Fault
<1>2. PICK copies \in 0..(1 + Retries) : LPush(t, r, copies)
  BY DEF PushFailed
<1>3. h[t] \in Handler /\ copies \in Nat
  BY <1>1, RunningFacts
<1>4. /\ h' \in [Tags -> Handler] /\ \A u \in Tags \ {t} : h'[u] = h[u]
      /\ h'[t].msg = h[t].msg /\ h'[t].pc = "done"
  BY <1>1, <1>3 DEF IInv, TypeOK, Handler
<1>5. /\ TagsInv' /\ OnePlace' /\ ChannelInv' /\ SettledInv'
      /\ BadBodyNeverAcked' /\ AudienceInv'
  BY <1>1, NackStep
<1>6. /\ feeds' \in [Readers -> Seq(Entries)]
      /\ reached' \in [Readers -> SUBSET Entries]
      /\ \A n \in Msgs : ReachedBy(n) \subseteq ReachedBy(n)'
      /\ \A n \in Msgs : ReachedBy(n)' \subseteq ever[n]
  BY <1>1, <1>2, <1>3, LPushFacts
<1>7. acked' = acked /\ blind' = blind
  BY <1>1 DEF NackRequeue
<1>8. TypeOK'
  <2>1. faults' \in 0..MaxFaults
    BY <1>1 DEF IInv, TypeOK
  <2> QED BY <1>1, <1>4, <1>6, <1>7, <2>1, SettleType DEF IInv, TypeOK, env
<1>9. LookupInv'
  BY <1>4 DEF IInv, LookupInv
<1>10. HandlerInv'
  <2>1. body' = body /\ ever' = ever /\ steady' = steady
    BY <1>1 DEF env
  <2>2. ASSUME NEW u \in Tags, Running(u)', body'[h'[u].msg] = "tweet"
        PROVE  /\ h'[u].msg \notin acked'
               /\ h'[u].todo \subseteq ever'[h'[u].msg]
               /\ h'[u].ok /\ h'[u].pc \in {"push", "trim"} =>
                     steady'[h'[u].msg] \ h'[u].todo \subseteq ReachedBy(h[u].msg)'
    <3>1. u # t /\ h'[u] = h[u] /\ Running(u) /\ h[u].msg \in Msgs
      BY <1>4, <2>2, RunningFacts DEF Running
    <3> QED BY <1>6, <1>7, <2>1, <2>2, <3>1 DEF IInv, HandlerInv
  <2> QED BY <2>2 DEF HandlerInv
<1>11. SteadyFollowersReached' /\ OnlyFollowersReached'
  BY <1>1, <1>6, <1>7 DEF IInv, TypeOK, SteadyFollowersReached, OnlyFollowersReached, env
<1> QED BY <1>5, <1>8, <1>9, <1>10, <1>11 DEF IInv

(* LTRIM keeps it: it only touches the feeds.                                *)
LEMMA TrimStep ==
    ASSUME IInv, NEW t \in Tags, Trim(t)
    PROVE  IInv'
<1>1. /\ h[t].pc = "trim" /\ Running(t) /\ h' = [h EXCEPT ![t].pc = "push", ![t].cur = {}]
      /\ UNCHANGED <<env, broker, alive, tags, reached>>
      /\ (faults' = faults \/ (faults < MaxFaults /\ faults' = faults + 1))
  <2>1. UNCHANGED faults \/ Fault("ltrim")
    BY Zenon DEF Trim
  <2> QED BY <2>1 DEF Trim, Fault, Running
<1>2. h[t] \in Handler
  BY <1>1, RunningFacts
<1>3. /\ h' \in [Tags -> Handler] /\ \A u \in Tags \ {t} : h'[u] = h[u]
      /\ h'[t].msg = h[t].msg /\ h'[t].pc = "push" /\ h'[t].todo = h[t].todo
      /\ h'[t].ok = h[t].ok
  BY <1>1, <1>2 DEF IInv, TypeOK, Handler
<1>4. /\ TagsInv' /\ OnePlace' /\ ChannelInv' /\ SettledInv'
      /\ BadBodyNeverAcked' /\ AudienceInv'
  BY <1>1, <1>3, QuietStep DEF Running
<1>5. feeds' \in [Readers -> Seq(Entries)]
  <2>1. feeds \in [Readers -> Seq(Entries)]
    BY DEF IInv, TypeOK
  <2>2. ASSUME NEW s \in Seq(Entries) PROVE Trimmed(s) \in Seq(Entries)
    <3>1. CASE Len(s) > FeedCap
      BY <3>1, SubSeqProperties DEF Trimmed
    <3>2. CASE ~(Len(s) > FeedCap)
      BY <3>2 DEF Trimmed
    <3> QED BY <3>1, <3>2
  <2>3. CASE feeds' = [r \in Readers |-> IF r \in h[t].cur THEN Trimmed(feeds[r]) ELSE feeds[r]]
    BY <2>1, <2>2, <2>3
  <2>4. CASE feeds' = feeds
    BY <2>1, <2>4
  <2> QED BY <2>3, <2>4 DEF Trim
<1>6. TypeOK'
  <2>1. faults' \in 0..MaxFaults
    BY <1>1 DEF IInv, TypeOK
  <2> QED BY <1>1, <1>3, <1>5, <2>1 DEF IInv, TypeOK, env, broker
<1>7. LookupInv'
  BY <1>3 DEF IInv, LookupInv
<1>8. HandlerInv'
  BY <1>1, <1>3 DEF IInv, HandlerInv, Running, ReachedBy, env, broker
<1>9. SteadyFollowersReached' /\ OnlyFollowersReached'
  BY <1>1 DEF IInv, SteadyFollowersReached, OnlyFollowersReached, ReachedBy, env, broker
<1> QED BY <1>4, <1>6, <1>7, <1>8, <1>9 DEF IInv

(* The acknowledgement: the handler has pushed to everyone it had to.        *)
LEMMA FinishStep ==
    ASSUME IInv, NEW t \in Tags, Finish(t)
    PROVE  IInv'
<1> DEFINE m == h[t].msg
<1>1. /\ h[t].pc = "push" /\ Running(t) /\ h[t].todo = {} /\ Ack(t)
      /\ h' = [h EXCEPT ![t].pc = "done"]
      /\ UNCHANGED <<env, alive, tags, feeds, faults, reached>>
  BY DEF Finish, LoopEnded, Running
<1>2. h[t] \in Handler /\ m \in Msgs /\ m \in 1..published
  BY <1>1, RunningFacts
<1>3. /\ h' \in [Tags -> Handler] /\ \A u \in Tags \ {t} : h'[u] = h[u]
      /\ h'[t].msg = m /\ h'[t].pc = "done"
  BY <1>1, <1>2 DEF IInv, TypeOK, Handler
<1>4. TypeOK'
  BY <1>1, <1>3, SettleType DEF IInv, TypeOK, env
<1>5. LookupInv'
  BY <1>3 DEF IInv, LookupInv
<1>6. OnlyFollowersReached'
  BY <1>1 DEF IInv, OnlyFollowersReached, ReachedBy, env
<1>7. /\ followers' = followers /\ published' = published /\ body' = body
      /\ author' = author /\ steady' = steady /\ ever' = ever /\ lost' = lost
      /\ \A n : ReachedBy(n)' = ReachedBy(n)
  BY <1>1 DEF env, ReachedBy
<1>8. CASE NackRequeue(t)
  <2>1. /\ TagsInv' /\ OnePlace' /\ ChannelInv' /\ SettledInv'
        /\ BadBodyNeverAcked' /\ AudienceInv'
    BY <1>1, <1>8, NackStep
  <2>2. acked' = acked /\ blind' = blind
    BY <1>8 DEF NackRequeue
  <2>3. HandlerInv'
    BY <1>3, <1>7, <2>2 DEF IInv, HandlerInv, Running
  <2>4. SteadyFollowersReached'
    BY <1>7, <2>2 DEF IInv, SteadyFollowersReached
  <2> QED BY <1>4, <1>5, <1>6, <2>1, <2>3, <2>4 DEF IInv
<1>9. CASE /\ t \in unacked
           /\ unacked' = unacked \ {t}
           /\ acked' = acked \union {m}
           /\ blind' = IF h[t].ok THEN blind ELSE blind \union {m}
           /\ UNCHANGED <<ready, open>>
  <2>1. /\ body[m] = "tweet" /\ open
    BY <1>1, <1>9 DEF IInv, SettledInv, ChannelInv
  <2>2. /\ unacked \subseteq Tags /\ 1..tags \subseteq Tags
        /\ \A u \in Tags : h'[u].msg = h[u].msg
    <3>1. \A u \in Tags : h'[u].msg = h[u].msg
      BY <1>3
    <3>2. unacked \subseteq 1..tags /\ 1..tags \subseteq Tags
      BY DEF IInv, TypeOK
    <3> QED BY <3>1, <3>2
  <2>3. \A u \in Tags : Running(u)' => Running(u) /\ u # t
    BY <1>3 DEF Running
  <2>4. \A u \in unacked' : h[u].msg # m /\ u # t /\ u \in unacked
    BY <1>9 DEF IInv, OnePlace
  <2>5. TagsInv'
    <3>1. ~(t > tags)
      BY <1>1, RunningFacts DEF IInv, TypeOK
    <3> QED BY <1>1, <1>2, <1>3, <1>7, <3>1 DEF IInv, TagsInv
  <2>6. OnePlace'
    <3>1. MsgsOf(unacked)' = MsgsOf(unacked) \ {m} /\ m \in MsgsOf(unacked)
      BY <1>9, <2>2, <2>4 DEF MsgsOf
    <3>2. /\ 1..published = ready \union MsgsOf(unacked) \union acked \union lost
          /\ ready \intersect MsgsOf(unacked) = {}
          /\ (acked \union lost) \intersect (ready \union MsgsOf(unacked)) = {}
          /\ acked \intersect lost = {}
      BY DEF IInv, OnePlace
    <3>3. /\ 1..published' = ready' \union MsgsOf(unacked)' \union acked' \union lost'
          /\ ready' \intersect MsgsOf(unacked)' = {}
          /\ (acked' \union lost') \intersect (ready' \union MsgsOf(unacked)') = {}
          /\ acked' \intersect lost' = {}
      BY <1>7, <1>9, <3>1, <3>2
    <3>4. \A u, v \in unacked' : h'[u].msg = h'[v].msg => u = v
      <4>1. \A u \in unacked' : u \in unacked /\ u \in Tags
        BY <2>2, <2>4
      <4>2. \A u, v \in unacked : h[u].msg = h[v].msg => u = v
        BY DEF IInv, OnePlace
      <4> QED BY <2>2, <4>1, <4>2
    <3> QED BY <3>3, <3>4 DEF OnePlace
  <2>7. ChannelInv'
    <3>1. \A u \in unacked' : Running(u)'
      BY <1>3, <2>2, <2>4 DEF IInv, ChannelInv, Running
    <3>2. alive' /\ open'
      BY <1>1, <1>9, <2>1, RunningFacts
    <3> QED BY <3>1, <3>2, Zenon DEF ChannelInv
  <2>8. SettledInv'
    <3>1. \A u \in Tags : Running(u)' /\ open' /\ u \notin unacked' => body'[h'[u].msg] # "tweet"
      BY <1>7, <1>9, <2>1, <2>2, <2>3 DEF IInv, SettledInv
    <3>2. \A u \in unacked' : body'[h'[u].msg] # "tweet" => h'[u].pc = "decode"
      BY <1>3, <1>7, <2>2, <2>4 DEF IInv, SettledInv
    <3> QED BY <3>1, <3>2 DEF SettledInv
  <2>9. BadBodyNeverAcked'
    BY <1>7, <1>9, <2>1 DEF IInv, BadBodyNeverAcked
  <2>10. AudienceInv'
    BY <1>7, <1>9 DEF IInv, AudienceInv, Pending
  <2>11. HandlerInv'
    <3>1. \A u \in Tags : Running(u)' /\ body[h[u].msg] = "tweet" => h[u].msg # m
      BY <1>9, <2>1, <2>3, <2>4 DEF IInv, SettledInv
    <3> QED
      BY <1>3, <1>7, <1>9, <2>2, <2>3, <3>1 DEF IInv, HandlerInv, Running
  <2>12. SteadyFollowersReached'
    <3>1. m \notin blind' => steady[m] \subseteq ReachedBy(m)
      BY <1>1, <1>9, <2>1, Zenon DEF IInv, HandlerInv
    <3>2. \A n \in acked \ blind : steady[n] \subseteq ReachedBy(n)
      BY DEF IInv, SteadyFollowersReached
    <3>3. acked' \ blind' \subseteq (acked \ blind) \union {m}
      BY <1>9
    <3>4. \A n \in acked' \ blind' : steady'[n] \subseteq ReachedBy(n)'
      BY <1>7, <3>1, <3>2, <3>3
    <3> QED BY <3>4 DEF SteadyFollowersReached
  <2> QED BY <1>4, <1>5, <1>6, <2>5, <2>6, <2>7, <2>8, <2>9, <2>10, <2>11, <2>12 DEF IInv
<1> QED BY <1>1, <1>8, <1>9 DEF Ack, NackRequeue, broker

----------------------------------------------------------------------------
(* A crash gives everything outstanding back to the queue.                   *)
LEMMA CrashStep == IInv /\ Crash => IInv'
<1> SUFFICES ASSUME IInv, Crash PROVE IInv'
  OBVIOUS
<1>1. /\ alive' = FALSE /\ open' = FALSE /\ unacked' = {}
      /\ ready' = ready \union MsgsOf(unacked)
      /\ (faults' = faults \/ (faults < MaxFaults /\ faults' = faults + 1))
      /\ UNCHANGED <<env, tags, feeds, acked, blind, reached>>
  BY DEF Crash, CloseChannel, Fault
<1>2. /\ h' \in [Tags -> Handler]
      /\ \A t \in Tags : /\ h'[t].msg = h[t].msg /\ h'[t].pc \in {"idle", "done"}
                         /\ h[t].pc = "idle" => h'[t] = h[t]
                         /\ h[t].pc # "idle" => h'[t].pc = "done"
  <2>1. h' = [t \in Tags |-> IF h[t].pc = "idle" THEN h[t] ELSE [h[t] EXCEPT !.pc = "done"]]
    BY DEF Crash
  <2>2. \A t \in Tags : h[t] \in Handler
    BY DEF IInv, TypeOK
  <2>3. \A t \in Tags : [h[t] EXCEPT !.pc = "done"] \in Handler
    BY <2>2 DEF Handler
  <2>4. \A t \in Tags : h'[t] = IF h[t].pc = "idle" THEN h[t] ELSE [h[t] EXCEPT !.pc = "done"]
    BY <2>1
  <2>5. h' \in [Tags -> Handler]
    BY <2>1, <2>2, <2>3
  <2> QED BY <2>2, <2>4, <2>5 DEF Handler
<1>3. /\ followers' = followers /\ published' = published /\ body' = body
      /\ author' = author /\ steady' = steady /\ ever' = ever /\ lost' = lost
      /\ \A n : ReachedBy(n)' = ReachedBy(n)
  BY <1>1 DEF env, ReachedBy
<1>4. MsgsOf(unacked)' = {} /\ \A t \in Tags : ~Running(t)'
  BY <1>1, <1>2 DEF MsgsOf, Running
<1>5. TypeOK'
  <2>1. MsgsOf(unacked) \subseteq Msgs
    BY DEF IInv, OnePlace, TypeOK
  <2>2. faults' \in 0..MaxFaults
    BY <1>1 DEF IInv, TypeOK
  <2>3. ready' \subseteq Msgs /\ unacked' \subseteq 1..tags'
    BY <1>1, <2>1 DEF IInv, TypeOK
  <2> QED BY <1>1, <1>2, <1>3, <2>2, <2>3 DEF IInv, TypeOK
<1>6. TagsInv'
  BY <1>1, <1>2, <1>3 DEF IInv, TagsInv, Idle
<1>7. OnePlace'
  BY <1>1, <1>3, <1>4 DEF IInv, OnePlace
<1>8. ChannelInv'
  BY <1>1, <1>4, Zenon DEF ChannelInv
<1>9. SettledInv' /\ HandlerInv' /\ LookupInv'
  BY <1>1, <1>2, <1>4 DEF SettledInv, HandlerInv, LookupInv
<1>10. BadBodyNeverAcked' /\ AudienceInv' /\ SteadyFollowersReached' /\ OnlyFollowersReached'
  BY <1>1, <1>3 DEF IInv, BadBodyNeverAcked, AudienceInv, SteadyFollowersReached,
                    OnlyFollowersReached, Pending
<1> QED BY <1>5, <1>6, <1>7, <1>8, <1>9, <1>10 DEF IInv

(* A broken connection keeps it: what was outstanding is back in the queue,  *)
(* the handlers go on without a channel.                                     *)
LEMMA ChannelLostStep == IInv /\ ChannelLost => IInv'
<1> SUFFICES ASSUME IInv, ChannelLost PROVE IInv'
  OBVIOUS
<1>1. /\ open /\ open' = FALSE /\ unacked' = {} /\ ready' = ready \union MsgsOf(unacked)
      /\ faults < MaxFaults /\ faults' = faults + 1
      /\ UNCHANGED <<env, alive, tags, h, feeds, acked, blind, reached>>
  BY DEF ChannelLost, CloseChannel, Fault
<1>2. /\ MsgsOf(unacked)' = {} /\ alive
      /\ \A t \in Tags : Running(t)' <=> Running(t)
      /\ \A n : ReachedBy(n)' = ReachedBy(n)
  BY <1>1, Zenon DEF MsgsOf, Running, ReachedBy, IInv, ChannelInv
<1>3. /\ followers' = followers /\ published' = published /\ body' = body
      /\ author' = author /\ steady' = steady /\ ever' = ever /\ lost' = lost
  BY <1>1 DEF env
<1>4. TypeOK'
  <2>1. MsgsOf(unacked) \subseteq Msgs
    BY DEF IInv, OnePlace, TypeOK
  <2>2. faults' \in 0..MaxFaults /\ ready' \subseteq Msgs /\ unacked' \subseteq 1..tags'
    <3>1. faults \in 0..MaxFaults /\ ready \subseteq Msgs
      BY DEF IInv, TypeOK
    <3>2. faults' \in 0..MaxFaults
      BY <1>1, <3>1
    <3>3. ready' \subseteq Msgs /\ unacked' = {}
      BY <1>1, <2>1, <3>1
    <3> QED BY <3>2, <3>3
  <2>3. open' \in BOOLEAN /\ alive' \in BOOLEAN
    <3>1. alive' = alive /\ open' = FALSE
      BY <1>1
    <3>2. alive \in BOOLEAN
      BY Zenon DEF IInv, TypeOK
    <3>3. open' \in BOOLEAN
      BY <3>1, Zenon
    <3> QED BY <3>1, <3>2, <3>3, Zenon
  <2>4. TypeOK
    BY DEF IInv
  <2> QED BY <1>1, <1>3, <2>2, <2>3, <2>4 DEF TypeOK
<1>5. TagsInv' /\ LookupInv'
  BY <1>1, <1>3 DEF IInv, TagsInv, LookupInv
<1>6. OnePlace'
  BY <1>1, <1>2, <1>3 DEF IInv, OnePlace
<1>7. ChannelInv'
  BY <1>1, <1>2, Zenon DEF ChannelInv
<1>8. SettledInv'
  BY <1>1 DEF SettledInv
<1>9. HandlerInv'
  BY <1>1, <1>2, <1>3 DEF IInv, HandlerInv
<1>10. BadBodyNeverAcked' /\ AudienceInv' /\ SteadyFollowersReached' /\ OnlyFollowersReached'
  BY <1>1, <1>2, <1>3 DEF IInv, BadBodyNeverAcked, AudienceInv, SteadyFollowersReached,
                          OnlyFollowersReached, Pending
<1> QED BY <1>4, <1>5, <1>6, <1>7, <1>8, <1>9, <1>10 DEF IInv

(* A restart of the broker keeps it: all that the queue held or had given    *)
(* out is lost.                                                              *)
LEMMA BrokerRestartStep == IInv /\ BrokerRestart => IInv'
<1> SUFFICES ASSUME IInv, BrokerRestart PROVE IInv'
  OBVIOUS
<1>1. /\ open' = FALSE /\ unacked' = {} /\ ready' = {}
      /\ lost' = lost \union ready \union MsgsOf(unacked)
      /\ faults < MaxFaults /\ faults' = faults + 1
      /\ UNCHANGED <<followers, published, body, author, steady, ever, alive, tags, h, feeds,
                     acked, blind, reached>>
  BY DEF BrokerRestart, Dropped, Fault
<1>2. /\ MsgsOf(unacked)' = {}
      /\ \A t \in Tags : Running(t)' <=> Running(t)
      /\ \A n : ReachedBy(n)' = ReachedBy(n)
  BY <1>1 DEF MsgsOf, Running, ReachedBy
<1>3. TypeOK'
  <2>1. MsgsOf(unacked) \subseteq Msgs
    BY DEF IInv, OnePlace, TypeOK
  <2>2. /\ faults' \in 0..MaxFaults /\ ready' \subseteq Msgs /\ unacked' \subseteq 1..tags'
        /\ lost' \subseteq Msgs
    <3>1. faults \in 0..MaxFaults /\ ready \subseteq Msgs /\ lost \subseteq Msgs
      BY DEF IInv, TypeOK
    <3>2. faults' \in 0..MaxFaults
      BY <1>1, <3>1
    <3>3. ready' = {} /\ unacked' = {} /\ lost' \subseteq Msgs
      BY <1>1, <2>1, <3>1
    <3> QED BY <3>2, <3>3
  <2>3. open' \in BOOLEAN /\ alive' \in BOOLEAN
    <3>1. alive' = alive /\ open' = FALSE
      BY <1>1
    <3>2. alive \in BOOLEAN
      BY Zenon DEF IInv, TypeOK
    <3>3. open' \in BOOLEAN
      BY <3>1, Zenon
    <3> QED BY <3>1, <3>2, <3>3, Zenon
  <2>4. TypeOK
    BY DEF IInv
  <2> QED BY <1>1, <2>2, <2>3, <2>4 DEF TypeOK
<1>4. TagsInv' /\ LookupInv'
  BY <1>1 DEF IInv, TagsInv, LookupInv
<1>5. OnePlace'
  BY <1>1, <1>2 DEF IInv, OnePlace
<1>6. ChannelInv'
  <2>1. ~alive' => \A t \in Tags : ~Running(t)'
    BY <1>1, <1>2, Zenon DEF IInv, ChannelInv
  <2> QED BY <1>1, <2>1, Zenon DEF ChannelInv
<1>7. SettledInv'
  BY <1>1 DEF SettledInv
<1>8. HandlerInv'
  BY <1>1, <1>2 DEF IInv, HandlerInv
<1>9. BadBodyNeverAcked' /\ AudienceInv' /\ SteadyFollowersReached' /\ OnlyFollowersReached'
  BY <1>1, <1>2 DEF IInv, BadBodyNeverAcked, AudienceInv, SteadyFollowersReached,
                    OnlyFollowersReached, Pending
<1> QED BY <1>3, <1>4, <1>5, <1>6, <1>7, <1>8, <1>9 DEF IInv

(* A new worker process keeps it: no handler of the old one runs any more.   *)
LEMMA StartStep == IInv /\ Start => IInv'
<1> SUFFICES ASSUME IInv, Start PROVE IInv'
  OBVIOUS
<1>1. /\ alive' = TRUE /\ open' = TRUE
      /\ UNCHANGED <<env, ready, unacked, tags, h, feeds, faults, acked, blind, reached>>
  BY DEF Start
<1>2. \A t \in Tags : ~Running(t)
  BY Zenon DEF Start, IInv, ChannelInv
<1>3. TypeOK'
  BY <1>1 DEF IInv, TypeOK, env
<1>4. TagsInv' /\ OnePlace' /\ LookupInv'
  BY <1>1 DEF IInv, TagsInv, OnePlace, LookupInv, MsgsOf, env
<1>5. \A t \in Tags : ~Running(t)'
  BY <1>1, <1>2 DEF Running
<1>6. \A t \in unacked' : Running(t)'
  BY <1>1 DEF IInv, ChannelInv, Running
<1>7. ChannelInv'
  BY <1>1, <1>6, Zenon DEF ChannelInv
<1>8. unacked' \subseteq Tags
  BY <1>3 DEF TypeOK
<1>9. SettledInv' /\ HandlerInv'
  BY <1>5, <1>6, <1>8 DEF SettledInv, HandlerInv
<1>10. BadBodyNeverAcked' /\ AudienceInv' /\ SteadyFollowersReached' /\ OnlyFollowersReached'
  BY <1>1 DEF IInv, BadBodyNeverAcked, AudienceInv, SteadyFollowersReached,
              OnlyFollowersReached, Pending, ReachedBy, env
<1> QED BY <1>3, <1>4, <1>7, <1>9, <1>10 DEF IInv

(* A step that changes nothing keeps the invariant.                          *)
LEMMA StutterStep == IInv /\ UNCHANGED vars => IInv'
<1> SUFFICES ASSUME IInv, UNCHANGED vars PROVE IInv'
  OBVIOUS
<1>1. TypeOK'
  BY DEF vars, IInv, TypeOK
<1>2. OnePlace' /\ BadBodyNeverAcked' /\ SteadyFollowersReached' /\ OnlyFollowersReached'
  BY DEF vars, IInv, OnePlace, BadBodyNeverAcked, SteadyFollowersReached, OnlyFollowersReached,
         MsgsOf, ReachedBy
<1>3. TagsInv' /\ ChannelInv' /\ SettledInv' /\ LookupInv'
  BY DEF vars, IInv, TagsInv, ChannelInv, SettledInv, LookupInv, Running
<1>4. AudienceInv' /\ HandlerInv'
  BY DEF vars, IInv, AudienceInv, HandlerInv, Running, Pending, ReachedBy
<1> QED BY <1>1, <1>2, <1>3, <1>4 DEF IInv

----------------------------------------------------------------------------
(* Every reachable state satisfies the inductive invariant.                  *)
THEOREM Invariance == Spec => []IInv
<1>1. Init => IInv
  BY InitIInv
<1>2. IInv /\ [Next]_vars => IInv'
  <2> SUFFICES ASSUME IInv, [Next]_vars PROVE IInv'
    OBVIOUS
  <2>1. ASSUME NEW t \in Tags, HandlerStep(t) PROVE IInv'
    BY <2>1, DecodeStep, LookupOkStep, LookupFailedStep, PushOkStep, PushFailedStep,
       TrimStep, FinishStep DEF HandlerStep
  <2>2. ASSUME NEW a \in Authors, NEW r \in Readers, Follow(a, r) \/ Unfollow(a, r) PROVE IInv'
    BY <2>2, FollowStep, UnfollowStep
  <2> QED
    BY <2>1, <2>2, PublishStep, DeliverStep, CrashStep, ChannelLostStep,
       BrokerRestartStep, StartStep, StutterStep DEF Next
<1> QED BY <1>1, <1>2, PTL DEF Spec

(* Type correctness of the fan-out worker.                                   *)
THEOREM TypeCorrect == Spec => []TypeOK
BY Invariance, PTL DEF IInv

(* A published message is queued, outstanding, acknowledged or gone with a   *)
(* restart of the broker, never two of these, through crashes, broken        *)
(* connections, failed pushes and double settlements.                        *)
THEOREM NothingLost == Spec => []OnePlace
BY Invariance, PTL DEF IInv

(* An acknowledged message whose followers were read has reached everyone    *)
(* who followed throughout.                                                  *)
THEOREM FanoutComplete == Spec => []SteadyFollowersReached
BY Invariance, PTL DEF IInv

(* A tweet reaches nobody who did not follow its author while it was under   *)
(* way.                                                                      *)
THEOREM FanoutSound == Spec => []OnlyFollowersReached
BY Invariance, PTL DEF IInv

(* A handler of a well-formed message settles its delivery once: it is never *)
(* one of its steps that makes the broker close the channel.                 *)
THEOREM GoodBodiesKeep == Spec => GoodBodiesKeepChannel
<1>1. ASSUME IInv, NEW t \in Tags, HandlerStep(t), open, ~open'
      PROVE  body[h[t].msg] # "tweet"
  <2>1. ASSUME Running(t), t \notin unacked PROVE body[h[t].msg] # "tweet"
    BY <1>1, <2>1, Zenon DEF IInv, SettledInv
  <2>2. CASE Decode(t)
    BY <1>1, <2>2 DEF Decode, broker
  <2>3. CASE LookupOk(t) \/ LookupFailed(t) \/ Trim(t)
    BY <1>1, <2>3, Zenon DEF LookupOk, LookupFailed, Trim, broker
  <2>4. ASSUME NEW r \in Readers, PushOk(t, r) PROVE FALSE
    BY <1>1, <2>4, Zenon DEF PushOk, broker
  <2>5. ASSUME NEW r \in Readers, PushFailed(t, r) PROVE t \notin unacked /\ Running(t)
    <3>1. NackRequeue(t) /\ Running(t)
      BY <2>5 DEF PushFailed, OnPushError, Running
    <3> QED BY <1>1, <3>1, Zenon DEF NackRequeue
  <2>6. CASE Finish(t)
    <3>1. Ack(t) /\ Running(t)
      BY <2>6 DEF Finish, Running
    <3>2. t \notin unacked
      BY <1>1, <3>1, Zenon DEF Ack, broker
    <3> QED BY <2>1, <3>1, <3>2
  <2> QED BY <1>1, <2>1, <2>2, <2>3, <2>4, <2>5, <2>6 DEF HandlerStep
<1>2. IInv => \A t \in Tags : HandlerStep(t) /\ open /\ ~open' => body[h[t].msg] # "tweet"
  BY <1>1
<1>3. IInv /\ [Next]_vars
        => [\A t \in Tags : HandlerStep(t) /\ open /\ ~open' => body[h[t].msg] # "tweet"]_vars
  BY <1>2
<1> QED BY Invariance, <1>3, PTL DEF Spec, GoodBodiesKeepChannel

(* A body that cannot be decoded is never acknowledged: of the Nack and the  *)
(* Ack of its delivery tag the second closes the channel.                    *)
THEOREM BadBodiesUnsettled == Spec => []BadBodyNeverAcked
BY Invariance, PTL DEF IInv

----------------------------------------------------------------------------
(* The worker implements the abstract delivery.                              *)

(* Only a failed lookup leaves a handler of a tweet without its followers.   *)
DropInv ==
    \A t \in Tags :
        h[t].pc \in {"push", "trim"} /\ body[h[t].msg] = "tweet" /\ ~h[t].ok
            => "lookup" \in Failures

(* Only a failed lookup can lead to an acknowledgement of a tweet whose      *)
(* followers were not read: what every step keeps.                           *)
LEMMA DropStep == IInv /\ DropInv /\ [Next]_vars => DropInv'
<1> SUFFICES ASSUME IInv, DropInv, [Next]_vars PROVE DropInv'
  OBVIOUS
<1>1. h \in [Tags -> Handler]
  BY DEF IInv, TypeOK
<1>2. ASSUME NEW t \in Tags, body' = body,
             \A u \in Tags \ {t} : h'[u] = h[u],
             h'[t].pc \in {"push", "trim"} /\ body[h'[t].msg] = "tweet" /\ ~h'[t].ok
                 => "lookup" \in Failures
      PROVE  DropInv'
  BY <1>2 DEF DropInv
<1>3. ASSUME NEW t \in Tags, HandlerStep(t) PROVE DropInv'
  <2> h[t] \in Handler
    BY <1>1
  <2>1. CASE Decode(t)
    BY <1>1, <1>2, <2>1 DEF Decode, Handler, env
  <2>2. CASE LookupOk(t)
    BY <1>1, <1>2, <2>2 DEF LookupOk, Handler, env
  <2>3. CASE LookupFailed(t)
    BY <1>1, <1>2, <2>3 DEF LookupFailed, Handler, env
  <2>4. ASSUME NEW r \in Readers, PushOk(t, r) PROVE DropInv'
    <3>1. h' = [h EXCEPT ![t].pc = "trim", ![t].todo = Remaining(t, r), ![t].cur = {r}]
      BY <2>4 DEF PushOk
    <3>2. h'[t].msg = h[t].msg /\ h'[t].ok = h[t].ok /\ h[t].pc = "push"
      BY <1>1, <2>4, <3>1 DEF PushOk, Handler
    <3> QED BY <1>1, <1>2, <2>4, <3>1, <3>2 DEF PushOk, DropInv, env
  <2>5. ASSUME NEW r \in Readers, PushFailed(t, r) PROVE DropInv'
    BY <1>1, <1>2, <2>5 DEF PushFailed, OnPushError, Handler, env
  <2>6. CASE Trim(t)
    <3>1. h' = [h EXCEPT ![t].pc = "push", ![t].cur = {}]
      BY <2>6 DEF Trim
    <3>2. h'[t].msg = h[t].msg /\ h'[t].ok = h[t].ok /\ h[t].pc = "trim"
      BY <1>1, <2>6, <3>1 DEF Trim, Handler
    <3> QED BY <1>1, <1>2, <2>6, <3>1, <3>2 DEF Trim, DropInv, env
  <2>7. CASE Finish(t)
    BY <1>1, <1>2, <2>7 DEF Finish, Handler, env
  <2> QED BY <1>3, <2>1, <2>2, <2>3, <2>4, <2>5, <2>6, <2>7 DEF HandlerStep
<1>4. CASE Deliver
  <2>1. PICK m \in ready : h' = [h EXCEPT ![tags + 1] = [Idle EXCEPT !.msg = m, !.pc = "decode"]]
    BY <1>4 DEF Deliver
  <2>2. tags + 1 \in Tags
    BY <1>4 DEF Deliver, IInv, TypeOK
  <2> QED BY <1>1, <1>2, <1>4, <2>1, <2>2 DEF Deliver, Idle, env
<1>5. CASE Crash
  <2>1. \A t \in Tags : h'[t].pc \notin {"push", "trim"}
    BY <1>1, <1>5 DEF Crash, Handler
  <2> QED BY <2>1 DEF DropInv
<1>6. CASE body' = body /\ h' = h
  BY <1>6 DEF DropInv
<1> QED
  BY <1>3, <1>4, <1>5, <1>6
     DEF Next, Publish, Follow, Unfollow, ChannelLost, BrokerRestart, Start, vars, env

(* In every reachable state, a tweet was given up only if lookups may fail.  *)
LEMMA DropInvariance == Spec => []DropInv
<1>1. Init => DropInv
  BY DEF Init, DropInv, Idle
<1> QED BY <1>1, DropStep, Invariance, PTL DEF Spec

(* The abstract state, and what leaves it alone.                             *)
LEMMA Stutter ==
    ASSUME UNCHANGED <<env, acked, blind, reached>>
    PROVE  UNCHANGED Delivery!vars
BY DEF env, Delivery!vars, Delivery!given, Pending

(* The initial states of the worker map to initial states of FeedDelivery.   *)
LEMMA RefineInit == Init => Delivery!Init
<1> SUFFICES ASSUME Init PROVE Delivery!Init
  OBVIOUS
<1>1. Pending \ lost = {} /\ acked \ blind = {}
  BY DEF Init, Pending
<1>2. [r \in Readers |-> reached[r] \ {EmptyId}] = [r \in Readers |-> {}]
  BY DEF Init
<1>3. ("lookup" \in Failures) \in BOOLEAN /\ ("broker" \in Failures) \in BOOLEAN
  OBVIOUS
<1> QED BY <1>1, <1>2, <1>3 DEF Init, Delivery!Init, Delivery!Msgs

(* A push is one step of the abstract delivery, or none.                     *)
LEMMA RefinePush ==
    ASSUME IInv, NEW t \in Tags, Running(t), NEW r \in h[t].todo, NEW copies \in Nat,
           LPush(t, r, copies), UNCHANGED <<env, acked, blind>>
    PROVE  [Delivery!Next]_Delivery!vars
<1> DEFINE m == h[t].msg
<1>1. m \in Msgs /\ m \in 1..published /\ r \in Readers /\ reached \in [Readers -> SUBSET Entries]
  BY RunningFacts DEF Handler, IInv, TypeOK
<1>2. reached' = [reached EXCEPT ![r] = IF copies > 0 THEN @ \union {EntryOf(m)} ELSE @]
  BY DEF LPush
<1>3. CASE copies = 0
  BY <1>1, <1>2, <1>3, Stutter
<1>4. CASE copies > 0 /\ body[m] = "tweet"
  <2>1. m \in (Pending \ lost) \union lost /\ r \in ever[m]
    BY <1>1, <1>4 DEF IInv, HandlerInv, Pending
  <2>2. reached' = [reached EXCEPT ![r] = @ \union {m}]
    BY <1>2, <1>4 DEF EntryOf
  <2>3. [q \in Readers |-> reached'[q] \ {EmptyId}]
           = [[q \in Readers |-> reached[q] \ {EmptyId}] EXCEPT ![r] = @ \union {m}]
    <3>1. m # EmptyId
      BY <1>1
    <3>2. \A q \in Readers : reached'[q] = IF q = r THEN reached[q] \union {m} ELSE reached[q]
      BY <1>1, <2>2
    <3>3. \A q \in Readers : reached'[q] \ {EmptyId}
                           = IF q = r THEN (reached[q] \ {EmptyId}) \union {m}
                                      ELSE reached[q] \ {EmptyId}
      BY <3>1, <3>2
    <3> QED BY <1>1, <3>3
  <2>4. Delivery!Reach(m, r)
    BY <2>1, <2>3 DEF Delivery!Reach, Delivery!given, env, Pending
  <2> QED BY <1>1, <2>4 DEF Delivery!Next, Delivery!Msgs
<1>5. CASE copies > 0 /\ body[m] # "tweet"
  <2>1. reached' = [reached EXCEPT ![r] = @ \union {EmptyId}]
    BY <1>2, <1>5 DEF EntryOf
  <2>2. [q \in Readers |-> reached'[q] \ {EmptyId}] = [q \in Readers |-> reached[q] \ {EmptyId}]
    BY <1>1, <2>1
  <2>3. UNCHANGED Delivery!vars
    BY <2>2 DEF Delivery!vars, Delivery!given, env, Pending
  <2> QED BY <2>3
<1> QED BY <1>3, <1>4, <1>5

(* An acknowledgement settles the tweet, or drops it after a failed lookup.  *)
LEMMA RefineFinish ==
    ASSUME IInv, DropInv, NEW t \in Tags, Finish(t)
    PROVE  [Delivery!Next]_Delivery!vars
<1> DEFINE m == h[t].msg
<1>1. /\ h[t].pc = "push" /\ Running(t) /\ h[t].todo = {} /\ Ack(t)
      /\ UNCHANGED <<env, reached>>
  BY DEF Finish, LoopEnded, Running
<1>2. m \in Msgs /\ m \in 1..published /\ h[t] \in Handler
  BY <1>1, RunningFacts
<1>3. CASE UNCHANGED <<acked, blind>>
  BY <1>1, <1>3, Stutter
<1>4. CASE /\ t \in unacked
           /\ acked' = acked \union {m}
           /\ blind' = IF h[t].ok THEN blind ELSE blind \union {m}
  <2>1. body[m] = "tweet"
    BY <1>1, <1>4 DEF IInv, SettledInv
  <2>2. /\ m \in Pending \ lost /\ m \notin acked /\ m \notin blind
        /\ Pending' \ lost' = (Pending \ lost) \ {m}
    <3>1. m \in MsgsOf(unacked)
      BY <1>4 DEF MsgsOf
    <3>2. m \notin lost /\ m \notin acked /\ blind \subseteq acked
      BY <3>1 DEF IInv, OnePlace, TypeOK
    <3> QED BY <1>1, <1>2, <1>4, <3>2 DEF Pending, env
  <2>3. CASE h[t].ok
    <3>1. \A r \in steady[m] : m \in reached[r] \ {EmptyId} /\ r \in Readers
      <4>1. steady[m] \subseteq ReachedBy(m)
        BY <1>1, <2>1, <2>3, Zenon DEF IInv, HandlerInv
      <4> QED BY <1>2, <4>1 DEF ReachedBy
    <3>2. acked' \ blind' = (acked \ blind) \union {m} /\ blind' = blind
      BY <1>4, <2>2, <2>3
    <3>3. Delivery!Settle(m)
      BY <1>1, <2>2, <3>1, <3>2 DEF Delivery!Settle, Delivery!given, env
    <3> QED BY <1>2, <3>3 DEF Delivery!Next, Delivery!Msgs
  <2>4. CASE ~h[t].ok
    <3>1. "lookup" \in Failures
      BY <1>1, <2>1, <2>4 DEF DropInv
    <3>2. acked' \ blind' = acked \ blind /\ blind' = blind \union {m}
      BY <1>4, <2>2, <2>4
    <3>3. Delivery!Drop(m)
      BY <1>1, <2>2, <3>1, <3>2 DEF Delivery!Drop, Delivery!given, env
    <3> QED BY <1>2, <3>3 DEF Delivery!Next, Delivery!Msgs
  <2> QED BY <2>3, <2>4
<1> QED BY <1>1, <1>3, <1>4 DEF Ack, broker

(* Every step of the worker maps to a step of FeedDelivery or to none.       *)
LEMMA RefineStep == IInv /\ DropInv /\ [Next]_vars => [Delivery!Next]_Delivery!vars
<1> SUFFICES ASSUME IInv, DropInv, [Next]_vars PROVE [Delivery!Next]_Delivery!vars
  OBVIOUS
<1>0. lost \subseteq Pending
  BY DEF Pending, IInv, OnePlace
<1>1. CASE Publish
  <2> DEFINE new == published + 1
  <2>1. /\ new \in Msgs /\ new \notin 1..published /\ 1..published' = (1..published) \union {new}
        /\ 1..published = ready \union MsgsOf(unacked) \union acked \union lost /\ blind \subseteq acked
    BY <1>1 DEF Publish, IInv, TypeOK, OnePlace
  <2>2. /\ Pending' \ lost' = (Pending \ lost) \union {new}
        /\ new \notin (Pending \ lost) \union (acked \ blind) \union blind \union lost
    BY <1>1, <2>1 DEF Publish, Pending
  <2>3. Delivery!Publish(new)
    BY <1>1, <2>2 DEF Publish, Delivery!Publish, Delivery!given
  <2> QED BY <2>1, <2>3 DEF Delivery!Next, Delivery!Msgs
<1>2. ASSUME NEW a \in Authors, NEW r \in Readers, Follow(a, r)
      PROVE  [Delivery!Next]_Delivery!vars
  <2>1. Delivery!Affected(a) = Affected(a)
    BY <1>0 DEF Affected, Delivery!Affected
  <2>2. Delivery!Follow(a, r)
    BY <1>2, <2>1 DEF Follow, Delivery!Follow, Delivery!given, Pending, Delivery!Msgs
  <2> QED BY <2>2 DEF Delivery!Next
<1>3. ASSUME NEW a \in Authors, NEW r \in Readers, Unfollow(a, r)
      PROVE  [Delivery!Next]_Delivery!vars
  <2>1. Delivery!Affected(a) = Affected(a)
    BY <1>0 DEF Affected, Delivery!Affected
  <2>2. Delivery!Unfollow(a, r)
    BY <1>3, <2>1 DEF Unfollow, Delivery!Unfollow, Delivery!given, Pending, Delivery!Msgs
  <2> QED BY <2>2 DEF Delivery!Next
<1>4. CASE Deliver \/ Crash \/ ChannelLost \/ Start \/ UNCHANGED vars
  BY <1>4, Stutter DEF Deliver, Crash, ChannelLost, Start, vars, env
<1>5. ASSUME NEW t \in Tags, HandlerStep(t) PROVE [Delivery!Next]_Delivery!vars
  <2>1. CASE Decode(t) \/ LookupOk(t) \/ LookupFailed(t) \/ Trim(t)
    BY <2>1, Stutter DEF Decode, OnDecodeError, NackRequeue, LookupOk, LookupFailed, Trim, broker
  <2>2. ASSUME NEW r \in Readers, PushOk(t, r) PROVE [Delivery!Next]_Delivery!vars
    BY <2>2, RefinePush DEF PushOk, Running, env, broker
  <2>3. ASSUME NEW r \in Readers, PushFailed(t, r) PROVE [Delivery!Next]_Delivery!vars
    BY <2>3, RefinePush DEF PushFailed, OnPushError, NackRequeue, Running, env
  <2> QED BY <1>5, <2>1, <2>2, <2>3, RefineFinish DEF HandlerStep
<1>6. CASE BrokerRestart
  <2> DEFINE S == ready \union MsgsOf(unacked)
  <2>1. /\ S \subseteq Pending \ lost /\ S \in SUBSET Delivery!Msgs
        /\ Pending \subseteq Msgs
    BY DEF IInv, OnePlace, TypeOK, Pending, Delivery!Msgs
  <2>2. /\ "broker" \in Failures /\ lost' = lost \union S /\ Pending' = Pending
        /\ UNCHANGED <<followers, author, acked, blind, reached, steady, ever>>
    BY <1>6 DEF BrokerRestart, Dropped, Fault, Pending
  <2>3. Delivery!Lose(S)
    BY <2>1, <2>2 DEF Delivery!Lose, Delivery!given
  <2> QED BY <2>1, <2>3 DEF Delivery!Next
<1> QED BY <1>1, <1>2, <1>3, <1>4, <1>5, <1>6 DEF Next

(* The worker with its queue and Redis implements the abstract delivery: a   *)
(* tweet is settled only when everyone who followed throughout has it.       *)
THEOREM Refinement == Spec => DeliverySpec
<1>1. Spec => []IInv /\ []DropInv
  BY Invariance, DropInvariance
<1> QED BY <1>1, RefineInit, RefineStep, PTL DEF Spec, DeliverySpec, Delivery!Spec

=============================================================================
