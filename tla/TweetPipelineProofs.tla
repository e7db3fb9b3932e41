------------------------ MODULE TweetPipelineProofs -------------------------
(* Proofs about TweetPipeline, for any number of posts, events, requests and *)
(* failures.                                                                 *)
EXTENDS TweetPipeline, FiniteSetTheorems, SequenceTheorems, WellFoundedInduction, TLAPS

(* How far a request has come.                                               *)
RequestInv ==
    \A q \in Slots :
        /\ req[q].pc # "idle" => req[q].post \in 1..requested
        /\ req[q].pc \in {"refresh", "count", "feed", "events"} => req[q].post \in committed
        /\ req[q].pc \in {"feed", "events"} => req[q].post \in counted \union uncounted
        /\ req[q].pc = "events" => <<req[q].post, "general_tweets">> \in sent

(* Every event is about a post that was committed.                           *)
EventPosts == \A m \in DOMAIN events : events[m].post \in committed

(* The delivery in work is one of an event, and has settled nothing when its *)
(* channel is gone, which leaves no other delivery.                          *)
CurInv ==
    /\ cur.stage # "none" => cur.n \in DOMAIN events
    /\ cur.stage # "none" /\ ~cur.held => ~listening
    /\ ~listening => inbox = << >>
    /\ ~alive => ~listening /\ cur.stage = "none"

(* EventOnePlace, without the tuple of places.                               *)
Held == ToSet(inbox) \union InHand

Placed ==
    /\ DOMAIN events = ready \union ToSet(inbox) \union InHand \union acked \union rejected \union lost
    /\ ready \intersect (Held \union acked \union rejected \union lost) = {}
    /\ ToSet(inbox) \intersect InHand = {}
    /\ Held \intersect (acked \union rejected \union lost) = {}
    /\ acked \intersect (rejected \union lost) = {}
    /\ rejected \intersect lost = {}
    /\ IsInjective(inbox)

IInv ==
    /\ TypeOK
    /\ RequestInv
    /\ EventPosts
    /\ CurInv
    /\ NothingBeforeCommit
    /\ OkMeansDone
    /\ Placed

USE BrokerAssumption, IndexingAssumption DEF Posts, Keys, EventKeys, Queues

(* Initially the broker is empty and nobody works.                           *)
LEMMA InitInv == Init => IInv
<1> SUFFICES ASSUME Init PROVE IInv
  OBVIOUS
<1> USE DEF Init, BrokerInit, CreationInit, IndexingInit
<1>1. BrokerType
  BY DEF BrokerType, Event
<1>2. CreationType
  BY DEF CreationType, Idle, Steps
<1>3. IndexingType
  <2>1. DOMAIN events = {} /\ inbox \in Seq(DOMAIN events)
    OBVIOUS
  <2>2. cur \in [n : 0..MaxEvents, stage : {"none", "recreate", "settle"}, err : BOOLEAN, held : BOOLEAN]
    BY DEF None
  <2>3. index = {} /\ docs \in Nat /\ deliveries \in [1..MaxEvents -> Nat]
    OBVIOUS
  <2>4. /\ alive \in BOOLEAN /\ listening \in BOOLEAN
        /\ acked \subseteq DOMAIN events /\ rejected \subseteq DOMAIN events /\ requeued \subseteq DOMAIN events
    BY Zenon
  <2> QED
    BY <2>1, <2>2, <2>3, <2>4 DEF IndexingType
<1>4. RequestInv /\ EventPosts /\ CurInv /\ NothingBeforeCommit /\ OkMeansDone
  BY DEF RequestInv, EventPosts, CurInv, NothingBeforeCommit, OkMeansDone, Idle, None
<1>5. Placed
  BY DEF Placed, Held, ToSet, InHand, None, IsInjective
<1> QED
  BY <1>1, <1>2, <1>3, <1>4, <1>5 DEF IInv, TypeOK

(* What a publication does: nothing to tweet_events, or one more event waits *)
(* there.                                                                    *)
LEMMA PublishFacts ==
    ASSUME BrokerType, NEW bound, NEW key \in Keys, NEW post \in Posts, NEW json \in BOOLEAN,
           BasicPublish(bound, key, post, json)
    PROVE  /\ \/ UNCHANGED <<events, ready>>
              \/ /\ events' = Append(events, [key |-> key, post |-> post, json |-> json])
                 /\ ready' = ready \union {Len(events) + 1}
                 /\ Len(events) + 1 <= MaxEvents
                 /\ Len(events') = Len(events) + 1
                 /\ events'[Len(events) + 1].post = post
           /\ events' \in Seq(Event) /\ Len(events') <= MaxEvents
           /\ DOMAIN events \subseteq DOMAIN events' /\ \A m \in DOMAIN events : events'[m] = events[m]
           /\ ready' \subseteq DOMAIN events'
           /\ fed' \subseteq Posts
           /\ sent' = sent \union {<<post, key>>}
<1>1. events \in Seq(Event) /\ Len(events) \in Nat /\ DOMAIN events = 1..Len(events)
  BY DEF BrokerType
<1>2. [key |-> key, post |-> post, json |-> json] \in Event
  BY DEF Event
<1>3. sent' = sent \union {<<post, key>>} /\ fed' \subseteq Posts
  BY DEF BasicPublish, BrokerType
<1>4. CASE "tweet_events" \in Route(bound, key)
  <2>1. /\ Len(events) < MaxEvents
        /\ events' = Append(events, [key |-> key, post |-> post, json |-> json])
        /\ ready' = ready \union {Len(events) + 1}
    BY <1>4 DEF BasicPublish
  <2>2. /\ events' \in Seq(Event) /\ Len(events') = Len(events) + 1
        /\ \A m \in 1..Len(events) : events'[m] = events[m]
        /\ events'[Len(events) + 1].post = post
        /\ DOMAIN events' = 1..(Len(events) + 1)
    BY <1>1, <1>2, <2>1
  <2>3. ready' \subseteq DOMAIN events'
    BY <1>1, <2>1, <2>2 DEF BrokerType
  <2>4. Len(events') <= MaxEvents /\ Len(events) + 1 <= MaxEvents
    BY <1>1, <2>1, <2>2
  <2>5. DOMAIN events \subseteq DOMAIN events'
    BY <1>1, <2>2
  <2> QED
    BY <1>1, <1>3, <2>1, <2>2, <2>3, <2>4, <2>5
<1>5. CASE "tweet_events" \notin Route(bound, key)
  <2>1. UNCHANGED <<events, ready>>
    BY <1>5 DEF BasicPublish
  <2> QED
    BY <1>1, <1>3, <2>1 DEF BrokerType
<1> QED
  BY <1>4, <1>5

(* The two ways to say where events are.                                     *)
LEMMA PlacedIsOnePlace == Placed => EventOnePlace
<1> SUFFICES ASSUME Placed PROVE EventOnePlace
  OBVIOUS
<1> DEFINE places == <<ready, ToSet(inbox), InHand, acked, rejected, lost>>
<1>1. /\ DOMAIN places = 1..6
      /\ places[1] = ready /\ places[2] = ToSet(inbox) /\ places[3] = InHand
      /\ places[4] = acked /\ places[5] = rejected /\ places[6] = lost
  OBVIOUS
<1>2. \A i, j \in 1..6 : i < j => places[i] \intersect places[j] = {}
  <2> HIDE DEF places
  <2>1. \A i \in 1..6 : i = 1 \/ i = 2 \/ i = 3 \/ i = 4 \/ i = 5 \/ i = 6
    OBVIOUS
  <2>2. \A j \in 1..6 : 1 < j => places[1] \intersect places[j] = {}
    BY <1>1, <2>1 DEF Placed, Held
  <2>3. \A j \in 1..6 : 2 < j => places[2] \intersect places[j] = {}
    BY <1>1, <2>1 DEF Placed, Held
  <2>4. \A j \in 1..6 : 3 < j => places[3] \intersect places[j] = {}
    BY <1>1, <2>1 DEF Placed, Held
  <2>5. \A j \in 1..6 : 4 < j => places[4] \intersect places[j] = {}
    BY <1>1, <2>1 DEF Placed, Held
  <2>6. places[5] \intersect places[6] = {}
    BY <1>1 DEF Placed, Held
  <2> QED
    BY <2>1, <2>2, <2>3, <2>4, <2>5, <2>6
<1>3. UNION ToSet(places) = DOMAIN events
  <2>1. ToSet(places) = {ready, ToSet(inbox), InHand, acked, rejected, lost}
    <3> HIDE DEF places
    <3>1. ToSet(places) = {places[i] : i \in 1..6}
      BY <1>1 DEF ToSet
    <3>2. \A i \in 1..6 : i = 1 \/ i = 2 \/ i = 3 \/ i = 4 \/ i = 5 \/ i = 6
      OBVIOUS
    <3> QED
      BY <1>1, <3>1, <3>2
  <2> HIDE DEF places
  <2> QED
    BY <2>1 DEF Placed
<1>4. \A i, j \in DOMAIN places : i # j => places[i] \intersect places[j] = {}
  <2> HIDE DEF places
  <2>1. ASSUME NEW i \in 1..6, NEW j \in 1..6, i # j PROVE places[i] \intersect places[j] = {}
    <3>1. CASE i < j
      BY <1>2, <3>1
    <3>2. CASE j < i
      BY <1>2, <3>2
    <3> QED
      BY <2>1, <3>1, <3>2
  <2> QED
    BY <1>1, <2>1
<1> QED
  BY <1>3, <1>4 DEF EventOnePlace, Placed

----------------------------------------------------------------------------
(* What a publisher changes does not disturb what is said about the worker.  *)
LEMMA WorkerUndisturbed ==
    ASSUME IInv, UNCHANGED <<lost, indexingVars>>,
           \/ UNCHANGED <<events, ready>>
           \/ /\ Len(events') = Len(events) + 1
              /\ ready' = ready \union {Len(events) + 1},
           events' \in Seq(Event), DOMAIN events \subseteq DOMAIN events',
           \A m \in DOMAIN events : events'[m] = events[m]
    PROVE  IndexingType' /\ CurInv' /\ Placed'
<1>1. /\ events \in Seq(Event) /\ Len(events) \in Nat /\ DOMAIN events = 1..Len(events)
      /\ Len(events') \in Nat /\ DOMAIN events' = 1..Len(events')
      /\ UNCHANGED <<alive, listening, inbox, cur, index, docs, acked, rejected, deliveries, requeued, refused>>
  BY DEF IInv, TypeOK, BrokerType, indexingVars
<1>2. DOMAIN events \subseteq DOMAIN events'
  OBVIOUS
<1>3. IndexingType'
  <2>1. inbox \in Seq(DOMAIN events')
    BY <1>2 DEF IInv, TypeOK, IndexingType
  <2> QED
    BY <1>1, <1>2, <2>1 DEF IInv, TypeOK, IndexingType, AutoId
<1>4. CurInv'
  BY <1>1, <1>2 DEF IInv, CurInv
<1>5. Placed'
  <2>1. ToSet(inbox)' = ToSet(inbox) /\ InHand' = InHand /\ Held' = Held
    BY <1>1 DEF ToSet, InHand, Held
  <2>2. CASE UNCHANGED <<events, ready>>
    BY <1>1, <2>1, <2>2 DEF IInv, Placed
  <2>3. CASE Len(events') = Len(events) + 1 /\ ready' = ready \union {Len(events) + 1}
    <3>1. DOMAIN events' = DOMAIN events \union {Len(events) + 1} /\ Len(events) + 1 \notin DOMAIN events
      BY <1>1, <2>3
    <3>2. \A m \in Held \union acked \union rejected \union lost : m \in DOMAIN events
      BY DEF IInv, Placed, Held
    <3>3. IsInjective(inbox)'
      BY <1>1 DEF IInv, Placed, IsInjective
    <3> QED
      BY <1>1, <2>1, <2>3, <3>1, <3>2, <3>3 DEF IInv, Placed
  <2> QED
    BY <2>2, <2>3
<1> QED
  BY <1>3, <1>4, <1>5


(* A step of the tweets service that sends nothing.                          *)
LEMMA QuietStep ==
    ASSUME IInv, UNCHANGED <<brokerVars, indexingVars>>, committed \subseteq committed',
           faults' \in 0..MaxFaults
    PROVE  BrokerType' /\ IndexingType' /\ EventPosts' /\ CurInv' /\ Placed'
<1>1. /\ UNCHANGED <<declared, bindings, events, ready, lost, fed, sent>>
      /\ UNCHANGED <<alive, listening, inbox, cur, index, docs, acked, rejected, deliveries, requeued, refused>>
  BY DEF brokerVars, indexingVars
<1>2. BrokerType'
  BY <1>1 DEF IInv, TypeOK, BrokerType
<1>3. IndexingType' /\ CurInv' /\ Placed'
  BY <1>1, WorkerUndisturbed DEF IInv, TypeOK, BrokerType
<1>4. EventPosts'
  BY <1>1 DEF IInv, EventPosts
<1> QED
  BY <1>2, <1>3, <1>4

(* Failures are counted up to their bound.                                   *)
LEMMA FaultFacts ==
    ASSUME BrokerType, NEW kind, Fault(kind)
    PROVE  faults' \in 0..MaxFaults /\ kind \in Failures
BY DEF BrokerType, Fault

ReqType == [Slots -> [pc : Steps, post : 0..requested]]

(* A request goes on to its next step.                                       *)
LEMMA GoToFacts ==
    ASSUME CreationType, NEW q \in Slots, NEW pc \in Steps, GoTo(q, pc), UNCHANGED requested
    PROVE  /\ req'[q].pc = pc /\ req'[q].post = req[q].post
           /\ \A p \in Slots : p # q => req'[p] = req[p]
           /\ req' \in ReqType' /\ UNCHANGED answer
BY DEF CreationType, GoTo, ReqType

(* A request is answered.                                                    *)
LEMMA AnswerFacts ==
    ASSUME CreationType, NEW q \in Slots, NEW a \in {"ok", "error"}, Answer(q, a),
           req[q].post \in Posts, UNCHANGED requested
    PROVE  /\ req'[q].pc = "idle"
           /\ \A p \in Slots : p # q => req'[p] = req[p]
           /\ req' \in ReqType'
           /\ answer' \in [Posts -> {"none", "ok", "error"}]
           /\ answer'[req[q].post] = a
           /\ \A p \in Posts : p # req[q].post => answer'[p] = answer[p]
BY DEF CreationType, Answer, Idle, ReqType, Steps

(* What every request knows of its post.                                     *)
LEMMA RequestFacts ==
    ASSUME IInv, NEW q \in Slots, req[q].pc # "idle"
    PROVE  /\ req[q].post \in 1..requested /\ req[q].post \in Posts
           /\ requested \in Nat /\ requested <= MaxPosts
<1>1. requested \in 0..MaxPosts
  BY DEF IInv, TypeOK, CreationType
<1>2. req[q].post \in 1..requested
  BY DEF IInv, RequestInv
<1> QED
  BY <1>1, <1>2

(* A step that only adds to what was done keeps what the answers mean.       *)
LEMMA AnswersKept ==
    ASSUME IInv, committed \subseteq committed', counted \subseteq counted', uncounted \subseteq uncounted',
           sent \subseteq sent', reply \subseteq reply', \A p \in Posts : answer'[p] = "ok" => answer[p] = "ok"
    PROVE  OkMeansDone'
BY DEF IInv, OkMeansDone

(* A request arrives.                                                        *)
LEMMA RequestStep ==
    ASSUME IInv, NEW q \in Slots, NEW isReply \in BOOLEAN, Request(q, isReply), UNCHANGED indexingVars
    PROVE  IInv'
<1>1. /\ requested' = requested + 1 /\ requested < MaxPosts /\ requested \in Nat
      /\ UNCHANGED <<stored, committed, counted, uncounted, answer, faults, brokerVars>>
      /\ reply \subseteq reply' /\ reply' \subseteq reply \union {requested + 1}
      /\ req' = [req EXCEPT ![q] = [pc |-> "commit", post |-> requested + 1]]
  BY DEF IInv, TypeOK, CreationType, Request
<1>2. BrokerType' /\ IndexingType' /\ EventPosts' /\ CurInv' /\ Placed'
  BY <1>1, QuietStep DEF IInv, TypeOK, BrokerType
<1>3. CreationType'
  <2>1. requested' \in 0..MaxPosts /\ 1..requested \subseteq 1..requested' /\ requested + 1 \in 1..requested'
    BY <1>1
  <2>2. req' \in [Slots -> [pc : Steps, post : 0..requested']]
    BY <1>1 DEF IInv, TypeOK, CreationType, Steps
  <2> QED
    BY <1>1, <2>1, <2>2 DEF IInv, TypeOK, CreationType
<1>4. RequestInv'
  <2>1. /\ req'[q].pc = "commit" /\ req'[q].post = requested'
        /\ \A p \in Slots : p # q => req'[p] = req[p]
    BY <1>1 DEF IInv, TypeOK, CreationType
  <2>2. requested' \in 1..requested' /\ 1..requested \subseteq 1..requested'
    BY <1>1
  <2> QED
    BY <1>1, <2>1, <2>2 DEF IInv, RequestInv, brokerVars
<1>5. NothingBeforeCommit'
  BY <1>1 DEF IInv, NothingBeforeCommit, brokerVars, indexingVars
<1>6. OkMeansDone'
  BY <1>1, AnswersKept DEF brokerVars
<1> QED
  BY <1>2, <1>3, <1>4, <1>5, <1>6 DEF IInv, TypeOK

(* A post is committed, or the commit fails, done or not.                    *)
LEMMA CommitStep ==
    ASSUME IInv, NEW q \in Slots, Commit(q), UNCHANGED indexingVars
    PROVE  IInv'
<1> DEFINE p == req[q].post
<1>1. /\ req[q].pc = "commit" /\ p \in 1..requested /\ p \in Posts
      /\ UNCHANGED <<requested, reply, counted, uncounted, brokerVars>>
      /\ CreationType /\ BrokerType
  BY RequestFacts DEF IInv, TypeOK, Commit
<1>2. /\ faults' \in 0..MaxFaults
      /\ committed \subseteq committed' /\ stored' \subseteq committed' /\ committed' \subseteq 1..requested
      /\ \/ p \in committed' /\ \E pc \in {"count", "refresh"} : GoTo(q, pc)
         \/ Answer(q, "error")
  BY <1>1, FaultFacts DEF Commit, CreationType, BrokerType, OnDatabaseError
<1>3. /\ \A s \in Slots : s # q => req'[s] = req[s]
      /\ req' \in ReqType' /\ answer' \in [Posts -> {"none", "ok", "error"}]
      /\ \A n \in Posts : answer'[n] = "ok" => answer[n] = "ok"
      /\ \/ req'[q].pc = "idle"
         \/ req'[q].pc \in {"count", "refresh"} /\ req'[q].post = p /\ p \in committed'
  <2>1. CASE p \in committed' /\ \E pc \in {"count", "refresh"} : GoTo(q, pc)
    BY <1>1, <2>1, GoToFacts DEF Steps, CreationType
  <2>2. CASE Answer(q, "error")
    BY <1>1, <2>2, AnswerFacts
  <2> QED
    BY <1>2, <2>1, <2>2
<1>4. BrokerType' /\ IndexingType' /\ EventPosts' /\ CurInv' /\ Placed'
  BY <1>1, <1>2, QuietStep
<1>5. CreationType'
  BY <1>1, <1>2, <1>3 DEF CreationType, ReqType
<1>6. RequestInv'
  BY <1>1, <1>2, <1>3 DEF IInv, RequestInv, brokerVars
<1>7. NothingBeforeCommit'
  BY <1>1, <1>2 DEF IInv, NothingBeforeCommit, brokerVars, indexingVars
<1>8. OkMeansDone'
  BY <1>1, <1>2, <1>3, AnswersKept DEF brokerVars
<1> QED
  BY <1>4, <1>5, <1>6, <1>7, <1>8 DEF IInv, TypeOK

(* The refresh.                                                              *)
LEMMA RefreshStep ==
    ASSUME IInv, NEW q \in Slots, Refresh(q), UNCHANGED indexingVars
    PROVE  IInv'
<1> DEFINE p == req[q].post
<1>1. /\ req[q].pc = "refresh" /\ p \in Posts /\ p \in committed
      /\ UNCHANGED <<requested, reply, stored, committed, counted, uncounted, brokerVars>>
      /\ CreationType /\ BrokerType
  BY RequestFacts DEF IInv, TypeOK, Refresh, RequestInv
<1>2. /\ faults' \in 0..MaxFaults
      /\ GoTo(q, "count") \/ Answer(q, "error")
  BY <1>1, FaultFacts DEF Refresh, BrokerType
<1>3. /\ \A s \in Slots : s # q => req'[s] = req[s]
      /\ req' \in ReqType' /\ answer' \in [Posts -> {"none", "ok", "error"}]
      /\ \A n \in Posts : answer'[n] = "ok" => answer[n] = "ok"
      /\ req'[q].pc = "idle" \/ (req'[q].pc = "count" /\ req'[q].post = p)
  <2>1. CASE GoTo(q, "count")
    BY <1>1, <2>1, GoToFacts DEF Steps, CreationType
  <2>2. CASE Answer(q, "error")
    BY <1>1, <2>2, AnswerFacts
  <2> QED
    BY <1>2, <2>1, <2>2
<1>4. BrokerType' /\ IndexingType' /\ EventPosts' /\ CurInv' /\ Placed'
  BY <1>1, <1>2, QuietStep
<1>5. CreationType'
  BY <1>1, <1>3 DEF CreationType, ReqType
<1>6. RequestInv'
  <2>1. p \in 1..requested
    BY <1>1, RequestFacts
  <2> QED
    BY <1>1, <1>3, <2>1 DEF IInv, RequestInv, brokerVars
<1>7. NothingBeforeCommit'
  BY <1>1 DEF IInv, NothingBeforeCommit, brokerVars, indexingVars
<1>8. OkMeansDone'
  BY <1>1, <1>3, AnswersKept DEF brokerVars
<1> QED
  BY <1>4, <1>5, <1>6, <1>7, <1>8 DEF IInv, TypeOK

(* The post is counted, or not; a reply is done.                             *)
LEMMA IncrementTweetsStep ==
    ASSUME IInv, NEW q \in Slots, IncrementTweets(q), UNCHANGED indexingVars
    PROVE  IInv'
<1> DEFINE p == req[q].post
<1>1. /\ req[q].pc = "count" /\ p \in Posts /\ p \in committed /\ p \in 1..requested
      /\ UNCHANGED <<requested, reply, stored, committed, brokerVars>>
      /\ CreationType /\ BrokerType
  BY RequestFacts DEF IInv, TypeOK, IncrementTweets, RequestInv
<1>2. /\ faults' \in 0..MaxFaults
      /\ counted \subseteq counted' /\ counted' \subseteq counted \union {p}
      /\ uncounted \subseteq uncounted' /\ uncounted' \subseteq uncounted \union {p}
      /\ p \in counted' \union uncounted'
      /\ (p \in reply /\ Answer(q, "ok")) \/ (p \notin reply /\ GoTo(q, "feed"))
  BY <1>1, FaultFacts DEF IncrementTweets, CountCall, BrokerType
<1>3. /\ \A s \in Slots : s # q => req'[s] = req[s]
      /\ req' \in ReqType' /\ answer' \in [Posts -> {"none", "ok", "error"}]
      /\ \A n \in Posts : answer'[n] = "ok" => answer[n] = "ok" \/ (n = p /\ p \in reply)
      /\ req'[q].pc = "idle" \/ (req'[q].pc = "feed" /\ req'[q].post = p)
  <2>1. CASE GoTo(q, "feed")
    BY <1>1, <2>1, GoToFacts DEF Steps, CreationType
  <2>2. CASE p \in reply /\ Answer(q, "ok")
    BY <1>1, <2>2, AnswerFacts
  <2> QED
    BY <1>2, <2>1, <2>2
<1>4. BrokerType' /\ IndexingType' /\ EventPosts' /\ CurInv' /\ Placed'
  BY <1>1, <1>2, QuietStep
<1>5. CreationType'
  BY <1>1, <1>2, <1>3 DEF CreationType, ReqType
<1>6. RequestInv'
  BY <1>1, <1>2, <1>3 DEF IInv, RequestInv, brokerVars
<1>7. NothingBeforeCommit'
  BY <1>1, <1>2 DEF IInv, NothingBeforeCommit, brokerVars, indexingVars
<1>8. OkMeansDone'
  BY <1>1, <1>2, <1>3 DEF IInv, OkMeansDone, brokerVars
<1> QED
  BY <1>4, <1>5, <1>6, <1>7, <1>8 DEF IInv, TypeOK

(* What produce_message has done when it returns or fails: queue and message *)
(* or less.                                                                  *)
Produced(q, queue, key) ==
    /\ UNCHANGED <<requested, reply, stored, committed, counted, uncounted, bindings, lost>>
    /\ faults' \in 0..MaxFaults
    /\ declared' = declared \/ declared' = declared \union {queue}
    /\ UNCHANGED <<events, ready, fed, sent>> \/ BasicPublish(bindings, key, req[q].post, TRUE)

(* Whatever fails on the way, the worker is not disturbed, and what was      *)
(* published is in sent.                                                     *)
LEMMA ProducedFacts ==
    ASSUME IInv, NEW q \in Slots, NEW queue \in Queues, NEW key \in Keys,
           req[q].pc \in {"feed", "events"},
           Produced(q, queue, key), UNCHANGED indexingVars
    PROVE  /\ BrokerType' /\ IndexingType' /\ EventPosts' /\ CurInv' /\ Placed'
           /\ NothingBeforeCommit'
           /\ sent \subseteq sent'
           /\ BasicPublish(bindings, key, req[q].post, TRUE) => <<req[q].post, key>> \in sent'
<1> DEFINE p == req[q].post
<1>1. /\ p \in Posts /\ p \in committed /\ BrokerType /\ TRUE \in BOOLEAN
      /\ UNCHANGED <<requested, reply, stored, committed, counted, uncounted, bindings, lost>>
  BY RequestFacts DEF IInv, TypeOK, RequestInv, Produced
<1>2. /\ faults' \in 0..MaxFaults
      /\ declared' = declared \/ declared' = declared \union {queue}
      /\ UNCHANGED <<events, ready, fed, sent>> \/ BasicPublish(bindings, key, p, TRUE)
  BY DEF Produced
<1>3. /\ \/ UNCHANGED <<events, ready>>
         \/ /\ Len(events') = Len(events) + 1
            /\ ready' = ready \union {Len(events) + 1}
            /\ events'[Len(events) + 1].post = p
      /\ events' \in Seq(Event) /\ Len(events') <= MaxEvents /\ ready' \subseteq DOMAIN events'
      /\ DOMAIN events \subseteq DOMAIN events' /\ \A m \in DOMAIN events : events'[m] = events[m]
      /\ fed' \subseteq Posts
      /\ sent' = sent \/ sent' = sent \union {<<p, key>>}
  <2>1. CASE UNCHANGED <<events, ready, fed, sent>>
    BY <1>1, <2>1 DEF BrokerType
  <2>2. CASE BasicPublish(bindings, key, p, TRUE)
    <3>1. /\ \/ UNCHANGED <<events, ready>>
             \/ /\ Len(events') = Len(events) + 1
                /\ ready' = ready \union {Len(events) + 1}
                /\ events'[Len(events) + 1].post = p
          /\ events' \in Seq(Event) /\ Len(events') <= MaxEvents /\ ready' \subseteq DOMAIN events'
          /\ DOMAIN events \subseteq DOMAIN events' /\ \A m \in DOMAIN events : events'[m] = events[m]
          /\ fed' \subseteq Posts /\ sent' = sent \union {<<p, key>>}
      BY <1>1, <2>2, PublishFacts
    <3> QED
      BY <3>1
  <2> QED
    BY <1>2, <2>1, <2>2
<1>4. BrokerType'
  <2>1. declared' \subseteq Queues /\ declared \subseteq declared'
    BY <1>1, <1>2 DEF BrokerType
  <2>2. bindings' \subseteq declared' \X {"tweet.#"}
    BY <1>1, <2>1 DEF BrokerType
  <2>3. sent' \subseteq Posts \X Keys
    BY <1>1, <1>3 DEF BrokerType
  <2>4. lost' \subseteq DOMAIN events'
    BY <1>1, <1>3 DEF BrokerType
  <2> QED
    BY <1>2, <1>3, <2>1, <2>2, <2>3, <2>4 DEF BrokerType
<1>5. IndexingType' /\ CurInv' /\ Placed'
  BY <1>1, <1>3, WorkerUndisturbed
<1>6. EventPosts'
  <2>1. DOMAIN events' = DOMAIN events \/ DOMAIN events' \subseteq DOMAIN events \union {Len(events) + 1}
    BY <1>1, <1>3 DEF BrokerType
  <2> QED
    BY <1>1, <1>3, <2>1 DEF IInv, EventPosts
<1>7. NothingBeforeCommit'
  BY <1>1, <1>3 DEF IInv, NothingBeforeCommit, indexingVars
<1>8. BasicPublish(bindings, key, p, TRUE) => <<p, key>> \in sent'
  BY DEF BasicPublish
<1> QED
  BY <1>3, <1>4, <1>5, <1>6, <1>7, <1>8

(* The publication to the feed.                                              *)
LEMMA PublishToFeedStep ==
    ASSUME IInv, NEW q \in Slots, PublishToFeed(q), UNCHANGED indexingVars
    PROVE  IInv'
<1> DEFINE p == req[q].post
<1>1. /\ req[q].pc = "feed" /\ p \in Posts /\ p \in committed /\ p \in 1..requested
      /\ p \in counted \union uncounted
      /\ CreationType
  BY RequestFacts DEF IInv, TypeOK, PublishToFeed, RequestInv
<1>2. /\ BrokerType' /\ IndexingType' /\ EventPosts' /\ CurInv' /\ Placed' /\ NothingBeforeCommit'
      /\ UNCHANGED <<requested, reply, stored, committed, counted, uncounted>> /\ sent \subseteq sent'
      /\ (<<p, "general_tweets">> \in sent' /\ GoTo(q, "events")) \/ Answer(q, "error")
  <2>1. /\ Produced(q, "general_tweets", "general_tweets")
        /\ Answer(q, "error") \/ (BasicPublish(bindings, "general_tweets", p, TRUE) /\ GoTo(q, "events"))
    BY FaultFacts DEF PublishToFeed, produce_message, Produced, QueueDeclare, OnPublishError, IInv, TypeOK, BrokerType
  <2> QED
    BY <1>1, <2>1, ProducedFacts DEF Produced
<1>3. /\ \A s \in Slots : s # q => req'[s] = req[s]
      /\ req' \in ReqType' /\ answer' \in [Posts -> {"none", "ok", "error"}]
      /\ \A n \in Posts : answer'[n] = "ok" => answer[n] = "ok"
      /\ \/ req'[q].pc = "idle"
         \/ req'[q].pc = "events" /\ req'[q].post = p /\ <<p, "general_tweets">> \in sent'
  <2>1. CASE <<p, "general_tweets">> \in sent' /\ GoTo(q, "events")
    BY <1>1, <1>2, <2>1, GoToFacts DEF Steps, CreationType
  <2>2. CASE Answer(q, "error")
    BY <1>1, <1>2, <2>2, AnswerFacts
  <2> QED
    BY <1>2, <2>1, <2>2
<1>4. CreationType'
  BY <1>1, <1>2, <1>3 DEF CreationType, ReqType
<1>5. RequestInv'
  BY <1>1, <1>2, <1>3 DEF IInv, RequestInv
<1>6. OkMeansDone'
  BY <1>2, <1>3, AnswersKept
<1> QED
  BY <1>2, <1>4, <1>5, <1>6 DEF IInv, TypeOK

(* The publication of the event, and the answer.                             *)
LEMMA PublishEventStep ==
    ASSUME IInv, NEW q \in Slots, PublishEvent(q), UNCHANGED indexingVars
    PROVE  IInv'
<1> DEFINE p == req[q].post
<1>1. /\ req[q].pc = "events" /\ p \in Posts /\ p \in committed
      /\ p \in counted \union uncounted
      /\ <<p, "general_tweets">> \in sent
      /\ CreationType
  BY RequestFacts DEF IInv, TypeOK, PublishEvent, RequestInv
<1>2. /\ BrokerType' /\ IndexingType' /\ EventPosts' /\ CurInv' /\ Placed' /\ NothingBeforeCommit'
      /\ UNCHANGED <<requested, reply, stored, committed, counted, uncounted>> /\ sent \subseteq sent'
      /\ (<<p, "tweet.create">> \in sent' /\ Answer(q, "ok")) \/ Answer(q, "error")
  <2>1. /\ Produced(q, "tweet_events", "tweet.create")
        /\ Answer(q, "error") \/ (BasicPublish(bindings, "tweet.create", p, TRUE) /\ Answer(q, "ok"))
    BY FaultFacts DEF PublishEvent, produce_message, Produced, QueueDeclare, OnPublishError, IInv, TypeOK, BrokerType
  <2> QED
    BY <1>1, <2>1, ProducedFacts DEF Produced
<1>3. /\ \A s \in Slots : s # q => req'[s] = req[s]
      /\ req' \in ReqType' /\ answer' \in [Posts -> {"none", "ok", "error"}]
      /\ \A n \in Posts : answer'[n] = "ok" => answer[n] = "ok" \/ (n = p /\ <<p, "tweet.create">> \in sent')
      /\ req'[q].pc = "idle"
  BY <1>1, <1>2, AnswerFacts
<1>4. CreationType'
  BY <1>1, <1>2, <1>3 DEF CreationType, ReqType
<1>5. RequestInv'
  BY <1>2, <1>3 DEF IInv, RequestInv
<1>6. OkMeansDone'
  BY <1>1, <1>2, <1>3 DEF IInv, OkMeansDone
<1> QED
  BY <1>2, <1>4, <1>5, <1>6 DEF IInv, TypeOK

(* The owner deletes a post.                                                 *)
LEMMA DeletePostStep ==
    ASSUME IInv, NEW p \in Posts, deletePost(p), UNCHANGED indexingVars
    PROVE  IInv'
<1>1. stored' \subseteq stored /\ UNCHANGED <<requested, reply, committed, counted, uncounted, req, answer, faults, brokerVars>>
  BY DEF deletePost
<1>2. BrokerType' /\ IndexingType' /\ EventPosts' /\ CurInv' /\ Placed'
  BY <1>1, QuietStep DEF IInv, TypeOK, BrokerType
<1>3. CreationType' /\ RequestInv'
  BY <1>1 DEF IInv, TypeOK, CreationType, RequestInv, brokerVars
<1>4. NothingBeforeCommit' /\ OkMeansDone'
  BY <1>1 DEF IInv, NothingBeforeCommit, OkMeansDone, brokerVars, indexingVars
<1> QED
  BY <1>2, <1>3, <1>4 DEF IInv, TypeOK

(* The tweets service dies.                                                  *)
LEMMA ServiceCrashStep ==
    ASSUME IInv, ServiceCrash, UNCHANGED indexingVars
    PROVE  IInv'
<1>1. /\ req' = [q \in Slots |-> Idle]
      /\ UNCHANGED <<requested, reply, stored, committed, counted, uncounted, answer, brokerVars>>
      /\ faults' \in 0..MaxFaults
  BY FaultFacts DEF ServiceCrash, IInv, TypeOK
<1>2. BrokerType' /\ IndexingType' /\ EventPosts' /\ CurInv' /\ Placed'
  BY <1>1, QuietStep
<1>3. CreationType' /\ RequestInv'
  BY <1>1 DEF IInv, TypeOK, CreationType, RequestInv, Idle, Steps
<1>4. NothingBeforeCommit' /\ OkMeansDone'
  BY <1>1 DEF IInv, NothingBeforeCommit, OkMeansDone, brokerVars, indexingVars
<1> QED
  BY <1>2, <1>3, <1>4 DEF IInv, TypeOK

----------------------------------------------------------------------------
(* The head of a queue: a set of numbers that is not empty has a least one.  *)
LEMMA MinFacts ==
    ASSUME NEW S \in SUBSET Nat, S # {}
    PROVE  Min(S) \in S /\ \A n \in S : Min(S) <= n
<1>1. PICK x \in S : \A y \in S : ~(<<y, x>> \in OpToRel(<, Nat))
  BY NatLessThanWellFounded, WFMin
<1>2. OpToRel(<, Nat) = {p \in Nat \X Nat : p[1] < p[2]}
  BY DEF OpToRel
<1>3. \A y \in S : ~(y < x)
  <2> SUFFICES ASSUME NEW y \in S, y < x PROVE FALSE
    OBVIOUS
  <2>1. <<y, x>> \in Nat \X Nat /\ <<y, x>>[1] = y /\ <<y, x>>[2] = x
    OBVIOUS
  <2>2. <<y, x>> \in {p \in Nat \X Nat : p[1] < p[2]}
    BY <2>1
  <2> QED
    BY <1>1, <1>2, <2>2
<1>4. \A y \in S : x <= y
  BY <1>3
<1> QED
  BY <1>4 DEF Min

(* A delivery joins the inbox.                                               *)
LEMMA JoinInbox ==
    ASSUME NEW S, NEW s \in Seq(S), NEW e \in S
    PROVE  /\ Append(s, e) \in Seq(S)
           /\ ToSet(Append(s, e)) = ToSet(s) \union {e}
           /\ IsInjective(s) /\ e \notin ToSet(s) => IsInjective(Append(s, e))
<1>1. /\ Append(s, e) \in Seq(S) /\ Len(s) \in Nat
      /\ DOMAIN s = 1..Len(s) /\ DOMAIN Append(s, e) = 1..(Len(s) + 1)
      /\ \A i \in 1..Len(s) : Append(s, e)[i] = s[i]
      /\ Append(s, e)[Len(s) + 1] = e
  OBVIOUS
<1>2. 1..(Len(s) + 1) = (1..Len(s)) \union {Len(s) + 1}
  BY <1>1
<1>3. ToSet(Append(s, e)) = ToSet(s) \union {e}
  BY <1>1, <1>2 DEF ToSet
<1>4. IsInjective(s) /\ e \notin ToSet(s) => IsInjective(Append(s, e))
  BY <1>1, <1>2 DEF ToSet, IsInjective
<1> QED
  BY <1>1, <1>3, <1>4

(* The first delivery leaves it.                                             *)
LEMMA LeaveInbox ==
    ASSUME NEW S, NEW s \in Seq(S), s # << >>
    PROVE  /\ s[1] \in S /\ s[1] \in ToSet(s)
           /\ RemoveAt(s, 1) \in Seq(S)
           /\ Len(s) \in Nat /\ Len(RemoveAt(s, 1)) = Len(s) - 1
           /\ \A i \in 1..(Len(s) - 1) : RemoveAt(s, 1)[i] = s[i + 1]
           /\ ToSet(s) = ToSet(RemoveAt(s, 1)) \union {s[1]}
           /\ IsInjective(s) => IsInjective(RemoveAt(s, 1)) /\ s[1] \notin ToSet(RemoveAt(s, 1))
<1> DEFINE t == RemoveAt(s, 1)
<1>1. t = Tail(s)
  <2>1. SubSeq(s, 1, 0) = << >> /\ SubSeq(s, 2, Len(s)) = Tail(s) /\ Tail(s) \in Seq(S)
    BY SubSeqEmpty, TailIsSubSeq
  <2> QED
    BY <2>1, ConcatEmptySeq DEF RemoveAt
<1>2. /\ t \in Seq(S) /\ Len(s) \in Nat /\ Len(s) > 0 /\ Len(t) = Len(s) - 1
      /\ DOMAIN s = 1..Len(s) /\ DOMAIN t = 1..(Len(s) - 1)
      /\ \A i \in 1..(Len(s) - 1) : t[i] = s[i + 1]
  BY <1>1, HeadTailProperties
<1> HIDE DEF t
<1>3. \A i \in 1..Len(s) : i = 1 \/ (i - 1 \in 1..(Len(s) - 1) /\ s[i] = t[i - 1])
  BY <1>2
<1>4. \A i \in 1..(Len(s) - 1) : i + 1 \in 1..Len(s) /\ i + 1 # 1
  BY <1>2
<1>5. 1 \in 1..Len(s) /\ s[1] \in S /\ s[1] \in ToSet(s)
  BY <1>2 DEF ToSet
<1>6. ToSet(s) = ToSet(t) \union {s[1]}
  <2>1. \A i \in DOMAIN s : s[i] = s[1] \/ s[i] \in ToSet(t)
    BY <1>2, <1>3 DEF ToSet
  <2>2. \A i \in DOMAIN t : t[i] \in ToSet(s)
    BY <1>2, <1>4 DEF ToSet
  <2>3. ToSet(s) \subseteq ToSet(t) \union {s[1]}
    BY <2>1 DEF ToSet
  <2>4. ToSet(t) \subseteq ToSet(s)
    BY <2>2 DEF ToSet
  <2> QED
    BY <1>5, <2>3, <2>4
<1>7. ASSUME IsInjective(s) PROVE IsInjective(t) /\ s[1] \notin ToSet(t)
  <2>1. \A i, j \in 1..(Len(s) - 1) : t[i] = t[j] => i = j
    <3> SUFFICES ASSUME NEW i \in 1..(Len(s) - 1), NEW j \in 1..(Len(s) - 1), t[i] = t[j] PROVE i = j
      OBVIOUS
    <3>1. i + 1 = j + 1
      BY <1>2, <1>4, <1>7 DEF IsInjective
    <3> QED
      BY <3>1
  <2>2. \A i \in 1..(Len(s) - 1) : t[i] # s[1]
    BY <1>2, <1>4, <1>5, <1>7 DEF IsInjective
  <2> QED
    BY <1>2, <2>1, <2>2 DEF IsInjective, ToSet
<1> QED
  BY <1>2, <1>5, <1>6, <1>7 DEF t

----------------------------------------------------------------------------
(* What the worker does leaves requests and answers alone.                   *)
LEMMA RequestsUndisturbed ==
    ASSUME IInv, UNCHANGED <<creationVars, events, sent>>
    PROVE  CreationType' /\ RequestInv' /\ EventPosts' /\ OkMeansDone'
<1>1. UNCHANGED <<requested, reply, stored, committed, counted, uncounted, req, answer, events, sent>>
  BY DEF creationVars
<1>2. CreationType' /\ RequestInv'
  BY <1>1 DEF IInv, TypeOK, CreationType, RequestInv
<1>3. EventPosts' /\ OkMeansDone'
  BY <1>1 DEF IInv, EventPosts, OkMeansDone
<1> QED
  BY <1>2, <1>3

(* Types used by all steps of the worker.                                    *)
LEMMA WorkerFacts ==
    ASSUME IInv
    PROVE  /\ BrokerType /\ IndexingType /\ CurInv /\ Placed
           /\ events \in Seq(Event) /\ DOMAIN events \in SUBSET Nat
           /\ DOMAIN events = 1..Len(events) /\ Len(events) \in Nat /\ Len(events) <= MaxEvents
           /\ DOMAIN events \subseteq 1..MaxEvents
           /\ inbox \in Seq(DOMAIN events)
           /\ Unacked = Held
<1>1. BrokerType /\ IndexingType /\ CurInv /\ Placed
  BY DEF IInv, TypeOK
<1>2. /\ events \in Seq(Event) /\ DOMAIN events = 1..Len(events) /\ Len(events) \in Nat
      /\ Len(events) <= MaxEvents
  BY <1>1 DEF BrokerType
<1>3. DOMAIN events \in SUBSET Nat /\ DOMAIN events \subseteq 1..MaxEvents
  BY <1>2
<1>4. inbox \in Seq(DOMAIN events) /\ Unacked = Held
  BY <1>1 DEF IndexingType, Unacked, Held, InHand
<1> QED
  BY <1>1, <1>2, <1>3, <1>4

(* The worker starts.                                                        *)
LEMMA WorkerStartStep ==
    ASSUME IInv, WorkerStart, UNCHANGED creationVars
    PROVE  IInv'
<1>1. /\ ~alive /\ alive' = TRUE
      /\ listening' = TRUE \/ listening' = FALSE
      /\ declared' = declared \union {"tweet_events"}
      /\ bindings' = bindings \union {<<"tweet_events", "tweet.#">>}
      /\ UNCHANGED <<events, ready, lost, fed, sent, inbox, cur, index, docs,
                     acked, rejected, deliveries, requeued, refused>>
  BY DEF WorkerStart, Bound, QueueDeclare
<1>2. CreationType' /\ RequestInv' /\ EventPosts' /\ OkMeansDone'
  BY <1>1, RequestsUndisturbed
<1>3. BrokerType'
  <2>1. declared' \subseteq Queues /\ bindings' \subseteq declared' \X {"tweet.#"}
    BY <1>1, WorkerFacts DEF BrokerType
  <2>2. faults' \in 0..MaxFaults
    BY WorkerFacts, FaultFacts DEF WorkerStart, BrokerType
  <2> QED
    BY <1>1, <2>1, <2>2, WorkerFacts DEF BrokerType
<1>4. IndexingType'
  <2>1. listening' \in BOOLEAN /\ alive' \in BOOLEAN
    BY <1>1, Zenon
  <2> QED
    BY <1>1, <2>1, WorkerFacts DEF IndexingType
<1>5. CurInv'
  <2>1. inbox = << >> /\ cur.stage = "none" /\ alive'
    BY <1>1, WorkerFacts, Zenon DEF CurInv
  <2>2. inbox' = << >> /\ cur' = cur
    BY <1>1, <2>1
  <2> QED
    BY <2>1, <2>2, Zenon DEF CurInv
<1>6. Placed'
  BY <1>1, WorkerFacts DEF Placed, Held, InHand, ToSet, IsInjective
<1>7. NothingBeforeCommit'
  BY <1>1 DEF IInv, NothingBeforeCommit, creationVars
<1> QED
  BY <1>2, <1>3, <1>4, <1>5, <1>6, <1>7 DEF IInv, TypeOK

(* The head of the queue is delivered.                                       *)
LEMMA DeliverStep ==
    ASSUME IInv, Deliver, UNCHANGED creationVars
    PROVE  IInv'
<1> DEFINE m == Min(ready)
<1>1. /\ listening /\ ready # {} /\ ready' = ready \ {m} /\ inbox' = Append(inbox, m)
      /\ deliveries' = [deliveries EXCEPT ![m] = @ + 1]
      /\ UNCHANGED <<declared, bindings, events, lost, fed, sent, faults, alive, listening,
                     cur, index, docs, acked, rejected, requeued, refused>>
  BY DEF Deliver
<1>2. m \in ready /\ m \in DOMAIN events
  BY <1>1, WorkerFacts, MinFacts DEF BrokerType
<1> HIDE DEF m
<1>3. CreationType' /\ RequestInv' /\ EventPosts' /\ OkMeansDone'
  BY <1>1, RequestsUndisturbed
<1>4. BrokerType'
  BY <1>1, WorkerFacts DEF BrokerType
<1>5. /\ inbox' \in Seq(DOMAIN events) /\ ToSet(inbox') = ToSet(inbox) \union {m}
      /\ m \notin ToSet(inbox) => IsInjective(inbox')
  BY <1>1, <1>2, WorkerFacts, JoinInbox DEF Placed
<1>6. IndexingType'
  <2>1. deliveries' \in [1..MaxEvents -> Nat]
    <3>1. deliveries \in [1..MaxEvents -> Nat] /\ m \in 1..MaxEvents
      BY <1>2, WorkerFacts DEF IndexingType
    <3> QED
      BY <1>1, <3>1
  <2> QED
    BY <1>1, <1>5, <2>1, WorkerFacts DEF IndexingType
<1>7. CurInv'
  BY <1>1, WorkerFacts DEF CurInv
<1>8. Placed'
  <2>1. InHand' = InHand /\ Held' = Held \union {m}
    BY <1>1, <1>5 DEF InHand, Held
  <2>2. m \notin Held /\ m \notin acked /\ m \notin rejected /\ m \notin lost
    BY <1>2, WorkerFacts DEF Placed
  <2>3. IsInjective(inbox)' /\ m \notin InHand
    BY <1>5, <2>2 DEF Held
  <2>4. DOMAIN events' = ready' \union ToSet(inbox)' \union InHand' \union acked' \union rejected' \union lost'
    BY <1>1, <1>2, <1>5, <2>1, WorkerFacts DEF Placed
  <2>5. ready' \intersect (Held' \union acked' \union rejected' \union lost') = {}
    BY <1>1, <2>1, WorkerFacts DEF Placed
  <2>6. ToSet(inbox)' \intersect InHand' = {}
    BY <1>5, <2>1, <2>3, WorkerFacts DEF Placed
  <2>7. /\ Held' \intersect (acked' \union rejected' \union lost') = {}
        /\ acked' \intersect (rejected' \union lost') = {} /\ rejected' \intersect lost' = {}
    BY <1>1, <2>1, <2>2, WorkerFacts DEF Placed
  <2> QED
    BY <2>3, <2>4, <2>5, <2>6, <2>7 DEF Placed
<1>9. NothingBeforeCommit'
  BY <1>1 DEF IInv, NothingBeforeCommit, creationVars
<1> QED
  BY <1>3, <1>4, <1>6, <1>7, <1>8, <1>9 DEF IInv, TypeOK

(* Documents are indexed, or none.                                           *)
LEMMA CreateFacts ==
    ASSUME IInv, NEW m \in DOMAIN events, Create(m), UNCHANGED <<events, committed, counted, sent>>
    PROVE  /\ faults' \in 0..MaxFaults /\ docs' \in Nat /\ refused' \subseteq DOMAIN events
           /\ \A d \in index' : d.event \in DOMAIN events /\ d.id \in {AutoId(i) : i \in 1..docs'}
           /\ NothingBeforeCommit'
<1>1. /\ faults' \in 0..MaxFaults /\ refused' \subseteq DOMAIN events
  BY FaultFacts, WorkerFacts DEF Create, BrokerType, IndexingType
<1>2. PICK copies \in Nat : IndexDocument(m, copies)
  <2>1. 1 \in Nat /\ 0..(1 + Resends) \subseteq Nat
    OBVIOUS
  <2> QED
    BY <2>1 DEF Create
<1> DEFINE new == {[id |-> AutoId(docs + i), event |-> m, post |-> events[m].post] : i \in 1..copies}
<1>3. docs' = docs + copies /\ docs \in Nat /\ docs' \in Nat /\ index' = index \union new
  BY <1>2, WorkerFacts DEF IndexDocument, IndexingType
<1>4. ASSUME NEW d \in new
      PROVE  d.event = m /\ d.post \in committed /\ d.id \in {AutoId(i) : i \in 1..docs'}
  <2>1. PICK i \in 1..copies : d = [id |-> AutoId(docs + i), event |-> m, post |-> events[m].post]
    OBVIOUS
  <2>2. docs + i \in 1..docs'
    BY <1>3
  <2> QED
    BY <2>1, <2>2 DEF IInv, EventPosts
<1> HIDE DEF new
<1>5. 1..docs \subseteq 1..docs'
  BY <1>3
<1>6. \A d \in index' : d.event \in DOMAIN events /\ d.id \in {AutoId(i) : i \in 1..docs'}
  BY <1>3, <1>4, <1>5, WorkerFacts DEF IndexingType
<1>7. NothingBeforeCommit'
  BY <1>3, <1>4 DEF IInv, NothingBeforeCommit
<1> QED
  BY <1>1, <1>3, <1>6, <1>7

(* A delete removes documents, if it does anything.                          *)
LEMMA DeleteFacts ==
    ASSUME IInv, index' \subseteq index, UNCHANGED <<events, docs, committed, counted, uncounted, sent>>
    PROVE  /\ docs' \in Nat
           /\ \A d \in index' : d.event \in DOMAIN events /\ d.id \in {AutoId(i) : i \in 1..docs'}
           /\ NothingBeforeCommit'
BY WorkerFacts DEF IndexingType, IInv, NothingBeforeCommit

(* handle_message begins with the first delivery.                            *)
LEMMA HandleStep ==
    ASSUME IInv, Handle, UNCHANGED creationVars
    PROVE  IInv'
<1> DEFINE m == inbox[1]
           Taken(stage, err) == cur' = [n |-> m, stage |-> stage, err |-> err, held |-> TRUE]
<1>1. /\ alive /\ cur = None /\ inbox # << >> /\ inbox' = RemoveAt(inbox, 1)
      /\ UNCHANGED <<declared, bindings, events, ready, lost, fed, sent, alive, listening,
                     acked, deliveries, requeued>>
      /\ UNCHANGED <<requested, reply, stored, committed, counted, uncounted, req, answer>>
  BY DEF Handle, FirstIn, creationVars
<1>2. /\ m \in DOMAIN events /\ inbox' \in Seq(DOMAIN events)
      /\ ToSet(inbox) = ToSet(inbox') \union {m}
      /\ IsInjective(inbox') /\ m \notin ToSet(inbox')
  BY <1>1, WorkerFacts, LeaveInbox DEF Placed
<1>3. \/ rejected' = rejected \union {m} /\ UNCHANGED <<cur, index, docs, faults, refused>>
      \/ /\ UNCHANGED rejected
         /\ \/ Create(m)
            \/ /\ index' \subseteq index /\ UNCHANGED <<docs, refused>>
               /\ UNCHANGED faults \/ Fault("es_delete")
         /\ \E stage \in {"settle", "recreate"}, err \in BOOLEAN : Taken(stage, err)
  <2>1. CASE ~events[m].json
    BY <2>1 DEF Handle, FirstIn
  <2>2. CASE events[m].json /\ events[m].key = "tweet.create"
    BY <2>2 DEF Handle, FirstIn, At
  <2>3. CASE events[m].json /\ events[m].key = "tweet.update"
    <3>1. /\ Delete(events[m].post, UpdateDeleted(m), At(m, "settle", TRUE))
          /\ UNCHANGED <<docs, rejected, refused>>
      BY <2>3 DEF Handle, FirstIn
    <3> QED
      BY <3>1 DEF Delete, DeleteDocument, UpdateDeleted, At
  <2>4. CASE events[m].json /\ events[m].key = "tweet.delete"
    <3>1. /\ Delete(events[m].post, At(m, "settle", FALSE), At(m, "settle", TRUE))
          /\ UNCHANGED <<docs, rejected, refused>>
      BY <2>4 DEF Handle, FirstIn
    <3> QED
      BY <3>1 DEF Delete, DeleteDocument, At
  <2>5. CASE events[m].json /\ events[m].key = "tweet.other"
    BY <2>5 DEF Handle, FirstIn, At
  <2> QED
    BY <2>1, <2>2, <2>3, <2>4, <2>5 DEF Handle, FirstIn
<1> HIDE DEF m
<1>4. CreationType' /\ RequestInv' /\ EventPosts' /\ OkMeansDone'
  BY <1>1, RequestsUndisturbed
<1>5. /\ faults' \in 0..MaxFaults /\ docs' \in Nat /\ refused' \subseteq DOMAIN events
      /\ \A d \in index' : d.event \in DOMAIN events /\ d.id \in {AutoId(i) : i \in 1..docs'}
      /\ NothingBeforeCommit'
  <2>1. CASE Create(m)
    BY <1>1, <1>2, <2>1, CreateFacts
  <2>2. CASE index' \subseteq index /\ UNCHANGED <<docs, refused>> /\ (UNCHANGED faults \/ Fault("es_delete"))
    <3>1. faults' \in 0..MaxFaults
      BY <2>2, WorkerFacts, FaultFacts DEF BrokerType
    <3>2. refused' \subseteq DOMAIN events
      BY <2>2, WorkerFacts DEF IndexingType
    <3> QED
      BY <1>1, <2>2, <3>1, <3>2, DeleteFacts
  <2> QED
    BY <1>3, <2>1, <2>2
<1>6. BrokerType'
  BY <1>1, <1>5, WorkerFacts DEF BrokerType
<1>7. CASE rejected' = rejected \union {m} /\ UNCHANGED cur
  <2>1. InHand = {} /\ InHand' = {}
    BY <1>1, <1>7 DEF InHand, None
  <2>2. IndexingType'
    BY <1>1, <1>2, <1>5, <1>7, WorkerFacts DEF IndexingType
  <2>3. CurInv'
    BY <1>1, <1>7, WorkerFacts DEF CurInv, None
  <2>4. Placed'
    BY <1>1, <1>2, <1>7, <2>1, WorkerFacts DEF Placed, Held
  <2> QED
    BY <1>4, <1>5, <1>6, <2>2, <2>3, <2>4 DEF IInv, TypeOK
<1>8. CASE UNCHANGED rejected /\ \E stage \in {"settle", "recreate"}, err \in BOOLEAN : Taken(stage, err)
  <2>1. /\ cur' \in [n : 0..MaxEvents, stage : {"none", "recreate", "settle"}, err : BOOLEAN, held : BOOLEAN]
        /\ cur'.n = m /\ cur'.stage # "none" /\ cur'.held
    BY <1>2, <1>8, WorkerFacts
  <2>2. InHand = {} /\ InHand' = {m}
    BY <1>1, <2>1 DEF InHand, None
  <2>3. IndexingType'
    BY <1>1, <1>2, <1>5, <1>8, <2>1, WorkerFacts DEF IndexingType
  <2>4. CurInv'
    <3>1. listening
      BY <1>1, WorkerFacts DEF CurInv
    <3> QED
      BY <1>1, <1>2, <2>1, <3>1 DEF CurInv
  <2>5. Placed'
    BY <1>1, <1>2, <1>8, <2>2, WorkerFacts DEF Placed, Held
  <2> QED
    BY <1>4, <1>5, <1>6, <2>3, <2>4, <2>5 DEF IInv, TypeOK
<1> QED
  BY <1>3, <1>7, <1>8

(* The create of an update.                                                  *)
LEMMA RecreateStep ==
    ASSUME IInv, Recreate, UNCHANGED creationVars
    PROVE  IInv'
<1>1. /\ cur.stage = "recreate" /\ Create(cur.n) /\ cur' = [cur EXCEPT !.stage = "settle"]
      /\ UNCHANGED <<declared, bindings, events, ready, lost, fed, sent, alive, listening,
                     inbox, acked, rejected, deliveries, requeued>>
      /\ UNCHANGED <<requested, reply, stored, committed, counted, uncounted, req, answer>>
  BY DEF Recreate, RecreateDone, creationVars
<1>2. cur.n \in DOMAIN events
  BY <1>1, WorkerFacts DEF CurInv
<1>3. CreationType' /\ RequestInv' /\ EventPosts' /\ OkMeansDone'
  BY <1>1, RequestsUndisturbed
<1>4. /\ faults' \in 0..MaxFaults /\ docs' \in Nat /\ refused' \subseteq DOMAIN events
      /\ \A d \in index' : d.event \in DOMAIN events /\ d.id \in {AutoId(i) : i \in 1..docs'}
      /\ NothingBeforeCommit'
  BY <1>1, <1>2, CreateFacts
<1>5. /\ cur' \in [n : 0..MaxEvents, stage : {"none", "recreate", "settle"}, err : BOOLEAN, held : BOOLEAN]
      /\ cur'.n = cur.n /\ cur'.stage = "settle" /\ cur'.held = cur.held
  BY <1>1, WorkerFacts DEF IndexingType
<1>6. BrokerType' /\ IndexingType'
  BY <1>1, <1>4, <1>5, WorkerFacts DEF BrokerType, IndexingType
<1>7. CurInv'
  <2>1. alive
    BY <1>1, WorkerFacts DEF CurInv, None
  <2> QED
    BY <1>1, <1>2, <1>5, <2>1, WorkerFacts DEF CurInv
<1>8. Placed'
  <2>1. InHand' = InHand /\ ToSet(inbox)' = ToSet(inbox) /\ IsInjective(inbox)' = IsInjective(inbox)
    BY <1>1, <1>5 DEF InHand
  <2> QED
    BY <1>1, <2>1, WorkerFacts DEF Placed, Held
<1> QED
  BY <1>3, <1>4, <1>6, <1>7, <1>8 DEF IInv, TypeOK

(* The delivery is settled, if it still can be.                              *)
LEMMA SettleStep ==
    ASSUME IInv, Settle, UNCHANGED creationVars
    PROVE  IInv'
<1>1. /\ cur.stage = "settle" /\ cur' = None
      /\ UNCHANGED <<declared, bindings, events, lost, fed, sent, faults, alive, listening,
                     inbox, index, docs, rejected, deliveries, refused>>
      /\ UNCHANGED <<requested, reply, stored, committed, counted, uncounted, req, answer>>
      /\ \/ /\ cur.held /\ ready' = ready \union {cur.n} /\ requeued' = requeued \union {cur.n}
            /\ UNCHANGED acked
         \/ cur.held /\ acked' = acked \union {cur.n} /\ UNCHANGED <<ready, requeued>>
         \/ ~cur.held /\ UNCHANGED <<ready, acked, requeued>>
  BY DEF Settle, NackRequeue, creationVars
<1>2. cur.n \in DOMAIN events /\ alive
  BY <1>1, WorkerFacts DEF CurInv, None
<1>3. CreationType' /\ RequestInv' /\ EventPosts' /\ OkMeansDone'
  BY <1>1, RequestsUndisturbed
<1>4. NothingBeforeCommit'
  BY <1>1 DEF IInv, NothingBeforeCommit
<1>5. cur' \in [n : 0..MaxEvents, stage : {"none", "recreate", "settle"}, err : BOOLEAN, held : BOOLEAN]
  BY <1>1 DEF None
<1>6. BrokerType'
  BY <1>1, <1>2, WorkerFacts DEF BrokerType
<1>7. IndexingType'
  BY <1>1, <1>2, <1>5, WorkerFacts DEF IndexingType
<1>8. CurInv'
  BY <1>1, <1>2, WorkerFacts DEF CurInv, None
<1>9. Placed'
  <2>1. /\ InHand' = {} /\ InHand = (IF cur.held THEN {cur.n} ELSE {})
        /\ ToSet(inbox)' = ToSet(inbox) /\ IsInjective(inbox)' = IsInjective(inbox)
    BY <1>1 DEF InHand, None
  <2>2. CASE cur.held /\ ready' = ready \union {cur.n} /\ UNCHANGED acked
    BY <1>1, <2>1, <2>2, WorkerFacts DEF Placed, Held
  <2>3. CASE cur.held /\ acked' = acked \union {cur.n} /\ UNCHANGED ready
    BY <1>1, <2>1, <2>3, WorkerFacts DEF Placed, Held
  <2>4. CASE ~cur.held /\ UNCHANGED <<ready, acked>>
    BY <1>1, <2>1, <2>4, WorkerFacts DEF Placed, Held
  <2> QED
    BY <1>1, <2>2, <2>3, <2>4
<1> QED
  BY <1>3, <1>4, <1>6, <1>7, <1>8, <1>9 DEF IInv, TypeOK

----------------------------------------------------------------------------
(* Nothing is with the worker any more, and nothing it did is undone.        *)
LEMMA WorkerEmptied ==
    ASSUME IInv, inbox' = << >>, cur' = None \/ cur' = [cur EXCEPT !.held = FALSE],
           alive' \in BOOLEAN, listening' = FALSE, alive' \/ cur'.stage = "none", alive \/ ~alive',
           UNCHANGED <<events, index, docs, acked, rejected, deliveries, requeued, refused,
                       committed, counted, uncounted, sent>>
    PROVE  /\ IndexingType' /\ CurInv' /\ NothingBeforeCommit'
           /\ ToSet(inbox)' = {} /\ InHand' = {} /\ Held' = {} /\ IsInjective(inbox)'
<1>1. ToSet(inbox') = {} /\ IsInjective(inbox') /\ inbox' \in Seq(DOMAIN events)
  BY DEF ToSet, IsInjective
<1>2. /\ cur' \in [n : 0..MaxEvents, stage : {"none", "recreate", "settle"}, err : BOOLEAN, held : BOOLEAN]
      /\ cur'.stage = "none" \/ (~cur'.held /\ cur'.n = cur.n /\ cur'.stage = cur.stage)
  <2>1. CASE cur' = None
    BY <2>1 DEF None
  <2>2. CASE cur' = [cur EXCEPT !.held = FALSE]
    BY <2>2, WorkerFacts DEF IndexingType
  <2> QED
    BY <2>1, <2>2
<1>3. InHand' = {}
  BY <1>2 DEF InHand
<1>4. IndexingType'
  BY <1>1, <1>2, WorkerFacts DEF IndexingType
<1>5. CurInv'
  BY <1>2, WorkerFacts DEF CurInv
<1>6. NothingBeforeCommit'
  BY DEF IInv, NothingBeforeCommit
<1> QED
  BY <1>1, <1>3, <1>4, <1>5, <1>6 DEF Held

(* The worker's connection breaks.                                           *)
LEMMA ChannelLostStep ==
    ASSUME IInv, ChannelLost, UNCHANGED creationVars
    PROVE  IInv'
<1>1. /\ listening /\ Fault("channel") /\ listening' = FALSE /\ ready' = ready \union Held
      /\ inbox' = << >> /\ cur' = [cur EXCEPT !.held = FALSE]
      /\ UNCHANGED <<declared, bindings, events, lost, fed, sent, alive, index, docs,
                     acked, rejected, deliveries, requeued, refused>>
      /\ UNCHANGED <<requested, reply, stored, committed, counted, uncounted, req, answer>>
  BY WorkerFacts DEF ChannelLost, creationVars
<1>2. CreationType' /\ RequestInv' /\ EventPosts' /\ OkMeansDone'
  BY <1>1, RequestsUndisturbed
<1>3. alive /\ alive' \in BOOLEAN
  BY <1>1, WorkerFacts DEF CurInv, IndexingType
<1>4. /\ IndexingType' /\ CurInv' /\ NothingBeforeCommit'
      /\ ToSet(inbox)' = {} /\ InHand' = {} /\ Held' = {} /\ IsInjective(inbox)'
  BY <1>1, <1>3, WorkerEmptied
<1>5. BrokerType'
  <2>1. faults' \in 0..MaxFaults
    BY <1>1, FaultFacts, WorkerFacts
  <2> QED
    BY <1>1, <2>1, WorkerFacts DEF BrokerType, Placed, Held
<1>6. Placed'
  BY <1>1, <1>4, WorkerFacts DEF Placed, Held
<1> QED
  BY <1>2, <1>4, <1>5, <1>6 DEF IInv, TypeOK

(* The worker dies.                                                          *)
LEMMA WorkerCrashStep ==
    ASSUME IInv, WorkerCrash, UNCHANGED creationVars
    PROVE  IInv'
<1>1. /\ alive /\ Fault("worker") /\ ~alive' /\ alive' \in BOOLEAN /\ listening' = FALSE
      /\ ready' = ready \union Held /\ inbox' = << >> /\ cur' = None
      /\ UNCHANGED <<declared, bindings, events, lost, fed, sent, index, docs,
                     acked, rejected, deliveries, requeued, refused>>
      /\ UNCHANGED <<requested, reply, stored, committed, counted, uncounted, req, answer>>
  BY WorkerFacts DEF WorkerCrash, creationVars
<1>2. CreationType' /\ RequestInv' /\ EventPosts' /\ OkMeansDone'
  BY <1>1, RequestsUndisturbed
<1>3. /\ IndexingType' /\ CurInv' /\ NothingBeforeCommit'
      /\ ToSet(inbox)' = {} /\ InHand' = {} /\ Held' = {} /\ IsInjective(inbox)'
  <2>1. cur'.stage = "none"
    BY <1>1 DEF None
  <2> QED
    BY <1>1, <2>1, WorkerEmptied
<1>4. BrokerType'
  <2>1. faults' \in 0..MaxFaults
    BY <1>1, FaultFacts, WorkerFacts
  <2> QED
    BY <1>1, <2>1, WorkerFacts DEF BrokerType, Placed, Held
<1>5. Placed'
  BY <1>1, <1>3, WorkerFacts DEF Placed, Held
<1> QED
  BY <1>2, <1>3, <1>4, <1>5 DEF IInv, TypeOK

(* The broker restarts: what waited and what was delivered is lost.          *)
LEMMA BrokerRestartStep ==
    ASSUME IInv, BrokerRestart, UNCHANGED creationVars
    PROVE  IInv'
<1>1. /\ Fault("broker") /\ listening' = FALSE /\ declared' = {} /\ bindings' = {} /\ ready' = {}
      /\ lost' = lost \union ready \union Held
      /\ inbox' = << >> /\ cur' = [cur EXCEPT !.held = FALSE]
      /\ UNCHANGED <<events, fed, sent, alive, index, docs, acked, rejected, deliveries, requeued, refused>>
      /\ UNCHANGED <<requested, reply, stored, committed, counted, uncounted, req, answer>>
  BY WorkerFacts DEF BrokerRestart, creationVars
<1>2. CreationType' /\ RequestInv' /\ EventPosts' /\ OkMeansDone'
  BY <1>1, RequestsUndisturbed
<1>3. alive' \in BOOLEAN /\ (alive' \/ cur'.stage = "none") /\ (alive \/ ~alive')
  <2>1. alive \in BOOLEAN
    BY WorkerFacts DEF IndexingType
  <2>2. ~alive => cur.stage = "none"
    BY WorkerFacts DEF CurInv
  <2>3. cur'.stage = cur.stage
    BY <1>1, WorkerFacts DEF IndexingType
  <2>4. alive' = alive
    BY <1>1
  <2> QED
    BY <2>1, <2>2, <2>3, <2>4, Zenon
<1>4. /\ IndexingType' /\ CurInv' /\ NothingBeforeCommit'
      /\ ToSet(inbox)' = {} /\ InHand' = {} /\ Held' = {} /\ IsInjective(inbox)'
  BY <1>1, <1>3, WorkerEmptied
<1>5. BrokerType'
  <2>1. faults' \in 0..MaxFaults
    BY <1>1, FaultFacts, WorkerFacts
  <2>2. lost' \subseteq DOMAIN events
    BY <1>1, WorkerFacts DEF BrokerType, Placed, Held
  <2> QED
    BY <1>1, <2>1, <2>2, WorkerFacts DEF BrokerType
<1>6. Placed'
  BY <1>1, <1>4, WorkerFacts DEF Placed, Held
<1> QED
  BY <1>2, <1>4, <1>5, <1>6 DEF IInv, TypeOK

(* Another publisher sends an event about a post that was committed.         *)
LEMMA OtherPublisherStep ==
    ASSUME IInv, OtherPublisher, UNCHANGED creationVars
    PROVE  IInv'
<1>1. PICK k \in OtherEvents, p \in committed : publish_tweet(k[1], p, k[2])
  BY DEF OtherPublisher
<1> DEFINE bound == bindings \union {<<"tweet_events", "tweet.#">>}
           key == k[1]
           json == k[2]
<1>2. /\ declared' = declared \union {"tweet_events"} /\ bindings' = bound
      /\ BasicPublish(bound, key, p, json)
      /\ UNCHANGED <<lost, faults, indexingVars>>
      /\ UNCHANGED <<requested, reply, stored, committed, counted, uncounted, req, answer>>
  BY <1>1 DEF publish_tweet, QueueDeclare, creationVars
<1>3. key \in Keys /\ json \in BOOLEAN /\ p \in Posts /\ p \in committed
  BY DEF IInv, TypeOK, CreationType
<1> HIDE DEF key, json
<1>4. /\ events' \in Seq(Event) /\ Len(events') <= MaxEvents
      /\ DOMAIN events \subseteq DOMAIN events' /\ \A m \in DOMAIN events : events'[m] = events[m]
      /\ ready' \subseteq DOMAIN events' /\ fed' \subseteq Posts
      /\ sent' = sent \union {<<p, key>>}
      /\ \/ UNCHANGED <<events, ready>>
         \/ /\ Len(events') = Len(events) + 1 /\ ready' = ready \union {Len(events) + 1}
            /\ events'[Len(events) + 1].post = p
  <2> HIDE DEF bound
  <2>1. BrokerType /\ BasicPublish(bound, key, p, json)
    BY <1>2, WorkerFacts
  <2>2. Len(events) \in Nat
    BY WorkerFacts
  <2>3. BasicPublish(bound, key, p, TRUE) \/ BasicPublish(bound, key, p, FALSE)
    <3>1. json = TRUE \/ json = FALSE
      BY <1>3
    <3> QED
      BY <2>1, <3>1
  <2>4. CASE BasicPublish(bound, key, p, TRUE)
    BY <1>3, <2>1, <2>4, PublishFacts
  <2>5. CASE BasicPublish(bound, key, p, FALSE)
    BY <1>3, <2>1, <2>5, PublishFacts
  <2> QED
    BY <2>3, <2>4, <2>5
<1>5. IndexingType' /\ CurInv' /\ Placed'
  BY <1>2, <1>4, WorkerUndisturbed
<1>6. BrokerType'
  <2>1. declared' \subseteq Queues /\ bindings' \subseteq declared' \X {"tweet.#"}
    BY <1>2, WorkerFacts DEF BrokerType
  <2>2. sent' \subseteq Posts \X Keys /\ lost' \subseteq DOMAIN events' /\ faults' \in 0..MaxFaults
    BY <1>2, <1>3, <1>4, WorkerFacts DEF BrokerType
  <2> QED
    BY <1>4, <2>1, <2>2 DEF BrokerType
<1>7. CreationType' /\ RequestInv'
  BY <1>2, <1>4 DEF IInv, TypeOK, CreationType, RequestInv
<1>8. EventPosts'
  <2>1. DOMAIN events' = 1..Len(events')
    BY <1>4
  <2>2. ASSUME NEW m \in DOMAIN events', m \notin DOMAIN events PROVE events'[m].post = p
    <3>1. CASE UNCHANGED <<events, ready>>
      BY <2>2, <3>1
    <3>2. CASE Len(events') = Len(events) + 1 /\ events'[Len(events) + 1].post = p
      <4>1. m = Len(events) + 1
        BY <2>1, <2>2, <3>2, WorkerFacts
      <4> QED
        BY <3>2, <4>1
    <3> QED
      BY <1>4, <3>1, <3>2
  <2> QED
    BY <1>2, <1>3, <1>4, <2>2 DEF IInv, EventPosts
<1>9. NothingBeforeCommit' /\ OkMeansDone'
  BY <1>2, <1>3, <1>4 DEF IInv, NothingBeforeCommit, OkMeansDone, indexingVars
<1> QED
  BY <1>5, <1>6, <1>7, <1>8, <1>9 DEF IInv, TypeOK

(* Every step keeps the invariant.                                           *)
LEMMA StepInv == IInv /\ [Next]_vars => IInv'
<1> SUFFICES ASSUME IInv, [Next]_vars PROVE IInv'
  OBVIOUS
<1>1. CASE CreationStep /\ UNCHANGED indexingVars
  BY <1>1, RequestStep, CommitStep, RefreshStep, IncrementTweetsStep, PublishToFeedStep,
     PublishEventStep, DeletePostStep, ServiceCrashStep
     DEF CreationStep, createTweet, createTweetReply
<1>2. CASE IndexingStep /\ UNCHANGED creationVars
  BY <1>2, WorkerStartStep, DeliverStep, HandleStep, RecreateStep, SettleStep,
     ChannelLostStep, WorkerCrashStep, BrokerRestartStep
     DEF IndexingStep, WorkerStep
<1>3. CASE OtherPublisher /\ UNCHANGED creationVars
  BY <1>3, OtherPublisherStep
<1>4. CASE UNCHANGED vars
  <2>1. UNCHANGED <<brokerVars, indexingVars, creationVars, faults>>
    BY <1>4 DEF vars
  <2>2. /\ UNCHANGED <<requested, reply, stored, committed, counted, uncounted, req, answer>>
        /\ UNCHANGED <<declared, bindings, events, ready, lost, fed, sent>>
        /\ UNCHANGED index
    BY <2>1 DEF creationVars, brokerVars, indexingVars
  <2>3. BrokerType' /\ IndexingType' /\ EventPosts' /\ CurInv' /\ Placed'
    BY <2>1, <2>2, QuietStep, WorkerFacts DEF BrokerType
  <2>4. CreationType' /\ RequestInv' /\ OkMeansDone'
    BY <2>1, <2>2, RequestsUndisturbed
  <2>5. NothingBeforeCommit'
    BY <2>2 DEF IInv, NothingBeforeCommit
  <2> QED
    BY <2>3, <2>4, <2>5 DEF IInv, TypeOK
<1> QED
  BY <1>1, <1>2, <1>3, <1>4 DEF Next

----------------------------------------------------------------------------
(* The inductive invariant holds in every state.                             *)
THEOREM Invariance == Spec => []IInv
<1> QED
  BY InitInv, StepInv, PTL DEF Spec

(* All variables of the three parts keep their types.                        *)
THEOREM TypeCorrect == Spec => []TypeOK
<1>1. IInv => TypeOK
  BY DEF IInv
<1> QED
  BY <1>1, Invariance, PTL

(* No other service hears of a post before the tweets service has committed  *)
(* it, whichever of commit, count and publications fail.                     *)
THEOREM OnlyCommittedTravels == Spec => []NothingBeforeCommit
<1>1. IInv => NothingBeforeCommit
  BY DEF IInv
<1> QED
  BY <1>1, Invariance, PTL

(* The answer "tweet created" means that everything was done but, at most,   *)
(* the count.                                                                *)
THEOREM OkIsDone == Spec => []OkMeansDone
<1>1. IInv => OkMeansDone
  BY DEF IInv
<1> QED
  BY <1>1, Invariance, PTL

(* Between the queue, the worker and what it settled no event is duplicated  *)
(* or disappears, with crashes, broken connections and restarts.             *)
THEOREM EventsAccounted == Spec => []EventOnePlace
<1>1. IInv => EventOnePlace
  BY PlacedIsOnePlace DEF IInv
<1> QED
  BY <1>1, Invariance, PTL

----------------------------------------------------------------------------
(* AckedIndexed says what acknowledged events leave behind.  It follows from *)
(* what is known of the delivery that is about to be acknowledged.           *)
NeedsDocument(m) == events[m].key \in {"tweet.create", "tweet.update"}
Documented(m) == m \in refused \/ \E d \in index : d.event = m

IndexedInv ==
    /\ \A m \in acked : NeedsDocument(m) => Documented(m)
    /\ cur.stage = "settle" /\ ~cur.err /\ NeedsDocument(cur.n) => Documented(cur.n)

(* Messages are only added.                                                  *)
Grown == \A m \in DOMAIN events : m \in DOMAIN events' /\ events'[m] = events[m]

(* A publication adds one message at most.                                   *)
LEMMA PublishGrows ==
    ASSUME IInv, NEW bound, NEW key \in Keys, NEW post \in Posts, BasicPublish(bound, key, post, TRUE)
    PROVE  Grown
BY PublishFacts, WorkerFacts DEF Grown

(* So does every step.                                                       *)
LEMMA StepGrows ==
    ASSUME IInv, Next
    PROVE  Grown
<1>1. CASE UNCHANGED events
  BY <1>1 DEF Grown
<1>2. ASSUME NEW q \in Slots, PublishToFeed(q) PROVE Grown
  <2>1. req[q].post \in Posts
    BY <1>2, RequestFacts DEF PublishToFeed
  <2>2. UNCHANGED events \/ BasicPublish(bindings, "general_tweets", req[q].post, TRUE)
    BY <1>2 DEF PublishToFeed, produce_message
  <2> QED
    BY <1>1, <2>1, <2>2, PublishGrows
<1>3. ASSUME NEW q \in Slots, PublishEvent(q) PROVE Grown
  <2>1. req[q].post \in Posts
    BY <1>3, RequestFacts DEF PublishEvent
  <2>2. UNCHANGED events \/ BasicPublish(bindings, "tweet.create", req[q].post, TRUE)
    BY <1>3 DEF PublishEvent, produce_message
  <2> QED
    BY <1>1, <2>1, <2>2, PublishGrows
<1>4. CASE CreationStep
  <2>1. ASSUME NEW q \in Slots, Request(q, TRUE) \/ Request(q, FALSE) \/ Commit(q) \/ Refresh(q)
                                \/ IncrementTweets(q)
        PROVE  UNCHANGED events
    BY <2>1 DEF Request, Commit, Refresh, IncrementTweets, brokerVars
  <2>2. ASSUME NEW p \in Posts, deletePost(p) PROVE UNCHANGED events
    BY <2>2 DEF deletePost, brokerVars
  <2>3. ServiceCrash => UNCHANGED events
    BY DEF ServiceCrash, brokerVars
  <2> QED
    BY <1>1, <1>2, <1>3, <1>4, <2>1, <2>2, <2>3 DEF CreationStep, createTweet, createTweetReply
<1>5. CASE IndexingStep
  BY <1>1, <1>5 DEF IndexingStep, WorkerStep, Deliver, Handle, Recreate, Settle, WorkerStart, ChannelLost,
     WorkerCrash, BrokerRestart
<1>6. CASE OtherPublisher
  <2>1. PICK k \in OtherEvents, p \in committed : publish_tweet(k[1], p, k[2])
    BY <1>6 DEF OtherPublisher
  <2> DEFINE bound == bindings \union {<<"tweet_events", "tweet.#">>}
  <2>2. BasicPublish(bound, k[1], p, k[2]) /\ k[1] \in Keys /\ k[2] \in BOOLEAN /\ p \in Posts
    BY <2>1 DEF publish_tweet, IInv, TypeOK, CreationType
  <2> HIDE DEF bound
  <2>3. PICK json \in BOOLEAN : BasicPublish(bound, k[1], p, json)
    BY <2>2
  <2>4. BrokerType
    BY WorkerFacts
  <2> QED
    BY <2>2, <2>3, <2>4, PublishFacts DEF Grown
<1> QED
  BY <1>4, <1>5, <1>6 DEF Next

(* A step that leaves the index and what is acknowledged alone, and the      *)
(* delivery in work too or drops it.                                         *)
LEMMA IndexUndisturbed ==
    ASSUME IInv, IndexedInv, Grown, UNCHANGED <<index, acked, refused>>,
           cur'.stage = "settle" => cur.stage = "settle" /\ cur'.err = cur.err /\ cur'.n = cur.n
    PROVE  IndexedInv'
<1>1. ASSUME NEW m \in DOMAIN events
      PROVE  (NeedsDocument(m) <=> NeedsDocument(m)') /\ (Documented(m) <=> Documented(m)')
  BY <1>1 DEF Grown, NeedsDocument, Documented
<1>2. acked \subseteq DOMAIN events /\ (cur.stage = "settle" => cur.n \in DOMAIN events)
  BY WorkerFacts DEF IndexingType, CurInv
<1>3. ASSUME NEW m \in acked', NeedsDocument(m)' PROVE Documented(m)'
  BY <1>1, <1>2, <1>3 DEF IndexedInv
<1>4. ASSUME cur'.stage = "settle", ~cur'.err, NEW n \in DOMAIN events, n = cur.n, NeedsDocument(n)'
      PROVE  Documented(n)'
  BY <1>1, <1>4 DEF IndexedInv
<1> QED
  BY <1>2, <1>3, <1>4 DEF IndexedInv, NeedsDocument, Documented

(* Create leaves a document or a refusal, and keeps all others.              *)
LEMMA CreateDocuments ==
    ASSUME NEW m, Create(m)
    PROVE  /\ m \in refused' \/ \E d \in index' : d.event = m
           /\ index \subseteq index' /\ refused \subseteq refused'
<1>1. /\ refused' = refused \/ refused' = refused \union {m}
      /\ \E copies \in Nat : IndexDocument(m, copies) /\ (copies > 0 \/ m \in refused')
  BY DEF Create
<1>2. PICK copies \in Nat : IndexDocument(m, copies) /\ (copies > 0 \/ m \in refused')
  BY <1>1
<1> DEFINE new(i) == [id |-> AutoId(docs + i), event |-> m, post |-> events[m].post]
<1>3. \A i : new(i).event = m
  OBVIOUS
<1>4. index' = index \union {new(i) : i \in 1..copies}
  BY <1>2 DEF IndexDocument
<1>5. ASSUME copies > 0 PROVE \E d \in index' : d.event = m
  <2>1. new(1) \in index'
    BY <1>4, <1>5
  <2> QED
    BY <1>3, <2>1
<1> QED
  BY <1>1, <1>2, <1>4, <1>5

(* A deletion by the id of the tweet finds nothing.                          *)
LEMMA DeleteFindsNothing ==
    ASSUME IInv, NEW p, DeleteDocument(p)
    PROVE  UNCHANGED index
<1>1. \A d \in index : d.id # TweetId(p)
  BY WorkerFacts DEF IndexingType, AutoId, TweetId
<1> QED
  BY <1>1 DEF DeleteDocument

(* What was documented stays so.                                             *)
LEMMA DocumentsStay ==
    ASSUME UNCHANGED events, index \subseteq index', refused \subseteq refused', NEW m
    PROVE  (NeedsDocument(m) <=> NeedsDocument(m)') /\ (Documented(m) => Documented(m)')
BY DEF NeedsDocument, Documented

(* handle_message begins.                                                    *)
LEMMA HandleIndexed ==
    ASSUME IInv, IndexedInv, Handle
    PROVE  IndexedInv'
<1> PICK m : m = inbox[1]
  OBVIOUS
<1>1. cur = None /\ UNCHANGED <<events, acked>>
  BY DEF Handle
<1>2. /\ index \subseteq index' /\ refused \subseteq refused'
      /\ cur'.stage = "settle" /\ ~cur'.err /\ NeedsDocument(m) => Documented(m)'
      /\ cur'.stage = "settle" => cur'.n = m
  <2>1. CASE ~events[m].json
    <3>1. UNCHANGED <<cur, index, refused>>
      BY <2>1 DEF Handle, FirstIn
    <3>2. cur'.stage = "none"
      BY <1>1, <3>1 DEF None
    <3> QED
      BY <3>1, <3>2
  <2>2. CASE events[m].json /\ events[m].key = "tweet.create"
    <3>1. Create(m) /\ At(m, "settle", FALSE)
      BY <2>2 DEF Handle, FirstIn
    <3>2. /\ index \subseteq index' /\ refused \subseteq refused'
          /\ m \in refused' \/ \E d \in index' : d.event = m
      BY <3>1, CreateDocuments
    <3> QED
      BY <3>1, <3>2 DEF At, Documented
  <2>3. CASE events[m].json /\ events[m].key = "tweet.update"
    <3>1. /\ Delete(events[m].post, UpdateDeleted(m), At(m, "settle", TRUE))
          /\ UNCHANGED refused
      BY <2>3 DEF Handle, FirstIn
    <3>2. UNCHANGED index
      BY <3>1, DeleteFindsNothing DEF Delete
    <3> QED
      BY <3>1, <3>2 DEF Delete, UpdateDeleted, At
  <2>4. CASE events[m].json /\ events[m].key = "tweet.delete"
    <3>1. /\ Delete(events[m].post, At(m, "settle", FALSE), At(m, "settle", TRUE))
          /\ UNCHANGED refused
      BY <2>4 DEF Handle, FirstIn
    <3>2. UNCHANGED index
      BY <3>1, DeleteFindsNothing DEF Delete
    <3> QED
      BY <2>4, <3>1, <3>2 DEF Delete, At, NeedsDocument
  <2>5. CASE events[m].json /\ events[m].key = "tweet.other"
    BY <2>5 DEF Handle, FirstIn, At, NeedsDocument
  <2> QED
    BY <2>1, <2>2, <2>3, <2>4, <2>5 DEF Handle, FirstIn
<1>3. \A n : (NeedsDocument(n) <=> NeedsDocument(n)') /\ (Documented(n) => Documented(n)')
  BY <1>1, <1>2, DocumentsStay
<1>4. \A n \in acked' : NeedsDocument(n)' => Documented(n)'
  BY <1>1, <1>3 DEF IndexedInv
<1>5. cur'.stage = "settle" /\ ~cur'.err /\ NeedsDocument(m)' => Documented(m)'
  BY <1>2, <1>3
<1> QED
  BY <1>2, <1>4, <1>5 DEF IndexedInv, NeedsDocument, Documented

(* The create of an update.                                                  *)
LEMMA RecreateIndexed ==
    ASSUME IInv, IndexedInv, Recreate
    PROVE  IndexedInv'
<1>1. Create(cur.n) /\ UNCHANGED <<events, acked>> /\ cur' = [cur EXCEPT !.stage = "settle"]
  BY DEF Recreate, RecreateDone
<1>2. index \subseteq index' /\ refused \subseteq refused' /\ Documented(cur.n)'
  <2>1. /\ index \subseteq index' /\ refused \subseteq refused'
        /\ cur.n \in refused' \/ \E d \in index' : d.event = cur.n
    BY <1>1, CreateDocuments
  <2>2. cur'.n = cur.n
    BY <1>1, WorkerFacts DEF IndexingType
  <2> QED
    BY <2>1, <2>2 DEF Documented
<1>3. \A n : (NeedsDocument(n) <=> NeedsDocument(n)') /\ (Documented(n) => Documented(n)')
  BY <1>1, <1>2, DocumentsStay
<1>4. \A n \in acked' : NeedsDocument(n)' => Documented(n)'
  BY <1>1, <1>3 DEF IndexedInv
<1> QED
  BY <1>2, <1>4 DEF IndexedInv

(* The delivery is settled.                                                  *)
LEMMA SettleIndexed ==
    ASSUME IInv, IndexedInv, Settle
    PROVE  IndexedInv'
<1>1. /\ cur.stage = "settle" /\ cur'.stage = "none" /\ UNCHANGED <<events, index, refused>>
      /\ acked' = acked \/ (~cur.err /\ acked' = acked \union {cur.n})
  BY DEF Settle, None
<1>2. \A m : (NeedsDocument(m) <=> NeedsDocument(m)') /\ (Documented(m) => Documented(m)')
  BY <1>1, DocumentsStay
<1>3. \A m \in acked' : NeedsDocument(m) => Documented(m)
  BY <1>1 DEF IndexedInv
<1>4. \A m \in acked' : NeedsDocument(m)' => Documented(m)'
  BY <1>2, <1>3
<1> QED
  BY <1>1, <1>4 DEF IndexedInv

(* Every step keeps it.                                                      *)
LEMMA StepIndexed == IInv /\ IndexedInv /\ [Next]_vars => IndexedInv'
<1> SUFFICES ASSUME IInv, IndexedInv, [Next]_vars PROVE IndexedInv'
  OBVIOUS
<1>1. CASE UNCHANGED indexingVars /\ Next
  BY <1>1, StepGrows, IndexUndisturbed DEF indexingVars
<1>2. CASE IndexingStep /\ Next
  <2>1. Grown
    BY <1>2, StepGrows
  <2>2. ASSUME WorkerStart \/ Deliver \/ ChannelLost \/ WorkerCrash \/ BrokerRestart PROVE IndexedInv'
    <3>1. UNCHANGED <<index, acked, refused>>
      BY <2>2 DEF WorkerStart, Deliver, ChannelLost, WorkerCrash, BrokerRestart
    <3>2. cur' = cur \/ cur' = None \/ cur' = [cur EXCEPT !.held = FALSE]
      BY <2>2 DEF WorkerStart, Deliver, ChannelLost, WorkerCrash, BrokerRestart
    <3>3. cur'.stage = "settle" => cur.stage = "settle" /\ cur'.err = cur.err /\ cur'.n = cur.n
      BY <3>2, WorkerFacts DEF IndexingType, None
    <3> QED
      BY <2>1, <3>1, <3>3, IndexUndisturbed
  <2> QED
    BY <1>2, <2>2, HandleIndexed, RecreateIndexed, SettleIndexed DEF IndexingStep, WorkerStep
<1>3. CASE UNCHANGED vars
  <2>1. UNCHANGED <<events, index, acked, refused, cur>>
    BY <1>3 DEF vars, brokerVars, indexingVars
  <2> QED
    BY <2>1, IndexUndisturbed DEF Grown
<1>4. Next => UNCHANGED indexingVars \/ IndexingStep
  BY DEF Next, OtherPublisher, publish_tweet
<1> QED
  BY <1>1, <1>2, <1>3, <1>4

(* An acknowledged create or update is in the index unless Elasticsearch     *)
(* refused it, for any number of events, deliveries and failures.            *)
THEOREM DocumentsForAcked == Spec => []AckedIndexed
<1>1. Init => IndexedInv
  <2>1. Init => acked = {} /\ cur.stage = "none"
    BY DEF Init, IndexingInit, None
  <2> QED
    BY <2>1 DEF IndexedInv
<1>2. IndexedInv => AckedIndexed
  BY DEF IndexedInv, AckedIndexed, NeedsDocument, Documented
<1> QED
  BY <1>1, <1>2, StepIndexed, Invariance, PTL DEF Spec

----------------------------------------------------------------------------
(* LateOnlyAfterRequeue follows from the order of the inbox.                 *)
Past == acked \union rejected \union lost \union requeued

(* Below an event that was taken up, all are past; below one in the inbox    *)
(* they are past, in hand, or ahead of it.                                   *)
OrderInv ==
    /\ \A n \in acked \union InHand : \A m \in 1..(n - 1) : m \in Past
    /\ \A j \in DOMAIN inbox : \A m \in 1..(inbox[j] - 1) :
           m \in Past \union InHand \/ \E i \in 1..(j - 1) : inbox[i] = m

(* A step that takes up nothing.                                             *)
LEMMA OrderUndisturbed ==
    ASSUME OrderInv, UNCHANGED <<acked, requeued, rejected>>, lost \subseteq lost',
           \/ UNCHANGED <<inbox, cur>>
           \/ inbox' = << >> /\ InHand' = {}
    PROVE  OrderInv'
<1>1. Past \subseteq Past'
  BY DEF Past
<1>2. CASE UNCHANGED <<inbox, cur>>
  BY <1>1, <1>2 DEF OrderInv, InHand
<1>3. CASE inbox' = << >> /\ InHand' = {}
  BY <1>1, <1>3 DEF OrderInv
<1> QED
  BY <1>2, <1>3

(* The least of what waits is delivered.                                     *)
LEMMA DeliverOrder ==
    ASSUME IInv, OrderInv, Deliver
    PROVE  OrderInv'
<1> PICK n : n = Min(ready)
  OBVIOUS
<1>1. /\ ready # {} /\ inbox' = Append(inbox, n)
      /\ UNCHANGED <<events, lost, cur, acked, rejected, requeued>>
  BY DEF Deliver
<1>2. n \in DOMAIN events /\ \A m \in ready : n <= m
  BY <1>1, WorkerFacts, MinFacts DEF BrokerType
<1>3. ASSUME NEW m \in 1..(n - 1) PROVE m \in Past \union InHand \/ \E i \in 1..Len(inbox) : inbox[i] = m
  <2>1. m \in DOMAIN events /\ m \notin ready
    BY <1>2, WorkerFacts
  <2>2. m \in ToSet(inbox) \union InHand \union acked \union rejected \union lost
    BY <2>1, WorkerFacts DEF Placed
  <2>3. DOMAIN inbox = 1..Len(inbox)
    BY WorkerFacts
  <2> QED
    BY <2>2, <2>3 DEF Past, ToSet
<1>4. /\ DOMAIN inbox = 1..Len(inbox) /\ Len(inbox) \in Nat /\ DOMAIN inbox' = 1..(Len(inbox) + 1)
      /\ \A j \in 1..Len(inbox) : inbox'[j] = inbox[j]
      /\ inbox'[Len(inbox) + 1] = n
  BY <1>1, <1>2, WorkerFacts
<1>5. Past' = Past /\ InHand' = InHand
  BY <1>1 DEF Past, InHand
<1>6. ASSUME NEW j \in DOMAIN inbox', NEW m \in 1..(inbox'[j] - 1)
      PROVE  m \in Past \union InHand \/ \E i \in 1..(j - 1) : inbox'[i] = m
  <2>1. CASE j \in 1..Len(inbox)
    <3>1. m \in Past \union InHand \/ \E i \in 1..(j - 1) : inbox[i] = m
      BY <1>4, <1>6, <2>1 DEF OrderInv
    <3>2. 1..(j - 1) \subseteq 1..Len(inbox)
      BY <1>4, <2>1
    <3> QED
      BY <1>4, <3>1, <3>2
  <2>2. CASE j = Len(inbox) + 1
    <3>1. 1..(j - 1) = 1..Len(inbox)
      BY <1>4, <2>2
    <3> QED
      BY <1>3, <1>4, <1>6, <2>2, <3>1
  <2> QED
    BY <1>4, <2>1, <2>2
<1> QED
  BY <1>1, <1>5, <1>6 DEF OrderInv

(* The first delivery is taken up.                                           *)
LEMMA HandleOrder ==
    ASSUME IInv, OrderInv, Handle
    PROVE  OrderInv'
<1> PICK n : n = inbox[1]
  OBVIOUS
<1>1. /\ cur = None /\ inbox # << >> /\ inbox' = RemoveAt(inbox, 1)
      /\ UNCHANGED <<events, lost, acked, requeued>>
  BY DEF Handle, FirstIn
<1>2. \/ UNCHANGED cur /\ rejected' = rejected \union {n}
      \/ UNCHANGED rejected /\ cur'.n = n /\ cur'.stage # "none" /\ cur'.held
  <2>1. CASE ~events[n].json
    BY <2>1 DEF Handle, FirstIn
  <2>2. CASE events[n].json /\ events[n].key = "tweet.create"
    BY <2>2 DEF Handle, FirstIn, At
  <2>3. CASE events[n].json /\ events[n].key = "tweet.update"
    <3>1. Delete(events[n].post, UpdateDeleted(n), At(n, "settle", TRUE)) /\ UNCHANGED rejected
      BY <2>3 DEF Handle, FirstIn
    <3> QED
      BY <3>1 DEF Delete, UpdateDeleted, At
  <2>4. CASE events[n].json /\ events[n].key = "tweet.delete"
    <3>1. Delete(events[n].post, At(n, "settle", FALSE), At(n, "settle", TRUE)) /\ UNCHANGED rejected
      BY <2>4 DEF Handle, FirstIn
    <3> QED
      BY <3>1 DEF Delete, At
  <2>5. CASE events[n].json /\ events[n].key = "tweet.other"
    BY <2>5 DEF Handle, FirstIn, At
  <2> QED
    BY <2>1, <2>2, <2>3, <2>4, <2>5 DEF Handle, FirstIn
<1>3. InHand = {} /\ Past \subseteq Past' /\ n \in Past' \union InHand' /\ InHand' \subseteq {n}
  BY <1>1, <1>2 DEF InHand, None, Past
<1>4. /\ Len(inbox) \in Nat /\ Len(inbox) > 0 /\ DOMAIN inbox = 1..Len(inbox)
      /\ DOMAIN inbox' = 1..(Len(inbox) - 1)
      /\ \A i \in 1..(Len(inbox) - 1) : inbox'[i] = inbox[i + 1]
  <2>1. inbox \in Seq(DOMAIN events) /\ Len(inbox) \in Nat /\ DOMAIN inbox = 1..Len(inbox)
    BY WorkerFacts
  <2>2. Len(inbox) # 0
    BY <1>1, <2>1
  <2>3. /\ inbox' \in Seq(DOMAIN events) /\ Len(inbox') = Len(inbox) - 1
        /\ \A i \in 1..(Len(inbox) - 1) : inbox'[i] = inbox[i + 1]
    <3>1. /\ RemoveAt(inbox, 1) \in Seq(DOMAIN events) /\ Len(RemoveAt(inbox, 1)) = Len(inbox) - 1
          /\ \A i \in 1..(Len(inbox) - 1) : RemoveAt(inbox, 1)[i] = inbox[i + 1]
      <4>1. PICK S : S = DOMAIN events
        OBVIOUS
      <4>2. PICK s \in Seq(S) : s = inbox /\ s # << >>
        BY <1>1, <2>1, <4>1
      <4>3. /\ RemoveAt(s, 1) \in Seq(S) /\ Len(RemoveAt(s, 1)) = Len(s) - 1
            /\ \A i \in 1..(Len(s) - 1) : RemoveAt(s, 1)[i] = s[i + 1]
        BY <4>2, LeaveInbox
      <4> QED
        BY <4>1, <4>2, <4>3
    <3> QED
      BY <1>1, <3>1
  <2>4. DOMAIN inbox' = 1..Len(inbox')
    BY <2>3
  <2> QED
    BY <2>1, <2>2, <2>3, <2>4
<1>5. \A m \in 1..(n - 1) : m \in Past
  <2>1. 1 \in DOMAIN inbox /\ 1..(1 - 1) = {}
    BY <1>4
  <2> QED
    BY <1>3, <2>1 DEF OrderInv
<1>6. ASSUME NEW j \in DOMAIN inbox', NEW m \in 1..(inbox'[j] - 1)
      PROVE  m \in Past' \union InHand' \/ \E i \in 1..(j - 1) : inbox'[i] = m
  <2>1. j + 1 \in DOMAIN inbox /\ inbox'[j] = inbox[j + 1] /\ (j + 1) - 1 = j /\ j \in 1..(Len(inbox) - 1)
    BY <1>4, <1>6
  <2>2. m \in Past \/ \E i \in 1..j : inbox[i] = m
    BY <1>3, <1>6, <2>1 DEF OrderInv
  <2>3. ASSUME NEW i \in 1..j, inbox[i] = m
        PROVE  m \in Past' \union InHand' \/ \E k \in 1..(j - 1) : inbox'[k] = m
    <3>1. CASE i = 1
      BY <1>3, <2>3, <3>1
    <3>2. CASE i # 1
      <4>1. i - 1 \in 1..(j - 1) /\ i - 1 \in 1..(Len(inbox) - 1) /\ (i - 1) + 1 = i
        BY <2>1, <3>2
      <4> QED
        BY <1>4, <2>3, <4>1
    <3> QED
      BY <3>1, <3>2
  <2> QED
    BY <1>3, <2>2, <2>3
<1>7. ASSUME NEW k \in acked' \union InHand', NEW m \in 1..(k - 1) PROVE m \in Past'
  <2>1. CASE k \in acked
    BY <1>3, <1>7, <2>1 DEF OrderInv
  <2>2. CASE k = n
    BY <1>3, <1>5, <1>7, <2>2
  <2> QED
    BY <1>1, <1>3, <2>1, <2>2
<1> QED
  BY <1>6, <1>7 DEF OrderInv

(* What was in hand is past, or its channel is gone.                         *)
LEMMA SettleOrder ==
    ASSUME IInv, OrderInv, Settle
    PROVE  OrderInv'
<1>1. /\ cur.stage = "settle" /\ cur' = None /\ UNCHANGED <<lost, inbox, rejected>>
      /\ \/ cur.held /\ requeued' = requeued \union {cur.n} /\ UNCHANGED acked
         \/ cur.held /\ acked' = acked \union {cur.n} /\ UNCHANGED requeued
         \/ ~cur.held /\ UNCHANGED <<acked, requeued>>
  BY DEF Settle, NackRequeue
<1>2. InHand' = {} /\ Past' = Past \union InHand /\ acked' \subseteq acked \union InHand
  BY <1>1 DEF InHand, None, Past
<1>3. \A n \in acked' : \A m \in 1..(n - 1) : m \in Past'
  BY <1>2 DEF OrderInv
<1>4. \A j \in DOMAIN inbox : \A m \in 1..(inbox[j] - 1) : m \in Past' \/ \E i \in 1..(j - 1) : inbox[i] = m
  BY <1>2 DEF OrderInv
<1> QED
  BY <1>1, <1>2, <1>3, <1>4 DEF OrderInv

(* Every step keeps the order.                                               *)
LEMMA StepOrder == IInv /\ OrderInv /\ [Next]_vars => OrderInv'
<1> SUFFICES ASSUME IInv, OrderInv, [Next]_vars PROVE OrderInv'
  OBVIOUS
<1>1. CASE UNCHANGED indexingVars /\ UNCHANGED lost
  BY <1>1, OrderUndisturbed DEF indexingVars
<1>2. CASE WorkerStart \/ ChannelLost \/ WorkerCrash \/ BrokerRestart
  <2>1. UNCHANGED <<acked, requeued, rejected>> /\ lost \subseteq lost'
    BY <1>2 DEF WorkerStart, ChannelLost, WorkerCrash, BrokerRestart
  <2>2. \/ UNCHANGED <<inbox, cur>>
        \/ inbox' = << >> /\ (cur' = None \/ cur' = [cur EXCEPT !.held = FALSE])
    BY <1>2 DEF WorkerStart, ChannelLost, WorkerCrash, BrokerRestart
  <2>3. cur' = None \/ cur' = [cur EXCEPT !.held = FALSE] => InHand' = {}
    BY WorkerFacts DEF IndexingType, None, InHand
  <2> QED
    BY <2>1, <2>2, <2>3, OrderUndisturbed
<1>3. CASE Recreate
  <2>1. /\ UNCHANGED <<lost, inbox, acked, rejected, requeued>>
        /\ cur.stage = "recreate" /\ cur' = [cur EXCEPT !.stage = "settle"]
    BY <1>3 DEF Recreate, RecreateDone
  <2>2. InHand' = InHand
    BY <2>1, WorkerFacts DEF IndexingType, InHand
  <2> QED
    BY <2>1, <2>2 DEF OrderInv, Past
<1>4. CASE Deliver \/ Handle \/ Settle
  BY <1>4, DeliverOrder, HandleOrder, SettleOrder
<1>5. CreationStep => UNCHANGED lost
  BY DEF CreationStep, createTweet, createTweetReply, Request, Commit, Refresh, IncrementTweets,
     PublishToFeed, PublishEvent, produce_message, deletePost, ServiceCrash, brokerVars
<1>6. OtherPublisher => UNCHANGED lost /\ UNCHANGED indexingVars
  BY DEF OtherPublisher, publish_tweet
<1>7. UNCHANGED vars => UNCHANGED indexingVars /\ UNCHANGED lost
  BY DEF vars, brokerVars
<1> QED
  BY <1>1, <1>2, <1>3, <1>4, <1>5, <1>6, <1>7 DEF Next, IndexingStep, WorkerStep

(* Events are acknowledged in order but for those handle_message gave back,  *)
(* for any number of events, deliveries and failures.                        *)
THEOREM AckedInOrder == Spec => []LateOnlyAfterRequeue
<1>1. Init => OrderInv
  <2>1. Init => acked = {} /\ InHand = {} /\ inbox = << >>
    BY DEF Init, IndexingInit, None, InHand
  <2> QED
    BY <2>1 DEF OrderInv
<1>2. OrderInv => LateOnlyAfterRequeue
  BY DEF OrderInv, LateOnlyAfterRequeue, Past
<1> QED
  BY <1>1, <1>2, StepOrder, Invariance, PTL DEF Spec

----------------------------------------------------------------------------
(* DocumentsNeedDeliveries holds because a delivery that has not indexed its *)
(* document yet is counted, but the documents it may leave are not.          *)
DocsIn(S, m) == {d \in S : d.event = m}
DocsOf(m) == DocsIn(index, m)
Pending(m) == m \in ToSet(inbox) \/ (cur.stage = "recreate" /\ cur.n = m)
Allowed(m) == IF Pending(m) THEN deliveries[m] - 1 ELSE deliveries[m]
Copies == 1 + Resends

CountInv ==
    /\ IsFiniteSet(index)
    /\ \A m \in 1..MaxEvents :
           Allowed(m) \in Nat /\ Cardinality(DocsOf(m)) <= Copies * Allowed(m)

(* More deliveries allow as many documents, and one more a batch of them.    *)
LEMMA CopiesGrow ==
    ASSUME NEW a \in Nat, NEW b \in Nat, a <= b
    PROVE  /\ Copies \in Nat
           /\ Copies * a \in Nat /\ Copies * b \in Nat /\ Copies * a <= Copies * b
           /\ Copies * (a + 1) = Copies * a + Copies
<1>1. Copies \in Nat
  BY DEF Copies
<1>2. PICK k \in Nat : k = Copies
  BY <1>1
<1>3. PICK d \in Nat : b = a + d
  <2>1. b - a \in Nat /\ b = a + (b - a)
    OBVIOUS
  <2> QED
    BY <2>1
<1>4. k * a \in Nat /\ k * d \in Nat /\ k * b = k * a + k * d /\ k * (a + 1) = k * a + k
  BY <1>3
<1> QED
  BY <1>1, <1>2, <1>4

(* What one call leaves is a set of at most Copies documents of its event.   *)
LEMMA NewDocuments ==
    ASSUME IInv, NEW n \in 1..MaxEvents, Create(n)
    PROVE  \E new : /\ index' = index \union new
                    /\ \A x \in new : x.event = n
                    /\ IsFiniteSet(new) /\ Cardinality(new) \in Nat /\ Cardinality(new) <= Copies
<1>1. PICK copies \in Nat : IndexDocument(n, copies) /\ copies <= Copies
  <2>1. 1 \in Nat /\ 1 <= Copies /\ \A c \in 0..(1 + Resends) : c \in Nat /\ c <= Copies
    BY DEF Copies
  <2> QED
    BY <2>1 DEF Create
<1> DEFINE doc(i) == [id |-> AutoId(docs + i), event |-> n, post |-> events[n].post]
           new == {doc(i) : i \in 1..copies}
           f == [i \in 1..copies |-> doc(i)]
<1>2. index' = index \union new /\ \A x \in new : x.event = n
  BY <1>1 DEF IndexDocument
<1> HIDE DEF doc
<1>3. f \in Surjection(1..copies, new)
  <2>1. f \in [1..copies -> new] /\ \A i \in 1..copies : f[i] = doc(i)
    OBVIOUS
  <2>2. \A t \in new : \E i \in 1..copies : f[i] = t
    BY <2>1
  <2> HIDE DEF f, new
  <2> QED
    BY <2>1, <2>2 DEF Surjection
<1>4. IsFiniteSet(1..copies) /\ Cardinality(1..copies) = copies
  <2>1. /\ IsFiniteSet(1..copies)
        /\ Cardinality(1..copies) = IF 1 > copies THEN 0 ELSE copies - 1 + 1
    <3>1. 1 \in Int /\ copies \in Int
      BY <1>1
    <3> QED
      BY ONLY <3>1, FS_Interval
  <2> QED
    BY <1>1, <2>1
<1> HIDE DEF new, f
<1>5. IsFiniteSet(new) /\ Cardinality(new) <= Cardinality(1..copies)
  BY <1>3, <1>4, FS_Surjection
<1>6. Cardinality(new) \in Nat
  BY <1>5, FS_CardinalityType
<1>7. Cardinality(new) <= Copies
  BY <1>1, <1>4, <1>5, <1>6 DEF Copies
<1> QED
  BY <1>2, <1>5, <1>6, <1>7

(* A set with more documents, or fewer.                                      *)
LEMMA DocumentCounts ==
    ASSUME NEW S, IsFiniteSet(S), NEW m
    PROVE  /\ Cardinality(DocsIn(S, m)) \in Nat
           /\ \A T : T \subseteq S =>
                  /\ IsFiniteSet(T)
                  /\ Cardinality(DocsIn(T, m)) \in Nat
                  /\ Cardinality(DocsIn(T, m)) <= Cardinality(DocsIn(S, m))
           /\ \A T, N : T = S \union N /\ IsFiniteSet(N) =>
                  /\ IsFiniteSet(T)
                  /\ Cardinality(DocsIn(T, m)) \in Nat
                  /\ Cardinality(DocsIn(T, m)) <= Cardinality(DocsIn(S, m)) + Cardinality(N)
                  /\ (\A x \in N : x.event # m) => DocsIn(T, m) = DocsIn(S, m)
<1> DEFINE A == DocsIn(S, m)
<1>1. IsFiniteSet(A) /\ Cardinality(A) \in Nat
  <2>1. A \subseteq S
    BY DEF DocsIn
  <2> QED
    BY <2>1, FS_Subset, FS_CardinalityType
<1>2. ASSUME NEW T, T \subseteq S
      PROVE  IsFiniteSet(T) /\ Cardinality(DocsIn(T, m)) \in Nat /\ Cardinality(DocsIn(T, m)) <= Cardinality(A)
  <2>1. DocsIn(T, m) \subseteq A
    BY <1>2 DEF DocsIn
  <2> HIDE DEF A
  <2> QED
    BY <1>1, <1>2, <2>1, FS_Subset, FS_CardinalityType
<1>3. ASSUME NEW T, NEW N, T = S \union N, IsFiniteSet(N)
      PROVE  /\ IsFiniteSet(T) /\ Cardinality(DocsIn(T, m)) \in Nat
             /\ Cardinality(DocsIn(T, m)) <= Cardinality(A) + Cardinality(N)
             /\ (\A x \in N : x.event # m) => DocsIn(T, m) = A
  <2> DEFINE B == A \union N
  <2>1. DocsIn(T, m) \subseteq B /\ ((\A x \in N : x.event # m) => DocsIn(T, m) = A)
    BY <1>3 DEF DocsIn
  <2> HIDE DEF A
  <2>2. IsFiniteSet(B) /\ Cardinality(B) \in Nat /\ Cardinality(B) <= Cardinality(A) + Cardinality(N)
    <3>1. IsFiniteSet(B) /\ Cardinality(B) = Cardinality(A) + Cardinality(N) - Cardinality(A \intersect N)
      BY <1>1, <1>3, FS_Union
    <3>2. Cardinality(A \intersect N) \in Nat /\ Cardinality(N) \in Nat /\ Cardinality(B) \in Nat
      <4>1. A \intersect N \subseteq N
        OBVIOUS
      <4> QED
        BY <1>3, <3>1, <4>1, FS_Subset, FS_CardinalityType
    <3> QED
      BY <1>1, <3>1, <3>2
  <2>3. IsFiniteSet(T)
    BY <1>3, FS_Union
  <2> HIDE DEF B
  <2>4. Cardinality(DocsIn(T, m)) \in Nat /\ Cardinality(DocsIn(T, m)) <= Cardinality(B)
    BY <2>1, <2>2, FS_Subset, FS_CardinalityType
  <2>5. Cardinality(N) \in Nat
    BY <1>3, FS_CardinalityType
  <2> QED
    BY <1>1, <2>1, <2>2, <2>3, <2>4, <2>5
<1> QED
  BY <1>1, <1>2, <1>3

(* What the counts are.                                                      *)
LEMMA CountFacts ==
    ASSUME IInv, CountInv, NEW m \in 1..MaxEvents
    PROVE  /\ deliveries[m] \in Nat /\ Allowed(m) \in Nat
           /\ Cardinality(DocsOf(m)) \in Nat /\ Cardinality(DocsOf(m)) <= Copies * Allowed(m)
<1>1. deliveries[m] \in Nat
  BY WorkerFacts DEF IndexingType
<1>2. Cardinality(DocsOf(m)) \in Nat
  BY DocumentCounts DEF CountInv, DocsOf
<1> QED
  BY <1>1, <1>2 DEF CountInv

(* A count that has not grown is below a limit that has not shrunk.          *)
LEMMA StillAllowed ==
    ASSUME NEW c \in Nat, NEW d \in Nat, NEW a \in Nat, NEW b \in Nat,
           c <= Copies * a, d <= c, a <= b
    PROVE  d <= Copies * b
<1>1. Copies * a \in Nat /\ Copies * b \in Nat /\ Copies * a <= Copies * b
  BY CopiesGrow
<1> QED
  BY <1>1

(* A step that adds neither a document nor a delivery.                       *)
LEMMA NothingIndexed ==
    ASSUME IInv, CountInv, index' \subseteq index, UNCHANGED deliveries,
           \A m \in 1..MaxEvents : Pending(m)' => Pending(m)
    PROVE  CountInv'
<1>1. IsFiniteSet(index')
  BY DocumentCounts DEF CountInv
<1>2. ASSUME NEW m \in 1..MaxEvents
      PROVE  Allowed(m)' \in Nat /\ Cardinality(DocsOf(m)') <= Copies * Allowed(m)'
  <2>1. Cardinality(DocsOf(m)') <= Cardinality(DocsOf(m)) /\ Cardinality(DocsOf(m)') \in Nat
    <3>1. DocsOf(m)' = DocsIn(index', m)
      BY DEF DocsOf, DocsIn
    <3> QED
      BY <3>1, DocumentCounts DEF CountInv, DocsOf
  <2>2. Allowed(m) <= Allowed(m)' /\ Allowed(m)' \in Nat
    <3>1. deliveries[m] \in Nat /\ deliveries'[m] = deliveries[m] /\ Allowed(m) \in Nat
      BY CountFacts
    <3>2. CASE Pending(m)
      BY <3>1, <3>2 DEF Allowed
    <3>3. CASE ~Pending(m) /\ ~Pending(m)'
      BY <3>1, <3>3 DEF Allowed
    <3> QED
      BY <3>2, <3>3
  <2>3. PICK c, d, x, y : /\ c = Cardinality(DocsOf(m)) /\ d = Cardinality(DocsOf(m)')
                          /\ x = Allowed(m) /\ y = Allowed(m)'
    OBVIOUS
  <2>4. c \in Nat /\ d \in Nat /\ x \in Nat /\ y \in Nat /\ c <= Copies * x /\ d <= c /\ x <= y
    BY <2>1, <2>2, <2>3, CountFacts
  <2>5. d <= Copies * y
    BY <2>4, StillAllowed
  <2> QED
    BY <2>2, <2>3, <2>5
<1> QED
  BY <1>1, <1>2 DEF CountInv, Copies

(* A step that indexes the documents of a delivery.                          *)
LEMMA OneIndexed ==
    ASSUME IInv, CountInv, NEW n \in 1..MaxEvents, Create(n), UNCHANGED deliveries,
           Pending(n), ~Pending(n)', \A m \in 1..MaxEvents : Pending(m)' => Pending(m)
    PROVE  CountInv'
<1>1. PICK new : /\ index' = index \union new
                 /\ \A x \in new : x.event = n
                 /\ IsFiniteSet(new) /\ Cardinality(new) \in Nat /\ Cardinality(new) <= Copies
  BY NewDocuments
<1>2. IsFiniteSet(index')
  BY <1>1, DocumentCounts DEF CountInv
<1>3. ASSUME NEW m \in 1..MaxEvents
      PROVE  Allowed(m)' \in Nat /\ Cardinality(DocsOf(m)') <= Copies * Allowed(m)'
  <2>1. /\ Cardinality(DocsOf(m)') <= Cardinality(DocsOf(m)) + Cardinality(new)
        /\ m # n => DocsOf(m)' = DocsOf(m)
        /\ Cardinality(DocsOf(m)') \in Nat
    <3>1. DocsOf(m)' = DocsIn(index', m)
      BY DEF DocsOf, DocsIn
    <3>2. m # n => \A x \in new : x.event # m
      BY <1>1
    <3> QED
      BY <1>1, <3>1, <3>2, DocumentCounts DEF CountInv, DocsOf
  <2>2. PICK c, d, x, y : /\ c = Cardinality(DocsOf(m)) /\ d = Cardinality(DocsOf(m)')
                          /\ x = Allowed(m) /\ y = Allowed(m)'
    OBVIOUS
  <2>3. /\ deliveries[m] \in Nat /\ deliveries'[m] = deliveries[m]
        /\ c \in Nat /\ d \in Nat /\ x \in Nat /\ c <= Copies * x
    BY <2>1, <2>2, CountFacts
  <2>4. CASE m = n
    <3>1. x = deliveries[m] - 1 /\ y = deliveries[m]
      BY <2>2, <2>3, <2>4 DEF Allowed
    <3>2. y = x + 1 /\ y \in Nat
      BY <2>3, <3>1
    <3>3. Copies * y = Copies * x + Copies /\ Copies * x \in Nat /\ Copies \in Nat
      BY <2>3, <3>2, CopiesGrow
    <3>4. d <= c + Cardinality(new)
      BY <2>1, <2>2
    <3>5. d <= Copies * y
      BY <1>1, <2>3, <3>3, <3>4
    <3> QED
      BY <2>2, <3>2, <3>5
  <2>5. CASE m # n
    <3>1. y \in Nat /\ x <= y
      <4>1. CASE Pending(m)
        <5>1. x = deliveries[m] - 1 /\ y \in {deliveries[m], deliveries[m] - 1}
          BY <2>2, <2>3, <4>1 DEF Allowed
        <5> QED
          BY <2>3, <5>1
      <4>2. CASE ~Pending(m) /\ ~Pending(m)'
        BY <2>2, <2>3, <4>2 DEF Allowed
      <4> QED
        BY <4>1, <4>2
    <3>2. d = c
      BY <2>1, <2>2, <2>5
    <3>3. d <= Copies * y
      BY <2>3, <3>1, <3>2, StillAllowed
    <3> QED
      BY <2>2, <3>1, <3>3
  <2> QED
    BY <2>4, <2>5
<1> QED
  BY <1>2, <1>3 DEF CountInv, Copies

(* A delivery is counted.                                                    *)
LEMMA DeliverCounted ==
    ASSUME IInv, CountInv, Deliver
    PROVE  CountInv'
<1> PICK n : n = Min(ready)
  OBVIOUS
<1>1. /\ listening /\ ready # {} /\ inbox' = Append(inbox, n)
      /\ deliveries' = [deliveries EXCEPT ![n] = @ + 1]
      /\ UNCHANGED <<events, cur, index>>
  BY DEF Deliver
<1>2. n \in ready /\ n \in DOMAIN events /\ n \in 1..MaxEvents
  BY <1>1, WorkerFacts, MinFacts DEF BrokerType
<1>3. ToSet(inbox') = ToSet(inbox) \union {n}
  <2>1. inbox \in Seq(DOMAIN events)
    BY WorkerFacts
  <2>2. PICK S : S = DOMAIN events
    OBVIOUS
  <2>3. PICK s \in Seq(S) : s = inbox
    BY <2>1, <2>2
  <2>4. ToSet(Append(s, n)) = ToSet(s) \union {n}
    BY <1>2, <2>2, JoinInbox
  <2> QED
    BY <1>1, <2>3, <2>4
<1>4. ~Pending(n)
  <2>1. n \notin ToSet(inbox) /\ n \notin InHand
    BY <1>2, WorkerFacts DEF Placed, Held
  <2>2. cur.stage = "recreate" => cur.held
    BY <1>1, WorkerFacts DEF CurInv
  <2>3. cur.stage = "recreate" => cur.n # n
    BY <2>1, <2>2 DEF InHand
  <2> QED
    BY <2>1, <2>3 DEF Pending
<1>5. ASSUME NEW m \in 1..MaxEvents
      PROVE  Allowed(m)' \in Nat /\ Cardinality(DocsOf(m)') <= Copies * Allowed(m)'
  <2>1. DocsOf(m)' = DocsOf(m)
    BY <1>1 DEF DocsOf, DocsIn
  <2>2. PICK c, x, y : c = Cardinality(DocsOf(m)) /\ x = Allowed(m) /\ y = Allowed(m)'
    OBVIOUS
  <2>3. c \in Nat /\ x \in Nat /\ c <= Copies * x /\ deliveries[m] \in Nat
    BY <2>2, CountFacts
  <2>4. y \in Nat /\ x <= y
    <3>1. CASE m = n
      <4>1. deliveries'[m] = deliveries[m] + 1
        BY <1>1, <3>1, WorkerFacts DEF IndexingType
      <4>2. x = deliveries[m] /\ y \in {deliveries[m], deliveries[m] + 1}
        BY <1>4, <2>2, <2>3, <3>1, <4>1 DEF Allowed
      <4> QED
        BY <2>3, <4>2
    <3>2. CASE m # n
      <4>1. deliveries'[m] = deliveries[m]
        BY <1>1, <3>2, WorkerFacts DEF IndexingType
      <4>2. Pending(m)' <=> Pending(m)
        BY <1>1, <1>3, <3>2 DEF Pending
      <4>3. x = y
        BY <2>2, <4>1, <4>2 DEF Allowed
      <4> QED
        BY <2>3, <4>3
    <3> QED
      BY <3>1, <3>2
  <2>5. c <= Copies * y
    BY <2>3, <2>4, StillAllowed
  <2> QED
    BY <2>1, <2>2, <2>4, <2>5
<1> QED
  BY <1>1, <1>5 DEF CountInv, Copies

(* handle_message begins.                                                    *)
LEMMA HandleCounted ==
    ASSUME IInv, CountInv, Handle
    PROVE  CountInv'
<1> PICK n : n = inbox[1]
  OBVIOUS
<1>1. cur = None /\ inbox # << >> /\ inbox' = RemoveAt(inbox, 1) /\ UNCHANGED <<events, deliveries>>
  BY DEF Handle, FirstIn
<1>2. /\ n \in DOMAIN events /\ n \in 1..MaxEvents
      /\ ToSet(inbox) = ToSet(inbox') \union {n} /\ n \notin ToSet(inbox')
  <2>1. inbox \in Seq(DOMAIN events) /\ IsInjective(inbox)
    BY WorkerFacts DEF Placed
  <2>2. PICK S : S = DOMAIN events
    OBVIOUS
  <2>3. PICK s \in Seq(S) : s = inbox /\ s # << >>
    BY <1>1, <2>1, <2>2
  <2>4. /\ s[1] \in S /\ ToSet(s) = ToSet(RemoveAt(s, 1)) \union {s[1]}
        /\ IsInjective(s) => s[1] \notin ToSet(RemoveAt(s, 1))
    BY <2>3, LeaveInbox
  <2>5. n \in DOMAIN events /\ ToSet(inbox) = ToSet(inbox') \union {n} /\ n \notin ToSet(inbox')
    BY <1>1, <2>1, <2>2, <2>3, <2>4
  <2> QED
    BY <2>5, WorkerFacts
<1>3. \/ index' \subseteq index /\ (UNCHANGED cur \/ cur'.n = n)
      \/ Create(n) /\ cur'.stage = "settle"
  <2>1. CASE ~events[n].json
    BY <2>1 DEF Handle, FirstIn
  <2>2. CASE events[n].json /\ events[n].key = "tweet.create"
    BY <2>2 DEF Handle, FirstIn, At
  <2>3. CASE events[n].json /\ events[n].key = "tweet.update"
    <3>1. Delete(events[n].post, UpdateDeleted(n), At(n, "settle", TRUE))
      BY <2>3 DEF Handle, FirstIn
    <3> QED
      BY <3>1 DEF Delete, DeleteDocument, UpdateDeleted, At
  <2>4. CASE events[n].json /\ events[n].key = "tweet.delete"
    <3>1. Delete(events[n].post, At(n, "settle", FALSE), At(n, "settle", TRUE))
      BY <2>4 DEF Handle, FirstIn
    <3> QED
      BY <3>1 DEF Delete, DeleteDocument, At
  <2>5. CASE events[n].json /\ events[n].key = "tweet.other"
    BY <2>5 DEF Handle, FirstIn, At
  <2> QED
    BY <2>1, <2>2, <2>3, <2>4, <2>5 DEF Handle, FirstIn
<1>4. Pending(n) /\ cur.stage = "none"
  BY <1>1, <1>2 DEF Pending, None
<1>5. CASE index' \subseteq index /\ (UNCHANGED cur \/ cur'.n = n)
  <2>1. \A m \in 1..MaxEvents : Pending(m)' => Pending(m)
    BY <1>2, <1>4, <1>5 DEF Pending
  <2> QED
    BY <1>1, <1>5, <2>1, NothingIndexed
<1>6. CASE Create(n) /\ cur'.stage = "settle"
  <2>1. (\A m \in 1..MaxEvents : Pending(m)' => Pending(m)) /\ ~Pending(n)'
    BY <1>2, <1>6 DEF Pending
  <2> QED
    BY <1>1, <1>2, <1>4, <1>6, <2>1, OneIndexed
<1> QED
  BY <1>3, <1>5, <1>6

(* The create of an update.                                                  *)
LEMMA RecreateCounted ==
    ASSUME IInv, CountInv, Recreate
    PROVE  CountInv'
<1> PICK n : n = cur.n
  OBVIOUS
<1>1. /\ cur.stage = "recreate" /\ Create(n) /\ UNCHANGED <<events, inbox, deliveries>>
      /\ cur'.stage = "settle"
  <2>1. /\ cur.stage = "recreate" /\ Create(n) /\ UNCHANGED <<events, inbox, deliveries>>
        /\ cur' = [cur EXCEPT !.stage = "settle"]
    BY DEF Recreate, RecreateDone
  <2> QED
    BY <2>1, WorkerFacts DEF IndexingType
<1>2. n \in DOMAIN events /\ n \in 1..MaxEvents
  BY <1>1, WorkerFacts DEF CurInv
<1>3. n \notin ToSet(inbox)
  <2>1. CASE cur.held
    BY <1>1, <2>1, WorkerFacts DEF Placed, InHand
  <2>2. CASE ~cur.held
    BY <1>1, <2>2, WorkerFacts DEF CurInv, ToSet
  <2> QED
    BY <2>1, <2>2
<1>4. Pending(n) /\ ~Pending(n)' /\ \A m \in 1..MaxEvents : Pending(m)' => Pending(m)
  BY <1>1, <1>3 DEF Pending
<1> QED
  BY <1>1, <1>2, <1>4, OneIndexed

(* Every step keeps the count.                                               *)
LEMMA StepCounted == IInv /\ CountInv /\ [Next]_vars => CountInv'
<1> SUFFICES ASSUME IInv, CountInv, [Next]_vars PROVE CountInv'
  OBVIOUS
<1>1. CASE UNCHANGED indexingVars
  BY <1>1, NothingIndexed DEF indexingVars, Pending
<1>2. CASE WorkerStart \/ ChannelLost \/ WorkerCrash \/ BrokerRestart \/ Settle
  <2>1. UNCHANGED <<index, deliveries>> /\ (UNCHANGED inbox \/ inbox' = << >>)
    BY <1>2 DEF WorkerStart, ChannelLost, WorkerCrash, BrokerRestart, Settle
  <2>2. UNCHANGED cur \/ cur' = None \/ cur' = [cur EXCEPT !.held = FALSE]
    BY <1>2 DEF WorkerStart, ChannelLost, WorkerCrash, BrokerRestart, Settle
  <2>3. cur'.stage = "recreate" => cur.stage = "recreate" /\ cur'.n = cur.n
    BY <2>2, WorkerFacts DEF IndexingType, None
  <2>4. ToSet(inbox') \subseteq ToSet(inbox)
    BY <2>1 DEF ToSet
  <2> QED
    BY <2>1, <2>3, <2>4, NothingIndexed DEF Pending
<1>3. CASE Deliver \/ Handle \/ Recreate
  BY <1>3, DeliverCounted, HandleCounted, RecreateCounted
<1>4. UNCHANGED vars => UNCHANGED indexingVars
  BY DEF vars
<1>5. OtherPublisher => UNCHANGED indexingVars
  BY DEF OtherPublisher, publish_tweet
<1> QED
  BY <1>1, <1>2, <1>3, <1>4, <1>5 DEF Next, IndexingStep, WorkerStep

(* An event has no more documents than its deliveries and the resends of     *)
(* the Elasticsearch client account for, for any number of events,           *)
(* deliveries, resends and failures.                                         *)
THEOREM DocumentsCounted == Spec => []DocumentsNeedDeliveries
<1>1. Init => CountInv
  <2> SUFFICES ASSUME Init PROVE CountInv
    OBVIOUS
  <2>1. index = {} /\ inbox = << >> /\ cur.stage = "none" /\ \A m \in 1..MaxEvents : deliveries[m] = 0
    BY DEF Init, IndexingInit, None
  <2>2. ASSUME NEW m \in 1..MaxEvents
        PROVE  Allowed(m) \in Nat /\ Cardinality(DocsOf(m)) <= Copies * Allowed(m)
    <3>1. DocsOf(m) = {} /\ ~Pending(m)
      BY <2>1 DEF DocsOf, DocsIn, Pending, ToSet
    <3>2. Allowed(m) = 0 /\ Cardinality(DocsOf(m)) = 0
      BY <2>1, <3>1, FS_EmptySet DEF Allowed
    <3>3. Copies * 0 = 0
      BY DEF Copies
    <3> QED
      BY <3>2, <3>3
  <2> QED
    BY <2>1, <2>2, FS_EmptySet DEF CountInv
<1>2. IInv /\ CountInv => DocumentsNeedDeliveries
  <2> SUFFICES ASSUME IInv, CountInv, NEW m \in DOMAIN events
               PROVE  Cardinality({d \in index : d.event = m}) <= (1 + Resends) * deliveries[m]
    BY DEF DocumentsNeedDeliveries
  <2>1. m \in 1..MaxEvents
    BY WorkerFacts
  <2>2. PICK c, x, y : c = Cardinality(DocsOf(m)) /\ x = Allowed(m) /\ y = deliveries[m]
    OBVIOUS
  <2>3. c \in Nat /\ x \in Nat /\ y \in Nat /\ c <= Copies * x
    BY <2>1, <2>2, CountFacts
  <2>4. x <= y
    <3>1. x \in {y, y - 1}
      BY <2>2 DEF Allowed
    <3> QED
      BY <2>3, <3>1
  <2>5. c <= Copies * y
    BY <2>3, <2>4, StillAllowed
  <2> QED
    BY <2>2, <2>5 DEF DocsOf, DocsIn, Copies
<1> QED
  BY <1>1, <1>2, StepCounted, Invariance, PTL DEF Spec

----------------------------------------------------------------------------
(* NothingDroppedWhileListening follows from the binding that the worker     *)
(* made before it listens, and that stays until a restart of the broker,     *)
(* which ends the listening.                                                 *)
BoundInv == listening => <<"tweet_events", "tweet.#">> \in bindings

(* Bindings are only added while the worker listens.                         *)
LEMMA StepBound == IInv /\ BoundInv /\ [Next]_vars => BoundInv'
<1> SUFFICES ASSUME IInv, BoundInv, [Next]_vars PROVE BoundInv'
  OBVIOUS
<1>1. ASSUME bindings \subseteq bindings', listening' = listening PROVE BoundInv'
  BY <1>1, Zenon DEF BoundInv
<1>2. CASE CreationStep /\ UNCHANGED indexingVars
  <2>1. bindings' = bindings
    BY <1>2 DEF CreationStep, createTweet, createTweetReply, Request, Commit, Refresh, IncrementTweets,
       PublishToFeed, PublishEvent, produce_message, deletePost, ServiceCrash, brokerVars
  <2>2. listening' = listening
    BY <1>2 DEF indexingVars
  <2> QED
    BY <1>1, <2>1, <2>2
<1>3. CASE WorkerStep
  <2>1. bindings' = bindings /\ listening' = listening
    BY <1>3 DEF WorkerStep, Deliver, Handle, Recreate, Settle
  <2> QED
    BY <1>1, <2>1
<1>4. CASE WorkerStart
  BY <1>4 DEF WorkerStart, Bound, BoundInv
<1>5. CASE ChannelLost \/ WorkerCrash \/ BrokerRestart
  <2>1. listening' = FALSE
    BY <1>5 DEF ChannelLost, WorkerCrash, BrokerRestart
  <2> QED
    BY <2>1, Zenon DEF BoundInv
<1>6. CASE OtherPublisher
  <2>1. bindings \subseteq bindings' /\ listening' = listening
    BY <1>6 DEF OtherPublisher, publish_tweet, indexingVars
  <2> QED
    BY <1>1, <2>1
<1>7. CASE UNCHANGED vars
  <2>1. bindings' = bindings /\ listening' = listening
    BY <1>7 DEF vars, brokerVars, indexingVars
  <2> QED
    BY <1>1, <2>1
<1> QED
  BY <1>2, <1>3, <1>4, <1>5, <1>6, <1>7 DEF Next, IndexingStep

(* With the binding, what is published under tweet.# is the next event.      *)
LEMMA PublishedArrives ==
    ASSUME IInv, NEW bound, NEW key \in Keys, NEW post \in Posts, NEW json \in BOOLEAN,
           BasicPublish(bound, key, post, json), <<"tweet_events", "tweet.#">> \in bound,
           NEW s \in sent' \ sent, s[2] \in EventKeys
    PROVE  \E m \in DOMAIN events' \ DOMAIN events :
               events'[m].post = s[1] /\ events'[m].key = s[2]
<1>1. s = <<post, key>>
  BY DEF BasicPublish
<1>2. "tweet_events" \in Route(bound, key)
  <2>1. Matches("tweet.#", key)
    BY <1>1 DEF Matches
  <2>2. PICK b \in bound : b = <<"tweet_events", "tweet.#">>
    OBVIOUS
  <2>3. b[1] = "tweet_events" /\ b[2] = "tweet.#"
    BY <2>2
  <2> QED
    BY <2>1, <2>3 DEF Route
<1>3. PICK e : e = [key |-> key, post |-> post, json |-> json]
  OBVIOUS
<1>4. e \in Event /\ e.key = key /\ e.post = post
  BY <1>3 DEF Event
<1>5. events' = Append(events, e)
  BY <1>2, <1>3 DEF BasicPublish
<1>6. /\ Len(events) + 1 \in DOMAIN events' /\ Len(events) + 1 \notin DOMAIN events
      /\ events'[Len(events) + 1] = e
  BY <1>4, <1>5, WorkerFacts
<1> QED
  BY <1>1, <1>4, <1>6

(* No step drops an event while the worker listens.                          *)
LEMMA StepNotDropped ==
    ASSUME IInv, BoundInv, [Next]_vars, listening, NEW s \in sent' \ sent, s[2] \in EventKeys
    PROVE  \E m \in DOMAIN events' \ DOMAIN events :
               events'[m].post = s[1] /\ events'[m].key = s[2]
<1>1. ~UNCHANGED sent /\ <<"tweet_events", "tweet.#">> \in bindings
  BY Zenon DEF BoundInv
<1>2. ASSUME NEW q \in Slots, NEW queue \in Queues, NEW key \in Keys, NEW Continue,
             produce_message(q, queue, key, Continue), req[q].post \in Posts
      PROVE  \E m \in DOMAIN events' \ DOMAIN events :
                 events'[m].post = s[1] /\ events'[m].key = s[2]
  <2>1. BasicPublish(bindings, key, req[q].post, TRUE)
    BY <1>1, <1>2 DEF produce_message
  <2>2. PICK p \in Posts : p = req[q].post
    BY <1>2
  <2>3. PICK b : b = bindings
    OBVIOUS
  <2>4. BasicPublish(b, key, p, TRUE) /\ <<"tweet_events", "tweet.#">> \in b /\ TRUE \in BOOLEAN
    BY <1>1, <2>1, <2>2, <2>3
  <2> QED
    BY <2>4, PublishedArrives
<1>3. CASE CreationStep
  <2>1. ASSUME NEW q \in Slots, Request(q, TRUE) \/ Request(q, FALSE) \/ Commit(q) \/ Refresh(q)
                                \/ IncrementTweets(q)
        PROVE  UNCHANGED sent
    BY <2>1 DEF Request, Commit, Refresh, IncrementTweets, brokerVars
  <2>2. ASSUME NEW p \in Posts, deletePost(p) PROVE UNCHANGED sent
    BY <2>2 DEF deletePost, brokerVars
  <2>3. ServiceCrash => UNCHANGED sent
    BY DEF ServiceCrash, brokerVars
  <2>4. PICK q \in Slots : PublishToFeed(q) \/ PublishEvent(q)
    BY <1>1, <1>3, <2>1, <2>2, <2>3 DEF CreationStep, createTweet, createTweetReply
  <2>5. req[q].post \in Posts
    BY <2>4, RequestFacts DEF PublishToFeed, PublishEvent
  <2>6. \/ produce_message(q, "general_tweets", "general_tweets", GoTo(q, "events"))
        \/ produce_message(q, "tweet_events", "tweet.create", Answer(q, "ok"))
    BY <2>4 DEF PublishToFeed, PublishEvent
  <2> QED
    BY <1>2, <2>5, <2>6
<1>4. CASE OtherPublisher
  <2>1. PICK k \in OtherEvents, p \in committed : publish_tweet(k[1], p, k[2])
    BY <1>4 DEF OtherPublisher
  <2>2. PICK bound : bound = bindings \union {<<"tweet_events", "tweet.#">>}
    OBVIOUS
  <2>3. PICK key \in Keys, json \in BOOLEAN : key = k[1] /\ json = k[2]
    OBVIOUS
  <2>4. p \in Posts
    BY DEF IInv, TypeOK, CreationType
  <2>5. BasicPublish(bound, key, p, json) /\ <<"tweet_events", "tweet.#">> \in bound
    BY <2>1, <2>2, <2>3 DEF publish_tweet
  <2> QED
    BY <2>4, <2>5, PublishedArrives
<1>5. IndexingStep => UNCHANGED sent
  BY DEF IndexingStep, WorkerStep, Deliver, Handle, Recreate, Settle, WorkerStart, ChannelLost,
     WorkerCrash, BrokerRestart
<1>6. UNCHANGED vars => UNCHANGED sent
  BY DEF vars, brokerVars
<1> QED
  BY <1>1, <1>3, <1>4, <1>5, <1>6 DEF Next

(* While the worker listens, every event that is published reaches its       *)
(* queue, for any number of posts, publishers and failures.                  *)
THEOREM NothingDropped == Spec => NothingDroppedWhileListening
<1>1. Init => BoundInv
  BY DEF Init, IndexingInit, BoundInv
<1>2. /\ IInv /\ BoundInv /\ [Next]_vars
      => [listening => \A s \in sent' \ sent : s[2] \in EventKeys =>
             \E m \in DOMAIN events' \ DOMAIN events :
                 events'[m].post = s[1] /\ events'[m].key = s[2]]_vars
  BY StepNotDropped
<1> QED
  BY <1>1, <1>2, StepBound, Invariance, PTL DEF Spec, NothingDroppedWhileListening

----------------------------------------------------------------------------
(* The pipeline implements IndexDelivery.                                    *)

(* The abstract state.                                                       *)
Wanted == {m \in DOMAIN events : events[m].key \in {"tweet.create", "tweet.update"}}
Malformed == {m \in DOMAIN events : ~events[m].json}
UnderWay == DOMAIN events \ (acked \union rejected \union lost)
Written == {d.event : d \in index}

(* What the worker has in hand is neither acknowledged nor refused, and only *)
(* an update gets to its second half.                                        *)
WorkInv ==
    cur.stage # "none" =>
        /\ cur.n \notin acked \union rejected
        /\ events[cur.n].json
        /\ cur.stage = "recreate" => events[cur.n].key = "tweet.update"

(* Steps that settle nothing and hand the worker nothing keep it.            *)
LEMMA WorkUndisturbed ==
    ASSUME IInv, WorkInv, Grown, UNCHANGED <<acked, rejected>>,
           cur'.stage # "none" => cur.stage = cur'.stage /\ cur'.n = cur.n
    PROVE  WorkInv'
<1>1. cur.stage # "none" => cur.n \in DOMAIN events
  BY WorkerFacts DEF CurInv
<1> QED
  BY <1>1 DEF WorkInv, Grown

(* handle_message takes up a delivery that is in no other place.             *)
LEMMA HandleWork ==
    ASSUME IInv, WorkInv, Handle
    PROVE  WorkInv'
<1> PICK m : m = inbox[1]
  OBVIOUS
<1>1. /\ m \in ToSet(inbox) /\ m \notin acked \union rejected /\ m \in DOMAIN events
      /\ cur.stage = "none" /\ UNCHANGED <<events, acked>>
  BY WorkerFacts DEF Handle, FirstIn, ToSet, Placed, Held, None
<1>2. CASE ~events[m].json
  <2>1. cur' = cur
    BY <1>2 DEF Handle, FirstIn
  <2> QED
    BY <1>1, <2>1 DEF WorkInv
<1>3. CASE events[m].json
  <2>1. /\ cur'.n = m /\ rejected' = rejected
        /\ cur'.stage = "recreate" => events[m].key = "tweet.update"
    BY <1>3 DEF Handle, FirstIn, Delete, UpdateDeleted, At
  <2> QED
    BY <1>1, <1>3, <2>1 DEF WorkInv
<1> QED
  BY <1>2, <1>3

(* Every step keeps it.                                                      *)
LEMMA StepWork == IInv /\ WorkInv /\ [Next]_vars => WorkInv'
<1> SUFFICES ASSUME IInv, WorkInv, [Next]_vars PROVE WorkInv'
  OBVIOUS
<1>1. Grown
  <2>1. UNCHANGED vars => UNCHANGED events
    BY DEF vars, brokerVars
  <2> QED
    BY <2>1, StepGrows DEF Grown
<1>2. CASE UNCHANGED indexingVars \/ UNCHANGED vars
  <2>1. UNCHANGED <<acked, rejected, cur>>
    BY <1>2 DEF vars, indexingVars
  <2> QED
    BY <1>1, <2>1, WorkUndisturbed
<1>3. CASE WorkerStart \/ Deliver \/ ChannelLost \/ WorkerCrash \/ BrokerRestart
  <2>1. UNCHANGED <<acked, rejected>>
    BY <1>3 DEF WorkerStart, Deliver, ChannelLost, WorkerCrash, BrokerRestart
  <2>2. cur' = cur \/ cur' = None \/ cur' = [cur EXCEPT !.held = FALSE]
    BY <1>3 DEF WorkerStart, Deliver, ChannelLost, WorkerCrash, BrokerRestart
  <2>3. cur'.stage # "none" => cur.stage = cur'.stage /\ cur'.n = cur.n
    BY <2>2, WorkerFacts DEF IndexingType, None
  <2> QED
    BY <1>1, <2>1, <2>3, WorkUndisturbed
<1>4. CASE Recreate
  <2>1. /\ cur' = [cur EXCEPT !.stage = "settle"] /\ cur.stage = "recreate"
        /\ UNCHANGED <<events, acked, rejected>>
    BY <1>4 DEF Recreate, RecreateDone
  <2>2. cur'.n = cur.n /\ cur'.stage = "settle"
    BY <2>1, WorkerFacts DEF IndexingType
  <2> QED
    BY <2>1, <2>2 DEF WorkInv
<1>5. CASE Settle
  BY <1>5 DEF Settle, None, WorkInv
<1>6. Next => UNCHANGED indexingVars \/ IndexingStep
  BY DEF Next, OtherPublisher, publish_tweet
<1> QED
  BY <1>2, <1>3, <1>4, <1>5, <1>6, HandleWork DEF IndexingStep, WorkerStep

(* What leaves the abstract state alone.                                     *)
LEMMA IndexingStutter ==
    ASSUME UNCHANGED <<events, acked, rejected, lost, requeued, index, refused>>
    PROVE  UNCHANGED Indexing!vars
BY DEF Indexing!vars

(* A publication is one more event, or none.                                 *)
LEMMA RefinePublication ==
    ASSUME IInv, NEW bound, NEW key \in Keys, NEW post \in Posts, NEW json \in BOOLEAN,
           BasicPublish(bound, key, post, json),
           UNCHANGED <<acked, rejected, lost, requeued, index, refused>>
    PROVE  [Indexing!Next]_Indexing!vars
<1>1. CASE UNCHANGED events
  BY <1>1, IndexingStutter
<1>2. CASE ~UNCHANGED events
  <2> PICK new : new = Len(events) + 1
    OBVIOUS
  <2>1. /\ DOMAIN events = 1..Len(events) /\ Len(events) \in Nat /\ new \in 1..MaxEvents
        /\ DOMAIN events' = DOMAIN events \union {new}
        /\ \A m \in DOMAIN events : events'[m] = events[m]
    <3>1. PICK e \in Event : events' = Append(events, e) /\ new <= MaxEvents
      <4>1. PICK e : e = [key |-> key, post |-> post, json |-> json]
        OBVIOUS
      <4>2. e \in Event
        BY <4>1 DEF Event
      <4>3. events' = Append(events, e) /\ Len(events) < MaxEvents
        BY <1>2, <4>1 DEF BasicPublish
      <4> QED
        BY <4>2, <4>3, WorkerFacts
    <3>2. events \in Seq(Event) /\ DOMAIN events = 1..Len(events) /\ Len(events) \in Nat
      BY WorkerFacts
    <3> QED
      BY <3>1, <3>2
  <2>2. acked \union rejected \union lost \subseteq DOMAIN events
    BY WorkerFacts DEF Placed
  <2>3. UnderWay' = UnderWay \union {new}
    BY <2>1, <2>2 DEF UnderWay
  <2>4. /\ Wanted' \in {Wanted, Wanted \union {new}}
        /\ Malformed' \in {Malformed, Malformed \union {new}}
    BY <2>1 DEF Wanted, Malformed
  <2>5. UnderWay \union (acked \union rejected \union lost) = 1..(new - 1)
    BY <2>1, <2>2 DEF UnderWay
  <2>6. Indexing!Accept(new)
    <3>1. UnderWay \union Indexing!Over = 1..(new - 1)
      BY <2>5 DEF Indexing!Over
    <3>2. UNCHANGED <<requeued, acked, rejected, lost, Written, refused>>
      BY DEF Written
    <3> QED
      BY <2>3, <2>4, <3>1, <3>2, Zenon DEF Indexing!Accept, UnderWay, Wanted, Malformed, Written
  <2> QED
    BY <2>1, <2>6 DEF Indexing!Next, Indexing!Numbers
<1> QED
  BY <1>1, <1>2

(* A document is written for an event that wants one.                        *)
LEMMA RefineCreate ==
    ASSUME IInv, NEW m \in DOMAIN events, m \notin acked \union rejected, events[m].json,
           events[m].key \in {"tweet.create", "tweet.update"}, Create(m),
           UNCHANGED <<events, acked, rejected, lost, requeued>>
    PROVE  [Indexing!Next]_Indexing!vars
<1>1. m \in (UnderWay \union lost) \intersect (Wanted \ Malformed) /\ m \in 1..MaxEvents
  BY WorkerFacts DEF UnderWay, Wanted, Malformed
<1>2. ASSUME NEW copies \in Nat, IndexDocument(m, copies)
      PROVE  Written' = IF copies > 0 THEN Written \union {m} ELSE Written
  <2> DEFINE new(i) == [id |-> AutoId(docs + i), event |-> m, post |-> events[m].post]
  <2>1. index' = index \union {new(i) : i \in 1..copies} /\ \A i : new(i).event = m
    BY <1>2 DEF IndexDocument
  <2>2. copies > 0 => new(1) \in index'
    BY <2>1
  <2> HIDE DEF new
  <2>3. \A d \in index' : d \in index \/ (d.event = m /\ copies > 0)
    BY <2>1
  <2>4. copies > 0 => \E d \in index' : d.event = m
    BY <2>1, <2>2
  <2> QED
    BY <2>1, <2>3, <2>4 DEF Written
<1>3. \E copies \in Nat :
         /\ IndexDocument(m, copies)
         /\ (copies > 0 /\ UNCHANGED refused) \/ refused' = refused \union {m}
  BY DEF Create
<1>4. \/ Written' = Written \union {m} /\ UNCHANGED refused
      \/ Written' \in {Written, Written \union {m}} /\ refused' = refused \union {m}
  BY <1>2, <1>3
<1>5. Indexing!Write(m)
  BY <1>1, <1>4 DEF Indexing!Write, UnderWay, Wanted, Malformed, Written
<1> QED
  BY <1>1, <1>5 DEF Indexing!Next, Indexing!Numbers

(* handle_message refuses, writes, or does nothing that lasts.               *)
LEMMA RefineHandle ==
    ASSUME IInv, Handle
    PROVE  [Indexing!Next]_Indexing!vars
<1> PICK m : m = inbox[1]
  OBVIOUS
<1>1. /\ m \in UnderWay /\ m \notin acked \union rejected \union lost /\ m \in DOMAIN events
      /\ m \in 1..MaxEvents /\ UNCHANGED <<events, acked, lost, requeued>>
  BY WorkerFacts DEF Handle, FirstIn, ToSet, Placed, Held, UnderWay
<1>2. CASE ~events[m].json
  <2>1. rejected' = rejected \union {m} /\ UNCHANGED <<index, refused>>
    BY <1>2 DEF Handle, FirstIn
  <2>2. m \in UnderWay \intersect Malformed /\ UnderWay' = UnderWay \ {m}
    BY <1>1, <1>2, <2>1 DEF UnderWay, Malformed
  <2>3. Indexing!Reject(m)
    BY <1>1, <2>1, <2>2 DEF Indexing!Reject, UnderWay, Malformed
  <2> QED
    BY <1>1, <2>3 DEF Indexing!Next, Indexing!Numbers
<1>3. CASE events[m].json /\ events[m].key = "tweet.create"
  <2>1. Create(m) /\ rejected' = rejected
    BY <1>3 DEF Handle, FirstIn
  <2> QED
    BY <1>1, <1>3, <2>1, RefineCreate
<1>4. CASE events[m].json /\ events[m].key \in {"tweet.update", "tweet.delete"}
  <2>1. /\ DeleteDocument(events[m].post) \/ UNCHANGED index
        /\ UNCHANGED <<rejected, refused>>
    BY <1>4 DEF Handle, FirstIn, Delete
  <2>2. UNCHANGED index
    BY <2>1, DeleteFindsNothing
  <2> QED
    BY <1>1, <2>1, <2>2, IndexingStutter
<1>5. CASE events[m].json /\ events[m].key = "tweet.other"
  <2>1. UNCHANGED <<index, rejected, refused>>
    BY <1>5 DEF Handle, FirstIn
  <2> QED
    BY <1>1, <2>1, IndexingStutter
<1> QED
  BY <1>2, <1>3, <1>4, <1>5 DEF Handle, FirstIn

(* The second half of an update writes.                                      *)
LEMMA RefineRecreate ==
    ASSUME IInv, WorkInv, Recreate
    PROVE  [Indexing!Next]_Indexing!vars
<1>1. PICK m : m = cur.n
  OBVIOUS
<1>2. Create(m) /\ UNCHANGED <<events, acked, rejected, lost, requeued>> /\ cur.stage = "recreate"
  BY <1>1 DEF Recreate
<1>3. m \in DOMAIN events /\ m \notin acked \union rejected /\ events[m].json
      /\ events[m].key = "tweet.update"
  BY <1>1, <1>2, WorkerFacts DEF WorkInv, CurInv
<1> QED
  BY <1>2, <1>3, RefineCreate

(* Nack puts back, Ack finishes what is written and in turn.                 *)
LEMMA RefineSettle ==
    ASSUME IInv, WorkInv, Settle, AckedIndexed', LateOnlyAfterRequeue'
    PROVE  [Indexing!Next]_Indexing!vars
<1>1. PICK m : m = cur.n
  OBVIOUS
<1>2. cur.stage = "settle" /\ UNCHANGED <<events, rejected, lost, index, refused>>
  BY DEF Settle
<1>3. CASE ~cur.held
  BY <1>2, <1>3, IndexingStutter DEF Settle
<1>4. ASSUME cur.held
      PROVE  m \in UnderWay /\ m \in 1..MaxEvents /\ m \in DOMAIN events /\ events[m].json
  <2>1. m \in InHand
    BY <1>1, <1>2, <1>4 DEF InHand
  <2>2. m \in DOMAIN events /\ m \notin acked \union rejected \union lost
    BY <2>1, WorkerFacts DEF Placed, Held
  <2> QED
    BY <1>1, <1>2, <2>2, WorkerFacts DEF UnderWay, WorkInv
<1>5. CASE cur.held /\ cur.err
  <2>1. requeued' = requeued \union {m} /\ acked' = acked
    BY <1>1, <1>5 DEF Settle, NackRequeue
  <2>2. Indexing!PutBack(m)
    BY <1>2, <1>4, <1>5, <2>1 DEF Indexing!PutBack, UnderWay
  <2> QED
    BY <1>4, <1>5, <2>2 DEF Indexing!Next, Indexing!Numbers
<1>6. CASE cur.held /\ ~cur.err
  <2>1. acked' = acked \union {m} /\ requeued' = requeued
    BY <1>1, <1>6 DEF Settle
  <2>2. UnderWay' = UnderWay \ {m}
    BY <1>2, <2>1 DEF UnderWay
  <2>3. m \in UnderWay \ Malformed
    BY <1>4, <1>6 DEF Malformed
  <2>4. m \in Wanted => m \in Written \union refused
    <3>1. \A n \in acked' \ refused' :
             events'[n].key \in {"tweet.create", "tweet.update"} => \E d \in index' : d.event = n
      BY DEF AckedIndexed
    <3> QED
      BY <1>2, <2>1, <3>1 DEF Wanted, Written
  <2>5. \A n \in 1..(m - 1) : n \in acked \union rejected \union lost \union requeued
    <3>1. \A n \in acked' : \A k \in 1..(n - 1) : k \in acked' \union rejected' \union lost' \union requeued'
      BY DEF LateOnlyAfterRequeue
    <3>2. m \in Nat
      BY <1>4, <1>6
    <3> QED
      BY <1>2, <2>1, <3>1, <3>2
  <2>6. Indexing!Finish(m)
    BY <1>2, <2>1, <2>2, <2>3, <2>4, <2>5
       DEF Indexing!Finish, Indexing!Over, UnderWay, Malformed, Wanted, Written
  <2> QED
    BY <1>4, <1>6, <2>6 DEF Indexing!Next, Indexing!Numbers
<1> QED
  BY <1>3, <1>5, <1>6

(* A restart of the broker loses what waits and what is not settled.         *)
LEMMA RefineRestart ==
    ASSUME IInv, BrokerRestart
    PROVE  [Indexing!Next]_Indexing!vars
<1>1. PICK S : S = ready \union Held
  OBVIOUS
<1>2. /\ lost' = lost \union S /\ UNCHANGED <<events, acked, rejected, requeued, index, refused>>
      /\ "broker" \in Failures
  BY <1>1, WorkerFacts DEF BrokerRestart, Fault
<1>3. S \subseteq UnderWay /\ S \subseteq 1..MaxEvents
  BY <1>1, WorkerFacts DEF Placed, Held, UnderWay
<1>4. UnderWay' = UnderWay \ S
  BY <1>2 DEF UnderWay
<1>5. Indexing!Lose(S)
  BY <1>2, <1>3, <1>4 DEF Indexing!Lose, UnderWay
<1> QED
  BY <1>3, <1>5 DEF Indexing!Next, Indexing!Numbers

(* Every step maps to a step of IndexDelivery or to none.                    *)
LEMMA RefineStep ==
    /\ IInv /\ WorkInv /\ AckedIndexed' /\ LateOnlyAfterRequeue' /\ [Next]_vars
    => [Indexing!Next]_Indexing!vars
<1> SUFFICES ASSUME IInv, WorkInv, AckedIndexed', LateOnlyAfterRequeue', [Next]_vars
             PROVE  [Indexing!Next]_Indexing!vars
  OBVIOUS
<1>1. ASSUME NEW q \in Slots, PublishToFeed(q), UNCHANGED indexingVars
      PROVE  [Indexing!Next]_Indexing!vars
  <2>1. /\ UNCHANGED events \/ BasicPublish(bindings, "general_tweets", req[q].post, TRUE)
        /\ UNCHANGED <<acked, rejected, lost, requeued, index, refused>>
    BY <1>1 DEF PublishToFeed, produce_message, indexingVars
  <2>2. req[q].post \in Posts
    BY <1>1, RequestFacts DEF PublishToFeed
  <2> QED
    BY <2>1, <2>2, RefinePublication, IndexingStutter
<1>2. ASSUME NEW q \in Slots, PublishEvent(q), UNCHANGED indexingVars
      PROVE  [Indexing!Next]_Indexing!vars
  <2>1. /\ UNCHANGED events \/ BasicPublish(bindings, "tweet.create", req[q].post, TRUE)
        /\ UNCHANGED <<acked, rejected, lost, requeued, index, refused>>
    BY <1>2 DEF PublishEvent, produce_message, indexingVars
  <2>2. req[q].post \in Posts
    BY <1>2, RequestFacts DEF PublishEvent
  <2> QED
    BY <2>1, <2>2, RefinePublication, IndexingStutter
<1>3. CASE CreationStep /\ UNCHANGED indexingVars
  <2>1. ASSUME NEW q \in Slots, Request(q, TRUE) \/ Request(q, FALSE) \/ Commit(q) \/ Refresh(q)
                                \/ IncrementTweets(q)
        PROVE  UNCHANGED brokerVars
    BY <2>1 DEF Request, Commit, Refresh, IncrementTweets
  <2>2. ASSUME NEW p \in Posts, deletePost(p) PROVE UNCHANGED brokerVars
    BY <2>2 DEF deletePost
  <2>3. ServiceCrash => UNCHANGED brokerVars
    BY DEF ServiceCrash
  <2>4. UNCHANGED brokerVars => [Indexing!Next]_Indexing!vars
    BY <1>3, IndexingStutter DEF brokerVars, indexingVars
  <2> QED
    BY <1>1, <1>2, <1>3, <2>1, <2>2, <2>3, <2>4 DEF CreationStep, createTweet, createTweetReply
<1>4. CASE OtherPublisher
  <2>1. PICK k \in OtherEvents, p \in committed : publish_tweet(k[1], p, k[2])
    BY <1>4 DEF OtherPublisher
  <2> DEFINE bound == bindings \union {<<"tweet_events", "tweet.#">>}
  <2>2. /\ BasicPublish(bound, k[1], p, k[2]) /\ k[1] \in Keys /\ k[2] \in BOOLEAN /\ p \in Posts
        /\ UNCHANGED <<acked, rejected, lost, requeued, index, refused>>
    BY <2>1 DEF publish_tweet, indexingVars, IInv, TypeOK, CreationType
  <2> HIDE DEF bound
  <2> QED
    BY <2>2, RefinePublication
<1>5. CASE WorkerStart \/ Deliver \/ ChannelLost \/ WorkerCrash \/ UNCHANGED vars
  BY <1>5, IndexingStutter
     DEF WorkerStart, Deliver, ChannelLost, WorkerCrash, vars, brokerVars, indexingVars
<1> QED
  BY <1>3, <1>4, <1>5, RefineHandle, RefineRecreate, RefineSettle, RefineRestart
     DEF Next, IndexingStep, WorkerStep

(* The initial state maps to the initial state.                              *)
LEMMA RefineInit == Init => Indexing!Init
<1> SUFFICES ASSUME Init PROVE Indexing!Init
  OBVIOUS
<1>1. /\ DOMAIN events = {} /\ index = {} /\ acked = {} /\ rejected = {} /\ lost = {}
      /\ requeued = {} /\ refused = {}
  BY DEF Init, BrokerInit, IndexingInit
<1> QED
  BY <1>1 DEF Indexing!Init

(* Broker and worker implement at-least-once indexing in order, for any      *)
(* number of events, deliveries and failures.                                *)
THEOREM Refinement == Spec => IndexDeliverySpec
<1>1. Init => WorkInv
  BY DEF Init, IndexingInit, None, WorkInv
<1>2. Spec => []IInv /\ []WorkInv
  BY <1>1, StepWork, Invariance, PTL DEF Spec
<1>3. Spec => []AckedIndexed /\ []LateOnlyAfterRequeue
  BY DocumentsForAcked, AckedInOrder
<1> QED
  BY <1>2, <1>3, RefineInit, RefineStep, PTL DEF Spec, IndexDeliverySpec, Indexing!Spec
=============================================================================
