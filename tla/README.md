# TLA+ models of the Twitter microservices

This directory holds TLA+ specifications of the services of this repository, the
TLC configurations that check them on small instances, and proofs about them that
TLAPS checks. The specifications are written from the code; where a README, a
docstring or a test says something else, the run that shows the difference is
listed under [Findings](#findings).

## 1. The system

| component | state | operations | talks to |
|---|---|---|---|
| **users** (FastAPI + gRPC, PostgreSQL) | tables `actors` (with `num_tweets`, `num_followers`) and `follows`; the pool of connections, the event loop | HTTP: register, login, CreateFollow, DeleteFollow, reads; gRPC: GetUser, IncrementsTweets, GetFollowers, GetFollowing; signs tokens | called by tweets (IncrementsTweets) and feed-worker (GetFollowers) |
| **tweets** (FastAPI + gRPC, PostgreSQL) | tables `tweets` (with `num_likes`, `num_replys`, `num_reposts`), `reply_tweets`, `tweet_like`, `tweet_repost` | create/read/delete of tweets, replies, likes, reposts; gRPC: GetTweets | users over gRPC, RabbitMQ (`tweet_exchange`) |
| **feed-worker** (Go) | goroutines with their delivery; Redis lists `feed:<user>` | handle_message for every delivery of `general_tweets` | RabbitMQ, users over gRPC, Redis |
| **feed** (FastAPI) | none: reads the Redis lists | get_feed: token, a page of ids, hydrated by GetTweets | Redis, tweets over gRPC |
| **search-worker** (Go) | the delivery it is handling; the Elasticsearch index `tweets` | handle_message for one delivery of `tweet_events` after the other: create, update, delete | RabbitMQ, Elasticsearch |
| **search** (FastAPI) | none (a mock client) | search | - |
| **common to the four HTTP services** | the secret, from the environment or a `.env` file; the table of routes | VerifyToken; route matching; start-up | - |
| **RabbitMQ, Redis, PostgreSQL** | queues, deliveries; lists; rows | used by the code, modelled from how it uses them | |

The path of a tweet: `createTweet` commits a row, counts it at the users service,
publishes it under `general_tweets` and under `tweet.create`; the feed-worker fans
it out to Redis lists, the search-worker indexes it, and the feed service reads
the lists and asks the tweets service for the contents.

### What is hard, and what makes each part correct

* **feed-worker.** Every delivery has a goroutine (`go handle_message(d)`,
  main.go:136) and there is no prefetch limit, so handlers of many messages
  interleave, with the users service changing in between. A push may fail half
  way, the process may die or lose its connection, a call may time out although it
  ran; the message is then delivered again. The queue is transient, so a restart of
  the broker takes its messages. Correct means: nothing else loses a message; once it
  is acknowledged everyone who followed throughout has it; nobody else gets it;
  duplicates come from redelivery and resends only; feeds stay near their cap; every
  delivery of a well-formed body is settled once.
* **tweets.** Each request reads, changes a counter in memory and commits; so
  concurrent requests lose updates, work on rows that are gone, and insert what
  another has inserted. Correct means: one like per user and tweet, counters
  exact unless requests overlapped, nothing is written for a tweet that is gone,
  only owners delete. createTweet spreads over three systems without a
  transaction.
* **users.** The same pattern for follows and counters. `register` and `login`
  are coroutines that block the event loop while they wait for a pooled
  connection, and a session gives its connection back only after its answer has
  gone through that loop. Correct means: connections are never more than the pool
  has and none is left behind; the service cannot halt for good; an answer tells
  what the database did; an account belongs to one of those who register it.
* **search-worker.** Delivers in order but at least once; its index operations
  have no idempotent key, though the Elasticsearch client sends requests again; its
  queue and binding vanish with a broker restart. Correct means: no event is dropped
  while it listens; none is acknowledged twice or out of order without a reason; as
  many documents as deliveries and resends explain.
* **feed.** A page is read by offset from a list that moves, and hydrated from a
  store that has changed since, through a call whose failure looks like an empty
  answer. Correct means: who reads to the end misses nothing but what was
  trimmed, deleted, or on such a page; and he gets to the end.
* **All services.** Each finds the secret its own way, so a token signed by one
  may be refused by another; routes match in the order of declaration; client and
  server code is generated from protocol files kept in several copies.

`PROJECT.json` lists these as hazards, each at its line, with the properties that
would catch it.

## 2. The modules

| module | models | role |
|---|---|---|
| `FeedFanout` | feed-worker/main.go with its queue, its Redis lists and the users service's followers | detailed specification |
| `FeedDelivery` | at-least-once fan-out, without queue, worker or Redis | abstract specification that `FeedFanout` implements |
| `FeedList` | the list `feed:<user>` in Redis, as its reader may rely on it | abstract specification of each list of `FeedFanout`; the list that `FeedRead` reads |
| `FeedFanoutProofs` | - | theorems and proofs about `FeedFanout` |
| `FeedListsProofs` | - | theorems and proofs about the Redis lists of `FeedFanout` |
| `TweetEngagement` | likes, reposts, deletion and the lists of own tweets, likes and reposts in tweets/src/routes/\_\_init\_\_.py, counters and constraints of models.py | specification |
| `UserFollows` | users/src/routes/follower_routes.py with its reads, the gRPC handlers of users/src/grpc/server.py, models.py | specification |
| `UniqueTable` | a table with a unique constraint, without reads, transactions or counters | abstract specification that `TweetEngagement` and `UserFollows` implement |
| `TweetEngagementProofs`, `UserFollowsProofs` | - | theorems and proofs about these two |
| `Broker` | RabbitMQ as its clients use it: queues, bindings, topic routing, the messages of `tweet_events` | state and operators shared by the next two |
| `TweetCreation` | createTweet, createTweetReply and the deletions of tweets/src/routes/\_\_init\_\_.py, `IncrementTweets` of grpc/client, `produce_message` of mq.py | publisher component |
| `SearchIndexing` | search-worker: main.go, rabbitmq.go, elasticsearch.go, and its test producer | consumer component |
| `TweetPipeline` | the composition: `TweetCreation` and `SearchIndexing` around `Broker` | specification and properties |
| `IndexDelivery` | in-order indexing, at least once, without queue, worker or Elasticsearch | abstract specification that `TweetPipeline` implements |
| `TweetPipelineProofs` | - | theorems and proofs about `TweetPipeline` and its parts |
| `UsersService` | register and login (user_routes.py, models.py, auth.py), and every request's session: dependencies/db.py, the pool, threads, the event loop | specification |
| `UsersServiceProofs` | - | theorems and proofs about it |
| `HttpRoutes` | the routers of the four services and route matching | operators |
| `HttpRoutesProofs` | - | which routes are reached: theorems about `HttpRoutes` |
| `Auth` | Config, JWT_SECRET, sign_jwt, decode and VerifyToken of the four services | operators |
| `Rpc` | the stubs, servicers and registrations of the generated code, every gRPC call site, the start and stop of servers | state and operators; also a specification |
| `FeedRead` | GET /feed: routes, dependencies/redis.py and grpc/client of feed, GetTweets of tweets; extends `Auth` and `Rpc` | specification and properties |
| `FeedReadProofs` | - | theorems and proofs about it |
| `MCFeedFanout`, `MCTweetEngagement`, `MCUserFollows`, `MCTweetPipeline`, `MCUsersService`, `MCFeedRead` | - | symmetry sets, event sets, deployments and initial states for TLC |

### FeedFanout

A message is a number, in the order of publication, with a kind of body
(`tweet`, `mistyped`: an object whose `user_id` decodes before another field
fails, `garbage`: not JSON) and an author. Variables: the queue (`ready`), the
outstanding deliveries of the channel (`unacked`), the process and its channel
(`alive`, `open`), one handler record per delivery tag (`h`: statement, followers
still to push to, the one to trim), and the lists (`feeds`). `followers` is the
users service. `lost` has the messages that a restart of the broker took away.
`acked`, `blind`, `reached`, `steady`, `ever` are history.

| action | code |
|---|---|
| `Publish` | a publisher through the default exchange (producer.py `publish_general_tweet`) |
| `Follow`, `Unfollow` | the commits of CreateFollow and DeleteFollow |
| `Deliver` | `for d := range msgs { go handle_message(d) }` |
| `Decode` | `json.Unmarshal`, and on an error the `Nack` *without a return* |
| `LookupOk`, `LookupFailed` | `get_user_followers`; on an error, log and go on with no followers |
| `PushOk`, `PushFailed` | one `LPush`; on an error `Nack` and return. go-redis sends a timed-out command again up to `Retries` times, so that the list may get several copies, also when the call fails |
| `Trim` | `LTrim 0 FeedCap-1`, whose error is only logged |
| `Finish` | the `Ack` after the loop |
| `Crash`, `Start` | the process dies (the broker requeues what is outstanding); main and run_worker |
| `ChannelLost` | the connection breaks under a worker that lives: `msgs` ends, main waits on its nil channel, and the handlers go on with what they have |
| `BrokerRestart` | the same for the worker, and the messages of `general_tweets`, declared as not durable (main.go:109), are gone: the queue is empty until the next `Publish`, by a publisher who declares it again |

What RabbitMQ does with a settlement (`Ack`, `NackRequeue`, `CloseChannel`) is in
operators of their own: a tag that is settled already is a channel error, which
closes the channel and requeues every outstanding delivery; calls on a closed
channel return an error that the handler ignores. The worker has no code to open
another channel, so only a new process listens again. `FeedDelivery` has a step for the
messages that a restart takes (`Lose`), if there may be one.

### TweetEngagement and UserFollows

A request occupies a slot: it reads in one step or two, keeps what it has read,
and flushes and commits in one step. That is PostgreSQL at READ COMMITTED under a
SQLAlchemy session: a SELECT sees what is committed, the UPDATE writes the literal
value computed in memory, and row locks and unique indexes make flush and commit
one step for the rest. An UPDATE that matches no row raises StaleDataError (rolled
back, 500); a DELETE that matches none is only a warning. The unique constraints
are guards of the commit. `DbErrors` lets any commit fail for other reasons.
Early returns that change nothing (404, 403, 400) are the guards of the read
steps. Rows have the identity uuid4 gives them: a number never used before.

`raced` is history: the counters for which two requests were under way at once.

`UniqueTable` is what the tables `follows`, `tweet_like` and `tweet_repost` promise
to requests that read and commit in separate steps: each request is carried out in
one step or refused, a key (a pair of users, or a user and a tweet) has one row at
most, and a deletion takes the row that was read for it, never one inserted under
the same key since. A request has begun, there, when its reads are done and it has
not committed; keys are open while both users, or the tweet, exist, and a request
is refused without a reason only if `DbErrors` says so.

### Broker, TweetCreation, SearchIndexing and TweetPipeline

`TweetPipeline` is the path from a POST to the search index. A step is one of a
component, with the other component's variables unchanged; the broker's variables
(`declared`, `bindings`, `events`, `ready`, `lost`, `fed`, `sent`) are shared.

| action | code |
|---|---|
| `Request` | the handler has built the row; nothing is stored yet |
| `Commit` | `session.add`, `session.commit`; a commit that fails may have been done |
| `Refresh` | `session.refresh`, which also fails for a tweet deleted since |
| `IncrementTweets` | the gRPC call (`CountCall`); its error is dropped. `uncounted`, which is history, has the posts whose call failed unnoticed |
| `PublishToFeed`, `PublishEvent` | the two calls of `produce_message`: declare the queue, publish to `tweet_exchange`; an exception is the client's 500 |
| `createTweetReply` | `Commit` and `IncrementTweets`, no refresh and no publication |
| `deletePost` | the commit of deleteTweet and deleteTweetReply; nobody else is told |
| `ServiceCrash` | the tweets process dies with its requests |
| `WorkerStart` | `NewRabbitMQClinet`, `innit`, `Consume`: declare and bind the queue (`Bound`), consume. An error of `Consume` is dropped (main.go:74), and leaves a worker that lives and never listens |
| `Deliver` | broker to client library; no prefetch limit |
| `Handle` | `handle_message` up to the end of the switch; of an update only the `Delete` |
| `Recreate` | the `Create` of an update |
| `Settle` | `Nack` with requeue after an error, else `Ack` |
| `ChannelLost`, `WorkerCrash` | the connection breaks, the process dies |
| `BrokerRestart` | queues, bindings and messages are gone: none of them is durable |
| `publish_tweet` | producer.py, the only publisher of updates and deletions |

Messages of `tweet_events` are numbered by publication and the queue is the set of
waiting numbers, the least first: that is how RabbitMQ puts a requeued message
back in its place. A document in Elasticsearch has the id made up for it
(`AutoId`), because `Create` gives none; `Delete` asks for `TweetId`. The client has
its default options (elasticsearch.go:22), with which it sends a request that had no
answer, or a 502, 503 or 504, up to three times more: `Create` makes up to
`1 + Resends` documents in a delivery that meets such a failure, whatever it reports
in the end. Events whose
document Elasticsearch refused are history (`refused`), because `Create` only
logs it and the event is acknowledged all the same.

`IndexDelivery` is what this promises: an event is done only when it is written
or refused, and before an earlier one only if that was put back. The mapping
takes what is settled from `acked` and `rejected`, what is written from the
documents in `index`, and as pending all events that are neither settled nor
`lost`: the queue, the buffer of the client library and the delivery in work are
one place there, and a broken connection or a crash is a stutter.

### UsersService

A request occupies a slot, from its arrival to the end of `get_db`. Variables: the
requests (`req`) and how far they are (`at`), the requests whose session holds a
connection (`conns`), the coroutine on the event loop (`loop`), the table
`actors` (`rows`), the answers. `stored` and `hit` are history.

| action | code |
|---|---|
| `Arrive` | the loop reads a request and sends a handler to a thread; a gRPC call comes in its own thread and needs no loop |
| `Run` | the loop turns to `async def register` or `login`, neither of which awaits anything: it has the loop until it ends |
| `Connect`, `TimedOut` | the first statement of a transaction takes a connection, or gives up after `pool_timeout` |
| `Insert` | add, flush and commit of register, with the unique constraint and the rollback |
| `Refresh` | register's `refresh`, a second transaction, which may have to wait again |
| `login` | the query and `verify_password` |
| `Handle`, `Serve` | the other HTTP handlers; the gRPC methods, whose own `finally` closes the session |
| `Respond`, `Close` | the loop takes the answer, and FastAPI has a thread run the rest of `get_db` |

SQLAlchemy's pool is 5 connections and 10 of overflow, and waits 30 seconds; the
code changes none of these, so `PoolSize` is 15 there. A session keeps its
connection until its transaction ends, which is at the end of `get_db` for a
handler that only reads. Passwords are the client that has them, with the form in
which they are kept: bytes, text, or bytes in hexadecimal.

### HttpRoutes, Auth, Rpc and FeedRead

`HttpRoutes` has the routers as sequences, in the order of declaration and
inclusion, and `Resolve`: the first route that matches path and method, 405 if
only paths match, 404 otherwise. `Auth` has what each service does to find the
secret: a `.env` file with anything in it replaces the environment in `Config`;
users, feed and search look into the environment first, tweets does not; a
service without a secret does not start, and tweets, which alone has no default for
it, not without JWT_ALGO either. `Rpc` has the full method names that
stubs send and servers register; a method that the service class does not define
is the servicer's, which answers UNIMPLEMENTED.

`FeedRead` is a client that reads its feed page by page, with the length of a page
as its `Limit`, until a page is empty. The rest of the system moves meanwhile:

| action | code |
|---|---|
| `Push`, `Trim` | LPUSH and LTRIM of feed-workers: the actions of `FeedList`, of which every list of `FeedFanout` is proved to be an instance |
| `Delete` | deleteTweet; its id stays in the lists |
| `Restart` | the gRPC server of tweets starts or stops |
| `Tick`, `Issue` | time goes on; a new token, when the old one is not taken |
| `Read` | GET /feed: route, VerifyToken, LRANGE |
| `Hydrate` | GetTweets, and `[]` when it fails; the client goes on behind the page. It always fails while the tweets service does not serve, and for every page with an entry that is no UUID: the empty one, which `FeedFanout` pushes for a body without a tweet id. It may fail at any time, when the tweets service's database does |

`start`, `shift`, `shown` and `missed` are history: the list when the client read
its first page, how far it moved, and what the client was shown or not.

## 3. The runs

All runs are in `PROJECT.json` with the properties of their cfg.

| run | shows | bounds |
|---|---|---|
| `FeedFanout_failures` | `OnePlace`, `SteadyFollowersReached`, `OnlyFollowersReached`, `GoodBodiesKeepChannel`, `BadBodyNeverAcked`, and that `FeedFanout` implements `FeedDelivery` | 1 author, 2 readers, 2 messages of which the last may be garbage, 3 deliveries, 1 failed push, crash, broken connection or restart of the broker and any number of failed lookups, no resend, cap 1 |
| `FeedFanout_live` | `EveryMessageSettles` under fairness, `FeedBounded` and `DuplicatesNeedRedelivery` with resends, and that the lists are `FeedList`s (`FeedListSpec`) | 1 reader, 2 messages of which the last may be mistyped, 4 deliveries, 1 failed push or trim, crash or broken connection, 1 resend, cap 1 |
| `TweetEngagement_races` | that likes and reposts implement `UniqueTable` (`TableSpec`), counters (`ExactUnlessRaced`), deletions (`GoneTweetsUntouched`), ownership (`OnlyOwnersDelete`) | 2 users, 1 tweet, 2 concurrent requests, 3 rows ever |
| `UserFollows_races` | that follows implement `UniqueTable` (`TableSpec`), counters (`NeverOvercounted`, `ExactUnlessRaced`) | 2 users, 2 concurrent requests, 2 follows ever, 2 counted tweets per user |
| `TweetPipeline_events` | the path from a POST to the index: `NothingBeforeCommit`, `OkMeansDone`, `EventOnePlace`, `DocumentsNeedDeliveries`, `NothingDroppedWhileListening`, that `TweetPipeline` implements `IndexDelivery`, and `EventsSettle` under fairness | 1 post, 1 request, 2 events of any kind, 2 failures of any kind, 1 resend |
| `UsersService_pool` | `StuckOnlyBehindTheLoop`, `ConnectionsAccounted`, `AnswerIsTrue`, and `EveryRequestEnds` under fairness | 3 concurrent requests of any kind, 2 clients, 1 account, a pool of 1 |
| `FeedRead_paging` | `PagingComplete`, `ServicesAgree`, `RoutesReached`, and `PagingEnds` under fairness | 1 tweet and empty entries, lists of up to 4 entries, cap 2, pages of 2, 1 expiry, three deployments: the secret in the environment, with another in feed's `.env`; the same `.env` everywhere and no environment; `.env` files of feed, search and tweets only, with two secrets and no algorithm for tweets |

The five runs of the findings below are the smallest instances that show them. A
run takes seconds up to three minutes with two workers.

Two concurrent handlers or requests are enough for every race in this code: a
step of one touches a row, a list or the queue, and what it can meet there is the
effect of *another*; a third adds no new kind of step between a read and a write.
Three deliveries of two messages let one message be delivered again while the other
is under way; four let a message come again after its channel was lost, beside a
handler that still has the first delivery of it. One failure is enough for a message
to come again: a second would only be a third delivery, and the deliveries are
what `DuplicatesNeedRedelivery` and `FeedBounded` count; for more of them, these two
are theorems. The death of a worker that has no channel any more is not counted as
a failure. Two follows allow the unfollow that is late for a follow created anew.
Two events are what an order is about; two failures let an event be requeued and
then be hit by a crash, a broken connection or a restart. With one post and one
request at a time in `TweetPipeline_events`, that concurrent requests do not
disturb each other is what its theorems add, which hold for any number of slots.
Three requests over one connection are the smallest circle of the users service:
one that holds it and wants the loop, one that has the loop and wants it, and
one more that is in the way of either. Lists of four entries with a cap of two
and pages of two have trims, full pages, a page that is not full, and an entry that
moves from one page to the next; `PagingComplete` speaks of one entry at a time, and
for each place of the list there is one in which the tweet is at that place only.
The readers, users and slots are symmetric where a run says so and states no
liveness.

Deadlock checking is off: the models stop at their bounds, and the system may be
idle. That the users service does not halt is stated by `StuckOnlyBehindTheLoop`
and `EveryRequestEnds`.

### Fairness

`FairSpec` assumes weak fairness of `Deliver` (the broker delivers while a
consumer listens) and of every handler's next step (the Go runtime schedules every
goroutine, and each of its calls returns: gRPC has a 3 s deadline, go-redis has
timeouts). There is none on `Start`, because the restart policies of
docker-compose.yml are commented out, nor on `Publish`, `Follow` or `Crash`.
So `EveryMessageSettles` has the condition that the worker has an open channel
again and again (`[]<>open`): somebody restarts it whenever it has lost the old one.
That no handler of a well-formed body takes the channel away again
(`GoodBodiesKeepChannel`) and that a broken connection gives the messages back is
then the code's part. It is about behaviours without a bad body, which costs the
channel again after every restart, and it needs no fairness of success: failed pushes
are bounded by `MaxFaults`, that is, Redis works again some time.

The `FairSpec` of `TweetPipeline` assumes weak fairness of `Deliver`, `Handle`,
`Recreate` and `Settle`: the broker delivers to a consumer and the worker's only
loop goes on. There is none on `WorkerStart`: after a broken connection the loop
ends and the process does nothing more until somebody restarts it. `EventsSettle` has
the condition that this happens (`[]<>listening`), and says that then everything is
settled that waited, was in the buffer or was in hand, unless a restart of the broker
took it.

The `FairSpec` of `UsersService` assumes weak fairness of what threads, the
database and the pool's timeout do for a request, and strong fairness of the
event loop's step for it: the loop takes what is ready in order of arrival, so a
request that is ready again and again, between the coroutines that have the loop,
is not passed over for ever. Without the timeout `EveryRequestEnds` is false: a
mutant shows it.

The `FairSpec` of `FeedRead` assumes that a request which has begun is answered
and that the client asks on (`get_feed`), and that it gets a new token when its
old one is not taken (`Issue`). Nothing is assumed of pushes, trims, time or the
tweets service; that the client gets to the end rests on `MaxLen`, which stands
for the cap of the lists (`FeedBounded`).

### Findings

| run | the code | the text |
|---|---|---|
| `FeedFanout_lookup_error` | a failed GetFollowers is logged and the message acknowledged: nobody gets the tweet | feed-worker/main_test.go:140 expects a Nack with requeue |
| `TweetPipeline_feed_queue` | tweets/src/dependencies/mq.py:34 publishes to `tweet_exchange`; nothing binds `general_tweets` to it, so the message is dropped and no tweet gets to the feed-worker | tweets/src/routes/\_\_init\_\_.py:43 "# Produce to tweet feed queue" |
| `TweetPipeline_deleted` | documents are created without an id (elasticsearch.go:41) and deleted by the tweet's (line 62); the 404 is no error, so a deleted tweet stays in the index and an updated one is there twice | README.md:59 "to keep the Elasticsearch index updated" |
| `UsersService_login` | the hash is bytes, the column is text: the driver stores `\x24...`, and `checkpw` raises on it; every login answers 500 | users/tests/test_routes.py:68 "Test successful login with real DB.", where line 82 expects 200 |
| `FeedWorker_rpc` | the worker's generated client calls `user.User`, the server registers `user_service.User`: UNIMPLEMENTED | README.md:62 "fetches the tweet author's followers (via gRPC to User service)" |

These five hide each other: the worker gets no tweets, could not ask for
followers if it got them, and nobody can log in. The other models look behind
them: `FeedFanout` has its messages from a publisher to the default exchange (as
producer.py does), and followers from a users service that answers; `FeedRead`
has a token.

Seen while reading, and not a run of its own:

* `tweets/src/grpc/client/__init__.py:18` calls `config.get`, which the tweets
  service's `Config` does not define, so that the service needs that method before
  it can start. The models take it as started.
* The copies of `tweet_service_pb2_grpc.py` are generated for grpcio 1.76.0,
  those of `user_service_pb2_grpc.py` for 1.71.0, and every service's
  pyproject.toml pins 1.71.0; the models take them all as importable.
* The tweets service sends the id of a tweet as `id`; the feed-worker decodes
  `tweet_id`. The models leave the body at the post it is about.
* A body that cannot be decoded is Nacked and then, because there is no return,
  Acked (main.go:62): the broker closes the channel, `msgs` ends, and the worker
  waits on a nil channel for ever. `GoodBodiesKeepChannel` says that handlers of
  other bodies never do that, and `BadBodyNeverAcked` that the message comes again
  after every restart.
* Handlers push in any order, so a feed is not sorted by time, which
  feed/src/dependencies/redis.py:43 calls "newest first"; GetTweets has no ORDER
  BY besides.
* The routes GET /tweet/like, /tweet/repost and /tweet/reply come after
  GET /tweet/{tweet_id} and are never reached. `RoutesReached` says so: these
  three, and no others.
* The tweets service answers 500 where the others answer 403 to a token that is
  expired or not theirs: its `decode_jwt` turns exceptions into an empty payload
  in which VerifyToken does not find the user.
* README.md:53 says user tweet counts are incremented and decremented; `deletePost`
  shows that no deletion tells the users service.
* `CreateFollow` compares the client's string with the token's
  (follower_routes.py:23) where PostgreSQL compares UUIDs: `UserFollows` lets a
  user name himself in another spelling, and the row is stored.
* Nothing counts replies: `increment_replys` and `num_replys` of tweets/src/models.py
  are there, and createTweetReply does not use them.
* `GetFollowing` of the users service builds the message of GetFollowers, which
  looks the same on the wire.

## 4. The proofs

Every proof module has one inductive invariant, `IInv`, one lemma per action that
the action keeps it, and the theorems that follow. The assumptions are those of
the specifications: bounds that are natural numbers and failures that are of a
known kind. `Users`, `Tweets`, `Slots`, `Readers` and `Authors` are any sets.

**FeedFanout.** `FeedFanoutProofs` proves, for all values of the constants that satisfy
`FanoutAssumption` (finite bounds on messages, deliveries and faults, sets of
authors and readers of any size), that `Spec` implies

* `TypeCorrect`: `[]TypeOK`;
* `NothingLost`: `[]OnePlace`;
* `FanoutComplete`: `[]SteadyFollowersReached`;
* `FanoutSound`: `[]OnlyFollowersReached`;
* `GoodBodiesKeep`: `GoodBodiesKeepChannel`, and `BadBodiesUnsettled`:
  `[]BadBodyNeverAcked`;
* `Refinement`: `DeliverySpec`, the abstract specification.

The argument is one inductive invariant, `IInv`. None of the properties is
inductive alone: that a message is in one place needs that the outstanding tags
were given out and that their handlers are still running (`TagsInv`,
`SettledInv`); that good bodies never close the channel needs that a running handler
of a well-formed message holds an outstanding tag while the channel is open
(`HandlerInv`, `ChannelInv`); that steady followers are reached needs that, while
a handler runs, everyone steady is reached already or still to be pushed to
(`LookupInv`); that only followers are reached needs that whom a handler still has
to push to followed at some time (`AudienceInv`). There is one lemma per action.
The refinement of `FeedDelivery` uses `IInv` and one more invariant, `DropInv`: only where lookups
may fail is a well-formed tweet acknowledged without its followers being read.

**The lists.** `FeedListsProofs` proves `DuplicatesCounted`
(`[]DuplicatesNeedRedelivery`), `FeedsBounded` (`[]FeedBounded`) and `ListsKept`
(`FeedListSpec`) on top of `IInv`. `CopiesInv` strengthens the first: it counts for each message and list only
the deliveries that can push there no more (`Spent`): a push spends its delivery,
which is what makes room for the copies, and no step gives one back. `FeedBounded`
is inductive on top of `IInv`; it rests on handlers that have pushed staying trimmers
of that list until they trim (`TrimmersStay`), on failures being counted
(`FaultsGrow`), and on a trim leaving no more than the cap.

`ListsKept` is the joint between the two halves of the system: `FeedRead` moves
its list by the actions of `FeedList`, and every list of `FeedFanout` implements
`FeedList`. Each step changes a list by one push at its front or one trim at its
end (`ListSteps`); that a list gets no longer than all deliveries together may make
it rests on `TotalInv`, which counts the deliveries that are through with the list,
as `CopiesInv` does for one message.

**TweetEngagement.** `TweetEngagementProofs`: `TypeCorrect`, `OneLikeEach`
(`[]OnePerUser`), `Counters` (`[]ExactUnlessRaced`), `GoneTweets`
(`GoneTweetsUntouched`), `Ownership` (`OnlyOwnersDelete`) and `EngagementIsAtomic`
(`TableSpec`). That a counter is
the number of its rows is not inductive, because a commit writes what was read
before: `SeenCurrent` says that what a request has read is still true while it is
the only one on a counter that was never raced, and `MetNoted` that two requests
on one counter are noted in `raced`. `GoneStays` says that a tweet which a request
did not find is still gone, `Authorized` that what a request is about to delete
belongs to its user. Counting is by the cardinality theorems of the library.

**UserFollows.** `UserFollowsProofs`: `TypeCorrect`, `NeverTooMany` (`[]NeverOvercounted`), `Counters`
(`[]ExactUnlessRaced`), `LateUnfollowHarmless` (`OnlyTheRowReadIsDeleted`) and
`FollowsAreAtomic` (`TableSpec`). The
same two conjuncts, `SeenCurrent` and `MetNoted`, carry `ExactUnlessRaced`;
`SeenBounded`, that no value read is larger than the true count, carries
`NeverOvercounted`.

**Both tables.** `FollowsAreAtomic` and `EngagementIsAtomic` map every step of these
two specifications to a step of `UniqueTable` or a stutter. The first read of a
request that goes on is `BeginInsert` or `BeginRemove`, a commit that succeeds is
`Insert` or `Remove`, and one that does not is `Refuse`, for which the proof has to
name the reason: the key is taken, or no longer open, or `DbErrors` holds. Counters,
retries of reads and requests that only count are stutters. It takes that rows and
their keys are one to one (from the `IInv` of each), and, for follows, one more
invariant: that the users of a request which inserts exist (`Known`), which the
commit itself never looks at again. The properties `OnePerUser` and
`OnlyTheRowReadIsDeleted` have no place in the runs any more: `TableSpec` contains
them, in the guard of `Insert` and in what `Remove` takes away.

**TweetPipeline.** `TweetPipelineProofs`: `TypeCorrect`, `OnlyCommittedTravels`
(`[]NothingBeforeCommit`), `OkIsDone` (`[]OkMeansDone`) and `EventsAccounted`
(`[]EventOnePlace`). `RequestInv` says what a request that is at a certain step
has done; `EventPosts` that events are about committed posts, so that documents
are; `CurInv` that the delivery in work is one of an event, can be settled only
while the worker listens, and that a worker that does not listen has no other.
`Placed` is `EventOnePlace` written out place by place. The lemmas
`WorkerUndisturbed` and `RequestsUndisturbed` are the frame of the composition: a
publisher's step changes nothing that is said of the worker but the events that
wait, and a step of the worker nothing that is said of requests.

Three more theorems each add one invariant to it. `DocumentsForAcked`
(`[]AckedIndexed`) has `IndexedInv`: what is about to be acknowledged has its
document as well. `AckedInOrder` (`[]LateOnlyAfterRequeue`) has `OrderInv`: what
is before an event in the numbering is settled, lost, put back, in work, or before
it in the buffer; it uses that the broker hands out the least number that waits, and
that the worker takes the first of its buffer.
`DocumentsCounted` (`[]DocumentsNeedDeliveries`) has `CountInv`: while a delivery
may still create its documents, it does not count, and one call makes at most
`1 + Resends` of them.
`NothingDropped` (`NothingDroppedWhileListening`) has `BoundInv`: while the worker
listens its binding is there.
`Refinement` (`IndexDeliverySpec`) maps every action of the composition to one of
`IndexDelivery` or a stutter, from these invariants and `WorkInv`: the event in
work is well-formed and not settled.

**UsersService.** `UsersServiceProofs`: `TypeCorrect`, `Connections`
(`[]ConnectionsAccounted`), `Halt` (`[]StuckOnlyBehindTheLoop`) and `TrueAnswers` (`[]AnswerIsTrue`), for pools of any size and
any finite number of requests. `IInv` is the types, that no more connections are
out than the pool has, and `SlotInv` of every request: where it is in its handler
determines whether it has a connection, has the loop, and has stored its row. A
step of one request leaves the `SlotInv` of the others alone (`PassedBy`).
`TrueAnswers` adds `AloneInv`: of the requests that stored a row no two have the
account in common, and the rows of each are its client's.

**FeedRead.** `FeedReadProofs`: `TypeCorrect`, `PagesLeaveNothingOut`
(`[]PagingComplete`) and `OneSecret` (`[]ServicesAgree`), for lists, pages and
deployments of any size, and `RoutesBehindOthers`
(`[]RoutesReached`). `PagingInv` says
that the list, moved down by what was pushed, is still the one that the client
began with as far as it was not trimmed (`Aligned`), and that every entry above
the client's offset is shown, missed, deleted or on the page in hand.

The routes are a matter of their tables: `HttpRoutesProofs` has a lemma for what
`Resolve` gives when a route matches and none before it does (`Resolved`), and goes
through the routes of each service; `TweetsHidden` has the three that are behind
another. The prover needs this route by route; TLC evaluates it at once.

Model-checked only: `EveryMessageSettles`, `EventsSettle`, `EveryRequestEnds` and
`PagingEnds`. They are liveness under fairness, whose proofs need ENABLED and are out
of the prover's reach. All other properties of the passing runs, the refinements
included, are theorems. `AckedIndexed`, `LateOnlyAfterRequeue`, `OnePerUser` and
`OnlyTheRowReadIsDeleted` are theorems that have no place in a run of their own,
because a refinement that is checked contains them.

What `Occurrences`, `SubSeq` and concatenation do is proved from the library's
theorems about sequences and finite sets. No specification has a recursive operator.

## 5. Plan

In the order of importance; all of these are done.

1. `FeedFanout`, `FeedDelivery` and their proofs.
2. `TweetEngagement`, `UserFollows` and their proofs.
3. `Broker`, `TweetCreation`, `SearchIndexing`, `TweetPipeline`, `IndexDelivery`
   and their proofs.
4. `UsersService`: the pool, the threads and the event loop, register and login.
5. `HttpRoutes`, `Auth`, `Rpc`, `FeedRead` and their proofs.
6. `FeedList`, which joins `FeedFanout` and `FeedRead`, and `UniqueTable`, what the
   two tables promise.

Left for later: the connections of the tweets service, whose pool is used as that of
the users service is, in a specification like `UsersService`.

### Not modelled

* `getTweetByID` and `getTweetReplys`: one query, one answer, no state.
* The search itself: the service's Elasticsearch client is a mock with constant
  answers. Its routes, token check and stub are in `HttpRoutes`, `Auth` and `Rpc`.
* Code that nothing calls: the gRPC servers and the copies of models.py in feed
  and search, `GetUser` at the tweets service, the experimental classes of the
  generated Python code.
* Serialization (`*_pb2.py`, user.pb.go), bcrypt and JWT signatures, which are
  what their libraries make of them.
* Logging and tracing, which no property is about; container files, load
  generators and the tests.
