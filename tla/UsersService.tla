---------------------------- MODULE UsersService ----------------------------
(* Requests to the users service from the first statement to the closing of  *)
(* their session (routes/, dependencies/db.py, grpc/server.py, models.py),   *)
(* with registration and login in full.  HTTP requests live on one event     *)
(* loop: register and login are coroutines and run on it, waiting for the    *)
(* database included; the other handlers run in threads, and only their      *)
(* results come back to the loop.  Calls from other services have threads of *)
(* gRPC and no use for the loop.  All share one pool of connections.         *)
EXTENDS Naturals, FiniteSets

CONSTANTS
    Slots,     \* requests that may be under way at the same time
    Clients,   \* a client stands for its password too
    Accounts,  \* an email with its username
    PoolSize,  \* connections of the pool, overflow included: 15 in the code
    DbErrors,  \* whether the database may fail for its own reasons
    None       \* nobody is on the event loop

ASSUME ServiceAssumption ==
    /\ IsFiniteSet(Slots)
    /\ None \notin Slots
    /\ PoolSize \in Nat \ {0}
    /\ DbErrors \in BOOLEAN

VARIABLES
    req,     \* the request of every slot
    at,      \* how far it is
    conns,   \* the requests whose session holds a connection
    loop,    \* the coroutine that runs on the event loop, or None
    rows,    \* table actors
    answer,  \* the answer of every request that is done
    stored,  \* history: registrations under way that have been committed
    hit      \* history: requests under way that met a database failure or timeout

vars == <<req, at, conns, loop, rows, answer, stored, hit>>

NoRequest == [op |-> "none"]
Coroutines == [op : {"register", "login"}, client : Clients, account : Accounts]
Handled == [op |-> "handler"]
Called == [op |-> "rpc"]
Places == {"idle", "ready", "wait", "work", "rewait", "rework", "done", "closing"}
Answers == {"none", "token", "sent", "400", "500"}
Row == [account : Accounts, password : Clients, form : {"hex", "text"}]

Init ==
    /\ req = [q \in Slots |-> NoRequest]
    /\ at = [q \in Slots |-> "idle"]
    /\ conns = {}
    /\ loop = None
    /\ rows = {}
    /\ answer = [q \in Slots |-> "none"]
    /\ stored = {}
    /\ hit = {}

Goto(q, place) == at' = [at EXCEPT ![q] = place]
Asks(q, what) == req[q].op = what

(* The handler has an answer.  If it was a coroutine, the loop is free.      *)
Done(q, a) ==
    /\ Goto(q, "done")
    /\ answer' = [answer EXCEPT ![q] = a]
    /\ loop' = IF loop = q THEN None ELSE loop

(* The slot is ready for another request.                                    *)
End(q) ==
    /\ Goto(q, "idle")
    /\ req' = [req EXCEPT ![q] = NoRequest]
    /\ answer' = [answer EXCEPT ![q] = "none"]
    /\ stored' = stored \ {q}
    /\ hit' = hit \ {q}

----------------------------------------------------------------------------
(* A request arrives.  The loop reads it, and sends a handler to a thread.   *)
Arrive(q) ==
    /\ at[q] = "idle"
    /\ \/ /\ loop = None
          /\ \E r \in Coroutines : req' = [req EXCEPT ![q] = r]
          /\ Goto(q, "ready")
       \/ /\ loop = None
          /\ req' = [req EXCEPT ![q] = Handled]
          /\ Goto(q, "wait")
       \/ /\ req' = [req EXCEPT ![q] = Called]
          /\ Goto(q, "wait")
    /\ UNCHANGED <<conns, loop, rows, answer, stored, hit>>

(* The loop turns to a coroutine and gets no further before it ends.         *)
Run(q) ==
    /\ at[q] = "ready" /\ loop = None
    /\ loop' = q
    /\ Goto(q, "wait")
    /\ UNCHANGED <<req, conns, rows, answer, stored, hit>>

(* The first statement of a transaction takes a connection from the pool.    *)
Connect(q) ==
    /\ at[q] \in {"wait", "rewait"}
    /\ Cardinality(conns) < PoolSize
    /\ conns' = conns \union {q}
    /\ Goto(q, IF at[q] = "wait" THEN "work" ELSE "rework")
    /\ UNCHANGED <<req, loop, rows, answer, stored, hit>>

(* Mutated form: a pool without a timeout.                                   *)
WaitOn(q) == FALSE /\ UNCHANGED vars

(* Thirty seconds without a connection.                                      *)
TimedOut(q) ==
    /\ at[q] \in {"wait", "rewait"}
    /\ Cardinality(conns) >= PoolSize
    /\ IF Asks(q, "rpc")
       THEN End(q) /\ UNCHANGED loop
       ELSE Done(q, "500") /\ hit' = hit \union {q} /\ UNCHANGED <<req, stored>>
    /\ UNCHANGED <<conns, rows>>

----------------------------------------------------------------------------
(* A password is hashed to bytes.                                            *)
_generate_password_hash(c) == [password |-> c, form |-> "bytes"]

(* Mutated form: the column keeps what it is given.                          *)
KeptAsGiven(hash) == hash

(* Bytes in a column of text: PostgreSQL writes them in hexadecimal.         *)
ColumnText(hash) == IF hash.form = "bytes" THEN [hash EXCEPT !.form = "hex"] ELSE hash

(* checkpw raises an exception unless what it is given is a bcrypt hash.     *)
verify_password(r, c) ==
    IF r.form # "text" THEN "raises"
    ELSE IF r.password = c THEN "right" ELSE "wrong"

(* Mutated form: the column is not unique.                                   *)
anyAccount(a) == TRUE

unique(a) == \A r \in rows : r.account # a

(* An exception in the first part of register: rollback, and an error.       *)
OnError(q) == Done(q, "500") /\ conns' = conns \ {q}

NewRow(q) ==
    LET hash == ColumnText(_generate_password_hash(req[q].client))
    IN [account |-> req[q].account, password |-> hash.password, form |-> hash.form]

(* Mutated form: the session keeps its connection over the commit.           *)
Kept(q) == conns

(* A commit or rollback gives the connection back.                           *)
Released(q) == conns \ {q}

(* The commit of register, refused when the account exists.  The connection  *)
(* may also break before the answer to it, or after.                         *)
Insert(q) ==
    /\ at[q] = "work" /\ Asks(q, "register")
    /\ \/ /\ unique(req[q].account)
          /\ rows' = rows \union {NewRow(q)}
          /\ stored' = stored \union {q}
          /\ \/ /\ Goto(q, "rewait")
                /\ conns' = Released(q)
                /\ UNCHANGED <<loop, answer, hit>>
             \/ DbErrors /\ OnError(q) /\ hit' = hit \union {q}
       \/ /\ ~unique(req[q].account)
          /\ OnError(q)
          /\ UNCHANGED <<rows, stored, hit>>
       \/ /\ DbErrors
          /\ OnError(q) /\ hit' = hit \union {q}
          /\ UNCHANGED <<rows, stored>>
    /\ UNCHANGED req

(* The row is read back in a transaction of its own, that stays open.        *)
Refresh(q) ==
    /\ at[q] = "rework"
    /\ \/ Done(q, "token") /\ UNCHANGED <<conns, hit>>
       \/ DbErrors /\ OnError(q) /\ hit' = hit \union {q}
    /\ UNCHANGED <<req, rows, stored>>

(* register                                                                  *)
register(q) == Insert(q) \/ Refresh(q)

LoginAnswer(verdict) ==
    IF verdict = "right" THEN "token" ELSE IF verdict = "wrong" THEN "400" ELSE "500"

(* login: one query, and the transaction stays open whatever it gives.       *)
login(q) ==
    /\ at[q] = "work" /\ Asks(q, "login")
    /\ \/ /\ unique(req[q].account)
          /\ Done(q, "400")
          /\ UNCHANGED hit
       \/ /\ \E r \in rows :
                /\ r.account = req[q].account
                /\ Done(q, LoginAnswer(verify_password(r, req[q].client)))
          /\ UNCHANGED hit
       \/ DbErrors /\ Done(q, "500") /\ hit' = hit \union {q}
    /\ UNCHANGED <<req, conns, rows, stored>>

(* The handlers of follower_routes: the transaction of a query stays open    *)
(* when the query is all there is, and CreateFollow and DeleteFollow end it, *)
(* with a commit or a rollback.                                              *)
Handle(q) ==
    /\ at[q] = "work" /\ Asks(q, "handler")
    /\ Done(q, "sent")
    /\ conns' \in {conns, Released(q)}
    /\ UNCHANGED <<req, rows, stored, hit>>

(* A call from another service: its thread closes the session itself.        *)
Serve(q) ==
    /\ at[q] = "work" /\ Asks(q, "rpc")
    /\ End(q)
    /\ conns' = conns \ {q}
    /\ UNCHANGED <<loop, rows>>

(* The loop takes the answer and has a thread close the session.             *)
Respond(q) ==
    /\ at[q] = "done" /\ loop = None
    /\ Goto(q, "closing")
    /\ UNCHANGED <<req, conns, loop, rows, answer, stored, hit>>

(* Mutated form: the session is left open.                                   *)
LeftOpen(q) == at[q] = "closing" /\ End(q) /\ UNCHANGED <<conns, loop, rows>>

(* The end of get_db.                                                        *)
Close(q) ==
    /\ at[q] = "closing"
    /\ End(q)
    /\ conns' = conns \ {q}
    /\ UNCHANGED <<loop, rows>>

----------------------------------------------------------------------------
ThreadStep(q) ==
    \/ Connect(q) \/ TimedOut(q)
    \/ register(q) \/ login(q) \/ Handle(q) \/ Serve(q)
    \/ Close(q)

LoopStep(q) == Run(q) \/ Respond(q)

Next == \E q \in Slots : Arrive(q) \/ ThreadStep(q) \/ LoopStep(q)

Spec == Init /\ [][Next]_vars

(* Threads and the database go on, and a wait for the pool ends after thirty *)
(* seconds.  The loop takes what is ready in order of arrival, so that       *)
(* nobody is passed over for ever.                                           *)
Fairness == \A q \in Slots : WF_vars(ThreadStep(q)) /\ SF_vars(LoopStep(q))

FairSpec == Spec /\ Fairness

----------------------------------------------------------------------------
(* Types of all variables.                                                   *)
TypeOK ==
    /\ req \in [Slots -> {NoRequest, Handled, Called} \union Coroutines]
    /\ at \in [Slots -> Places]
    /\ conns \subseteq Slots
    /\ loop \in Slots \union {None}
    /\ rows \subseteq Row
    /\ answer \in [Slots -> Answers]
    /\ stored \subseteq Slots
    /\ hit \subseteq Slots

Waits(q) == at[q] \in {"wait", "rewait"}

(* A connection belongs to a request that works, or whose session is not     *)
(* closed yet (get_db); there are never more than the pool has, none is left *)
(* behind by a finished request, and nobody waits for one while he holds     *)
(* another: not even register, which takes two in a row.                     *)
ConnectionsAccounted ==
    /\ Cardinality(conns) <= PoolSize
    /\ \A q \in conns : ~Waits(q) /\ at[q] \notin {"idle", "ready"}
    /\ \A q \in Slots : at[q] \in {"work", "rework"} => q \in conns

(* Requests that cannot move unless somebody's wait for the pool times out.  *)
Blocked(q) ==
    \/ Waits(q) /\ Cardinality(conns) = PoolSize
    \/ at[q] \in {"ready", "done"} /\ loop # None

(* The only way the service comes to a halt: a coroutine waits for the pool  *)
(* on the event loop, and all connections are those of requests that are     *)
(* done and only want the loop, to be closed.  Without coroutines that wait, *)
(* requests would never wait for each other in a circle.                     *)
StuckOnlyBehindTheLoop ==
    (\E q \in Slots : at[q] # "idle") /\ (\A q \in Slots : at[q] # "idle" => Blocked(q)) =>
        /\ loop # None /\ Waits(loop)
        /\ \A q \in conns : at[q] = "done"

(* Whatever waits for whatever, every request is answered and its session    *)
(* closed, because the wait for a connection times out.                      *)
EveryRequestEnds == \A q \in Slots : at[q] # "idle" ~> at[q] = "idle"

(* What register tells is true: a token means that the row is stored and     *)
(* that the account is this client's alone, whoever registers it at the same *)
(* time; an error without a failure of the database means that it is not     *)
(* stored, and that somebody else has the account.                           *)
AnswerIsTrue ==
    \A q \in Slots : Asks(q, "register") =>
        /\ answer[q] = "token" =>
              /\ q \in stored
              /\ \A r \in rows : r.account = req[q].account => r.password = req[q].client
              /\ \A p \in stored \ {q} : req[p].account # req[q].account
        /\ answer[q] = "500" /\ q \notin hit => q \notin stored /\ ~unique(req[q].account)

(* "Test successful login with real DB" (users/tests/test_routes.py:68, and  *)
(* the 200 it asserts in line 82): a login that finds the account, with the  *)
(* password it was registered with, gives a token.                           *)
LoginWorks ==
    [][\A q \in Slots :
          /\ Asks(q, "login") /\ at[q] = "work" /\ at'[q] = "done"
          /\ \E r \in rows : r.account = req[q].account /\ r.password = req[q].client
          => answer'[q] = "token"]_vars
=============================================================================
