------------------------- MODULE UsersServiceProofs -------------------------
(* Safety of the users service for any number of requests and connections.   *)
EXTENDS UsersService, FiniteSetTheorems, TLAPS

USE ServiceAssumption

(* What each request owes to the others: the connection it holds, the loop   *)
(* it runs on, and the truth of its answer.                                  *)
SlotInv(q) ==
    /\ at[q] \in {"work", "rework"} => q \in conns
    /\ q \in conns => at[q] \in {"work", "rework", "done", "closing"}
    /\ loop = q => at[q] \in {"wait", "work", "rewait", "rework"}
    /\ at[q] = "ready" \/ loop = q => req[q] \in Coroutines
    /\ at[q] \in {"rewait", "rework"} => q \in stored
    /\ answer[q] # "none" => at[q] \in {"done", "closing"}
    /\ q \in stored => /\ Asks(q, "register")
                       /\ at[q] \in {"rewait", "rework", "done", "closing"}
                       /\ \E r \in rows : r.account = req[q].account /\ r.password = req[q].client
    /\ Asks(q, "register") /\ answer[q] = "token" => q \in stored
    /\ Asks(q, "register") /\ answer[q] = "500" /\ q \notin hit =>
          q \notin stored /\ ~unique(req[q].account)

IInv ==
    /\ TypeOK
    /\ Cardinality(conns) <= PoolSize
    /\ \A q \in Slots : SlotInv(q)

(* A connection taken while there is one left.                               *)
LEMMA TakeOne ==
    ASSUME conns \subseteq Slots, NEW q \in Slots, Cardinality(conns) < PoolSize
    PROVE  Cardinality(conns \union {q}) <= PoolSize
<1>1. IsFiniteSet(conns) BY FS_Subset
<1>2. Cardinality(conns) \in Nat BY <1>1, FS_CardinalityType
<1>3. Cardinality(conns \union {q}) \in {Cardinality(conns), Cardinality(conns) + 1}
  BY <1>1, FS_AddElement
<1> QED BY <1>2, <1>3

(* A connection given back.                                                  *)
LEMMA GiveOne ==
    ASSUME conns \subseteq Slots, NEW q \in Slots, Cardinality(conns) <= PoolSize
    PROVE  Cardinality(conns \ {q}) <= PoolSize
<1>1. IsFiniteSet(conns) BY FS_Subset
<1>2. Cardinality(conns) \in Nat /\ Cardinality(conns \ {q}) \in Nat
  BY <1>1, FS_CardinalityType, FS_Subset, conns \ {q} \subseteq conns
<1>3. Cardinality(conns \ {q}) <= Cardinality(conns) BY <1>1, FS_Subset, conns \ {q} \subseteq conns
<1> QED BY <1>2, <1>3

(* A request that another one's step passes by.                              *)
LEMMA PassedBy ==
    ASSUME NEW p \in Slots, SlotInv(p),
           at'[p] = at[p], req'[p] = req[p], answer'[p] = answer[p],
           p \in conns' <=> p \in conns,
           p \in stored' <=> p \in stored,
           p \in hit' <=> p \in hit,
           loop' = p => loop = p,
           rows \subseteq rows'
    PROVE  SlotInv(p)'
BY DEF SlotInv, Asks, unique

(* The initial states.                                                       *)
LEMMA InitInv == Init => IInv
<1> SUFFICES ASSUME Init PROVE IInv OBVIOUS
<1>1. TypeOK BY DEF Init, TypeOK, Places, Answers, NoRequest
<1>2. Cardinality(conns) = 0 BY FS_EmptySet DEF Init
<1>3. ASSUME NEW q \in Slots PROVE SlotInv(q)
  BY DEF Init, SlotInv, Asks, NoRequest
<1> QED BY <1>1, <1>2, <1>3 DEF IInv

(* The row that register writes.                                             *)
LEMMA RowWritten ==
    ASSUME NEW q \in Slots, req[q] \in Coroutines
    PROVE  /\ NewRow(q) \in Row
           /\ NewRow(q).account = req[q].account
           /\ NewRow(q).password = req[q].client
BY DEF NewRow, ColumnText, _generate_password_hash, Row, Coroutines

(* Requests are told apart by what they ask.                                 *)
LEMMA Registering ==
    ASSUME TypeOK, NEW q \in Slots, Asks(q, "register") \/ Asks(q, "login")
    PROVE  req[q] \in Coroutines
BY DEF TypeOK, Asks, NoRequest, Handled, Called

(* A request arrives.                                                        *)
LEMMA ArriveInv == ASSUME IInv, NEW q \in Slots, Arrive(q) PROVE IInv'
<1> USE DEF IInv
<1>1. /\ at[q] = "idle" /\ at' \in [Slots -> Places] /\ at'[q] \in {"ready", "wait"}
      /\ at'[q] = "ready" => req'[q] \in Coroutines
      /\ req' \in [Slots -> {NoRequest, Handled, Called} \union Coroutines]
      /\ \A p \in Slots \ {q} : at'[p] = at[p] /\ req'[p] = req[p]
      /\ UNCHANGED <<conns, loop, rows, answer, stored, hit>>
  BY DEF Arrive, Goto, TypeOK, Places
<1>2. TypeOK' BY <1>1 DEF TypeOK
<1>3. SlotInv(q)' BY <1>1 DEF SlotInv
<1>4. ASSUME NEW p \in Slots \ {q} PROVE SlotInv(p)'
  BY <1>1, PassedBy
<1> QED BY <1>1, <1>2, <1>3, <1>4

(* A coroutine begins to run.                                                *)
LEMMA RunInv == ASSUME IInv, NEW q \in Slots, Run(q) PROVE IInv'
<1> USE DEF IInv
<1>1. /\ at[q] = "ready" /\ loop = None /\ loop' = q
      /\ at' \in [Slots -> Places] /\ at'[q] = "wait"
      /\ \A p \in Slots \ {q} : at'[p] = at[p]
      /\ UNCHANGED <<req, conns, rows, answer, stored, hit>>
  BY DEF Run, Goto, TypeOK, Places
<1>2. TypeOK' BY <1>1 DEF TypeOK
<1>3. SlotInv(q)' BY <1>1 DEF SlotInv
<1>4. ASSUME NEW p \in Slots \ {q} PROVE SlotInv(p)'
  BY <1>1, PassedBy
<1> QED BY <1>1, <1>2, <1>3, <1>4

(* A connection is taken.                                                    *)
LEMMA ConnectInv == ASSUME IInv, NEW q \in Slots, Connect(q) PROVE IInv'
<1> USE DEF IInv
<1>1. /\ conns' = conns \union {q} /\ Cardinality(conns) < PoolSize
      /\ at[q] \in {"wait", "rewait"}
      /\ at'[q] = IF at[q] = "wait" THEN "work" ELSE "rework"
      /\ at' \in [Slots -> Places]
      /\ \A p \in Slots \ {q} : at'[p] = at[p]
      /\ UNCHANGED <<req, loop, rows, answer, stored, hit>>
  BY DEF Connect, Goto, TypeOK, Places
<1>2. TypeOK' BY <1>1 DEF TypeOK
<1>3. SlotInv(q)' BY <1>1 DEF SlotInv, Asks
<1>4. ASSUME NEW p \in Slots \ {q} PROVE SlotInv(p)'
  BY <1>1, PassedBy
<1>5. Cardinality(conns') <= PoolSize BY <1>1, TakeOne DEF TypeOK
<1> QED BY <1>2, <1>3, <1>4, <1>5

(* What the end of a handler does to the requests.                           *)
LEMMA DoneEffect ==
    ASSUME TypeOK, NEW q \in Slots, NEW a \in Answers, Done(q, a)
    PROVE  /\ at' \in [Slots -> Places] /\ at'[q] = "done"
           /\ answer' \in [Slots -> Answers] /\ answer'[q] = a
           /\ \A p \in Slots \ {q} : at'[p] = at[p] /\ answer'[p] = answer[p]
           /\ loop' \in Slots \union {None} /\ loop' # q
           /\ \A p \in Slots \ {q} : loop' = p => loop = p
BY DEF Done, Goto, TypeOK, Places

(* What the end of a request does to the slots.                              *)
LEMMA EndEffect ==
    ASSUME TypeOK, NEW q \in Slots, End(q)
    PROVE  /\ at' \in [Slots -> Places] /\ at'[q] = "idle"
           /\ req' \in [Slots -> {NoRequest, Handled, Called} \union Coroutines]
           /\ req'[q] = NoRequest
           /\ answer' \in [Slots -> Answers] /\ answer'[q] = "none"
           /\ stored' = stored \ {q} /\ hit' = hit \ {q}
           /\ \A p \in Slots \ {q} :
                 at'[p] = at[p] /\ answer'[p] = answer[p] /\ req'[p] = req[p]
BY DEF End, Goto, TypeOK, Places, Answers

(* A request ends and gives its connection back, if it has one.              *)
LEMMA EndInv ==
    ASSUME IInv, NEW q \in Slots, End(q), conns' = conns \ {q}, loop' = loop, rows' = rows,
           loop # q
    PROVE  IInv'
<1> USE DEF IInv
<1>1. TypeOK' BY EndEffect DEF TypeOK
<1>2. SlotInv(q)' BY EndEffect DEF SlotInv, Asks, NoRequest
<1>3. ASSUME NEW p \in Slots \ {q} PROVE SlotInv(p)'
  BY EndEffect, PassedBy
<1>4. Cardinality(conns') <= PoolSize BY GiveOne DEF TypeOK
<1> QED BY <1>1, <1>2, <1>3, <1>4

(* The wait for a connection times out.                                      *)
LEMMA TimedOutInv == ASSUME IInv, NEW q \in Slots, TimedOut(q) PROVE IInv'
<1> USE DEF IInv
<1>1. at[q] \in {"wait", "rewait"} /\ conns' = conns /\ rows' = rows BY DEF TimedOut
<1>2. q \notin conns BY <1>1 DEF SlotInv
<1>3. CASE Asks(q, "rpc")
  <2>1. End(q) /\ loop' = loop BY <1>3 DEF TimedOut
  <2>2. conns' = conns \ {q} BY <1>1, <1>2
  <2>3. loop # q BY <1>3 DEF SlotInv, Asks, Coroutines
  <2> QED BY <1>1, <2>1, <2>2, <2>3, EndInv
<1>4. CASE ~Asks(q, "rpc")
  <2>1. Done(q, "500") /\ hit' = hit \union {q} /\ req' = req /\ stored' = stored
    BY <1>4 DEF TimedOut
  <2>2. "500" \in Answers BY DEF Answers
  <2>3. TypeOK' BY <1>1, <2>1, <2>2, DoneEffect DEF TypeOK
  <2>4. SlotInv(q)' BY <1>1, <1>2, <2>1, <2>2, DoneEffect DEF SlotInv, Asks
  <2>5. ASSUME NEW p \in Slots \ {q} PROVE SlotInv(p)'
    BY <1>1, <2>1, <2>2, DoneEffect, PassedBy
  <2> QED BY <1>1, <2>3, <2>4, <2>5
<1> QED BY <1>3, <1>4

(* register, its commit.                                                     *)
LEMMA InsertInv == ASSUME IInv, NEW q \in Slots, Insert(q) PROVE IInv'
<1> USE DEF IInv
<1>1. at[q] = "work" /\ Asks(q, "register") /\ req' = req BY DEF Insert
<1>2. /\ NewRow(q) \in Row
      /\ NewRow(q).account = req[q].account
      /\ NewRow(q).password = req[q].client
  BY <1>1, Registering, RowWritten
<1>3. q \notin stored /\ answer[q] = "none" BY <1>1 DEF SlotInv
<1>4. "500" \in Answers BY DEF Answers
<1>5. CASE /\ unique(req[q].account) /\ rows' = rows \union {NewRow(q)}
           /\ stored' = stored \union {q}
           /\ Goto(q, "rewait") /\ conns' = Released(q) /\ UNCHANGED <<loop, answer, hit>>
  <2>1. /\ at' \in [Slots -> Places] /\ at'[q] = "rewait" /\ conns' = conns \ {q}
        /\ \A p \in Slots \ {q} : at'[p] = at[p]
    BY <1>5 DEF Goto, TypeOK, Places, Released
  <2>2. TypeOK' BY <1>1, <1>2, <1>5, <2>1 DEF TypeOK
  <2>3. SlotInv(q)' BY <1>1, <1>2, <1>3, <1>5, <2>1 DEF SlotInv, Asks
  <2>4. ASSUME NEW p \in Slots \ {q} PROVE SlotInv(p)'
    BY <1>1, <1>5, <2>1, PassedBy
  <2>5. Cardinality(conns') <= PoolSize BY <2>1, GiveOne DEF TypeOK
  <2> QED BY <2>2, <2>3, <2>4, <2>5
<1>6. CASE /\ OnError(q)
           /\ \/ /\ rows' = rows \union {NewRow(q)} /\ stored' = stored \union {q}
                 /\ hit' = hit \union {q}
              \/ ~unique(req[q].account) /\ UNCHANGED <<rows, stored, hit>>
              \/ hit' = hit \union {q} /\ UNCHANGED <<rows, stored>>
  <2>1. Done(q, "500") /\ conns' = conns \ {q} BY <1>6 DEF OnError
  <2>2. TypeOK' BY <1>1, <1>2, <1>4, <1>6, <2>1, DoneEffect DEF TypeOK
  <2>3. q \in stored' =>
           \E r \in rows' : r.account = req[q].account /\ r.password = req[q].client
    BY <1>2, <1>3, <1>6 DEF unique
  <2>4. q \notin hit' => q \notin stored' /\ ~unique(req[q].account)' BY <1>1, <1>3, <1>6 DEF unique
  <2>5. SlotInv(q)' BY <1>1, <1>4, <2>1, <2>3, <2>4, DoneEffect DEF SlotInv, Asks, unique
  <2>6. ASSUME NEW p \in Slots \ {q} PROVE SlotInv(p)'
    BY <1>1, <1>4, <1>6, <2>1, DoneEffect, PassedBy
  <2>7. Cardinality(conns') <= PoolSize BY <2>1, GiveOne DEF TypeOK
  <2> QED BY <2>2, <2>5, <2>6, <2>7
<1> QED BY <1>5, <1>6 DEF Insert

(* register, its refresh.                                                    *)
LEMMA RefreshInv == ASSUME IInv, NEW q \in Slots, Refresh(q) PROVE IInv'
<1> USE DEF IInv
<1>1. at[q] = "rework" /\ req' = req /\ rows' = rows /\ stored' = stored BY DEF Refresh
<1>2. q \in stored /\ q \in conns BY <1>1 DEF SlotInv
<1>3. "500" \in Answers /\ "token" \in Answers BY DEF Answers
<1>4. CASE Done(q, "token") /\ UNCHANGED <<conns, hit>>
  <2>1. TypeOK' BY <1>1, <1>3, <1>4, DoneEffect DEF TypeOK
  <2>2. SlotInv(q)' BY <1>1, <1>2, <1>3, <1>4, DoneEffect DEF SlotInv, Asks
  <2>3. ASSUME NEW p \in Slots \ {q} PROVE SlotInv(p)'
    BY <1>1, <1>3, <1>4, DoneEffect, PassedBy
  <2> QED BY <1>4, <2>1, <2>2, <2>3
<1>5. CASE OnError(q) /\ hit' = hit \union {q}
  <2>1. Done(q, "500") /\ conns' = conns \ {q} BY <1>5 DEF OnError
  <2>2. TypeOK' BY <1>1, <1>3, <1>5, <2>1, DoneEffect DEF TypeOK
  <2>3. SlotInv(q)' BY <1>1, <1>2, <1>3, <1>5, <2>1, DoneEffect DEF SlotInv, Asks
  <2>4. ASSUME NEW p \in Slots \ {q} PROVE SlotInv(p)'
    BY <1>1, <1>3, <1>5, <2>1, DoneEffect, PassedBy
  <2>5. Cardinality(conns') <= PoolSize BY <2>1, GiveOne DEF TypeOK
  <2> QED BY <2>2, <2>3, <2>4, <2>5
<1> QED BY <1>4, <1>5 DEF Refresh

(* login                                                                     *)
LEMMA LoginInv == ASSUME IInv, NEW q \in Slots, login(q) PROVE IInv'
<1> USE DEF IInv
<1>1. /\ at[q] = "work" /\ Asks(q, "login")
      /\ UNCHANGED <<req, conns, rows, stored>>
  BY DEF login
<1>2. q \in conns /\ q \notin stored BY <1>1 DEF SlotInv
<1>3. PICK a \in Answers :
         /\ Done(q, a)
         /\ a = "token" =>
               \E r \in rows : r.account = req[q].account /\ r.password = req[q].client
         /\ hit' = hit \/ hit' = hit \union {q}
  BY DEF login, LoginAnswer, verify_password, Answers
<1>4. TypeOK' BY <1>1, <1>3, DoneEffect DEF TypeOK
<1>5. SlotInv(q)' BY <1>1, <1>2, <1>3, DoneEffect DEF SlotInv, Asks
<1>6. ASSUME NEW p \in Slots \ {q} PROVE SlotInv(p)'
  BY <1>1, <1>3, DoneEffect, PassedBy
<1> QED BY <1>1, <1>4, <1>5, <1>6

(* The handlers that run in threads.                                         *)
LEMMA HandleInv == ASSUME IInv, NEW q \in Slots, Handle(q) PROVE IInv'
<1> USE DEF IInv
<1>1. /\ at[q] = "work" /\ Asks(q, "handler") /\ Done(q, "sent")
      /\ conns' \in {conns, conns \ {q}} /\ UNCHANGED <<req, rows, stored, hit>>
  BY DEF Handle, Released
<1>2. "sent" \in Answers BY DEF Answers
<1>3. q \in conns /\ q \notin stored BY <1>1 DEF SlotInv
<1>4. TypeOK' BY <1>1, <1>2, DoneEffect DEF TypeOK
<1>5. SlotInv(q)' BY <1>1, <1>2, <1>3, DoneEffect DEF SlotInv, Asks
<1>6. ASSUME NEW p \in Slots \ {q} PROVE SlotInv(p)'
  BY <1>1, <1>2, DoneEffect, PassedBy
<1>7. Cardinality(conns') <= PoolSize BY <1>1, GiveOne DEF TypeOK
<1> QED BY <1>4, <1>5, <1>6, <1>7

(* Calls of other services, and the closing of sessions.                     *)
LEMMA ServeInv == ASSUME IInv, NEW q \in Slots, Serve(q) PROVE IInv'
<1>1. loop # q BY DEF Serve, IInv, SlotInv, Asks, Coroutines
<1> QED BY <1>1, EndInv DEF Serve

(* The closing of a session.                                                 *)
LEMMA CloseInv == ASSUME IInv, NEW q \in Slots, Close(q) PROVE IInv'
<1>1. loop # q BY DEF Close, IInv, SlotInv
<1> QED BY <1>1, EndInv DEF Close

(* An answer goes out.                                                       *)
LEMMA RespondInv == ASSUME IInv, NEW q \in Slots, Respond(q) PROVE IInv'
<1> USE DEF IInv
<1>1. /\ at[q] = "done" /\ at' \in [Slots -> Places] /\ at'[q] = "closing"
      /\ \A p \in Slots \ {q} : at'[p] = at[p]
      /\ UNCHANGED <<req, conns, loop, rows, answer, stored, hit>>
  BY DEF Respond, Goto, TypeOK, Places
<1>2. TypeOK' BY <1>1 DEF TypeOK
<1>3. SlotInv(q)' BY <1>1 DEF SlotInv, Asks, unique
<1>4. ASSUME NEW p \in Slots \ {q} PROVE SlotInv(p)'
  BY <1>1, PassedBy
<1> QED BY <1>1, <1>2, <1>3, <1>4

(* Nothing happens.                                                          *)
LEMMA StutterInv == ASSUME IInv, UNCHANGED vars PROVE IInv'
BY DEF vars, IInv, TypeOK, SlotInv, Asks, unique

(* The inductive invariant holds in every reachable state.                   *)
THEOREM Invariance == Spec => []IInv
<1>1. ASSUME IInv, [Next]_vars PROVE IInv'
  <2>1. ASSUME NEW q \in Slots, Arrive(q) \/ ThreadStep(q) \/ LoopStep(q) PROVE IInv'
    BY <1>1, <2>1, ArriveInv, ConnectInv, TimedOutInv, InsertInv, RefreshInv, LoginInv,
       HandleInv, ServeInv, CloseInv, RunInv, RespondInv
       DEF ThreadStep, LoopStep, register
  <2> QED BY <1>1, <2>1, StutterInv DEF Next
<1> QED BY <1>1, InitInv, PTL DEF Spec

(* The types, for every number of requests, connections and accounts.        *)
THEOREM TypeCorrect == Spec => []TypeOK
BY Invariance, PTL DEF IInv

(* Every connection is accounted for, and nobody waits for a second one      *)
(* (get_db, register's commit).                                              *)
THEOREM Connections == Spec => []ConnectionsAccounted
<1>1. IInv => ConnectionsAccounted
  BY DEF IInv, TypeOK, SlotInv, ConnectionsAccounted, Waits
<1> QED BY <1>1, Invariance, PTL

(* The service halts only behind a coroutine that waits for the pool on the  *)
(* event loop, while all connections belong to requests that are done.       *)
THEOREM Halt == Spec => []StuckOnlyBehindTheLoop
<1>1. ASSUME IInv,
             NEW q \in Slots, at[q] # "idle",
             \A p \in Slots : at[p] # "idle" => Blocked(p)
      PROVE  /\ loop # None /\ Waits(loop)
             /\ \A p \in conns : at[p] = "done"
  <2>1. \A p \in conns : p \in Slots /\ at[p] = "done" /\ loop # None
    BY <1>1 DEF IInv, TypeOK, SlotInv, Blocked, Waits
  <2>2. loop # None
    <3> SUFFICES ASSUME loop = None PROVE FALSE OBVIOUS
    <3>1. conns = {} BY <2>1
    <3>2. Cardinality(conns) = 0 BY <3>1, FS_EmptySet
    <3> QED BY <1>1, <3>2 DEF Blocked
  <2>3. loop \in Slots /\ at[loop] \in {"wait", "work", "rewait", "rework"}
    BY <1>1, <2>2 DEF IInv, TypeOK, SlotInv
  <2>4. Waits(loop) BY <1>1, <2>3 DEF Blocked
  <2> QED BY <2>1, <2>2, <2>4
<1>2. IInv => StuckOnlyBehindTheLoop BY <1>1 DEF StuckOnlyBehindTheLoop
<1> QED BY <1>2, Invariance, PTL

----------------------------------------------------------------------------
(* Registrations that were committed have their accounts to themselves.      *)
AloneInv ==
    \A q \in stored :
        /\ \A r \in rows : r.account = req[q].account => r.password = req[q].client
        /\ \A p \in stored \ {q} : req[p].account # req[q].account

(* A step that registers nobody.                                             *)
LEMMA NobodyRegistered ==
    ASSUME AloneInv, rows' = rows, stored' \subseteq stored, \A p \in stored' : req'[p] = req[p]
    PROVE  AloneInv'
BY DEF AloneInv

(* The commit of register takes an account that nobody has.                  *)
LEMMA InsertAlone == ASSUME IInv, AloneInv, NEW q \in Slots, Insert(q) PROVE AloneInv'
<1>1. /\ req' = req /\ Asks(q, "register") /\ at[q] = "work"
      /\ \/ /\ unique(req[q].account)
            /\ rows' = rows \union {NewRow(q)}
            /\ stored' = stored \union {q}
         \/ UNCHANGED <<rows, stored>>
  BY DEF Insert
<1>2. NewRow(q).account = req[q].account /\ NewRow(q).password = req[q].client
  BY <1>1, Registering, RowWritten DEF IInv
<1>3. CASE UNCHANGED <<rows, stored>>
  BY <1>1, <1>3, NobodyRegistered
<1>4. CASE /\ unique(req[q].account)
           /\ rows' = rows \union {NewRow(q)} /\ stored' = stored \union {q}
  <2>1. \A p \in stored : req[p].account # req[q].account
    <3>1. \A p \in stored : \E r \in rows : r.account = req[p].account
      BY DEF IInv, TypeOK, SlotInv
    <3> QED BY <1>4, <3>1 DEF unique
  <2>2. ASSUME NEW p \in stored', NEW r \in rows', r.account = req[p].account
        PROVE  r.password = req[p].client
    <3>1. CASE p = q
      BY <1>2, <1>4, <2>2, <3>1 DEF unique
    <3>2. CASE p # q
      <4>1. p \in stored /\ r # NewRow(q) BY <1>2, <1>4, <2>1, <2>2, <3>2
      <4> QED BY <1>4, <2>2, <4>1 DEF AloneInv
    <3> QED BY <3>1, <3>2
  <2>3. ASSUME NEW p \in stored', NEW n \in stored' \ {p} PROVE req[n].account # req[p].account
    BY <1>4, <2>1, <2>3 DEF AloneInv
  <2> QED BY <1>1, <2>2, <2>3 DEF AloneInv
<1> QED BY <1>1, <1>3, <1>4

(* Every step keeps it.                                                      *)
LEMMA StepAlone == IInv /\ AloneInv /\ [Next]_vars => AloneInv'
<1> SUFFICES ASSUME IInv, AloneInv, [Next]_vars PROVE AloneInv'
  OBVIOUS
<1>1. ASSUME NEW q \in Slots, End(q), rows' = rows PROVE AloneInv'
  BY <1>1, EndEffect, NobodyRegistered DEF IInv, TypeOK
<1>2. ASSUME NEW q \in Slots, Arrive(q) PROVE AloneInv'
  <2>1. /\ at[q] = "idle" /\ UNCHANGED <<rows, stored>>
        /\ \E r : req' = [req EXCEPT ![q] = r]
    BY <1>2 DEF Arrive
  <2>2. q \notin stored BY <2>1 DEF IInv, SlotInv
  <2>3. \A p \in stored' : req'[p] = req[p] BY <2>1, <2>2 DEF IInv, TypeOK
  <2> QED BY <2>1, <2>3, NobodyRegistered
<1>3. CASE UNCHANGED <<req, rows, stored>>
  BY <1>3, NobodyRegistered
<1>4. ASSUME NEW q \in Slots, TimedOut(q) \/ Serve(q) \/ Close(q) PROVE AloneInv'
  BY <1>1, <1>3, <1>4 DEF TimedOut, Serve, Close
<1>5. ASSUME NEW q \in Slots,
             Connect(q) \/ Refresh(q) \/ login(q) \/ Handle(q) \/ Run(q) \/ Respond(q)
      PROVE  AloneInv'
  BY <1>3, <1>5 DEF Connect, Refresh, login, Handle, Run, Respond
<1>6. CASE UNCHANGED vars
  BY <1>3, <1>6 DEF vars
<1> QED
  BY <1>2, <1>4, <1>5, <1>6, InsertAlone DEF Next, ThreadStep, LoopStep, register

(* What register answers is true: after a token the account is this client's *)
(* alone, and an error has its reason.                                       *)
THEOREM TrueAnswers == Spec => []AnswerIsTrue
<1>1. Init => AloneInv BY DEF Init, AloneInv
<1>2. IInv /\ AloneInv => AnswerIsTrue
  BY DEF IInv, SlotInv, AloneInv, AnswerIsTrue
<1> QED BY <1>1, <1>2, StepAlone, Invariance, PTL DEF Spec
=============================================================================
