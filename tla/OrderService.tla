---------------------------- MODULE OrderService ----------------------------
(* The order service (orderService/orders): orders, table sessions, the      *)
(* idempotency cache and the requests that run on them concurrently.         *)
(*                                                                           *)
(* Three gunicorn workers, the Kafka consumers, the DLQ replay commands and  *)
(* a Celery worker share one PostgreSQL schema under READ COMMITTED.  A      *)
(* process is one request (or event, or task step) at a time: `pc' says      *)
(* between which two statements of its handler it stands and `ctx' holds its *)
(* Python locals, which may be stale.  `order' and `session' are the         *)
(* committed rows; what a transaction wrote and did not commit is in `ctx'   *)
(* only.  Row locks are not variables: a row is locked while a process       *)
(* stands at a step that holds the lock.                                     *)
(*                                                                           *)
(* Not modelled here: items, prices and totals, timestamps, the contents of  *)
(* events, and requests the code refuses before it changes anything.         *)
EXTENDS OrderLifecycle, Sequences

CONSTANTS
  Users, Tables, Keys,
  Orders,        \* public ids an order may get: bounds the orders created
  Sessions,      \* public ids a table session may get: bounds the sessions
  Procs,         \* requests that run at the same time
  Handlers,      \* the handlers in use, a subset of AllHandlers
  AdminTargets,  \* what administrators set orders to
  NoVal

AllHandlers ==
  {"customer", "waiter",           \* OrderCreateView, by role
   "cancel", "admin", "accept",    \* plain read, then update_status
   "kitchen",                      \* update_status under select_for_update
   "payment", "close", "idle",
   "expiry",                       \* a Redis key passes its TTL
   "crash"}                        \* a process dies

ASSUME HandlersAssumption ==
  /\ Handlers \subseteq AllHandlers
  /\ AdminTargets \subseteq Statuses
  /\ NoVal \notin Users \cup Tables \cup Keys \cup Orders \cup Sessions

VARIABLES
  order,    \* committed rows of orders_order
  session,  \* committed rows of orders_tablesession
  idem,     \* Redis: the order a user's idempotency key names
  sent,     \* events published to Kafka (a set: delivery is at least once)
  pc, ctx

vars == <<order, session, idem, sent, pc, ctx>>
db == <<order, session>>
------------------------------------------------------------------------------
OrderRow == [status : Statuses \cup {"NONE"}, user : Users \cup {NoVal},
             ses : Sessions \cup {NoVal}, pay : PaymentStatus]
NoOrder == [status |-> "NONE", user |-> NoVal, ses |-> NoVal, pay |-> "PENDING"]

SessionRow == [status : {"NONE", "ACTIVE", "CLOSED"}, table : Tables \cup {NoVal}]
NoSession == [status |-> "NONE", table |-> NoVal]

EventTypes == {"created", "placed", "cancelled", "started", "closed"}
Event == [type : EventTypes, id : Orders \cup Sessions]
Ev(t, i) == [type |-> t, id |-> i]

PCs == {"idle",
        "keyed", "checked", "noSession", "inSession", "stored",  \* create
        "read", "accepting", "accepted", "locked",               \* status
        "closing", "publishing"}

\* Locals of a handler.  `cb' are the on_commit callbacks, in order.
Context == [op : AllHandlers \cup {NoVal}, user : Users \cup {NoVal},
            key : Keys \cup {NoVal}, table : Tables \cup {NoVal},
            o : Orders \cup {NoVal}, row : OrderRow,
            s : Sessions \cup {NoVal}, new : BOOLEAN, close : BOOLEAN,
            cb : Seq(Event)]
NoCtx == [op |-> NoVal, user |-> NoVal, key |-> NoVal, table |-> NoVal,
          o |-> NoVal, row |-> NoOrder, s |-> NoVal, new |-> FALSE,
          close |-> FALSE, cb |-> <<>>]

Exists(o) == order[o].status # "NONE"
ActiveIn(s, o) == order[o].ses = s /\ order[o].status \in ActiveStatus
ActiveSessions(t) == {s \in Sessions : session[s].status = "ACTIVE" /\ session[s].table = t}
OthersActive(s, u) == \E o \in Orders : ActiveIn(s, o) /\ order[o].user # u

\* Row locks, and the index entry of a session row not committed yet.
OrderLocked(o) == \E p \in Procs : pc[p] = "locked" /\ ctx[p].o = o
SessionLocked(s) == \E p \in Procs : pc[p] \in {"inSession", "stored"} /\ ctx[p].s = s
TableReserved(t) ==
  \E p \in Procs : pc[p] \in {"inSession", "stored"} /\ ctx[p].new /\ ctx[p].table = t

\* A random public id nobody knows: also not a key left by a rolled-back order.
FreshOrder(o) ==
  /\ ~Exists(o)
  /\ \A p \in Procs : ctx[p].o # o
  /\ \A u \in Users, k \in Keys : idem[u][k] # o
FreshSession(s) ==
  /\ session[s].status = "NONE"
  /\ \A p \in Procs : ctx[p].s # s

Init ==
  /\ order = [o \in Orders |-> NoOrder]
  /\ session = [s \in Sessions |-> NoSession]
  /\ idem = [u \in Users |-> [k \in Keys |-> NoVal]]
  /\ sent = {}
  /\ pc = [p \in Procs |-> "idle"]
  /\ ctx = [p \in Procs |-> NoCtx]

Goto(p, l, c) == pc' = [pc EXCEPT ![p] = l] /\ ctx' = [ctx EXCEPT ![p] = c]
Done(p) == Goto(p, "idle", NoCtx)
\* The transaction has committed: run the callbacks, if any was registered.
Callbacks(p, cb) ==
  IF cb = <<>> THEN Done(p) ELSE Goto(p, "publishing", [NoCtx EXCEPT !.cb = cb])
------------------------------------------------------------------------------
(* OrderCreateView.post *)

\* Mutated form: the key is stored when the request arrives.
CreateKeyEarly(p, h, u, k, t, o) ==
  /\ pc[p] = "idle"
  /\ h \in Handlers \cap {"customer", "waiter"}
  /\ idem[u][k] = NoVal
  /\ FreshOrder(o)
  /\ idem' = [idem EXCEPT ![u][k] = o]
  /\ Goto(p, "keyed",
          [NoCtx EXCEPT !.op = h, !.user = u, !.key = k, !.table = t, !.o = o])
  /\ UNCHANGED <<db, sent>>

\* The cache has no order for the key.  (A hit answers with that order, or
\* fails when its row was never committed; neither changes anything.)  The
\* order's random id is drawn here, not at the insert, so that running out of
\* Orders stops new requests and never a started one.
CreateKey(p, h, u, k, t, o) ==
  /\ pc[p] = "idle"
  /\ h \in Handlers \cap {"customer", "waiter"}
  /\ idem[u][k] = NoVal
  /\ FreshOrder(o)
  /\ Goto(p, "keyed",
          [NoCtx EXCEPT !.op = h, !.user = u, !.key = k, !.table = t, !.o = o])
  /\ UNCHANGED <<db, idem, sent>>

\* OrderCreateSerializer.validate: the table is free, or the user's own.
CreateValidate(p) ==
  /\ pc[p] = "keyed"
  /\ IF \E s \in ActiveSessions(ctx[p].table) : OthersActive(s, ctx[p].user)
     THEN Done(p)
     ELSE Goto(p, "checked", ctx[p])
  /\ UNCHANGED <<db, idem, sent>>

\* Mutated form: the serializer's occupancy check is trusted under the lock.
CreateLockTrusting(p) ==
  LET found == ActiveSessions(ctx[p].table)
  IN /\ pc[p] = "checked"
     /\ \/ /\ found = {}
           /\ Goto(p, "noSession", ctx[p])
        \/ \E s \in found :
             /\ ~SessionLocked(s)
             /\ Goto(p, "inSession", [ctx[p] EXCEPT !.s = s])
     /\ UNCHANGED <<db, idem, sent>>

\* SELECT ... FOR UPDATE of the table's ACTIVE session, then the occupancy
\* check again.  A waiting select that finds its row closed returns nothing
\* and fails on the insert if there is a newer session: a rollback as in Crash.
CreateLock(p) ==
  LET found == ActiveSessions(ctx[p].table)
  IN /\ pc[p] = "checked"
     /\ \/ /\ found = {}
           /\ Goto(p, "noSession", ctx[p])
        \/ \E s \in found :
             /\ ~SessionLocked(s)
             /\ IF OthersActive(s, ctx[p].user)
                THEN Done(p)
                ELSE Goto(p, "inSession", [ctx[p] EXCEPT !.s = s])
     /\ UNCHANGED <<db, idem, sent>>

\* Mutated form: the unique index on ACTIVE sessions is gone.
CreateSessionUnchecked(p) ==
  /\ pc[p] = "noSession"
  /\ \E s \in Sessions : FreshSession(s) /\ Goto(p, "inSession", [ctx[p] EXCEPT !.s = s, !.new = TRUE])
  /\ UNCHANGED <<db, idem, sent>>

\* INSERT of a session under unique_active_session_per_table: it waits for
\* the other transaction that inserts one, and fails if that one committed.
CreateSession(p) ==
  LET t == ctx[p].table
  IN /\ pc[p] = "noSession"
     /\ ~TableReserved(t)
     /\ IF ActiveSessions(t) # {}
        THEN Done(p)
        ELSE \E s \in Sessions :
               /\ FreshSession(s)
               /\ Goto(p, "inSession", [ctx[p] EXCEPT !.s = s, !.new = TRUE])
     /\ UNCHANGED <<db, idem, sent>>

\* Mutated form: the status column gets the default of payment_status.
CreateStorePending(p) ==
  LET c == ctx[p]
  IN /\ pc[p] = "inSession"
     /\ idem' = [idem EXCEPT ![c.user][c.key] = c.o]
     /\ Goto(p, "stored",
          [c EXCEPT !.row = [status |-> "PENDING", user |-> c.user, ses |-> c.s,
                             pay |-> "PENDING"],
                    !.cb = <<Ev("created", c.o)>>])
     /\ UNCHANGED <<db, sent>>

\* Mutated form: the occupancy check also locks the session's active orders.
CreateStoreLocking(p) ==
  LET c == ctx[p]
  IN /\ pc[p] = "inSession"
     /\ \A o \in Orders : ActiveIn(c.s, o) => ~OrderLocked(o)
     /\ idem' = [idem EXCEPT ![c.user][c.key] = c.o]
     /\ Goto(p, "stored",
          [c EXCEPT !.row = [status |-> "CREATED", user |-> c.user, ses |-> c.s,
                             pay |-> "PENDING"],
                    !.cb = <<Ev("created", c.o)>>])
     /\ UNCHANGED <<db, sent>>

\* The callbacks a creation registers, in order: a waiter's order is placed.
CreateCallbacks(h, o, s, new) ==
  (IF new THEN <<Ev("started", s)>> ELSE <<>>)
  \o <<Ev(IF h = "waiter" THEN "placed" ELSE "created", o)>>

\* The order is inserted (and accepted, for a waiter) in the transaction; the
\* key goes to Redis at once, before the commit.
CreateStore(p) ==
  LET c == ctx[p]
  IN /\ pc[p] = "inSession"
     /\ idem' = [idem EXCEPT ![c.user][c.key] = c.o]
     /\ Goto(p, "stored",
          [c EXCEPT !.row = [status |-> IF c.op = "waiter" THEN "ACCEPTED" ELSE "CREATED",
                             user |-> c.user, ses |-> c.s, pay |-> "PENDING"],
                    !.cb = CreateCallbacks(c.op, c.o, c.s, c.new)])
     /\ UNCHANGED <<db, sent>>

CreateCommit(p) ==
  LET c == ctx[p]
  IN /\ pc[p] = "stored"
     /\ order' = [order EXCEPT ![c.o] = c.row]
     /\ session' = IF c.new
                   THEN [session EXCEPT ![c.s] = [status |-> "ACTIVE", table |-> c.table]]
                   ELSE session
     /\ Callbacks(p, c.cb)
     /\ UNCHANGED <<idem, sent>>
------------------------------------------------------------------------------
(* Order.update_status and its callers *)

\* What may be asked for, by caller.
Targets(h) == CASE h = "cancel"  -> {"CANCELLED"}
                [] h = "admin"   -> AdminTargets
                [] h = "accept"  -> {"ACCEPTED"}
                [] h = "kitchen" -> KitchenStatus

\* Mutated form: the table of moves is not consulted.
ReadOrderUnchecked(p, h, o, st) ==
  /\ pc[p] = "idle"
  /\ h \in Handlers \cap {"cancel", "admin", "accept"}
  /\ Exists(o)
  /\ st \in Targets(h)
  /\ Goto(p, IF h = "accept" THEN "accepting" ELSE "read",
          [NoCtx EXCEPT !.op = h, !.o = o, !.s = order[o].ses,
                        !.row = [order[o] EXCEPT !.status = st]])
  /\ UNCHANGED <<db, idem, sent>>

\* A view reads the row without a lock, checks the move against what it read
\* and sets the new status in memory.  A refusal answers 400 or 500.
ReadOrder(p, h, o, st) ==
  /\ pc[p] = "idle"
  /\ h \in Handlers \cap {"cancel", "admin", "accept"}
  /\ Exists(o)
  /\ h = "cancel" => order[o].status \in Cancellable
  /\ st \in Targets(h) \cap Allowed(order[o].status)
  /\ Goto(p, IF h = "accept" THEN "accepting" ELSE "read",
          [NoCtx EXCEPT !.op = h, !.o = o, !.s = order[o].ses,
                        !.row = [order[o] EXCEPT !.status = st]])
  /\ UNCHANGED <<db, idem, sent>>

\* The waiter's view opens no transaction, so on_commit runs its callback at
\* once: the kitchen hears of the order before the row is saved ...
AcceptPublish(p) ==
  /\ pc[p] = "accepting"
  /\ sent' = sent \cup {Ev("placed", ctx[p].o)}
  /\ Goto(p, "accepted", ctx[p])
  /\ UNCHANGED <<db, idem>>

\* ... and the whole row as read is then written back, in autocommit.
AcceptSave(p) ==
  LET c == ctx[p]
  IN /\ pc[p] = "accepted"
     /\ ~OrderLocked(c.o)
     /\ order' = [order EXCEPT ![c.o] = c.row]
     /\ Done(p)
     /\ UNCHANGED <<session, idem, sent>>

\* Mutated form: the query runs before save(), and so counts the order itself.
LastActiveBeforeSave(s, o) == ~\E q \in Orders : ActiveIn(s, q)

\* Mutated form: the list of statuses in progress starts at ACCEPTED.
LastActiveAccepted(s, o) ==
  ~\E q \in Orders \ {o} : ActiveIn(s, q) /\ order[q].status # "CREATED"

\* No other order of the session counts, as far as this transaction can see.
LastActive(s, o) == ~\E q \in Orders \ {o} : ActiveIn(s, q)

\* Mutated form: the closing of the session is not announced.
StatusCallbacksSilent(h, row, o, close) ==
  (CASE row.status = "ACCEPTED"  -> <<Ev("placed", o)>>
     [] row.status = "CANCELLED" -> <<Ev("cancelled", o)>>
     [] OTHER                    -> <<>>)
  \o (IF h = "cancel" THEN <<Ev("cancelled", o)>> ELSE <<>>)

\* The callbacks update_status registers, in order, then the view's own.
StatusCallbacks(h, row, o, close) ==
  (CASE row.status = "ACCEPTED"  -> <<Ev("placed", o)>>
     [] row.status = "CANCELLED" -> <<Ev("cancelled", o)>>
     [] OTHER                    -> <<>>)
  \o (IF close THEN <<Ev("closed", row.ses)>> ELSE <<>>)
  \o (IF h = "cancel" THEN <<Ev("cancelled", o)>> ELSE <<>>)

\* The rest of update_status up to the commit: the row is written, hence
\* locked, and a terminal status looks whether the session is to be closed.
Locked(p, c) ==
  LET close == c.row.status \in TerminalStatus /\ LastActive(c.row.ses, c.o)
  IN Goto(p, "locked",
          [c EXCEPT !.close = close,
                    !.cb = StatusCallbacks(c.op, c.row, c.o, close)])

\* save() writes all columns, so the row as it was read.
SaveOrder(p) ==
  /\ pc[p] = "read"
  /\ ~OrderLocked(ctx[p].o)
  /\ Locked(p, ctx[p])
  /\ UNCHANGED <<db, idem, sent>>

\* Mutated form: the kitchen consumer reads without select_for_update.
KitchenEventUnlocked(p, o, st) ==
  /\ pc[p] = "idle"
  /\ "kitchen" \in Handlers
  /\ Exists(o)
  /\ st \in KitchenStatus \cap Allowed(order[o].status)
  /\ Goto(p, "read", [NoCtx EXCEPT !.op = "kitchen", !.o = o, !.s = order[o].ses,
                                   !.row = [order[o] EXCEPT !.status = st]])
  /\ UNCHANGED <<db, idem, sent>>

\* process_event of the kitchen consumer and of the DLQ replay: the lock comes
\* first, then the check.  A repeated status is skipped and a refused one goes
\* to the DLQ; neither changes the order.
KitchenEvent(p, o, st) ==
  /\ pc[p] = "idle"
  /\ "kitchen" \in Handlers
  /\ Exists(o)
  /\ ~OrderLocked(o)
  /\ st \in Targets("kitchen") \cap Allowed(order[o].status)
  /\ Locked(p, [NoCtx EXCEPT !.op = "kitchen", !.o = o, !.s = order[o].ses,
                             !.row = [order[o] EXCEPT !.status = st]])
  /\ UNCHANGED <<db, idem, sent>>

\* Commit, with the session's row closed in the same transaction.
CommitStatus(p) ==
  LET c == ctx[p]
  IN /\ pc[p] = "locked"
     /\ c.close => ~SessionLocked(c.s)
     /\ order' = [order EXCEPT ![c.o] = c.row]
     /\ session' = IF c.close THEN [session EXCEPT ![c.s].status = "CLOSED"] ELSE session
     /\ Callbacks(p, c.cb)
     /\ UNCHANGED <<idem, sent>>

\* AdminOrderPaymentUpdateView writes the payment columns only.
UpdatePayment(o, pay) ==
  /\ "payment" \in Handlers
  /\ Exists(o)
  /\ ~OrderLocked(o)
  /\ order' = [order EXCEPT ![o].pay = pay]
  /\ UNCHANGED <<session, idem, sent, pc, ctx>>
------------------------------------------------------------------------------
(* Closing a session from outside: CloseTableSessionView, and the Celery     *)
(* task close_idle_sessions.  Nothing refreshes last_activity_at, so every   *)
(* session that lives long enough is idle to the task.                       *)

ReadSession(p, h, s) ==
  /\ pc[p] = "idle"
  /\ h \in Handlers \cap {"close", "idle"}
  /\ session[s].status = "ACTIVE"
  /\ Goto(p, "closing", [NoCtx EXCEPT !.op = h, !.s = s])
  /\ UNCHANGED <<db, idem, sent>>

\* Mutated form: the update does not wait for the lock of a creator.
CloseSessionUnlocked(p) ==
  /\ pc[p] = "closing"
  /\ session' = [session EXCEPT ![ctx[p].s].status = "CLOSED"]
  /\ Callbacks(p, <<Ev("closed", ctx[p].s)>>)
  /\ UNCHANGED <<order, idem, sent>>

CloseSession(p) ==
  /\ pc[p] = "closing"
  /\ ~SessionLocked(ctx[p].s)
  /\ session' = [session EXCEPT ![ctx[p].s].status = "CLOSED"]
  /\ Callbacks(p, <<Ev("closed", ctx[p].s)>>)
  /\ UNCHANGED <<order, idem, sent>>
------------------------------------------------------------------------------
\* One on_commit callback.
Publish(p) ==
  LET cb == ctx[p].cb
  IN /\ pc[p] = "publishing"
     /\ sent' = sent \cup {Head(cb)}
     /\ Callbacks(p, Tail(cb))
     /\ UNCHANGED <<db, idem>>

\* cache.set(..., timeout=IDEMPOTENCY_TTL)
ExpireKey(u, k) ==
  /\ "expiry" \in Handlers
  /\ idem[u][k] # NoVal
  /\ idem' = [idem EXCEPT ![u][k] = NoVal]
  /\ UNCHANGED <<db, sent, pc, ctx>>

\* The process dies: its transaction rolls back, its callbacks never run.
\* An exception in the atomic block has the same effect.
Crash(p) ==
  /\ "crash" \in Handlers
  /\ pc[p] # "idle"
  /\ Done(p)
  /\ UNCHANGED <<db, idem, sent>>

\* What a started request still has to do.
Continue(p) ==
  \/ CreateValidate(p) \/ CreateLock(p) \/ CreateSession(p) \/ CreateStore(p)
  \/ CreateCommit(p) \/ AcceptPublish(p) \/ AcceptSave(p) \/ SaveOrder(p)
  \/ CommitStatus(p) \/ CloseSession(p) \/ Publish(p)

\* A new request, event or task.
Start(p) ==
  \/ \E h \in Handlers, u \in Users, k \in Keys, t \in Tables, o \in Orders :
       CreateKey(p, h, u, k, t, o)
  \/ \E h \in Handlers, o \in Orders, st \in Statuses : ReadOrder(p, h, o, st)
  \/ \E o \in Orders, st \in Statuses : KitchenEvent(p, o, st)
  \/ \E h \in Handlers, s \in Sessions : ReadSession(p, h, s)

Next ==
  \/ \E p \in Procs : Start(p) \/ Continue(p) \/ Crash(p)
  \/ \E o \in Orders, pay \in PaymentStatus : UpdatePayment(o, pay)
  \/ \E u \in Users, k \in Keys : ExpireKey(u, k)

Spec == Init /\ [][Next]_vars

\* A worker goes on with its request, and PostgreSQL grants row locks in the
\* order they were asked for, so a step that is enabled again and again runs.
FairSpec == Spec /\ \A p \in Procs : SF_vars(Continue(p))
------------------------------------------------------------------------------
(* Properties *)

\* Types of the committed rows, the cache, the events and the locals.
TypeOK ==
  /\ order \in [Orders -> OrderRow]
  /\ session \in [Sessions -> SessionRow]
  /\ idem \in [Users -> [Keys -> Orders \cup {NoVal}]]
  /\ sent \subseteq Event
  /\ pc \in [Procs -> PCs]
  /\ ctx \in [Procs -> Context]

\* A table never has two ACTIVE sessions, whatever requests race to open one:
\* a creator inserts a session only if its select saw none, which is stale by
\* then, and relies on the unique index.
OneActiveSessionPerTable ==
  \A s1, s2 \in Sessions :
    (/\ session[s1].status = "ACTIVE"
     /\ session[s2].status = "ACTIVE"
     /\ session[s1].table = session[s2].table) => s1 = s2

\* Two users never have active orders in one session: the creator checks
\* occupancy and inserts its order under the session's lock.  It holds as long
\* as no plain-read handler writes back an active status.
OneUserPerSession ==
  \A s \in Sessions, o1, o2 \in Orders :
    ActiveIn(s, o1) /\ ActiveIn(s, o2) => order[o1].user = order[o2].user

\* An order appears only in a session that is ACTIVE at that moment: the
\* closers, which never look at the orders, wait for the creator's lock.
OrdersJoinActiveSessions ==
  [][\A o \in Orders : ~Exists(o) /\ Exists(o)' =>
       session'[order'[o].ses].status = "ACTIVE"]_vars

\* The kitchen and the notifications hear of a cancellation only if the order
\* stays out of service for good.
CancellationIsFinal ==
  \A e \in sent : e.type = "cancelled" => order[e.id].status \in TerminalStatus

\* The consumer of kitchen events moves an order along the allowed table,
\* counted from the committed row, even while stale views write that row.
KitchenMovesLegal ==
  [][\A p \in Procs : LET o == ctx[p].o IN
       /\ pc[p] = "locked" /\ ctx[p].op = "kitchen"
       /\ order'[o].status # order[o].status
       => order'[o].status \in Allowed(order[o].status)]_vars

\* Every change of a committed status follows the allowed table.
MovesLegal ==
  [][\A o \in Orders : Exists(o) /\ order'[o].status # order[o].status =>
       order'[o].status \in Allowed(order[o].status)]_vars

Quiet == \A p \in Procs : pc[p] = "idle"

\* A session is open as long as one of its orders is in progress: no order in
\* progress belongs to a closed session, and with no request under way a session
\* without orders in progress is closed, whichever handler ended the last one.
SessionsFollowOrders ==
  \A s \in Sessions :
    LET busy == \E o \in Orders : ActiveIn(s, o)
    IN /\ busy => session[s].status # "CLOSED"
       /\ Quiet /\ session[s].status = "ACTIVE" => busy

\* What a key names is an order of that user, committed or about to be.
KeysAreBacked ==
  \A u \in Users, k \in Keys : LET o == idem[u][k] IN
    o # NoVal => \/ order[o].user = u
                 \/ \E p \in Procs : pc[p] = "stored" /\ ctx[p].o = o /\ ctx[p].user = u

\* Every request that starts comes to an end: the row locks of orders and
\* sessions never leave requests waiting for each other.
RequestsEnd == \A p \in Procs : pc[p] # "idle" ~> pc[p] = "idle"

\* A session that is closed is announced, for the auth service to free the
\* table, when no process dies in between.
ClosedIsAnnounced ==
  \A s \in Sessions : session[s].status = "CLOSED" ~> Ev("closed", s) \in sent
=============================================================================
