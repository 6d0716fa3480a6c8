------------------------ MODULE OrderService_proofs -------------------------
(* Proofs about OrderService, for any number of users, tables, orders,       *)
(* sessions and concurrent requests.                                         *)
EXTENDS OrderService, TLAPS

\* What the locals c of a handler hold at its step l, beyond their types.
Creating(l, c) ==
  /\ l \in {"keyed", "checked", "noSession", "inSession", "stored"} =>
       c.user \in Users /\ c.key \in Keys /\ c.table \in Tables /\ c.o \in Orders
  /\ l \in {"keyed", "checked", "noSession"} => ~c.new
Holding(l, c) ==
  l \in {"inSession", "stored"} => c.s \in Sessions
Storing(l, c) ==
  l = "stored" => /\ c.row.status \in ActiveStatus
                  /\ c.row.user = c.user
                  /\ c.row.ses = c.s
Updating(l, c) ==
  l \in {"read", "accepting", "accepted", "locked"} =>
    /\ c.o \in Orders
    /\ Exists(c.o)
    /\ c.row.status \in Statuses
    /\ c.row.user = order[c.o].user
    /\ c.row.ses = order[c.o].ses
    /\ c.s = order[c.o].ses
Closing(l, c) ==
  l = "closing" => c.s \in Sessions /\ session[c.s].status # "NONE"
Publishing(l, c) ==
  l = "publishing" => c.cb # <<>>
Local(l, c) == /\ Creating(l, c) /\ Holding(l, c) /\ Storing(l, c)
               /\ Updating(l, c) /\ Closing(l, c) /\ Publishing(l, c)

LocalsOK == \A p \in Procs : Local(pc[p], ctx[p])

\* A committed order belongs to a user and to a committed session.
RowsOK == \A o \in Orders : Exists(o) =>
            /\ order[o].user \in Users
            /\ order[o].ses \in Sessions
            /\ session[order[o].ses].status # "NONE"

\* The rows process p is going to insert, at step l with locals c, are not
\* there yet, and no other process is going to insert them.
IsCreating(l) == l \in {"keyed", "checked", "noSession", "inSession", "stored"}
IsHolding(l) == l \in {"inSession", "stored"}
Alone(p, l, c) ==
  /\ IsCreating(l) =>
       /\ ~Exists(c.o)
       /\ \A q \in Procs \ {p} : IsCreating(pc[q]) => ctx[q].o # c.o
  /\ IsHolding(l) =>
       /\ c.new <=> session[c.s].status = "NONE"
       /\ \A q \in Procs \ {p} : IsHolding(pc[q]) => ctx[q].s # c.s
AloneOK == \A p \in Procs : Alone(p, pc[p], ctx[p])

TypeInv == TypeOK /\ RowsOK /\ LocalsOK /\ AloneOK

\* No committed row disappears or changes hands, and the only new ones are
\* those process p was creating.
RowsKept ==
  /\ \A o \in Orders : Exists(o) =>
       Exists(o)' /\ order'[o].user = order[o].user /\ order'[o].ses = order[o].ses
  /\ \A s \in Sessions : session[s].status # "NONE" =>
       session'[s].status # "NONE" /\ session'[s].table = session[s].table
NewRows(p) ==
  /\ \A o \in Orders : Exists(o)' /\ ~Exists(o) =>
       IsCreating(pc[p]) /\ o = ctx[p].o
  /\ \A s \in Sessions : session'[s].status # "NONE" /\ session[s].status = "NONE" =>
       IsHolding(pc[p]) /\ s = ctx[p].s

LEMMA NoCtxType == NoCtx \in Context
  BY DEF NoCtx, Context, NoOrder, OrderRow, PaymentStatus

LEMMA GotoEffect ==
  ASSUME TypeOK, NEW p \in Procs, NEW l \in PCs, NEW c \in Context, Goto(p, l, c)
  PROVE  /\ pc' \in [Procs -> PCs] /\ ctx' \in [Procs -> Context]
         /\ pc'[p] = l /\ ctx'[p] = c
         /\ \A q \in Procs \ {p} : pc'[q] = pc[q] /\ ctx'[q] = ctx[q]
  BY DEF Goto, TypeOK

\* One step of process p to l with locals c: what is left to show of it.
LEMMA GotoInv ==
  ASSUME TypeInv, NEW p \in Procs, NEW l \in PCs, NEW c \in Context, Goto(p, l, c),
         RowsKept, NewRows(p), RowsOK',
         order' \in [Orders -> OrderRow], session' \in [Sessions -> SessionRow],
         idem' \in [Users -> [Keys -> Orders \cup {NoVal}]], sent' \subseteq Event,
         Local(l, c)', Alone(p, l, c)'
  PROVE  TypeInv'
<1>1. /\ pc' \in [Procs -> PCs] /\ ctx' \in [Procs -> Context]
      /\ pc'[p] = l /\ ctx'[p] = c
      /\ \A q \in Procs \ {p} : pc'[q] = pc[q] /\ ctx'[q] = ctx[q]
  BY GotoEffect DEF TypeInv
<1>2. TypeOK'
  BY <1>1 DEF TypeOK
<1>3. ASSUME NEW q \in Procs \ {p} PROVE Local(pc[q], ctx[q])'
  <2>1. Local(pc[q], ctx[q])
    BY DEF TypeInv, LocalsOK
  <2>2. pc'[q] = pc[q] /\ ctx'[q] = ctx[q]
    BY <1>1
  <2> QED BY <2>1, <2>2 DEF Local, Creating, Holding, Storing, Updating, Closing, Publishing, RowsKept
<1>4. LocalsOK'
  BY <1>1, <1>3 DEF LocalsOK
<1>5. ASSUME NEW q \in Procs \ {p} PROVE Alone(q, pc[q], ctx[q])'
  <2>1. /\ Alone(q, pc[q], ctx[q]) /\ Alone(p, pc[p], ctx[p])
        /\ Local(pc[q], ctx[q])
    BY DEF TypeInv, AloneOK, LocalsOK
  <2>2. pc'[q] = pc[q] /\ ctx'[q] = ctx[q]
    BY <1>1
  <2>3. IsCreating(pc[q]) => order'[ctx[q].o].status = "NONE"
    BY <2>1 DEF Alone, Local, Creating, IsCreating, NewRows, Exists
  <2>4. IsHolding(pc[q]) => (ctx[q].new <=> session'[ctx[q].s].status = "NONE")
    BY <2>1 DEF Alone, Local, Holding, IsHolding, NewRows, RowsKept
  <2>5. /\ IsCreating(l) /\ IsCreating(pc[q]) => ctx[q].o # c.o
        /\ IsHolding(l) /\ IsHolding(pc[q]) => ctx[q].s # c.s
    BY <1>1 DEF Alone
  <2> QED BY <1>1, <2>1, <2>2, <2>3, <2>4, <2>5 DEF Alone, IsCreating, IsHolding, Exists
<1>6. AloneOK'
  BY <1>1, <1>5 DEF AloneOK
<1> QED BY <1>2, <1>4, <1>6 DEF TypeInv

\* The same for a step that commits nothing.
LEMMA GotoQuiet ==
  ASSUME TypeInv, NEW p \in Procs, NEW l \in PCs, NEW c \in Context, Goto(p, l, c),
         UNCHANGED db, idem' \in [Users -> [Keys -> Orders \cup {NoVal}]],
         sent' \subseteq Event, Local(l, c), Alone(p, l, c)
  PROVE  TypeInv' /\ RowsKept /\ NewRows(p)
<1>1. order' = order /\ session' = session
  BY DEF db
<1>2. RowsKept /\ NewRows(p) /\ RowsOK'
  BY <1>1 DEF RowsKept, NewRows, RowsOK, Exists, TypeInv
<1>3. Local(l, c)'
  BY <1>1 DEF Local, Creating, Holding, Storing, Updating, Closing, Publishing, Exists
<1>4. Alone(p, l, c)'
  BY <1>1, GotoEffect DEF Alone, Exists, TypeInv
<1>5. order' \in [Orders -> OrderRow] /\ session' \in [Sessions -> SessionRow]
  BY <1>1 DEF TypeInv, TypeOK
<1> QED BY <1>2, <1>3, <1>4, <1>5, GotoInv

\* A process that goes idle holds nothing.
LEMMA DoneQuiet ==
  ASSUME TypeInv, NEW p \in Procs, Done(p), UNCHANGED <<db, idem, sent>>
  PROVE  TypeInv' /\ RowsKept /\ NewRows(p)
<1>1. Local("idle", NoCtx) /\ Alone(p, "idle", NoCtx)
  BY DEF Local, Creating, Holding, Storing, Updating, Closing, Publishing, Alone,
         IsCreating, IsHolding
<1>2. "idle" \in PCs /\ Goto(p, "idle", NoCtx)
  BY DEF PCs, Done
<1>3. idem' \in [Users -> [Keys -> Orders \cup {NoVal}]] /\ sent' \subseteq Event
  BY DEF TypeInv, TypeOK
<1> QED BY <1>1, <1>2, <1>3, NoCtxType, GotoQuiet
------------------------------------------------------------------------------
(* The creation of an order. *)

LEMMA CreateKeyStep ==
  ASSUME TypeInv, NEW p \in Procs, NEW h \in Handlers, NEW u \in Users,
         NEW k \in Keys, NEW t \in Tables, NEW o \in Orders,
         CreateKey(p, h, u, k, t, o)
  PROVE  TypeInv' /\ RowsKept /\ NewRows(p)
<1> DEFINE c == [NoCtx EXCEPT !.op = h, !.user = u, !.key = k, !.table = t, !.o = o]
<1>1. c \in Context
  <2>1. h \in AllHandlers
    BY DEF CreateKey, AllHandlers
  <2> QED BY <2>1, NoCtxType DEF Context
<1>2. /\ Goto(p, "keyed", c) /\ "keyed" \in PCs /\ UNCHANGED <<db, idem, sent>>
      /\ FreshOrder(o)
  BY DEF CreateKey, PCs
<1>3. c.user = u /\ c.key = k /\ c.table = t /\ c.o = o /\ ~c.new
  BY DEF NoCtx
<1> HIDE DEF c
<1>4. Local("keyed", c)
  BY <1>3 DEF Local, Creating, Holding, Storing, Updating, Closing, Publishing
<1>5. Alone(p, "keyed", c)
  BY <1>2, <1>3 DEF Alone, IsCreating, IsHolding, FreshOrder
<1>6. idem' \in [Users -> [Keys -> Orders \cup {NoVal}]] /\ sent' \subseteq Event
  BY <1>2 DEF TypeInv, TypeOK
<1> QED BY <1>1, <1>2, <1>4, <1>5, <1>6, GotoQuiet

LEMMA CreateValidateStep ==
  ASSUME TypeInv, NEW p \in Procs, CreateValidate(p)
  PROVE  TypeInv' /\ RowsKept /\ NewRows(p)
<1>1. CASE Done(p)
  BY <1>1, DoneQuiet DEF CreateValidate
<1>2. CASE Goto(p, "checked", ctx[p])
  <2>1. ctx[p] \in Context /\ Local(pc[p], ctx[p]) /\ Alone(p, pc[p], ctx[p])
    BY DEF TypeInv, TypeOK, LocalsOK, AloneOK
  <2>2. pc[p] = "keyed" /\ "checked" \in PCs
    BY DEF CreateValidate, PCs
  <2>3. Local("checked", ctx[p]) /\ Alone(p, "checked", ctx[p])
    BY <2>1, <2>2 DEF Local, Creating, Holding, Storing, Updating, Closing, Publishing,
                      Alone, IsCreating, IsHolding
  <2>4. idem' \in [Users -> [Keys -> Orders \cup {NoVal}]] /\ sent' \subseteq Event
    BY DEF CreateValidate, TypeInv, TypeOK
  <2> QED BY <1>2, <2>1, <2>2, <2>3, <2>4, GotoQuiet DEF CreateValidate
<1> QED BY <1>1, <1>2 DEF CreateValidate

LEMMA CreateLockStep ==
  ASSUME TypeInv, NEW p \in Procs, CreateLock(p)
  PROVE  TypeInv' /\ RowsKept /\ NewRows(p)
<1>1. ctx[p] \in Context /\ Local(pc[p], ctx[p]) /\ Alone(p, pc[p], ctx[p])
  BY DEF TypeInv, TypeOK, LocalsOK, AloneOK
<1>2. pc[p] = "checked" /\ "noSession" \in PCs /\ "inSession" \in PCs
  BY DEF CreateLock, PCs
<1>3. idem' \in [Users -> [Keys -> Orders \cup {NoVal}]] /\ sent' \subseteq Event
  BY DEF CreateLock, TypeInv, TypeOK
<1>4. UNCHANGED <<db, idem, sent>>
  BY DEF CreateLock
<1>5. CASE Goto(p, "noSession", ctx[p])
  <2>1. Local("noSession", ctx[p]) /\ Alone(p, "noSession", ctx[p])
    BY <1>1, <1>2 DEF Local, Creating, Holding, Storing, Updating, Closing, Publishing,
                      Alone, IsCreating, IsHolding
  <2> QED BY <1>1, <1>2, <1>3, <1>4, <1>5, <2>1, GotoQuiet
<1>6. CASE Done(p)
  BY <1>4, <1>6, DoneQuiet
<1>7. ASSUME NEW s \in ActiveSessions(ctx[p].table), ~SessionLocked(s),
             Goto(p, "inSession", [ctx[p] EXCEPT !.s = s])
      PROVE  TypeInv' /\ RowsKept /\ NewRows(p)
  <2> DEFINE c == [ctx[p] EXCEPT !.s = s]
  <2>1. s \in Sessions /\ session[s].status = "ACTIVE"
    BY DEF ActiveSessions
  <2>2. /\ c \in Context /\ c.s = s /\ c.o = ctx[p].o /\ c.new = ctx[p].new
        /\ c.user = ctx[p].user /\ c.key = ctx[p].key /\ c.table = ctx[p].table
    BY <1>1, <2>1 DEF Context
  <2> HIDE DEF c
  <2>3. Local("inSession", c)
    BY <1>1, <1>2, <2>1, <2>2
       DEF Local, Creating, Holding, Storing, Updating, Closing, Publishing
  <2>4. Alone(p, "inSession", c)
    BY <1>1, <1>2, <1>7, <2>1, <2>2
       DEF Alone, IsCreating, IsHolding, SessionLocked, Local, Creating
  <2> QED BY <1>2, <1>3, <1>4, <1>7, <2>2, <2>3, <2>4, GotoQuiet DEF c
<1> QED BY <1>5, <1>6, <1>7 DEF CreateLock

LEMMA CreateSessionStep ==
  ASSUME TypeInv, NEW p \in Procs, CreateSession(p)
  PROVE  TypeInv' /\ RowsKept /\ NewRows(p)
<1>1. ctx[p] \in Context /\ Local(pc[p], ctx[p]) /\ Alone(p, pc[p], ctx[p])
  BY DEF TypeInv, TypeOK, LocalsOK, AloneOK
<1>2. pc[p] = "noSession" /\ "inSession" \in PCs /\ UNCHANGED <<db, idem, sent>>
  BY DEF CreateSession, PCs
<1>3. idem' \in [Users -> [Keys -> Orders \cup {NoVal}]] /\ sent' \subseteq Event
  BY <1>2 DEF TypeInv, TypeOK
<1>4. CASE Done(p)
  BY <1>2, <1>4, DoneQuiet
<1>5. ASSUME NEW s \in Sessions, FreshSession(s),
             Goto(p, "inSession", [ctx[p] EXCEPT !.s = s, !.new = TRUE])
      PROVE  TypeInv' /\ RowsKept /\ NewRows(p)
  <2> DEFINE c == [ctx[p] EXCEPT !.s = s, !.new = TRUE]
  <2>1. /\ c \in Context /\ c.s = s /\ c.o = ctx[p].o /\ c.new
        /\ c.user = ctx[p].user /\ c.key = ctx[p].key /\ c.table = ctx[p].table
    BY <1>1 DEF Context
  <2> HIDE DEF c
  <2>2. Local("inSession", c)
    BY <1>1, <1>2, <2>1
       DEF Local, Creating, Holding, Storing, Updating, Closing, Publishing
  <2>3. Alone(p, "inSession", c)
    BY <1>1, <1>2, <1>5, <2>1 DEF Alone, IsCreating, IsHolding, FreshSession
  <2> QED BY <1>2, <1>3, <1>5, <2>1, <2>2, <2>3, GotoQuiet DEF c
<1> QED BY <1>4, <1>5 DEF CreateSession

LEMMA CreateStoreStep ==
  ASSUME TypeInv, NEW p \in Procs, CreateStore(p)
  PROVE  TypeInv' /\ RowsKept /\ NewRows(p)
<1> DEFINE st == IF ctx[p].op = "waiter" THEN "ACCEPTED" ELSE "CREATED"
           row == [status |-> st, user |-> ctx[p].user, ses |-> ctx[p].s, pay |-> "PENDING"]
           ev == IF ctx[p].op = "waiter" THEN "placed" ELSE "created"
           cb == CreateCallbacks(ctx[p].op, ctx[p].o, ctx[p].s, ctx[p].new)
           c == [ctx[p] EXCEPT !.row = row, !.cb = cb]
<1>1. ctx[p] \in Context /\ Local(pc[p], ctx[p]) /\ Alone(p, pc[p], ctx[p])
  BY DEF TypeInv, TypeOK, LocalsOK, AloneOK
<1>2. /\ pc[p] = "inSession" /\ "stored" \in PCs /\ UNCHANGED <<db, sent>>
      /\ Goto(p, "stored", c)
      /\ idem' = [idem EXCEPT ![ctx[p].user][ctx[p].key] = ctx[p].o]
  BY DEF CreateStore, PCs
<1>3. /\ ctx[p].user \in Users /\ ctx[p].key \in Keys /\ ctx[p].table \in Tables
      /\ ctx[p].o \in Orders /\ ctx[p].s \in Sessions
  BY <1>1, <1>2 DEF Local, Creating, Holding
<1>4. idem' \in [Users -> [Keys -> Orders \cup {NoVal}]] /\ sent' \subseteq Event
  BY <1>2, <1>3 DEF TypeInv, TypeOK
<1>5. st \in ActiveStatus /\ row \in OrderRow /\ row.status = st /\ row.user = ctx[p].user
      /\ row.ses = ctx[p].s
  BY <1>3 DEF ActiveStatus, OrderRow, Statuses, PaymentStatus
<1>6. cb \in Seq(Event)
  <2>1. Ev("started", ctx[p].s) \in Event /\ Ev(ev, ctx[p].o) \in Event
    BY <1>3 DEF Ev, Event, EventTypes
  <2> QED BY <2>1 DEF CreateCallbacks
<1> HIDE DEF row, st, cb, ev
<1>7. /\ c \in Context /\ c.row = row /\ c.s = ctx[p].s /\ c.o = ctx[p].o
      /\ c.new = ctx[p].new /\ c.user = ctx[p].user /\ c.key = ctx[p].key
      /\ c.table = ctx[p].table
  BY <1>1, <1>5, <1>6 DEF Context
<1> HIDE DEF c
<1>8. Local("stored", c)
  BY <1>3, <1>5, <1>7 DEF Local, Creating, Holding, Storing, Updating, Closing, Publishing
<1>9. Alone(p, "stored", c)
  BY <1>1, <1>2, <1>7 DEF Alone, IsCreating, IsHolding
<1> QED BY <1>2, <1>4, <1>7, <1>8, <1>9, GotoQuiet

\* The callbacks of a committed transaction, when all of them are events.
LEMMA CallbacksInv ==
  ASSUME TypeInv, NEW p \in Procs, NEW cb \in Seq(Event), Callbacks(p, cb),
         RowsKept, NewRows(p), RowsOK',
         order' \in [Orders -> OrderRow], session' \in [Sessions -> SessionRow],
         idem' \in [Users -> [Keys -> Orders \cup {NoVal}]], sent' \subseteq Event
  PROVE  TypeInv'
<1> DEFINE c == [NoCtx EXCEPT !.cb = cb]
<1>1. c \in Context /\ c.cb = cb
  BY NoCtxType DEF Context, NoCtx
<1> HIDE DEF c
<1>2. CASE cb = <<>>
  <2>1. Goto(p, "idle", NoCtx) /\ "idle" \in PCs
    BY <1>2 DEF Callbacks, Done, PCs
  <2>2. Local("idle", NoCtx)' /\ Alone(p, "idle", NoCtx)'
    BY DEF Local, Creating, Holding, Storing, Updating, Closing, Publishing, Alone,
           IsCreating, IsHolding
  <2> QED BY <2>1, <2>2, NoCtxType, GotoInv
<1>3. CASE cb # <<>>
  <2>1. Goto(p, "publishing", c) /\ "publishing" \in PCs
    BY <1>3 DEF Callbacks, PCs, c
  <2>2. Local("publishing", c)' /\ Alone(p, "publishing", c)'
    BY <1>1, <1>3 DEF Local, Creating, Holding, Storing, Updating, Closing, Publishing,
           Alone, IsCreating, IsHolding
  <2> QED BY <1>1, <2>1, <2>2, GotoInv
<1> QED BY <1>2, <1>3

LEMMA CreateCommitStep ==
  ASSUME TypeInv, NEW p \in Procs, CreateCommit(p)
  PROVE  TypeInv' /\ RowsKept /\ NewRows(p)
<1>1. ctx[p] \in Context /\ Local(pc[p], ctx[p]) /\ Alone(p, pc[p], ctx[p])
  BY DEF TypeInv, TypeOK, LocalsOK, AloneOK
<1>2. /\ pc[p] = "stored" /\ UNCHANGED <<idem, sent>> /\ Callbacks(p, ctx[p].cb)
      /\ order' = [order EXCEPT ![ctx[p].o] = ctx[p].row]
      /\ session' = IF ctx[p].new
                    THEN [session EXCEPT ![ctx[p].s] = [status |-> "ACTIVE", table |-> ctx[p].table]]
                    ELSE session
  BY DEF CreateCommit
<1>3. /\ ctx[p].user \in Users /\ ctx[p].table \in Tables
      /\ ctx[p].o \in Orders /\ ctx[p].s \in Sessions
      /\ ctx[p].row.status \in ActiveStatus /\ ctx[p].row.user = ctx[p].user
      /\ ctx[p].row.ses = ctx[p].s
  BY <1>1, <1>2 DEF Local, Creating, Holding, Storing
<1>4. /\ ~Exists(ctx[p].o)
      /\ ctx[p].new <=> session[ctx[p].s].status = "NONE"
  BY <1>1, <1>2 DEF Alone, IsCreating, IsHolding
<1>5. ctx[p].row \in OrderRow /\ ctx[p].cb \in Seq(Event)
  BY <1>1 DEF Context
<1>6. /\ order' \in [Orders -> OrderRow] /\ session' \in [Sessions -> SessionRow]
      /\ idem' \in [Users -> [Keys -> Orders \cup {NoVal}]] /\ sent' \subseteq Event
  BY <1>2, <1>3, <1>5 DEF TypeInv, TypeOK, SessionRow
<1>7. RowsKept /\ NewRows(p)
  BY <1>2, <1>3, <1>4 DEF RowsKept, NewRows, Exists, IsCreating, IsHolding, TypeInv, TypeOK
<1>8. session'[ctx[p].s].status # "NONE"
  BY <1>2, <1>3, <1>4 DEF TypeInv, TypeOK
<1>9. RowsOK'
  BY <1>2, <1>3, <1>7, <1>8 DEF RowsOK, RowsKept, Exists, TypeInv, TypeOK
<1> QED BY <1>2, <1>5, <1>6, <1>7, <1>9, CallbacksInv
------------------------------------------------------------------------------
(* Status updates. *)

LEMMA ReadOrderStep ==
  ASSUME TypeInv, NEW p \in Procs, NEW h \in Handlers, NEW o \in Orders,
         NEW st \in Statuses, ReadOrder(p, h, o, st)
  PROVE  TypeInv' /\ RowsKept /\ NewRows(p)
<1> DEFINE row == [order[o] EXCEPT !.status = st]
           l == IF h = "accept" THEN "accepting" ELSE "read"
           c == [NoCtx EXCEPT !.op = h, !.o = o, !.s = order[o].ses, !.row = row]
<1>1. /\ Exists(o) /\ UNCHANGED <<db, idem, sent>> /\ Goto(p, l, c) /\ l \in PCs
      /\ h \in AllHandlers
  BY DEF ReadOrder, PCs, AllHandlers
<1>2. order[o] \in OrderRow /\ order[o].ses \in Sessions
  BY <1>1 DEF TypeInv, TypeOK, RowsOK
<1>3. row \in OrderRow /\ row.status = st /\ row.user = order[o].user /\ row.ses = order[o].ses
  BY <1>2 DEF OrderRow
<1> HIDE DEF row
<1>4. c \in Context /\ c.o = o /\ c.s = order[o].ses /\ c.row = row
  BY <1>1, <1>2, <1>3, NoCtxType DEF Context, NoCtx
<1>5. l = "accepting" \/ l = "read"
  OBVIOUS
<1> HIDE DEF c, l
<1>6. Local(l, c)
  BY <1>1, <1>3, <1>4, <1>5
     DEF Local, Creating, Holding, Storing, Updating, Closing, Publishing
<1>7. Alone(p, l, c)
  BY <1>5 DEF Alone, IsCreating, IsHolding
<1>8. idem' \in [Users -> [Keys -> Orders \cup {NoVal}]] /\ sent' \subseteq Event
  BY <1>1 DEF TypeInv, TypeOK
<1> QED BY <1>1, <1>4, <1>6, <1>7, <1>8, GotoQuiet

LEMMA AcceptPublishStep ==
  ASSUME TypeInv, NEW p \in Procs, AcceptPublish(p)
  PROVE  TypeInv' /\ RowsKept /\ NewRows(p)
<1>1. ctx[p] \in Context /\ Local(pc[p], ctx[p])
  BY DEF TypeInv, TypeOK, LocalsOK
<1>2. pc[p] = "accepting" /\ "accepted" \in PCs /\ UNCHANGED <<db, idem>>
      /\ Goto(p, "accepted", ctx[p]) /\ sent' = sent \cup {Ev("placed", ctx[p].o)}
  BY DEF AcceptPublish, PCs
<1>3. Local("accepted", ctx[p]) /\ Alone(p, "accepted", ctx[p])
  BY <1>1, <1>2 DEF Local, Creating, Holding, Storing, Updating, Closing, Publishing,
                    Alone, IsCreating, IsHolding
<1>4. Ev("placed", ctx[p].o) \in Event
  BY <1>1, <1>2 DEF Local, Updating, Ev, Event, EventTypes
<1>5. idem' \in [Users -> [Keys -> Orders \cup {NoVal}]] /\ sent' \subseteq Event
  BY <1>2, <1>4 DEF TypeInv, TypeOK
<1> QED BY <1>1, <1>2, <1>3, <1>5, GotoQuiet

\* Writing back a row as it was read keeps the rows in order.
LEMMA SaveKeeps ==
  ASSUME TypeInv, NEW p \in Procs, pc[p] \in {"accepted", "locked"},
         order' = [order EXCEPT ![ctx[p].o] = ctx[p].row],
         \/ session' = session
         \/ session' = [session EXCEPT ![ctx[p].s].status = "CLOSED"]
  PROVE  /\ RowsKept /\ NewRows(p) /\ RowsOK'
         /\ order' \in [Orders -> OrderRow] /\ session' \in [Sessions -> SessionRow]
<1>1. ctx[p] \in Context /\ Local(pc[p], ctx[p])
  BY DEF TypeInv, TypeOK, LocalsOK
<1>2. /\ ctx[p].o \in Orders /\ Exists(ctx[p].o) /\ ctx[p].row.status \in Statuses
      /\ ctx[p].row.user = order[ctx[p].o].user
      /\ ctx[p].row.ses = order[ctx[p].o].ses
      /\ ctx[p].s = order[ctx[p].o].ses
  BY <1>1 DEF Local, Updating
<1>3. order \in [Orders -> OrderRow] /\ session \in [Sessions -> SessionRow]
  BY DEF TypeInv, TypeOK
<1>4. ctx[p].s \in Sessions /\ session[ctx[p].s].status # "NONE"
  BY <1>2 DEF TypeInv, RowsOK
<1>5. order' \in [Orders -> OrderRow] /\ session' \in [Sessions -> SessionRow]
  <2>1. ctx[p].row \in OrderRow
    BY <1>1 DEF Context
  <2>2. order' \in [Orders -> OrderRow]
    BY <1>3, <2>1
  <2>3. [session[ctx[p].s] EXCEPT !.status = "CLOSED"] \in SessionRow
    BY <1>3, <1>4 DEF SessionRow
  <2>4. session' \in [Sessions -> SessionRow]
    BY <1>3, <1>4, <2>3
  <2> QED BY <2>2, <2>4
<1>6. /\ \A o \in Orders : /\ Exists(o)' <=> Exists(o)
                           /\ order'[o].user = order[o].user
                           /\ order'[o].ses = order[o].ses
      /\ \A s \in Sessions : /\ session'[s].status = "NONE" <=> session[s].status = "NONE"
                             /\ session'[s].table = session[s].table
  <2>1. "NONE" \notin Statuses
    BY DEF Statuses, ActiveStatus, TerminalStatus
  <2>2. \A s \in Sessions : /\ session'[s].status = "NONE" <=> session[s].status = "NONE"
                            /\ session'[s].table = session[s].table
    BY <1>3, <1>4 DEF SessionRow
  <2> QED BY <1>2, <1>3, <2>1, <2>2 DEF Exists
<1>7. RowsKept /\ NewRows(p)
  BY <1>6 DEF RowsKept, NewRows
<1>8. RowsOK'
  BY <1>6 DEF RowsOK, TypeInv
<1> QED BY <1>5, <1>7, <1>8

LEMMA AcceptSaveStep ==
  ASSUME TypeInv, NEW p \in Procs, AcceptSave(p)
  PROVE  TypeInv' /\ RowsKept /\ NewRows(p)
<1>1. pc[p] = "accepted" /\ order' = [order EXCEPT ![ctx[p].o] = ctx[p].row]
      /\ session' = session /\ idem' = idem /\ sent' = sent /\ Goto(p, "idle", NoCtx)
  BY DEF AcceptSave, Done
<1>2. /\ RowsKept /\ NewRows(p) /\ RowsOK'
      /\ order' \in [Orders -> OrderRow] /\ session' \in [Sessions -> SessionRow]
  BY <1>1, SaveKeeps
<1>3. Local("idle", NoCtx)' /\ Alone(p, "idle", NoCtx)' /\ "idle" \in PCs
  BY DEF Local, Creating, Holding, Storing, Updating, Closing, Publishing, Alone,
         IsCreating, IsHolding, PCs
<1>4. idem' \in [Users -> [Keys -> Orders \cup {NoVal}]] /\ sent' \subseteq Event
  BY <1>1 DEF TypeInv, TypeOK
<1> QED BY <1>1, <1>2, <1>3, <1>4, NoCtxType, GotoInv

LEMMA StatusCallbacksType ==
  ASSUME NEW h, NEW row, NEW o \in Orders, NEW close \in BOOLEAN, row.ses \in Sessions
  PROVE  StatusCallbacks(h, row, o, close) \in Seq(Event)
<1> DEFINE a == CASE row.status = "ACCEPTED"  -> <<Ev("placed", o)>>
                  [] row.status = "CANCELLED" -> <<Ev("cancelled", o)>>
                  [] OTHER                    -> <<>>
           b == IF close THEN <<Ev("closed", row.ses)>> ELSE <<>>
           d == IF h = "cancel" THEN <<Ev("cancelled", o)>> ELSE <<>>
<1>1. /\ Ev("placed", o) \in Event /\ Ev("cancelled", o) \in Event
      /\ Ev("closed", row.ses) \in Event
  BY DEF Ev, Event, EventTypes
<1>2. a \in Seq(Event)
  <2>1. CASE row.status = "ACCEPTED"
    BY <1>1, <2>1
  <2>2. CASE row.status = "CANCELLED"
    BY <1>1, <2>2
  <2>3. CASE row.status \notin {"ACCEPTED", "CANCELLED"}
    BY <2>3
  <2> QED BY <2>1, <2>2, <2>3
<1>3. b \in Seq(Event) /\ d \in Seq(Event)
  BY <1>1
<1>4. StatusCallbacks(h, row, o, close) = a \o b \o d
  BY DEF StatusCallbacks
<1> HIDE DEF a, b, d
<1> QED BY <1>2, <1>3, <1>4

LEMMA LockedStep ==
  ASSUME TypeInv, NEW p \in Procs, NEW c0 \in Context, Updating("read", c0),
         Locked(p, c0), UNCHANGED <<db, idem, sent>>
  PROVE  TypeInv' /\ RowsKept /\ NewRows(p)
<1> DEFINE close == c0.row.status \in TerminalStatus /\ LastActive(c0.row.ses, c0.o)
           cb == StatusCallbacks(c0.op, c0.row, c0.o, close)
           c == [c0 EXCEPT !.close = close, !.cb = cb]
<1>1. c0.o \in Orders /\ c0.row.ses \in Sessions /\ close \in BOOLEAN
  BY DEF Updating, TypeInv, RowsOK
<1>2. Goto(p, "locked", c) /\ "locked" \in PCs
  BY DEF Locked, PCs
<1> HIDE DEF close
<1>3. cb \in Seq(Event)
  BY <1>1, StatusCallbacksType
<1> HIDE DEF cb
<1>4. c \in Context /\ c.o = c0.o /\ c.s = c0.s /\ c.row = c0.row
  BY <1>1, <1>3 DEF Context
<1> HIDE DEF c
<1>5. Local("locked", c) /\ Alone(p, "locked", c)
  BY <1>4 DEF Local, Creating, Holding, Storing, Updating, Closing, Publishing,
              Alone, IsCreating, IsHolding
<1>6. idem' \in [Users -> [Keys -> Orders \cup {NoVal}]] /\ sent' \subseteq Event
  BY DEF TypeInv, TypeOK
<1> QED BY <1>2, <1>4, <1>5, <1>6, GotoQuiet

LEMMA SaveOrderStep ==
  ASSUME TypeInv, NEW p \in Procs, SaveOrder(p)
  PROVE  TypeInv' /\ RowsKept /\ NewRows(p)
<1>1. ctx[p] \in Context /\ Updating("read", ctx[p])
  BY DEF TypeInv, TypeOK, LocalsOK, Local, SaveOrder
<1> QED BY <1>1, LockedStep DEF SaveOrder

LEMMA KitchenEventStep ==
  ASSUME TypeInv, NEW p \in Procs, NEW o \in Orders, NEW st \in Statuses,
         KitchenEvent(p, o, st)
  PROVE  TypeInv' /\ RowsKept /\ NewRows(p)
<1> DEFINE row == [order[o] EXCEPT !.status = st]
           c == [NoCtx EXCEPT !.op = "kitchen", !.o = o, !.s = order[o].ses, !.row = row]
<1>1. Exists(o) /\ UNCHANGED <<db, idem, sent>> /\ Locked(p, c)
  BY DEF KitchenEvent
<1>2. order[o] \in OrderRow /\ order[o].ses \in Sessions
  BY <1>1 DEF TypeInv, TypeOK, RowsOK
<1>3. row \in OrderRow /\ row.status = st /\ row.user = order[o].user /\ row.ses = order[o].ses
  BY <1>2 DEF OrderRow
<1> HIDE DEF row
<1>4. c \in Context /\ c.o = o /\ c.s = order[o].ses /\ c.row = row
  BY <1>2, <1>3, NoCtxType DEF Context, NoCtx, AllHandlers
<1> HIDE DEF c
<1>5. Updating("read", c)
  BY <1>1, <1>3, <1>4 DEF Updating
<1> QED BY <1>1, <1>4, <1>5, LockedStep

LEMMA CommitStatusStep ==
  ASSUME TypeInv, NEW p \in Procs, CommitStatus(p)
  PROVE  TypeInv' /\ RowsKept /\ NewRows(p)
<1>1. pc[p] = "locked" /\ order' = [order EXCEPT ![ctx[p].o] = ctx[p].row]
      /\ \/ session' = session
         \/ session' = [session EXCEPT ![ctx[p].s].status = "CLOSED"]
      /\ idem' = idem /\ sent' = sent /\ Callbacks(p, ctx[p].cb)
  BY DEF CommitStatus
<1>2. /\ RowsKept /\ NewRows(p) /\ RowsOK'
      /\ order' \in [Orders -> OrderRow] /\ session' \in [Sessions -> SessionRow]
  BY <1>1, SaveKeeps
<1>3. ctx[p].cb \in Seq(Event)
  BY DEF TypeInv, TypeOK, Context
<1>4. idem' \in [Users -> [Keys -> Orders \cup {NoVal}]] /\ sent' \subseteq Event
  BY <1>1 DEF TypeInv, TypeOK
<1> QED BY <1>1, <1>2, <1>3, <1>4, CallbacksInv

LEMMA UpdatePaymentStep ==
  ASSUME TypeInv, NEW o \in Orders, NEW pay \in PaymentStatus, UpdatePayment(o, pay)
  PROVE  /\ TypeInv' /\ RowsKept
         /\ \A q \in Orders : (Exists(q)' => Exists(q)) /\ order'[q].status = order[q].status
<1>1. order' = [order EXCEPT ![o].pay = pay] /\ UNCHANGED <<session, idem, sent, pc, ctx>>
  BY DEF UpdatePayment
<1>2. order \in [Orders -> OrderRow]
  BY DEF TypeInv, TypeOK
<1>3. /\ order' \in [Orders -> OrderRow]
      /\ \A q \in Orders : /\ order'[q].status = order[q].status
                           /\ order'[q].user = order[q].user
                           /\ order'[q].ses = order[q].ses
  BY <1>1, <1>2 DEF OrderRow
<1>4. TypeOK' /\ RowsOK' /\ RowsKept
  BY <1>1, <1>3 DEF TypeInv, TypeOK, RowsOK, RowsKept, Exists
<1>5. LocalsOK'
  BY <1>1, <1>3 DEF TypeInv, LocalsOK, Local, Creating, Holding, Storing, Updating,
                    Closing, Publishing, Exists
<1>6. AloneOK'
  BY <1>1, <1>3 DEF TypeInv, LocalsOK, Local, Creating, AloneOK, Alone, Exists, IsCreating
<1> QED BY <1>3, <1>4, <1>5, <1>6 DEF TypeInv, Exists
------------------------------------------------------------------------------
(* Sessions closed from outside, callbacks, the cache, crashes. *)

LEMMA ReadSessionStep ==
  ASSUME TypeInv, NEW p \in Procs, NEW h \in Handlers, NEW s \in Sessions,
         ReadSession(p, h, s)
  PROVE  TypeInv' /\ RowsKept /\ NewRows(p)
<1> DEFINE c == [NoCtx EXCEPT !.op = h, !.s = s]
<1>1. /\ session[s].status = "ACTIVE" /\ UNCHANGED <<db, idem, sent>>
      /\ Goto(p, "closing", c) /\ "closing" \in PCs /\ h \in AllHandlers
  BY DEF ReadSession, PCs, AllHandlers
<1>2. c \in Context /\ c.s = s
  BY <1>1, NoCtxType DEF Context, NoCtx
<1> HIDE DEF c
<1>3. Local("closing", c) /\ Alone(p, "closing", c)
  BY <1>1, <1>2 DEF Local, Creating, Holding, Storing, Updating, Closing, Publishing,
                    Alone, IsCreating, IsHolding
<1>4. idem' \in [Users -> [Keys -> Orders \cup {NoVal}]] /\ sent' \subseteq Event
  BY <1>1 DEF TypeInv, TypeOK
<1> QED BY <1>1, <1>2, <1>3, <1>4, GotoQuiet

LEMMA CloseSessionStep ==
  ASSUME TypeInv, NEW p \in Procs, CloseSession(p)
  PROVE  TypeInv' /\ RowsKept /\ NewRows(p)
<1> DEFINE cb == <<Ev("closed", ctx[p].s)>>
<1>1. /\ pc[p] = "closing" /\ UNCHANGED <<order, idem, sent>> /\ Callbacks(p, cb)
      /\ session' = [session EXCEPT ![ctx[p].s].status = "CLOSED"]
  BY DEF CloseSession
<1>2. ctx[p].s \in Sessions /\ session[ctx[p].s].status # "NONE"
  BY <1>1 DEF TypeInv, LocalsOK, Local, Closing
<1>3. cb \in Seq(Event)
  BY <1>2 DEF Ev, Event, EventTypes
<1>4. session \in [Sessions -> SessionRow] /\ order \in [Orders -> OrderRow]
  BY DEF TypeInv, TypeOK
<1>5. /\ session' \in [Sessions -> SessionRow] /\ order' \in [Orders -> OrderRow]
      /\ \A s \in Sessions : /\ session'[s].status = "NONE" <=> session[s].status = "NONE"
                             /\ session'[s].table = session[s].table
  BY <1>1, <1>2, <1>4 DEF SessionRow
<1>6. RowsKept /\ NewRows(p) /\ RowsOK'
  BY <1>1, <1>5 DEF RowsKept, NewRows, RowsOK, TypeInv, Exists
<1>7. idem' \in [Users -> [Keys -> Orders \cup {NoVal}]] /\ sent' \subseteq Event
  BY <1>1 DEF TypeInv, TypeOK
<1> HIDE DEF cb
<1> QED BY <1>1, <1>3, <1>5, <1>6, <1>7, CallbacksInv

LEMMA PublishStep ==
  ASSUME TypeInv, NEW p \in Procs, Publish(p)
  PROVE  TypeInv' /\ RowsKept /\ NewRows(p)
<1>1. ctx[p].cb \in Seq(Event) /\ ctx[p].cb # <<>>
  BY DEF TypeInv, TypeOK, Context, LocalsOK, Local, Publishing, Publish
<1>2. Head(ctx[p].cb) \in Event /\ Tail(ctx[p].cb) \in Seq(Event)
  BY <1>1
<1>3. /\ order' = order /\ session' = session /\ idem' = idem
      /\ sent' = sent \cup {Head(ctx[p].cb)} /\ Callbacks(p, Tail(ctx[p].cb))
  BY DEF Publish, db
<1>4. RowsKept /\ NewRows(p) /\ RowsOK'
  BY <1>3 DEF RowsKept, NewRows, RowsOK, TypeInv, Exists
<1>5. /\ order' \in [Orders -> OrderRow] /\ session' \in [Sessions -> SessionRow]
      /\ idem' \in [Users -> [Keys -> Orders \cup {NoVal}]] /\ sent' \subseteq Event
  BY <1>2, <1>3 DEF TypeInv, TypeOK
<1> QED BY <1>2, <1>3, <1>4, <1>5, CallbacksInv

LEMMA ExpireKeyStep ==
  ASSUME TypeInv, NEW u \in Users, NEW k \in Keys, ExpireKey(u, k)
  PROVE  TypeInv' /\ RowsKept
<1>1. idem' = [idem EXCEPT ![u][k] = NoVal] /\ UNCHANGED <<order, session, sent, pc, ctx>>
  BY DEF ExpireKey, db
<1>2. TypeOK' /\ RowsOK' /\ RowsKept
  BY <1>1 DEF TypeInv, TypeOK, RowsOK, RowsKept, Exists
<1>3. LocalsOK' /\ AloneOK'
  BY <1>1 DEF TypeInv, LocalsOK, Local, Creating, Holding, Storing, Updating, Closing,
              Publishing, AloneOK, Alone, Exists
<1> QED BY <1>2, <1>3 DEF TypeInv
------------------------------------------------------------------------------
(* Type correctness, and who owns the rows that are being created. *)

LEMMA InitInv == Init => TypeInv
<1> SUFFICES ASSUME Init PROVE TypeInv
  OBVIOUS
<1>1. NoOrder \in OrderRow /\ NoSession \in SessionRow
  BY DEF NoOrder, OrderRow, NoSession, SessionRow, PaymentStatus
<1>2. TypeOK
  BY <1>1, NoCtxType DEF Init, TypeOK, PCs
<1>3. RowsOK /\ LocalsOK /\ AloneOK
  BY DEF Init, RowsOK, Exists, NoOrder, LocalsOK, Local, Creating, Holding, Storing,
         Updating, Closing, Publishing, AloneOK, Alone, IsCreating, IsHolding
<1> QED BY <1>2, <1>3 DEF TypeInv

\* What a process does next, by handler.
LEMMA ProcessStep ==
  ASSUME TypeInv, NEW p \in Procs, Start(p) \/ Continue(p) \/ Crash(p)
  PROVE  TypeInv' /\ RowsKept /\ NewRows(p)
<1>1. CASE \E h \in Handlers, u \in Users, k \in Keys, t \in Tables, o \in Orders :
              CreateKey(p, h, u, k, t, o)
  BY <1>1, CreateKeyStep
<1>2. CASE \E h \in Handlers, o \in Orders, st \in Statuses : ReadOrder(p, h, o, st)
  BY <1>2, ReadOrderStep
<1>3. CASE \E o \in Orders, st \in Statuses : KitchenEvent(p, o, st)
  BY <1>3, KitchenEventStep
<1>4. CASE \E h \in Handlers, s \in Sessions : ReadSession(p, h, s)
  BY <1>4, ReadSessionStep
<1>5. CASE CreateValidate(p)
  BY <1>5, CreateValidateStep
<1>6. CASE CreateLock(p)
  BY <1>6, CreateLockStep
<1>7. CASE CreateSession(p)
  BY <1>7, CreateSessionStep
<1>8. CASE CreateStore(p)
  BY <1>8, CreateStoreStep
<1>9. CASE CreateCommit(p)
  BY <1>9, CreateCommitStep
<1>10. CASE AcceptPublish(p)
  BY <1>10, AcceptPublishStep
<1>11. CASE AcceptSave(p)
  BY <1>11, AcceptSaveStep
<1>12. CASE SaveOrder(p)
  BY <1>12, SaveOrderStep
<1>13. CASE CommitStatus(p)
  BY <1>13, CommitStatusStep
<1>14. CASE CloseSession(p)
  BY <1>14, CloseSessionStep
<1>15. CASE Publish(p)
  BY <1>15, PublishStep
<1>16. CASE Crash(p)
  BY <1>16, DoneQuiet DEF Crash
<1> QED BY <1>1, <1>2, <1>3, <1>4, <1>5, <1>6, <1>7, <1>8, <1>9, <1>10, <1>11, <1>12,
           <1>13, <1>14, <1>15, <1>16 DEF Start, Continue

LEMMA StutterInv == TypeInv /\ UNCHANGED vars => TypeInv' /\ RowsKept
  BY DEF vars, TypeInv, TypeOK, RowsOK, LocalsOK, Local, Creating, Holding, Storing, Updating,
         Closing, Publishing, AloneOK, Alone, Exists, RowsKept

LEMMA NextInv == TypeInv /\ [Next]_vars => TypeInv' /\ RowsKept
  BY ProcessStep, UpdatePaymentStep, ExpireKeyStep, StutterInv DEF Next

\* The service keeps its types: in particular every order belongs to a user
\* and to a session that exists, and no two requests are about to insert the
\* same row.
THEOREM TypeCorrect == Spec => []TypeOK
<1>1. Spec => []TypeInv
  BY InitInv, NextInv, PTL DEF Spec
<1>2. TypeInv => TypeOK
  BY DEF TypeInv
<1> QED BY <1>1, <1>2, PTL
=============================================================================
