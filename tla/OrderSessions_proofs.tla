------------------------- MODULE OrderSessions_proofs ------------------------
(* One ACTIVE session per table, no order joins a closed one, and sessions   *)
(* follow their orders when no two requests work on one.                     *)
EXTENDS OrderMoves_proofs

\* What process p knows at step l, with locals c, about the session it holds.
HoldOK(l, c) ==
  IsHolding(l) =>
    IF c.new
    THEN \A s \in Sessions : session[s].status = "ACTIVE" => session[s].table # c.table
    ELSE session[c.s].status = "ACTIVE" /\ session[c.s].table = c.table

\* Two transactions never hold new sessions of one table: the unique index.
TablesApart ==
  \A p, q \in Procs :
    /\ p # q /\ IsHolding(pc[p]) /\ IsHolding(pc[q])
    /\ ctx[p].new /\ ctx[q].new
    => ctx[p].table # ctx[q].table

TableInv == /\ OneActiveSessionPerTable
            /\ \A p \in Procs : HoldOK(pc[p], ctx[p])
            /\ TablesApart

\* Nobody takes hold of a session, and at most one that nobody holds closes.
LEMMA TableKept ==
  ASSUME TypeInv, TableInv,
         \A q \in Procs : IsHolding(pc'[q]) =>
           /\ IsHolding(pc[q]) /\ ctx'[q].s = ctx[q].s
           /\ ctx'[q].new = ctx[q].new /\ ctx'[q].table = ctx[q].table,
         \/ session' = session
         \/ \E s \in Sessions : ~SessionLocked(s) /\ session' = [session EXCEPT ![s].status = "CLOSED"]
  PROVE  TableInv'
<1>1. session \in [Sessions -> SessionRow]
  BY DEF TypeInv, TypeOK
<1>2. \A s \in Sessions : /\ session'[s].table = session[s].table
                          /\ session'[s].status = "ACTIVE" => session[s].status = "ACTIVE"
  BY <1>1 DEF SessionRow
<1>3. \A q \in Procs : IsHolding(pc[q]) =>
        ctx[q].s \in Sessions /\ session'[ctx[q].s].status = session[ctx[q].s].status
  BY <1>1 DEF TypeInv, LocalsOK, Local, Holding, IsHolding, SessionLocked, SessionRow
<1>4. OneActiveSessionPerTable'
  BY <1>2 DEF TableInv, OneActiveSessionPerTable
<1>5. ASSUME NEW q \in Procs PROVE HoldOK(pc[q], ctx[q])'
  BY <1>2, <1>3 DEF TableInv, HoldOK
<1>6. TablesApart'
  BY DEF TableInv, TablesApart
<1> QED BY <1>4, <1>5, <1>6 DEF TableInv

\* A process goes where it holds no session.
LEMMA TableGoto ==
  ASSUME TypeInv, TableInv, NEW p \in Procs, NEW l \in PCs, NEW c \in Context,
         Goto(p, l, c), ~IsHolding(l),
         \/ session' = session
         \/ \E s \in Sessions : ~SessionLocked(s) /\ session' = [session EXCEPT ![s].status = "CLOSED"]
  PROVE  TableInv'
  BY TableKept, GotoEffect DEF TypeInv

LEMMA TableCallbacks ==
  ASSUME TypeInv, TableInv, NEW p \in Procs, NEW cb \in Seq(Event), Callbacks(p, cb),
         \/ session' = session
         \/ \E s \in Sessions : ~SessionLocked(s) /\ session' = [session EXCEPT ![s].status = "CLOSED"]
  PROVE  TableInv'
<1>1. [NoCtx EXCEPT !.cb = cb] \in Context
  BY NoCtxType DEF Context, NoCtx
<1>2. "idle" \in PCs /\ "publishing" \in PCs /\ ~IsHolding("idle") /\ ~IsHolding("publishing")
  BY DEF PCs, IsHolding
<1>3. Goto(p, "idle", NoCtx) \/ Goto(p, "publishing", [NoCtx EXCEPT !.cb = cb])
  BY DEF Callbacks, Done
<1> QED BY <1>1, <1>2, <1>3, NoCtxType, TableGoto

LEMMA TableDone ==
  ASSUME TypeInv, TableInv, NEW p \in Procs, Done(p), session' = session
  PROVE  TableInv'
  BY NoCtxType, TableGoto DEF Done, PCs, IsHolding

LEMMA TableCreateLock ==
  ASSUME TypeInv, TableInv, NEW p \in Procs, CreateLock(p)
  PROVE  TableInv'
<1>1. ctx[p] \in Context /\ pc[p] = "checked" /\ session' = session
  BY DEF TypeInv, TypeOK, CreateLock, db
<1>2. ASSUME NEW s \in ActiveSessions(ctx[p].table), ~SessionLocked(s),
             Goto(p, "inSession", [ctx[p] EXCEPT !.s = s])
      PROVE  TableInv'
  <2> DEFINE c == [ctx[p] EXCEPT !.s = s]
  <2>1. s \in Sessions /\ session[s].status = "ACTIVE" /\ session[s].table = ctx[p].table
    BY DEF ActiveSessions
  <2>2. /\ c \in Context /\ c.s = s /\ c.table = ctx[p].table /\ c.new = ctx[p].new
    BY <1>1, <2>1 DEF Context
  <2>3. ~c.new
    BY <1>1, <2>2 DEF TypeInv, LocalsOK, Local, Creating
  <2> HIDE DEF c
  <2>4. /\ pc'[p] = "inSession" /\ ctx'[p] = c
        /\ \A q \in Procs \ {p} : pc'[q] = pc[q] /\ ctx'[q] = ctx[q]
    BY <1>2, <2>2, GotoEffect DEF TypeInv, PCs, c
  <2>5. OneActiveSessionPerTable'
    BY <1>1 DEF TableInv, OneActiveSessionPerTable
  <2>6. ASSUME NEW q \in Procs PROVE HoldOK(pc[q], ctx[q])'
    BY <1>1, <2>1, <2>2, <2>3, <2>4 DEF TableInv, HoldOK
  <2>7. TablesApart'
    BY <2>3, <2>4 DEF TableInv, TablesApart
  <2> QED BY <2>5, <2>6, <2>7 DEF TableInv
<1>3. CASE Goto(p, "noSession", ctx[p])
  BY <1>1, <1>3, TableGoto DEF PCs, IsHolding
<1>4. CASE Done(p)
  BY <1>1, <1>4, TableDone
<1> QED BY <1>2, <1>3, <1>4 DEF CreateLock

LEMMA TableCreateSession ==
  ASSUME TypeInv, TableInv, NEW p \in Procs, CreateSession(p)
  PROVE  TableInv'
<1>1. ctx[p] \in Context /\ pc[p] = "noSession" /\ session' = session
      /\ ~TableReserved(ctx[p].table)
  BY DEF TypeInv, TypeOK, CreateSession, db
<1>2. ASSUME ActiveSessions(ctx[p].table) = {}, NEW s \in Sessions, FreshSession(s),
             Goto(p, "inSession", [ctx[p] EXCEPT !.s = s, !.new = TRUE])
      PROVE  TableInv'
  <2> DEFINE c == [ctx[p] EXCEPT !.s = s, !.new = TRUE]
  <2>1. \A x \in Sessions : session[x].status = "ACTIVE" => session[x].table # ctx[p].table
    BY <1>2 DEF ActiveSessions
  <2>2. c \in Context /\ c.s = s /\ c.table = ctx[p].table /\ c.new
    BY <1>1 DEF Context
  <2> HIDE DEF c
  <2>3. /\ pc'[p] = "inSession" /\ ctx'[p] = c
        /\ \A q \in Procs \ {p} : pc'[q] = pc[q] /\ ctx'[q] = ctx[q]
    BY <1>2, <2>2, GotoEffect DEF TypeInv, PCs, c
  <2>4. OneActiveSessionPerTable'
    BY <1>1 DEF TableInv, OneActiveSessionPerTable
  <2>5. ASSUME NEW q \in Procs PROVE HoldOK(pc[q], ctx[q])'
    BY <1>1, <2>1, <2>2, <2>3 DEF TableInv, HoldOK
  <2>6. TablesApart'
    BY <1>1, <2>2, <2>3 DEF TableInv, TablesApart, TableReserved, IsHolding
  <2> QED BY <2>4, <2>5, <2>6 DEF TableInv
<1>3. CASE Done(p)
  BY <1>1, <1>3, TableDone
<1> QED BY <1>2, <1>3 DEF CreateSession

LEMMA TableCreateStore ==
  ASSUME TypeInv, TableInv, NEW p \in Procs, CreateStore(p)
  PROVE  TableInv'
<1>1. ctx[p] \in Context /\ pc[p] = "inSession" /\ session' = session
  BY DEF TypeInv, TypeOK, CreateStore, db
<1>2. /\ ctx'[p].s = ctx[p].s /\ ctx'[p].new = ctx[p].new /\ ctx'[p].table = ctx[p].table
      /\ \A q \in Procs \ {p} : pc'[q] = pc[q] /\ ctx'[q] = ctx[q]
  BY <1>1 DEF CreateStore, Goto, TypeInv, TypeOK, Context
<1> QED BY <1>1, <1>2, TableKept DEF IsHolding

LEMMA TableCreateCommit ==
  ASSUME TypeInv, TableInv, NEW p \in Procs, CreateCommit(p)
  PROVE  TableInv'
<1> DEFINE s == ctx[p].s
           t == ctx[p].table
<1>1. /\ pc[p] = "stored" /\ Callbacks(p, ctx[p].cb) /\ ctx[p] \in Context
      /\ session' = IF ctx[p].new
                    THEN [session EXCEPT ![s] = [status |-> "ACTIVE", table |-> t]]
                    ELSE session
  BY DEF CreateCommit, TypeInv, TypeOK
<1>2. ctx[p].cb \in Seq(Event) /\ s \in Sessions
  BY <1>1 DEF Context, TypeInv, LocalsOK, Local, Holding
<1>3. CASE ~ctx[p].new
  BY <1>1, <1>2, <1>3, TableCallbacks
<1>4. CASE ctx[p].new
  <2>1. /\ ~IsHolding(pc'[p])
        /\ \A q \in Procs \ {p} : pc'[q] = pc[q] /\ ctx'[q] = ctx[q]
    BY <1>1 DEF Callbacks, Done, Goto, TypeInv, TypeOK, IsHolding
  <2>2. session' = [session EXCEPT ![s] = [status |-> "ACTIVE", table |-> t]]
    BY <1>1, <1>4
  <2>3. /\ session'[s].status = "ACTIVE" /\ session'[s].table = t
        /\ \A x \in Sessions \ {s} : session'[x] = session[x]
    BY <1>2, <2>2 DEF TypeInv, TypeOK
  <2>4. \A x \in Sessions : session[x].status = "ACTIVE" => session[x].table # t
    BY <1>1, <1>4 DEF TableInv, HoldOK, IsHolding
  <2>5. OneActiveSessionPerTable'
    BY <2>3, <2>4 DEF TableInv, OneActiveSessionPerTable
  <2>6. ASSUME NEW q \in Procs PROVE HoldOK(pc[q], ctx[q])'
    <3>1. CASE q = p
      BY <2>1, <3>1 DEF HoldOK
    <3>2. CASE q # p
      <4>1. HoldOK(pc[q], ctx[q]) /\ pc'[q] = pc[q] /\ ctx'[q] = ctx[q]
        BY <2>1, <3>2 DEF TableInv
      <4>2. IsHolding(pc[q]) => ctx[q].s # s /\ ctx[q].s \in Sessions
        BY <1>1, <3>2 DEF TypeInv, AloneOK, Alone, LocalsOK, Local, Holding, IsHolding
      <4>3. IsHolding(pc[q]) /\ ctx[q].new => ctx[q].table # t
        BY <1>1, <1>4, <3>2 DEF TableInv, TablesApart, IsHolding
      <4> QED BY <2>3, <4>1, <4>2, <4>3 DEF HoldOK
    <3> QED BY <3>1, <3>2
  <2>7. TablesApart'
    BY <2>1 DEF TableInv, TablesApart
  <2> QED BY <2>5, <2>6, <2>7 DEF TableInv
<1> QED BY <1>3, <1>4

\* The status updates and the closers: sessions close under no one's hold.
LEMMA TableStep ==
  ASSUME TypeInv, TableInv, NEW p \in Procs, Start(p) \/ Continue(p) \/ Crash(p)
  PROVE  TableInv'
<1>1. ASSUME NEW h \in Handlers, NEW u \in Users, NEW k \in Keys, NEW t \in Tables,
             NEW o \in Orders, CreateKey(p, h, u, k, t, o)
      PROVE  TableInv'
  <2>1. pc'[p] = "keyed" /\ \A q \in Procs \ {p} : pc'[q] = pc[q] /\ ctx'[q] = ctx[q]
    BY <1>1 DEF CreateKey, Goto, TypeInv, TypeOK
  <2> QED BY <1>1, <2>1, TableKept DEF CreateKey, db, IsHolding
<1>2. ASSUME NEW h \in Handlers, NEW o \in Orders, NEW st \in Statuses, ReadOrder(p, h, o, st)
      PROVE  TableInv'
  <2>1. /\ pc'[p] \in {"accepting", "read"}
        /\ \A q \in Procs \ {p} : pc'[q] = pc[q] /\ ctx'[q] = ctx[q]
    BY <1>2 DEF ReadOrder, Goto, TypeInv, TypeOK
  <2> QED BY <1>2, <2>1, TableKept DEF ReadOrder, db, IsHolding
<1>3. ASSUME NEW c, Locked(p, c), session' = session
      PROVE  TableInv'
  <2>1. pc'[p] = "locked" /\ \A q \in Procs \ {p} : pc'[q] = pc[q] /\ ctx'[q] = ctx[q]
    BY <1>3 DEF Locked, Goto, TypeInv, TypeOK
  <2> QED BY <1>3, <2>1, TableKept DEF IsHolding
<1>4. ASSUME NEW o \in Orders, NEW st \in Statuses, KitchenEvent(p, o, st)
      PROVE  TableInv'
  BY <1>3, <1>4 DEF KitchenEvent, db
<1>5. ASSUME NEW h \in Handlers, NEW s \in Sessions, ReadSession(p, h, s)
      PROVE  TableInv'
  <2>1. pc'[p] = "closing" /\ \A q \in Procs \ {p} : pc'[q] = pc[q] /\ ctx'[q] = ctx[q]
    BY <1>5 DEF ReadSession, Goto, TypeInv, TypeOK
  <2> QED BY <1>5, <2>1, TableKept DEF ReadSession, db, IsHolding
<1>6. CASE CreateValidate(p)
  <2>1. CASE Goto(p, "checked", ctx[p])
    BY <1>6, <2>1, TableGoto DEF CreateValidate, db, IsHolding, PCs, TypeInv, TypeOK
  <2> QED BY <1>6, <2>1, TableDone DEF CreateValidate, db
<1>7. CASE AcceptPublish(p)
  BY <1>7, TableGoto DEF AcceptPublish, db, IsHolding, PCs, TypeInv, TypeOK
<1>8. CASE AcceptSave(p)
  BY <1>8, TableDone DEF AcceptSave
<1>9. CASE SaveOrder(p)
  BY <1>3, <1>9 DEF SaveOrder, db
<1>10. CASE CommitStatus(p)
  <2>1. ctx[p].cb \in Seq(Event)
    BY DEF TypeInv, TypeOK, Context
  <2>2. ctx[p].s \in Sessions
    BY <1>10 DEF CommitStatus, TypeInv, LocalsOK, Local, Updating, RowsOK
  <2> QED BY <1>10, <2>1, <2>2, TableCallbacks DEF CommitStatus
<1>11. CASE CloseSession(p)
  <2>1. ctx[p].s \in Sessions
    BY <1>11 DEF CloseSession, TypeInv, LocalsOK, Local, Closing
  <2>2. <<Ev("closed", ctx[p].s)>> \in Seq(Event)
    BY <2>1 DEF Ev, Event, EventTypes
  <2> QED BY <1>11, <2>1, <2>2, TableCallbacks DEF CloseSession
<1>12. CASE Publish(p)
  <2>1. Tail(ctx[p].cb) \in Seq(Event)
    BY <1>12 DEF Publish, TypeInv, TypeOK, Context, LocalsOK, Local, Publishing
  <2> QED BY <1>12, <2>1, TableCallbacks DEF Publish, db
<1>13. CASE Crash(p)
  BY <1>13, TableDone DEF Crash, db
<1> QED BY <1>1, <1>2, <1>4, <1>5, <1>6, <1>7, <1>8, <1>9, <1>10, <1>11, <1>12, <1>13,
           TableCreateLock, TableCreateSession, TableCreateStore, TableCreateCommit
        DEF Start, Continue

LEMMA TableInit == Init => TableInv
  BY DEF Init, TableInv, OneActiveSessionPerTable, NoSession, HoldOK, IsHolding, TablesApart

LEMMA TableNext == TypeInv /\ TableInv /\ [Next]_vars => TableInv'
<1> SUFFICES ASSUME TypeInv, TableInv, [Next]_vars PROVE TableInv'
  OBVIOUS
<1>1. ASSUME session' = session, pc' = pc, ctx' = ctx PROVE TableInv'
  BY <1>1, TableKept
<1> QED BY <1>1, TableStep DEF Next, UpdatePayment, ExpireKey, db, vars

\* However many requests race to open a session, a table has one ACTIVE
\* session at most.
THEOREM SessionsUnique == Spec => []OneActiveSessionPerTable
<1>1. TableInv => OneActiveSessionPerTable
  BY DEF TableInv
<1>2. Init => TypeInv /\ TableInv
  BY InitInv, TableInit
<1>3. TypeInv /\ TableInv /\ [Next]_vars => (TypeInv /\ TableInv)'
  BY NextInv, TableNext
<1> QED BY <1>1, <1>2, <1>3, PTL DEF Spec

\* A new order is the work of CreateCommit, whose session is ACTIVE.
LEMMA JoinStep ==
  ASSUME TypeInv, TableInv, [Next]_vars, NEW o \in Orders, ~Exists(o), Exists(o)'
  PROVE  session'[order'[o].ses].status = "ACTIVE"
<1>1. ~UNCHANGED order
  BY DEF Exists
<1>2. PICK p \in Procs : Start(p) \/ Continue(p) \/ Crash(p)
  BY <1>1, UpdatePaymentStep DEF Next, vars, ExpireKey, db
<1>3. IsCreating(pc[p]) /\ o = ctx[p].o
  BY <1>2, ProcessStep DEF NewRows
<1>4. CreateCommit(p)
  BY <1>1, <1>2, <1>3
     DEF Start, Continue, CreateKey, ReadOrder, KitchenEvent, ReadSession, CreateValidate,
         CreateLock, CreateSession, CreateStore, AcceptPublish, AcceptSave, SaveOrder,
         CommitStatus, CloseSession, Publish, Crash, db, IsCreating
<1>5. /\ pc[p] = "stored" /\ ctx[p].s \in Sessions /\ ctx[p].row.ses = ctx[p].s
      /\ HoldOK(pc[p], ctx[p])
  BY <1>4 DEF CreateCommit, TypeInv, LocalsOK, Local, Holding, Storing, TableInv
<1>6. order'[o].ses = ctx[p].s
  BY <1>3, <1>4, <1>5 DEF CreateCommit, TypeInv, TypeOK
<1>7. session'[ctx[p].s].status = "ACTIVE"
  BY <1>4, <1>5 DEF CreateCommit, HoldOK, IsHolding, TypeInv, TypeOK
<1> QED BY <1>6, <1>7

\* An order is only ever inserted into a session that is ACTIVE when the
\* insertion commits, although those who close sessions do not look at orders.
THEOREM JoinsActive == Spec => OrdersJoinActiveSessions
<1>1. TypeInv /\ TableInv /\ [Next]_vars =>
        [\A o \in Orders : ~Exists(o) /\ Exists(o)' =>
           session'[order'[o].ses].status = "ACTIVE"]_vars
  BY JoinStep
<1>2. Init => TypeInv /\ TableInv
  BY InitInv, TableInit
<1>3. TypeInv /\ TableInv /\ [Next]_vars => (TypeInv /\ TableInv)'
  BY NextInv, TableNext
<1> QED BY <1>1, <1>2, <1>3, PTL DEF Spec, OrdersJoinActiveSessions
------------------------------------------------------------------------------
(* Sessions follow their orders, when nothing but update_status closes them  *)
(* and no two requests work on one session at a time.                        *)

NoClosers == Handlers \cap {"close", "idle"} = {}

IsWorking(l) == IsUpdating(l) \/ IsHolding(l)

SerialSessions ==
  \A p, q \in Procs :
    p # q /\ IsWorking(pc[p]) /\ IsWorking(pc[q]) => ctx[p].s # ctx[q].s

\* What a status update decided about its session is still true.
CloseOK(l, c) ==
  /\ l \in {"accepting", "accepted"} => c.row.status = "ACCEPTED"
  /\ l = "locked" =>
       (c.close <=> c.row.status \in TerminalStatus /\ LastActive(c.s, c.o))

Busy(s) == \E o \in Orders : ActiveIn(s, o)

FollowInv ==
  /\ \A s \in Sessions : Busy(s) <=> session[s].status = "ACTIVE"
  /\ \A p \in Procs : CloseOK(pc[p], ctx[p])

LEMMA SerialImplied == TypeInv /\ SerialSessions => SerialUpdates
<1> SUFFICES ASSUME TypeInv, SerialSessions, NEW p \in Procs, NEW q \in Procs, p # q,
                    IsUpdating(pc[p]), IsUpdating(pc[q])
             PROVE  ctx[p].o # ctx[q].o
  BY DEF SerialUpdates
<1>1. ctx[p].s = order[ctx[p].o].ses /\ ctx[q].s = order[ctx[q].o].ses
  BY DEF TypeInv, LocalsOK, Local, Updating, IsUpdating
<1>2. ctx[p].s # ctx[q].s
  BY DEF SerialSessions, IsWorking
<1> QED BY <1>1, <1>2

\* No process ever stands at the step of a closer.
NoneCloses == \A p \in Procs : pc[p] # "closing"

LEMMA NoneClosesStep ==
  ASSUME NoClosers, TypeInv, NoneCloses, NEW p \in Procs, Start(p) \/ Continue(p) \/ Crash(p)
  PROVE  NoneCloses' /\ ~CloseSession(p)
<1>1. ~CloseSession(p)
  BY DEF CloseSession, NoneCloses
<1>2. \A h \in Handlers, s \in Sessions : ~ReadSession(p, h, s)
  BY DEF ReadSession, NoClosers
<1>3. ASSUME NEW l, NEW c, Goto(p, l, c), l # "closing" PROVE NoneCloses'
  BY <1>3, GotoAt DEF NoneCloses
<1>4. ASSUME Done(p) PROVE NoneCloses'
  BY <1>3, <1>4 DEF Done
<1>5. ASSUME NEW cb, Callbacks(p, cb) PROVE NoneCloses'
  BY <1>3, <1>4, <1>5 DEF Callbacks
<1>6. ASSUME NEW c, Locked(p, c) PROVE NoneCloses'
  BY <1>3, <1>6 DEF Locked
<1>7. ASSUME NEW h, NEW o, NEW st, ReadOrder(p, h, o, st) PROVE NoneCloses'
  BY <1>3, <1>7 DEF ReadOrder
<1>8. ASSUME NEW o, NEW st, KitchenEvent(p, o, st) PROVE NoneCloses'
  BY <1>6, <1>8 DEF KitchenEvent
<1>9. ASSUME NEW h, NEW u, NEW k, NEW t, NEW o, CreateKey(p, h, u, k, t, o) PROVE NoneCloses'
  BY <1>3, <1>9 DEF CreateKey
<1>10. ASSUME NEW s, Goto(p, "inSession", [ctx[p] EXCEPT !.s = s]) PROVE NoneCloses'
  BY <1>3, <1>10
<1>11. ASSUME NEW s, Goto(p, "inSession", [ctx[p] EXCEPT !.s = s, !.new = TRUE])
       PROVE  NoneCloses'
  BY <1>3, <1>11
<1>12. CASE CreateLock(p) \/ CreateSession(p)
  <2>1. Goto(p, "noSession", ctx[p]) => NoneCloses'
    BY <1>3
  <2> QED BY <1>1, <1>4, <1>10, <1>11, <1>12, <2>1 DEF CreateLock, CreateSession
<1>13. CASE CreateStore(p)
  BY <1>1, <1>3, <1>13 DEF CreateStore
<1>14. CASE CreateValidate(p) \/ AcceptPublish(p)
  BY <1>1, <1>3, <1>4, <1>14 DEF CreateValidate, AcceptPublish
<1>15. CASE SaveOrder(p) \/ AcceptSave(p) \/ Crash(p)
  BY <1>1, <1>4, <1>6, <1>15 DEF SaveOrder, AcceptSave, Crash
<1>16. CASE CreateCommit(p) \/ CommitStatus(p) \/ Publish(p)
  BY <1>1, <1>5, <1>16 DEF CreateCommit, CommitStatus, Publish
<1>17. CASE Start(p)
  BY <1>1, <1>2, <1>7, <1>8, <1>9, <1>17 DEF Start
<1> QED BY <1>1, <1>12, <1>13, <1>14, <1>15, <1>16, <1>17 DEF Continue

\* A step of p that changes one session and its orders at most, p's own.
LEMMA FollowElsewhere ==
  ASSUME TypeInv, SerialSessions, FollowInv, NEW p \in Procs, IsWorking(pc[p]),
         NEW x \in Sessions, ctx[p].s = x,
         \A q \in Procs \ {p} : pc'[q] = pc[q] /\ ctx'[q] = ctx[q],
         pc'[p] \in {"idle", "publishing"},
         \A s \in Sessions \ {x} :
           /\ \A o \in Orders : ActiveIn(s, o)' <=> ActiveIn(s, o)
           /\ session'[s].status = "ACTIVE" <=> session[s].status = "ACTIVE",
         Busy(x)' <=> session'[x].status = "ACTIVE"
  PROVE  FollowInv'
<1>1. ASSUME NEW s \in Sessions, s # x
      PROVE  Busy(s)' <=> session'[s].status = "ACTIVE"
  <2>1. Busy(s)' <=> Busy(s)
    BY <1>1 DEF Busy
  <2> QED BY <1>1, <2>1 DEF FollowInv
<1>2. \A s \in Sessions : Busy(s)' <=> session'[s].status = "ACTIVE"
  BY <1>1
<1>4. ASSUME NEW q \in Procs \ {p} PROVE CloseOK(pc[q], ctx[q])'
  <2>1. CloseOK(pc[q], ctx[q]) /\ pc'[q] = pc[q] /\ ctx'[q] = ctx[q]
    BY DEF FollowInv
  <2>2. CASE pc[q] = "locked"
    <3>1. ctx[q].s \in Sessions /\ ctx[q].s # x
      BY <2>2 DEF SerialSessions, IsWorking, IsUpdating, TypeInv, LocalsOK, Local, Updating,
                  RowsOK
    <3>2. PICK s \in Sessions : s = ctx[q].s
      BY <3>1
    <3>3. \A o \in Orders : ActiveIn(s, o)' <=> ActiveIn(s, o)
      BY <3>1, <3>2
    <3>4. LastActive(s, ctx[q].o) <=> LastActive(ctx[q].s, ctx[q].o)
      BY <3>2
    <3>5. PICK o : o = ctx[q].o
      OBVIOUS
    <3>6. LastActive(s, o)' <=> LastActive(s, o)
      BY <3>3 DEF LastActive
    <3>7. LastActive(ctx[q].s, ctx[q].o)' <=> LastActive(s, o)'
      BY <2>1, <3>2, <3>5 DEF LastActive, ActiveIn
    <3> QED BY <2>1, <2>2, <3>2, <3>5, <3>6, <3>7 DEF CloseOK
  <2>3. CASE pc[q] # "locked"
    BY <2>1, <2>3 DEF CloseOK
  <2> QED BY <2>2, <2>3
<1>5. CloseOK(pc[p], ctx[p])'
  BY DEF CloseOK
<1> QED BY <1>2, <1>4, <1>5 DEF FollowInv

LEMMA FollowCreate ==
  ASSUME TypeInv, TableInv, SerialSessions, FollowInv, NEW p \in Procs, CreateCommit(p)
  PROVE  FollowInv'
<1> DEFINE c == ctx[p]
<1>1. /\ pc[p] = "stored" /\ order' = [order EXCEPT ![c.o] = c.row] /\ Callbacks(p, c.cb)
      /\ session' = IF c.new
                    THEN [session EXCEPT ![c.s] = [status |-> "ACTIVE", table |-> c.table]]
                    ELSE session
      /\ c.o \in Orders /\ c.s \in Sessions /\ ~Exists(c.o)
      /\ c.row.ses = c.s /\ c.row.status \in ActiveStatus
      /\ HoldOK(pc[p], c)
  BY DEF CreateCommit, TypeInv, LocalsOK, Local, Creating, Holding, Storing, AloneOK, Alone,
         IsCreating, TableInv
<1>2. /\ \A q \in Procs \ {p} : pc'[q] = pc[q] /\ ctx'[q] = ctx[q]
      /\ pc'[p] \in {"idle", "publishing"}
  BY <1>1, CallbacksAt
<1> HIDE DEF c
<1>3. order'[c.o] = c.row /\ \A o \in Orders \ {c.o} : order'[o] = order[o]
  BY <1>1 DEF TypeInv, TypeOK
<1>4. session'[c.s].status = "ACTIVE" /\ \A s \in Sessions \ {c.s} : session'[s] = session[s]
  BY <1>1 DEF TypeInv, TypeOK, HoldOK, IsHolding
<1>5. \A s \in Sessions \ {c.s} :
        /\ \A o \in Orders : ActiveIn(s, o)' <=> ActiveIn(s, o)
        /\ session'[s].status = "ACTIVE" <=> session[s].status = "ACTIVE"
  BY <1>1, <1>3, <1>4 DEF ActiveIn, Exists, ActiveStatus
<1>6. order'[c.o].ses = c.s /\ order'[c.o].status \in ActiveStatus
  BY <1>1, <1>3
<1>7. PICK x \in Sessions : x = c.s
  BY <1>1
<1>8. Busy(x)'
  BY <1>1, <1>6, <1>7 DEF Busy, ActiveIn
<1>9. IsWorking(pc[p]) /\ ctx[p].s = x
  BY <1>1, <1>7 DEF IsWorking, IsHolding, c
<1> QED BY <1>2, <1>4, <1>5, <1>7, <1>8, <1>9, FollowElsewhere

LEMMA FollowUpdate ==
  ASSUME TypeInv, MoveInv, SerialSessions, FollowInv, NEW p \in Procs,
         AcceptSave(p) \/ CommitStatus(p)
  PROVE  FollowInv'
<1>1. PICK o \in Orders : o = ctx[p].o
  BY DEF AcceptSave, CommitStatus, TypeInv, LocalsOK, Local, Updating
<1>2. PICK s \in Sessions : s = ctx[p].s /\ order[o].ses = s
  BY <1>1 DEF AcceptSave, CommitStatus, TypeInv, LocalsOK, Local, Updating, RowsOK
<1>3. PICK row : row = ctx[p].row
  OBVIOUS
<1>4. /\ order' = [order EXCEPT ![o] = row] /\ pc[p] \in {"accepted", "locked"}
      /\ row.ses = s /\ row.status \in Statuses
      /\ row.status \in Allowed(order[o].status)
  BY <1>1, <1>2, <1>3 DEF AcceptSave, CommitStatus, TypeInv, LocalsOK, Local, Updating, MoveInv,
                          MoveOK, IsUpdating
<1>5. order'[o] = row /\ \A q \in Orders \ {o} : order'[q] = order[q]
  BY <1>4 DEF TypeInv, TypeOK
<1>6. order[o].status \in ActiveStatus
  BY <1>4 DEF Allowed, ActiveStatus
<1>7. session[s].status = "ACTIVE"
  BY <1>2, <1>6 DEF FollowInv, Busy, ActiveIn
<1>8. \A q \in Orders \ {o} : ActiveIn(s, q)' <=> ActiveIn(s, q)
  BY <1>5 DEF ActiveIn
<1>9. ActiveIn(s, o)' <=> row.status \in ActiveStatus
  BY <1>4, <1>5 DEF ActiveIn
<1>10. \A x \in Sessions \ {s} : \A q \in Orders : ActiveIn(x, q)' <=> ActiveIn(x, q)
  BY <1>2, <1>4, <1>5 DEF ActiveIn
<1>11. /\ \A q \in Procs \ {p} : pc'[q] = pc[q] /\ ctx'[q] = ctx[q]
       /\ pc'[p] \in {"idle", "publishing"}
  BY GotoAt, CallbacksAt DEF AcceptSave, CommitStatus, Done
<1>12. /\ \A x \in Sessions \ {s} : session'[x] = session[x]
       /\ Busy(s)' <=> session'[s].status = "ACTIVE"
  <2>1. CASE AcceptSave(p)
    <3>1. session' = session /\ row.status = "ACCEPTED"
      BY <1>3, <2>1 DEF AcceptSave, FollowInv, CloseOK
    <3>2. Busy(s)'
      BY <1>9, <3>1 DEF Busy, ActiveStatus
    <3> QED BY <1>7, <3>1, <3>2
  <2>2. CASE CommitStatus(p)
    <3>1. /\ session' = IF ctx[p].close THEN [session EXCEPT ![s].status = "CLOSED"] ELSE session
          /\ ctx[p].close <=> row.status \in TerminalStatus /\ LastActive(s, o)
      BY <1>1, <1>2, <1>3, <2>2 DEF CommitStatus, FollowInv, CloseOK
    <3>2. CASE row.status \in ActiveStatus
      <4>1. ~ctx[p].close
        BY <3>1, <3>2 DEF ActiveStatus, TerminalStatus
      <4>2. Busy(s)'
        BY <1>9, <3>2 DEF Busy
      <4> QED BY <1>7, <3>1, <4>1, <4>2
    <3>3. CASE row.status \in TerminalStatus /\ LastActive(s, o)
      <4>1. ~Busy(s)'
        BY <1>8, <1>9, <3>3 DEF Busy, LastActive, ActiveStatus, TerminalStatus
      <4>2. session' = [session EXCEPT ![s].status = "CLOSED"]
        BY <3>1, <3>3
      <4>3. session'[s].status = "CLOSED" /\ \A x \in Sessions \ {s} : session'[x] = session[x]
        BY <4>2 DEF TypeInv, TypeOK, SessionRow
      <4> QED BY <4>1, <4>3
    <3>4. CASE row.status \in TerminalStatus /\ ~LastActive(s, o)
      <4>1. session' = session
        BY <3>1, <3>4
      <4>2. Busy(s)'
        BY <1>8, <3>4 DEF Busy, LastActive
      <4> QED BY <1>7, <4>1, <4>2
    <3> QED BY <1>4, <3>2, <3>3, <3>4 DEF Statuses
  <2> QED BY <2>1, <2>2
<1>13. \A x \in Sessions \ {s} :
         /\ \A q \in Orders : ActiveIn(x, q)' <=> ActiveIn(x, q)
         /\ session'[x].status = "ACTIVE" <=> session[x].status = "ACTIVE"
  BY <1>10, <1>12
<1>14. IsWorking(pc[p])
  BY <1>4 DEF IsWorking, IsUpdating
<1> QED BY <1>2, <1>11, <1>12, <1>13, <1>14, FollowElsewhere

\* Requests that have not reached their commit.
LEMMA FollowQuiet ==
  ASSUME TypeInv, FollowInv, NEW p \in Procs, Arrival(p), order' = order, session' = session
  PROVE  FollowInv'
<1>1. \A s \in Sessions : Busy(s)' <=> session'[s].status = "ACTIVE"
  BY DEF FollowInv, Busy, ActiveIn
<1>2. \A s, o : LastActive(s, o)' <=> LastActive(s, o)
  BY DEF LastActive, ActiveIn
<1>3. ASSUME NEW q \in Procs \ {p} PROVE CloseOK(pc[q], ctx[q])'
  <2>1. CloseOK(pc[q], ctx[q]) /\ pc'[q] = pc[q] /\ ctx'[q] = ctx[q]
    BY DEF FollowInv, Arrival
  <2> QED BY <2>1 DEF CloseOK, LastActive, ActiveIn
<1>4. CASE pc'[p] \in {"read", "accepting"}
  <2>1. PICK h \in Handlers, o \in Orders, st \in Statuses : ReadOrder(p, h, o, st)
    BY <1>4 DEF Arrival
  <2>2. ctx'[p].row.status = st
    BY <2>1, ReadAt
  <2>3. pc'[p] = IF h = "accept" THEN "accepting" ELSE "read"
    BY <2>1, GotoAt DEF ReadOrder
  <2>4. h = "accept" => st = "ACCEPTED"
    BY <2>1 DEF ReadOrder, Targets
  <2> QED BY <1>1, <1>3, <1>4, <2>2, <2>3, <2>4 DEF FollowInv, CloseOK
<1>5. CASE pc'[p] = "accepted"
  <2>1. AcceptPublish(p)
    BY <1>5 DEF Arrival
  <2>2. pc[p] = "accepting" /\ ctx'[p] = ctx[p]
    BY <2>1, GotoAt DEF AcceptPublish
  <2> QED BY <1>1, <1>3, <1>5, <2>2 DEF FollowInv, CloseOK
<1>6. CASE pc'[p] = "locked"
  <2>1. CASE SaveOrder(p)
    <3>1. pc[p] = "read" /\ Locked(p, ctx[p]) /\ ctx[p] \in Context /\ ctx[p].row.ses = ctx[p].s
      BY <2>1 DEF SaveOrder, TypeInv, TypeOK, LocalsOK, Local, Updating
    <3>2. /\ ctx'[p].o = ctx[p].o /\ ctx'[p].s = ctx[p].s /\ ctx'[p].row = ctx[p].row
          /\ ctx'[p].close <=>
               ctx[p].row.status \in TerminalStatus /\ LastActive(ctx[p].row.ses, ctx[p].o)
      BY <3>1, LockedAt
    <3>3. CloseOK(pc[p], ctx[p])'
      BY <1>6, <3>1, <3>2 DEF CloseOK, LastActive, ActiveIn
    <3> QED BY <1>1, <1>3, <3>3 DEF FollowInv
  <2>2. ASSUME NEW o \in Orders, NEW st \in Statuses, KitchenEvent(p, o, st)
        PROVE  FollowInv'
    <3>1. /\ ctx'[p].o = o /\ ctx'[p].s = order[o].ses /\ ctx'[p].row.status = st
          /\ ctx'[p].close <=> st \in TerminalStatus /\ LastActive(order[o].ses, o)
      BY <2>2, KitchenAt
    <3>2. CloseOK(pc[p], ctx[p])'
      BY <1>6, <3>1 DEF CloseOK, LastActive, ActiveIn
    <3> QED BY <1>1, <1>3, <3>2 DEF FollowInv
  <2> QED BY <1>6, <2>1, <2>2 DEF Arrival
<1>7. CASE pc'[p] \notin {"read", "accepting", "accepted", "locked"}
  <2>1. CloseOK(pc[p], ctx[p])'
    BY <1>7 DEF CloseOK
  <2> QED BY <1>1, <1>3, <2>1 DEF FollowInv
<1> QED BY <1>4, <1>5, <1>6, <1>7

LEMMA SessionWriters ==
  ASSUME NEW p \in Procs, Start(p) \/ Continue(p) \/ Crash(p), session' # session
  PROVE  CreateCommit(p) \/ CommitStatus(p) \/ CloseSession(p)
  BY DEF Start, Continue, CreateKey, ReadOrder, KitchenEvent, ReadSession, CreateValidate,
         CreateLock, CreateSession, CreateStore, CreateCommit, AcceptPublish, AcceptSave,
         SaveOrder, CommitStatus, CloseSession, Publish, Crash, db

LEMMA FollowNext ==
  ASSUME NoClosers, TypeInv, TableInv, MoveInv, NoneCloses, SerialSessions, FollowInv, [Next]_vars
  PROVE  NoneCloses' /\ FollowInv'
<1>1. ASSUME NEW p \in Procs, Start(p) \/ Continue(p) \/ Crash(p)
      PROVE  NoneCloses' /\ FollowInv'
  <2>1. NoneCloses' /\ ~CloseSession(p) /\ Arrival(p)
    BY <1>1, NoneClosesStep, ArrivalStep
  <2>2. CASE CreateCommit(p)
    BY <2>1, <2>2, FollowCreate
  <2>3. CASE AcceptSave(p) \/ CommitStatus(p)
    BY <2>1, <2>3, FollowUpdate
  <2>4. CASE order' = order /\ session' = session
    BY <2>1, <2>4, FollowQuiet
  <2> QED BY <1>1, <2>1, <2>2, <2>3, <2>4, WritersStep, SessionWriters
<1>2. CASE ~\E p \in Procs : Start(p) \/ Continue(p) \/ Crash(p)
  <2>1. /\ \A o \in Orders : order'[o].status = order[o].status /\ order'[o].ses = order[o].ses
        /\ UNCHANGED <<session, pc, ctx>>
    BY <1>2, OtherStep
  <2>2. \A s, o : o \in Orders => (ActiveIn(s, o)' <=> ActiveIn(s, o))
    BY <2>1 DEF ActiveIn
  <2>3. \A s : Busy(s)' <=> Busy(s)
    BY <2>2 DEF Busy
  <2>4. \A s, o : LastActive(s, o)' <=> LastActive(s, o)
    BY <2>2 DEF LastActive
  <2>5. ASSUME NEW q \in Procs PROVE CloseOK(pc[q], ctx[q])'
    <3>1. CloseOK(pc[q], ctx[q]) /\ pc'[q] = pc[q] /\ ctx'[q] = ctx[q]
      BY <2>1 DEF FollowInv
    <3>2. PICK s, o : s = ctx[q].s /\ o = ctx[q].o
      OBVIOUS
    <3>3. LastActive(ctx[q].s, ctx[q].o)' <=> LastActive(s, o)'
      BY <3>1, <3>2 DEF LastActive, ActiveIn
    <3> QED BY <2>4, <3>1, <3>2, <3>3 DEF CloseOK
  <2> QED BY <2>1, <2>3, <2>5 DEF FollowInv, NoneCloses
<1> QED BY <1>1, <1>2

LEMMA FollowInit == Init => FollowInv /\ NoneCloses
  BY DEF Init, FollowInv, NoneCloses, Busy, ActiveIn, CloseOK, NoOrder, NoSession, ActiveStatus

\* A session is ACTIVE exactly while one of its orders is in progress, in every
\* behaviour in which no two requests work on one session at a time: closing
\* is decided by a query that sees committed orders only, and nothing but the
\* end of an order decides it.
THEOREM SessionsFollow ==
  ASSUME NoClosers
  PROVE  Spec /\ []SerialSessions => []SessionsFollowOrders
<1> DEFINE Inv == TypeInv /\ TableInv /\ MoveInv /\ NoneCloses /\ FollowInv
<1>1. Init => Inv
  BY InitInv, TableInit, MoveInit, FollowInit
<1>2. Inv /\ SerialSessions /\ [Next]_vars => Inv'
  BY NextInv, TableNext, MoveNext, FollowNext, SerialImplied
<1>3. Inv => SessionsFollowOrders
  BY DEF FollowInv, SessionsFollowOrders, Busy
<1> HIDE DEF Inv
<1> QED BY <1>1, <1>2, <1>3, PTL DEF Spec

\* A service that works off its requests one after the other needs no locks:
\* sessions and statuses are right with any number of users, tables, orders and
\* deaths.
THEOREM OneByOne ==
  ASSUME NoClosers, \A p, q \in Procs : p = q
  PROVE  Spec => MovesLegal /\ []SessionsFollowOrders
<1>1. SerialUpdates /\ SerialSessions
  BY DEF SerialUpdates, SerialSessions
<1> QED BY <1>1, MovesAreLegal, SessionsFollow, PTL
=============================================================================
