-------------------------- MODULE OrderMoves_proofs -------------------------
(* Which status changes can reach the database: legal ones by the kitchen,   *)
(* and by everybody when updates of an order do not overlap; what follows    *)
(* for users that share a session and for cancellations; and that a key of   *)
(* the cache leads to an order.                                              *)
EXTENDS OrderService_proofs, Integers

\* Row locks of orders exclude each other, and what the kitchen consumer is
\* about to write is a legal move from the committed status.
KitchenOK(l, c) ==
  /\ l = "read" => c.op # "kitchen"
  /\ l = "locked" /\ c.op = "kitchen" =>
       c.row.status \in Allowed(order[c.o].status)
LockInv ==
  /\ \A p, q \in Procs :
       p # q /\ pc[p] = "locked" /\ pc[q] = "locked" => ctx[p].o # ctx[q].o
  /\ \A p \in Procs : KitchenOK(pc[p], ctx[p])

\* A step of p leaves the status of every order another process has locked.
LocksRespected(p) ==
  \A q \in Procs \ {p} : pc[q] = "locked" =>
    order'[ctx[q].o].status = order[ctx[q].o].status

\* p arrives at l with locals c and, if that is the lock, nobody else has it.
LEMMA LockGoto ==
  ASSUME TypeInv, LockInv, NEW p \in Procs, NEW l \in PCs, NEW c \in Context, Goto(p, l, c),
         LocksRespected(p),
         l = "read" => c.op # "kitchen",
         l = "locked" =>
           /\ \A q \in Procs \ {p} : pc[q] = "locked" => ctx[q].o # c.o
           /\ c.op = "kitchen" => c.row.status \in Allowed(order'[c.o].status)
  PROVE  LockInv'
<1>1. /\ pc'[p] = l /\ ctx'[p] = c
      /\ \A q \in Procs \ {p} : pc'[q] = pc[q] /\ ctx'[q] = ctx[q]
  BY GotoEffect DEF TypeInv
<1>2. ASSUME NEW q \in Procs PROVE KitchenOK(pc[q], ctx[q])'
  <2>1. CASE q = p
    BY <1>1, <2>1 DEF KitchenOK
  <2>2. CASE q # p
    <3>1. KitchenOK(pc[q], ctx[q]) /\ pc'[q] = pc[q] /\ ctx'[q] = ctx[q]
      BY <1>1, <2>2 DEF LockInv
    <3> QED BY <2>2, <3>1 DEF KitchenOK, LocksRespected
  <2> QED BY <2>1, <2>2
<1> QED BY <1>1, <1>2 DEF LockInv

LEMMA LockCallbacks ==
  ASSUME TypeInv, LockInv, NEW p \in Procs, NEW cb \in Seq(Event), Callbacks(p, cb),
         LocksRespected(p)
  PROVE  LockInv'
<1>1. [NoCtx EXCEPT !.cb = cb] \in Context /\ "idle" \in PCs /\ "publishing" \in PCs
  BY NoCtxType DEF Context, NoCtx, PCs
<1>2. Goto(p, "idle", NoCtx) \/ Goto(p, "publishing", [NoCtx EXCEPT !.cb = cb])
  BY DEF Callbacks, Done
<1> QED BY <1>1, <1>2, NoCtxType, LockGoto

LEMMA LockDone ==
  ASSUME TypeInv, LockInv, NEW p \in Procs, Done(p), LocksRespected(p)
  PROVE  LockInv'
  BY NoCtxType, LockGoto DEF Done, PCs

\* A handler that is not at a status change goes on, and changes no order.
LEMMA LockElsewhere ==
  ASSUME TypeInv, LockInv, NEW p \in Procs, NEW l, NEW c, Goto(p, l, c), order' = order,
         l \notin {"read", "locked"}
  PROVE  LockInv'
<1>1. pc'[p] = l /\ \A q \in Procs \ {p} : pc'[q] = pc[q] /\ ctx'[q] = ctx[q]
  BY DEF Goto, TypeInv, TypeOK
<1> QED BY <1>1 DEF LockInv, KitchenOK

LEMMA LockLocked ==
  ASSUME TypeInv, LockInv, NEW p \in Procs, NEW c \in Context, c.o \in Orders, Locked(p, c),
         order' = order, ~OrderLocked(c.o),
         c.op = "kitchen" => c.row.status \in Allowed(order[c.o].status)
  PROVE  LockInv'
<1>1. pc'[p] = "locked" /\ ctx'[p].o = c.o /\ ctx'[p].op = c.op /\ ctx'[p].row = c.row
      /\ \A q \in Procs \ {p} : pc'[q] = pc[q] /\ ctx'[q] = ctx[q]
  BY DEF Locked, Goto, TypeInv, TypeOK, Context
<1>2. \A q \in Procs \ {p} : pc[q] = "locked" => ctx[q].o # c.o
  BY DEF OrderLocked
<1> QED BY <1>1, <1>2 DEF LockInv, KitchenOK

\* Only the holder of an order's lock changes its status.
LEMMA LocksStep ==
  ASSUME TypeInv, LockInv, NEW p \in Procs, Start(p) \/ Continue(p) \/ Crash(p)
  PROVE  LocksRespected(p)
<1>1. CASE order' = order
  BY <1>1 DEF LocksRespected
<1>2. CASE CreateCommit(p)
  <2>1. ctx[p].o \in Orders /\ ~Exists(ctx[p].o) /\ order' = [order EXCEPT ![ctx[p].o] = ctx[p].row]
    BY <1>2 DEF CreateCommit, TypeInv, LocalsOK, Local, Creating, AloneOK, Alone, IsCreating
  <2>2. \A q \in Procs : pc[q] = "locked" => ctx[q].o \in Orders /\ Exists(ctx[q].o)
    BY DEF TypeInv, LocalsOK, Local, Updating
  <2> QED BY <2>1, <2>2 DEF LocksRespected, TypeInv, TypeOK
<1>3. CASE AcceptSave(p)
  <2>1. \A q \in Procs \ {p} : pc[q] = "locked" => ctx[q].o # ctx[p].o
    BY <1>3 DEF AcceptSave, OrderLocked
  <2> QED BY <1>3, <2>1 DEF AcceptSave, LocksRespected, TypeInv, TypeOK
<1>4. CASE CommitStatus(p)
  <2>1. \A q \in Procs \ {p} : pc[q] = "locked" => ctx[q].o # ctx[p].o
    BY <1>4 DEF CommitStatus, LockInv
  <2> QED BY <1>4, <2>1 DEF CommitStatus, LocksRespected, TypeInv, TypeOK
<1> QED BY <1>1, <1>2, <1>3, <1>4
     DEF Start, Continue, CreateKey, ReadOrder, KitchenEvent, ReadSession, CreateValidate,
         CreateLock, CreateSession, CreateStore, AcceptPublish, SaveOrder, CloseSession,
         Publish, Crash, db

LEMMA LockStep ==
  ASSUME TypeInv, LockInv, NEW p \in Procs, Start(p) \/ Continue(p) \/ Crash(p)
  PROVE  LockInv'
<1>1. LocksRespected(p) /\ ctx[p] \in Context /\ ctx[p].cb \in Seq(Event)
  BY LocksStep DEF TypeInv, TypeOK, Context
<1>2. ASSUME NEW h \in Handlers, NEW u \in Users, NEW k \in Keys, NEW t \in Tables,
             NEW o \in Orders, CreateKey(p, h, u, k, t, o)
      PROVE  LockInv'
  BY <1>2, LockElsewhere DEF CreateKey, db
<1>3. ASSUME NEW h \in Handlers, NEW o \in Orders, NEW st \in Statuses, ReadOrder(p, h, o, st)
      PROVE  LockInv'
  <2>1. /\ pc'[p] \in {"accepting", "read"} /\ ctx'[p].op = h /\ h # "kitchen"
        /\ \A q \in Procs \ {p} : pc'[q] = pc[q] /\ ctx'[q] = ctx[q]
    BY <1>3 DEF ReadOrder, Goto, TypeInv, TypeOK, NoCtx
  <2> QED BY <1>3, <2>1 DEF ReadOrder, db, LockInv, KitchenOK
<1>4. ASSUME NEW o \in Orders, NEW st \in Statuses, KitchenEvent(p, o, st)
      PROVE  LockInv'
  <2> DEFINE row == [order[o] EXCEPT !.status = st]
             c == [NoCtx EXCEPT !.op = "kitchen", !.o = o, !.s = order[o].ses, !.row = row]
  <2>1. /\ Locked(p, c) /\ order' = order /\ ~OrderLocked(o) /\ order[o].ses \in Sessions
        /\ st \in Allowed(order[o].status)
    BY <1>4 DEF KitchenEvent, db, TypeInv, RowsOK
  <2>2. row \in OrderRow /\ row.status = st
    BY DEF OrderRow, TypeInv, TypeOK
  <2> HIDE DEF row
  <2>3. c \in Context /\ c.o = o /\ c.row = row
    BY <2>1, <2>2, NoCtxType DEF Context, NoCtx, AllHandlers
  <2> HIDE DEF c
  <2> QED BY <2>1, <2>2, <2>3, LockLocked
<1>5. ASSUME NEW h \in Handlers, NEW s \in Sessions, ReadSession(p, h, s)
      PROVE  LockInv'
  BY <1>5, LockElsewhere DEF ReadSession, db
<1>6. CASE CreateValidate(p)
  BY <1>1, <1>6, LockElsewhere, LockDone DEF CreateValidate, db
<1>7. CASE CreateLock(p)
  <2>1. order' = order
    BY <1>7 DEF CreateLock, db
  <2>2. ASSUME NEW s, Goto(p, "inSession", [ctx[p] EXCEPT !.s = s]) PROVE LockInv'
    BY <2>1, <2>2, LockElsewhere
  <2>3. CASE Goto(p, "noSession", ctx[p])
    BY <2>1, <2>3, LockElsewhere
  <2> QED BY <1>1, <1>7, <2>2, <2>3, LockDone DEF CreateLock
<1>8. CASE CreateSession(p)
  <2>1. order' = order
    BY <1>8 DEF CreateSession, db
  <2>2. ASSUME NEW s, Goto(p, "inSession", [ctx[p] EXCEPT !.s = s, !.new = TRUE])
        PROVE  LockInv'
    BY <2>1, <2>2, LockElsewhere
  <2> QED BY <1>1, <1>8, <2>2, LockDone DEF CreateSession
<1>9. CASE CreateStore(p)
  BY <1>9, LockElsewhere DEF CreateStore, db
<1>10. CASE CreateCommit(p)
  BY <1>1, <1>10, LockCallbacks DEF CreateCommit
<1>11. CASE AcceptPublish(p)
  BY <1>11, LockElsewhere DEF AcceptPublish, db
<1>12. CASE AcceptSave(p)
  BY <1>1, <1>12, LockDone DEF AcceptSave
<1>13. CASE SaveOrder(p)
  <2>1. ctx[p].o \in Orders /\ ctx[p].op # "kitchen"
    BY <1>13 DEF SaveOrder, TypeInv, LocalsOK, Local, Updating, LockInv, KitchenOK
  <2> QED BY <1>1, <1>13, <2>1, LockLocked DEF SaveOrder, db
<1>14. CASE CommitStatus(p)
  BY <1>1, <1>14, LockCallbacks DEF CommitStatus
<1>15. CASE CloseSession(p)
  <2>1. <<Ev("closed", ctx[p].s)>> \in Seq(Event)
    BY <1>15 DEF CloseSession, TypeInv, LocalsOK, Local, Closing, Ev, Event, EventTypes
  <2> QED BY <1>1, <1>15, <2>1, LockCallbacks DEF CloseSession
<1>16. CASE Publish(p)
  <2>1. Tail(ctx[p].cb) \in Seq(Event)
    BY <1>1, <1>16 DEF Publish, TypeInv, LocalsOK, Local, Publishing
  <2> QED BY <1>1, <1>16, <2>1, LockCallbacks DEF Publish
<1>17. CASE Crash(p)
  BY <1>1, <1>17, LockDone DEF Crash
<1> QED BY <1>2, <1>3, <1>4, <1>5, <1>6, <1>7, <1>8, <1>9, <1>10, <1>11, <1>12, <1>13,
           <1>14, <1>15, <1>16, <1>17 DEF Start, Continue

LEMMA LockNext ==
  ASSUME TypeInv, LockInv, [Next]_vars
  PROVE  /\ LockInv'
         /\ \A q \in Procs : LET o == ctx[q].o IN
              /\ pc[q] = "locked" /\ ctx[q].op = "kitchen"
              /\ order'[o].status # order[o].status
              => order'[o].status \in Allowed(order[o].status)
<1>1. ASSUME UNCHANGED <<pc, ctx>>, \A q \in Orders : order'[q].status = order[q].status
      PROVE  LockInv'
  <2>1. \A q \in Procs : pc[q] = "locked" => ctx[q].o \in Orders
    BY DEF TypeInv, LocalsOK, Local, Updating
  <2> QED BY <1>1, <2>1 DEF LockInv, KitchenOK
<1>2. CASE \E p \in Procs : Start(p) \/ Continue(p) \/ Crash(p)
  <2>1. PICK p \in Procs : Start(p) \/ Continue(p) \/ Crash(p)
    BY <1>2
  <2>2. LockInv' /\ LocksRespected(p)
    BY <2>1, LockStep, LocksStep
  <2>3. ASSUME pc[p] = "locked", ctx[p].op = "kitchen",
               order'[ctx[p].o].status # order[ctx[p].o].status
        PROVE  order'[ctx[p].o].status \in Allowed(order[ctx[p].o].status)
    <3>1. CommitStatus(p)
      BY <2>1, <2>3
         DEF Start, Continue, CreateKey, ReadOrder, KitchenEvent, ReadSession, CreateValidate,
             CreateLock, CreateSession, CreateStore, CreateCommit, AcceptPublish, AcceptSave,
             SaveOrder, CloseSession, Publish, Crash, db
    <3>2. ctx[p].o \in Orders /\ ctx[p].row.status \in Allowed(order[ctx[p].o].status)
      BY <2>3 DEF LockInv, KitchenOK, TypeInv, LocalsOK, Local, Updating
    <3> QED BY <3>1, <3>2 DEF CommitStatus, TypeInv, TypeOK
  <2> QED BY <2>2, <2>3 DEF LocksRespected
<1>3. CASE \E o \in Orders, pay \in PaymentStatus : UpdatePayment(o, pay)
  <2>1. \A q \in Orders : order'[q].status = order[q].status
    BY <1>3, UpdatePaymentStep
  <2>2. \A q \in Procs : pc[q] = "locked" => ctx[q].o \in Orders
    BY DEF TypeInv, LocalsOK, Local, Updating
  <2> QED BY <1>1, <1>3, <2>1, <2>2 DEF UpdatePayment
<1>4. CASE (\E u \in Users, k \in Keys : ExpireKey(u, k)) \/ UNCHANGED vars
  BY <1>1, <1>4 DEF ExpireKey, db, vars
<1> QED BY <1>2, <1>3, <1>4 DEF Next

LEMMA LockInit == Init => LockInv
  BY DEF Init, LockInv, KitchenOK

\* The consumer of kitchen events never makes an illegal move, however stale
\* the rows are that views write at the same time.
THEOREM KitchenIsLegal == Spec => KitchenMovesLegal
<1>1. TypeInv /\ LockInv /\ [Next]_vars =>
        [\A p \in Procs : LET o == ctx[p].o IN
           /\ pc[p] = "locked" /\ ctx[p].op = "kitchen"
           /\ order'[o].status # order[o].status
           => order'[o].status \in Allowed(order[o].status)]_vars
  BY LockNext
<1>2. Init => TypeInv /\ LockInv
  BY InitInv, LockInit
<1>3. TypeInv /\ LockInv /\ [Next]_vars => (TypeInv /\ LockInv)'
  BY NextInv, LockNext
<1> QED BY <1>1, <1>2, <1>3, PTL DEF Spec, KitchenMovesLegal
------------------------------------------------------------------------------
(* One user per session, when nothing writes an active status from a plain   *)
(* read.                                                                     *)

\* The assumption on the handlers in use.
TerminalWrites == "accept" \notin Handlers /\ AdminTargets \cap ActiveStatus = {}

\* What is read without a lock is written back terminal.
WriteOK(l, c) ==
  /\ l \notin {"accepting", "accepted"}
  /\ l \in {"read", "locked"} /\ c.op # "kitchen" => c.row.status \in TerminalStatus
  /\ l \in {"read", "locked"} /\ c.op = "cancel" => c.row.status = "CANCELLED"
WritesOK == \A p \in Procs : WriteOK(pc[p], ctx[p])

\* Who holds a session for an order found no active order of somebody else.
AloneAtTable ==
  \A p \in Procs : IsHolding(pc[p]) => ~OthersActive(ctx[p].s, ctx[p].user)

UserInv == WritesOK /\ OneUserPerSession /\ AloneAtTable

LEMMA WritesStep ==
  ASSUME TerminalWrites, TypeInv, WritesOK, NEW p \in Procs, Start(p) \/ Continue(p) \/ Crash(p)
  PROVE  WritesOK'
<1>1. pc \in [Procs -> PCs] /\ ctx \in [Procs -> Context]
  BY DEF TypeInv, TypeOK
<1>2. ASSUME NEW l, NEW c, Goto(p, l, c), WriteOK(l, c)
      PROVE  WritesOK'
  BY <1>1, <1>2 DEF Goto, WritesOK, WriteOK
<1>3. ASSUME NEW l, NEW c, Goto(p, l, c), l \notin {"read", "locked", "accepting", "accepted"}
      PROVE  WritesOK'
  BY <1>2, <1>3 DEF WriteOK
<1>4. ASSUME Done(p) PROVE WritesOK'
  BY <1>3, <1>4 DEF Done
<1>5. ASSUME NEW cb, Callbacks(p, cb) PROVE WritesOK'
  BY <1>3, <1>4, <1>5 DEF Callbacks
<1>6. ASSUME NEW c \in Context, Locked(p, c),
             c.op # "kitchen" => c.row.status \in TerminalStatus,
             c.op = "cancel" => c.row.status = "CANCELLED"
      PROVE  WritesOK'
  <2>1. /\ pc'[p] = "locked" /\ ctx'[p].op = c.op /\ ctx'[p].row = c.row
        /\ \A q \in Procs \ {p} : pc'[q] = pc[q] /\ ctx'[q] = ctx[q]
    BY <1>1, <1>6 DEF Locked, Goto, Context
  <2> QED BY <1>6, <2>1 DEF WritesOK, WriteOK
<1>7. ASSUME NEW h \in Handlers, NEW u \in Users, NEW k \in Keys, NEW t \in Tables,
             NEW o \in Orders, CreateKey(p, h, u, k, t, o)
      PROVE  WritesOK'
  BY <1>3, <1>7 DEF CreateKey
<1>8. ASSUME NEW h \in Handlers, NEW o \in Orders, NEW st \in Statuses, ReadOrder(p, h, o, st)
      PROVE  WritesOK'
  <2>1. /\ pc'[p] = "read" /\ ctx'[p].op = h /\ ctx'[p].row = [order[o] EXCEPT !.status = st]
        /\ \A q \in Procs \ {p} : pc'[q] = pc[q] /\ ctx'[q] = ctx[q]
    BY <1>1, <1>8 DEF ReadOrder, Goto, NoCtx, TerminalWrites
  <2>2. ctx'[p].row.status = st
    BY <2>1 DEF TypeInv, TypeOK, OrderRow
  <2>3. h = "cancel" => st = "CANCELLED"
    BY <1>8 DEF ReadOrder, Targets
  <2>4. h = "admin" => st \in AdminTargets
    BY <1>8 DEF ReadOrder, Targets
  <2>5. h \in {"cancel", "admin"} /\ st \in TerminalStatus
    BY <1>8, <2>3, <2>4 DEF ReadOrder, TerminalWrites, Statuses, TerminalStatus
  <2> QED BY <2>1, <2>2, <2>3, <2>5 DEF WritesOK, WriteOK
<1>9. ASSUME NEW o \in Orders, NEW st \in Statuses, KitchenEvent(p, o, st)
      PROVE  WritesOK'
  <2>1. /\ pc'[p] = "locked"
        /\ \A q \in Procs \ {p} : pc'[q] = pc[q] /\ ctx'[q] = ctx[q]
    BY <1>1, <1>9 DEF KitchenEvent, Locked, Goto
  <2>2. ctx'[p].op = "kitchen"
    BY <1>1, <1>9 DEF KitchenEvent, Locked, Goto, NoCtx
  <2> QED BY <2>1, <2>2 DEF WritesOK, WriteOK
<1>10. ASSUME NEW h \in Handlers, NEW s \in Sessions, ReadSession(p, h, s)
       PROVE  WritesOK'
  BY <1>3, <1>10 DEF ReadSession
<1>11. CASE CreateValidate(p)
  BY <1>3, <1>4, <1>11 DEF CreateValidate
<1>12. CASE CreateLock(p)
  <2>1. ASSUME NEW s, Goto(p, "inSession", [ctx[p] EXCEPT !.s = s]) PROVE WritesOK'
    BY <1>3, <2>1
  <2> QED BY <1>3, <1>4, <1>12, <2>1 DEF CreateLock
<1>13. CASE CreateSession(p)
  <2>1. ASSUME NEW s, Goto(p, "inSession", [ctx[p] EXCEPT !.s = s, !.new = TRUE])
        PROVE  WritesOK'
    BY <1>3, <2>1
  <2> QED BY <1>4, <1>13, <2>1 DEF CreateSession
<1>14. CASE CreateStore(p)
  BY <1>3, <1>14 DEF CreateStore
<1>15. CASE AcceptPublish(p) \/ AcceptSave(p)
  BY <1>15 DEF AcceptPublish, AcceptSave, WritesOK, WriteOK
<1>16. CASE SaveOrder(p)
  BY <1>1, <1>6, <1>16 DEF SaveOrder, WritesOK, WriteOK
<1>17. CASE CreateCommit(p) \/ CommitStatus(p) \/ CloseSession(p) \/ Publish(p)
  BY <1>5, <1>17 DEF CreateCommit, CommitStatus, CloseSession, Publish
<1>18. CASE Crash(p)
  BY <1>4, <1>18 DEF Crash
<1> QED BY <1>7, <1>8, <1>9, <1>10, <1>11, <1>12, <1>13, <1>14, <1>15, <1>16, <1>17, <1>18
        DEF Start, Continue

\* No step makes an order active again, nor moves it to another session.
LEMMA NoRevival ==
  ASSUME TypeInv, LockInv, WritesOK, NEW p \in Procs, Start(p) \/ Continue(p) \/ Crash(p),
         ~CreateCommit(p), NEW o \in Orders
  PROVE  /\ order'[o].status \in ActiveStatus => order[o].status \in ActiveStatus
         /\ Exists(o) => order'[o].user = order[o].user /\ order'[o].ses = order[o].ses
<1>1. Exists(o) => order'[o].user = order[o].user /\ order'[o].ses = order[o].ses
  BY ProcessStep DEF RowsKept
<1>2. CASE order' = order
  BY <1>1, <1>2
<1>3. CASE CommitStatus(p)
  <2>1. /\ pc[p] = "locked" /\ order' = [order EXCEPT ![ctx[p].o] = ctx[p].row]
        /\ ctx[p].o \in Orders
    BY <1>3 DEF CommitStatus, TypeInv, LocalsOK, Local, Updating
  <2>2. CASE ctx[p].op # "kitchen"
    <3>1. ctx[p].row.status \notin ActiveStatus
      BY <2>1, <2>2 DEF WritesOK, WriteOK, TerminalStatus, ActiveStatus
    <3> QED BY <1>1, <2>1, <3>1 DEF TypeInv, TypeOK
  <2>3. CASE ctx[p].op = "kitchen"
    <3>1. ctx[p].row.status \in Allowed(order[ctx[p].o].status)
      BY <2>1, <2>3 DEF LockInv, KitchenOK
    <3>2. order[ctx[p].o].status \in ActiveStatus
      BY <3>1 DEF Allowed, ActiveStatus
    <3> QED BY <1>1, <2>1, <3>2 DEF TypeInv, TypeOK
  <2> QED BY <2>2, <2>3
<1>4. CASE AcceptSave(p)
  BY <1>4 DEF AcceptSave, WritesOK, WriteOK
<1> QED BY <1>2, <1>3, <1>4
     DEF Start, Continue, CreateKey, ReadOrder, KitchenEvent, ReadSession, CreateValidate,
         CreateLock, CreateSession, CreateStore, AcceptPublish, SaveOrder, CloseSession,
         Publish, Crash, db

\* Nothing becomes active and nobody takes hold of a session.
LEMMA UserKept ==
  ASSUME TypeInv, OneUserPerSession, AloneAtTable,
         \A o \in Orders : order'[o].status \in ActiveStatus =>
           /\ order[o].status \in ActiveStatus
           /\ order'[o].user = order[o].user /\ order'[o].ses = order[o].ses,
         \A q \in Procs : IsHolding(pc'[q]) =>
           IsHolding(pc[q]) /\ ctx'[q].s = ctx[q].s /\ ctx'[q].user = ctx[q].user
  PROVE  OneUserPerSession' /\ AloneAtTable'
<1>1. \A s \in Sessions, o \in Orders : ActiveIn(s, o)' => ActiveIn(s, o) /\ order'[o].user = order[o].user
  BY DEF ActiveIn
<1>2. OneUserPerSession'
  BY <1>1 DEF OneUserPerSession
<1>3. ASSUME NEW q \in Procs, IsHolding(pc'[q]), NEW o \in Orders,
             order'[o].ses = ctx'[q].s, order'[o].status \in ActiveStatus
      PROVE  order'[o].user = ctx'[q].user
  <2>1. /\ ~OthersActive(ctx[q].s, ctx[q].user)
        /\ ctx'[q].s = ctx[q].s /\ ctx'[q].user = ctx[q].user
    BY <1>3 DEF AloneAtTable
  <2>2. ActiveIn(ctx[q].s, o) /\ order'[o].user = order[o].user
    BY <1>3, <2>1 DEF ActiveIn
  <2> QED BY <2>1, <2>2 DEF OthersActive
<1>4. AloneAtTable'
  BY <1>3 DEF AloneAtTable, OthersActive, ActiveIn
<1> QED BY <1>2, <1>4

\* A process that comes to hold a session comes from the creation of an order.
LEMMA HoldingStep ==
  ASSUME TypeInv, NEW p \in Procs, Start(p) \/ Continue(p) \/ Crash(p)
  PROVE  /\ \A q \in Procs \ {p} : pc'[q] = pc[q] /\ ctx'[q] = ctx[q]
         /\ IsHolding(pc'[p]) => CreateLock(p) \/ CreateSession(p) \/ CreateStore(p)
<1> DEFINE Frame == \A q \in Procs \ {p} : pc'[q] = pc[q] /\ ctx'[q] = ctx[q]
           Free == Frame /\ ~IsHolding(pc'[p])
<1>1. ASSUME NEW l, NEW c, Goto(p, l, c) PROVE Frame /\ pc'[p] = l
  BY <1>1 DEF Goto, TypeInv, TypeOK
<1>2. ASSUME NEW l, NEW c, Goto(p, l, c), l \notin {"inSession", "stored"} PROVE Free
  BY <1>1, <1>2 DEF IsHolding
<1> HIDE DEF Frame, Free
<1>3. ASSUME Done(p) PROVE Free
  BY <1>2, <1>3 DEF Done
<1>4. ASSUME NEW cb, Callbacks(p, cb) PROVE Free
  BY <1>2, <1>3, <1>4 DEF Callbacks
<1>5. ASSUME NEW c, Locked(p, c) PROVE Free
  BY <1>2, <1>5 DEF Locked
<1>6. ASSUME Start(p) PROVE Free
  <2>1. ASSUME NEW h, NEW o, NEW st, ReadOrder(p, h, o, st) PROVE Free
    BY <1>2, <2>1 DEF ReadOrder
  <2>2. ASSUME NEW o, NEW st, KitchenEvent(p, o, st) PROVE Free
    BY <1>5, <2>2 DEF KitchenEvent
  <2>3. ASSUME NEW h, NEW u, NEW k, NEW t, NEW o, CreateKey(p, h, u, k, t, o) PROVE Free
    BY <1>2, <2>3 DEF CreateKey
  <2>4. ASSUME NEW h, NEW s, ReadSession(p, h, s) PROVE Free
    BY <1>2, <2>4 DEF ReadSession
  <2> QED BY <1>6, <2>1, <2>2, <2>3, <2>4 DEF Start
<1>7. ASSUME CreateValidate(p) \/ Crash(p) \/ AcceptPublish(p) \/ AcceptSave(p) \/ SaveOrder(p)
      PROVE  Free
  BY <1>2, <1>3, <1>5, <1>7 DEF CreateValidate, Crash, AcceptPublish, AcceptSave, SaveOrder
<1>8. ASSUME CreateCommit(p) \/ CommitStatus(p) \/ CloseSession(p) \/ Publish(p)
      PROVE  Free
  BY <1>4, <1>8 DEF CreateCommit, CommitStatus, CloseSession, Publish
<1>9. ASSUME CreateLock(p) PROVE Frame
  <2>1. ASSUME NEW s, Goto(p, "inSession", [ctx[p] EXCEPT !.s = s]) PROVE Frame
    BY <1>1, <2>1
  <2>2. Free => Frame
    BY DEF Free
  <2>3. Goto(p, "noSession", ctx[p]) => Frame
    BY <1>1
  <2>4. Done(p) => Frame
    BY <1>3, <2>2
  <2> QED BY <1>9, <2>1, <2>3, <2>4 DEF CreateLock
<1>10. ASSUME CreateSession(p) PROVE Frame
  <2>1. ASSUME NEW s, Goto(p, "inSession", [ctx[p] EXCEPT !.s = s, !.new = TRUE]) PROVE Frame
    BY <1>1, <2>1
  <2>2. Free => Frame
    BY DEF Free
  <2> QED BY <1>3, <1>10, <2>1, <2>2 DEF CreateSession
<1>11. ASSUME CreateStore(p) PROVE Frame
  BY <1>1, <1>11 DEF CreateStore
<1>12. Free \/ (Frame /\ (CreateLock(p) \/ CreateSession(p) \/ CreateStore(p)))
  BY <1>6, <1>7, <1>8, <1>9, <1>10, <1>11 DEF Continue
<1> QED BY <1>12 DEF Free, Frame

LEMMA UserCreateCommit ==
  ASSUME TypeInv, OneUserPerSession, AloneAtTable, NEW p \in Procs, CreateCommit(p)
  PROVE  OneUserPerSession' /\ AloneAtTable'
<1> DEFINE c == ctx[p]
<1>1. /\ pc[p] = "stored" /\ order' = [order EXCEPT ![c.o] = c.row]
      /\ c.o \in Orders /\ c.s \in Sessions /\ c.row.user = c.user /\ c.row.ses = c.s
      /\ ~Exists(c.o)
  BY DEF CreateCommit, TypeInv, LocalsOK, Local, Creating, Holding, Storing, AloneOK, Alone,
         IsCreating
<1>2. /\ \A q \in Procs \ {p} : pc'[q] = pc[q] /\ ctx'[q] = ctx[q]
      /\ ~IsHolding(pc'[p])
  BY DEF CreateCommit, Callbacks, Done, Goto, TypeInv, TypeOK, IsHolding
<1>3. /\ \A o \in Orders \ {c.o} : order'[o] = order[o]
      /\ order'[c.o].user = c.user /\ order'[c.o].ses = c.s
  BY <1>1 DEF TypeInv, TypeOK
<1>4. \A o \in Orders : ActiveIn(c.s, o) => order[o].user = c.user
  BY <1>1 DEF AloneAtTable, IsHolding, OthersActive
<1>5. \A q \in Procs \ {p} : IsHolding(pc[q]) => ctx[q].s # c.s
  BY <1>1 DEF TypeInv, AloneOK, Alone, IsHolding
<1> HIDE DEF c
<1>6. OneUserPerSession'
  <2> SUFFICES ASSUME NEW s \in Sessions, NEW o1 \in Orders, NEW o2 \in Orders,
                      ActiveIn(s, o1)', ActiveIn(s, o2)'
               PROVE  order'[o1].user = order'[o2].user
    BY DEF OneUserPerSession
  <2>1. CASE o1 # c.o /\ o2 # c.o
    BY <1>3, <2>1 DEF OneUserPerSession, ActiveIn
  <2>2. CASE o1 = c.o \/ o2 = c.o
    <3>1. s = c.s
      BY <1>3, <2>2 DEF ActiveIn
    <3>2. \A o \in {o1, o2} : order'[o].user = c.user
      BY <1>3, <1>4, <3>1 DEF ActiveIn
    <3> QED BY <3>2
  <2> QED BY <2>1, <2>2
<1>7. ASSUME NEW q \in Procs, IsHolding(pc'[q]), NEW o \in Orders,
             order'[o].ses = ctx'[q].s, order'[o].status \in ActiveStatus
      PROVE  order'[o].user = ctx'[q].user
  <2>1. /\ q # p /\ IsHolding(pc[q]) /\ ctx'[q] = ctx[q] /\ ctx[q].s # c.s
        /\ ~OthersActive(ctx[q].s, ctx[q].user)
    BY <1>2, <1>5, <1>7 DEF AloneAtTable
  <2>2. o # c.o
    BY <1>3, <1>7, <2>1
  <2> QED BY <1>3, <1>7, <2>1, <2>2 DEF OthersActive, ActiveIn
<1>8. AloneAtTable'
  BY <1>7 DEF AloneAtTable, OthersActive, ActiveIn
<1> QED BY <1>6, <1>8

LEMMA UserStep ==
  ASSUME TerminalWrites, TypeInv, LockInv, UserInv,
         NEW p \in Procs, Start(p) \/ Continue(p) \/ Crash(p)
  PROVE  UserInv'
<1>1. WritesOK' /\ OneUserPerSession /\ AloneAtTable
  BY WritesStep DEF UserInv
<1>2. CASE CreateCommit(p)
  BY <1>1, <1>2, UserCreateCommit DEF UserInv
<1>3. CASE ~CreateCommit(p)
  <2>1. \A o \in Orders : order'[o].status \in ActiveStatus =>
          /\ order[o].status \in ActiveStatus
          /\ order'[o].user = order[o].user /\ order'[o].ses = order[o].ses
    BY <1>3, NoRevival DEF UserInv, Exists, ActiveStatus
  <2>2. \A q \in Procs \ {p} : pc'[q] = pc[q] /\ ctx'[q] = ctx[q]
    BY HoldingStep
  <2>3. CASE ~IsHolding(pc'[p])
    BY <1>1, <2>1, <2>2, <2>3, UserKept DEF UserInv
  <2>4. CASE IsHolding(pc'[p])
    <3>1. CreateLock(p) \/ CreateSession(p) \/ CreateStore(p)
      BY <2>4, HoldingStep
    <3>2. order' = order
      BY <3>1 DEF CreateLock, CreateSession, CreateStore, db
    <3>3. OneUserPerSession'
      BY <1>1, <3>2 DEF OneUserPerSession, ActiveIn
    <3>4. ~OthersActive(ctx'[p].s, ctx'[p].user)
      <4>1. CASE CreateLock(p)
        <5>1. PICK s \in Sessions : Goto(p, "inSession", [ctx[p] EXCEPT !.s = s])
                                    /\ ~OthersActive(s, ctx[p].user)
          BY <2>4, <4>1
             DEF CreateLock, ActiveSessions, Goto, Done, TypeInv, TypeOK, IsHolding
        <5>2. ctx'[p].s = s /\ ctx'[p].user = ctx[p].user
          BY <5>1 DEF Goto, TypeInv, TypeOK, Context
        <5> QED BY <5>1, <5>2
      <4>2. CASE CreateSession(p)
        <5>1. session[ctx'[p].s].status = "NONE" /\ ctx'[p].s \in Sessions
          <6>1. PICK s \in Sessions :
                  FreshSession(s) /\ Goto(p, "inSession", [ctx[p] EXCEPT !.s = s, !.new = TRUE])
            BY <2>4, <4>2 DEF CreateSession, Goto, Done, TypeInv, TypeOK, IsHolding
          <6>2. ctx'[p].s = s
            BY <6>1 DEF Goto, TypeInv, TypeOK, Context
          <6> QED BY <6>1, <6>2 DEF FreshSession
        <5>2. \A o \in Orders : Exists(o) => order[o].ses # ctx'[p].s
          BY <5>1 DEF TypeInv, RowsOK
        <5> QED BY <5>2 DEF OthersActive, ActiveIn, Exists, ActiveStatus
      <4>3. CASE CreateStore(p)
        <5>1. /\ IsHolding(pc[p]) /\ ctx'[p].s = ctx[p].s /\ ctx'[p].user = ctx[p].user
          BY <4>3 DEF CreateStore, Goto, TypeInv, TypeOK, IsHolding, Context
        <5> QED BY <1>1, <5>1 DEF AloneAtTable
      <4> QED BY <3>1, <4>1, <4>2, <4>3
    <3>5. AloneAtTable'
      BY <1>1, <2>2, <3>2, <3>4 DEF AloneAtTable, OthersActive, ActiveIn, IsHolding
    <3> QED BY <1>1, <3>3, <3>5 DEF UserInv
  <2> QED BY <2>3, <2>4
<1> QED BY <1>2, <1>3

LEMMA UserNext ==
  ASSUME TerminalWrites, TypeInv, LockInv, UserInv, [Next]_vars
  PROVE  UserInv'
<1>1. ASSUME UNCHANGED <<pc, ctx>>,
             \A q \in Orders : /\ order'[q].status = order[q].status
                               /\ order'[q].user = order[q].user
                               /\ order'[q].ses = order[q].ses
      PROVE  UserInv'
  <2>1. WritesOK'
    BY <1>1 DEF UserInv, WritesOK, WriteOK
  <2> QED BY <1>1, <2>1, UserKept DEF UserInv
<1>2. CASE \E p \in Procs : Start(p) \/ Continue(p) \/ Crash(p)
  BY <1>2, UserStep
<1>3. CASE \E o \in Orders, pay \in PaymentStatus : UpdatePayment(o, pay)
  BY <1>1, <1>3 DEF UpdatePayment, TypeInv, TypeOK, OrderRow
<1>4. CASE (\E u \in Users, k \in Keys : ExpireKey(u, k)) \/ UNCHANGED vars
  BY <1>1, <1>4 DEF ExpireKey, db, vars
<1> QED BY <1>2, <1>3, <1>4 DEF Next

LEMMA UserInit == Init => UserInv
<1> SUFFICES ASSUME Init PROVE UserInv
  OBVIOUS
<1>1. \A s, o : o \in Orders => ~ActiveIn(s, o)
  BY DEF Init, ActiveIn, NoOrder, ActiveStatus
<1>2. \A p \in Procs : pc[p] = "idle"
  BY DEF Init
<1> QED BY <1>1, <1>2 DEF UserInv, WritesOK, WriteOK, OneUserPerSession, AloneAtTable,
           IsHolding, OthersActive

\* Two users never have active orders in one session, provided that nothing
\* read without a lock is written back active: the waiter's view is not used
\* and administrators only complete or cancel.
THEOREM SessionsHaveOneUser ==
  ASSUME TerminalWrites
  PROVE  Spec => []OneUserPerSession
<1>1. Init => TypeInv /\ LockInv /\ UserInv
  BY InitInv, LockInit, UserInit
<1>2. TypeInv /\ LockInv /\ UserInv /\ [Next]_vars => (TypeInv /\ LockInv /\ UserInv)'
  BY NextInv, LockNext, UserNext
<1>3. UserInv => OneUserPerSession
  BY DEF UserInv
<1> QED BY <1>1, <1>2, <1>3, PTL DEF Spec
------------------------------------------------------------------------------
(* Where a step takes the process that makes it. *)

LEMMA GotoAt ==
  ASSUME TypeInv, NEW p \in Procs, NEW l, NEW c, Goto(p, l, c)
  PROVE  /\ pc'[p] = l /\ ctx'[p] = c
         /\ \A q \in Procs \ {p} : pc'[q] = pc[q] /\ ctx'[q] = ctx[q]
  BY DEF Goto, TypeInv, TypeOK

LEMMA CallbacksAt ==
  ASSUME TypeInv, NEW p \in Procs, NEW cb, Callbacks(p, cb)
  PROVE  /\ \/ pc'[p] = "idle" /\ ctx'[p] = NoCtx
            \/ pc'[p] = "publishing" /\ ctx'[p] = [NoCtx EXCEPT !.cb = cb]
         /\ \A q \in Procs \ {p} : pc'[q] = pc[q] /\ ctx'[q] = ctx[q]
  BY GotoAt DEF Callbacks, Done

\* A process arrives at a step through the actions that lead there.
Arrival(p) ==
  /\ \A q \in Procs \ {p} : pc'[q] = pc[q] /\ ctx'[q] = ctx[q]
  /\ pc'[p] = "keyed" => \E h \in Handlers, u \in Users, k \in Keys, t \in Tables, o \in Orders :
                           CreateKey(p, h, u, k, t, o)
  /\ pc'[p] = "checked" => CreateValidate(p)
  /\ pc'[p] = "noSession" => CreateLock(p)
  /\ pc'[p] = "inSession" => CreateLock(p) \/ CreateSession(p)
  /\ pc'[p] = "stored" => CreateStore(p)
  /\ pc'[p] \in {"read", "accepting"} =>
       \E h \in Handlers, o \in Orders, st \in Statuses : ReadOrder(p, h, o, st)
  /\ pc'[p] = "accepted" => AcceptPublish(p)
  /\ pc'[p] = "locked" =>
       SaveOrder(p) \/ \E o \in Orders, st \in Statuses : KitchenEvent(p, o, st)
  /\ pc'[p] = "publishing" =>
       CreateCommit(p) \/ CommitStatus(p) \/ CloseSession(p) \/ Publish(p)

LEMMA ArrivalStep ==
  ASSUME TypeInv, NEW p \in Procs, Start(p) \/ Continue(p) \/ Crash(p)
  PROVE  Arrival(p)
<1>1. CASE \E h \in Handlers, u \in Users, k \in Keys, t \in Tables, o \in Orders :
              CreateKey(p, h, u, k, t, o)
  <2>1. PICK h \in Handlers, u \in Users, k \in Keys, t \in Tables, o \in Orders :
          CreateKey(p, h, u, k, t, o)
    BY <1>1
  <2>2. pc'[p] = "keyed" /\ \A q \in Procs \ {p} : pc'[q] = pc[q] /\ ctx'[q] = ctx[q]
    BY <2>1, GotoAt DEF CreateKey
  <2> QED BY <1>1, <2>2 DEF Arrival
<1>2. CASE \E h \in Handlers, o \in Orders, st \in Statuses : ReadOrder(p, h, o, st)
  <2>1. PICK h \in Handlers, o \in Orders, st \in Statuses : ReadOrder(p, h, o, st)
    BY <1>2
  <2>2. /\ pc'[p] \in {"read", "accepting"}
        /\ \A q \in Procs \ {p} : pc'[q] = pc[q] /\ ctx'[q] = ctx[q]
    BY <2>1, GotoAt DEF ReadOrder
  <2> QED BY <1>2, <2>2 DEF Arrival
<1>3. CASE \E o \in Orders, st \in Statuses : KitchenEvent(p, o, st)
  <2>1. PICK o \in Orders, st \in Statuses : KitchenEvent(p, o, st)
    BY <1>3
  <2>2. pc'[p] = "locked" /\ \A q \in Procs \ {p} : pc'[q] = pc[q] /\ ctx'[q] = ctx[q]
    BY <2>1, GotoAt DEF KitchenEvent, Locked
  <2> QED BY <1>3, <2>2 DEF Arrival
<1>4. ASSUME NEW h \in Handlers, NEW s \in Sessions, ReadSession(p, h, s)
      PROVE  Arrival(p)
  <2>1. pc'[p] = "closing" /\ \A q \in Procs \ {p} : pc'[q] = pc[q] /\ ctx'[q] = ctx[q]
    BY <1>4, GotoAt DEF ReadSession
  <2> QED BY <2>1 DEF Arrival
<1>5. ASSUME Done(p) PROVE Arrival(p)
  <2>1. pc'[p] = "idle" /\ \A q \in Procs \ {p} : pc'[q] = pc[q] /\ ctx'[q] = ctx[q]
    BY <1>5, GotoAt DEF Done
  <2> QED BY <2>1 DEF Arrival
<1>6. CASE CreateValidate(p)
  <2>1. ASSUME Goto(p, "checked", ctx[p]) PROVE Arrival(p)
    BY <1>6, <2>1, GotoAt DEF Arrival
  <2> QED BY <1>5, <1>6, <2>1 DEF CreateValidate
<1>7. CASE CreateLock(p)
  <2>1. ASSUME Goto(p, "noSession", ctx[p]) PROVE Arrival(p)
    BY <1>7, <2>1, GotoAt DEF Arrival
  <2>2. ASSUME NEW s, Goto(p, "inSession", [ctx[p] EXCEPT !.s = s]) PROVE Arrival(p)
    <3>1. pc'[p] = "inSession" /\ \A q \in Procs \ {p} : pc'[q] = pc[q] /\ ctx'[q] = ctx[q]
      BY <2>2, GotoAt
    <3> QED BY <1>7, <3>1 DEF Arrival
  <2> QED BY <1>5, <1>7, <2>1, <2>2 DEF CreateLock
<1>8. CASE CreateSession(p)
  <2>1. ASSUME NEW s, Goto(p, "inSession", [ctx[p] EXCEPT !.s = s, !.new = TRUE])
        PROVE  Arrival(p)
    <3>1. pc'[p] = "inSession" /\ \A q \in Procs \ {p} : pc'[q] = pc[q] /\ ctx'[q] = ctx[q]
      BY <2>1, GotoAt
    <3> QED BY <1>8, <3>1 DEF Arrival
  <2> QED BY <1>5, <1>8, <2>1 DEF CreateSession
<1>9. CASE CreateStore(p)
  <2>1. pc'[p] = "stored" /\ \A q \in Procs \ {p} : pc'[q] = pc[q] /\ ctx'[q] = ctx[q]
    BY <1>9, GotoAt DEF CreateStore
  <2> QED BY <1>9, <2>1 DEF Arrival
<1>10. CASE CreateCommit(p) \/ CommitStatus(p) \/ CloseSession(p) \/ Publish(p)
  <2>1. /\ pc'[p] \in {"idle", "publishing"}
        /\ \A q \in Procs \ {p} : pc'[q] = pc[q] /\ ctx'[q] = ctx[q]
    BY <1>10, CallbacksAt DEF CreateCommit, CommitStatus, CloseSession, Publish
  <2> QED BY <1>10, <2>1 DEF Arrival
<1>11. CASE AcceptPublish(p)
  <2>1. pc'[p] = "accepted" /\ \A q \in Procs \ {p} : pc'[q] = pc[q] /\ ctx'[q] = ctx[q]
    BY <1>11, GotoAt DEF AcceptPublish
  <2> QED BY <1>11, <2>1 DEF Arrival
<1>12. CASE SaveOrder(p)
  <2>1. pc'[p] = "locked" /\ \A q \in Procs \ {p} : pc'[q] = pc[q] /\ ctx'[q] = ctx[q]
    BY <1>12, GotoAt DEF SaveOrder, Locked
  <2> QED BY <1>12, <2>1 DEF Arrival
<1>13. CASE AcceptSave(p) \/ Crash(p)
  BY <1>5, <1>13 DEF AcceptSave, Crash
<1> QED BY <1>1, <1>2, <1>3, <1>4, <1>6, <1>7, <1>8, <1>9, <1>10, <1>11, <1>12, <1>13
        DEF Start, Continue

\* The committed orders, the cache and the published events change here only.
LEMMA WritersStep ==
  ASSUME NEW p \in Procs, Start(p) \/ Continue(p) \/ Crash(p)
  PROVE  /\ order' # order => CreateCommit(p) \/ AcceptSave(p) \/ CommitStatus(p)
         /\ idem' # idem => CreateStore(p)
         /\ sent' # sent => AcceptPublish(p) \/ Publish(p)
  BY DEF Start, Continue, CreateKey, ReadOrder, KitchenEvent, ReadSession, CreateValidate,
         CreateLock, CreateSession, CreateStore, CreateCommit, AcceptPublish, AcceptSave,
         SaveOrder, CommitStatus, CloseSession, Publish, Crash, db

\* What UpdatePayment, the expiry of a key and a stuttering step leave alone.
LEMMA OtherStep ==
  ASSUME TypeInv, [Next]_vars, ~\E p \in Procs : Start(p) \/ Continue(p) \/ Crash(p)
  PROVE  /\ \A o \in Orders : /\ order'[o].status = order[o].status
                              /\ order'[o].user = order[o].user
                              /\ order'[o].ses = order[o].ses
         /\ \A u \in Users, k \in Keys : idem'[u][k] \in {idem[u][k], NoVal}
         /\ UNCHANGED <<session, sent, pc, ctx>>
<1>1. CASE \E o \in Orders, pay \in PaymentStatus : UpdatePayment(o, pay)
  BY <1>1 DEF UpdatePayment, TypeInv, TypeOK, OrderRow
<1>2. CASE \E u \in Users, k \in Keys : ExpireKey(u, k)
  BY <1>2 DEF ExpireKey, db, TypeInv, TypeOK
<1>3. CASE UNCHANGED vars
  BY <1>3 DEF vars
<1> QED BY <1>1, <1>2, <1>3 DEF Next
------------------------------------------------------------------------------
(* A cancellation is announced for an order that stays out of service, when  *)
(* nothing writes an active status from a plain read.                        *)

\* The cancellations among the events cb are of the order o only, and there
\* are none unless x.
Cancels(cb, o, x) == \A i \in DOMAIN cb : cb[i].type = "cancelled" => cb[i].id = o /\ x

\* What the callbacks of a handler at step l, with locals c, will announce.
CallbackOK(l, c) ==
  \A i \in DOMAIN c.cb : c.cb[i].type = "cancelled" =>
    \/ l = "locked" /\ c.cb[i].id = c.o /\ c.row.status \in TerminalStatus
    \/ /\ l = "publishing"
       /\ c.cb[i].id \in Orders /\ order[c.cb[i].id].status \in TerminalStatus

CancelInv ==
  /\ \A e \in sent : e.type = "cancelled" =>
       e.id \in Orders /\ order[e.id].status \in TerminalStatus
  /\ \A p \in Procs : CallbackOK(pc[p], ctx[p])

LEMMA CancelsConcat ==
  ASSUME NEW s \in Seq(Event), NEW t \in Seq(Event), NEW o, NEW x,
         Cancels(s, o, x), Cancels(t, o, x)
  PROVE  Cancels(s \o t, o, x)
<1>1. ASSUME NEW i \in DOMAIN (s \o t)
      PROVE  (\E j \in DOMAIN s : (s \o t)[i] = s[j]) \/ (\E j \in DOMAIN t : (s \o t)[i] = t[j])
  <2>1. i \in 1..(Len(s) + Len(t)) /\ Len(s) \in Nat /\ Len(t) \in Nat
    BY <1>1
  <2>2. CASE i <= Len(s)
    BY <2>1, <2>2
  <2>3. CASE i > Len(s)
    <3>1. (s \o t)[i] = t[i - Len(s)] /\ i - Len(s) \in 1..Len(t)
      BY <2>1, <2>3
    <3> QED BY <3>1
  <2> QED BY <2>1, <2>2, <2>3
<1> QED BY <1>1 DEF Cancels

\* update_status announces a cancellation of the order at hand only, because
\* the order is cancelled or the customer's view asked for it.
LEMMA StatusCancels ==
  ASSUME NEW h, NEW row, NEW o \in Orders, NEW close \in BOOLEAN, row.ses \in Sessions
  PROVE  Cancels(StatusCallbacks(h, row, o, close), o, row.status = "CANCELLED" \/ h = "cancel")
<1> DEFINE a == CASE row.status = "ACCEPTED"  -> <<Ev("placed", o)>>
                  [] row.status = "CANCELLED" -> <<Ev("cancelled", o)>>
                  [] OTHER                    -> <<>>
           b == IF close THEN <<Ev("closed", row.ses)>> ELSE <<>>
           d == IF h = "cancel" THEN <<Ev("cancelled", o)>> ELSE <<>>
           x == row.status = "CANCELLED" \/ h = "cancel"
<1>1. /\ Ev("placed", o) \in Event /\ Ev("cancelled", o) \in Event
      /\ Ev("closed", row.ses) \in Event
  BY DEF Ev, Event, EventTypes
<1>2. a \in Seq(Event) /\ Cancels(a, o, x)
  <2>1. CASE row.status = "ACCEPTED"
    BY <1>1, <2>1 DEF Cancels, Ev
  <2>2. CASE row.status = "CANCELLED"
    BY <1>1, <2>2 DEF Cancels, Ev
  <2>3. CASE row.status \notin {"ACCEPTED", "CANCELLED"}
    BY <2>3 DEF Cancels
  <2> QED BY <2>1, <2>2, <2>3
<1>3. b \in Seq(Event) /\ Cancels(b, o, x)
  BY <1>1 DEF Cancels, Ev
<1>4. d \in Seq(Event) /\ Cancels(d, o, x)
  BY <1>1 DEF Cancels, Ev
<1>5. StatusCallbacks(h, row, o, close) = (a \o b) \o d
  BY DEF StatusCallbacks
<1> HIDE DEF a, b, d, x
<1>6. a \o b \in Seq(Event) /\ Cancels(a \o b, o, x)
  BY <1>2, <1>3, CancelsConcat
<1>7. Cancels((a \o b) \o d, o, x)
  BY <1>4, <1>6, CancelsConcat
<1> QED BY <1>5, <1>7 DEF x

LEMMA CreateCancelsNot ==
  ASSUME NEW h, NEW o \in Orders, NEW s \in Sessions, NEW new \in BOOLEAN,
         NEW i \in DOMAIN CreateCallbacks(h, o, s, new)
  PROVE  CreateCallbacks(h, o, s, new)[i].type # "cancelled"
<1>1. Ev("started", s) \in Event /\ Ev(IF h = "waiter" THEN "placed" ELSE "created", o) \in Event
  BY DEF Ev, Event, EventTypes
<1> DEFINE a == IF new THEN <<Ev("started", s)>> ELSE <<>>
           b == <<Ev(IF h = "waiter" THEN "placed" ELSE "created", o)>>
<1>2. a \in Seq(Event) /\ Cancels(a, o, FALSE)
  BY <1>1 DEF Cancels, Ev
<1>3. b \in Seq(Event) /\ Cancels(b, o, FALSE)
  BY <1>1 DEF Cancels, Ev
<1>4. CreateCallbacks(h, o, s, new) = a \o b
  BY DEF CreateCallbacks
<1> HIDE DEF a, b
<1>5. Cancels(a \o b, o, FALSE)
  BY <1>2, <1>3, CancelsConcat
<1> QED BY <1>4, <1>5 DEF Cancels

\* An order out of service stays so.
LEMMA TerminalKept ==
  ASSUME TypeInv, LockInv, WritesOK, NEW p \in Procs, Start(p) \/ Continue(p) \/ Crash(p),
         NEW o \in Orders, order[o].status \in TerminalStatus
  PROVE  order'[o].status \in TerminalStatus
<1>1. Exists(o)
  BY DEF Exists, TerminalStatus
<1>2. CASE CreateCommit(p)
  <2>1. ctx[p].o # o
    BY <1>1, <1>2 DEF CreateCommit, TypeInv, AloneOK, Alone, IsCreating
  <2> QED BY <1>2, <2>1 DEF CreateCommit, TypeInv, TypeOK
<1>3. CASE ~CreateCommit(p)
  <2>1. order'[o].status \notin ActiveStatus
    BY <1>3, NoRevival DEF ActiveStatus, TerminalStatus
  <2>2. order'[o].status # "NONE" /\ order'[o] \in OrderRow
    BY <1>1, ProcessStep DEF RowsKept, Exists, TypeInv, TypeOK
  <2> QED BY <2>1, <2>2 DEF OrderRow, Statuses
<1> QED BY <1>2, <1>3

LEMMA CancelStep ==
  ASSUME TypeInv, LockInv, WritesOK, CancelInv,
         NEW p \in Procs, Start(p) \/ Continue(p) \/ Crash(p)
  PROVE  CancelInv'
<1>1. \A o \in Orders : order[o].status \in TerminalStatus => order'[o].status \in TerminalStatus
  BY TerminalKept
<1>2. Arrival(p) /\ ctx[p] \in Context
  BY ArrivalStep DEF TypeInv, TypeOK
<1>3. ASSUME NEW e \in sent', e.type = "cancelled"
      PROVE  e.id \in Orders /\ order'[e.id].status \in TerminalStatus
  <2>1. CASE e \in sent
    BY <1>1, <1>3, <2>1 DEF CancelInv
  <2>2. CASE e \notin sent
    <3>1. AcceptPublish(p) \/ Publish(p)
      BY <2>2, WritersStep
    <3>2. CASE AcceptPublish(p)
      BY <1>3, <2>2, <3>2 DEF AcceptPublish, Ev
    <3>3. CASE Publish(p)
      <4>1. /\ e = Head(ctx[p].cb) /\ pc[p] = "publishing" /\ ctx[p].cb \in Seq(Event)
            /\ ctx[p].cb # <<>>
        BY <1>2, <2>2, <3>3 DEF Publish, Context, TypeInv, LocalsOK, Local, Publishing
      <4>2. e = ctx[p].cb[1] /\ 1 \in DOMAIN ctx[p].cb
        BY <4>1
      <4> QED BY <1>1, <1>3, <4>1, <4>2 DEF CancelInv, CallbackOK
    <3> QED BY <3>1, <3>2, <3>3
  <2> QED BY <2>1, <2>2
<1>4. ASSUME NEW q \in Procs \ {p} PROVE CallbackOK(pc[q], ctx[q])'
  <2>1. CallbackOK(pc[q], ctx[q]) /\ pc'[q] = pc[q] /\ ctx'[q] = ctx[q]
    BY <1>2 DEF CancelInv, Arrival
  <2> QED BY <1>1, <2>1 DEF CallbackOK
<1>5. CallbackOK(pc[p], ctx[p])'
  <2>1. ASSUME \A i \in DOMAIN ctx'[p].cb : ctx'[p].cb[i].type # "cancelled"
        PROVE  CallbackOK(pc[p], ctx[p])'
    BY <2>1 DEF CallbackOK
  <2>2. ASSUME NEW cb, Callbacks(p, cb),
               \A i \in DOMAIN cb : cb[i].type = "cancelled" =>
                 cb[i].id \in Orders /\ order'[cb[i].id].status \in TerminalStatus
        PROVE  CallbackOK(pc[p], ctx[p])'
    <3>1. CASE ctx'[p] = NoCtx
      BY <2>1, <3>1 DEF NoCtx
    <3>2. CASE pc'[p] = "publishing" /\ ctx'[p] = [NoCtx EXCEPT !.cb = cb]
      <4>1. ctx'[p].cb = cb
        BY <3>2 DEF NoCtx
      <4> QED BY <2>2, <3>2, <4>1 DEF CallbackOK
    <3> QED BY <2>2, <3>1, <3>2, CallbacksAt
  <2>3. ASSUME NEW c \in Context, c.o \in Orders, c.row.ses \in Sessions, Locked(p, c),
               c.op = "cancel" => c.row.status = "CANCELLED"
        PROVE  CallbackOK(pc[p], ctx[p])'
    <3> DEFINE close == c.row.status \in TerminalStatus /\ LastActive(c.row.ses, c.o)
               cb == StatusCallbacks(c.op, c.row, c.o, close)
    <3>1. /\ pc'[p] = "locked" /\ ctx'[p] = [c EXCEPT !.close = close, !.cb = cb]
      BY <2>3, GotoAt DEF Locked
    <3>2. close \in BOOLEAN
      OBVIOUS
    <3> HIDE DEF close
    <3>3. Cancels(cb, c.o, c.row.status = "CANCELLED" \/ c.op = "cancel")
      BY <2>3, <3>2, StatusCancels
    <3> HIDE DEF cb
    <3>4. ctx'[p].cb = cb /\ ctx'[p].o = c.o /\ ctx'[p].row = c.row
      BY <3>1 DEF Context
    <3> QED BY <2>3, <3>1, <3>3, <3>4 DEF CallbackOK, Cancels, TerminalStatus
  <2>4. ASSUME pc[p] \notin {"locked", "publishing"}, ctx'[p].cb = ctx[p].cb
        PROVE  CallbackOK(pc[p], ctx[p])'
    BY <2>1, <2>4 DEF CancelInv, CallbackOK
  <2>5. ASSUME Done(p) PROVE CallbackOK(pc[p], ctx[p])'
    <3>1. ctx'[p].cb = <<>>
      BY <2>5, GotoAt DEF Done, NoCtx
    <3> QED BY <2>1, <3>1
  <2>6. CASE Start(p)
    <3>1. ASSUME NEW h, NEW u, NEW k, NEW t, NEW o, CreateKey(p, h, u, k, t, o)
          PROVE  ctx'[p].cb = <<>>
      <4>1. ctx'[p] = [NoCtx EXCEPT !.op = h, !.user = u, !.key = k, !.table = t, !.o = o]
        BY <3>1, GotoAt DEF CreateKey
      <4> QED BY <4>1 DEF NoCtx
    <3>2. ASSUME NEW h, NEW o, NEW st, ReadOrder(p, h, o, st) PROVE ctx'[p].cb = <<>>
      <4>1. ctx'[p] = [NoCtx EXCEPT !.op = h, !.o = o, !.s = order[o].ses,
                                    !.row = [order[o] EXCEPT !.status = st]]
        BY <3>2, GotoAt DEF ReadOrder
      <4> QED BY <4>1 DEF NoCtx
    <3>3. ASSUME NEW h, NEW s, ReadSession(p, h, s) PROVE ctx'[p].cb = <<>>
      <4>1. ctx'[p] = [NoCtx EXCEPT !.op = h, !.s = s]
        BY <3>3, GotoAt DEF ReadSession
      <4> QED BY <4>1 DEF NoCtx
    <3>4. ASSUME NEW o \in Orders, NEW st \in Statuses, KitchenEvent(p, o, st)
          PROVE  CallbackOK(pc[p], ctx[p])'
      <4> DEFINE row == [order[o] EXCEPT !.status = st]
                 c == [NoCtx EXCEPT !.op = "kitchen", !.o = o, !.s = order[o].ses, !.row = row]
      <4>1. Locked(p, c) /\ order[o].ses \in Sessions
        BY <3>4 DEF KitchenEvent, TypeInv, RowsOK
      <4>2. row \in OrderRow /\ row.ses = order[o].ses
        BY DEF OrderRow, TypeInv, TypeOK
      <4> HIDE DEF row
      <4>3. c \in Context /\ c.o = o /\ c.row = row /\ c.op = "kitchen"
        BY <4>1, <4>2, NoCtxType DEF Context, NoCtx, AllHandlers
      <4> HIDE DEF c
      <4> QED BY <2>3, <4>1, <4>2, <4>3
    <3> QED BY <2>1, <2>6, <3>1, <3>2, <3>3, <3>4 DEF Start
  <2>7. CASE CreateValidate(p) \/ CreateLock(p) \/ CreateSession(p) \/ AcceptPublish(p)
    <3>1. ASSUME NEW l, Goto(p, l, ctx[p]) PROVE ctx'[p].cb = ctx[p].cb
      BY <3>1, GotoAt
    <3>2. ASSUME NEW s, Goto(p, "inSession", [ctx[p] EXCEPT !.s = s])
          PROVE  ctx'[p].cb = ctx[p].cb
      BY <1>2, <3>2, GotoAt DEF Context
    <3>3. ASSUME NEW s, Goto(p, "inSession", [ctx[p] EXCEPT !.s = s, !.new = TRUE])
          PROVE  ctx'[p].cb = ctx[p].cb
      <4>1. ctx'[p] = [ctx[p] EXCEPT !.s = s, !.new = TRUE]
        BY <3>3, GotoAt
      <4> QED BY <1>2, <4>1 DEF Context
    <3>4. pc[p] \in {"keyed", "checked", "noSession", "accepting"}
      BY <2>7 DEF CreateValidate, CreateLock, CreateSession, AcceptPublish
    <3>5. Done(p) \/ ctx'[p].cb = ctx[p].cb
      BY <2>7, <3>1, <3>2, <3>3 DEF CreateValidate, CreateLock, CreateSession, AcceptPublish
    <3> QED BY <2>4, <2>5, <3>4, <3>5
  <2>8. CASE CreateStore(p)
    <3> DEFINE cb == CreateCallbacks(ctx[p].op, ctx[p].o, ctx[p].s, ctx[p].new)
    <3>1. ctx[p].o \in Orders /\ ctx[p].s \in Sessions /\ ctx[p].new \in BOOLEAN
      BY <1>2, <2>8 DEF CreateStore, TypeInv, LocalsOK, Local, Creating, Holding, Context
    <3>2. \A i \in DOMAIN cb : cb[i].type # "cancelled"
      BY <3>1, CreateCancelsNot
    <3> HIDE DEF cb
    <3>3. ctx'[p].cb = cb
      <4> DEFINE row == [status |-> IF ctx[p].op = "waiter" THEN "ACCEPTED" ELSE "CREATED",
                         user |-> ctx[p].user, ses |-> ctx[p].s, pay |-> "PENDING"]
      <4>1. ctx'[p] = [ctx[p] EXCEPT !.row = row, !.cb = cb]
        BY <2>8, GotoAt DEF CreateStore, cb
      <4> QED BY <1>2, <4>1 DEF Context
    <3> QED BY <2>1, <3>2, <3>3
  <2>9. CASE CreateCommit(p)
    <3>1. Callbacks(p, ctx[p].cb) /\ pc[p] = "stored"
      BY <2>9 DEF CreateCommit
    <3> QED BY <2>2, <3>1 DEF CancelInv, CallbackOK
  <2>10. CASE SaveOrder(p)
    <3>1. /\ Locked(p, ctx[p]) /\ ctx[p].o \in Orders /\ ctx[p].row.ses \in Sessions
          /\ ctx[p].op = "cancel" => ctx[p].row.status = "CANCELLED"
      BY <2>10 DEF SaveOrder, TypeInv, LocalsOK, Local, Updating, RowsOK, WritesOK, WriteOK
    <3> QED BY <1>2, <2>3, <3>1
  <2>11. CASE CommitStatus(p)
    <3>1. Callbacks(p, ctx[p].cb) /\ pc[p] = "locked" /\ ctx[p].o \in Orders
          /\ order' = [order EXCEPT ![ctx[p].o] = ctx[p].row]
      BY <2>11 DEF CommitStatus, TypeInv, LocalsOK, Local, Updating
    <3>2. order'[ctx[p].o] = ctx[p].row
      BY <3>1 DEF TypeInv, TypeOK
    <3>3. \A i \in DOMAIN ctx[p].cb : ctx[p].cb[i].type = "cancelled" =>
            ctx[p].cb[i].id = ctx[p].o /\ ctx[p].row.status \in TerminalStatus
      BY <3>1 DEF CancelInv, CallbackOK
    <3> QED BY <2>2, <3>1, <3>2, <3>3
  <2>12. CASE CloseSession(p)
    <3>1. Callbacks(p, <<Ev("closed", ctx[p].s)>>)
      BY <2>12 DEF CloseSession
    <3> QED BY <2>2, <3>1 DEF Ev
  <2>13. CASE Publish(p)
    <3>1. /\ Callbacks(p, Tail(ctx[p].cb)) /\ pc[p] = "publishing" /\ ctx[p].cb \in Seq(Event)
          /\ ctx[p].cb # <<>>
      BY <1>2, <2>13 DEF Publish, Context, TypeInv, LocalsOK, Local, Publishing
    <3>2. ASSUME NEW i \in DOMAIN Tail(ctx[p].cb)
          PROVE  i + 1 \in DOMAIN ctx[p].cb /\ Tail(ctx[p].cb)[i] = ctx[p].cb[i + 1]
      BY <3>1
    <3>3. \A i \in DOMAIN ctx[p].cb : ctx[p].cb[i].type = "cancelled" =>
            ctx[p].cb[i].id \in Orders /\ order'[ctx[p].cb[i].id].status \in TerminalStatus
      BY <1>1, <3>1 DEF CancelInv, CallbackOK
    <3> QED BY <2>2, <3>1, <3>2, <3>3
  <2>14. CASE AcceptSave(p) \/ Crash(p)
    BY <2>5, <2>14 DEF AcceptSave, Crash
  <2> QED BY <2>6, <2>7, <2>8, <2>9, <2>10, <2>11, <2>12, <2>13, <2>14 DEF Continue
<1> QED BY <1>3, <1>4, <1>5 DEF CancelInv

LEMMA CancelNext ==
  ASSUME TypeInv, LockInv, WritesOK, CancelInv, [Next]_vars
  PROVE  CancelInv'
<1>1. CASE \E p \in Procs : Start(p) \/ Continue(p) \/ Crash(p)
  BY <1>1, CancelStep
<1>2. CASE ~\E p \in Procs : Start(p) \/ Continue(p) \/ Crash(p)
  BY <1>2, OtherStep DEF CancelInv, CallbackOK
<1> QED BY <1>1, <1>2

LEMMA CancelInit == Init => CancelInv
  BY DEF Init, CancelInv, CallbackOK, NoCtx

\* Whoever hears of a cancellation may rely on it: the order never returns to
\* service, provided that nothing read without a lock is written back active.
THEOREM CancellationsHold ==
  ASSUME TerminalWrites
  PROVE  Spec => []CancellationIsFinal
<1>1. Init => TypeInv /\ LockInv /\ UserInv /\ CancelInv
  BY InitInv, LockInit, UserInit, CancelInit
<1>2. TypeInv /\ LockInv /\ UserInv /\ CancelInv /\ [Next]_vars =>
        (TypeInv /\ LockInv /\ UserInv /\ CancelInv)'
  BY NextInv, LockNext, UserNext, CancelNext DEF UserInv
<1>3. CancelInv => CancellationIsFinal
  BY DEF CancelInv, CancellationIsFinal
<1> QED BY <1>1, <1>2, <1>3, PTL DEF Spec
------------------------------------------------------------------------------
(* Every move is legal while no two requests work on one order at a time.    *)

LEMMA LockedAt ==
  ASSUME TypeInv, NEW p \in Procs, NEW c \in Context, Locked(p, c)
  PROVE  /\ pc'[p] = "locked"
         /\ ctx'[p].o = c.o /\ ctx'[p].s = c.s /\ ctx'[p].row = c.row
         /\ ctx'[p].close <=>
              c.row.status \in TerminalStatus /\ LastActive(c.row.ses, c.o)
<1> DEFINE close == c.row.status \in TerminalStatus /\ LastActive(c.row.ses, c.o)
           cb == StatusCallbacks(c.op, c.row, c.o, close)
<1>1. close \in BOOLEAN
  OBVIOUS
<1>2. pc'[p] = "locked" /\ ctx'[p] = [c EXCEPT !.close = close, !.cb = cb]
  BY GotoAt DEF Locked
<1> HIDE DEF close, cb
<1>3. ctx'[p].o = c.o /\ ctx'[p].s = c.s /\ ctx'[p].row = c.row /\ ctx'[p].close = close
  BY <1>2 DEF Context
<1> QED BY <1>1, <1>2, <1>3 DEF close

LEMMA ReadAt ==
  ASSUME TypeInv, NEW p \in Procs, NEW h \in Handlers, NEW o \in Orders, NEW st \in Statuses,
         ReadOrder(p, h, o, st)
  PROVE  /\ ctx'[p].o = o /\ ctx'[p].s = order[o].ses
         /\ ctx'[p].row.status = st
<1> DEFINE row == [order[o] EXCEPT !.status = st]
<1>1. ctx'[p] = [NoCtx EXCEPT !.op = h, !.o = o, !.s = order[o].ses, !.row = row]
  BY GotoAt DEF ReadOrder
<1>2. row.status = st
  BY DEF TypeInv, TypeOK, OrderRow
<1> HIDE DEF row
<1>3. ctx'[p].o = o /\ ctx'[p].s = order[o].ses /\ ctx'[p].row = row
  BY <1>1 DEF NoCtx
<1> QED BY <1>2, <1>3

LEMMA KitchenAt ==
  ASSUME TypeInv, NEW p \in Procs, NEW o \in Orders, NEW st \in Statuses, KitchenEvent(p, o, st)
  PROVE  /\ ctx'[p].o = o /\ ctx'[p].s = order[o].ses
         /\ ctx'[p].row.status = st
         /\ ctx'[p].close <=> st \in TerminalStatus /\ LastActive(order[o].ses, o)
<1> DEFINE row == [order[o] EXCEPT !.status = st]
           c == [NoCtx EXCEPT !.op = "kitchen", !.o = o, !.s = order[o].ses, !.row = row]
<1>1. Locked(p, c) /\ order[o].ses \in Sessions
  BY DEF KitchenEvent, TypeInv, RowsOK
<1>2. row \in OrderRow /\ row.status = st /\ row.ses = order[o].ses
  BY DEF TypeInv, TypeOK, OrderRow
<1> HIDE DEF row
<1>3. c \in Context /\ c.o = o /\ c.s = order[o].ses /\ c.row = row
  BY <1>1, <1>2, NoCtxType DEF Context, NoCtx, AllHandlers
<1> HIDE DEF c
<1>4. /\ ctx'[p].o = c.o /\ ctx'[p].s = c.s /\ ctx'[p].row = c.row
      /\ ctx'[p].close <=> c.row.status \in TerminalStatus /\ LastActive(c.row.ses, c.o)
  BY <1>1, <1>3, LockedAt
<1> QED BY <1>2, <1>3, <1>4

IsUpdating(l) == l \in {"read", "accepting", "accepted", "locked"}

\* No two requests that have read an order are about to write it.
SerialUpdates ==
  \A p, q \in Procs :
    p # q /\ IsUpdating(pc[p]) /\ IsUpdating(pc[q]) => ctx[p].o # ctx[q].o

\* What a request is about to write is a legal move from the committed status.
MoveOK(l, c) == IsUpdating(l) => c.row.status \in Allowed(order[c.o].status)
MoveInv == \A p \in Procs : MoveOK(pc[p], ctx[p])

\* A step of p leaves the status of every order that others are updating.
LEMMA UpdatesApart ==
  ASSUME TypeInv, SerialUpdates, NEW p \in Procs, Start(p) \/ Continue(p) \/ Crash(p),
         NEW q \in Procs \ {p}, IsUpdating(pc[q])
  PROVE  order'[ctx[q].o].status = order[ctx[q].o].status
<1>1. ctx[q].o \in Orders /\ Exists(ctx[q].o)
  BY DEF TypeInv, LocalsOK, Local, Updating, IsUpdating
<1>2. CASE CreateCommit(p)
  <2>1. ~Exists(ctx[p].o) /\ order' = [order EXCEPT ![ctx[p].o] = ctx[p].row]
    BY <1>2 DEF CreateCommit, TypeInv, AloneOK, Alone, IsCreating
  <2> QED BY <1>1, <2>1 DEF TypeInv, TypeOK
<1>3. CASE AcceptSave(p) \/ CommitStatus(p)
  <2>1. /\ IsUpdating(pc[p]) /\ order' = [order EXCEPT ![ctx[p].o] = ctx[p].row]
    BY <1>3 DEF AcceptSave, CommitStatus, IsUpdating
  <2>2. ctx[p].o # ctx[q].o
    BY <2>1 DEF SerialUpdates
  <2> QED BY <1>1, <2>1, <2>2 DEF TypeInv, TypeOK
<1>4. CASE order' = order
  BY <1>4
<1> QED BY <1>2, <1>3, <1>4, WritersStep

LEMMA MoveStep ==
  ASSUME TypeInv, SerialUpdates, MoveInv, NEW p \in Procs, Start(p) \/ Continue(p) \/ Crash(p)
  PROVE  MoveInv'
<1>1. Arrival(p) /\ ctx[p] \in Context
  BY ArrivalStep DEF TypeInv, TypeOK
<1>2. ASSUME NEW q \in Procs \ {p} PROVE MoveOK(pc[q], ctx[q])'
  <2>1. MoveOK(pc[q], ctx[q]) /\ pc'[q] = pc[q] /\ ctx'[q] = ctx[q]
    BY <1>1 DEF MoveInv, Arrival
  <2> QED BY <2>1, UpdatesApart DEF MoveOK
<1>3. CASE pc'[p] \in {"read", "accepting"}
  <2>1. PICK h \in Handlers, o \in Orders, st \in Statuses : ReadOrder(p, h, o, st)
    BY <1>1, <1>3 DEF Arrival
  <2>2. ctx'[p].o = o /\ ctx'[p].row.status = st
    BY <2>1, ReadAt
  <2>3. order' = order /\ st \in Allowed(order[o].status)
    BY <2>1 DEF ReadOrder, db
  <2> QED BY <1>2, <2>2, <2>3 DEF MoveInv, MoveOK
<1>4. CASE pc'[p] = "accepted"
  <2>1. AcceptPublish(p)
    BY <1>1, <1>4 DEF Arrival
  <2>2. pc[p] = "accepting" /\ ctx'[p] = ctx[p] /\ order' = order
    BY <2>1, GotoAt DEF AcceptPublish, db
  <2> QED BY <1>2, <2>2 DEF MoveInv, MoveOK, IsUpdating
<1>5. CASE pc'[p] = "locked"
  <2>1. CASE SaveOrder(p)
    <3>1. pc[p] = "read" /\ Locked(p, ctx[p]) /\ order' = order
      BY <2>1 DEF SaveOrder, db
    <3>2. ctx'[p].o = ctx[p].o /\ ctx'[p].row = ctx[p].row
      BY <1>1, <3>1, LockedAt
    <3> QED BY <1>2, <3>1, <3>2 DEF MoveInv, MoveOK, IsUpdating
  <2>2. ASSUME NEW o \in Orders, NEW st \in Statuses, KitchenEvent(p, o, st)
        PROVE  MoveInv'
    <3>1. ctx'[p].o = o /\ ctx'[p].row.status = st
      BY <2>2, KitchenAt
    <3>2. order' = order /\ st \in Allowed(order[o].status)
      BY <2>2 DEF KitchenEvent, db
    <3> QED BY <1>2, <3>1, <3>2 DEF MoveInv, MoveOK
  <2> QED BY <1>1, <1>5, <2>1, <2>2 DEF Arrival
<1>6. CASE ~IsUpdating(pc'[p])
  BY <1>2, <1>6 DEF MoveInv, MoveOK
<1> QED BY <1>3, <1>4, <1>5, <1>6 DEF IsUpdating

LEMMA MoveNext ==
  ASSUME TypeInv, SerialUpdates, MoveInv, [Next]_vars
  PROVE  /\ MoveInv'
         /\ \A o \in Orders : Exists(o) /\ order'[o].status # order[o].status =>
              order'[o].status \in Allowed(order[o].status)
<1>1. CASE \E p \in Procs : Start(p) \/ Continue(p) \/ Crash(p)
  <2>1. PICK p \in Procs : Start(p) \/ Continue(p) \/ Crash(p)
    BY <1>1
  <2>2. ASSUME NEW o \in Orders, Exists(o), order'[o].status # order[o].status
        PROVE  order'[o].status \in Allowed(order[o].status)
    <3>1. CASE CreateCommit(p)
      <4>1. ~Exists(ctx[p].o) /\ order' = [order EXCEPT ![ctx[p].o] = ctx[p].row]
        BY <3>1 DEF CreateCommit, TypeInv, AloneOK, Alone, IsCreating
      <4> QED BY <2>2, <4>1 DEF TypeInv, TypeOK
    <3>2. CASE AcceptSave(p) \/ CommitStatus(p)
      <4>1. /\ IsUpdating(pc[p]) /\ order' = [order EXCEPT ![ctx[p].o] = ctx[p].row]
        BY <3>2 DEF AcceptSave, CommitStatus, IsUpdating
      <4>2. o = ctx[p].o /\ order'[o] = ctx[p].row
        BY <2>2, <4>1 DEF TypeInv, TypeOK
      <4> QED BY <4>1, <4>2 DEF MoveInv, MoveOK
    <3> QED BY <2>1, <2>2, <3>1, <3>2, WritersStep
  <2> QED BY <2>1, <2>2, MoveStep
<1>2. CASE ~\E p \in Procs : Start(p) \/ Continue(p) \/ Crash(p)
  <2>1. /\ \A o \in Orders : order'[o].status = order[o].status
        /\ UNCHANGED <<pc, ctx>>
    BY <1>2, OtherStep
  <2>2. \A q \in Procs : IsUpdating(pc[q]) => ctx[q].o \in Orders
    BY DEF TypeInv, LocalsOK, Local, Updating, IsUpdating
  <2> QED BY <2>1, <2>2 DEF MoveInv, MoveOK
<1> QED BY <1>1, <1>2

LEMMA MoveInit == Init => MoveInv
  BY DEF Init, MoveInv, MoveOK, IsUpdating

\* Committed statuses follow the allowed table in every behaviour in which no
\* two requests update one order at a time: the views check the move on what
\* they read and rely on nothing else.
THEOREM MovesAreLegal == Spec /\ []SerialUpdates => MovesLegal
<1>1. Init => TypeInv /\ MoveInv
  BY InitInv, MoveInit
<1>2. TypeInv /\ MoveInv /\ SerialUpdates /\ [Next]_vars => (TypeInv /\ MoveInv)'
  BY NextInv, MoveNext
<1>3. TypeInv /\ MoveInv /\ SerialUpdates /\ [Next]_vars =>
        [\A o \in Orders : Exists(o) /\ order'[o].status # order[o].status =>
           order'[o].status \in Allowed(order[o].status)]_vars
  BY MoveNext
<1> QED BY <1>1, <1>2, <1>3, PTL DEF Spec, MovesLegal
------------------------------------------------------------------------------
(* The idempotency keys. *)

\* CreateStore writes the key of its own request.
LEMMA StoreKey ==
  ASSUME TypeInv, NEW p \in Procs, CreateStore(p)
  PROVE  /\ ctx[p].user \in Users /\ ctx[p].key \in Keys
         /\ idem'[ctx[p].user][ctx[p].key] = ctx[p].o
         /\ \A u \in Users, k \in Keys :
              u # ctx[p].user \/ k # ctx[p].key => idem'[u][k] = idem[u][k]
<1>1. pc[p] = "inSession" /\ idem' = [idem EXCEPT ![ctx[p].user][ctx[p].key] = ctx[p].o]
  BY DEF CreateStore
<1>2. ctx[p].user \in Users /\ ctx[p].key \in Keys
  BY <1>1 DEF TypeInv, LocalsOK, Local, Creating
<1> QED BY <1>1, <1>2 DEF TypeInv, TypeOK

\* What a key names is a committed order of the user, or one a request of the
\* user is about to commit.
BackedInv ==
  \A u \in Users, k \in Keys : idem[u][k] # NoVal =>
    \/ Exists(idem[u][k]) /\ order[idem[u][k]].user = u
    \/ \E p \in Procs : pc[p] = "stored" /\ ctx[p].o = idem[u][k] /\ ctx[p].user = u

LEMMA BackedStep ==
  ASSUME "crash" \notin Handlers, TypeInv, BackedInv,
         NEW p \in Procs, Start(p) \/ Continue(p) \/ Crash(p)
  PROVE  BackedInv'
<1> DEFINE Backed(u, o) ==
             \/ Exists(o) /\ order[o].user = u
             \/ \E q \in Procs : pc[q] = "stored" /\ ctx[q].o = o /\ ctx[q].user = u
<1>1. Arrival(p) /\ RowsKept /\ ctx[p] \in Context
  BY ArrivalStep, ProcessStep DEF TypeInv, TypeOK
<1>2. ASSUME NEW u \in Users, NEW o \in Orders, Backed(u, o)
      PROVE  Backed(u, o)'
  <2>1. CASE Exists(o) /\ order[o].user = u
    BY <1>1, <2>1 DEF RowsKept
  <2>2. ASSUME NEW q \in Procs, pc[q] = "stored", ctx[q].o = o, ctx[q].user = u
        PROVE  Backed(u, o)'
    <3>1. CASE q # p
      BY <1>1, <2>2, <3>1 DEF Arrival
    <3>2. CASE q = p
      <4>1. CreateCommit(p)
        BY <2>2, <3>2
           DEF Start, Continue, CreateKey, ReadOrder, KitchenEvent, ReadSession, CreateValidate,
               CreateLock, CreateSession, CreateStore, AcceptPublish, AcceptSave, SaveOrder,
               CommitStatus, CloseSession, Publish, Crash
      <4>2. /\ order' = [order EXCEPT ![o] = ctx[p].row] /\ ctx[p].row.user = u
            /\ ctx[p].row.status \in ActiveStatus
        BY <2>2, <3>2, <4>1 DEF CreateCommit, TypeInv, LocalsOK, Local, Storing
      <4> QED BY <4>2 DEF TypeInv, TypeOK, Exists, ActiveStatus
    <3> QED BY <3>1, <3>2
  <2> QED BY <1>2, <2>1, <2>2
<1>3. ASSUME NEW u \in Users, NEW k \in Keys, NEW o \in Orders, idem'[u][k] = o
      PROVE  Backed(u, o)'
  <2>1. CASE idem'[u][k] = idem[u][k]
    <3>1. Backed(u, o)
      BY HandlersAssumption, <1>3, <2>1 DEF BackedInv
    <3> QED BY <1>2, <3>1
  <2>2. CASE idem'[u][k] # idem[u][k]
    <3>1. CreateStore(p)
      BY <2>2, WritersStep
    <3>2. u = ctx[p].user /\ o = ctx[p].o
      BY <1>3, <2>2, <3>1, StoreKey
    <3>3. pc'[p] = "stored" /\ ctx'[p].o = ctx[p].o /\ ctx'[p].user = ctx[p].user
      <4> DEFINE row == [status |-> IF ctx[p].op = "waiter" THEN "ACCEPTED" ELSE "CREATED",
                         user |-> ctx[p].user, ses |-> ctx[p].s, pay |-> "PENDING"]
                 cb == CreateCallbacks(ctx[p].op, ctx[p].o, ctx[p].s, ctx[p].new)
      <4>1. pc'[p] = "stored" /\ ctx'[p] = [ctx[p] EXCEPT !.row = row, !.cb = cb]
        BY <3>1, GotoAt DEF CreateStore
      <4> HIDE DEF row, cb
      <4>2. ctx'[p].o = ctx[p].o /\ ctx'[p].user = ctx[p].user
        BY <1>1, <4>1 DEF Context
      <4> QED BY <4>1, <4>2
    <3> QED BY <3>2, <3>3
  <2> QED BY <2>1, <2>2
<1>4. \A u \in Users, k \in Keys : idem'[u][k] # NoVal => idem'[u][k] \in Orders
  BY ProcessStep DEF TypeInv, TypeOK
<1>5. \A u \in Users, k \in Keys, o \in Orders : idem'[u][k] = o => Backed(u, o)'
  BY <1>3
<1> QED BY <1>4, <1>5 DEF BackedInv

LEMMA BackedNext ==
  ASSUME "crash" \notin Handlers, TypeInv, BackedInv, [Next]_vars
  PROVE  BackedInv'
<1>1. CASE \E p \in Procs : Start(p) \/ Continue(p) \/ Crash(p)
  BY <1>1, BackedStep
<1>2. CASE ~\E p \in Procs : Start(p) \/ Continue(p) \/ Crash(p)
  <2>1. /\ \A o \in Orders : order'[o].status = order[o].status /\ order'[o].user = order[o].user
        /\ \A u \in Users, k \in Keys : idem'[u][k] \in {idem[u][k], NoVal}
        /\ UNCHANGED <<pc, ctx>>
    BY <1>2, OtherStep
  <2>2. \A u \in Users, k \in Keys : idem[u][k] \in Orders \cup {NoVal}
    BY DEF TypeInv, TypeOK
  <2> QED BY <2>1, <2>2 DEF BackedInv, Exists
<1> QED BY <1>1, <1>2

LEMMA BackedInit == Init => BackedInv
  BY DEF Init, BackedInv

\* Unless a transaction is rolled back after the cache was written, a key that
\* is remembered leads to an order of the user who sent it.
THEOREM KeysLeadToOrders ==
  ASSUME "crash" \notin Handlers
  PROVE  Spec => []KeysAreBacked
<1>1. Init => TypeInv /\ BackedInv
  BY InitInv, BackedInit
<1>2. TypeInv /\ BackedInv /\ [Next]_vars => (TypeInv /\ BackedInv)'
  BY NextInv, BackedNext
<1>3. BackedInv => KeysAreBacked
  BY DEF BackedInv, KeysAreBacked
<1> QED BY <1>1, <1>2, <1>3, PTL DEF Spec
=============================================================================
