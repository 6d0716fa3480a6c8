------------------------------- MODULE Tables -------------------------------
(* A table of a restaurant as the services see it.  The order service opens  *)
(* and closes its sessions and announces them after the commit, on a topic   *)
(* each; the auth service and the AI service take from them whether the      *)
(* table is occupied, and by whom.  Administrators edit the table in the     *)
(* auth service, which publishes the row; the order service keeps a snapshot *)
(* of it with a version guard, the AI service one without.                   *)
(*                                                                           *)
(* One table, which is not deleted; that it has one ACTIVE session at most   *)
(* is OrderService's business.  A consumer may have several processes, a     *)
(* topic for each: what they do to the table is done under its row lock, or, *)
(* in the AI service, with the write or the read that settles it.  Errors of *)
(* the consumers are ConsumerLoop's.                                         *)
EXTENDS Integers, Sequences

CONSTANTS
  Users,
  Admins,       \* requests of administrators that run at the same time
  MaxSessions,  \* bounds the sessions
  MaxEdits,     \* bounds the requests of administrators
  MaxDeaths,    \* bounds the deaths
  NoUser, NoEdit

ASSUME TablesAssumption ==
  /\ NoUser \notin Users
  /\ MaxSessions \in Nat /\ MaxEdits \in Nat /\ MaxDeaths \in Nat

VARIABLES
  active,    \* who opened the ACTIVE session
  outbox,    \* session events whose callback has not run
  topics,    \* what each consumer of session events has not committed
  row,       \* the table in the auth service
  admin,     \* the row each administrator is about to write
  upserts,   \* what each consumer of table events has not committed
  snapshot,  \* the table in the order service
  ai,        \* is_occupied in the AI service
  doubt,     \* services that may know the table other than it is
  crowded,   \* edits have overlapped
  opened, edits, deaths

vars == <<active, outbox, topics, row, admin, upserts, snapshot, ai, doubt, crowded,
          opened, edits, deaths>>
sessions == <<active, opened>>
editing == <<admin, crowded, edits>>
------------------------------------------------------------------------------
Readers == {"auth", "ai"}       \* of session events
Followers == {"order", "ai"}    \* of table events
Kinds == {"started", "closed"}

\* What the code does not order or repair at once: an event lost with its
\* process; a reader that takes an event before an older one, of the other
\* topic; an edit that writes another occupancy than the row has, by hand or
\* because it was read before a session changed; an upsert that tells the AI
\* service other than it has heard; an edit that is saved and not announced.
Doubters == Readers \cup {"order"}
SessionEvent == [kind : Kinds, n : 1..MaxSessions, user : Users \cup {NoUser}, copy : 1..2]
Row == [occupied : BOOLEAN, by : Users \cup {NoUser}, enabled : BOOLEAN, version : Nat]
Edit == [step : {"read", "numbered", "saved"}, row : Row]
Upsert == [occupied : BOOLEAN, enabled : BOOLEAN, version : Nat]

ASSUME NoEditIsNoEdit == NoEdit \notin Edit

\* The table was created, and everybody knows.
Init ==
  /\ active = NoUser /\ outbox = {} /\ opened = 0 /\ edits = 0 /\ deaths = 0
  /\ topics = [r \in Readers |-> [k \in Kinds |-> <<>>]]
  /\ row = [occupied |-> FALSE, by |-> NoUser, enabled |-> TRUE, version |-> 1]
  /\ admin = [a \in Admins |-> NoEdit]
  /\ upserts = [s \in Followers |-> <<>>]
  /\ snapshot = [enabled |-> TRUE, version |-> 1]
  /\ ai = FALSE /\ doubt = {} /\ crowded = FALSE

Coming(r) == outbox \cup UNION {{topics[r][k][i] : i \in DOMAIN topics[r][k]} : k \in Kinds}
Older(x, e) == x.n < e.n \/ (x.n = e.n /\ x.kind = "started" /\ e.kind = "closed")
DoubtIf(wrong, r) == doubt' = IF wrong THEN doubt \cup {r} ELSE doubt
------------------------------------------------------------------------------
(* Sessions in the order service *)

Open(u) ==
  /\ active = NoUser /\ snapshot.enabled
  /\ opened < MaxSessions
  /\ active' = u /\ opened' = opened + 1
  /\ outbox' = outbox \cup {[kind |-> "started", n |-> opened + 1, user |-> u, copy |-> 1]}
  /\ UNCHANGED <<topics, row, editing, upserts, snapshot, ai, doubt, deaths>>

\* Two requests may both find the session ACTIVE and close it.
Close ==
  /\ active # NoUser
  /\ active' = NoUser
  /\ \E copies \in {{1}, {1, 2}} :
       outbox' = outbox \cup {[kind |-> "closed", n |-> opened, user |-> NoUser, copy |-> c] :
                                c \in copies}
  /\ UNCHANGED <<topics, row, editing, upserts, snapshot, ai, doubt, opened, deaths>>

Announce(e) ==
  /\ e \in outbox /\ outbox' = outbox \ {e}
  /\ topics' = [r \in Readers |-> [topics[r] EXCEPT ![e.kind] = Append(@, e)]]
  /\ UNCHANGED <<sessions, row, editing, upserts, snapshot, ai, doubt, deaths>>

\* The process dies before its callbacks.
Lose(e) ==
  /\ e \in outbox /\ outbox' = outbox \ {e} /\ doubt' = doubt \cup Readers
  /\ deaths < MaxDeaths /\ deaths' = deaths + 1
  /\ UNCHANGED <<sessions, topics, row, editing, upserts, snapshot, ai>>
------------------------------------------------------------------------------
(* Session events in the auth service and the AI service *)

\* A table that is occupied stays as it is, whoever asks.
OccupiedBy(e) == IF row.occupied THEN row ELSE [row EXCEPT !.occupied = TRUE, !.by = e.user]

Freed == [row EXCEPT !.occupied = FALSE, !.by = NoUser]

\* Mutated form: a closed session leaves its table as it is.
TakeStarts(r, e) ==
  /\ row' = IF r = "auth" /\ e.kind = "started" THEN OccupiedBy(e) ELSE row
  /\ ai' = IF r = "ai" THEN e.kind = "started" ELSE ai

\* A reader is in doubt when it takes an event before an older one; the closing
\* of the last session, if nothing older is to come, puts the table right.
Doubted(r, e) ==
  doubt' = IF \E x \in Coming(r) : Older(x, e) THEN doubt \cup {r}
           ELSE IF e.kind = "closed" /\ e.n = opened THEN doubt \ {r} ELSE doubt

\* process_event under a row lock, saving two columns; and handle_table_session.
Take(r, e) ==
  /\ row' = CASE r = "ai" -> row
              [] r = "auth" /\ e.kind = "started" -> OccupiedBy(e)
              [] r = "auth" /\ e.kind = "closed" -> Freed
  /\ ai' = IF r = "ai" THEN e.kind = "started" ELSE ai

Consume(r, k) ==
  /\ topics[r][k] # <<>> /\ Take(r, Head(topics[r][k])) /\ Doubted(r, Head(topics[r][k]))
  /\ topics' = [topics EXCEPT ![r][k] = Tail(@)]
  /\ UNCHANGED <<sessions, outbox, editing, upserts, snapshot, deaths>>

\* The consumer dies before its commit: the event comes again.
ConsumerDies(r, k) ==
  /\ topics[r][k] # <<>> /\ Take(r, Head(topics[r][k])) /\ Doubted(r, Head(topics[r][k]))
  /\ deaths < MaxDeaths /\ deaths' = deaths + 1
  /\ UNCHANGED <<sessions, outbox, topics, editing, upserts, snapshot>>
------------------------------------------------------------------------------
(* Edits of the table *)

\* The row is read; what is edited is is_active, or the occupancy by hand.
Read(a) ==
  /\ admin[a] = NoEdit /\ edits < MaxEdits /\ edits' = edits + 1
  /\ \E on \in BOOLEAN, base \in {row, Freed} :
       admin' = [admin EXCEPT ![a] = [step |-> "read", row |-> [base EXCEPT !.enabled = on]]]
  /\ crowded' = (crowded \/ \E b \in Admins : admin[b] # NoEdit)
  /\ UNCHANGED <<sessions, outbox, topics, row, upserts, snapshot, ai, doubt, deaths>>

\* Mutated form: the version is that of the row as it was.
NumberAsRead(a) ==
  /\ admin[a] # NoEdit /\ admin[a].step = "read"
  /\ admin' = [admin EXCEPT ![a].step = "numbered"]
  /\ UNCHANGED <<sessions, outbox, topics, row, crowded, edits, upserts, snapshot, ai, doubt, deaths>>

\* Table.save reads the version that is committed now.
Number(a) ==
  /\ admin[a] # NoEdit /\ admin[a].step = "read"
  /\ admin' = [admin EXCEPT ![a].step = "numbered", ![a].row.version = row.version + 1]
  /\ UNCHANGED <<sessions, outbox, topics, row, crowded, edits, upserts, snapshot, ai, doubt, deaths>>

\* Every column is written.
Save(a) ==
  /\ admin[a] # NoEdit /\ admin[a].step = "numbered"
  /\ row' = admin[a].row
  /\ DoubtIf(row'.occupied # row.occupied \/ row'.by # row.by, "auth")
  /\ admin' = [admin EXCEPT ![a].step = "saved"]
  /\ UNCHANGED <<sessions, outbox, topics, crowded, edits, upserts, snapshot, ai, deaths>>

\* publish_table_upsert_event, after the commit: the whole row once more.
Publish(a) ==
  /\ admin[a] # NoEdit /\ admin[a].step = "saved"
  /\ LET r == admin[a].row
         e == [occupied |-> r.occupied, enabled |-> r.enabled, version |-> r.version]
     IN upserts' = [s \in Followers |-> Append(upserts[s], e)]
  /\ admin' = [admin EXCEPT ![a] = NoEdit]
  /\ doubt' = doubt \ {"order"}
  /\ UNCHANGED <<sessions, outbox, topics, row, crowded, edits, snapshot, ai, deaths>>

\* The process dies before it publishes, or the broker does not take the event:
\* the delivery report writes to the log.
GoUnsaid(a) ==
  /\ admin[a] # NoEdit /\ admin[a].step = "saved"
  /\ admin' = [admin EXCEPT ![a] = NoEdit]
  /\ doubt' = doubt \cup {"order"}
  /\ UNCHANGED <<sessions, outbox, topics, row, crowded, edits, upserts, snapshot, ai, deaths>>

\* The version guard of the order service.
OrderUpsert ==
  /\ upserts["order"] # <<>>
  /\ LET e == Head(upserts["order"])
     IN snapshot' = IF e.version <= snapshot.version THEN snapshot
                    ELSE [enabled |-> e.enabled, version |-> e.version]
  /\ upserts' = [upserts EXCEPT !["order"] = Tail(@)]
  /\ UNCHANGED <<sessions, outbox, topics, row, editing, ai, doubt, deaths>>

\* ingest_tables writes the metadata anew.
AiUpsert ==
  /\ upserts["ai"] # <<>>
  /\ ai' = Head(upserts["ai"]).occupied
  /\ DoubtIf(ai' # ai, "ai")
  /\ upserts' = [upserts EXCEPT !["ai"] = Tail(@)]
  /\ UNCHANGED <<sessions, outbox, topics, row, editing, snapshot, deaths>>

SessionSide == (\E u \in Users : Open(u)) \/ Close
               \/ (\E e \in outbox : Announce(e) \/ Lose(e))
Consumers == \E r \in Readers, k \in Kinds : Consume(r, k) \/ ConsumerDies(r, k)
EditSide == (\E a \in Admins : Read(a) \/ Number(a) \/ Save(a) \/ Publish(a) \/ GoUnsaid(a))
            \/ OrderUpsert \/ AiUpsert

Next == SessionSide \/ Consumers \/ EditSide

Spec == Init /\ [][Next]_vars
------------------------------------------------------------------------------
(* Properties *)

\* Types of the events, the rows and the requests.
TypeOK ==
  /\ active \in Users \cup {NoUser} /\ outbox \subseteq SessionEvent
  /\ topics \in [Readers -> [Kinds -> Seq(SessionEvent)]]
  /\ row \in Row /\ admin \in [Admins -> Edit \cup {NoEdit}]
  /\ upserts \in [Followers -> Seq(Upsert)]
  /\ snapshot \in [enabled : BOOLEAN, version : Nat] /\ ai \in BOOLEAN
  /\ doubt \subseteq Doubters /\ crowded \in BOOLEAN
  /\ opened \in 0..MaxSessions /\ edits \in 0..MaxEdits /\ deaths \in 0..MaxDeaths

\* When no session event is on its way to the auth service, or to the AI
\* service, it has the table occupied if it has an ACTIVE session, and the auth
\* service by the user who opened it: nobody else is let in, and it is offered
\* again when the session is over.  However many sessions were on their way at
\* once, in whatever order the topics were read and whatever died or was edited:
\* after one of the mishaps named above this holds again from the closing of a
\* session on, if it is the last and nothing older is still to come.
OccupancyFollows ==
  /\ Coming("auth") = {} /\ "auth" \notin doubt =>
       (row.occupied <=> active # NoUser) /\ row.by = active
  /\ Coming("ai") = {} /\ "ai" \notin doubt => (ai <=> active # NoUser)

\* When nothing is on its way, the order service takes orders for the table if
\* the administrators left it enabled: session events write nothing of an edit,
\* none is taken for a stale one, and one that was never announced is made up
\* for by the next that is; unless two edits overlapped.
SnapshotFollows ==
  /\ upserts["order"] = <<>> /\ (\A a \in Admins : admin[a] = NoEdit)
  /\ ~crowded /\ "order" \notin doubt
  => (snapshot.enabled <=> row.enabled)
=============================================================================
