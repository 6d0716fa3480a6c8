------------------------- MODULE AuthService_proofs -------------------------
(* What MCAuthService checks, for any number of users, administrators,        *)
(* tokens, services and sessions, and any bounds: the occupancy of tables     *)
(* and their snapshots, what is set of accounts and addresses, one-time       *)
(* codes, logins, what waiters and guests are told of a table, and the        *)
(* creation of restaurants.                                                   *)
EXTENDS MCAuthService, FiniteSetTheorems, SequenceTheorems, TLAPS
------------------------------------------------------------------------------
(* Tables *)

\* Types, and that an ACTIVE session was opened.
TypeInv == TypeOK /\ (active # NoUser => opened > 0)

LEMMA InitTypes == Init => TypeInv
<1> SUFFICES ASSUME Init PROVE TypeInv
  OBVIOUS
<1>1. <<>> \in Seq(SessionEvent) /\ <<>> \in Seq(Upsert)
  OBVIOUS
<1>2. topics \in [Readers -> [Kinds -> Seq(SessionEvent)]] /\ upserts \in [Followers -> Seq(Upsert)]
  BY <1>1 DEF Init
<1>3. row \in Row /\ snapshot \in [enabled : BOOLEAN, version : Nat]
  BY DEF Init, Row
<1>4. opened \in 0..MaxSessions /\ edits \in 0..MaxEdits /\ deaths \in 0..MaxDeaths
  BY TablesAssumption DEF Init
<1> QED BY <1>2, <1>3, <1>4 DEF Init, TypeInv, TypeOK

\* A session event is taken: the rows stay rows, and edits are not written.
LEMMA TakeTypes ==
  ASSUME TypeOK, NEW r \in Readers, NEW e \in SessionEvent, Take(r, e)
  PROVE  /\ row' \in Row /\ ai' \in BOOLEAN
         /\ row'.enabled = row.enabled /\ row'.version = row.version
<1>1. ai' \in BOOLEAN
  BY DEF Take, TypeOK
<1>2. e.user \in Users \cup {NoUser} /\ row \in Row
  BY DEF SessionEvent, TypeOK
<1>3. \/ row' = row
      \/ row' = [row EXCEPT !.occupied = TRUE, !.by = e.user]
      \/ row' = [row EXCEPT !.occupied = FALSE, !.by = NoUser]
  <2>1. CASE r = "ai"
    BY <2>1 DEF Take
  <2>2. CASE r = "auth" /\ e.kind = "started"
    BY <2>2 DEF Take, OccupiedBy
  <2>3. CASE r = "auth" /\ e.kind = "closed"
    BY <2>3 DEF Take, Freed
  <2> QED BY <2>1, <2>2, <2>3 DEF Readers, SessionEvent, Kinds
<1> QED BY <1>1, <1>2, <1>3 DEF Row

LEMMA OpenTypes ==
  ASSUME TypeInv, NEW u \in Users, Open(u)
  PROVE  /\ TypeInv' /\ UNCHANGED <<row, admin, crowded, edits, upserts, snapshot, ai>>
         /\ ("order" \in doubt' <=> "order" \in doubt)
<1>1. opened + 1 \in 1..MaxSessions /\ opened + 1 \in 0..MaxSessions
  BY TablesAssumption DEF Open, TypeInv, TypeOK
<1>2. [kind |-> "started", n |-> opened + 1, user |-> u, copy |-> 1] \in SessionEvent
  BY <1>1 DEF SessionEvent, Kinds
<1>3. /\ UNCHANGED <<topics, row, admin, crowded, edits, upserts, snapshot, ai, doubt, deaths>>
      /\ active' = u /\ opened' = opened + 1
      /\ outbox' = outbox \cup {[kind |-> "started", n |-> opened + 1, user |-> u, copy |-> 1]}
  BY DEF Open, editing
<1> QED BY <1>1, <1>2, <1>3 DEF TypeInv, TypeOK

LEMMA CloseTypes ==
  ASSUME TypeInv, Close
  PROVE  /\ TypeInv' /\ UNCHANGED <<row, admin, crowded, edits, upserts, snapshot, ai>>
         /\ ("order" \in doubt' <=> "order" \in doubt)
<1>2. PICK copies \in {{1}, {1, 2}} :
        outbox' = outbox \cup {[kind |-> "closed", n |-> opened, user |-> NoUser, copy |-> c] : c \in copies}
  BY DEF Close
<1>3. opened \in 1..MaxSessions
  BY DEF Close, TypeInv, TypeOK
<1>4. \A c \in copies : [kind |-> "closed", n |-> opened, user |-> NoUser, copy |-> c] \in SessionEvent
  BY <1>3 DEF SessionEvent, Kinds
<1>5. outbox' \subseteq SessionEvent
  BY <1>2, <1>4 DEF TypeInv, TypeOK
<1>6. /\ UNCHANGED <<topics, row, admin, crowded, edits, upserts, snapshot, ai, opened, doubt, deaths>>
      /\ active' = NoUser
  BY DEF Close, editing
<1> QED BY <1>5, <1>6 DEF TypeInv, TypeOK

LEMMA AnnounceTypes ==
  ASSUME TypeInv, NEW e, Announce(e) \/ Lose(e)
  PROVE  /\ TypeInv' /\ UNCHANGED <<row, admin, crowded, edits, upserts, snapshot, ai>>
         /\ ("order" \in doubt' <=> "order" \in doubt)
<1>1. e \in SessionEvent /\ outbox' \subseteq SessionEvent
      /\ UNCHANGED <<active, opened, row, admin, crowded, edits, upserts, snapshot, ai>>
  BY DEF Announce, Lose, TypeInv, TypeOK, sessions, editing
<1>2. CASE Announce(e)
  <2>1. topics' \in [Readers -> [Kinds -> Seq(SessionEvent)]]
    <3>1. \A r \in Readers : topics[r] \in [Kinds -> Seq(SessionEvent)]
      BY DEF TypeInv, TypeOK
    <3>2. \A r \in Readers : [topics[r] EXCEPT ![e.kind] = Append(@, e)] \in [Kinds -> Seq(SessionEvent)]
      <4> SUFFICES ASSUME NEW r \in Readers
                   PROVE  [topics[r] EXCEPT ![e.kind] = Append(@, e)] \in [Kinds -> Seq(SessionEvent)]
        OBVIOUS
      <4>1. topics[r] \in [Kinds -> Seq(SessionEvent)] /\ e.kind \in Kinds
        BY <1>1, <3>1 DEF SessionEvent
      <4>2. Append(topics[r][e.kind], e) \in Seq(SessionEvent)
        BY <1>1, <4>1, AppendProperties
      <4> QED BY <4>1, <4>2
    <3> QED BY <1>2, <3>2 DEF Announce
  <2> QED BY <1>1, <1>2, <2>1 DEF Announce, TypeInv, TypeOK
<1>3. CASE Lose(e)
  <2>1. /\ doubt' \subseteq Doubters /\ topics' = topics
        /\ ("order" \in doubt' <=> "order" \in doubt)
    BY <1>3 DEF Lose, TypeInv, TypeOK, Doubters, Readers
  <2>2. deaths' \in 0..MaxDeaths
    BY <1>3, TablesAssumption DEF Lose, TypeInv, TypeOK
  <2> QED BY <1>1, <2>1, <2>2 DEF TypeInv, TypeOK
<1> QED BY <1>2, <1>3

LEMMA ConsumeTypes ==
  ASSUME TypeInv, NEW r \in Readers, NEW k \in Kinds, Consume(r, k) \/ ConsumerDies(r, k)
  PROVE  /\ TypeInv' /\ Head(topics[r][k]) \in SessionEvent
         /\ UNCHANGED <<crowded, admin, edits, upserts, snapshot>>
         /\ ("order" \in doubt' <=> "order" \in doubt)
         /\ row'.enabled = row.enabled /\ row'.version = row.version
<1>1. topics[r][k] \in Seq(SessionEvent) /\ topics[r][k] # <<>> /\ Take(r, Head(topics[r][k]))
      /\ UNCHANGED <<active, opened, outbox, admin, crowded, edits, upserts, snapshot>>
  BY DEF Consume, ConsumerDies, sessions, editing, TypeInv, TypeOK
<1>2. Head(topics[r][k]) \in SessionEvent /\ Tail(topics[r][k]) \in Seq(SessionEvent)
  BY <1>1, HeadTailProperties
<1>3. /\ row' \in Row /\ ai' \in BOOLEAN
      /\ row'.enabled = row.enabled /\ row'.version = row.version
  BY <1>1, <1>2, TakeTypes DEF TypeInv
<1>4. topics' \in [Readers -> [Kinds -> Seq(SessionEvent)]]
  <2>1. topics[r] \in [Kinds -> Seq(SessionEvent)]
    BY DEF TypeInv, TypeOK
  <2>2. [topics[r] EXCEPT ![k] = Tail(@)] \in [Kinds -> Seq(SessionEvent)]
    BY <1>2, <2>1
  <2>3. topics' = topics \/ topics' = [topics EXCEPT ![r] = [topics[r] EXCEPT ![k] = Tail(@)]]
    BY DEF Consume, ConsumerDies
  <2> QED BY <2>2, <2>3 DEF TypeInv, TypeOK
<1>5. deaths' \in 0..MaxDeaths
  BY TablesAssumption DEF Consume, ConsumerDies, TypeInv, TypeOK
<1>6. doubt' \subseteq Doubters /\ ("order" \in doubt' <=> "order" \in doubt)
  BY DEF Consume, ConsumerDies, Doubted, Doubters, Readers, TypeInv, TypeOK
<1> QED BY <1>1, <1>2, <1>3, <1>4, <1>5, <1>6 DEF TypeInv, TypeOK

LEMMA ReadTypes ==
  ASSUME TypeInv, NEW a \in Admins, Read(a)
  PROVE  TypeInv'
<1>1. PICK on \in BOOLEAN, base \in {row, Freed} :
        admin' = [admin EXCEPT ![a] = [step |-> "read", row |-> [base EXCEPT !.enabled = on]]]
  BY DEF Read
<1>2. base \in Row
  BY <1>1 DEF Freed, Row, TypeInv, TypeOK
<1>3. [base EXCEPT !.enabled = on] \in Row
  BY <1>1, <1>2 DEF Row
<1>4. admin' \in [Admins -> Edit \cup {NoEdit}]
  BY <1>1, <1>3 DEF Edit, TypeInv, TypeOK
<1>5. crowded' \in BOOLEAN
  BY DEF Read, TypeInv, TypeOK
<1>6. edits' \in 0..MaxEdits
  BY TablesAssumption DEF Read, TypeInv, TypeOK
<1>7. UNCHANGED <<active, opened, outbox, topics, row, upserts, snapshot, ai, doubt, deaths>>
  BY DEF Read, sessions
<1> QED BY <1>4, <1>5, <1>6, <1>7 DEF TypeInv, TypeOK

LEMMA NumberTypes ==
  ASSUME TypeInv, NEW a \in Admins, Number(a)
  PROVE  /\ TypeInv' /\ UNCHANGED <<crowded, doubt>>
         /\ \E x \in Edit : \E y \in Edit :
              /\ admin[a] = x /\ x.step = "read" /\ admin' = [admin EXCEPT ![a] = y]
              /\ y.step = "numbered" /\ y.row.version = row.version + 1
              /\ y.row.occupied = x.row.occupied /\ y.row.by = x.row.by
<1>1. PICK x \in Edit : x = admin[a]
  BY DEF Number, TypeInv, TypeOK
<1>2. PICK r \in Row : r = x.row
  BY DEF Edit
<1>3. x.step = "read" /\ row.version + 1 \in Nat
  BY <1>1 DEF Number, TypeInv, TypeOK, Row
<1> DEFINE y == [x EXCEPT !.step = "numbered", !.row.version = row.version + 1]
<1>4. y.step = "numbered" /\ y.row = [r EXCEPT !.version = row.version + 1] /\ DOMAIN y = {"step", "row"}
  BY <1>2 DEF Edit
<1>5. y \in Edit /\ y.row.version = row.version + 1 /\ y.row.occupied = r.occupied /\ y.row.by = r.by
  <2>1. [r EXCEPT !.version = row.version + 1] \in Row
    BY <1>3 DEF Row
  <2> QED BY <1>2, <1>3, <1>4, <2>1 DEF Edit, Row
<1>6. admin' = [admin EXCEPT ![a] = y]
  BY <1>1 DEF Number
<1> HIDE DEF y
<1>7. UNCHANGED <<active, opened, outbox, topics, row, crowded, edits, upserts, snapshot, ai, doubt, deaths>>
  BY DEF Number, sessions
<1>8. TypeInv'
  BY <1>5, <1>6, <1>7 DEF TypeInv, TypeOK
<1> QED BY <1>1, <1>2, <1>3, <1>4, <1>5, <1>6, <1>7, <1>8

LEMMA SaveTypes ==
  ASSUME TypeInv, NEW a \in Admins, Save(a)
  PROVE  /\ TypeInv' /\ UNCHANGED crowded /\ ("order" \in doubt' <=> "order" \in doubt)
         /\ \E x \in Edit : \E y \in Edit :
              /\ admin[a] = x /\ x.step = "numbered" /\ row' = x.row
              /\ admin' = [admin EXCEPT ![a] = y] /\ y.step = "saved" /\ y.row = x.row
<1>1. PICK x \in Edit : x = admin[a]
  BY DEF Save, TypeInv, TypeOK
<1> DEFINE y == [x EXCEPT !.step = "saved"]
<1>2. y \in Edit /\ y.step = "saved" /\ y.row = x.row /\ x.row \in Row
  BY DEF Edit
<1>3. admin' = [admin EXCEPT ![a] = y] /\ row' = x.row /\ x.step = "numbered"
  BY <1>1 DEF Save
<1> HIDE DEF y
<1>4. UNCHANGED <<active, opened, outbox, topics, crowded, edits, upserts, snapshot, ai, deaths>>
  BY DEF Save, sessions
<1>5. doubt' \subseteq Doubters /\ ("order" \in doubt' <=> "order" \in doubt)
  BY DEF Save, DoubtIf, Doubters, Readers, TypeInv, TypeOK
<1>6. TypeInv'
  BY <1>2, <1>3, <1>4, <1>5 DEF TypeInv, TypeOK
<1> QED BY <1>1, <1>2, <1>3, <1>4, <1>5, <1>6

LEMMA PublishTypes ==
  ASSUME TypeInv, NEW a \in Admins, Publish(a)
  PROVE  /\ TypeInv' /\ UNCHANGED <<crowded, row>>
         /\ admin' = [admin EXCEPT ![a] = NoEdit]
         /\ \E x \in Edit : \E e \in Upsert :
              /\ admin[a] = x /\ x.step = "saved"
              /\ e.occupied = x.row.occupied /\ e.enabled = x.row.enabled /\ e.version = x.row.version
              /\ upserts' = [s \in Followers |-> Append(upserts[s], e)]
<1>1. PICK x \in Edit : x = admin[a]
  BY DEF Publish, TypeInv, TypeOK
<1>2. PICK r \in Row : r = x.row
  BY DEF Edit
<1> DEFINE e == [occupied |-> r.occupied, enabled |-> r.enabled, version |-> r.version]
<1>3. e \in Upsert /\ e.occupied = r.occupied /\ e.enabled = r.enabled /\ e.version = r.version
  BY DEF Row, Upsert
<1>4. /\ upserts' = [s \in Followers |-> Append(upserts[s], e)]
      /\ admin' = [admin EXCEPT ![a] = NoEdit] /\ x.step = "saved"
  BY <1>1, <1>2 DEF Publish
<1> HIDE DEF e
<1>5. upserts' \in [Followers -> Seq(Upsert)]
  <2>1. \A s \in Followers : Append(upserts[s], e) \in Seq(Upsert)
    BY <1>3, AppendProperties DEF TypeInv, TypeOK
  <2> QED BY <1>4, <2>1
<1>6. /\ UNCHANGED <<active, opened, outbox, topics, row, crowded, edits, snapshot, ai, deaths>>
      /\ doubt' \subseteq Doubters
  BY DEF Publish, sessions, TypeInv, TypeOK
<1>7. TypeInv'
  BY <1>4, <1>5, <1>6 DEF TypeInv, TypeOK
<1> QED BY <1>1, <1>2, <1>3, <1>4, <1>6, <1>7

LEMMA UnsaidTypes == ASSUME TypeInv, NEW a \in Admins, GoUnsaid(a) PROVE TypeInv'
BY DEF GoUnsaid, sessions, Doubters, TypeInv, TypeOK

LEMMA UpsertTypes ==
  ASSUME TypeInv, OrderUpsert \/ AiUpsert
  PROVE  /\ TypeInv' /\ UNCHANGED <<crowded, row, admin>>
         /\ ("order" \in doubt' <=> "order" \in doubt)
<1>1. /\ UNCHANGED <<active, opened, outbox, topics, row, admin, crowded, edits, deaths>>
      /\ doubt' \subseteq Doubters /\ ("order" \in doubt' <=> "order" \in doubt)
  BY DEF OrderUpsert, AiUpsert, DoubtIf, Doubters, Readers, sessions, editing, TypeInv, TypeOK
<1>2. \A s \in Followers : upserts[s] \in Seq(Upsert)
  BY DEF TypeInv, TypeOK
<1>3. \A s \in Followers : upserts[s] # <<>> => Head(upserts[s]) \in Upsert /\ Tail(upserts[s]) \in Seq(Upsert)
  BY <1>2, HeadTailProperties
<1>4. CASE OrderUpsert
  <2>1. Head(upserts["order"]) \in Upsert /\ Tail(upserts["order"]) \in Seq(Upsert)
    BY <1>3, <1>4 DEF OrderUpsert, Followers
  <2>2. snapshot' \in [enabled : BOOLEAN, version : Nat]
    BY <1>4, <2>1 DEF OrderUpsert, Upsert, TypeInv, TypeOK
  <2>3. upserts' \in [Followers -> Seq(Upsert)] /\ ai' = ai
    BY <1>4, <2>1 DEF OrderUpsert, TypeInv, TypeOK
  <2> QED BY <1>1, <2>2, <2>3 DEF TypeInv, TypeOK
<1>5. CASE AiUpsert
  <2>1. Head(upserts["ai"]) \in Upsert /\ Tail(upserts["ai"]) \in Seq(Upsert)
    BY <1>3, <1>5 DEF AiUpsert, Followers
  <2>2. ai' \in BOOLEAN
    <3>1. Head(upserts["ai"]).occupied \in BOOLEAN
      BY <2>1 DEF Upsert
    <3> QED BY <1>5, <3>1 DEF AiUpsert
  <2>3. upserts' \in [Followers -> Seq(Upsert)] /\ snapshot' = snapshot
    BY <1>5, <2>1 DEF AiUpsert, TypeInv, TypeOK
  <2> QED BY <1>1, <2>2, <2>3 DEF TypeInv, TypeOK
<1> QED BY <1>4, <1>5

LEMMA StepTypes == TypeInv /\ [Next]_vars => TypeInv'
<1> SUFFICES ASSUME TypeInv, [Next]_vars PROVE TypeInv'
  OBVIOUS
<1>1. CASE UNCHANGED vars
  BY <1>1 DEF vars, TypeInv, TypeOK
<1>2. CASE SessionSide
  BY <1>2, OpenTypes, CloseTypes, AnnounceTypes DEF SessionSide
<1>3. CASE Consumers
  BY <1>3, ConsumeTypes DEF Consumers
<1>4. CASE EditSide
  BY <1>4, ReadTypes, NumberTypes, SaveTypes, PublishTypes, UnsaidTypes, UpsertTypes DEF EditSide
<1> QED BY <1>1, <1>2, <1>3, <1>4 DEF Next

\* Types of the sessions, the events, the rows and the requests.
THEOREM TablesTyped == Spec => []TypeOK
<1>1. TypeInv => TypeOK
  BY DEF TypeInv
<1> QED BY <1>1, InitTypes, StepTypes, PTL DEF Spec

\* Who is about to write the row, and who has written it and not published.
AtWork(a) == admin[a] # NoEdit
Unpublished(a) == AtWork(a) /\ admin[a].step = "saved"
Pending == upserts["order"]

\* Edits that do not overlap: the versions on their way grow, and the last of
\* them, or the snapshot when there is none, is that of the row, unless it is
\* still to be published or the last edit went unsaid.
Editors ==
  /\ \A a, b \in Admins : AtWork(a) /\ AtWork(b) => a = b
  /\ \A a \in Admins : AtWork(a) /\ admin[a].step = "numbered" => admin[a].row.version = row.version + 1
  /\ \A a \in Admins : Unpublished(a) =>
       admin[a].row.enabled = row.enabled /\ admin[a].row.version = row.version

Versions ==
  /\ \A i, j \in 1..Len(Pending) : i < j => Pending[i].version < Pending[j].version
  /\ \A i \in 1..Len(Pending) : snapshot.version < Pending[i].version /\ Pending[i].version <= row.version
  /\ snapshot.version <= row.version

\* What is saved is newer than all that was announced.
Newest ==
  (\E a \in Admins : Unpublished(a)) =>
    snapshot.version < row.version /\ \A i \in 1..Len(Pending) : Pending[i].version < row.version

Latest ==
  "order" \notin doubt /\ (\A a \in Admins : ~Unpublished(a)) =>
    /\ Pending = <<>> => snapshot.enabled = row.enabled
    /\ Pending # <<>> => Pending[Len(Pending)].enabled = row.enabled

SnapshotInv == TypeInv /\ (~crowded => Editors /\ Versions /\ Newest /\ Latest)

LEMMA PendingTypes ==
  ASSUME TypeInv
  PROVE  /\ Pending \in Seq(Upsert) /\ Len(Pending) \in Nat
         /\ \A i \in 1..Len(Pending) : Pending[i] \in Upsert /\ Pending[i].version \in Nat
         /\ row.version \in Nat /\ snapshot.version \in Nat
<1>1. Pending \in Seq(Upsert)
  BY DEF TypeInv, TypeOK, Followers, Pending
<1>2. Len(Pending) \in Nat /\ \A i \in 1..Len(Pending) : Pending[i] \in Upsert
  BY <1>1, ElementOfSeq, LenProperties
<1>3. \A e \in Upsert : e.version \in Nat
  BY DEF Upsert
<1>4. row.version \in Nat /\ snapshot.version \in Nat
  BY DEF TypeInv, TypeOK, Row
<1> QED BY <1>1, <1>2, <1>3, <1>4

\* Sessions write neither versions nor edits, and nor does the AI service.
LEMMA SameSnapshot ==
  ASSUME SnapshotInv, TypeInv', UNCHANGED <<crowded, admin, Pending, snapshot>>,
         "order" \in doubt' <=> "order" \in doubt,
         row'.enabled = row.enabled, row'.version = row.version
  PROVE  SnapshotInv'
<1> SUFFICES ASSUME ~crowded' PROVE (Editors /\ Versions /\ Newest /\ Latest)'
  BY DEF SnapshotInv
<1>1. Editors /\ Versions /\ Newest /\ Latest
  BY DEF SnapshotInv
<1>2. Editors'
  BY <1>1 DEF Editors, AtWork, Unpublished
<1>3. Versions'
  BY <1>1 DEF Versions
<1>4. Newest'
  BY <1>1 DEF Newest, AtWork, Unpublished
<1>5. Latest'
  BY <1>1 DEF Latest, AtWork, Unpublished
<1> QED BY <1>2, <1>3, <1>4, <1>5

LEMMA ReadSnapshot ==
  ASSUME SnapshotInv, NEW a \in Admins, Read(a)
  PROVE  SnapshotInv'
<1>1. TypeInv' /\ (~crowded' => ~crowded) /\ doubt' = doubt
  BY ReadTypes DEF Read, SnapshotInv
<1> SUFFICES ASSUME ~crowded' PROVE (Editors /\ Versions /\ Newest /\ Latest)'
  BY <1>1 DEF SnapshotInv
<1>2. Editors /\ Versions /\ Newest /\ Latest
  BY <1>1 DEF SnapshotInv
<1>3. \A b \in Admins : ~AtWork(b)
  BY DEF Read, AtWork
<1>4. /\ \A b \in Admins : b # a => admin'[b] = admin[b]
      /\ admin'[a].step = "read" /\ UNCHANGED <<row, upserts, snapshot>>
  BY DEF Read, SnapshotInv, TypeInv, TypeOK
<1>5. \A b \in Admins : ~Unpublished(b) /\ ~Unpublished(b)'
  BY <1>3, <1>4 DEF Unpublished, AtWork
<1>6. Editors'
  BY <1>3, <1>4 DEF Editors, AtWork, Unpublished
<1>7. Versions'
  BY <1>2, <1>4 DEF Versions, Pending
<1>8. Newest' /\ Latest'
  BY <1>1, <1>2, <1>4, <1>5 DEF Newest, Latest, Pending
<1> QED BY <1>6, <1>7, <1>8

LEMMA NumberSnapshot ==
  ASSUME SnapshotInv, NEW a \in Admins, Number(a)
  PROVE  SnapshotInv'
<1>1. PICK x \in Edit, y \in Edit :
        /\ TypeInv' /\ UNCHANGED <<crowded, doubt>>
        /\ admin[a] = x /\ x.step = "read" /\ admin' = [admin EXCEPT ![a] = y]
        /\ y.step = "numbered" /\ y.row.version = row.version + 1
  BY NumberTypes DEF SnapshotInv
<1> SUFFICES ASSUME ~crowded' PROVE (Editors /\ Versions /\ Newest /\ Latest)'
  BY <1>1 DEF SnapshotInv
<1>2. Editors /\ Versions /\ Newest /\ Latest
  BY <1>1 DEF SnapshotInv
<1>3. admin'[a] = y /\ (\A b \in Admins : b # a => admin'[b] = admin[b])
      /\ UNCHANGED <<row, upserts, snapshot>>
  BY <1>1 DEF Number, SnapshotInv, TypeInv, TypeOK
<1>4. \A b \in Admins : AtWork(b) => b = a
  BY <1>1, <1>2, NoEditIsNoEdit DEF Editors, AtWork
<1>5. \A b \in Admins : ~Unpublished(b) /\ ~Unpublished(b)'
  BY <1>1, <1>3, <1>4 DEF Unpublished, AtWork
<1>6. Editors'
  BY <1>1, <1>3, <1>4, <1>5 DEF Editors, AtWork
<1>7. Versions'
  BY <1>2, <1>3 DEF Versions, Pending
<1>8. Newest' /\ Latest'
  BY <1>1, <1>2, <1>3, <1>5 DEF Newest, Latest, Pending
<1> QED BY <1>6, <1>7, <1>8

LEMMA SaveSnapshot ==
  ASSUME SnapshotInv, NEW a \in Admins, Save(a)
  PROVE  SnapshotInv'
<1>1. PICK x \in Edit, y \in Edit :
        /\ TypeInv' /\ UNCHANGED crowded
        /\ admin[a] = x /\ x.step = "numbered" /\ row' = x.row
        /\ admin' = [admin EXCEPT ![a] = y] /\ y.step = "saved" /\ y.row = x.row
  BY SaveTypes DEF SnapshotInv
<1> SUFFICES ASSUME ~crowded' PROVE (Editors /\ Versions /\ Newest /\ Latest)'
  BY <1>1 DEF SnapshotInv
<1>2. Editors /\ Versions /\ Newest /\ Latest
  BY <1>1 DEF SnapshotInv
<1>3. admin'[a] = y /\ (\A b \in Admins : b # a => admin'[b] = admin[b])
      /\ UNCHANGED <<upserts, snapshot>>
  BY <1>1 DEF Save, SnapshotInv, TypeInv, TypeOK
<1>4. \A b \in Admins : AtWork(b) => b = a
  BY <1>1, <1>2, NoEditIsNoEdit DEF Editors, AtWork
<1>5. row'.version = row.version + 1 /\ Unpublished(a)'
  BY <1>1, <1>2, <1>3, NoEditIsNoEdit DEF Editors, AtWork, Unpublished
<1>6. Editors'
  BY <1>1, <1>3, <1>4 DEF Editors, AtWork, Unpublished
<1>7. /\ row.version \in Nat /\ snapshot.version \in Nat
      /\ \A i \in 1..Len(Pending) : Pending[i].version \in Nat
  BY PendingTypes DEF SnapshotInv
<1>8. Versions'
  BY <1>2, <1>3, <1>5, <1>7 DEF Versions, Pending
<1>9. Newest' /\ Latest'
  BY <1>2, <1>3, <1>5, <1>7 DEF Versions, Newest, Latest, Pending
<1> QED BY <1>6, <1>8, <1>9

LEMMA PublishSnapshot ==
  ASSUME SnapshotInv, NEW a \in Admins, Publish(a)
  PROVE  SnapshotInv'
<1>1. PICK x \in Edit, e \in Upsert :
        /\ TypeInv' /\ UNCHANGED <<crowded, row, snapshot>>
        /\ admin[a] = x /\ x.step = "saved" /\ admin' = [admin EXCEPT ![a] = NoEdit]
        /\ e.enabled = x.row.enabled /\ e.version = x.row.version
        /\ upserts' = [s \in Followers |-> Append(upserts[s], e)]
  BY PublishTypes DEF SnapshotInv, Publish
<1> SUFFICES ASSUME ~crowded' PROVE (Editors /\ Versions /\ Newest /\ Latest)'
  BY <1>1 DEF SnapshotInv
<1>2. Editors /\ Versions /\ Newest /\ Latest
  BY <1>1 DEF SnapshotInv
<1>3. admin'[a] = NoEdit /\ \A b \in Admins : b # a => admin'[b] = admin[b]
  BY <1>1 DEF SnapshotInv, TypeInv, TypeOK
<1>4. Unpublished(a) /\ e.version = row.version /\ e.enabled = row.enabled
  BY <1>1, <1>2, NoEditIsNoEdit DEF Editors, AtWork, Unpublished
<1>5. \A b \in Admins : ~AtWork(b)'
  BY <1>2, <1>3, <1>4 DEF Editors, AtWork, Unpublished
<1>6. Pending \in Seq(Upsert) /\ Pending' = Append(Pending, e)
  BY <1>1 DEF SnapshotInv, TypeInv, TypeOK, Followers, Pending
<1>7. /\ Len(Pending') = Len(Pending) + 1 /\ Pending'[Len(Pending) + 1] = e
      /\ \A i \in 1..Len(Pending) : Pending'[i] = Pending[i]
      /\ Len(Pending) \in Nat /\ Pending' # <<>>
  BY <1>6, AppendProperties, LenProperties
<1>8. Editors'
  BY <1>5 DEF Editors, Unpublished
<1>9. snapshot.version < row.version /\ \A i \in 1..Len(Pending) : Pending[i].version < row.version
  BY <1>2, <1>4 DEF Newest
<1>10. row.version \in Nat
  BY DEF SnapshotInv, TypeInv, TypeOK, Row
<1>11. Versions'
  <2>1. snapshot'.version <= row'.version /\ \A i \in 1..Len(Pending') :
          snapshot'.version < Pending'[i].version /\ Pending'[i].version <= row'.version
    BY <1>1, <1>2, <1>4, <1>7, <1>9, <1>10 DEF Versions
  <2>2. ASSUME NEW i \in 1..Len(Pending'), NEW j \in 1..Len(Pending'), i < j
        PROVE  Pending'[i].version < Pending'[j].version
    <3>1. i \in 1..Len(Pending) /\ Pending'[i] = Pending[i]
      BY <1>7, <2>2
    <3>2. CASE j \in 1..Len(Pending)
      BY <1>2, <1>7, <2>2, <3>1, <3>2 DEF Versions
    <3>3. CASE j = Len(Pending) + 1
      BY <1>4, <1>7, <1>9, <3>1, <3>3
    <3> QED BY <1>7, <3>2, <3>3
  <2> QED BY <2>1, <2>2 DEF Versions
<1>12. Newest' /\ Latest'
  BY <1>1, <1>4, <1>5, <1>7 DEF Newest, Latest, Unpublished
<1> QED BY <1>8, <1>11, <1>12

LEMMA UnsaidSnapshot ==
  ASSUME SnapshotInv, NEW a \in Admins, GoUnsaid(a)
  PROVE  SnapshotInv'
<1>1. TypeInv' /\ UNCHANGED <<crowded, row, upserts, snapshot>> /\ "order" \in doubt'
  BY UnsaidTypes DEF GoUnsaid, SnapshotInv
<1> SUFFICES ASSUME ~crowded' PROVE (Editors /\ Versions /\ Newest /\ Latest)'
  BY <1>1 DEF SnapshotInv
<1>2. Editors /\ Versions /\ Newest
  BY <1>1 DEF SnapshotInv
<1>3. admin'[a] = NoEdit /\ \A b \in Admins : b # a => admin'[b] = admin[b]
  BY DEF GoUnsaid, SnapshotInv, TypeInv, TypeOK
<1>4. Editors'
  BY <1>1, <1>2, <1>3 DEF Editors, AtWork, Unpublished
<1>5. Versions'
  BY <1>1, <1>2 DEF Versions, Pending
<1>6. Newest' /\ Latest'
  BY <1>1, <1>2, <1>3 DEF Newest, Latest, AtWork, Unpublished, Pending
<1> QED BY <1>4, <1>5, <1>6

LEMMA UpsertSnapshot ==
  ASSUME SnapshotInv, OrderUpsert
  PROVE  SnapshotInv'
<1>1. TypeInv' /\ UNCHANGED <<crowded, row, admin>> /\ ("order" \in doubt' <=> "order" \in doubt)
  BY UpsertTypes DEF SnapshotInv
<1> SUFFICES ASSUME ~crowded' PROVE (Editors /\ Versions /\ Newest /\ Latest)'
  BY <1>1 DEF SnapshotInv
<1>2. Editors /\ Versions /\ Newest /\ Latest
  BY <1>1 DEF SnapshotInv
<1>3. Pending \in Seq(Upsert) /\ Pending # <<>> /\ Pending' = Tail(Pending)
  BY DEF OrderUpsert, SnapshotInv, TypeInv, TypeOK, Followers, Pending
<1>4. /\ Len(Pending) \in Nat \ {0} /\ Len(Pending') = Len(Pending) - 1
      /\ \A i \in 1..Len(Pending') : Pending'[i] = Pending[i + 1]
      /\ Head(Pending) = Pending[1] /\ (Pending' = <<>> <=> Len(Pending) = 1)
  <2>1. PICK q \in Seq(Upsert) : q = Pending
    BY <1>3
  <2>2. /\ Tail(q) \in Seq(Upsert) /\ Len(Tail(q)) = Len(q) - 1 /\ Len(q) \in Nat \ {0}
        /\ \A i \in 1..Len(Tail(q)) : Tail(q)[i] = q[i + 1]
    BY <1>3, <2>1, HeadTailProperties, LenProperties, EmptySeq
  <2>3. Tail(q) = <<>> <=> Len(q) = 1
    <3>1. PICK t \in Seq(Upsert) : t = Tail(q)
      BY <2>2
    <3>2. t = <<>> <=> Len(t) = 0
      BY EmptySeq
    <3> QED BY <2>2, <3>1, <3>2
  <2>4. Head(q) = q[1]
    OBVIOUS
  <2> QED BY <1>3, <2>1, <2>2, <2>3, <2>4
<1>5. Pending[1] \in Upsert /\ \A i \in 1..Len(Pending) : Pending[i].version \in Nat
  BY <1>4, PendingTypes DEF SnapshotInv
<1>6. snapshot.version \in Nat /\ row.version \in Nat
  BY DEF SnapshotInv, TypeInv, TypeOK, Row
<1>7. snapshot' = [enabled |-> Pending[1].enabled, version |-> Pending[1].version]
  <2>1. snapshot.version < Pending[1].version
    BY <1>2, <1>4 DEF Versions
  <2>2. ~(Pending[1].version <= snapshot.version)
    BY <1>4, <1>5, <1>6, <2>1
  <2> QED BY <1>4, <2>2 DEF OrderUpsert, Pending
<1>8. snapshot'.enabled = Pending[1].enabled /\ snapshot'.version = Pending[1].version
  BY <1>7
<1>9. Editors'
  BY <1>1, <1>2 DEF Editors, AtWork, Unpublished
<1>10. Versions'
  <2>1. \A i \in 1..Len(Pending') : i + 1 \in 1..Len(Pending) /\ 1 < i + 1
    BY <1>4
  <2>2. \A i \in 1..Len(Pending') : /\ Pending[1].version < Pending[i + 1].version
                                    /\ Pending[i + 1].version <= row.version
    BY <1>2, <1>4, <2>1 DEF Versions
  <2>3. \A i, j \in 1..Len(Pending') : i < j => Pending[i + 1].version < Pending[j + 1].version
    BY <1>2, <1>4, <2>1 DEF Versions
  <2>4. Pending[1].version <= row.version
    BY <1>2, <1>4 DEF Versions
  <2> QED BY <1>1, <1>4, <1>8, <2>2, <2>3, <2>4 DEF Versions
<1>11. (\E a \in Admins : Unpublished(a))' <=> \E a \in Admins : Unpublished(a)
  BY <1>1 DEF Unpublished, AtWork
<1>12. Newest'
  <2>1. \A i \in 1..Len(Pending') : i + 1 \in 1..Len(Pending)
    BY <1>4
  <2> QED BY <1>1, <1>2, <1>4, <1>8, <1>11, <2>1 DEF Newest
<1>13. Latest'
  <2> SUFFICES ASSUME "order" \notin doubt, \A a \in Admins : ~Unpublished(a)
               PROVE  /\ Pending' = <<>> => snapshot'.enabled = row'.enabled
                      /\ Pending' # <<>> => Pending'[Len(Pending')].enabled = row'.enabled
    BY <1>1, <1>11 DEF Latest
  <2>1. Pending[Len(Pending)].enabled = row.enabled
    BY <1>2, <1>3 DEF Latest
  <2>2. CASE Len(Pending) = 1
    BY <1>1, <1>4, <1>8, <2>1, <2>2
  <2>3. CASE Len(Pending) # 1
    <3>1. Pending'[Len(Pending')] = Pending[Len(Pending)]
      BY <1>4, <2>3
    <3> QED BY <1>1, <1>4, <2>1, <2>3, <3>1
  <2> QED BY <2>2, <2>3
<1> QED BY <1>9, <1>10, <1>12, <1>13

LEMMA InitSnapshot == Init => SnapshotInv
<1> SUFFICES ASSUME Init PROVE SnapshotInv
  OBVIOUS
<1>1. TypeInv
  BY InitTypes
<1>2. \A a \in Admins : ~AtWork(a)
  BY DEF Init, AtWork
<1>3. Pending = <<>> /\ Len(Pending) = 0 /\ snapshot.version = row.version /\ snapshot.enabled = row.enabled
      /\ row.version = 1
  BY DEF Init, Pending, Followers
<1> QED BY <1>1, <1>2, <1>3 DEF SnapshotInv, Editors, Versions, Newest, Latest, Unpublished

LEMMA NextSnapshot == SnapshotInv /\ [Next]_vars => SnapshotInv'
<1> SUFFICES ASSUME SnapshotInv, [Next]_vars PROVE SnapshotInv'
  OBVIOUS
<1>1. TypeInv'
  BY StepTypes DEF SnapshotInv
<1>2. CASE UNCHANGED vars
  BY <1>1, <1>2, SameSnapshot DEF vars, Pending
<1>3. CASE SessionSide
  <2>1. UNCHANGED <<row, crowded, admin, upserts, snapshot>> /\ ("order" \in doubt' <=> "order" \in doubt)
    BY <1>3, OpenTypes, CloseTypes, AnnounceTypes DEF SessionSide, SnapshotInv
  <2> QED BY <1>1, <2>1, SameSnapshot DEF Pending
<1>4. CASE Consumers
  <2>1. /\ UNCHANGED <<crowded, admin, upserts, snapshot>> /\ ("order" \in doubt' <=> "order" \in doubt)
        /\ row'.enabled = row.enabled /\ row'.version = row.version
    BY <1>4, ConsumeTypes DEF Consumers, SnapshotInv
  <2> QED BY <1>1, <2>1, SameSnapshot DEF Pending
<1>5. CASE AiUpsert
  <2>1. /\ UNCHANGED <<row, crowded, admin, snapshot>> /\ upserts'["order"] = upserts["order"]
        /\ ("order" \in doubt' <=> "order" \in doubt)
    BY <1>5 DEF AiUpsert, DoubtIf, editing, SnapshotInv, TypeInv, TypeOK, Followers
  <2> QED BY <1>1, <2>1, SameSnapshot DEF Pending
<1>6. CASE EditSide
  BY <1>5, <1>6, ReadSnapshot, NumberSnapshot, SaveSnapshot, PublishSnapshot, UnsaidSnapshot,
     UpsertSnapshot DEF EditSide
<1> QED BY <1>2, <1>3, <1>4, <1>6 DEF Next

\* When nothing is on its way, the order service takes orders for the table if
\* the administrators left it enabled, for any number of users, sessions, edits
\* and deaths, unless two edits overlapped or the last was never announced.
THEOREM SnapshotsFollow == Spec => []SnapshotFollows
<1>1. SnapshotInv => SnapshotFollows
  <2> SUFFICES ASSUME SnapshotInv, upserts["order"] = <<>>, \A a \in Admins : admin[a] = NoEdit,
                      ~crowded, "order" \notin doubt
               PROVE  snapshot.enabled <=> row.enabled
    BY DEF SnapshotFollows
  <2>1. Pending = <<>> /\ \A a \in Admins : ~Unpublished(a)
    BY DEF Pending, Unpublished, AtWork
  <2> QED BY <2>1 DEF SnapshotInv, Latest
<1> QED BY <1>1, InitSnapshot, NextSnapshot, PTL DEF Spec
------------------------------------------------------------------------------
\* Where an event stands in the life of the table, and where the table does.
Place(e) == IF e.kind = "started" THEN 2 * e.n ELSE 2 * e.n + 1
Now == IF active # NoUser THEN 2 * opened ELSE 2 * opened + 1

\* Events are of what has happened, and the last start names its user.
Happened(r) ==
  \A e \in Coming(r) : /\ e.n \in 1..opened /\ Place(e) <= Now
                       /\ e.kind = "started" /\ Place(e) = Now => e.user = active

\* What reader r knows of the table, when that is the start (s = 0) or the end
\* (s = 1) of its nth session.
Knows(r, n, s) ==
  IF r = "ai" THEN ai <=> s = 0
  ELSE /\ row.occupied <=> s = 0
       /\ s = 1 => row.by = NoUser
       /\ 2 * n + s = Now => row.by = active

\* It has heard all until then, nothing older is to come, and all later is.
Heard(r, n, s) ==
  /\ 2 * n + s <= Now /\ Knows(r, n, s)
  /\ \A e \in Coming(r) : 2 * n + s <= Place(e)
  /\ \A t \in Nat : 2 * n + s < t /\ t <= Now => \E e \in Coming(r) : Place(e) = t

Follows(r) == Happened(r) /\ (r \notin doubt => \E n \in Nat, s \in {0, 1} : Heard(r, n, s))

OccupancyInv == TypeInv /\ \A r \in Readers : Follows(r)

LEMMA PlaceTypes ==
  ASSUME TypeInv, NEW r \in Readers
  PROVE  /\ opened \in Nat /\ Now \in Nat
         /\ \A e \in Coming(r) : e \in SessionEvent
         /\ \A e \in SessionEvent : e.n \in Nat /\ e.kind \in Kinds /\ Place(e) \in Nat
         /\ \A x, e \in SessionEvent : Older(x, e) <=> Place(x) < Place(e)
<1>1. opened \in Nat /\ Now \in Nat
  BY TablesAssumption DEF TypeInv, TypeOK, Now
<1>2. \A k \in Kinds : topics[r][k] \in Seq(SessionEvent)
  BY DEF TypeInv, TypeOK
<1>3. \A k \in Kinds : \A i \in DOMAIN topics[r][k] : topics[r][k][i] \in SessionEvent
  BY <1>2, LenProperties, ElementOfSeq
<1>4. \A e \in Coming(r) : e \in SessionEvent
  BY <1>3 DEF Coming, TypeInv, TypeOK
<1>5. \A e \in SessionEvent : e.n \in Nat /\ e.kind \in Kinds
  BY TablesAssumption DEF SessionEvent
<1>6. \A e \in SessionEvent : Place(e) \in Nat
  BY <1>5 DEF Place
<1>7. \A x, e \in SessionEvent : Older(x, e) <=> Place(x) < Place(e)
  BY <1>5 DEF Place, Older, Kinds
<1> QED BY <1>1, <1>4, <1>5, <1>6, <1>7

LEMMA InitOccupancy == Init => OccupancyInv
<1> SUFFICES ASSUME Init PROVE OccupancyInv
  OBVIOUS
<1>1. \A r \in Readers, k \in Kinds : topics[r][k] = <<>>
  BY DEF Init
<1>2. \A r \in Readers : Coming(r) = {}
  BY <1>1 DEF Coming, Init
<1>3. active = NoUser /\ Now = 1 /\ ~row.occupied /\ row.by = NoUser /\ ~ai
  BY DEF Init, Now
<1>4. \A r \in Readers : Heard(r, 0, 1)
  BY <1>2, <1>3 DEF Heard, Knows
<1> QED BY <1>2, <1>4, InitTypes DEF OccupancyInv, Follows, Happened

\* A step that neither tells reader r anything nor changes what it knows.
LEMMA SameReader ==
  ASSUME NEW r \in Readers, Follows(r), Coming(r)' = Coming(r), UNCHANGED <<active, opened>>,
         r \in doubt => r \in doubt',
         r = "auth" /\ r \notin doubt' => row'.occupied = row.occupied /\ row'.by = row.by,
         r = "ai" /\ r \notin doubt' => ai' = ai
  PROVE  Follows(r)'
<1>1. Now' = Now /\ \A e : Place(e)' = Place(e)
  BY DEF Now, Place
<1>2. Happened(r)'
  BY <1>1 DEF Follows, Happened
<1>3. ASSUME r \notin doubt', NEW n \in Nat, NEW s \in {0, 1}, Heard(r, n, s)
      PROVE  Heard(r, n, s)'
  <2>1. Knows(r, n, s)'
    BY <1>1, <1>3 DEF Heard, Knows, Readers
  <2> QED BY <1>1, <1>3, <2>1 DEF Heard
<1> QED BY <1>2, <1>3 DEF Follows

\* The next session or its end: an event of it is on its way to both readers.
LEMMA ChangeOccupancy ==
  ASSUME OccupancyInv, TypeInv', UNCHANGED <<topics, row, ai, doubt>>, opened' \in Nat,
         opened <= opened', Now' = Now + 1, outbox \subseteq outbox', outbox' # outbox,
         \A e \in outbox' \ outbox : /\ e.n \in 1..opened' /\ Place(e) = Now'
                                     /\ e.kind = "started" => e.user = active',
         NEW r \in Readers
  PROVE  Follows(r)'
<1>1. Follows(r) /\ TypeInv
  BY DEF OccupancyInv
<1>2. Coming(r)' = Coming(r) \cup (outbox' \ outbox)
  BY DEF Coming
<1>3. PICK new : new \in outbox' /\ new \notin outbox
  OBVIOUS
<1>4. /\ opened \in Nat /\ Now \in Nat
      /\ \A e \in Coming(r) : e.n \in Nat /\ Place(e) \in Nat
  BY <1>1, PlaceTypes
<1>5. \A e : Place(e)' = Place(e)
  BY DEF Place
<1>6. Happened(r)'
  <2> SUFFICES ASSUME NEW e \in Coming(r)'
               PROVE  /\ e.n \in 1..opened' /\ Place(e) <= Now'
                      /\ e.kind = "started" /\ Place(e) = Now' => e.user = active'
    BY <1>5 DEF Happened
  <2>1. CASE e \in Coming(r)
    BY <1>1, <1>4, <2>1 DEF Follows, Happened
  <2>2. CASE e \in outbox' \ outbox
    BY <1>4, <2>2
  <2> QED BY <1>2, <2>1, <2>2
<1>7. ASSUME NEW n \in Nat, NEW s \in {0, 1}, Heard(r, n, s)
      PROVE  Heard(r, n, s)'
  <2>1. 2 * n + s <= Now /\ 2 * n + s <= Now' /\ 2 * n + s # Now'
    BY <1>4, <1>7 DEF Heard
  <2>2. Knows(r, n, s)'
    BY <1>7, <2>1 DEF Heard, Knows, Readers
  <2>3. \A e \in Coming(r)' : 2 * n + s <= Place(e)
    BY <1>2, <1>7, <2>1 DEF Heard
  <2>4. ASSUME NEW t \in Nat, 2 * n + s < t, t <= Now'
        PROVE  \E e \in Coming(r)' : Place(e) = t
    <3>1. CASE t <= Now
      BY <1>2, <1>7, <2>4, <3>1 DEF Heard
    <3>2. CASE t = Now'
      BY <1>2, <1>3, <3>2
    <3> QED BY <1>4, <2>4, <3>1, <3>2
  <2> QED BY <1>5, <2>1, <2>2, <2>3, <2>4 DEF Heard
<1> QED BY <1>1, <1>6, <1>7 DEF Follows

LEMMA OpenOccupancy ==
  ASSUME OccupancyInv, NEW u \in Users, Open(u), NEW r \in Readers
  PROVE  Follows(r)'
<1>1. TypeInv' /\ opened \in Nat
  BY OpenTypes, PlaceTypes DEF OccupancyInv
<1>2. PICK e : e = [kind |-> "started", n |-> opened + 1, user |-> u, copy |-> 1]
  OBVIOUS
<1>3. e.kind = "started" /\ e.n = opened + 1 /\ e.user = u
  BY <1>2
<1>4. /\ active = NoUser /\ active' = u /\ u # NoUser /\ opened' = opened + 1
      /\ outbox' = outbox \cup {e} /\ UNCHANGED <<topics, row, ai, doubt>>
  BY <1>2, TablesAssumption DEF Open, editing
<1>5. Now' = Now + 1 /\ Place(e) = Now'
  BY <1>1, <1>3, <1>4 DEF Now, Place
<1>6. e \notin outbox
  <2> SUFFICES ASSUME e \in outbox PROVE FALSE
    OBVIOUS
  <2>1. e \in Coming(r)
    BY DEF Coming
  <2>2. e.n \in 1..opened
    BY <2>1 DEF OccupancyInv, Follows, Happened
  <2> QED BY <1>1, <1>3, <2>2
<1>7. \A x \in outbox' \ outbox : x = e
  BY <1>4
<1> QED BY <1>1, <1>3, <1>4, <1>5, <1>6, <1>7, ChangeOccupancy

LEMMA CloseOccupancy ==
  ASSUME OccupancyInv, Close, NEW r \in Readers
  PROVE  Follows(r)'
<1>1. TypeInv' /\ opened \in Nat
  BY CloseTypes, PlaceTypes DEF OccupancyInv
<1>2. PICK copies \in {{1}, {1, 2}} :
        outbox' = outbox \cup {[kind |-> "closed", n |-> opened, user |-> NoUser, copy |-> c] : c \in copies}
  BY DEF Close
<1>3. active # NoUser /\ active' = NoUser /\ UNCHANGED <<opened, topics, row, ai, doubt>>
  BY DEF Close, editing
<1>4. Now' = Now + 1 /\ opened \in 1..opened
  BY <1>1, <1>3 DEF Now, OccupancyInv, TypeInv, TypeOK
<1>5. \A x \in outbox' \ outbox : x.kind = "closed" /\ x.n = opened
  BY <1>2
<1>6. \A x \in outbox' \ outbox : Place(x) = Now'
  BY <1>3, <1>5 DEF Place, Now
<1>7. PICK e \in outbox' : e = [kind |-> "closed", n |-> opened, user |-> NoUser, copy |-> 1]
  <2>1. 1 \in copies
    OBVIOUS
  <2>2. [kind |-> "closed", n |-> opened, user |-> NoUser, copy |-> 1] \in outbox'
    BY <1>2, <2>1
  <2> QED BY <2>2
<1>8. e \notin outbox
  <2> SUFFICES ASSUME e \in outbox PROVE FALSE
    OBVIOUS
  <2>1. e \in Coming(r)
    BY DEF Coming
  <2>2. Place(e) <= Now
    BY <2>1 DEF OccupancyInv, Follows, Happened
  <2>3. Place(e) = 2 * opened + 1 /\ Now = 2 * opened
    BY <1>3, <1>7 DEF Place, Now
  <2> QED BY <1>1, <2>2, <2>3
<1> QED BY <1>1, <1>2, <1>3, <1>4, <1>5, <1>6, <1>7, <1>8, ChangeOccupancy

LEMMA AnnounceOccupancy ==
  ASSUME OccupancyInv, NEW e, Announce(e) \/ Lose(e), NEW r \in Readers
  PROVE  Follows(r)'
<1>1. e \in outbox /\ outbox' = outbox \ {e} /\ UNCHANGED <<active, opened, row, ai>>
  BY DEF Announce, Lose, sessions, editing
<1>2. e \in SessionEvent /\ e.kind \in Kinds /\ TypeInv /\ Follows(r)
  BY <1>1 DEF OccupancyInv, TypeInv, TypeOK, SessionEvent
<1>3. CASE Lose(e)
  <2>1. Coming(r)' \subseteq Coming(r) /\ r \in doubt'
    BY <1>1, <1>3 DEF Lose, Coming
  <2>2. Now' = Now /\ \A x : Place(x)' = Place(x)
    BY <1>1 DEF Now, Place
  <2> QED BY <1>1, <1>2, <2>1, <2>2 DEF Follows, Happened
<1>4. CASE Announce(e)
  <2>1. topics[r] \in [Kinds -> Seq(SessionEvent)]
    BY <1>2 DEF TypeInv, TypeOK
  <2>2. topics'[r] = [topics[r] EXCEPT ![e.kind] = Append(@, e)] /\ doubt' = doubt
    BY <1>4 DEF Announce
  <2>3. /\ topics'[r][e.kind] = Append(topics[r][e.kind], e)
        /\ \A k \in Kinds : k # e.kind => topics'[r][k] = topics[r][k]
    BY <1>2, <2>1, <2>2
  <2>4. \A x : (\E i \in DOMAIN topics'[r][e.kind] : x = topics'[r][e.kind][i])
                <=> x = e \/ \E i \in DOMAIN topics[r][e.kind] : x = topics[r][e.kind][i]
    <3>1. PICK q \in Seq(SessionEvent) : q = topics[r][e.kind]
      BY <1>2, <2>1
    <3>2. PICK p : p = Append(q, e)
      OBVIOUS
    <3>3. /\ DOMAIN q = 1..Len(q) /\ DOMAIN p = 1..(Len(q) + 1) /\ Len(q) \in Nat
          /\ p[Len(q) + 1] = e /\ \A i \in 1..Len(q) : p[i] = q[i]
      BY <1>2, <3>2, AppendProperties, LenProperties
    <3>4. \A i \in DOMAIN p : i \in DOMAIN q \/ i = Len(q) + 1
      BY <3>3
    <3>5. \A i \in DOMAIN q : i \in DOMAIN p /\ p[i] = q[i]
      BY <3>3
    <3>6. Len(q) + 1 \in DOMAIN p
      BY <3>3
    <3>7. \A x : (\E i \in DOMAIN p : x = p[i]) <=> x = e \/ \E i \in DOMAIN q : x = q[i]
      BY <3>3, <3>4, <3>5, <3>6
    <3>8. topics'[r][e.kind] = p
      BY <2>3, <3>1, <3>2
    <3> QED BY <3>1, <3>7, <3>8
  <2>5. Coming(r)' = Coming(r)
    <3>1. \A k \in Kinds \ {e.kind} : topics'[r][k] = topics[r][k]
      BY <2>3
    <3>2. \A x : x \in Coming(r)' <=>
            x \in outbox' \/ \E k \in Kinds : \E i \in DOMAIN topics'[r][k] : x = topics'[r][k][i]
      BY DEF Coming
    <3>3. \A x : x \in Coming(r) <=>
            x \in outbox \/ \E k \in Kinds : \E i \in DOMAIN topics[r][k] : x = topics[r][k][i]
      BY DEF Coming
    <3>4. ASSUME NEW x, x \in Coming(r)' PROVE x \in Coming(r)
      <4>1. CASE x \in outbox'
        BY <1>1, <3>3, <4>1
      <4>2. CASE x \notin outbox'
        <5>1. PICK k \in Kinds : \E i \in DOMAIN topics'[r][k] : x = topics'[r][k][i]
          BY <3>2, <3>4, <4>2
        <5>2. CASE k = e.kind
          BY <1>1, <2>4, <3>3, <5>1, <5>2
        <5>3. CASE k # e.kind
          BY <3>1, <3>3, <5>1, <5>3
        <5> QED BY <5>2, <5>3
      <4> QED BY <4>1, <4>2
    <3>5. ASSUME NEW x, x \in Coming(r) PROVE x \in Coming(r)'
      <4>1. CASE x \in outbox
        <5>1. x = e \/ x \in outbox'
          BY <1>1, <4>1
        <5> QED BY <1>2, <2>4, <3>2, <5>1
      <4>2. CASE x \notin outbox
        <5>1. PICK k \in Kinds : \E i \in DOMAIN topics[r][k] : x = topics[r][k][i]
          BY <3>3, <3>5, <4>2
        <5>2. CASE k = e.kind
          BY <2>4, <3>2, <5>1, <5>2
        <5>3. CASE k # e.kind
          BY <3>1, <3>2, <5>1, <5>3
        <5> QED BY <5>2, <5>3
      <4> QED BY <4>1, <4>2
    <3> QED BY <3>4, <3>5
  <2> QED BY <1>1, <1>2, <2>2, <2>5, SameReader
<1> QED BY <1>3, <1>4

\* What a reader takes was to come, and comes no more or once again.
LEMMA Taken ==
  ASSUME TypeInv, NEW r \in Readers, NEW k \in Kinds, Consume(r, k) \/ ConsumerDies(r, k)
  PROVE  /\ UNCHANGED <<active, opened>>
         /\ \A w \in Readers : w # r => Coming(w)' = Coming(w)
         /\ \E e \in Coming(r) :
              /\ Take(r, e) /\ Doubted(r, e) /\ Coming(r)' \subseteq Coming(r)
              /\ \A x \in Coming(r) : x = e \/ x \in Coming(r)'
<1>1. PICK q \in Seq(SessionEvent) : q = topics[r][k] /\ q # <<>> /\ Take(r, Head(q)) /\ Doubted(r, Head(q))
  BY DEF Consume, ConsumerDies, TypeInv, TypeOK
<1>2. UNCHANGED <<active, opened, outbox>>
  BY DEF Consume, ConsumerDies, sessions
<1>3. /\ Head(q) = q[1] /\ Len(q) \in Nat \ {0} /\ DOMAIN q = 1..Len(q)
      /\ DOMAIN Tail(q) = 1..(Len(q) - 1) /\ \A i \in 1..(Len(q) - 1) : Tail(q)[i] = q[i + 1]
  BY <1>1, HeadTailProperties, LenProperties, EmptySeq
<1>4. topics[r] \in [Kinds -> Seq(SessionEvent)] /\ topics \in [Readers -> [Kinds -> Seq(SessionEvent)]]
  BY DEF TypeInv, TypeOK
<1>5. topics' = topics \/ topics' = [topics EXCEPT ![r] = [topics[r] EXCEPT ![k] = Tail(q)]]
  BY <1>1 DEF Consume, ConsumerDies
<1>6. \A w \in Readers : w # r => topics'[w] = topics[w]
  BY <1>4, <1>5
<1>7. \A j \in Kinds : topics'[r][j] = topics[r][j] \/ (j = k /\ topics'[r][j] = Tail(q))
  BY <1>4, <1>5
<1>8. \A w \in Readers : w # r => Coming(w)' = Coming(w)
  BY <1>2, <1>6 DEF Coming
<1>9. \A x : x \in Coming(r) <=> x \in outbox \/ \E j \in Kinds : \E i \in DOMAIN topics[r][j] : x = topics[r][j][i]
  BY DEF Coming
<1>10. \A x : x \in Coming(r)' <=> x \in outbox' \/ \E j \in Kinds : \E i \in DOMAIN topics'[r][j] : x = topics'[r][j][i]
  BY DEF Coming
<1>11. q[1] \in Coming(r)
  BY <1>1, <1>3, <1>9
<1>12. Coming(r)' \subseteq Coming(r)
  <2> SUFFICES ASSUME NEW x \in Coming(r)', x \notin outbox PROVE x \in Coming(r)
    BY <1>9
  <2>1. PICK j \in Kinds : \E i \in DOMAIN topics'[r][j] : x = topics'[r][j][i]
    BY <1>2, <1>10
  <2>2. PICK i \in DOMAIN topics'[r][j] : x = topics'[r][j][i]
    BY <2>1
  <2>3. CASE topics'[r][j] = topics[r][j]
    BY <1>9, <2>2, <2>3
  <2>4. CASE j = k /\ topics'[r][j] = Tail(q)
    <3>1. i \in 1..(Len(q) - 1) /\ x = q[i + 1]
      BY <1>3, <2>2, <2>4
    <3>2. i + 1 \in DOMAIN q
      BY <1>3, <3>1
    <3> QED BY <1>1, <1>9, <3>1, <3>2
  <2> QED BY <1>7, <2>3, <2>4
<1>13. \A x \in Coming(r) : x = q[1] \/ x \in Coming(r)'
  <2> SUFFICES ASSUME NEW x \in Coming(r), x \notin outbox, x # q[1] PROVE x \in Coming(r)'
    BY <1>2, <1>10
  <2>1. PICK j \in Kinds : \E i \in DOMAIN topics[r][j] : x = topics[r][j][i]
    BY <1>9
  <2>2. PICK i \in DOMAIN topics[r][j] : x = topics[r][j][i]
    BY <2>1
  <2>3. CASE topics'[r][j] = topics[r][j]
    BY <1>10, <2>2, <2>3
  <2>4. CASE j = k /\ topics'[r][j] = Tail(q)
    <3>1. i \in 1..Len(q) /\ x = q[i] /\ i # 1
      BY <1>1, <1>3, <2>2, <2>4
    <3>2. i - 1 \in DOMAIN topics'[r][j] /\ topics'[r][j][i - 1] = x
      <4>1. i - 1 \in 1..(Len(q) - 1) /\ (i - 1) + 1 = i
        BY <1>3, <3>1
      <4> QED BY <1>3, <2>4, <3>1, <4>1
    <3> QED BY <1>10, <3>2
  <2> QED BY <1>7, <2>3, <2>4
<1>14. PICK e : e = q[1]
  OBVIOUS
<1>15. e \in Coming(r) /\ Take(r, e) /\ Doubted(r, e) /\ \A x \in Coming(r) : x = e \/ x \in Coming(r)'
  BY <1>1, <1>3, <1>11, <1>13, <1>14
<1> QED BY <1>2, <1>8, <1>12, <1>15

\* What is known after an event.
LEMMA TakenRow ==
  ASSUME TypeInv, NEW r \in Readers, NEW e \in SessionEvent, Take(r, e)
  PROVE  /\ r = "ai" => row' = row /\ (ai' <=> e.kind = "started")
         /\ r = "auth" => /\ ai' = ai /\ (row'.occupied <=> e.kind = "started")
                          /\ e.kind = "closed" => row'.by = NoUser
                          /\ e.kind = "started" => row'.by = IF row.occupied THEN row.by ELSE e.user
<1>1. e.kind \in Kinds /\ row \in Row
  BY DEF SessionEvent, TypeInv, TypeOK
<1>2. CASE r = "ai"
  BY <1>2 DEF Take
<1>3. CASE r = "auth" /\ e.kind = "closed"
  <2>1. row' = Freed /\ ai' = ai
    BY <1>3 DEF Take
  <2>2. row'.occupied = FALSE /\ row'.by = NoUser
    BY <1>1, <2>1 DEF Freed, Row
  <2> QED BY <1>3, <2>1, <2>2
<1>4. CASE r = "auth" /\ e.kind = "started"
  <2>1. row' = OccupiedBy(e) /\ ai' = ai
    BY <1>4 DEF Take
  <2>2. CASE row.occupied
    BY <1>4, <2>1, <2>2 DEF OccupiedBy
  <2>3. CASE ~row.occupied
    <3>1. row' = [row EXCEPT !.occupied = TRUE, !.by = e.user]
      BY <2>1, <2>3 DEF OccupiedBy
    <3>2. row'.occupied = TRUE /\ row'.by = e.user
      BY <1>1, <3>1 DEF Row
    <3> QED BY <1>4, <2>1, <2>3, <3>2
  <2> QED BY <2>2, <2>3
<1> QED BY <1>1, <1>2, <1>3, <1>4 DEF Kinds, Readers

LEMMA ConsumeOccupancy ==
  ASSUME OccupancyInv, NEW w \in Readers, NEW k \in Kinds, Consume(w, k) \/ ConsumerDies(w, k),
         NEW r \in Readers
  PROVE  Follows(r)'
<1>1. TypeInv /\ Follows(r)
  BY DEF OccupancyInv
<1>2. PICK e \in Coming(w) :
        /\ UNCHANGED <<active, opened>>
        /\ \A v \in Readers : v # w => Coming(v)' = Coming(v)
        /\ Take(w, e) /\ Doubted(w, e) /\ Coming(w)' \subseteq Coming(w)
        /\ \A x \in Coming(w) : x = e \/ x \in Coming(w)'
  BY <1>1, Taken
<1>3. /\ e \in SessionEvent /\ e.n \in Nat /\ e.kind \in Kinds /\ Place(e) \in Nat
      /\ opened \in Nat /\ Now \in Nat
  BY <1>1, PlaceTypes
<1>4. Now' = Now /\ \A x : Place(x)' = Place(x)
  BY <1>2 DEF Now, Place
<1>5. CASE r # w
  <2>1. r \in doubt' <=> r \in doubt
    BY <1>2, <1>5 DEF Doubted
  <2>2. (r = "auth" => row' = row) /\ (r = "ai" => ai' = ai)
    BY <1>2, <1>3, <1>5 DEF Take, Readers
  <2> QED BY <1>1, <1>2, <1>5, <2>1, <2>2, SameReader
<1>6. CASE r = w
  <2>1. Happened(r)'
    BY <1>1, <1>2, <1>4, <1>6 DEF Follows, Happened
  <2>2. \A x \in Coming(r) : x \in SessionEvent /\ Place(x) \in Nat /\ (Older(x, e) <=> Place(x) < Place(e))
    BY <1>1, <1>3, PlaceTypes
  <2>3. e.n \in 1..opened /\ Place(e) <= Now /\ (e.kind = "started" /\ Place(e) = Now => e.user = active)
    BY <1>1, <1>2, <1>6 DEF Follows, Happened
  <2>4. ASSUME r \notin doubt' PROVE \E n \in Nat, s \in {0, 1} : Heard(r, n, s)'
    <3>1. \A x \in Coming(r) : Place(e) <= Place(x)
      <4>1. ~\E x \in Coming(r) : Older(x, e)
        BY <1>2, <1>6, <2>4 DEF Doubted
      <4> QED BY <1>3, <2>2, <4>1
    <3>2. \A x \in Coming(r)' : Place(e) <= Place(x)
      BY <1>2, <1>6, <3>1
    <3>3. \A t \in Nat : t # Place(e) /\ (\E x \in Coming(r) : Place(x) = t) => \E x \in Coming(r)' : Place(x) = t
      BY <1>2, <1>6
    <3>4. ASSUME NEW n \in Nat, NEW s \in {0, 1}, Place(e) = 2 * n + s, Knows(r, n, s)',
                 \A t \in Nat : Place(e) < t /\ t <= Now => \E x \in Coming(r) : Place(x) = t
          PROVE  Heard(r, n, s)'
      <4>1. \A t \in Nat : 2 * n + s < t /\ t <= Now => \E x \in Coming(r)' : Place(x) = t
        BY <3>3, <3>4, <1>3
      <4> QED BY <1>4, <2>3, <3>2, <3>4, <4>1 DEF Heard
    <3>5. /\ e.kind = "started" => Place(e) = 2 * e.n
          /\ e.kind = "closed" => Place(e) = 2 * e.n + 1
      BY DEF Place
    <3>6. CASE r \in doubt
      <4> PICK n \in Nat : n = opened
        BY <1>3
      <4>1. e.kind = "closed" /\ e.n = n
        BY <1>2, <1>6, <2>4, <3>6 DEF Doubted
      <4>2. Place(e) = 2 * n + 1 /\ Now = 2 * n + 1 /\ active = NoUser
        BY <1>3, <2>3, <3>5, <4>1 DEF Now
      <4>3. Knows(r, n, 1)'
        BY <1>1, <1>2, <1>3, <1>6, <4>1, <4>2, TakenRow DEF Knows, Readers
      <4>4. \A t \in Nat : ~(Place(e) < t /\ t <= Now)
        BY <4>2
      <4>5. Heard(r, n, 1)'
        BY <3>4, <4>2, <4>3, <4>4
      <4> QED BY <4>5
    <3>7. CASE r \notin doubt
      <4>1. PICK n \in Nat, s \in {0, 1} : Heard(r, n, s)
        BY <1>1, <3>7 DEF Follows
      <4>2. 2 * n + s <= Place(e) /\ Place(e) <= 2 * n + s + 1
        <5>1. 2 * n + s <= Place(e) /\ 2 * n + s + 1 \in Nat
          BY <1>2, <1>6, <4>1 DEF Heard
        <5>2. ASSUME 2 * n + s + 1 < Place(e) PROVE FALSE
          <6>1. 2 * n + s + 1 <= Now
            BY <1>3, <2>3, <5>2
          <6>2. PICK x \in Coming(r) : Place(x) = 2 * n + s + 1
            BY <4>1, <5>1, <6>1 DEF Heard
          <6> QED BY <1>3, <3>1, <5>2, <6>2
        <5> QED BY <1>3, <5>1, <5>2
      <4>3. \A t \in Nat : Place(e) < t /\ t <= Now => \E x \in Coming(r) : Place(x) = t
        BY <1>3, <4>1, <4>2 DEF Heard
      <4>4. Knows(r, n, s)
        BY <4>1 DEF Heard
      <4>5. CASE Place(e) = 2 * n + s
        <5>1. (s = 0 <=> e.kind = "started") /\ (s = 1 <=> e.kind = "closed")
          BY <1>3, <3>5, <4>5 DEF Kinds
        <5>2. Knows(r, n, s)'
          BY <1>1, <1>2, <1>3, <1>4, <1>6, <4>4, <5>1, TakenRow DEF Knows, Readers
        <5> QED BY <3>4, <4>3, <4>5, <5>2
      <4>6. CASE Place(e) = 2 * n + s + 1 /\ s = 0
        <5>1. e.kind = "closed" /\ Place(e) = 2 * n + 1
          BY <1>3, <3>5, <4>6 DEF Kinds
        <5>2. Place(e) = Now => active = NoUser
          BY <1>3, <3>5, <5>1 DEF Now
        <5>3. Knows(r, n, 1)'
          BY <1>1, <1>2, <1>3, <1>4, <1>6, <5>1, <5>2, TakenRow DEF Knows, Readers
        <5> QED BY <3>4, <4>3, <5>1, <5>3
      <4>7. CASE Place(e) = 2 * n + s + 1 /\ s = 1
        <5>1. e.kind = "started" /\ Place(e) = 2 * (n + 1) + 0
          BY <1>3, <3>5, <4>7 DEF Kinds
        <5>2. r = "auth" => ~row.occupied
          BY <4>4, <4>7 DEF Knows
        <5>3. Knows(r, n + 1, 0)'
          BY <1>1, <1>2, <1>3, <1>4, <1>6, <2>3, <5>1, <5>2, TakenRow DEF Knows, Readers
        <5>4. n + 1 \in Nat /\ 0 \in {0, 1}
          OBVIOUS
        <5>5. Heard(r, n + 1, 0)'
          BY <3>4, <4>3, <5>1, <5>3, <5>4
        <5> QED BY <5>4, <5>5
      <4> QED BY <1>3, <4>2, <4>5, <4>6, <4>7
    <3> QED BY <3>6, <3>7
  <2> QED BY <2>1, <2>4 DEF Follows
<1> QED BY <1>5, <1>6

\* Edits and upserts put a reader in doubt when they change what it knows.
LEMMA EditOccupancy ==
  ASSUME OccupancyInv, EditSide, NEW r \in Readers
  PROVE  Follows(r)'
<1>1. UNCHANGED <<active, opened, outbox, topics>> /\ Follows(r)
  BY DEF EditSide, Read, Number, Save, Publish, GoUnsaid, OrderUpsert, AiUpsert, sessions, OccupancyInv
<1>2. Coming(r)' = Coming(r)
  BY <1>1 DEF Coming
<1>3. /\ r \in doubt => r \in doubt'
      /\ r \notin doubt' => (row'.occupied = row.occupied /\ row'.by = row.by) \/ r # "auth"
      /\ r \notin doubt' => ai' = ai \/ r # "ai"
  BY DEF EditSide, Read, Number, Save, Publish, GoUnsaid, OrderUpsert, AiUpsert, DoubtIf, Readers
<1> QED BY <1>1, <1>2, <1>3, SameReader

LEMMA NextOccupancy == OccupancyInv /\ [Next]_vars => OccupancyInv'
<1> SUFFICES ASSUME OccupancyInv, [Next]_vars, NEW r \in Readers PROVE Follows(r)'
  BY StepTypes DEF OccupancyInv
<1>1. CASE UNCHANGED vars
  <2>1. Coming(r)' = Coming(r)
    BY <1>1 DEF vars, Coming
  <2> QED BY <1>1, <2>1, SameReader DEF vars, OccupancyInv
<1>2. CASE SessionSide
  BY <1>2, OpenOccupancy, CloseOccupancy, AnnounceOccupancy DEF SessionSide
<1>3. CASE Consumers
  BY <1>3, ConsumeOccupancy DEF Consumers
<1>4. CASE EditSide
  BY <1>4, EditOccupancy
<1> QED BY <1>1, <1>2, <1>3, <1>4 DEF Next

\* What the services know of the table agrees with its sessions, for any number
\* of users, administrators, sessions, edits and deaths.
THEOREM TablesFollow == Spec => []OccupancyFollows
<1>1. OccupancyInv => OccupancyFollows
  <2> SUFFICES ASSUME OccupancyInv, NEW r \in Readers, Coming(r) = {}, r \notin doubt
               PROVE  /\ r = "auth" => (row.occupied <=> active # NoUser) /\ row.by = active
                      /\ r = "ai" => (ai <=> active # NoUser)
    BY DEF OccupancyFollows, Readers
  <2>1. PICK n \in Nat, s \in {0, 1} : Heard(r, n, s)
    BY DEF OccupancyInv, Follows
  <2>2. opened \in Nat /\ Now \in Nat
    BY PlaceTypes DEF OccupancyInv
  <2>3. 2 * n + s = Now
    BY <2>1, <2>2 DEF Heard
  <2>4. s = 0 <=> active # NoUser
    BY <2>2, <2>3 DEF Now
  <2> QED BY <2>1, <2>3, <2>4 DEF Heard, Knows
<1> QED BY <1>1, InitOccupancy, NextOccupancy, PTL DEF Spec

------------------------------------------------------------------------------
(* Accounts *)

\* Whoever confirms holds a code.
CodesHeld == \A c \in Desks : Has(c, "reset") => deskwork[c].code # Nothing

\* Requests that read the row and are not behind have what is in it; and who was
\* not overwritten has what was set.
KeptInv ==
  /\ AccountsTypeOK /\ CodesHeld
  /\ \A c \in Desks : HasRead(c) /\ c \notin behind => account[deskwork[c].u] = deskwork[c].row
  /\ AccountsKept

LEMMA OpsAre == Ops = {"profile", "status", "employee", "admin", "reset"}
BY DEF Ops, Sets

LEMMA SetsAre ==
  ASSUME NEW op \in Ops, NEW v \in Sets[op]
  PROVE  v \in Untouched \cup Status \cup Password \cup [active : BOOLEAN, secret : Secrets]
<1>1. \/ op = "profile" /\ v \in Sets.profile
      \/ op = "status" /\ v \in Sets.status
      \/ op = "employee" /\ v \in Sets.employee
      \/ op = "admin" /\ v \in Sets.admin
      \/ op = "reset" /\ v \in Sets.reset
  BY OpsAre
<1> QED BY <1>1 DEF Sets

\* What a request saves is a row.
LEMMA SetIsRow ==
  ASSUME NEW op \in Ops, NEW v \in Sets[op], NEW r \in Account
  PROVE  Set(r, v) \in Account
<1>1. DOMAIN r = {"id", "active", "secret"} /\ r.id \in 1..MaxIds /\ r.active \in BOOLEAN /\ r.secret \in Secrets
  BY DEF Account
<1>2. CASE v \in Untouched
  <2>1. DOMAIN v = {}
    BY <1>2 DEF Untouched
  <2> QED BY <1>1, <2>1 DEF Set, Account
<1>3. CASE v \in Status
  <2>1. DOMAIN v = {"active"} /\ v["active"] \in BOOLEAN
    BY <1>3 DEF Status
  <2> QED BY <1>1, <2>1 DEF Set, Account
<1>4. CASE v \in Password
  <2>1. DOMAIN v = {"secret"} /\ v["secret"] \in Secrets
    BY <1>4 DEF Password
  <2> QED BY <1>1, <2>1 DEF Set, Account
<1>5. CASE v \in [active : BOOLEAN, secret : Secrets]
  <2>1. DOMAIN v = {"active", "secret"} /\ v["active"] \in BOOLEAN /\ v["secret"] \in Secrets
    BY <1>5
  <2> QED BY <1>1, <2>1 DEF Set, Account
<1> QED BY <1>2, <1>3, <1>4, <1>5, SetsAre

\* What a desk holds.
LEMMA DesksHold ==
  ASSUME AccountsTypeOK, NEW c \in Desks
  PROVE  /\ HasRead(c) => deskwork[c] \in Work
         /\ Has(c, "enter") => deskwork[c] \in Entry
         /\ Has(c, "reset") => deskwork[c] \in Work
<1>1. deskwork[c] \in Work \cup Entry \cup {Nothing}
  BY DEF AccountsTypeOK
<1>2. \A w \in Work : w.op # "enter"
  BY OpsAre DEF Work
<1>3. \A e \in Entry : e.op = "enter"
  BY DEF Entry
<1> QED BY <1>1, <1>2, <1>3 DEF HasRead, Has

LEMMA InitKept == AccountsInit => KeptInv
BY AccountsAssumption
   DEF AccountsInit, KeptInv, AccountsTypeOK, AccountsKept, CodesHeld, HasRead, Has

\* One desk is given work.
LEMMA OneDesk ==
  ASSUME AccountsTypeOK, CodesHeld, NEW c \in Desks, NEW x, deskwork' = [deskwork EXCEPT ![c] = x],
         x # Nothing /\ x.op = "reset" => x.code # Nothing
  PROVE  /\ CodesHeld'
         /\ deskwork'[c] = x /\ \A d \in Desks : d # c => deskwork'[d] = deskwork[d]
<1>1. deskwork'[c] = x /\ \A d \in Desks : d # c => deskwork'[d] = deskwork[d]
  BY DEF AccountsTypeOK
<1> QED BY <1>1 DEF CodesHeld, Has

\* Steps that change no row.
LEMMA QuietKept ==
  ASSUME KeptInv, UNCHANGED <<role, account, meant, behind, overwritten>>, AccountsTypeOK',
         CodesHeld',
         \A c \in Desks : HasRead(c)' /\ c \notin behind =>
           \/ deskwork'[c] = deskwork[c] 
           \/ account[deskwork'[c].u] = deskwork'[c].row
  PROVE  KeptInv'
BY DEF KeptInv, AccountsKept, HasRead

LEMMA EnterKept ==
  ASSUME KeptInv, NEW c \in Desks, NEW u \in Logins, NEW s \in Secrets, Enter(c, u, s)
  PROVE  KeptInv'
<1> DEFINE e == [op |-> "enter", u |-> u, secret |-> s]
<1>1. e \in Entry
  BY DEF Entry
<1>2. deskwork' = [deskwork EXCEPT ![c] = e] /\ UNCHANGED <<role, account, meant, behind, overwritten, codes>>
  BY DEF Enter
<1>3. e.op = "enter"
  OBVIOUS
<1> HIDE DEF e
<1>4. AccountsTypeOK'
  BY <1>1, <1>2 DEF KeptInv, AccountsTypeOK, codes
<1>5. ~HasRead(c)' /\ CodesHeld' /\ \A d \in Desks : d # c => deskwork'[d] = deskwork[d]
  BY <1>2, <1>3, OneDesk DEF KeptInv, HasRead
<1> QED BY <1>2, <1>4, <1>5, QuietKept

LEMMA ReadKept ==
  ASSUME KeptInv, NEW c \in Desks, NEW u \in Logins, NEW op \in Ops, ReadRow(c, op, u),
         op = "reset" => code[u] # Nothing, exposed' \in SUBSET Codes
  PROVE  KeptInv'
<1>1. account[u] \in Account
  BY DEF ReadRow, Exists, KeptInv, AccountsTypeOK
<1> DEFINE w == [op |-> op, u |-> u, row |-> account[u], saved |-> FALSE,
                 code |-> IF op = "reset" THEN code[u] ELSE Nothing]
<1>2. w \in Work
  <2>1. (IF op = "reset" THEN code[u] ELSE Nothing) \in Codes \cup {Nothing}
    BY DEF KeptInv, AccountsTypeOK
  <2> QED BY <1>1, <2>1 DEF Work
<1>3. w.u = u /\ w.row = account[u] /\ (w.op = "reset" => w.code # Nothing)
  OBVIOUS
<1>4. deskwork' = [deskwork EXCEPT ![c] = w]
      /\ UNCHANGED <<role, account, meant, behind, overwritten, code, issued, used, reused>>
  BY DEF ReadRow
<1> HIDE DEF w
<1>5. AccountsTypeOK'
  BY <1>2, <1>4 DEF KeptInv, AccountsTypeOK
<1>6. CodesHeld' /\ deskwork'[c] = w /\ \A d \in Desks : d # c => deskwork'[d] = deskwork[d]
  BY <1>3, <1>4, OneDesk DEF KeptInv
<1> QED BY <1>3, <1>4, <1>5, <1>6, QuietKept

LEMMA CreateKept ==
  ASSUME KeptInv, NEW c \in Desks, CreateAccount(c)
  PROVE  KeptInv'
<1>1. PICK e \in Entry : e = deskwork[c]
  BY DesksHold DEF CreateAccount, KeptInv
<1>2. e.u \in Logins /\ e.secret \in Secrets
  BY DEF Entry
<1>3. deskwork' = [deskwork EXCEPT ![c] = Nothing] /\ UNCHANGED <<role, behind, codes>>
  BY DEF CreateAccount, Done
<1>4. ~HasRead(c)' /\ CodesHeld' /\ \A d \in Desks : d # c => deskwork'[d] = deskwork[d]
  BY <1>3, OneDesk DEF KeptInv, HasRead
<1>5. CASE Exists(e.u)
  <2>1. UNCHANGED <<account, meant, overwritten>>
    BY <1>1, <1>5 DEF CreateAccount
  <2>2. AccountsTypeOK'
    BY <1>3, <2>1 DEF KeptInv, AccountsTypeOK, codes
  <2> QED BY <1>3, <1>4, <2>1, <2>2, QuietKept
<1>6. CASE ~Exists(e.u)
  <2>1. PICK i \in Fresh(e.u) : Puts(e.u, New(e, i), New(e, i))
    BY <1>1, <1>6 DEF CreateAccount
  <2>2. overwritten' = overwritten \ {e.u}
    BY <1>1, <1>6 DEF CreateAccount
  <2>3. PICK r \in Account : r = New(e, i)
    BY <1>2 DEF New, Account, Fresh
  <2>4. account' = [account EXCEPT ![e.u] = r] /\ meant' = [meant EXCEPT ![e.u] = r]
    BY <2>1, <2>3 DEF Puts
  <2>5. AccountsTypeOK'
    BY <1>2, <1>3, <2>2, <2>4 DEF KeptInv, AccountsTypeOK, codes
  <2>6. \A d \in Desks : HasRead(d) /\ d \notin behind => deskwork[d].u # e.u
    <3> SUFFICES ASSUME NEW d \in Desks, HasRead(d), d \notin behind, deskwork[d].u = e.u PROVE FALSE
      OBVIOUS
    <3>1. deskwork[d].row \in Account
      BY DesksHold DEF KeptInv, Work
    <3> QED BY <1>6, <3>1, NothingIsNothing DEF KeptInv, Exists
  <2>7. \A d \in Desks : HasRead(d)' /\ d \notin behind' => account'[deskwork'[d].u] = deskwork'[d].row
    <3> SUFFICES ASSUME NEW d \in Desks, HasRead(d)', d \notin behind'
                 PROVE  account'[deskwork'[d].u] = deskwork'[d].row
      OBVIOUS
    <3>1. d # c /\ HasRead(d) /\ deskwork'[d] = deskwork[d] /\ d \notin behind
      BY <1>3, <1>4 DEF HasRead
    <3>2. deskwork[d].u \in Logins
      BY <3>1, DesksHold DEF KeptInv, Work
    <3> QED BY <2>4, <2>6, <3>1, <3>2 DEF KeptInv, AccountsTypeOK
  <2>8. AccountsKept'
    BY <1>2, <2>2, <2>4 DEF KeptInv, AccountsTypeOK, AccountsKept
  <2> QED BY <1>4, <2>5, <2>7, <2>8 DEF KeptInv
<1> QED BY <1>5, <1>6

\* Row u is written: requests that have read it are behind.
LEMMA WrittenKept ==
  ASSUME KeptInv, NEW u \in Logins, NEW r \in Account \cup {Nothing}, NEW m,
         account' = [account EXCEPT ![u] = r],
         \A x \in Logins \ overwritten' : x \notin overwritten \/ x = u,
         u \notin overwritten' => m = r,
         meant' = [meant EXCEPT ![u] = m],
         AccountsTypeOK', CodesHeld',
         NEW S, S = OnRow(u),
         \A c \in Desks : HasRead(c)' => HasRead(c) /\ deskwork'[c] = deskwork[c],
         \A c \in Desks : HasRead(c)' /\ c \notin behind' =>
             c \notin behind /\ (c \notin S \/ account' = account)
  PROVE  KeptInv'
<1>1. \A x \in Logins : x # u => account'[x] = account[x] /\ meant'[x] = meant[x]
  BY DEF KeptInv, AccountsTypeOK
<1>2. account'[u] = r /\ meant'[u] = m
  BY DEF KeptInv, AccountsTypeOK
<1>3. AccountsKept'
  BY <1>1, <1>2 DEF KeptInv, AccountsKept
<1>4. ASSUME NEW c \in Desks, HasRead(c)', c \notin behind'
      PROVE  account'[deskwork'[c].u] = deskwork'[c].row
  <2>1. HasRead(c) /\ c \notin behind /\ deskwork'[c] = deskwork[c]
    BY <1>4
  <2>2. deskwork[c].u \in Logins
    BY <2>1, DesksHold DEF KeptInv, Work
  <2>3. account[deskwork[c].u] = deskwork[c].row
    BY <2>1 DEF KeptInv
  <2>4. c \notin OnRow(u) \/ account' = account
    BY <1>4
  <2> QED BY <1>1, <2>1, <2>2, <2>3, <2>4 DEF OnRow
<1> QED BY <1>3, <1>4 DEF KeptInv

LEMMA SaveKept ==
  ASSUME KeptInv, NEW c \in Desks, NEW v, SaveRow(c, v)
  PROVE  KeptInv'
<1>1. PICK w \in Work : w = deskwork[c]
  BY DesksHold DEF SaveRow, KeptInv
<1>2. /\ w.u \in Logins /\ w.op \in Ops /\ w.row \in Account /\ w.code \in Codes \cup {Nothing}
      /\ v \in Sets[w.op] /\ ~w.saved
  BY <1>1 DEF Work, SaveRow, HasRead
<1>3. UNCHANGED <<role, code, issued, exposed>>
  BY DEF SaveRow
<1>4. behind' = (IF account' = account THEN behind ELSE behind \cup OnRow(w.u)) \ {c}
  BY <1>1 DEF SaveRow
<1>5. behind' \subseteq Desks
  BY <1>4 DEF KeptInv, AccountsTypeOK, OnRow
<1>6. CASE Exists(w.u) /\ account[w.u].id # w.row.id
  <2>1. deskwork' = [deskwork EXCEPT ![c] = Nothing]
        /\ UNCHANGED <<account, meant, overwritten, used, reused>>
    BY <1>1, <1>6 DEF SaveRow, Done
  <2>2. AccountsTypeOK'
    BY <1>3, <1>5, <2>1 DEF KeptInv, AccountsTypeOK
  <2>3. ~HasRead(c)' /\ CodesHeld' /\ \A d \in Desks : d # c => deskwork'[d] = deskwork[d]
    BY <2>1, OneDesk DEF KeptInv, HasRead
  <2>4. behind' = behind \ {c}
    BY <1>4, <2>1
  <2> QED BY <2>1, <2>2, <2>3, <2>4 DEF KeptInv, AccountsKept, HasRead
<1>7. CASE ~(Exists(w.u) /\ account[w.u].id # w.row.id)
  <2> DEFINE m == IF meant[w.u] = Nothing THEN Nothing ELSE Set(meant[w.u], v)
  <2>1. /\ account' = [account EXCEPT ![w.u] = Set(w.row, v)] /\ meant' = [meant EXCEPT ![w.u] = m]
        /\ overwritten' = IF c \in behind THEN overwritten \cup {w.u} ELSE overwritten
        /\ Counts(w.code)
        /\ IF w.op = "reset" THEN deskwork' = [deskwork EXCEPT ![c].saved = TRUE] ELSE Done(c)
    BY <1>1, <1>7 DEF SaveRow, Puts, Written
  <2>2. PICK x \in Work \cup {Nothing} :
          /\ deskwork' = [deskwork EXCEPT ![c] = x]
          /\ x = Nothing \/ (x.op = w.op /\ x.saved = TRUE /\ x.code = w.code)
    <3>1. CASE w.op = "reset"
      <4>1. /\ [w EXCEPT !.saved = TRUE] \in Work /\ [w EXCEPT !.saved = TRUE].saved = TRUE
            /\ [w EXCEPT !.saved = TRUE].code = w.code /\ [w EXCEPT !.saved = TRUE].op = w.op
        BY DEF Work
      <4>2. deskwork' = [deskwork EXCEPT ![c] = [w EXCEPT !.saved = TRUE]]
        BY <1>1, <2>1, <3>1
      <4> QED BY <4>1, <4>2
    <3>2. CASE w.op # "reset"
      BY <2>1, <3>2 DEF Done
    <3> QED BY <3>1, <3>2
  <2>3. PICK r \in Account : r = Set(w.row, v)
    BY <1>2, SetIsRow
  <2>4. m \in Account \cup {Nothing}
    <3>1. meant[w.u] = Nothing \/ meant[w.u] \in Account
      BY <1>2 DEF KeptInv, AccountsTypeOK
    <3> QED BY <1>2, <3>1, SetIsRow
  <2>5. w.u \notin overwritten' => m = r
    <3> SUFFICES ASSUME w.u \notin overwritten' PROVE m = r
      OBVIOUS
    <3>1. c \notin behind /\ w.u \notin overwritten
      BY <2>1
    <3>2. account[w.u] = w.row /\ meant[w.u] = account[w.u]
      BY <1>1, <1>2, <3>1 DEF SaveRow, KeptInv, AccountsKept
    <3> QED BY <1>2, <2>3, <3>2, NothingIsNothing
  <2> HIDE DEF m
  <2>6. AccountsTypeOK'
    <3>1. used' \cup reused' \subseteq Codes
      BY <1>2, <2>1 DEF Counts, KeptInv, AccountsTypeOK
    <3>2. account' \in [Logins -> Account \cup {Nothing}] /\ meant' \in [Logins -> Account \cup {Nothing}]
      BY <1>2, <2>1, <2>3, <2>4 DEF KeptInv, AccountsTypeOK
    <3>3. deskwork' \in [Desks -> Work \cup Entry \cup {Nothing}]
      BY <2>2 DEF KeptInv, AccountsTypeOK
    <3>4. overwritten' \subseteq Logins
      BY <1>2, <2>1 DEF KeptInv, AccountsTypeOK
    <3> QED BY <1>3, <1>5, <3>1, <3>2, <3>3, <3>4 DEF KeptInv, AccountsTypeOK
  <2>7. CodesHeld' /\ deskwork'[c] = x /\ \A d \in Desks : d # c => deskwork'[d] = deskwork[d]
    <3>1. deskwork' = [deskwork EXCEPT ![c] = x] /\ AccountsTypeOK /\ CodesHeld
      BY <2>2 DEF KeptInv
    <3>2. x # Nothing /\ x.op = "reset" => x.code # Nothing
      BY <1>1, <2>2 DEF KeptInv, CodesHeld, Has, SaveRow, HasRead
    <3> QED BY <3>1, <3>2, OneDesk
  <2>8. \A d \in Desks : HasRead(d)' => d # c /\ HasRead(d) /\ deskwork'[d] = deskwork[d]
    BY <2>2, <2>7 DEF HasRead
  <2>9. \A d \in Desks : HasRead(d)' /\ d \notin behind' =>
           d \notin behind /\ (d \notin OnRow(w.u) \/ account' = account)
    BY <1>4, <2>8
  <2>10. \A y \in Logins \ overwritten' : y \notin overwritten \/ y = w.u
    BY <2>1
  <2> QED BY <1>2, <2>1, <2>3, <2>5, <2>6, <2>7, <2>8, <2>9, <2>10, WrittenKept
<1> QED BY <1>6, <1>7

LEMMA FailKept ==
  ASSUME KeptInv, NEW c \in Desks, Fail(c)
  PROVE  KeptInv'
<1>1. /\ deskwork' = [deskwork EXCEPT ![c] = Nothing] /\ behind' = behind \ {c}
      /\ UNCHANGED <<role, account, meant, overwritten, code, issued, used, reused>>
  BY DEF Fail, Done
<1>2. exposed' \subseteq Codes
  <2>1. CASE Has(c, "reset") /\ deskwork[c].saved
    <3>1. exposed' = exposed \cup {deskwork[c].code}
      BY <2>1 DEF Fail
    <3>2. deskwork[c].code \in Codes
      BY <2>1, DesksHold DEF KeptInv, CodesHeld, Work
    <3> QED BY <3>1, <3>2 DEF KeptInv, AccountsTypeOK
  <2> QED BY <2>1 DEF Fail, KeptInv, AccountsTypeOK
<1>3. AccountsTypeOK'
  BY <1>1, <1>2 DEF KeptInv, AccountsTypeOK
<1>4. ~HasRead(c)' /\ CodesHeld' /\ \A d \in Desks : d # c => deskwork'[d] = deskwork[d]
  BY <1>1, OneDesk DEF KeptInv, HasRead
<1> QED BY <1>1, <1>3, <1>4 DEF KeptInv, AccountsKept, HasRead

LEMMA BlockKept ==
  ASSUME KeptInv, NEW u \in Logins, NEW on \in BOOLEAN, Block(u, on)
  PROVE  KeptInv'
<1>1. PICK a \in Account : a = account[u]
  BY DEF Block, Exists, KeptInv, AccountsTypeOK
<1> DEFINE r == [a EXCEPT !.active = on]
           m == IF meant[u] = Nothing THEN Nothing ELSE [meant[u] EXCEPT !.active = on]
<1>2. r \in Account
  BY DEF Account
<1>3. m \in Account \cup {Nothing}
  <2>1. meant[u] = Nothing \/ meant[u] \in Account
    BY DEF KeptInv, AccountsTypeOK
  <2> QED BY <2>1 DEF Account
<1>4. account' = [account EXCEPT ![u] = r]
  BY <1>1 DEF Block
<1>5. meant' = [meant EXCEPT ![u] = m]
  BY DEF Block, KeptInv, AccountsTypeOK
<1>6. /\ behind' = behind \cup OnRow(u) /\ UNCHANGED <<role, deskwork, overwritten, codes>>
  BY DEF Block
<1>7. u \notin overwritten' => m = r
  BY <1>1, <1>6, NothingIsNothing DEF KeptInv, AccountsKept
<1> HIDE DEF r, m
<1>8. AccountsTypeOK'
  BY <1>2, <1>3, <1>4, <1>5, <1>6 DEF KeptInv, AccountsTypeOK, codes, OnRow
<1>9. CodesHeld' /\ \A c \in Desks : HasRead(c)' => HasRead(c) /\ deskwork'[c] = deskwork[c]
  BY <1>6 DEF KeptInv, CodesHeld, Has, HasRead
<1> QED BY <1>2, <1>4, <1>5, <1>6, <1>7, <1>8, <1>9, WrittenKept

LEMMA DeleteKept ==
  ASSUME KeptInv, NEW u \in Logins, DeleteAccount(u)
  PROVE  KeptInv'
<1>1. /\ account' = [account EXCEPT ![u] = Nothing] /\ meant' = [meant EXCEPT ![u] = Nothing]
      /\ behind' = behind \cup OnRow(u) /\ UNCHANGED <<role, deskwork, overwritten, codes>>
  BY DEF DeleteAccount, Puts
<1>2. AccountsTypeOK'
  BY <1>1 DEF KeptInv, AccountsTypeOK, codes, OnRow
<1>3. CodesHeld' /\ \A c \in Desks : HasRead(c)' => HasRead(c) /\ deskwork'[c] = deskwork[c]
  BY <1>1 DEF KeptInv, CodesHeld, Has, HasRead
<1> QED BY <1>1, <1>2, <1>3, WrittenKept

LEMMA CodeKept ==
  ASSUME KeptInv, NEW u \in Logins, AskCode(u) \/ ExpireCode(u)
  PROVE  KeptInv'
<1>1. UNCHANGED <<role, account, meant, deskwork, behind, overwritten, used, reused, exposed>>
  BY DEF AskCode, ExpireCode
<1>2. issued' \in 0..MaxCodes /\ code' \in [Logins -> Codes \cup {Nothing}]
  BY AccountsAssumption DEF AskCode, ExpireCode, KeptInv, AccountsTypeOK, Codes
<1>3. AccountsTypeOK' /\ CodesHeld'
  BY <1>1, <1>2 DEF KeptInv, AccountsTypeOK, CodesHeld, Has
<1> QED BY <1>1, <1>3, QuietKept

LEMMA ForgetKept ==
  ASSUME KeptInv, NEW c \in Desks, DeleteCode(c)
  PROVE  KeptInv'
<1>1. /\ deskwork' = [deskwork EXCEPT ![c] = Nothing]
      /\ UNCHANGED <<role, account, meant, behind, overwritten, issued, used, reused, exposed>>
  BY DEF DeleteCode, Done
<1>2. code' \in [Logins -> Codes \cup {Nothing}]
  BY DEF DeleteCode, KeptInv, AccountsTypeOK
<1>3. AccountsTypeOK'
  BY <1>1, <1>2 DEF KeptInv, AccountsTypeOK
<1>4. ~HasRead(c)' /\ CodesHeld' /\ \A d \in Desks : d # c => deskwork'[d] = deskwork[d]
  BY <1>1, OneDesk DEF KeptInv, HasRead
<1> QED BY <1>1, <1>3, <1>4, QuietKept

LEMMA ReadingKept ==
  ASSUME KeptInv, NEW c \in Desks, NEW u \in Logins,
         \/ ReadProfile(c, u) \/ ReadGuest(c, u) \/ ReadEmployee(c, u)
         \/ ReadAdmin(c, u) \/ ReadCode(c, u)
  PROVE  KeptInv'
<1>1. exposed \subseteq Codes /\ code[u] \in Codes \cup {Nothing}
  BY DEF KeptInv, AccountsTypeOK
<1>2. CASE ReadCode(c, u)
  BY <1>1, <1>2, OpsAre, ReadKept DEF ReadCode
<1> QED BY <1>1, <1>2, OpsAre, ReadKept DEF ReadProfile, ReadGuest, ReadEmployee, ReadAdmin

LEMMA NextKept == KeptInv /\ [AccountsNext]_accountVars => KeptInv'
<1> SUFFICES ASSUME KeptInv, [AccountsNext]_accountVars PROVE KeptInv'
  OBVIOUS
<1>1. CASE UNCHANGED accountVars
  BY <1>1 DEF accountVars, KeptInv, AccountsTypeOK, AccountsKept, CodesHeld, Has, HasRead
<1> QED BY <1>1, EnterKept, ReadingKept, CreateKept, FailKept, ForgetKept, SaveKept, BlockKept,
           DeleteKept, CodeKept DEF AccountsNext

\* The row of an account holds what was set of it, for any number of accounts,
\* passwords and requests, unless a request saved a row that had changed.
THEOREM AccountsAreKept == AccountsSpec => [](AccountsTypeOK /\ AccountsKept)
<1>1. KeptInv => AccountsTypeOK /\ AccountsKept
  BY DEF KeptInv
<1> QED BY <1>1, InitKept, NextKept, PTL DEF AccountsSpec

\* Confirmations of code k.
Resets(k) == {c \in Desks : Has(c, "reset") /\ deskwork[c].code = k}

\* A code is cached for the account it was asked for.  Unless it is exposed, one
\* confirmation at most holds it; and when it has changed a password, that one
\* is about to delete it, or nobody holds it and it is not cached any more.
CodeInv(k) ==
  /\ k > issued => Resets(k) = {} /\ k \notin used /\ \A u \in Logins : code[u] # k
  /\ \A u, v \in Logins : code[u] = k /\ code[v] = k => u = v
  /\ \A c \in Resets(k) : \A v \in Logins : code[v] = k => v = deskwork[c].u
  /\ k \notin exposed =>
       /\ \A c, d \in Resets(k) : c = d
       /\ k \in used => \/ \E c \in Resets(k) : deskwork[c].saved
                        \/ Resets(k) = {} /\ \A u \in Logins : code[u] # k
       /\ k \notin reused

CodesInv ==
  /\ KeptInv
  /\ \A c \in Desks : HasRead(c) /\ deskwork[c].op # "reset" => deskwork[c].code = Nothing
  /\ \A k \in Codes : CodeInv(k)

LEMMA InitCodes == AccountsInit => CodesInv
<1> SUFFICES ASSUME AccountsInit PROVE CodesInv
  OBVIOUS
<1>1. \A c \in Desks : ~HasRead(c) /\ ~Has(c, "reset")
  BY DEF AccountsInit, HasRead, Has
<1>2. \A k \in Codes : Resets(k) = {}
  BY <1>1 DEF Resets
<1>3. \A k \in Codes, u \in Logins : code[u] # k
  BY NothingIsNothing DEF AccountsInit
<1> QED BY <1>1, <1>2, <1>3, InitKept DEF CodesInv, CodeInv, AccountsInit

\* Steps that at most forget codes, and confirmations that have saved nothing.
LEMMA FewerCodes ==
  ASSUME CodesInv, KeptInv', UNCHANGED <<issued, used, reused>>, exposed \subseteq exposed',
         \A u \in Logins : code'[u] = code[u] \/ code'[u] = Nothing,
         \A c \in Desks : HasRead(c)' /\ deskwork'[c].op # "reset" => deskwork'[c].code = Nothing,
         \A c \in Desks : Has(c, "reset")' => Has(c, "reset") /\ deskwork'[c] = deskwork[c],
         \A c \in Desks : Has(c, "reset") /\ deskwork[c].saved /\ deskwork[c].code \notin exposed'
            => deskwork'[c] = deskwork[c]
  PROVE  CodesInv'
<1>1. \A k : \A c \in Resets(k)' : c \in Resets(k) /\ deskwork'[c] = deskwork[c]
  BY DEF Resets
<1>2. ASSUME NEW k \in Codes PROVE CodeInv(k)'
  <2>1. CodeInv(k) /\ \A u \in Logins : code'[u] = k => code[u] = k
    BY NothingIsNothing DEF CodesInv
  <2>2. ASSUME k \notin exposed', k \in used', Resets(k)' # {} \/ \E u \in Logins : code'[u] = k
        PROVE  \E c \in Resets(k)' : deskwork'[c].saved
    <3>1. PICK c \in Resets(k) : deskwork[c].saved
      BY <1>1, <2>1, <2>2 DEF CodeInv
    <3>2. deskwork'[c] = deskwork[c]
      BY <2>2, <3>1 DEF Resets
    <3>3. c \in Resets(k)'
      BY <3>2 DEF Resets, Has
    <3> QED BY <3>1, <3>2, <3>3
  <2> QED BY <1>1, <2>1, <2>2 DEF CodeInv
<1> QED BY <1>2 DEF CodesInv

LEMMA ReadCodes ==
  ASSUME CodesInv, KeptInv', NEW c \in Desks, NEW u \in Logins, ReadCode(c, u)
  PROVE  CodesInv'
<1>1. /\ UNCHANGED <<code, issued, used, reused>> /\ code[u] \in Codes /\ deskwork[c] = Nothing
      /\ exposed' = IF Resets(code[u]) # {} THEN exposed \cup {code[u]} ELSE exposed
  BY DEF ReadCode, ReadRow, Resets, CodesInv, KeptInv, AccountsTypeOK
<1> DEFINE w == [op |-> "reset", u |-> u, row |-> account[u], saved |-> FALSE, code |-> code[u]]
<1>2. deskwork' = [deskwork EXCEPT ![c] = w]
  BY DEF ReadCode, ReadRow
<1>3. deskwork'[c] = w /\ \A d \in Desks : d # c => deskwork'[d] = deskwork[d]
  BY <1>2 DEF CodesInv, KeptInv, AccountsTypeOK
<1>4. w.op = "reset" /\ w.u = u /\ w.code = code[u] /\ w # Nothing
  <2>1. deskwork'[c] \in Work \cup Entry \cup {Nothing}
    BY DEF KeptInv, AccountsTypeOK
  <2>2. w \in Work
    <3>1. account[u] \in Account
      BY DEF ReadCode, ReadRow, Exists, CodesInv, KeptInv, AccountsTypeOK
    <3> QED BY <1>1, <3>1, OpsAre DEF Work
  <2> QED BY <2>2, NothingIsNothing
<1> HIDE DEF w
<1>5. c \notin Resets(code[u]) /\ \A k : Resets(k)' = IF k = code[u] THEN Resets(k) \cup {c} ELSE Resets(k)
  BY <1>1, <1>3, <1>4 DEF Resets, Has
<1>6. \A d \in Desks : HasRead(d)' /\ deskwork'[d].op # "reset" => deskwork'[d].code = Nothing
  BY <1>3, <1>4 DEF CodesInv, HasRead
<1>7. ASSUME NEW k \in Codes PROVE CodeInv(k)'
  <2>1. CASE k = code[u]
    <3>1. CodeInv(k)
      BY DEF CodesInv
    <3>2. k \notin exposed' => Resets(k) = {} /\ k \notin exposed
      BY <1>1, <2>1
    <3>3. \A d \in Resets(k) : d # c /\ deskwork'[d] = deskwork[d]
      BY <1>3, <1>5, <2>1 DEF Resets
    <3>4. k \notin exposed' => k \notin used
      BY <2>1, <3>1, <3>2 DEF CodeInv
    <3>5. Resets(k)' = Resets(k) \cup {c}
      BY <1>5, <2>1
    <3>6. \A v \in Logins : code[v] = k => v = u
      BY <2>1, <3>1 DEF CodeInv
    <3> QED BY <1>1, <1>3, <1>4, <2>1, <3>1, <3>2, <3>3, <3>4, <3>5, <3>6 DEF CodeInv
  <2>2. CASE k # code[u]
    <3>1. CodeInv(k) /\ Resets(k)' = Resets(k) /\ (k \in exposed' <=> k \in exposed)
      BY <1>1, <1>5, <2>2 DEF CodesInv
    <3>2. \A d \in Resets(k) : deskwork'[d] = deskwork[d]
      BY <1>1, <1>3 DEF Resets, Has
    <3> QED BY <1>1, <3>1, <3>2 DEF CodeInv
  <2> QED BY <2>1, <2>2
<1> QED BY <1>6, <1>7 DEF CodesInv

LEMMA AskCodes ==
  ASSUME CodesInv, KeptInv', NEW u \in Logins, AskCode(u)
  PROVE  CodesInv'
<1>1. /\ issued \in Nat /\ issued' = issued + 1 /\ code' = [code EXCEPT ![u] = issued + 1]
      /\ UNCHANGED <<deskwork, used, reused, exposed>>
  BY DEF AskCode, CodesInv, KeptInv, AccountsTypeOK
<1>2. code'[u] = issued + 1 /\ \A v \in Logins : v # u => code'[v] = code[v]
  BY <1>1 DEF CodesInv, KeptInv, AccountsTypeOK
<1>3. \A k : Resets(k)' = Resets(k)
  BY <1>1 DEF Resets, Has
<1>4. ASSUME NEW k \in Codes PROVE CodeInv(k)'
  <2>1. CodeInv(k) /\ k \in Nat
    BY DEF CodesInv, Codes
  <2>2. CASE k = issued + 1
    BY <1>1, <1>2, <1>3, <2>1, <2>2 DEF CodeInv
  <2>3. CASE k # issued + 1
    BY <1>1, <1>2, <1>3, <2>1, <2>3 DEF CodeInv
  <2> QED BY <2>2, <2>3
<1> QED BY <1>1, <1>4 DEF CodesInv, HasRead

LEMMA DeleteCodes ==
  ASSUME CodesInv, KeptInv', NEW c \in Desks, DeleteCode(c)
  PROVE  CodesInv'
<1>1. PICK w \in Work : w = deskwork[c]
  BY DesksHold DEF DeleteCode, CodesInv, KeptInv
<1>2. /\ w.u \in Logins /\ w.code \in Codes /\ c \in Resets(w.code)
      /\ deskwork' = [deskwork EXCEPT ![c] = Nothing] /\ code' = [code EXCEPT ![w.u] = Nothing]
      /\ UNCHANGED <<issued, used, reused, exposed>>
  BY <1>1 DEF DeleteCode, Done, Work, Resets, Has, CodesInv, KeptInv, CodesHeld
<1>3. deskwork'[c] = Nothing /\ \A d \in Desks : d # c => deskwork'[d] = deskwork[d]
  BY <1>2 DEF CodesInv, KeptInv, AccountsTypeOK
<1>4. code'[w.u] = Nothing /\ \A v \in Logins : v # w.u => code'[v] = code[v]
  BY <1>2 DEF CodesInv, KeptInv, AccountsTypeOK
<1>5. \A k : Resets(k)' = Resets(k) \ {c}
  BY <1>3 DEF Resets, Has
<1>6. \A k : \A d \in Resets(k)' : deskwork'[d] = deskwork[d]
  BY <1>3, <1>5 DEF Resets
<1>7. ASSUME NEW k \in Codes PROVE CodeInv(k)'
  <2>1. CodeInv(k) /\ Nothing # k
    BY NothingIsNothing DEF CodesInv
  <2>2. CASE k = w.code
    <3>1. \A v \in Logins : code'[v] # k
      BY <1>1, <1>2, <1>4, <2>1, <2>2 DEF CodeInv
    <3>2. k \notin exposed => Resets(k)' = {}
      BY <1>2, <1>5, <2>1, <2>2 DEF CodeInv
    <3> QED BY <1>2, <1>5, <1>6, <2>1, <3>1, <3>2 DEF CodeInv
  <2>3. CASE k # w.code
    <3>1. Resets(k)' = Resets(k)
      BY <1>1, <1>5, <2>3 DEF Resets
    <3>2. \A v \in Logins : code'[v] = k => code[v] = k
      BY <1>4, <2>1
    <3> QED BY <1>2, <1>6, <2>1, <3>1, <3>2 DEF CodeInv
  <2> QED BY <2>2, <2>3
<1>8. \A d \in Desks : HasRead(d)' /\ deskwork'[d].op # "reset" => deskwork'[d].code = Nothing
  BY <1>3 DEF CodesInv, HasRead
<1> QED BY <1>7, <1>8 DEF CodesInv

\* The confirmations of a code are the same, and of the same accounts.
LEMMA SameHolders ==
  ASSUME NEW k, CodeInv(k), code' = code, issued' = issued, exposed' = exposed,
         NEW S, S = Resets(k), Resets(k)' = S,
         \A d \in S : deskwork'[d].u = deskwork[d].u,
         \A d \in S : deskwork[d].saved => deskwork'[d].saved
  PROVE  /\ \A u, v \in Logins : code'[u] = k /\ code'[v] = k => u = v
         /\ \A d \in Resets(k)' : \A v \in Logins : code'[v] = k => v = deskwork'[d].u
         /\ k \notin exposed' => \A c, d \in Resets(k)' : c = d
         /\ (k \in used' <=> k \in used) /\ (k \in reused' <=> k \in reused) => CodeInv(k)'
<1>1. \A u, v \in Logins : code'[u] = k /\ code'[v] = k => u = v
  BY DEF CodeInv
<1>2. \A d \in S : \A v \in Logins : code'[v] = k => v = deskwork'[d].u
  BY DEF CodeInv
<1>3. k \notin exposed' => \A c, d \in S : c = d
  BY DEF CodeInv
<1>4. ASSUME k \in used' <=> k \in used, k \in reused' <=> k \in reused
      PROVE  CodeInv(k)'
  <2>1. ASSUME k \notin exposed', k \in used'
        PROVE  (\E c \in S : deskwork'[c].saved) \/ (S = {} /\ \A u \in Logins : code'[u] # k)
    <3>1. (\E c \in S : deskwork[c].saved) \/ (S = {} /\ \A u \in Logins : code[u] # k)
      BY <1>4, <2>1 DEF CodeInv
    <3> QED BY <3>1
  <2>2. k > issued' => S = {} /\ k \notin used' /\ \A u \in Logins : code'[u] # k
    BY <1>4 DEF CodeInv
  <2>3. k \notin exposed' => k \notin reused'
    BY <1>4 DEF CodeInv
  <2> QED BY <1>1, <1>2, <1>3, <2>1, <2>2, <2>3 DEF CodeInv
<1> QED BY <1>1, <1>2, <1>3, <1>4

LEMMA SaveCodes ==
  ASSUME CodesInv, KeptInv', NEW c \in Desks, NEW v, SaveRow(c, v)
  PROVE  CodesInv'
<1>1. PICK w \in Work : w = deskwork[c]
  BY DesksHold DEF SaveRow, CodesInv, KeptInv
<1>2. /\ w.u \in Logins /\ w.op \in Ops /\ w.code \in Codes \cup {Nothing} /\ ~w.saved /\ w # Nothing
      /\ HasRead(c) /\ UNCHANGED <<code, issued, exposed>>
  BY <1>1, NothingIsNothing DEF Work, SaveRow, HasRead
<1>3. \/ deskwork' = [deskwork EXCEPT ![c] = Nothing] /\ UNCHANGED <<used, reused>>
      \/ deskwork' = [deskwork EXCEPT ![c] = Nothing] /\ Counts(w.code) /\ w.op # "reset"
      \/ deskwork' = [deskwork EXCEPT ![c].saved = TRUE] /\ Counts(w.code) /\ w.op = "reset"
  BY <1>1 DEF SaveRow, Done
<1>4. CASE w.op # "reset" \/ UNCHANGED <<used, reused>>
  <2>1. deskwork' = [deskwork EXCEPT ![c] = Nothing] \/ w.op = "reset"
    BY <1>3
  <2>2. UNCHANGED <<used, reused>>
    <3>1. CASE w.op # "reset"
      <4>1. w.code = Nothing
        BY <1>1, <1>2, <3>1 DEF CodesInv
      <4>2. Nothing \notin used
        BY NothingIsNothing DEF CodesInv, KeptInv, AccountsTypeOK
      <4> QED BY <1>3, <4>1, <4>2, <3>1 DEF Counts
    <3> QED BY <1>4, <3>1
  <2>3. CASE deskwork' = [deskwork EXCEPT ![c] = Nothing]
    <3>1. deskwork'[c] = Nothing /\ \A d \in Desks : d # c => deskwork'[d] = deskwork[d]
      BY <2>3 DEF CodesInv, KeptInv, AccountsTypeOK
    <3> QED BY <1>1, <1>2, <2>2, <3>1, FewerCodes DEF CodesInv, HasRead, Has
  <2>4. CASE deskwork' = [deskwork EXCEPT ![c].saved = TRUE] /\ Counts(w.code) /\ w.op = "reset"
    <3>1. w.code \in Codes /\ w.code \in used
      <4>1. w.code \in Codes
        BY <1>1, <1>2, <2>4 DEF CodesInv, KeptInv, CodesHeld, Has
      <4> QED BY <2>2, <2>4, <4>1, NothingIsNothing DEF Counts
    <3>2. CodeInv(w.code) /\ c \in Resets(w.code)
      BY <1>1, <1>2, <2>4, <3>1 DEF CodesInv, Resets, Has
    <3>3. w.code \in exposed
      BY <1>1, <1>2, <3>1, <3>2 DEF CodeInv
    <3> DEFINE x == [w EXCEPT !.saved = TRUE]
    <3>4. x.op = "reset" /\ x.code = w.code /\ x.u = w.u /\ x.saved = TRUE /\ x \in Work
      BY <2>4 DEF Work
    <3>5. deskwork' = [deskwork EXCEPT ![c] = x]
      BY <1>1, <2>4
    <3> HIDE DEF x
    <3>6. deskwork'[c] = x /\ \A d \in Desks : d # c => deskwork'[d] = deskwork[d]
      BY <3>5 DEF CodesInv, KeptInv, AccountsTypeOK
    <3>7. \A k : Resets(k)' = Resets(k)
      <4>1. /\ Has(c, "reset")' /\ Has(c, "reset") /\ deskwork'[c].code = deskwork[c].code
            /\ \A d \in Desks : d # c => deskwork'[d] = deskwork[d]
        BY <1>1, <1>2, <2>4, <3>4, <3>6, NothingIsNothing DEF Has
      <4>2. \A d \in Desks : /\ Has(d, "reset")' <=> Has(d, "reset")
                             /\ deskwork'[d].code = deskwork[d].code
        BY <4>1 DEF Has
      <4> QED BY <4>2, Zenon DEF Resets
    <3>8. /\ \A k : \A d \in Resets(k) : deskwork'[d].u = deskwork[d].u
          /\ \A k : \A d \in Resets(k) : deskwork[d].saved => deskwork'[d].saved
      BY <1>1, <3>4, <3>6 DEF Resets
    <3>9. ASSUME NEW k \in Codes PROVE CodeInv(k)'
      <4>1. CodeInv(k)
        BY DEF CodesInv
      <4> QED BY <1>2, <2>2, <3>7, <3>8, <4>1, SameHolders
    <3>10. \A d \in Desks : HasRead(d)' /\ deskwork'[d].op # "reset" => deskwork'[d].code = Nothing
      BY <3>4, <3>6 DEF CodesInv, HasRead
    <3> QED BY <3>9, <3>10 DEF CodesInv
  <2> QED BY <1>3, <1>4, <2>1, <2>3, <2>4
<1>5. CASE deskwork' = [deskwork EXCEPT ![c].saved = TRUE] /\ Counts(w.code) /\ w.op = "reset"
  <2> DEFINE x == [w EXCEPT !.saved = TRUE]
  <2>1. x.op = "reset" /\ x.code = w.code /\ x.u = w.u /\ x.saved = TRUE /\ x \in Work
    BY <1>5 DEF Work
  <2>2. deskwork' = [deskwork EXCEPT ![c] = x]
    BY <1>1, <1>5
  <2> HIDE DEF x
  <2>3. deskwork'[c] = x /\ \A d \in Desks : d # c => deskwork'[d] = deskwork[d]
    BY <2>2 DEF CodesInv, KeptInv, AccountsTypeOK
  <2>4. \A k : Resets(k)' = Resets(k)
    <3>1. /\ Has(c, "reset")' /\ Has(c, "reset") /\ deskwork'[c].code = deskwork[c].code
          /\ \A d \in Desks : d # c => deskwork'[d] = deskwork[d]
      BY <1>1, <1>2, <1>5, <2>1, <2>3, NothingIsNothing DEF Has
    <3>2. \A d \in Desks : /\ Has(d, "reset")' <=> Has(d, "reset")
                           /\ deskwork'[d].code = deskwork[d].code
      BY <3>1 DEF Has
    <3> QED BY <3>2, Zenon DEF Resets
  <2>5. /\ \A k : \A d \in Resets(k) : deskwork'[d].u = deskwork[d].u
        /\ \A k : \A d \in Resets(k) : deskwork[d].saved => deskwork'[d].saved
    BY <1>1, <2>1, <2>3 DEF Resets
  <2>6. w.code \in Codes /\ c \in Resets(w.code)
    BY <1>1, <1>2, <1>5 DEF CodesInv, KeptInv, CodesHeld, Resets, Has
  <2>7. used' = used \cup {w.code} /\ reused' = reused \cup ({w.code} \cap used)
    BY <1>5, <2>6, NothingIsNothing DEF Counts
  <2>8. ASSUME NEW k \in Codes PROVE CodeInv(k)'
    <3>1. CodeInv(k)
      BY DEF CodesInv
    <3>2. CASE k # w.code
      BY <1>2, <2>4, <2>5, <2>7, <3>1, <3>2, SameHolders
    <3>3. CASE k = w.code
      <4>1. k \notin exposed => k \notin used
        BY <1>1, <1>2, <2>6, <3>1, <3>3 DEF CodeInv
      <4>2. c \in Resets(k)' /\ deskwork'[c].saved
        BY <2>1, <2>3, <2>4, <2>6, <3>3
      <4>3. k <= issued
        BY <2>6, <3>1, <3>3 DEF CodeInv, Codes, CodesInv, KeptInv, AccountsTypeOK
      <4>4. /\ \A u, y \in Logins : code'[u] = k /\ code'[y] = k => u = y
            /\ \A d \in Resets(k)' : \A y \in Logins : code'[y] = k => y = deskwork'[d].u
        BY <1>2, <2>4, <2>5, <3>1, SameHolders
      <4>5. k \notin exposed => k \notin reused' /\ \A d, e \in Resets(k)' : d = e
        BY <2>4, <2>7, <3>1, <4>1 DEF CodeInv
      <4>6. ~(k > issued')
        BY <1>2, <4>3 DEF Codes, CodesInv, KeptInv, AccountsTypeOK
      <4>7. exposed' = exposed
        BY <1>2
      <4> QED BY <4>2, <4>4, <4>5, <4>6, <4>7 DEF CodeInv
    <3> QED BY <3>2, <3>3
  <2>9. \A d \in Desks : HasRead(d)' /\ deskwork'[d].op # "reset" => deskwork'[d].code = Nothing
    BY <2>1, <2>3 DEF CodesInv, HasRead
  <2> QED BY <2>8, <2>9 DEF CodesInv
<1> QED BY <1>3, <1>4, <1>5

LEMMA NextCodes == CodesInv /\ KeptInv' /\ [AccountsNext]_accountVars => CodesInv'
<1> SUFFICES ASSUME CodesInv, KeptInv', [AccountsNext]_accountVars PROVE CodesInv'
  OBVIOUS
<1>1. CASE UNCHANGED accountVars
  BY <1>1, FewerCodes DEF accountVars, CodesInv, HasRead, Has
<1>2. ASSUME NEW c \in Desks, NEW u \in Logins, NEW s \in Secrets, Enter(c, u, s) PROVE CodesInv'
  <2>1. /\ deskwork[c] = Nothing /\ deskwork'[c].op = "enter"
        /\ \A d \in Desks : d # c => deskwork'[d] = deskwork[d]
        /\ UNCHANGED <<code, issued, used, reused, exposed>>
    BY <1>2 DEF Enter, codes, CodesInv, KeptInv, AccountsTypeOK
  <2> QED BY <2>1, FewerCodes DEF CodesInv, HasRead, Has
<1>3. ASSUME NEW c \in Desks, NEW u \in Logins, NEW op \in Ops \ {"reset"}, ReadRow(c, op, u),
             UNCHANGED exposed
      PROVE  CodesInv'
  <2>1. /\ deskwork[c] = Nothing /\ deskwork'[c].op = op /\ deskwork'[c].code = Nothing
        /\ \A d \in Desks : d # c => deskwork'[d] = deskwork[d]
        /\ UNCHANGED <<code, issued, used, reused, exposed>>
    BY <1>3 DEF ReadRow, CodesInv, KeptInv, AccountsTypeOK
  <2> QED BY <2>1, FewerCodes DEF CodesInv, HasRead, Has
<1>4. ASSUME NEW c \in Desks, NEW u \in Logins,
             ReadProfile(c, u) \/ ReadGuest(c, u) \/ ReadEmployee(c, u) \/ ReadAdmin(c, u)
      PROVE  CodesInv'
  BY <1>3, <1>4, OpsAre DEF ReadProfile, ReadGuest, ReadEmployee, ReadAdmin
<1>5. ASSUME NEW c \in Desks, CreateAccount(c) PROVE CodesInv'
  <2>1. /\ deskwork[c] # Nothing /\ deskwork[c].op = "enter" /\ deskwork'[c] = Nothing
        /\ \A d \in Desks : d # c => deskwork'[d] = deskwork[d]
        /\ UNCHANGED <<code, issued, used, reused, exposed>>
    BY <1>5 DEF CreateAccount, Done, Has, codes, CodesInv, KeptInv, AccountsTypeOK
  <2> QED BY <2>1, FewerCodes DEF CodesInv, HasRead, Has
<1>6. ASSUME NEW c \in Desks, Fail(c) PROVE CodesInv'
  <2>1. /\ deskwork'[c] = Nothing /\ \A d \in Desks : d # c => deskwork'[d] = deskwork[d]
        /\ UNCHANGED <<code, issued, used, reused>>
    BY <1>6 DEF Fail, Done, CodesInv, KeptInv, AccountsTypeOK
  <2>2. exposed \subseteq exposed' /\ (Has(c, "reset") /\ deskwork[c].saved => deskwork[c].code \in exposed')
    BY <1>6 DEF Fail
  <2> QED BY <2>1, <2>2, FewerCodes DEF CodesInv, HasRead, Has
<1>7. ASSUME NEW u \in Logins, (\E on \in BOOLEAN : Block(u, on)) \/ DeleteAccount(u) PROVE CodesInv'
  <2>1. UNCHANGED <<deskwork, code, issued, used, reused, exposed>>
    BY <1>7 DEF Block, DeleteAccount, codes
  <2> QED BY <2>1, FewerCodes DEF CodesInv, HasRead, Has
<1>8. ASSUME NEW u \in Logins, ExpireCode(u) PROVE CodesInv'
  <2>1. /\ UNCHANGED <<deskwork, issued, used, reused, exposed>>
        /\ \A v \in Logins : code'[v] = code[v] \/ code'[v] = Nothing
    BY <1>8 DEF ExpireCode, CodesInv, KeptInv, AccountsTypeOK
  <2> QED BY <2>1, FewerCodes DEF CodesInv, HasRead, Has
<1> QED BY <1>1, <1>2, <1>4, <1>5, <1>6, <1>7, <1>8, ReadCodes, AskCodes, DeleteCodes, SaveCodes
        DEF AccountsNext

\* A code changes one password once, for any number of accounts, administrators,
\* requests and codes, unless two confirmations held it at once or one died.
THEOREM CodesChangeOnce == AccountsSpec => []CodesOnce
<1>1. CodesInv => KeptInv
  BY DEF CodesInv
<1>2. CodesInv => CodesOnce
  BY DEF CodesInv, CodesOnce, CodeInv, KeptInv, AccountsTypeOK
<1> QED BY <1>1, <1>2, InitCodes, NextKept, NextCodes, PTL DEF AccountsSpec

------------------------------------------------------------------------------
(* Addresses *)

\* Requests that are halfway at the same time have met; one that is halfway and
\* has met nobody found the mark taken from all; and when all is settled the
\* address chosen last has it.
AddressInv ==
  /\ AddressesTypeOK
  /\ \A a, b \in Midway : a # b => {a, b} \subseteq huddled
  /\ \A r \in Midway \ huddled : marked = {}
  /\ Midway = {} /\ ~unsettled => marked = {chosen} \ {NoPlace}

LEMMA InitAddress == AddressesInit => AddressInv
BY DEF AddressesInit, AddressInv, AddressesTypeOK, Midway

LEMMA UnmarkAddress ==
  ASSUME AddressInv, NEW r \in Savers, NEW p \in Places, Unmark(r, p)
  PROVE  AddressInv'
<1>1. /\ saver[r] = NoPlace /\ marked' = {} /\ saver' = [saver EXCEPT ![r] = p]
      /\ huddled' = IF Midway = {} THEN huddled ELSE huddled \cup Midway \cup {r}
      /\ UNCHANGED <<addresses, chosen, unsettled>>
  BY DEF Unmark
<1>2. Midway' = Midway \cup {r}
  BY <1>1, AddressesAssumption DEF Midway, AddressInv, AddressesTypeOK
<1>3. AddressesTypeOK'
  BY <1>1, <1>2 DEF AddressInv, AddressesTypeOK
<1>4. \A a, b \in Midway' : a # b => {a, b} \subseteq huddled'
  BY <1>1, <1>2 DEF AddressInv
<1> QED BY <1>1, <1>2, <1>3, <1>4 DEF AddressInv

LEMMA EndAddress ==
  ASSUME AddressInv, NEW r \in Savers, Insert(r) \/ InsertFails(r)
  PROVE  AddressInv'
<1>1. /\ r \in Midway /\ saver' = [saver EXCEPT ![r] = NoPlace] /\ huddled' = huddled \ {r}
  BY DEF Insert, InsertFails, Ends
<1>2. Midway' = Midway \ {r}
  BY <1>1 DEF Midway, AddressInv, AddressesTypeOK
<1>3. saver[r] \in Places
  BY <1>1 DEF Midway, AddressInv, AddressesTypeOK
<1>4. AddressesTypeOK'
  <2>1. /\ saver' \in [Savers -> Places \cup {NoPlace}] /\ huddled' \subseteq Midway'
        /\ addresses \subseteq Places /\ marked \subseteq addresses
        /\ chosen \in Places \cup {NoPlace}
    BY <1>1, <1>2 DEF AddressInv, AddressesTypeOK
  <2>2. CASE Insert(r)
    <3>1. unsettled' = (r \in huddled)
      BY <2>2 DEF Insert
    <3>2. unsettled' \in BOOLEAN
      BY <3>1
    <3> QED BY <1>3, <2>1, <2>2, <3>2 DEF Insert, AddressesTypeOK
  <2>3. CASE InsertFails(r)
    BY <2>1, <2>3 DEF InsertFails, AddressesTypeOK
  <2> QED BY <2>2, <2>3
<1>5. \A a, b \in Midway' : a # b => {a, b} \subseteq huddled'
  BY <1>1, <1>2 DEF AddressInv
<1>6. \A a \in Midway' : a \in huddled'
  BY <1>1, <1>2 DEF AddressInv
<1>7. ASSUME Midway' = {}, ~unsettled' PROVE marked' = {chosen'} \ {NoPlace}
  <2>1. Insert(r) /\ r \notin huddled
    BY <1>7 DEF Insert, InsertFails
  <2>2. marked = {}
    BY <1>1, <2>1 DEF AddressInv
  <2> QED BY <1>3, <2>1, <2>2, AddressesAssumption DEF Insert
<1> QED BY <1>4, <1>5, <1>6, <1>7 DEF AddressInv

LEMMA NextAddress == AddressInv /\ [AddressesNext]_addressVars => AddressInv'
<1> SUFFICES ASSUME AddressInv, [AddressesNext]_addressVars PROVE AddressInv'
  OBVIOUS
<1>1. CASE UNCHANGED addressVars
  BY <1>1 DEF addressVars, AddressInv, AddressesTypeOK, Midway
<1>2. ASSUME NEW p \in Places, AddAddress(p) PROVE AddressInv'
  BY <1>2 DEF AddAddress, AddressInv, AddressesTypeOK, Midway
<1> QED BY <1>1, <1>2, UnmarkAddress, EndAddress DEF AddressesNext

\* The default address is the one that was chosen last, for any number of
\* addresses and requests, unless two overlapped or one failed halfway.
THEOREM DefaultsFollow == AddressesSpec => [](AddressesTypeOK /\ DefaultFollows)
<1>1. AddressInv => AddressesTypeOK /\ DefaultFollows
  BY DEF AddressInv, DefaultFollows
<1> QED BY <1>1, InitAddress, NextAddress, PTL DEF AddressesSpec

------------------------------------------------------------------------------
(* Tokens *)

Busy(c, s) == call[c] # NoCall /\ call[c].chain = s

\* Of a chain that is not noted: one request is under way at most, with the last
\* token of a chain that has not ended; no token but the last one works, and not
\* even that one once the chain has ended.
ChainInv(s) ==
  /\ \A c, d \in Calls : Busy(c, s) /\ Busy(d, s) => c = d
  /\ \A c \in Calls : Busy(c, s) => call[c].token = chain[s].issued /\ ~chain[s].ended
  /\ chain[s] # NoCall =>
       /\ Live(s) \subseteq {chain[s].issued}
       /\ chain[s].ended => Live(s) = {}

TokensInv ==
  /\ TokensTypeOK /\ DOMAIN chain = Chains /\ DOMAIN call = Calls
  /\ \A c \in Calls : call[c] # NoCall => chain[call[c].chain] # NoCall
  /\ \A s \in Chains \ crossed : ChainInv(s)

LEMMA InitTokens == TokensInit => TokensInv
BY DEF TokensInit, TokensInv, TokensTypeOK, ChainInv, Busy, Standings

\* Steps that leave chains and requests alone.
LEMMA QuietTokens ==
  ASSUME TokensInv, UNCHANGED <<chain, call, crossed>>,
         rank' \in [Holders -> Ranks], standing' \in [Holders -> Standings]
  PROVE  TokensInv'
BY DEF TokensInv, TokensTypeOK, ChainInv, Busy, Live

LEMMA LogInTokens ==
  ASSUME TokensInv, NEW s \in Chains, NEW u \in Holders, LogIn(s, u),
         standing' \in [Holders -> Standings]
  PROVE  TokensInv'
<1> DEFINE x == [user |-> u, issued |-> 1, void |-> {}, ended |-> FALSE]
<1>1. chain[s] = NoCall /\ chain' = [chain EXCEPT ![s] = x] /\ UNCHANGED <<rank, call, crossed>>
  BY DEF LogIn
<1>2. x \in Chain
  BY TokensAssumption DEF Chain, Numbers
<1>3. x # NoCall
  BY <1>2, NoCallIsNothing
<1>4. DOMAIN chain' = Chains /\ chain'[s] = x /\ \A t \in Chains : t # s => chain'[t] = chain[t]
  BY <1>1 DEF TokensInv
<1>5. \A c \in Calls : ~Busy(c, s)
  BY <1>1 DEF TokensInv, Busy
<1>6. \A c \in Calls : \A t : Busy(c, t)' <=> Busy(c, t)
  BY <1>1 DEF Busy
<1>7. ASSUME NEW t \in Chains \ crossed PROVE ChainInv(t)'
  <2>1. CASE t = s
    <3>1. Live(s)' \subseteq {chain'[s].issued} /\ ~chain'[s].ended
      BY <1>4 DEF Live
    <3> QED BY <2>1, <3>1, <1>5, <1>6 DEF ChainInv
  <2>2. CASE t # s
    BY <2>2, <1>1, <1>4, <1>6 DEF TokensInv, ChainInv, Live
  <2> QED BY <2>1, <2>2
<1>8. \A c \in Calls : call'[c] # NoCall => chain'[call'[c].chain] # NoCall
  BY <1>1, <1>3, <1>4 DEF TokensInv, TokensTypeOK, Claim
<1> QED BY <1>1, <1>2, <1>4, <1>7, <1>8 DEF TokensInv, TokensTypeOK

LEMMA VerifyTokens ==
  ASSUME TokensInv, NEW c \in Calls, NEW op \in {"refresh", "logout"}, NEW s \in Chains,
         NEW t \in Numbers, Verify(c, op, s, t)
  PROVE  TokensInv'
<1> DEFINE x == [op |-> op, chain |-> s, token |-> t]
<1>1. /\ call[c] = NoCall /\ chain[s] # NoCall /\ t \in Live(s)
      /\ call' = [call EXCEPT ![c] = x] /\ UNCHANGED <<rank, standing, chain>>
      /\ crossed' = IF \E d \in Calls : Busy(d, s) THEN crossed \cup {s} ELSE crossed
  BY DEF Verify, Busy
<1>2. x \in Claim
  BY DEF Claim
<1>3. x # NoCall
  BY <1>2, NoCallIsNothing
<1>4. DOMAIN call' = Calls /\ call'[c] = x /\ \A d \in Calls : d # c => call'[d] = call[d]
  BY <1>1 DEF TokensInv
<1>5. \A d \in Calls, r \in Chains : Busy(d, r)' <=> IF d = c THEN r = s ELSE Busy(d, r)
  BY <1>3, <1>4 DEF Busy
<1>6. ASSUME NEW r \in Chains \ crossed' PROVE ChainInv(r)'
  <2>1. ChainInv(r) /\ r \notin crossed /\ Live(r)' = Live(r)
    BY <1>1, <1>6 DEF TokensInv, Live
  <2>2. CASE r = s
    <3>1. \A d \in Calls : ~Busy(d, s)
      BY <1>1, <1>6, <2>2
    <3>2. t = chain[s].issued /\ ~chain[s].ended
      BY <1>1, <2>1, <2>2 DEF ChainInv
    <3>3. \A d \in Calls : Busy(d, s)' => d = c
      BY <1>5, <3>1
    <3> QED BY <1>1, <1>4, <2>1, <2>2, <3>2, <3>3 DEF ChainInv
  <2>3. CASE r # s
    <3>1. \A d \in Calls : Busy(d, r)' => Busy(d, r) /\ call'[d] = call[d]
      BY <1>4, <1>5, <2>3
    <3> QED BY <1>1, <2>1, <3>1 DEF ChainInv
  <2> QED BY <2>2, <2>3
<1>7. \A d \in Calls : call'[d] # NoCall => chain'[call'[d].chain] # NoCall
  BY <1>1, <1>4 DEF TokensInv
<1> QED BY <1>1, <1>2, <1>4, <1>6, <1>7 DEF TokensInv, TokensTypeOK

\* Request c writes to chain s and is over.
LEMMA FinishTokens ==
  ASSUME TokensInv, NEW c \in Calls, call[c] # NoCall, NEW s \in Chains, s = call[c].chain,
         Finish(c), UNCHANGED <<rank, standing, crossed>>,
         NEW x \in Chain, DOMAIN chain' = Chains, chain'[s] = x,
         \A r \in Chains : r # s => chain'[r] = chain[r],
         s \notin crossed => Live(s)' \subseteq {x.issued} /\ (x.ended => Live(s)' = {})
  PROVE  TokensInv'
<1>1. call' = [call EXCEPT ![c] = NoCall]
  BY DEF Finish
<1>2. DOMAIN call' = Calls /\ call'[c] = NoCall /\ \A d \in Calls : d # c => call'[d] = call[d]
  BY <1>1 DEF TokensInv
<1>3. DOMAIN chain' = Chains /\ chain'[s] = x /\ \A r \in Chains : r # s => chain'[r] = chain[r]
  OBVIOUS
<1>4. x # NoCall
  BY NoCallIsNothing
<1>5. \A d \in Calls, r \in Chains : Busy(d, r)' <=> d # c /\ Busy(d, r)
  BY <1>2 DEF Busy
<1>6. Busy(c, s)
  BY DEF Busy
<1>7. ASSUME NEW r \in Chains \ crossed PROVE ChainInv(r)'
  <2>1. ChainInv(r)
    BY DEF TokensInv
  <2>2. CASE r = s
    <3>1. \A d \in Calls : ~Busy(d, s)'
      BY <1>5, <1>6, <2>1, <2>2 DEF ChainInv
    <3> QED BY <1>3, <2>2, <3>1 DEF ChainInv
  <2>3. CASE r # s
    <3>1. Live(r)' = Live(r) /\ chain'[r] = chain[r]
      BY <1>3, <2>3 DEF Live
    <3> QED BY <1>2, <1>5, <2>1, <3>1 DEF ChainInv
  <2> QED BY <2>2, <2>3
<1>8. \A d \in Calls : call'[d] # NoCall => chain'[call'[d].chain] # NoCall
  BY <1>2, <1>3, <1>4 DEF TokensInv, TokensTypeOK, Claim
<1> QED BY <1>2, <1>3, <1>7, <1>8 DEF TokensInv, TokensTypeOK

LEMMA RefreshTokens ==
  ASSUME TokensInv, NEW c \in Calls, Refresh(c)
  PROVE  TokensInv'
<1>1. PICK k \in Claim : k = call[c]
  BY DEF Refresh, Underway, TokensInv, TokensTypeOK
<1>2. PICK s \in Chains : s = k.chain
  BY DEF Claim
<1>3. PICK y \in Chain : y = chain[s] 
  BY <1>1, <1>2 DEF Refresh, Underway, TokensInv, TokensTypeOK
<1> DEFINE x == [y EXCEPT !.issued = @ + 1, !.void = @ \cup {k.token}]
<1>4. /\ call[c] # NoCall /\ y.issued < MaxTokens /\ Finish(c)
      /\ chain' = [chain EXCEPT ![s] = x] /\ UNCHANGED <<rank, standing, crossed>>
  BY <1>1, <1>2, <1>3 DEF Refresh, Underway, TokensInv
<1>5. x \in Chain
  <2>1. y.issued \in Nat /\ y.issued + 1 \in Numbers
    BY <1>4, TokensAssumption DEF Chain, Numbers
  <2>2. y.void \cup {k.token} \in SUBSET Numbers
    BY DEF Chain, Claim
  <2> QED BY <2>1, <2>2 DEF Chain
<1>6. x.issued = y.issued + 1 /\ x.void = y.void \cup {k.token} /\ x.ended = y.ended
  BY DEF Chain
<1> HIDE DEF x
<1>7. DOMAIN chain' = Chains /\ chain'[s] = x /\ \A r \in Chains : r # s => chain'[r] = chain[r]
  BY <1>4 DEF TokensInv
<1>8. s \notin crossed => Live(s)' \subseteq {x.issued} /\ ~x.ended
  <2> SUFFICES ASSUME s \notin crossed PROVE Live(s)' \subseteq {x.issued} /\ ~x.ended
    OBVIOUS
  <2>1. ChainInv(s) /\ Busy(c, s)
    BY <1>1, <1>2, <1>4 DEF TokensInv, Busy
  <2>2. k.token = y.issued /\ ~y.ended
    BY <1>1, <1>3, <2>1 DEF ChainInv
  <2>3. (1..y.issued) \ y.void \subseteq {y.issued}
    BY <1>1, <1>3, <1>4, <2>1 DEF ChainInv, Live, TokensInv, Busy
  <2>4. y.issued \in Nat
    BY DEF Chain, Numbers
  <2> QED BY <1>6, <1>7, <2>2, <2>3, <2>4 DEF Live
<1> QED BY <1>1, <1>2, <1>4, <1>5, <1>7, <1>8, FinishTokens

LEMMA LogOutTokens ==
  ASSUME TokensInv, NEW c \in Calls, LogOut(c)
  PROVE  TokensInv'
<1>1. PICK k \in Claim : k = call[c]
  BY DEF LogOut, Underway, TokensInv, TokensTypeOK
<1>2. PICK s \in Chains : s = k.chain
  BY DEF Claim
<1>3. PICK y \in Chain : y = chain[s]
  BY <1>1, <1>2 DEF LogOut, Underway, TokensInv, TokensTypeOK
<1> DEFINE x == [y EXCEPT !.ended = TRUE, !.void = @ \cup {k.token}]
<1>4. /\ call[c] # NoCall /\ Finish(c)
      /\ chain' = [chain EXCEPT ![s] = x] /\ UNCHANGED <<rank, standing, crossed>>
  BY <1>1, <1>2, <1>3 DEF LogOut, Underway, TokensInv
<1>5. x \in Chain
  BY DEF Chain, Claim
<1>6. x.issued = y.issued /\ x.void = y.void \cup {k.token}
  BY DEF Chain
<1> HIDE DEF x
<1>7. DOMAIN chain' = Chains /\ chain'[s] = x /\ \A r \in Chains : r # s => chain'[r] = chain[r]
  BY <1>4 DEF TokensInv
<1>8. s \notin crossed => Live(s)' = {}
  <2> SUFFICES ASSUME s \notin crossed PROVE Live(s)' = {}
    OBVIOUS
  <2>1. ChainInv(s) /\ Busy(c, s)
    BY <1>1, <1>2, <1>4 DEF TokensInv, Busy
  <2>2. k.token = y.issued
    BY <1>1, <1>3, <2>1 DEF ChainInv
  <2>3. (1..y.issued) \ y.void \subseteq {y.issued}
    BY <1>1, <1>3, <1>4, <2>1 DEF ChainInv, Live, TokensInv, Busy
  <2> QED BY <1>6, <1>7, <2>2, <2>3 DEF Live
<1> QED BY <1>1, <1>2, <1>4, <1>5, <1>7, <1>8, FinishTokens

LEMMA FailTokens ==
  ASSUME TokensInv, NEW c \in Calls, CallFails(c)
  PROVE  TokensInv'
<1>1. PICK s \in Chains : s = call[c].chain
  BY DEF CallFails, TokensInv, TokensTypeOK, Claim
<1>2. PICK x \in Chain : x = chain[s]
  BY <1>1 DEF CallFails, TokensInv, TokensTypeOK
<1>3. DOMAIN chain' = Chains /\ chain'[s] = x /\ \A r \in Chains : r # s => chain'[r] = chain[r]
  BY <1>2 DEF CallFails, TokensInv
<1>4. s \notin crossed => Live(s)' \subseteq {x.issued} /\ (x.ended => Live(s)' = {})
  BY <1>1, <1>2 DEF CallFails, TokensInv, ChainInv, Live
<1> QED BY <1>1, <1>3, <1>4, FinishTokens DEF CallFails

LEMMA ExpireTokens ==
  ASSUME TokensInv, NEW s \in Chains, NEW t \in Numbers, TokenExpires(s, t)
  PROVE  TokensInv'
<1>1. PICK y \in Chain : y = chain[s]
  BY DEF TokenExpires, TokensInv, TokensTypeOK
<1> DEFINE x == [y EXCEPT !.void = @ \cup {t}]
<1>2. chain' = [chain EXCEPT ![s] = x] /\ UNCHANGED <<rank, standing, call, crossed>>
  BY <1>1 DEF TokenExpires, TokensInv
<1>3. x \in Chain /\ x.issued = y.issued /\ x.void = y.void \cup {t} /\ x.ended = y.ended
  BY DEF Chain
<1> HIDE DEF x
<1>4. x # NoCall
  BY <1>3, NoCallIsNothing
<1>5. DOMAIN chain' = Chains /\ chain'[s] = x /\ \A r \in Chains : r # s => chain'[r] = chain[r]
  BY <1>2 DEF TokensInv
<1>6. \A r \in Chains : /\ Live(r)' \subseteq Live(r)
                        /\ chain'[r].issued = chain[r].issued /\ chain'[r].ended = chain[r].ended
                        /\ chain[r] = NoCall => chain'[r] = NoCall
  BY <1>1, <1>3, <1>5, NoCallIsNothing DEF Live
<1>7. \A d \in Calls : \A r : Busy(d, r)' <=> Busy(d, r)
  BY <1>2 DEF Busy
<1>8. \A r \in Chains \ crossed : ChainInv(r)'
  BY <1>2, <1>6, <1>7 DEF TokensInv, ChainInv
<1>9. \A d \in Calls : call'[d] # NoCall => chain'[call'[d].chain] # NoCall
  BY <1>2, <1>4, <1>5 DEF TokensInv, TokensTypeOK, Claim
<1> QED BY <1>2, <1>3, <1>5, <1>8, <1>9 DEF TokensInv, TokensTypeOK

LEMMA NextTokens == TokensInv /\ [TokensNext]_tokenVars => TokensInv'
<1> SUFFICES ASSUME TokensInv, [TokensNext]_tokenVars PROVE TokensInv'
  OBVIOUS
<1>1. CASE UNCHANGED tokenVars
  BY <1>1, QuietTokens DEF tokenVars, TokensInv, TokensTypeOK
<1>2. ASSUME NEW u \in Holders, NEW to \in Standings \ {"absent"}, StandingChanges(u, to)
      PROVE  TokensInv'
  BY <1>2, QuietTokens DEF StandingChanges, TokensInv, TokensTypeOK
<1>3. ASSUME NEW s \in Chains, NEW u \in Holders,
             Register(s, u) \/ GuestLogsIn(s, u) \/ StaffLogsIn(s, u) \/ SuperAdminLogsIn(s, u)
      PROVE  TokensInv'
  <2>1. standing' \in [Holders -> Standings]
    BY <1>3 DEF Register, GuestLogsIn, StaffLogsIn, SuperAdminLogsIn, TokensInv, TokensTypeOK, Standings
  <2> QED BY <1>3, <2>1, LogInTokens DEF Register, GuestLogsIn, StaffLogsIn, SuperAdminLogsIn
<1> QED BY <1>1, <1>2, <1>3, VerifyTokens, RefreshTokens, LogOutTokens, FailTokens, ExpireTokens
        DEF TokensNext

\* A login has one token that works at most, and none once it was logged out,
\* for any number of users, logins and requests, unless two requests of the
\* login were under way at once.
THEOREM LoginsDoEnd == TokensSpec => [](TokensTypeOK /\ LoginsEnd)
<1>1. TokensInv => TokensTypeOK /\ LoginsEnd
  <2> SUFFICES ASSUME TokensInv, NEW s \in Chains \ crossed, chain[s] # NoCall
               PROVE  Cardinality(Live(s)) <= 1 /\ (chain[s].ended => Live(s) = {})
    BY DEF TokensInv, LoginsEnd
  <2>1. PICK n : n = chain[s].issued
    OBVIOUS
  <2>2. Live(s) \subseteq {n} /\ (chain[s].ended => Live(s) = {})
    BY <2>1 DEF TokensInv, ChainInv
  <2>3. Cardinality({}) = 0 /\ Cardinality({n}) = 1
    BY FS_EmptySet, FS_Singleton
  <2>4. Live(s) = {} \/ Live(s) = {n}
    BY <2>2
  <2> QED BY <2>2, <2>3, <2>4
<1> QED BY <1>1, InitTokens, NextTokens, PTL DEF TokensSpec

------------------------------------------------------------------------------
(* Who may take a table *)

\* The rows stay as they are: what the first state says of them.
RowsInv == ViewsTypeOK /\ (bookings = {} \/ \E b, c \in Booking : bookings = {b, c})

LEMMA InitRows == ViewsInit => RowsInv
BY TableViewsAssumption DEF ViewsInit, RowsInv, ViewsTypeOK, Times

LEMMA NextRows == RowsInv /\ [ViewsNext]_viewVars => RowsInv'
<1> SUFFICES ASSUME RowsInv, [ViewsNext]_viewVars PROVE RowsInv'
  OBVIOUS
<1>1. UNCHANGED <<table, bookings, users>>
  BY DEF ViewsNext, Tick, OpenOrClose, viewVars
<1>2. now' \in Times
  BY TableViewsAssumption DEF RowsInv, ViewsTypeOK, ViewsNext, Tick, OpenOrClose, viewVars, Times
<1>3. open' \in BOOLEAN
  BY DEF RowsInv, ViewsTypeOK, ViewsNext, Tick, OpenOrClose, viewVars
<1>4. Booking' = Booking
  BY DEF Booking, Times
<1> QED BY <1>1, <1>2, <1>3, <1>4 DEF RowsInv, ViewsTypeOK

\* Reservations that wait are ahead, whichever of the two lists is asked.
LEMMA NobodyWaits == ASSUME RowsInv, Waiting = {} PROVE Foremost = {} /\ \A b \in Shown : b.status = "seated"
BY DEF RowsInv, ViewsTypeOK, Waiting, Ahead, Foremost, Present, Shown, Booking

LEMMA ListedIsFree == ASSUME RowsInv, Available PROVE CanBook /\ ~Reserved
<1>1. Waiting = {}
  BY DEF Available, Waiting, Ahead
<1> QED BY <1>1 DEF Available, CanBook, Reserved

LEMMA UnlistedHasTwo == ASSUME RowsInv, CanBook, ~Available PROVE Cardinality(bookings) = 2
<1>1. PICK b, c \in bookings : b.status \in {"pending", "confirmed"} /\ c.to >= now
  BY DEF CanBook, Available
<1>2. b # c
  BY <1>1 DEF CanBook, Waiting, Ahead
<1>3. bookings = {b, c}
  BY <1>1, <1>2 DEF RowsInv
<1>4. IsFiniteSet({b}) /\ Cardinality({b}) = 1
  BY FS_Singleton
<1>5. Cardinality({b} \cup {c}) = 2
  BY <1>2, <1>4, FS_AddElement
<1> QED BY <1>3, <1>5

\* Waiters and guests are told the same of a table, for any guests and times.
THEOREM SeatsDoAgree == ViewsSpec => [](ViewsTypeOK /\ SeatsAgree)
<1>1. RowsInv => ViewsTypeOK /\ SeatsAgree
  <2> SUFFICES ASSUME RowsInv PROVE ViewsTypeOK /\ SeatsAgree
    OBVIOUS
  <2>1. CanBook => /\ \A b \in Shown : b.status = "seated"
                   /\ open => \A g \in Scanners \ users.blocked : MayScan(g)
    BY NobodyWaits DEF CanBook, MayScan
  <2>2. \A g \in Scanners : MayScan(g) => CanOrder /\ open
    BY DEF MayScan, CanOrder
  <2> QED BY <2>1, <2>2, ListedIsFree, UnlistedHasTwo DEF SeatsAgree, RowsInv
<1> QED BY <1>1, InitRows, NextRows, PTL DEF ViewsSpec

------------------------------------------------------------------------------
(* The creation of restaurants *)

\* What the view knows: the services it has counted are ready and left alone,
\* deletions only come after it has given up, and it commits when it has
\* counted them all.
ViewInv ==
  /\ TenantTypeOK
  /\ stage \in {"new", "rows", "calling"} => undone = 0
  /\ stage \in {"new", "rows"} => count = 0
  /\ stage = "calling" => count < N
  /\ stage = "done" => count = N
  /\ restaurant = TRUE => stage = "done"
  /\ stage \in {"new", "rows", "calling", "done"} =>
       /\ \A i \in 1..count : schema[i] = "full" /\ job[i] = "none"
       /\ \A i \in Services : job[i] # "drop"
       /\ \A i \in Services : answer[i] = "ok" => schema[i] = "full" /\ job[i] = "none"

\* What a rollback knows: the services it is past have dropped their schema, or
\* are about to, or could not; those after the one that failed were never called.
UndoInv ==
  /\ stage = "failed" => undone = count
  /\ \A i \in Services : i > count + 1 => schema[i] = "absent" /\ job[i] = "none"
  /\ \A i \in 1..count : job[i] \in {"none", "drop"}
  /\ \A i \in Services : answer[i] = "dropped" => schema[i] = "absent" /\ job[i] = "none"
  /\ \A i \in 1..undone : job[i] = "drop" \/ answer[i] \in {"dropped", "kept"}

\* Nothing has happened yet.
LEMMA ViewStart == TenantInit => ViewInv
<1> SUFFICES ASSUME TenantInit PROVE ViewInv
  OBVIOUS
<1>1. /\ restaurant \in BOOLEAN /\ replica \in BOOLEAN
      /\ restaurant = TRUE => stage = "done"
  BY Zenon DEF TenantInit
<1> QED BY <1>1, TenantAssumption DEF TenantInit, ViewInv, TenantTypeOK, Services

\* Every step keeps what the view knows.
LEMMA ViewStep == ViewInv /\ [TenantNext]_tenantVars => ViewInv'
<1> SUFFICES ASSUME ViewInv, [TenantNext]_tenantVars PROVE ViewInv'
  OBVIOUS
<1> USE TenantAssumption DEF ViewInv, TenantTypeOK, Services
<1>1. CASE SaveRestaurant
  BY <1>1 DEF SaveRestaurant, services
<1>2. CASE SaveAdmin
  BY <1>2 DEF SaveAdmin, services
<1>3. CASE RollBack
  BY <1>3 DEF RollBack, services
<1>4. ASSUME NEW i \in Services, Call(i) PROVE ViewInv'
  BY <1>4 DEF Call, Turn
<1>5. ASSUME NEW i \in Services, Count(i) PROVE ViewInv'
  <2>1. i = count + 1 /\ schema[i] = "full" /\ job[i] = "none" /\ stage = "calling"
    BY <1>5 DEF Count, Turn
  <2>2. UNCHANGED <<undone, services, event, replica>> /\ count' = i
    BY <1>5 DEF Count
  <2>3. \A j \in 1..count' : schema'[j] = "full" /\ job'[j] = "none"
    BY <2>1, <2>2 DEF services
  <2>4. CASE i = N
    <3>1. stage' = "done" /\ restaurant' = TRUE /\ count' = N
      BY <1>5, <2>2, <2>4 DEF Count
    <3>2. restaurant' \in BOOLEAN /\ (restaurant = TRUE => stage = "done")'
      BY <3>1, Zenon
    <3> QED BY <2>1, <2>2, <2>3, <3>1, <3>2 DEF services
  <2>5. CASE i # N
    BY <1>5, <2>1, <2>2, <2>3, <2>5 DEF Count, services
  <2> QED BY <2>4, <2>5
<1>6. ASSUME NEW i \in Services, GiveUp(i) PROVE ViewInv'
  BY <1>6 DEF GiveUp, services
<1>7. ASSUME NEW i \in Services, Undo(i) PROVE ViewInv'
  BY <1>7 DEF Undo
<1>8. ASSUME NEW i \in Services, UndoNext(i) PROVE ViewInv'
  BY <1>8 DEF UndoNext, Turn, services
<1>9. CASE Crash
  BY <1>9 DEF Crash, services
<1>10. ASSUME NEW i \in Services, CreateSchema(i) PROVE ViewInv'
  BY <1>10 DEF CreateSchema
<1>11. ASSUME NEW i \in Services, Migrate(i) PROVE ViewInv'
  BY <1>11 DEF Migrate, Answered
<1>12. ASSUME NEW i \in Services, MigrationFails(i) PROVE ViewInv'
  BY <1>12 DEF MigrationFails, Answered
<1>13. ASSUME NEW i \in Services, Drop(i) \/ DropFails(i) PROVE ViewInv'
  <2>1. job[i] = "drop" /\ stage \notin {"new", "rows", "calling", "done"}
    BY <1>13 DEF Drop, DropFails
  <2> QED BY <1>13, <2>1 DEF Drop, DropFails, Answered
<1>14. CASE Consumer
  BY <1>14 DEF Consumer, TakeEvent, CommitPast, Restart, services
<1>15. CASE UNCHANGED tenantVars
  BY <1>15 DEF tenantVars
<1> QED
  BY <1>1, <1>2, <1>3, <1>4, <1>5, <1>6, <1>7, <1>8, <1>9, <1>10, <1>11, <1>12,
     <1>13, <1>14, <1>15 DEF TenantNext, View, Serve

\* Nothing has happened yet.
LEMMA UndoStart == TenantInit => UndoInv
BY TenantAssumption DEF TenantInit, UndoInv, Services

\* Every step keeps what a rollback knows.
LEMMA UndoStep == ViewInv /\ UndoInv /\ [TenantNext]_tenantVars => UndoInv'
<1> SUFFICES ASSUME ViewInv, UndoInv, [TenantNext]_tenantVars PROVE UndoInv'
  OBVIOUS
<1> USE TenantAssumption DEF ViewInv, UndoInv, TenantTypeOK, Services
<1>1. CASE SaveRestaurant
  BY <1>1 DEF SaveRestaurant, services
<1>2. CASE SaveAdmin
  BY <1>2 DEF SaveAdmin, services
<1>3. CASE RollBack
  BY <1>3 DEF RollBack, services
<1>4. ASSUME NEW i \in Services, Call(i) PROVE UndoInv'
  BY <1>4 DEF Call, Turn
<1>5. ASSUME NEW i \in Services, Count(i) PROVE UndoInv'
  <2>1. i = count + 1 /\ job[i] = "none" /\ stage = "calling"
    BY <1>5 DEF Count, Turn
  <2>2. /\ UNCHANGED <<undone, job, answer, schema>> /\ count' = i
        /\ stage' \in {"calling", "done"}
    BY <1>5, <2>1 DEF Count, services
  <2> QED BY <2>1, <2>2
<1>6. ASSUME NEW i \in Services, GiveUp(i) PROVE UndoInv'
  BY <1>6 DEF GiveUp, services
<1>7. ASSUME NEW i \in Services, Undo(i) PROVE UndoInv'
  <2>1. i = undone + 1 /\ i \in 1..count /\ stage' = "undoing"
    BY <1>7 DEF Undo, Turn
  <2> QED BY <1>7, <2>1 DEF Undo
<1>8. ASSUME NEW i \in Services, UndoNext(i) PROVE UndoInv'
  BY <1>8 DEF UndoNext, Turn, services
<1>9. CASE Crash
  BY <1>9 DEF Crash, services
<1>10. ASSUME NEW i \in Services, CreateSchema(i) PROVE UndoInv'
  BY <1>10 DEF CreateSchema
<1>11. ASSUME NEW i \in Services, Migrate(i) PROVE UndoInv'
  BY <1>11 DEF Migrate, Answered
<1>12. ASSUME NEW i \in Services, MigrationFails(i) PROVE UndoInv'
  BY <1>12 DEF MigrationFails, Answered
<1>13. ASSUME NEW i \in Services, Drop(i) PROVE UndoInv'
  BY <1>13 DEF Drop, Answered
<1>14. ASSUME NEW i \in Services, DropFails(i) PROVE UndoInv'
  BY <1>14 DEF DropFails, Answered
<1>15. CASE Consumer
  BY <1>15 DEF Consumer, TakeEvent, CommitPast, Restart, services
<1>16. CASE UNCHANGED tenantVars
  BY <1>16 DEF tenantVars
<1> QED
  BY <1>1, <1>2, <1>3, <1>4, <1>5, <1>6, <1>7, <1>8, <1>9, <1>10, <1>11, <1>12,
     <1>13, <1>14, <1>15, <1>16 DEF TenantNext, View, Serve

\* The types hold throughout: in particular a rollback never goes further than
\* the services that were provisioned.
THEOREM TenantTypes == TenantSpec => []TenantTypeOK
<1>1. ViewInv => TenantTypeOK
  BY DEF ViewInv
<1> QED BY <1>1, ViewStart, ViewStep, PTL DEF TenantSpec

\* SuperAdminRestaurantManagementView.create commits a restaurant only when all
\* of its services have their complete schema, and none of them is still busy
\* with it, however slow and however faulty they were.
THEOREM CommitsAreProvisioned == TenantSpec => []CommittedIsProvisioned
<1>1. ViewInv => CommittedIsProvisioned
  BY DEF ViewInv, CommittedIsProvisioned, Services
<1> QED BY <1>1, ViewStart, ViewStep, PTL DEF TenantSpec

\* When the view has rolled back and all services are at rest, only the service
\* whose call failed and those whose deletion failed may have a schema left.
THEOREM FailuresAreUndone == TenantSpec => []FailureIsUndone
<1>1. ViewInv /\ UndoInv => FailureIsUndone
  <2> SUFFICES ASSUME ViewInv, UndoInv, stage = "failed",
                      \A j \in Services : job[j] = "none",
                      NEW i \in Services, schema[i] # "absent"
               PROVE  i = count + 1 \/ answer[i] = "kept"
    BY DEF FailureIsUndone
  <2> QED BY TenantAssumption DEF ViewInv, UndoInv, TenantTypeOK, Services
<1>2. TenantInit => ViewInv /\ UndoInv
  BY ViewStart, UndoStart
<1>3. ViewInv /\ UndoInv /\ [TenantNext]_tenantVars => (ViewInv /\ UndoInv)'
  BY ViewStep, UndoStep
<1> QED BY <1>1, <1>2, <1>3, PTL DEF TenantSpec

------------------------------------------------------------------------------
(* All of it *)

\* A behaviour of the six parts is one of each of them.
LEMMA PartsRun ==
  AuthSpec => /\ Spec /\ AccountsSpec /\ AddressesSpec
              /\ TokensSpec /\ ViewsSpec /\ TenantSpec
<1> DEFINE all == <<part, vars, accountVars, addressVars, tokenVars, viewVars, tenantVars>>
<1>1. AuthInit => /\ Init /\ AccountsInit /\ AddressesInit
                  /\ TokensInit /\ ViewsInit /\ TenantInit
  BY DEF AuthInit
<1>2. [AuthNext]_all => [Next]_vars
  BY DEF AuthNext
<1>3. [AuthNext]_all => [AccountsNext]_accountVars
  BY DEF AuthNext
<1>4. [AuthNext]_all => [AddressesNext]_addressVars
  BY DEF AuthNext
<1>5. [AuthNext]_all => [TokensNext]_tokenVars
  BY DEF AuthNext
<1>6. [AuthNext]_all => [ViewsNext]_viewVars
  BY DEF AuthNext
<1>7. [AuthNext]_all => [TenantNext]_tenantVars
  BY DEF AuthNext
<1> QED BY <1>1, <1>2, <1>3, <1>4, <1>5, <1>6, <1>7, PTL
        DEF AuthSpec, Spec, AccountsSpec, AddressesSpec, TokensSpec, ViewsSpec, TenantSpec

\* Whatever the six parts do, their variables have their types.
THEOREM PartsAreTyped == AuthSpec => []AuthTypeOK
<1>1. TypeOK /\ AccountsTypeOK /\ AddressesTypeOK /\ TokensTypeOK /\ ViewsTypeOK
     /\ TenantTypeOK => AuthTypeOK
  BY DEF AuthTypeOK
<1> QED BY <1>1, PartsRun, TablesTyped, AccountsAreKept, DefaultsFollow, LoginsDoEnd, SeatsDoAgree,
           TenantTypes, PTL

\* A profile, a status, a password and a default address are what was set last,
\* for any number of accounts, passwords, requests and addresses.
THEOREM ProfilesAreKept == AuthSpec => []ProfilesKept
<1>1. AccountsKept /\ DefaultFollows => ProfilesKept
  BY DEF ProfilesKept
<1> QED BY <1>1, PartsRun, AccountsAreKept, DefaultsFollow, PTL

\* The theorems about the parts hold where the parts are put together: tables
\* and their snapshots, one-time codes, logins, seats and new restaurants.
THEOREM AuthKeeps ==
  AuthSpec => [](/\ OccupancyFollows /\ SnapshotFollows /\ CodesOnce /\ LoginsEnd
                 /\ SeatsAgree /\ CommittedIsProvisioned /\ FailureIsUndone)
  BY PartsRun, TablesFollow, SnapshotsFollow, CodesChangeOnce, LoginsDoEnd, SeatsDoAgree,
     CommitsAreProvisioned, FailuresAreUndone, PTL
=============================================================================
