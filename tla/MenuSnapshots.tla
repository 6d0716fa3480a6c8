---------------------------- MODULE MenuSnapshots ----------------------------
(* Dishes of the menu service and their snapshots in other services.  The    *)
(* menu numbers the versions of a dish by reading the last one and adding    *)
(* one, saves, and publishes after the commit, on a topic for each kind of   *)
(* change.  The order service, the cart service and the AI service keep a    *)
(* snapshot and take an event only if its version is newer; they look first, *)
(* and write after.  A topic has one partition, and each of the topics may   *)
(* have a process of the service to itself; the command that replays what    *)
(* was refused is one more.                                                  *)
(*                                                                           *)
(* A dish is its version and a content, which stands for its attributes.     *)
(* What a consumer loses by an error is the subject of ConsumerLoop.         *)
EXTENDS Integers, Sequences

CONSTANTS
  Dishes,
  Writers,      \* requests to the menu service that run at the same time
  Replicas,     \* services with snapshots, a subset of AllReplicas
  Contents,     \* what an administrator may save
  MaxEdits,     \* bounds the requests that change a dish
  MaxDeaths,    \* bounds the consumers that die and the events they refuse
  NoVal

AllReplicas == {"order", "cart", "ai"}

ASSUME MenuAssumption ==
  /\ Replicas \subseteq AllReplicas
  /\ MaxEdits \in Nat /\ MaxDeaths \in Nat

VARIABLES
  dish,    \* committed rows of the menu
  writer,  \* what each request has read, or saved and not published
  log,     \* what each replica has not committed, and its dead letters
  held,    \* topics whose handler has found its event to be newer
  snap,    \* the replicas' rows
  mishaps, \* what has come in between for each dish so far
  edits, deaths

vars == <<dish, writer, log, held, snap, mishaps, edits, deaths>>
menuSide == <<dish, writer, edits>>
replicaSide == <<held, snap, deaths>>
------------------------------------------------------------------------------
\* What the code does not order: requests for one dish that overlap; and, for
\* one replica, a handler that writes what has meanwhile ceased to be newer, or
\* a deletion that finds no row as the first event of the dish is still to come.
Mishaps == {"overlap"} \cup Replicas

Requested == {"update", "delete", "review"}
Kinds == {"created", "updated", "deleted"}
Topics == Kinds \cup {"dlq"}
EventOn(k) == [kind : {k}, d : Dishes, version : Nat,
               content : IF k = "deleted" THEN {NoVal} ELSE Contents]
Event == UNION {EventOn(k) : k \in Kinds}
Row == [stage : {"new", "live", "gone", "swept"}, version : Nat, content : Contents \cup {NoVal}]
NewRow == [stage |-> "new", version |-> 0, content |-> NoVal]
EditBy(op, steps, contents) ==
  [op : {op}, step : steps, d : Dishes, version : Nat, content : contents]
Edit == EditBy("update", {"read", "numbered", "saved"}, Contents)
        \cup EditBy("delete", {"read", "saved"}, {NoVal})
        \cup EditBy("review", {"read", "numbered"}, {NoVal})
Snapshot == [version : Nat, content : Contents, removed : BOOLEAN]

ASSUME NoValIsNoRow == NoVal \notin Snapshot \cup Edit \cup Contents

Live(d) == dish[d].stage = "live"

Init ==
  /\ dish = [d \in Dishes |-> NewRow]
  /\ writer = [w \in Writers |-> NoVal]
  /\ log = [r \in Replicas |-> [t \in Topics |-> <<>>]]
  /\ held = [r \in Replicas |-> {}]
  /\ snap = [r \in Replicas |-> [d \in Dishes |-> NoVal]]
  /\ mishaps = [d \in Dishes |-> {}]
  /\ edits = 0 /\ deaths = 0

Publish(e) == log' = [r \in Replicas |-> [log[r] EXCEPT ![e.kind] = Append(@, e)]]
------------------------------------------------------------------------------
(* The menu service *)

\* DishWriteSerializer.create: a dish without an image is not announced.
Create(d, c) ==
  /\ dish[d].stage = "new"
  /\ dish' = [dish EXCEPT ![d] = [stage |-> "live", version |-> 1, content |-> c]]
  /\ \/ Publish([kind |-> "created", d |-> d, version |-> 1, content |-> c])
     \/ UNCHANGED log
  /\ UNCHANGED <<writer, mishaps, edits, replicaSide>>

Busy(d) == \E w \in Writers : writer[w] # NoVal /\ writer[w].d = d
Crowd(d) == mishaps' = [mishaps EXCEPT ![d] = IF Busy(d) THEN @ \cup {"overlap"} ELSE @]

\* The request finds its dish.
Begin(w, op, d, c) ==
  /\ writer[w] = NoVal /\ Live(d)
  /\ edits < MaxEdits /\ edits' = edits + 1
  /\ Crowd(d)
  /\ c = NoVal <=> op # "update"
  /\ writer' = [writer EXCEPT ![w] = [op |-> op, step |-> "read", d |-> d,
                                      version |-> dish[d].version, content |-> c]]
  /\ UNCHANGED <<dish, log, replicaSide>>

\* Dish.save reads the version that is committed now; of a row that has gone
\* there is none.
Number(w) ==
  /\ writer[w] # NoVal /\ writer[w].step = "read"
  /\ writer[w].op \in {"update", "review"}
  /\ LET row == dish[writer[w].d]
         v == IF row.stage = "live" THEN row.version + 1 ELSE 1
     IN writer' = [writer EXCEPT ![w].step = "numbered", ![w].version = v]
  /\ UNCHANGED <<dish, log, mishaps, edits, replicaSide>>

\* Mutated form: the version is the one found when the request began.
SaveUnnumbered(w) ==
  LET e == writer[w]
  IN /\ e # NoVal /\ e.step = "numbered" /\ e.op = "update"
     /\ dish' = [dish EXCEPT ![e.d] =
                   [stage |-> "live", version |-> dish[e.d].version, content |-> e.content]]
     /\ writer' = [writer EXCEPT ![w].step = "saved", ![w].version = dish[e.d].version]
     /\ UNCHANGED <<log, mishaps, edits, replicaSide>>

\* The whole row is written; a row that has gone is inserted again.
Save(w) ==
  LET e == writer[w]
  IN /\ e # NoVal /\ e.step = "numbered" /\ e.op = "update"
     /\ dish' = [dish EXCEPT ![e.d] =
                   [stage |-> "live", version |-> e.version, content |-> e.content]]
     /\ writer' = [writer EXCEPT ![w].step = "saved"]
     /\ UNCHANGED <<log, mishaps, edits, replicaSide>>

\* Its category has gone as well, and the update does not name another.
SaveFails(w) ==
  LET e == writer[w]
  IN /\ e # NoVal /\ e.step = "numbered" /\ e.op = "update" /\ dish[e.d].stage = "swept"
     /\ writer' = [writer EXCEPT ![w] = NoVal]
     /\ UNCHANGED <<dish, log, mishaps, edits, replicaSide>>

\* A review updates rating and version only, fails if the row has gone, and
\* publishes nothing.
Rate(w) ==
  LET e == writer[w]
  IN /\ e # NoVal /\ e.step = "numbered" /\ e.op = "review"
     /\ dish' = IF Live(e.d) THEN [dish EXCEPT ![e.d].version = e.version] ELSE dish
     /\ writer' = [writer EXCEPT ![w] = NoVal]
     /\ UNCHANGED <<log, mishaps, edits, replicaSide>>

\* Dish.delete: the version it announces is the one it found.
Delete(w) ==
  LET e == writer[w]
  IN /\ e # NoVal /\ e.step = "read" /\ e.op = "delete"
     /\ dish' = [dish EXCEPT ![e.d].stage = "gone"]
     /\ writer' = [writer EXCEPT ![w].step = "saved"]
     /\ UNCHANGED <<log, mishaps, edits, replicaSide>>

\* The callback after the commit.
Announce(w) ==
  LET e == writer[w]
  IN /\ e # NoVal /\ e.step = "saved"
     /\ Publish([kind |-> IF e.op = "delete" THEN "deleted" ELSE "updated",
                 d |-> e.d, version |-> e.version, content |-> e.content])
     /\ writer' = [writer EXCEPT ![w] = NoVal]
     /\ UNCHANGED <<dish, mishaps, edits, replicaSide>>

\* AdminCategoryViewSet deletes the category: its dishes go by the cascade,
\* without Dish.delete, and nobody is told.
DropCategory(d) ==
  /\ Live(d)
  /\ edits < MaxEdits /\ edits' = edits + 1
  /\ Crowd(d)
  /\ dish' = [dish EXCEPT ![d].stage = "swept"]
  /\ UNCHANGED <<writer, log, replicaSide>>
------------------------------------------------------------------------------
(* The consumers *)

\* Mutated form: a deletion must be newer than the snapshot.
FreshStrictly(r, e) ==
  LET old == snap[r][e.d] IN old # NoVal => e.version > old.version

\* The version guard: the AI service has one rule for every topic, the others
\* take a deletion that repeats the version.
Fresh(r, e) ==
  LET old == snap[r][e.d]
  IN old # NoVal =>
       \/ e.version > old.version
       \/ e.kind = "deleted" /\ r # "ai" /\ e.version = old.version

\* process_event reads the row; an event that is not newer is skipped.
Look(r, t) ==
  /\ log[r][t] # <<>> /\ t \notin held[r] /\ Fresh(r, Head(log[r][t]))
  /\ held' = [held EXCEPT ![r] = @ \cup {t}]
  /\ UNCHANGED <<menuSide, log, snap, mishaps, deaths>>

Skip(r, t) ==
  /\ log[r][t] # <<>> /\ t \notin held[r] /\ ~Fresh(r, Head(log[r][t]))
  /\ log' = [log EXCEPT ![r][t] = Tail(@)]
  /\ UNCHANGED <<menuSide, held, snap, mishaps, deaths>>

\* What is left of a snapshot that receives the event.
Upserted(e) == [version |-> e.version, content |-> e.content, removed |-> FALSE]
Removed(old, e) == [old EXCEPT !.version = e.version, !.removed = TRUE]

\* And writes it, whatever it is by now: a deletion of an unknown dish updates
\* no row.
Put(r, e) ==
  LET old == snap[r][e.d]
      lost == e.kind = "deleted" /\ old = NoVal
  IN /\ snap' = IF lost THEN snap
                ELSE [snap EXCEPT ![r][e.d] =
                        IF e.kind = "deleted" THEN Removed(old, e) ELSE Upserted(e)]
     /\ mishaps' = [mishaps EXCEPT ![e.d] = IF lost \/ ~Fresh(r, e) THEN @ \cup {r} ELSE @]

Write(r, t) ==
  /\ t \in held[r] /\ Put(r, Head(log[r][t]))
  /\ log' = [log EXCEPT ![r][t] = Tail(@)]
  /\ held' = [held EXCEPT ![r] = @ \ {t}]
  /\ UNCHANGED <<menuSide, deaths>>

\* The process dies before its commit: the event comes again.
ConsumerDies(r, t) ==
  /\ t \in held[r]
  /\ Put(r, Head(log[r][t])) \/ UNCHANGED <<snap, mishaps>>
  /\ deaths < MaxDeaths /\ deaths' = deaths + 1
  /\ held' = [held EXCEPT ![r] = @ \ {t}]
  /\ UNCHANGED <<menuSide, log>>

\* An event that is refused becomes a dead letter, and is replayed some day.
Refuse(r, t) ==
  /\ log[r][t] # <<>> /\ t \notin held[r] \cup {"dlq"}
  /\ deaths < MaxDeaths /\ deaths' = deaths + 1
  /\ log' = [log EXCEPT ![r][t] = Tail(@), ![r]["dlq"] = Append(@, Head(log[r][t]))]
  /\ UNCHANGED <<menuSide, held, snap, mishaps>>

Requests ==
  \/ \E d \in Dishes, c \in Contents : Create(d, c)
  \/ \E w \in Writers :
       \/ \E op \in Requested, d \in Dishes, c \in Contents \cup {NoVal} : Begin(w, op, d, c)
       \/ Number(w) \/ Save(w) \/ SaveFails(w) \/ Rate(w) \/ Delete(w) \/ Announce(w)
  \/ \E d \in Dishes : DropCategory(d)
Consumers ==
  \E r \in Replicas, t \in Topics :
    Look(r, t) \/ Skip(r, t) \/ Write(r, t) \/ ConsumerDies(r, t) \/ Refuse(r, t)

Next == Requests \/ Consumers

Spec == Init /\ [][Next]_vars
------------------------------------------------------------------------------
(* Properties *)

\* Types of the rows, the requests, the topics and the snapshots.
TypeOK ==
  /\ dish \in [Dishes -> Row]
  /\ writer \in [Writers -> Edit \cup {NoVal}]
  /\ log \in [Replicas -> [Topics -> Seq(Event)]]
  /\ held \in [Replicas -> SUBSET Topics]
  /\ snap \in [Replicas -> [Dishes -> Snapshot \cup {NoVal}]]
  /\ mishaps \in [Dishes -> SUBSET Mishaps]
  /\ edits \in 0..MaxEdits /\ deaths \in 0..MaxDeaths

Quiet ==
  /\ \A w \in Writers : writer[w] = NoVal
  /\ \A r \in Replicas, t \in Topics : log[r][t] = <<>>

\* When all is quiet, the snapshots of a dish on the menu show its last save,
\* however far the topics are apart, whatever is replayed late and although
\* consumers die, if no requests for the dish overlapped (a dish that never had
\* an image may be unknown); and the order service and the cart service do not
\* offer one that was deleted.  (The AI service does offer it, and all three
\* offer one that went with its category.)  A replica of which a handler wrote
\* over something newer, or missed a deletion, is left out.
SnapshotsAgree ==
  Quiet => \A d \in Dishes : \A r \in Replicas \ mishaps[d] :
    LET s == snap[r][d]
    IN s # NoVal /\ "overlap" \notin mishaps[d] =>
         /\ Live(d) => s.content = dish[d].content /\ ~s.removed
         /\ dish[d].stage = "gone" /\ r # "ai" => s.removed
=============================================================================
