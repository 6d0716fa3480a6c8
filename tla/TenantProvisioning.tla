------------------------- MODULE TenantProvisioning -------------------------
(* How a restaurant is created.  The auth service makes its rows in one      *)
(* transaction and, before that commits, has every other service make a      *)
(* schema for the tenant, one after the other; an error makes it delete what *)
(* it knows to be made, and roll back.  The event that tells of the          *)
(* restaurant is published first, and the order service takes it into the    *)
(* tenant's schema, if it is there.                                          *)
(*                                                                           *)
(* One tenant; of the others only the commits of the order service's         *)
(* consumer matter.  A service that is called goes on when the caller has    *)
(* stopped waiting.                                                          *)
EXTENDS Integers

CONSTANTS
  N,       \* services to provision, 1 is the order service
  Faults   \* a subset of AllFaults

AllFaults == {"refuse",   \* a service answers with an error and does nothing
              "migrate",  \* a migration fails, or its worker is killed
              "slow",     \* the answer comes after the timeout
              "undo",     \* a deletion fails
              "crash"}    \* the worker of the auth service is killed

ASSUME TenantAssumption == N \in Nat \ {0} /\ Faults \subseteq AllFaults

VARIABLES
  stage,       \* of the view
  count,       \* provisioned_services: 1..count
  undone,      \* how many of them the rollback is past
  job,         \* what each service is doing
  answer,      \* its answer to the last call
  schema,      \* the tenant's schema in each service
  restaurant,  \* the auth service has committed its rows
  event,       \* restaurant.created, as the order service's consumer sees it
  replica      \* the order service has the restaurant

tenantVars == <<stage, count, undone, job, answer, schema, restaurant, event, replica>>
services == <<job, answer, schema>>
------------------------------------------------------------------------------
Services == 1..N
Turn == IF stage = "undoing" THEN undone + 1 ELSE count + 1

TenantInit ==
  /\ stage = "new" /\ count = 0 /\ undone = 0 /\ restaurant = FALSE
  /\ job = [i \in Services |-> "none"] /\ answer = [i \in Services |-> "none"]
  /\ schema = [i \in Services |-> "absent"]
  /\ event = "none" /\ replica = FALSE
------------------------------------------------------------------------------
(* The auth service *)

\* The restaurant's serializer saves and publishes; what goes wrong with the
\* event is logged.
SaveRestaurant ==
  /\ stage = "new" /\ stage' = "rows"
  /\ event' \in {"waiting", "none"}
  /\ UNCHANGED <<count, undone, services, restaurant, replica>>

\* The restaurant's administrator is saved, or refused.
SaveAdmin ==
  /\ stage = "rows"
  /\ stage' \in {"calling", "failed"}
  /\ UNCHANGED <<count, undone, services, restaurant, event, replica>>

Call(i) ==
  /\ stage = "calling" /\ i = Turn
  /\ job[i] = "none" /\ answer[i] = "none"
  /\ \/ job' = [job EXCEPT ![i] = "provision"] /\ UNCHANGED answer
     \/ "refuse" \in Faults /\ answer' = [answer EXCEPT ![i] = "error"] /\ UNCHANGED job
  /\ UNCHANGED <<stage, count, undone, schema, restaurant, event, replica>>

\* Mutated form: any answer will do.
CountAny(i) ==
  /\ stage = "calling" /\ i = Turn /\ answer[i] # "none"
  /\ count' = i
  /\ IF i = N THEN stage' = "done" /\ restaurant' = TRUE ELSE UNCHANGED <<stage, restaurant>>
  /\ UNCHANGED <<undone, services, event, replica>>

\* The service is provisioned; after the last one the transaction commits.
Count(i) ==
  /\ stage = "calling" /\ i = Turn /\ answer[i] = "ok"
  /\ count' = i
  /\ IF i = N THEN stage' = "done" /\ restaurant' = TRUE ELSE UNCHANGED <<stage, restaurant>>
  /\ UNCHANGED <<undone, services, event, replica>>

\* An error or a timeout.
GiveUp(i) ==
  /\ stage = "calling" /\ i = Turn
  /\ answer[i] = "error" \/ (job[i] # "none" /\ "slow" \in Faults)
  /\ stage' = "undoing"
  /\ UNCHANGED <<count, undone, services, restaurant, event, replica>>

Undo(i) ==
  /\ stage = "undoing" /\ undone < count /\ i = Turn
  /\ job[i] = "none" /\ answer[i] = "ok"
  /\ job' = [job EXCEPT ![i] = "drop"] /\ answer' = [answer EXCEPT ![i] = "none"]
  /\ UNCHANGED <<stage, count, undone, schema, restaurant, event, replica>>

\* Mutated form: each service is taken off the list while the loop runs over it.
UndoNextPopping(i) ==
  /\ stage = "undoing" /\ undone < count /\ i = Turn
  /\ answer[i] \in {"dropped", "kept"} \/ (job[i] = "drop" /\ "slow" \in Faults)
  /\ undone' = i /\ count' = count - 1
  /\ UNCHANGED <<stage, services, restaurant, event, replica>>

\* Whatever came of the deletion, the next one follows.
UndoNext(i) ==
  /\ stage = "undoing" /\ undone < count /\ i = Turn
  /\ answer[i] \in {"dropped", "kept"} \/ (job[i] = "drop" /\ "slow" \in Faults)
  /\ undone' = i
  /\ UNCHANGED <<stage, count, services, restaurant, event, replica>>

\* Mutated form: the last service is taken for the one that failed.
RollBackEarly ==
  /\ stage = "undoing" /\ undone + 1 >= count
  /\ stage' = "failed"
  /\ UNCHANGED <<count, undone, services, restaurant, event, replica>>

\* The exception leaves the transaction.
RollBack ==
  /\ stage = "undoing" /\ undone = count
  /\ stage' = "failed"
  /\ UNCHANGED <<count, undone, services, restaurant, event, replica>>

\* The worker is killed, the database rolls back.
Crash ==
  /\ "crash" \in Faults /\ stage \in {"calling", "undoing"}
  /\ stage' = "killed"
  /\ UNCHANGED <<count, undone, services, restaurant, event, replica>>
------------------------------------------------------------------------------
(* The services *)

CreateSchema(i) ==
  /\ job[i] = "provision"
  /\ job' = [job EXCEPT ![i] = "migrate"] /\ schema' = [schema EXCEPT ![i] = "bare"]
  /\ UNCHANGED <<stage, count, undone, answer, restaurant, event, replica>>

Answered(i, a) ==
  /\ job' = [job EXCEPT ![i] = "none"] /\ answer' = [answer EXCEPT ![i] = a]
  /\ UNCHANGED <<stage, count, undone, restaurant, event>>

Migrate(i) ==
  /\ job[i] = "migrate" /\ Answered(i, "ok")
  /\ schema' = [schema EXCEPT ![i] = "full"] /\ UNCHANGED replica

MigrationFails(i) ==
  /\ job[i] = "migrate" /\ "migrate" \in Faults /\ Answered(i, "error")
  /\ UNCHANGED <<schema, replica>>

Drop(i) ==
  /\ job[i] = "drop" /\ Answered(i, "dropped")
  /\ schema' = [schema EXCEPT ![i] = "absent"] /\ replica' = (replica /\ i # 1)

DropFails(i) ==
  /\ job[i] = "drop" /\ "undo" \in Faults /\ Answered(i, "kept")
  /\ UNCHANGED <<schema, replica>>
------------------------------------------------------------------------------
(* The order service's consumer *)

\* Without the table the upsert fails, and the loop goes on without a commit.
\* While migrations run, the table may be there already.
TakeEvent ==
  /\ event = "waiting"
  /\ \/ schema[1] # "absent" /\ replica' = TRUE /\ event' = "handled"
     \/ schema[1] # "full" /\ event' = "skipped" /\ UNCHANGED replica
  /\ UNCHANGED <<stage, count, undone, services, restaurant>>

\* An event of another restaurant is handled and committed.
CommitPast ==
  /\ event = "skipped" /\ event' = "lost"
  /\ UNCHANGED <<stage, count, undone, services, restaurant, replica>>

\* The consumer starts again at the committed offset.
Restart ==
  /\ event = "skipped" /\ event' = "waiting"
  /\ UNCHANGED <<stage, count, undone, services, restaurant, replica>>

View == SaveRestaurant \/ SaveAdmin \/ RollBack
        \/ \E i \in Services : Call(i) \/ Count(i) \/ GiveUp(i) \/ Undo(i) \/ UndoNext(i)
Serve(i) == CreateSchema(i) \/ Migrate(i) \/ MigrationFails(i) \/ Drop(i) \/ DropFails(i)
Consumer == TakeEvent \/ CommitPast \/ Restart

TenantNext == View \/ Crash \/ (\E i \in Services : Serve(i)) \/ Consumer

TenantSpec == TenantInit /\ [][TenantNext]_tenantVars
------------------------------------------------------------------------------
(* Properties *)

\* Types, and: a rollback goes no further than what was provisioned.
TenantTypeOK ==
  /\ stage \in {"new", "rows", "calling", "undoing", "done", "failed", "killed"}
  /\ count \in 0..N /\ undone \in 0..count
  /\ job \in [Services -> {"none", "provision", "migrate", "drop"}]
  /\ answer \in [Services -> {"none", "ok", "error", "dropped", "kept"}]
  /\ schema \in [Services -> {"absent", "bare", "full"}]
  /\ restaurant \in BOOLEAN /\ replica \in BOOLEAN
  /\ event \in {"none", "waiting", "skipped", "handled", "lost"}

\* A restaurant that is committed has its complete schema in every service,
\* whatever the calls ran into and however long they took.
CommittedIsProvisioned ==
  restaurant => \A i \in Services : schema[i] = "full" /\ job[i] = "none"

\* When a creation has failed and no service is busy with it any more, nothing
\* is left of the tenant but at the service whose call failed, which may have
\* made its schema all the same, and at those whose deletion failed.
FailureIsUndone ==
  stage = "failed" /\ (\A i \in Services : job[i] = "none") =>
    \A i \in Services : schema[i] # "absent" => i = count + 1 \/ answer[i] = "kept"

\* Once its consumer is past the event, the order service has the restaurant
\* that was created; without it no order can be placed there.
KnownToOrders ==
  stage = "done" /\ event \in {"handled", "lost"} => replica
=============================================================================
