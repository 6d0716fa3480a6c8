--------------------------- MODULE AssistantMemory ---------------------------
(* What the AI service keeps of a profile, or of an order, that other         *)
(* services announce.  The events of one thing come on several topics, and    *)
(* only within a topic in their order; an error that may pass skips an event, *)
(* others go to ai.service.dlq and are replayed at any time.  Commits are     *)
(* asynchronous, so a restart may read again what was handled, and retries of *)
(* other groups repeat events.  No handler asks how old an event is.          *)
(*                                                                            *)
(* An event is its number, 1 for the first.  Profiles have two topics,        *)
(* "created" and "updated"; an order has one for each status.                 *)
EXTENDS Naturals, Sequences

CONSTANTS
  MaxSaid,   \* bounds the events of a thing, not in the code
  MaxRows    \* bounds the rows of an order, not in the code

ASSUME MemoryAssumption == MaxSaid \in Nat /\ MaxRows \in Nat

VARIABLES
  about,    \* what the events are about
  said,     \* the number of events
  heard,    \* events the consumer has read
  noted,    \* those of them that are committed
  buried,   \* events in the dead letter queue
  rows,     \* for each stored row, the event it shows
  newest,   \* the newest event handled
  muddled   \* an event was skipped, dropped, or handled after a newer one

memoryVars == <<about, said, heard, noted, buried, rows, newest, muddled>>
------------------------------------------------------------------------------
SameTopic(v, w) == v = w \/ (about = "profile" /\ v > 1 /\ w > 1)

MemoryInit ==
  /\ about \in {"profile", "order"}
  /\ said = 0 /\ heard = {} /\ noted = {} /\ buried = {}
  /\ rows = <<>> /\ newest = 0 /\ muddled = FALSE

Announce ==
  /\ said < MaxSaid /\ said' = said + 1
  /\ UNCHANGED <<about, heard, noted, buried, rows, newest, muddled>>

\* The next event of its topic.
Unheard(v) == /\ v \in (1..said) \ heard
              /\ \A w \in (1..v - 1) \ heard : ~SameTopic(v, w)

\* Event v is what the rows say now.
Stored(v) ==
  /\ newest' = IF v > newest THEN v ELSE newest
  /\ muddled' = (v # said /\ (muddled \/ v < newest))

\* ingest_restaurants, ingest_user_profile: insert, or update in place.
Upsert(v) == rows' = <<v>> /\ Stored(v)

\* ingest_order_history inserts, however often.
Insert(v) ==
  /\ Len(rows) < MaxRows
  /\ rows' = Append(rows, v)
  /\ newest' = IF v > newest THEN v ELSE newest
  /\ muddled' = (muddled \/ v < newest)

\* Mutated form: only the row that was looked at is updated.
UpdateOne(v) ==
  \/ rows = <<>> /\ muddled' = TRUE /\ UNCHANGED <<rows, newest>>
  \/ \E i \in DOMAIN rows :
       \/ rows[i] = v /\ UNCHANGED <<rows, newest, muddled>>
       \/ rows[i] # v /\ rows' = [rows EXCEPT ![i] = v] /\ Stored(v)

\* update_order_status looks at any row of the order: nothing is done if there
\* is none or if it has the status, otherwise all of them get it.
Update(v) ==
  \/ rows = <<>> /\ muddled' = TRUE /\ UNCHANGED <<rows, newest>>
  \/ \E i \in DOMAIN rows :
       \/ rows[i] = v /\ UNCHANGED <<rows, newest, muddled>>
       \/ rows[i] # v /\ rows' = [j \in DOMAIN rows |-> v] /\ Stored(v)

Handler(v) == IF about = "profile" THEN Upsert(v) ELSE IF v = 1 THEN Insert(v) ELSE Update(v)

HearEvent(v) ==
  /\ Unheard(v) /\ heard' = heard \cup {v}
  /\ Handler(v)
  /\ UNCHANGED <<about, said, noted, buried>>

\* An error that may pass: the offset is not committed, and the loop goes on.
Overlook(v) ==
  /\ Unheard(v) /\ heard' = heard \cup {v}
  /\ muddled' = TRUE
  /\ UNCHANGED <<about, said, noted, buried, rows, newest>>

Bury(v) ==
  /\ Unheard(v) /\ heard' = heard \cup {v}
  /\ buried' = buried \cup {v} /\ muddled' = TRUE
  /\ UNCHANGED <<about, said, noted, rows, newest>>

\* The replay command handles a dead letter, or passes over it after an error.
Revive(v) ==
  /\ v \in buried /\ buried' = buried \ {v}
  /\ Handler(v) \/ UNCHANGED <<rows, newest, muddled>>
  /\ UNCHANGED <<about, said, heard, noted>>

\* The commit of event v, or of a later event of other things on its topic,
\* reaches the broker.
Confirm(v) ==
  /\ v \in heard \ noted
  /\ noted' = noted \cup {w \in heard : SameTopic(v, w)}
  /\ UNCHANGED <<about, said, heard, buried, rows, newest, muddled>>

\* Another group's retry puts the event on its topic again, behind the others.
Repeat(v) ==
  /\ v \in noted /\ \A w \in 1..said : SameTopic(v, w) => w \in noted
  /\ heard' = heard \ {v} /\ noted' = noted \ {v}
  /\ UNCHANGED <<about, said, buried, rows, newest, muddled>>

ConsumerRestarts ==
  /\ heard # noted /\ heard' = noted
  /\ UNCHANGED <<about, said, noted, buried, rows, newest, muddled>>

MemoryNext ==
  \/ Announce \/ ConsumerRestarts
  \/ \E v \in 1..MaxSaid : HearEvent(v) \/ Overlook(v) \/ Bury(v) \/ Revive(v)
                         \/ Confirm(v) \/ Repeat(v)

MemorySpec == MemoryInit /\ [][MemoryNext]_memoryVars
------------------------------------------------------------------------------
(* Properties *)

\* Types of the events and rows.
MemoryTypeOK ==
  /\ about \in {"profile", "order"} /\ said \in 0..MaxSaid
  /\ noted \subseteq heard /\ heard \subseteq 1..said /\ buried \subseteq 1..said
  /\ rows \in Seq(1..said) /\ newest \in 0..said /\ muddled \in BOOLEAN

\* When the consumer has read everything there is a row, and every row shows
\* the newest event, though restarts and others' retries repeat events and an
\* order may have several rows; unless an event was skipped, dropped or
\* handled after a newer one, and no newest event was stored since.
MemoryFollows ==
  said > 0 /\ heard = 1..said /\ ~muddled =>
    rows # <<>> /\ \A i \in DOMAIN rows : rows[i] = said
=============================================================================
