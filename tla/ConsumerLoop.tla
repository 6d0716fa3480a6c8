---------------------------- MODULE ConsumerLoop ----------------------------
(* The loop every Kafka consumer of the system runs: poll, process, commit   *)
(* the offset of the message.  Two styles of it differ in what they do with  *)
(* an error that may pass.  Style "skip" (order: menu, tables, restaurants;  *)
(* cart: menu; auth: table sessions; AI service) logs it and goes on with    *)
(* the next message without a commit.  Style "requeue" (kitchen; order:      *)
(* kitchen events; notifications) produces the message again with a higher   *)
(* retry_count, without waiting for its delivery, and commits.               *)
(*                                                                           *)
(* The log is one partition.  What processing a message does is left out.    *)
EXTENDS Integers, Sequences

CONSTANTS
  Messages,
  MaxRetries,  \* MAX_RETRIES
  MaxDeaths    \* bounds the processes that die

ASSUME LoopAssumption == MaxRetries \in Nat /\ MaxDeaths \in Nat

VARIABLES
  style,    \* "skip" or "requeue": written in the code, it never changes
  log,      \* the partition
  offset,   \* the group's committed offset: how many messages are done with
  next,     \* how many messages the process has polled
  at,       \* "poll", "work": processing, "settle": about to commit
  buffer,   \* produced again and not yet sent to the broker
  handled,  \* messages whose processing succeeded
  parked,   \* messages in the dead letter queue
  exposed,  \* history: messages that met one of the three mishaps below
  deaths

vars == <<style, log, offset, next, at, buffer, handled, parked, exposed, deaths>>
------------------------------------------------------------------------------
Entry == [m : Messages, retry : 0..MaxRetries]
This == log[next]
Published == {log[i].m : i \in DOMAIN log}

Init ==
  /\ style \in {"skip", "requeue"}
  /\ log = <<>> /\ offset = 0 /\ next = 0 /\ at = "poll" /\ buffer = <<>>
  /\ handled = {} /\ parked = {} /\ exposed = {} /\ deaths = 0

\* A service publishes a message.
Publish(m) ==
  /\ m \notin Published
  /\ log' = Append(log, [m |-> m, retry |-> 0])
  /\ UNCHANGED <<style, offset, next, at, buffer, handled, parked, exposed, deaths>>

\* Mutated form: the client commits what it polls, as enable.auto.commit would.
PollAndCommit ==
  /\ at = "poll" /\ next < Len(log)
  /\ next' = next + 1 /\ at' = "work" /\ offset' = next + 1
  /\ UNCHANGED <<style, log, buffer, handled, parked, exposed, deaths>>

\* Mutated form: the newest message waits for the one after it.
PollBehind ==
  /\ at = "poll" /\ next + 1 < Len(log)
  /\ next' = next + 1 /\ at' = "work"
  /\ UNCHANGED <<style, log, offset, buffer, handled, parked, exposed, deaths>>

Poll ==
  /\ at = "poll" /\ next < Len(log)
  /\ next' = next + 1 /\ at' = "work"
  /\ UNCHANGED <<style, log, offset, buffer, handled, parked, exposed, deaths>>

Handle ==
  /\ at = "work"
  /\ handled' = handled \cup {This.m} /\ at' = "settle"
  /\ UNCHANGED <<style, log, offset, next, buffer, parked, exposed, deaths>>

\* send_to_dlq waits until the broker has the letter, or logs that it failed;
\* the loop commits in either case.
Park ==
  /\ \/ parked' = parked \cup {This.m} /\ UNCHANGED exposed
     \/ exposed' = exposed \cup {This.m} /\ UNCHANGED parked
  /\ at' = "settle"
  /\ UNCHANGED <<style, log, offset, next, buffer, handled, deaths>>

\* An error that will not pass.
FailForGood == at = "work" /\ Park

\* Style "skip", any other error: no commit, and on to the next message.
Skip ==
  /\ at = "work" /\ style = "skip"
  /\ at' = "poll" /\ exposed' = exposed \cup {This.m}
  /\ UNCHANGED <<style, log, offset, next, buffer, handled, parked, deaths>>

\* Style "requeue": produce() only puts the message into the client's buffer.
Requeue ==
  /\ at = "work" /\ style = "requeue"
  /\ This.retry < MaxRetries
  /\ buffer' = Append(buffer, [This EXCEPT !.retry = @ + 1]) /\ at' = "settle"
  /\ UNCHANGED <<style, log, offset, next, handled, parked, exposed, deaths>>

\* Style "requeue", no retry left.
Exhausted ==
  /\ at = "work" /\ style = "requeue"
  /\ This.retry = MaxRetries
  /\ Park

Commit ==
  /\ at = "settle"
  /\ offset' = next /\ at' = "poll"
  /\ UNCHANGED <<style, log, next, buffer, handled, parked, exposed, deaths>>

\* The client's thread sends what was produced.
Deliver ==
  /\ buffer # <<>>
  /\ log' = Append(log, Head(buffer)) /\ buffer' = Tail(buffer)
  /\ UNCHANGED <<style, offset, next, at, handled, parked, exposed, deaths>>

\* The process dies with its buffer; its successor starts at the offset.
Crash ==
  /\ deaths < MaxDeaths
  /\ deaths' = deaths + 1
  /\ next' = offset /\ at' = "poll" /\ buffer' = <<>>
  /\ exposed' = exposed \cup {buffer[i].m : i \in DOMAIN buffer}
  /\ UNCHANGED <<style, log, offset, handled, parked>>

Work == Handle \/ FailForGood \/ Skip \/ Requeue \/ Exhausted
Next == (\E m \in Messages : Publish(m)) \/ Poll \/ Work \/ Commit \/ Deliver \/ Crash

Spec == Init /\ [][Next]_vars

\* The loop runs for ever, and so does the client's thread.
FairSpec == Spec /\ WF_vars(Poll \/ Work \/ Commit) /\ WF_vars(Deliver)
------------------------------------------------------------------------------
(* Properties *)

\* Types, and: no offset is committed that was not polled.
TypeOK ==
  /\ style \in {"skip", "requeue"}
  /\ log \in Seq(Entry) /\ buffer \in Seq(Entry)
  /\ offset \in 0..next /\ next \in 0..Len(log)
  /\ at \in {"poll", "work", "settle"} /\ (at # "poll" => next > 0)
  /\ handled \subseteq Messages /\ parked \subseteq Messages /\ exposed \subseteq Messages
  /\ deaths \in 0..MaxDeaths

\* The message waits behind the offset or in the client's buffer.
Pending(m) ==
  \/ \E i \in DOMAIN log : i > offset /\ log[i].m = m
  \/ \E i \in DOMAIN buffer : buffer[i].m = m

Gone == {m \in Published : ~Pending(m)}

Contract == INSTANCE AtLeastOnce
  WITH settled <- handled \cup parked \cup exposed, gone <- Gone

\* No message is given up before it had its effect or became a dead letter,
\* unless an error made a loop of style "skip" pass it over, or a process of
\* style "requeue" died before its copy was sent, or the dead letter queue was
\* out of reach: but for these three mishaps, the loop implements AtLeastOnce.
DeliversAtLeastOnce == Contract!Spec

\* "DO NOT COMMIT so Kafka will deliver it again" (restaurant_consumer.py:182),
\* "No commit -> Kafka will retry" (table_session_consumer.py:198): a commit
\* gives up the message it is for, and of the others only what is handled or
\* parked.  The code does not keep it.
ComesAgain ==
  [][\A i \in DOMAIN log : offset < i /\ i <= offset' /\ i # next =>
       log[i].m \in handled \cup parked]_vars

\* However often it is retried, a published message is handled or parked in
\* the end, or one of the three mishaps befalls it.
EverythingSettles ==
  \A m \in Messages : m \in Published ~> m \in handled \cup parked \cup exposed
=============================================================================
