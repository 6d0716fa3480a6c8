---------------------------- MODULE Notifications ----------------------------
(* The consumer of order and ticket events in the notification service, from *)
(* the inside.  An event has effects, one after the other: a row that is     *)
(* committed at once, a push to the guest and one to the waiters that are    *)
(* queued for Celery; messages to displays, whose errors are swallowed, are  *)
(* left out.  What raises sends the whole event back to its topic, three     *)
(* times, and then to the dead letters, which a command replays through the  *)
(* same function.  The command reads on after a letter that fails, and the   *)
(* next one that it commits gives up those before it.  The consumer's own    *)
(* offsets, and what is lost with a producer's buffer, are ConsumerLoop's.   *)
EXTENDS Integers, Sequences, FiniteSets

CONSTANTS
  Events,
  MaxRetries,  \* 3 in the code
  MaxBreaks,   \* bounds errors and deaths
  NoWork       \* the worker has no event

ASSUME NotificationsAssumption ==
  IsFiniteSet(Events) /\ MaxRetries \in Nat /\ MaxBreaks \in Nat

VARIABLES
  kind,     \* of each event
  inbox,    \* the topic from the consumer's offset on
  dead,     \* the dead letters from the command's offset on
  at,       \* how many of them the running command has read and not committed
  given,    \* letters it has given up
  worker,   \* the consumer, and the command that replays
  made,     \* how often each effect was had
  broken,   \* how often handling broke after the effect
  breaks

notifyVars == <<kind, inbox, dead, at, given, worker, made, broken, breaks>>
------------------------------------------------------------------------------
Effects == {"row", "push", "waiters"}
Plan == [ order  |-> <<"waiters">>,                 \* orders.created
          update |-> <<"row", "push">>,             \* most others
          ready  |-> <<"row", "push", "waiters">> ] \* kitchen.ticket.ready
Workers == {"consumer", "replay"}
Message == [event : Events, tries : 0..MaxRetries]
Job == [event : Events, tries : 0..MaxRetries, step : 0..3]

ASSUME NoWorkIsNothing == NoWork \notin Job

NotifyInit ==
  /\ kind \in [Events -> DOMAIN Plan]
  /\ \E f \in [1..Cardinality(Events) -> [event : Events, tries : {0}]] :
       /\ {f[i].event : i \in DOMAIN f} = Events
       /\ inbox = f
  /\ dead = <<>> /\ at = 0 /\ given = {} /\ worker = [w \in Workers |-> NoWork]
  /\ made = [e \in Events |-> [x \in Effects |-> 0]] /\ broken = made
  /\ breaks = 0

Steps(e) == Plan[kind[e]]
Working(w) == worker[w] # NoWork
Rest(w) == worker' = [worker EXCEPT ![w] = NoWork]
letters == <<dead, at, given>>
------------------------------------------------------------------------------
Poll ==
  /\ ~Working("consumer") /\ inbox # <<>>
  /\ worker' = [worker EXCEPT !["consumer"] =
       [event |-> Head(inbox).event, tries |-> Head(inbox).tries, step |-> 0]]
  /\ UNCHANGED <<kind, inbox, letters, made, broken, breaks>>

PollDead ==
  /\ ~Working("replay") /\ at < Len(dead)
  /\ worker' = [worker EXCEPT !["replay"] =
       [event |-> dead[at + 1], tries |-> MaxRetries, step |-> 0]]
  /\ UNCHANGED <<kind, inbox, letters, made, broken, breaks>>

\* Nothing arrives for a second: the next run begins at the offset.
ReplayEnds ==
  /\ ~Working("replay") /\ at' = 0
  /\ UNCHANGED <<kind, inbox, dead, given, worker, made, broken, breaks>>

\* process_event has the next effect.
Effect(w) ==
  LET j == worker[w]
  IN /\ Working(w) /\ j.step < Len(Steps(j.event))
     /\ made' = [made EXCEPT ![j.event][Steps(j.event)[j.step + 1]] = @ + 1]
     /\ worker' = [worker EXCEPT ![w].step = @ + 1]
     /\ UNCHANGED <<kind, inbox, letters, broken, breaks>>

\* The offset is committed.
Complete(w) ==
  LET j == worker[w]
  IN /\ Working(w) /\ j.step = Len(Steps(j.event)) /\ Rest(w)
     /\ \/ w = "consumer" /\ inbox' = Tail(inbox) /\ UNCHANGED letters
        \/ /\ w = "replay" /\ UNCHANGED inbox
           /\ dead' = SubSeq(dead, at + 2, Len(dead)) /\ at' = 0
           /\ given' = given \cup {dead[i] : i \in 1..at}
     /\ UNCHANGED <<kind, made, broken, breaks>>

Broke(w) ==
  LET j == worker[w]
      had == {Steps(j.event)[i] : i \in 1..j.step}
  IN /\ breaks < MaxBreaks /\ breaks' = breaks + 1
     /\ broken' = [broken EXCEPT ![j.event] =
          [x \in Effects |-> IF x \in had THEN @[x] + 1 ELSE @[x]]]

\* Mutated form: the message is not produced again.
RaiseAndForget ==
  LET j == worker["consumer"]
  IN /\ Working("consumer") /\ j.step < Len(Steps(j.event)) /\ Broke("consumer") /\ Rest("consumer")
     /\ inbox' = Tail(inbox)
     /\ UNCHANGED <<kind, letters, made>>

\* The consumer catches an error before the next effect, and commits.
Raise ==
  LET j == worker["consumer"]
  IN /\ Working("consumer") /\ j.step < Len(Steps(j.event)) /\ Broke("consumer") /\ Rest("consumer")
     /\ IF j.tries < MaxRetries
        THEN /\ inbox' = Append(Tail(inbox), [event |-> j.event, tries |-> j.tries + 1])
             /\ UNCHANGED dead
        ELSE dead' = Append(dead, j.event) /\ inbox' = Tail(inbox)
     /\ UNCHANGED <<kind, at, given, made>>

\* The command meets an error, commits nothing and reads on.
ReplayFails ==
  /\ Working("replay") /\ worker["replay"].step < Len(Steps(worker["replay"].event))
  /\ Broke("replay") /\ Rest("replay")
  /\ at' = at + 1
  /\ UNCHANGED <<kind, inbox, dead, given, made>>

\* A worker dies before its commit: it is at its offset again.
Die(w) ==
  /\ Working(w) /\ Broke(w) /\ Rest(w)
  /\ at' = IF w = "replay" THEN 0 ELSE at
  /\ UNCHANGED <<kind, inbox, dead, given, made>>

NotifyNext ==
  \/ Poll \/ Raise \/ PollDead \/ ReplayFails \/ ReplayEnds
  \/ \E w \in Workers : Effect(w) \/ Complete(w) \/ Die(w)

NotifySpec == NotifyInit /\ [][NotifyNext]_notifyVars
------------------------------------------------------------------------------
(* Properties *)

\* Types of the messages, the workers and the counts.
NotifyTypeOK ==
  /\ kind \in [Events -> DOMAIN Plan]
  /\ inbox \in Seq(Message) /\ dead \in Seq(Events)
  /\ at \in 0..Len(dead) /\ given \subseteq Events
  /\ worker \in [Workers -> Job \cup {NoWork}]
  /\ {made, broken} \subseteq [Events -> [Effects -> Nat]]
  /\ breaks \in 0..MaxBreaks

Pending(e) == (\E i \in DOMAIN dead : dead[i] = e) \/ \E i \in DOMAIN inbox : inbox[i].event = e

\* Who is notified of an event is notified by its row and by its pushes, those
\* to the waiters included, once it is neither to be read nor among the dead
\* letters, unless the command gave it up (against its own words, that the
\* message stays); then it was had only as far as its last attempt went.  And
\* what comes twice comes so only after an error or a death behind it, a retry
\* or a replay notwithstanding.
NotifiedOnce ==
  \A e \in Events : \A i \in 1..Len(Steps(e)) :
    LET x == Steps(e)[i]
    IN /\ ~Pending(e) => made[e][x] = broken[e][x] + IF e \in given THEN 0 ELSE 1
       /\ made[e][x] <= 1 + broken[e][x]
=============================================================================
