---------------------------- MODULE OrderKitchen ----------------------------
(* Orders and kitchen tickets, two services that only talk through Kafka:    *)
(* the order service publishes orders.placed and orders.cancelled, the       *)
(* kitchen answers on one kitchen.ticket.* topic per status.  Every topic    *)
(* has one partition, so it is read in order, but topics overtake each       *)
(* other.  A consumer that fails re-produces the message with a higher       *)
(* retry_count, then gives it to a dead letter queue (DLQ), which management *)
(* commands replay.                                                          *)
(*                                                                           *)
(* A request to the order service is one step here: how such requests        *)
(* interleave with each other is the subject of OrderService.  A handler of  *)
(* the kitchen reads its ticket in one step and writes it in another.  Left  *)
(* out: items of a ticket, and kitchen.ticket.created, which no order hears. *)
EXTENDS OrderLifecycle, Integers, Sequences

CONSTANTS
  Orders,
  Tickets,       \* rows tickets_kitchenticket may get
  Waiters, Staff,  \* waiters' and kitchen views that run at the same time
  Sources,       \* the requests in use, a subset of AllSources
  Faults,        \* what goes wrong, a subset of AllFaults
  AdminTargets,  \* what administrators set orders to
  MaxRetries,    \* MAX_RETRIES of both consumers
  MaxRequests,   \* bounds the requests of the staff
  MaxDeaths,     \* bounds the processes that die
  NoVal

AllSources == {"customer", "waiter", "accept", "admin", "cancel", "replay"}
AllFaults ==
  {"consumer",   \* a consumer dies and its message is delivered again
   "request",    \* a view dies after its commit, before it publishes
   "database",   \* an operation fails although the message is fine
   "others"}     \* an order that is not followed here has an event refused

ASSUME OrderKitchenAssumption ==
  /\ Sources \subseteq AllSources /\ Faults \subseteq AllFaults
  /\ AdminTargets \subseteq Statuses
  /\ MaxRetries \in Nat /\ MaxRequests \in Nat /\ MaxDeaths \in Nat
  /\ NoVal \notin Orders
  /\ Staff \cap {"consumer", "replay"} = {}

VARIABLES
  order,      \* committed status of each order
  accepting,  \* which waiter's view has announced which order and not saved it
  ticket,     \* committed rows of tickets_kitchenticket
  log,        \* what the consumer of each topic has not committed yet
  dlq,        \* what the replay of each dead letter queue has not committed
  pos,        \* messages the running replay of the kitchen's DLQ has passed
  at,         \* what each handler of the kitchen is working on
  requests, deaths

vars == <<order, accepting, ticket, log, dlq, pos, at, requests, deaths>>
orderSide == <<order, accepting>>
kitchenSide == <<ticket, pos, at, requests>>
------------------------------------------------------------------------------
OrderTopics == {"placed", "cancelled"}
Topics == OrderTopics \cup KitchenStatus
Message == [o : Orders, retry : 0..MaxRetries]
Letter == [topic : Topics, o : Orders \cup {NoVal}]  \* NoVal: another order's

TicketStatus == {"RECEIVED", "ACCEPTED", "PREPARING", "READY", "CANCELLED"}
TicketRow == [o : Orders \cup {NoVal}, status : TicketStatus]
NoTicket == [o |-> NoVal, status |-> "RECEIVED"]
Handlers == Staff \cup {"consumer", "replay"}

\* `seen' maps each ticket that was found to the status it had.
Job == [topic : Topics, o : Orders, retry : 0..MaxRetries,
        seen : UNION {[K -> TicketStatus] : K \in SUBSET Tickets}]

\* What a view requires of the ticket it read.
Required(st) == CASE st = "ACCEPTED"  -> {"RECEIVED"}
                  [] st = "PREPARING" -> {"ACCEPTED"}
                  [] st = "READY"     -> {"PREPARING"}
                  [] st = "CANCELLED" -> TicketStatus

Send(L, t, o) == [L EXCEPT ![t] = Append(@, [o |-> o, retry |-> 0])]
Drop(L, t) == [L EXCEPT ![t] = Tail(@)]
\* Mutated form: the header of the new message is built from a constant.
AgainUncounted(L, t, m) == [L EXCEPT ![t] = Append(@, m)]
Again(L, t, m) == [L EXCEPT ![t] = Append(@, [m EXCEPT !.retry = @ + 1])]

TicketsOf(o) == {k \in Tickets : ticket[k].o = o}
JobOn(t, o, retry, K) ==
  [topic |-> t, o |-> o, retry |-> retry, seen |-> [k \in K |-> ticket[k].status]]
Idle(h) == at[h] = NoVal
Begin(h, job) == at' = [at EXCEPT ![h] = job]
End(h) == at' = [at EXCEPT ![h] = NoVal]

Dies(fault) == fault \in Faults /\ deaths < MaxDeaths /\ deaths' = deaths + 1

Init ==
  /\ order = [o \in Orders |-> "NONE"]
  /\ accepting = [w \in Waiters |-> NoVal]
  /\ ticket = [k \in Tickets |-> NoTicket]
  /\ log = [t \in Topics |-> <<>>]
  /\ dlq = [d \in {"order", "kitchen"} |-> <<>>]
  /\ pos = 0
  /\ at = [h \in Handlers |-> NoVal]
  /\ requests = 0 /\ deaths = 0
------------------------------------------------------------------------------
(* The order service: its views *)

\* What update_status publishes for a new status.
Announce(L, st, o) ==
  CASE st = "ACCEPTED"  -> Send(L, "placed", o)
    [] st = "CANCELLED" -> Send(L, "cancelled", o)
    [] OTHER            -> L

\* A view has committed: it publishes, unless it dies first.
ViewPublishes(L) ==
  \/ log' = L /\ UNCHANGED deaths
  \/ Dies("request") /\ UNCHANGED log

\* OrderCreateView: a waiter's order is accepted at once.
CreateOrder(o, h) ==
  /\ h \in Sources \cap {"customer", "waiter"}
  /\ order[o] = "NONE"
  /\ LET st == IF h = "waiter" THEN "ACCEPTED" ELSE "CREATED"
     IN order' = [order EXCEPT ![o] = st] /\ ViewPublishes(Announce(log, st, o))
  /\ UNCHANGED <<accepting, dlq, kitchenSide>>

\* AdminOrderStatusUpdateView.
AdminUpdate(o, st) ==
  /\ "admin" \in Sources
  /\ st \in AdminTargets \cap Allowed(order[o])
  /\ order' = [order EXCEPT ![o] = st]
  /\ ViewPublishes(Announce(log, st, o))
  /\ UNCHANGED <<accepting, dlq, kitchenSide>>

\* OrderCancelView publishes after update_status did: two messages.
CancelOrder(o) ==
  /\ "cancel" \in Sources
  /\ order[o] \in Cancellable /\ "CANCELLED" \in Allowed(order[o])
  /\ order' = [order EXCEPT ![o] = "CANCELLED"]
  /\ ViewPublishes(Send(Send(log, "cancelled", o), "cancelled", o))
  /\ UNCHANGED <<accepting, dlq, kitchenSide>>

\* WaiterOrderAcceptView publishes before it saves, outside a transaction ...
AcceptPublish(w, o) ==
  /\ "accept" \in Sources
  /\ order[o] = "CREATED" /\ accepting[w] = NoVal
  /\ accepting' = [accepting EXCEPT ![w] = o]
  /\ log' = Send(log, "placed", o)
  /\ UNCHANGED <<order, dlq, kitchenSide, deaths>>

\* ... and saves the row it read, whatever has become of the order.
AcceptSave(w) ==
  /\ accepting[w] # NoVal
  /\ accepting' = [accepting EXCEPT ![w] = NoVal]
  /\ order' = [order EXCEPT ![accepting[w]] = "ACCEPTED"]
  /\ UNCHANGED <<log, dlq, kitchenSide, deaths>>
------------------------------------------------------------------------------
(* The order service: consumer of kitchen events, and replay of its DLQ *)

\* process_event accepts the event: it is a repetition or an allowed move.
Accepts(o, t) == order[o] = t \/ t \in Allowed(order[o])

\* The effect of process_event, with L what is left in the topics.
Move(L, o, t) ==
  /\ Accepts(o, t)
  /\ order' = [order EXCEPT ![o] = t]
  /\ log' = IF order[o] = t THEN L ELSE Announce(L, t, o)

\* The event is handled and its offset committed.
OrderConsume(t) ==
  /\ t \in KitchenStatus /\ log[t] # <<>>
  /\ Move(Drop(log, t), Head(log[t]).o, t)
  /\ UNCHANGED <<accepting, dlq, kitchenSide, deaths>>

\* The consumer dies before the offset is committed, with or without having
\* published: the event will be delivered again.
OrderConsumerDies(t) ==
  /\ t \in KitchenStatus /\ log[t] # <<>>
  /\ Dies("consumer")
  /\ LET o == Head(log[t]).o
     IN \/ Move(log, o, t)
        \/ Accepts(o, t) /\ order' = [order EXCEPT ![o] = t] /\ UNCHANGED log
  /\ UNCHANGED <<accepting, dlq, kitchenSide>>

\* Mutated form: an event that is refused is logged and committed.
OrderConsumeFailsSilently(t) ==
  /\ t \in KitchenStatus /\ log[t] # <<>>
  /\ ~Accepts(Head(log[t]).o, t)
  /\ log' = Drop(log, t)
  /\ UNCHANGED <<orderSide, dlq, kitchenSide, deaths>>

\* A ValidationError or a missing order is not retried, any other error is.
OrderConsumeFails(t) ==
  /\ t \in KitchenStatus /\ log[t] # <<>>
  /\ LET m == Head(log[t])
     IN \/ /\ ~Accepts(m.o, t) \/ ("database" \in Faults /\ m.retry = MaxRetries)
           /\ dlq' = [dlq EXCEPT !["order"] = Append(@, [topic |-> t, o |-> m.o])]
           /\ log' = Drop(log, t)
        \/ /\ "database" \in Faults /\ m.retry < MaxRetries
           /\ log' = Again(Drop(log, t), t, m)
           /\ UNCHANGED dlq
  /\ UNCHANGED <<orderSide, kitchenSide, deaths>>

\* The same with another order, which is over: its letter will never be taken.
\* One is enough.  Those that will be taken hold nobody up.
OthersRefused ==
  /\ "others" \in Faults /\ \A i \in DOMAIN dlq["order"] : dlq["order"][i].o # NoVal
  /\ dlq' = [dlq EXCEPT !["order"] = Append(@, [topic |-> "ACCEPTED", o |-> NoVal])]
  /\ UNCHANGED <<orderSide, log, kitchenSide, deaths>>

\* The replay has no error handling: a letter it cannot process ends the
\* command, and is the first of the next run.
OrderReplay ==
  /\ "replay" \in Sources
  /\ dlq["order"] # <<>> /\ Head(dlq["order"]).o \in Orders
  /\ LET m == Head(dlq["order"]) IN Move(log, m.o, m.topic)
  /\ dlq' = [dlq EXCEPT !["order"] = Tail(@)]
  /\ UNCHANGED <<accepting, kitchenSide, deaths>>
------------------------------------------------------------------------------
(* The kitchen: its views *)

\* Accept, prepare, finish or cancel a ticket: the check is on the row read.
StaffRead(w, k, st) ==
  /\ Idle(w) /\ requests < MaxRequests
  /\ ticket[k] # NoTicket
  /\ ticket[k].status \in Required(st)
  /\ Begin(w, JobOn(st, ticket[k].o, 0, {k}))
  /\ requests' = requests + 1
  /\ UNCHANGED <<orderSide, ticket, log, dlq, pos, deaths>>

\* Mutated form: the status is announced before it is saved.
StaffSaveLast(w) ==
  /\ ~Idle(w)
  /\ \/ /\ \E k \in DOMAIN at[w].seen : ticket' = [ticket EXCEPT ![k].status = at[w].topic]
        /\ UNCHANGED deaths
     \/ Dies("request") /\ UNCHANGED ticket
  /\ log' = Send(log, at[w].topic, at[w].o)
  /\ End(w)
  /\ UNCHANGED <<orderSide, dlq, pos, requests>>

\* The status is saved and announced.  Cancelling twice saves nothing and is
\* announced twice.  Saving and publishing are one step: what the consumer
\* may do in between touches other topics.
StaffSave(w) ==
  /\ ~Idle(w)
  /\ \E k \in DOMAIN at[w].seen :
       ticket' = IF at[w].seen[k] = at[w].topic
                 THEN ticket
                 ELSE [ticket EXCEPT ![k].status = at[w].topic]
  /\ ViewPublishes(Send(log, at[w].topic, at[w].o))
  /\ End(w)
  /\ UNCHANGED <<orderSide, dlq, pos, requests>>
------------------------------------------------------------------------------
(* The kitchen: consumer of order events, and replay of its DLQ *)

KitchenRead(t) ==
  /\ t \in OrderTopics /\ log[t] # <<>>
  /\ Idle("consumer")
  /\ LET m == Head(log[t]) IN Begin("consumer", JobOn(t, m.o, m.retry, TicketsOf(m.o)))
  /\ UNCHANGED <<orderSide, ticket, log, dlq, pos, requests, deaths>>

\* Mutated form: a ticket is made without looking for one.
HandlePlacedBlindly(j) ==
  /\ j.topic = "placed"
  /\ \E k \in Tickets : /\ ticket[k] = NoTicket
                        /\ ticket' = [ticket EXCEPT ![k].o = j.o]

\* handle_order_placed: a ticket is made if none was found.
HandlePlaced(j) ==
  /\ j.topic = "placed"
  /\ \/ j.seen # <<>> /\ UNCHANGED ticket
     \/ /\ j.seen = <<>>
        /\ \E k \in Tickets : /\ ticket[k] = NoTicket
                              /\ ticket' = [ticket EXCEPT ![k].o = j.o]

\* handle_order_cancelled: get() wants exactly one ticket.
HandleCancelled(j) ==
  /\ j.topic = "cancelled"
  /\ \E k \in DOMAIN j.seen :
       /\ DOMAIN j.seen = {k}
       /\ ticket' = IF j.seen[k] = "CANCELLED"
                    THEN ticket
                    ELSE [ticket EXCEPT ![k].status = "CANCELLED"]

Handle(j) == HandlePlaced(j) \/ HandleCancelled(j)

\* A cancellation without a ticket fails too: its callback is given None.
Hopeless(j) == j.topic = "cancelled" /\ \A k \in Tickets : DOMAIN j.seen # {k}

\* A cancelled ticket is announced, once more if it was cancelled before.
Answer(L, j) == IF j.topic = "cancelled" THEN Send(L, "CANCELLED", j.o) ELSE L

KitchenConsume ==
  LET j == at["consumer"]
  IN /\ ~Idle("consumer")
     /\ Handle(j)
     /\ log' = Answer(Drop(log, j.topic), j)
     /\ End("consumer")
     /\ UNCHANGED <<orderSide, dlq, pos, requests, deaths>>

KitchenConsumerDies ==
  LET j == at["consumer"]
  IN /\ ~Idle("consumer")
     /\ Dies("consumer")
     /\ Handle(j)
     /\ log' \in {log, Answer(log, j)}
     /\ End("consumer")
     /\ UNCHANGED <<orderSide, dlq, pos, requests>>

\* Mutated form: a message out of retries is committed and forgotten.
KitchenConsumeForgets ==
  LET j == at["consumer"]
  IN /\ ~Idle("consumer")
     /\ Hopeless(j) \/ "database" \in Faults
     /\ log' = IF j.retry < MaxRetries
               THEN Again(Drop(log, j.topic), j.topic, [o |-> j.o, retry |-> j.retry])
               ELSE Drop(log, j.topic)
     /\ End("consumer")
     /\ UNCHANGED <<orderSide, ticket, dlq, pos, requests, deaths>>

\* Every error is retried.
KitchenConsumeFails ==
  LET j == at["consumer"]
      rest == Drop(log, j.topic)
  IN /\ ~Idle("consumer")
     /\ Hopeless(j) \/ "database" \in Faults
     /\ \/ /\ j.retry < MaxRetries
           /\ log' = Again(rest, j.topic, [o |-> j.o, retry |-> j.retry])
           /\ UNCHANGED dlq
        \/ /\ j.retry = MaxRetries
           /\ log' = rest
           /\ dlq' = [dlq EXCEPT !["kitchen"] = Append(@, [topic |-> j.topic, o |-> j.o])]
     /\ End("consumer")
     /\ UNCHANGED <<orderSide, ticket, pos, requests, deaths>>

ReplayRead ==
  /\ "replay" \in Sources
  /\ Idle("replay") /\ pos < Len(dlq["kitchen"])
  /\ LET m == dlq["kitchen"][pos + 1]
     IN Begin("replay", JobOn(m.topic, m.o, 0, TicketsOf(m.o)))
  /\ UNCHANGED <<orderSide, ticket, log, dlq, pos, requests, deaths>>

\* The offset of the processed letter is committed, and with it those before.
ReplayConsume ==
  LET j == at["replay"]
  IN /\ ~Idle("replay")
     /\ Handle(j)
     /\ log' = Answer(log, j)
     /\ dlq' = [dlq EXCEPT !["kitchen"] = SubSeq(@, pos + 2, Len(@))]
     /\ pos' = 0
     /\ End("replay")
     /\ UNCHANGED <<orderSide, requests, deaths>>

\* An error is logged, and the run goes on with the next letter.
ReplayFails ==
  /\ ~Idle("replay")
  /\ Hopeless(at["replay"]) \/ "database" \in Faults
  /\ pos' = pos + 1
  /\ End("replay")
  /\ UNCHANGED <<orderSide, ticket, log, dlq, requests, deaths>>

\* The run ends; the next one starts at the committed offset.
ReplayEnds ==
  /\ Idle("replay") /\ pos > 0
  /\ pos' = 0
  /\ UNCHANGED <<orderSide, ticket, log, dlq, at, requests, deaths>>

OrderViews ==
  \E o \in Orders :
    \/ \E h \in Sources : CreateOrder(o, h)
    \/ \E st \in Statuses : AdminUpdate(o, st)
    \/ CancelOrder(o)
    \/ \E w \in Waiters : AcceptPublish(w, o) \/ AcceptSave(w)
OrderConsumer == \E t \in KitchenStatus : OrderConsume(t) \/ OrderConsumeFails(t)
KitchenViews == \E w \in Staff, k \in Tickets, st \in KitchenStatus :
                  StaffRead(w, k, st) \/ StaffSave(w)
KitchenConsumer ==
  (\E t \in OrderTopics : KitchenRead(t)) \/ KitchenConsume \/ KitchenConsumeFails
Deaths == (\E t \in KitchenStatus : OrderConsumerDies(t)) \/ KitchenConsumerDies
Replays == OrderReplay \/ ReplayRead \/ ReplayConsume \/ ReplayFails \/ ReplayEnds

Next ==
  \/ OrderViews \/ OrderConsumer \/ OthersRefused
  \/ KitchenViews \/ KitchenConsumer \/ Deaths \/ Replays

Spec == Init /\ [][Next]_vars

\* The consumers run for ever, started requests end, and somebody keeps
\* running the replay of the orders' dead letters.
FairSpec ==
  /\ Spec
  /\ WF_vars(OrderConsumer) /\ WF_vars(KitchenConsumer) /\ WF_vars(OrderReplay)
  /\ \A w \in Staff : WF_vars(StaffSave(w))
  /\ \A w \in Waiters : WF_vars(AcceptSave(w))
------------------------------------------------------------------------------
(* Properties *)

\* Types of the rows, the topics and what the handlers have read.
TypeOK ==
  /\ order \in [Orders -> Statuses \cup {"NONE"}]
  /\ accepting \in [Waiters -> Orders \cup {NoVal}]
  /\ ticket \in [Tickets -> TicketRow]
  /\ log \in [Topics -> Seq(Message)]
  /\ dlq \in [{"order", "kitchen"} -> Seq(Letter)]
  /\ pos \in 0..Len(dlq["kitchen"])
  /\ at \in [Handlers -> Job \cup {NoVal}]
  /\ requests \in 0..MaxRequests /\ deaths \in 0..MaxDeaths

\* An order gets one ticket, however often its placement is announced and
\* delivered, as long as the consumer is alone: there is no unique index, only
\* its look before it inserts, and the replay of dead letters looks as well.
OneTicketPerOrder ==
  \A k1, k2 \in Tickets :
    ticket[k1] # NoTicket /\ ticket[k1].o = ticket[k2].o => k1 = k2

\* No order is said to be in preparation or ready before the kitchen has said
\* so of its ticket, whatever is retried, replayed or overtaken.
OrderNotAheadOfTicket ==
  \A o \in Orders : order[o] \in {"PREPARING", "READY"} =>
    \E k \in TicketsOf(o) :
      ticket[k].status \in {order[o], "CANCELLED"} \cup
                           (IF order[o] = "PREPARING" THEN {"READY"} ELSE {})

\* Nothing is under way: no message, no dead letter, no started handler.
Drained ==
  /\ \A t \in Topics : log[t] = <<>>
  /\ \A d \in DOMAIN dlq : dlq[d] = <<>>
  /\ \A h \in Handlers : Idle(h)
  /\ \A w \in Waiters : accepting[w] = NoVal

\* When all is quiet, no ticket of a cancelled order still waits to be cooked.
CancelledNotQueued ==
  Drained => \A k \in Tickets :
    ticket[k] # NoTicket /\ order[ticket[k].o] = "CANCELLED" => ticket[k].status # "RECEIVED"

\* Retries, repeated announcements and the two services answering each other
\* come to an end: the topics are empty for good.
TrafficEnds == <>[](\A t \in Topics : log[t] = <<>>)

\* The order's READY is behind another order's letter, at which every run of
\* the replay ends.
Stuck(o) ==
  \E i, j \in DOMAIN dlq["order"] :
    i < j /\ dlq["order"][i].o = NoVal /\ dlq["order"][j] = [topic |-> "READY", o |-> o]

\* The order hears of its ticket, although READY may overtake PREPARING and
\* then passes through the dead letter queue: nothing but another order's letter
\* ahead of it can keep it there, whatever letters this order has there itself.
ReadyArrives ==
  \A o \in Orders, k \in Tickets :
    ticket[k].o = o /\ ticket[k].status = "READY" ~>
      order[o] \notin {"CREATED", "ACCEPTED", "PREPARING"} \/ Stuck(o)
=============================================================================
