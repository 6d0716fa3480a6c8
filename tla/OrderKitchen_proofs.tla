------------------------- MODULE OrderKitchen_proofs -------------------------
(* Orders and tickets, for any number of orders, tickets, views, retries and *)
(* deaths: the types, one ticket per order, an order that is never ahead of  *)
(* its ticket, and cancellations that reach the kitchen.                     *)
EXTENDS OrderKitchen, SequenceTheorems, TLAPS

Logs == [Topics -> Seq(Message)]
Has(L, t, o) == \E i \in 1..Len(L[t]) : L[t][i].o = o
HasLetter(q, t, o) == \E i \in 1..Len(q) : q[i] = [topic |-> t, o |-> o]

\* Who stands at the head of a topic stays there.
HeadsKept(L, M) == \A t \in OrderTopics : L[t] # <<>> => M[t] # <<>> /\ Head(M[t]) = Head(L[t])

\* What a handler has read of a ticket still says whose it is and, once the
\* ticket was touched, that it was.
Recalls(h) ==
  \A k \in DOMAIN at[h].seen :
    /\ ticket[k].o = at[h].o
    /\ at[h].seen[k] # "RECEIVED" => ticket[k].status # "RECEIVED"

StaffReads(w) ==
  ~Idle(w) => /\ at[w].topic \in KitchenStatus
              /\ \A k \in DOMAIN at[w].seen : at[w].seen[k] \in Required(at[w].topic)

\* The consumer works on the head of its topic, the replay on the letter
\* behind those it has passed.
ConsumerReads ==
  LET j == at["consumer"]
  IN ~Idle("consumer") =>
       /\ j.topic \in OrderTopics /\ log[j.topic] # <<>>
       /\ Head(log[j.topic]) = [o |-> j.o, retry |-> j.retry]
ReplayReads ==
  LET j == at["replay"]
  IN ~Idle("replay") =>
       /\ pos < Len(dlq["kitchen"])
       /\ dlq["kitchen"][pos + 1] = [topic |-> j.topic, o |-> j.o]

\* Each dead letter queue has letters of its own consumer only.
LettersSorted ==
  /\ \A i \in 1..Len(dlq["kitchen"]) : /\ dlq["kitchen"][i].topic \in OrderTopics
                                       /\ dlq["kitchen"][i].o \in Orders
  /\ \A i \in 1..Len(dlq["order"]) : dlq["order"][i].topic \in KitchenStatus

KitchenInv ==
  /\ TypeOK
  /\ \A k \in Tickets : ticket[k].o = NoVal => ticket[k] = NoTicket
  /\ \A h \in Handlers : ~Idle(h) => Recalls(h)
  /\ \A w \in Staff : StaffReads(w)
  /\ ConsumerReads /\ ReplayReads /\ LettersSorted
------------------------------------------------------------------------------
(* One ticket per order *)

\* Nothing but the consumer makes tickets: no dead letters are replayed, or
\* none of them is a placement.
ConsumerAlone == "replay" \notin Sources \/ "database" \notin Faults

\* The consumer still sees all tickets of its order, and the replay handles
\* cancellations only.
SoleInv ==
  /\ ~Idle("consumer") => TicketsOf(at["consumer"].o) \subseteq DOMAIN at["consumer"].seen
  /\ "replay" \notin Sources => Idle("replay")
  /\ ~Idle("replay") => at["replay"].topic = "cancelled"
  /\ "database" \notin Faults =>
       \A i \in 1..Len(dlq["kitchen"]) : dlq["kitchen"][i].topic = "cancelled"
  /\ OneTicketPerOrder
------------------------------------------------------------------------------
(* An order is not ahead of its ticket *)

\* One view at a time saves tickets, and administrators leave the cooking to
\* the kitchen.  With two views the second saves what the ticket is past.
OneCook ==
  /\ \A v, w \in Staff : v = w
  /\ AdminTargets \cap {"PREPARING", "READY"} = {}

\* The order, a message or a dead letter says so.
Told(o, st) ==
  \/ order[o] = st
  \/ Has(log, st, o)
  \/ HasLetter(dlq["order"], st, o)

\* What a ticket may be once it was in preparation, or ready.
After(st) == {st, "READY", "CANCELLED"}

\* The ticket has been there, and who is about to save it will not take it back.
Past(k, st) ==
  /\ ticket[k].status \in After(st)
  /\ \A w \in Staff : ~Idle(w) /\ k \in DOMAIN at[w].seen => at[w].topic \in After(st)

LeadInv ==
  \A o \in Orders, st \in {"PREPARING", "READY"} :
    Told(o, st) => \E k \in TicketsOf(o) : Past(k, st)
------------------------------------------------------------------------------
(* Cancellations *)

\* Consumers may die, requests and the database do not fail, and the replay of
\* a later letter does not commit that of another order.
Calm ==
  /\ Faults \subseteq {"consumer", "others"}
  /\ "replay" \notin Sources \/ \A o, q \in Orders : o = q

\* The cancellation is on its way to the kitchen.
Coming(o) == Has(log, "cancelled", o) \/ HasLetter(dlq["kitchen"], "cancelled", o)
Touched(o) == \E k \in TicketsOf(o) : ticket[k].status # "RECEIVED"

CancelInv ==
  \A o \in Orders :
    /\ order[o] = "CANCELLED" => Coming(o) \/ Touched(o)
    /\ Has(log, "CANCELLED", o) \/ HasLetter(dlq["order"], "CANCELLED", o) => Touched(o)
------------------------------------------------------------------------------
(* Topics and dead letter queues *)

LEMMA AppendFacts ==
  ASSUME NEW S, NEW s \in Seq(S), NEW e \in S
  PROVE  /\ Append(s, e) \in Seq(S) /\ Len(Append(s, e)) = Len(s) + 1
         /\ \A i \in 1..Len(s) : Append(s, e)[i] = s[i]
         /\ Append(s, e)[Len(s) + 1] = e
         /\ Append(s, e) # <<>>
         /\ s # <<>> => Head(Append(s, e)) = Head(s)
  BY AppendProperties, HeadTailAppend

LEMMA TailFacts ==
  ASSUME NEW S, NEW s \in Seq(S), s # <<>>
  PROVE  /\ Head(s) \in S /\ Head(s) = s[1] /\ Len(s) \in Nat /\ Len(s) > 0
         /\ Tail(s) \in Seq(S) /\ Len(Tail(s)) = Len(s) - 1
         /\ \A i \in 1..Len(s) - 1 : Tail(s)[i] = s[i + 1]
  OBVIOUS

\* A message that is appended to a topic.
IsAppended(M, L, t, m) == M = [L EXCEPT ![t] = Append(@, m)]

LEMMA AppendLog ==
  ASSUME NEW L \in Logs, NEW t \in Topics, NEW m \in Message, NEW M, IsAppended(M, L, t, m)
  PROVE  /\ M \in Logs /\ HeadsKept(L, M)
         /\ \A u, q : u \in Topics => (Has(M, u, q) <=> Has(L, u, q) \/ (u = t /\ q = m.o))
<1>1. L[t] \in Seq(Message)
  BY DEF Logs
<1>2. M[t] = Append(L[t], m) /\ \A u \in Topics \ {t} : M[u] = L[u]
  BY DEF Logs, IsAppended
<1>3. Append(L[t], m) \in Seq(Message)
  BY <1>1, AppendFacts
<1>4. M \in Logs
  BY <1>2, <1>3 DEF Logs, IsAppended
<1>5. HeadsKept(L, M)
  BY <1>1, <1>2, AppendFacts DEF HeadsKept, OrderTopics, Topics
<1>6. ASSUME NEW q PROVE Has(M, t, q) <=> Has(L, t, q) \/ q = m.o
  <2>1. /\ Len(M[t]) = Len(L[t]) + 1 /\ M[t][Len(L[t]) + 1] = m
        /\ \A i \in 1..Len(L[t]) : M[t][i] = L[t][i]
    BY <1>1, <1>2, AppendFacts
  <2>2. Len(L[t]) \in Nat
    BY <1>1
  <2> QED BY <2>1, <2>2 DEF Has
<1> QED BY <1>2, <1>4, <1>5, <1>6 DEF Has

LEMMA SendLog ==
  ASSUME NEW L \in Logs, NEW t \in Topics, NEW o \in Orders
  PROVE  /\ Send(L, t, o) \in Logs /\ HeadsKept(L, Send(L, t, o))
         /\ \A u, q : u \in Topics =>
              (Has(Send(L, t, o), u, q) <=> Has(L, u, q) \/ (u = t /\ q = o))
<1> DEFINE m == [o |-> o, retry |-> 0]
           M == Send(L, t, o)
<1>1. m \in Message /\ m.o = o
  BY OrderKitchenAssumption DEF Message
<1>2. IsAppended(M, L, t, m)
  BY DEF Send, IsAppended
<1> HIDE DEF m, M
<1>3. /\ M \in Logs /\ HeadsKept(L, M)
      /\ \A u, q : u \in Topics => (Has(M, u, q) <=> Has(L, u, q) \/ (u = t /\ q = m.o))
  BY <1>1, <1>2, AppendLog
<1> QED BY <1>1, <1>3 DEF M

\* A message that is taken from its topic.
LEMMA DropLog ==
  ASSUME NEW L \in Logs, NEW t \in Topics, L[t] # <<>>
  PROVE  /\ Drop(L, t) \in Logs
         /\ Head(L[t]) \in Message
         /\ \A u \in Topics \ {t} : Drop(L, t)[u] = L[u]
         /\ \A u, q : u \in Topics =>
              (Has(L, u, q) <=> Has(Drop(L, t), u, q) \/ (u = t /\ q = Head(L[t]).o))
<1>1. L[t] \in Seq(Message)
  BY DEF Logs
<1>2. Drop(L, t)[t] = Tail(L[t]) /\ \A u \in Topics \ {t} : Drop(L, t)[u] = L[u]
  BY DEF Logs, Drop
<1>3. Drop(L, t) \in Logs
  BY <1>1, TailFacts DEF Logs, Drop
<1>4. ASSUME NEW q PROVE Has(L, t, q) <=> Has(Drop(L, t), t, q) \/ q = Head(L[t]).o
  <2> DEFINE n == Len(L[t])
  <2>1. /\ n \in Nat /\ n > 0 /\ Head(L[t]) = L[t][1] /\ Len(Drop(L, t)[t]) = n - 1
        /\ \A i \in 1..n - 1 : Drop(L, t)[t][i] = L[t][i + 1]
    BY <1>1, <1>2, TailFacts
  <2>2. ASSUME NEW i \in 1..n, L[t][i].o = q, i # 1 PROVE Has(Drop(L, t), t, q)
    <3>1. i - 1 \in 1..n - 1 /\ Drop(L, t)[t][i - 1] = L[t][(i - 1) + 1]
      BY <2>1, <2>2
    <3> QED BY <2>1, <2>2, <3>1 DEF Has
  <2>3. ASSUME NEW i \in 1..n - 1, Drop(L, t)[t][i].o = q PROVE Has(L, t, q)
    <3>1. i + 1 \in 1..n /\ L[t][i + 1].o = q
      BY <2>1, <2>3
    <3> QED BY <3>1 DEF Has
  <2>4. 1 \in 1..n
    BY <2>1
  <2> HIDE DEF n
  <2> QED BY <2>1, <2>2, <2>3, <2>4 DEF Has, n
<1>5. Head(L[t]) \in Message
  BY <1>1, TailFacts
<1>6. ASSUME NEW u \in Topics \ {t}, NEW q PROVE Has(L, u, q) <=> Has(Drop(L, t), u, q)
  BY <1>2 DEF Has
<1> QED BY <1>2, <1>3, <1>4, <1>5, <1>6

\* A message that is produced again.
LEMMA AgainLog ==
  ASSUME NEW L \in Logs, NEW t \in Topics, NEW m \in Message, m.retry < MaxRetries
  PROVE  /\ Again(L, t, m) \in Logs /\ HeadsKept(L, Again(L, t, m))
         /\ \A u, q : u \in Topics =>
              (Has(Again(L, t, m), u, q) <=> Has(L, u, q) \/ (u = t /\ q = m.o))
<1> DEFINE n == [m EXCEPT !.retry = @ + 1]
           M == Again(L, t, m)
<1>1. n \in Message /\ n.o = m.o
  <2>1. m.retry \in 0..MaxRetries /\ MaxRetries \in Nat
    BY OrderKitchenAssumption DEF Message
  <2>2. m.retry + 1 \in 0..MaxRetries
    BY <2>1
  <2>3. n = [o |-> m.o, retry |-> m.retry + 1] /\ m.o \in Orders
    BY DEF Message
  <2> QED BY <2>2, <2>3 DEF Message
<1>2. IsAppended(M, L, t, n)
  BY DEF Again, IsAppended
<1> HIDE DEF n, M
<1>3. /\ M \in Logs /\ HeadsKept(L, M)
      /\ \A u, q : u \in Topics => (Has(M, u, q) <=> Has(L, u, q) \/ (u = t /\ q = n.o))
  BY <1>1, <1>2, AppendLog
<1> QED BY <1>1, <1>3 DEF M

\* What a new status announces.
LEMMA AnnounceLog ==
  ASSUME NEW L \in Logs, NEW st, NEW o \in Orders
  PROVE  /\ Announce(L, st, o) \in Logs /\ HeadsKept(L, Announce(L, st, o))
         /\ \A u, q : u \in KitchenStatus =>
              (Has(Announce(L, st, o), u, q) <=> Has(L, u, q))
         /\ \A q : Has(L, "cancelled", q) => Has(Announce(L, st, o), "cancelled", q)
         /\ st = "CANCELLED" => Has(Announce(L, st, o), "cancelled", o)
<1>1. {"placed", "cancelled"} \subseteq Topics /\ KitchenStatus \subseteq Topics
      /\ "placed" \notin KitchenStatus /\ "cancelled" \notin KitchenStatus
  BY DEF Topics, OrderTopics, KitchenStatus
<1>2. CASE st = "ACCEPTED"
  BY <1>1, <1>2, SendLog DEF Announce
<1>3. CASE st = "CANCELLED"
  BY <1>1, <1>3, SendLog DEF Announce
<1>4. CASE st # "ACCEPTED" /\ st # "CANCELLED"
  <2>1. Announce(L, st, o) = L
    BY <1>4 DEF Announce
  <2>2. HeadsKept(L, L)
    BY DEF HeadsKept
  <2> QED BY <1>4, <2>1, <2>2
<1> QED BY <1>2, <1>3, <1>4

\* A letter that is appended to a queue, and one that is taken from it.
LEMMA AppendLetter ==
  ASSUME NEW s \in Seq(Letter), NEW t \in Topics, NEW o \in Orders \cup {NoVal}, NEW r,
         r = Append(s, [topic |-> t, o |-> o])
  PROVE  /\ r \in Seq(Letter) /\ Len(s) \in Nat /\ Len(r) = Len(s) + 1
         /\ \A i \in 1..Len(s) : r[i] = s[i]
         /\ r[Len(s) + 1] = [topic |-> t, o |-> o]
<1>1. [topic |-> t, o |-> o] \in Letter
  BY DEF Letter
<1> QED BY <1>1, AppendFacts

LEMMA LetterAdded ==
  ASSUME NEW s \in Seq(Letter), NEW t \in Topics, NEW o \in Orders \cup {NoVal}, NEW u, NEW q
  PROVE  HasLetter(Append(s, [topic |-> t, o |-> o]), u, q) <=>
           HasLetter(s, u, q) \/ (u = t /\ q = o)
<1> DEFINE r == Append(s, [topic |-> t, o |-> o])
<1>1. /\ Len(s) \in Nat /\ Len(r) = Len(s) + 1 /\ \A i \in 1..Len(s) : r[i] = s[i]
      /\ r[Len(s) + 1] = [topic |-> t, o |-> o]
  BY AppendLetter
<1> HIDE DEF r
<1>2. \A i \in 1..Len(r) : i \in 1..Len(s) \/ i = Len(s) + 1
  BY <1>1
<1>3. Len(s) + 1 \in 1..Len(r) /\ \A i \in 1..Len(s) : i \in 1..Len(r)
  BY <1>1
<1>4. HasLetter(r, u, q) <=> HasLetter(s, u, q) \/ (u = t /\ q = o)
  BY <1>1, <1>2, <1>3 DEF HasLetter
<1> QED BY <1>4 DEF r
------------------------------------------------------------------------------
(* Types, and what the handlers hold *)

\* Tickets are made and touched, never given away or put back.
Grows ==
  /\ ticket' \in [Tickets -> TicketRow]
  /\ \A k \in Tickets :
       /\ ticket[k].o # NoVal => ticket'[k].o = ticket[k].o
       /\ ticket[k].status # "RECEIVED" => ticket'[k].status # "RECEIVED"
       /\ ticket'[k].o = NoVal => ticket'[k] = NoTicket

\* Letters are added behind those that are there.
Extends(s, r) == Len(s) <= Len(r) /\ \A i \in 1..Len(s) : r[i] = s[i]

LEMMA HeadsKeptTwice ==
  ASSUME NEW L, NEW M, NEW N, HeadsKept(L, M), HeadsKept(M, N)
  PROVE  HeadsKept(L, N)
  BY DEF HeadsKept

LEMMA JobFacts ==
  ASSUME TypeOK, NEW h \in Handlers, ~Idle(h)
  PROVE  /\ at[h] \in Job /\ at[h].topic \in Topics /\ at[h].o \in Orders
         /\ at[h].retry \in 0..MaxRetries /\ DOMAIN at[h].seen \subseteq Tickets
         /\ \A k \in DOMAIN at[h].seen : at[h].seen[k] \in TicketStatus
         /\ at[h].o # NoVal
<1>1. at[h] \in Job
  BY DEF TypeOK, Idle
<1>2. PICK K \in SUBSET Tickets : at[h].seen \in [K -> TicketStatus]
  BY <1>1 DEF Job
<1> QED BY <1>1, <1>2, OrderKitchenAssumption DEF Job

\* What a handler learns of the tickets K when it reads them.
LEMMA JobOnFacts ==
  ASSUME TypeOK, NEW t \in Topics, NEW o \in Orders, NEW r \in 0..MaxRetries,
         NEW K \in SUBSET Tickets
  PROVE  /\ JobOn(t, o, r, K) \in Job
         /\ JobOn(t, o, r, K).topic = t /\ JobOn(t, o, r, K).o = o
         /\ JobOn(t, o, r, K).retry = r /\ DOMAIN JobOn(t, o, r, K).seen = K
         /\ \A k \in K : JobOn(t, o, r, K).seen[k] = ticket[k].status
<1>1. [k \in K |-> ticket[k].status] \in [K -> TicketStatus]
  BY DEF TypeOK, TicketRow
<1> QED BY <1>1 DEF JobOn, Job

\* A step of the order service.
LEMMA OrderSideInv ==
  ASSUME KitchenInv, UNCHANGED kitchenSide,
         order' \in [Orders -> Statuses \cup {"NONE"}],
         accepting' \in [Waiters -> Orders \cup {NoVal}],
         log' \in Logs, HeadsKept(log, log'),
         dlq' \in [{"order", "kitchen"} -> Seq(Letter)], dlq'["kitchen"] = dlq["kitchen"],
         \A i \in 1..Len(dlq'["order"]) : dlq'["order"][i].topic \in KitchenStatus,
         deaths' \in 0..MaxDeaths
  PROVE  KitchenInv'
<1> USE DEF kitchenSide, KitchenInv
<1>1. TypeOK'
  BY DEF TypeOK, Logs
<1>2. \A h \in Handlers : ~Idle(h)' => Recalls(h)'
  BY DEF Idle, Recalls
<1>3. \A w \in Staff : StaffReads(w)'
  BY DEF StaffReads, Idle
<1>4. ConsumerReads'
  BY DEF ConsumerReads, Idle, HeadsKept
<1>5. ReplayReads' /\ LettersSorted'
  BY DEF ReplayReads, LettersSorted, Idle
<1> QED BY <1>1, <1>2, <1>3, <1>4, <1>5

LEMMA RecallsKept ==
  ASSUME KitchenInv, Grows, NEW h \in Handlers, ~Idle(h), at'[h] = at[h]
  PROVE  Recalls(h)'
<1>1. DOMAIN at[h].seen \subseteq Tickets /\ at[h].o # NoVal
  BY JobFacts DEF KitchenInv
<1> QED BY <1>1 DEF KitchenInv, Recalls, Grows

\* A step of handler h of the kitchen, which then works on x.
LEMMA HandlerInv ==
  ASSUME KitchenInv, Grows, NEW h \in Handlers, NEW x \in Job \cup {NoVal}, Begin(h, x),
         UNCHANGED orderSide,
         x # NoVal => Recalls(h)',
         h \in Staff => StaffReads(h)', h = "consumer" => ConsumerReads',
         h = "replay" => ReplayReads',
         log' \in Logs, h # "consumer" => HeadsKept(log, log'),
         dlq' \in [{"order", "kitchen"} -> Seq(Letter)], LettersSorted',
         h # "replay" => pos' = pos /\ Extends(dlq["kitchen"], dlq'["kitchen"]),
         pos' \in 0..Len(dlq'["kitchen"]),
         requests' \in 0..MaxRequests, deaths' \in 0..MaxDeaths
  PROVE  KitchenInv'
<1> USE DEF KitchenInv, orderSide
<1>1. at'[h] = x /\ \A g \in Handlers \ {h} : at'[g] = at[g]
  BY DEF Begin, TypeOK
<1>2. TypeOK'
  BY DEF TypeOK, Logs, Begin, Grows
<1>3. \A g \in Handlers : ~Idle(g)' => Recalls(g)'
  <2>1. ASSUME NEW g \in Handlers, g # h, ~Idle(g)' PROVE Recalls(g)'
    BY <1>1, <2>1, RecallsKept DEF Idle
  <2>2. ~Idle(h)' => x # NoVal
    BY <1>1 DEF Idle
  <2> QED BY <2>1, <2>2
<1>4. \A w \in Staff : StaffReads(w)'
  BY <1>1 DEF StaffReads, Idle, Handlers
<1>5. ConsumerReads'
  BY <1>1 DEF ConsumerReads, Idle, HeadsKept, Handlers
<1>6. ReplayReads'
  <2>1. CASE h # "replay" /\ ~Idle("replay")'
    <3>1. at'["replay"] = at["replay"] /\ pos < Len(dlq["kitchen"]) /\ ~Idle("replay")
      BY <1>1, <2>1 DEF ReplayReads, Idle, Handlers
    <3>2. pos + 1 \in 1..Len(dlq["kitchen"]) /\ pos \in Nat /\ Len(dlq'["kitchen"]) \in Nat
      BY <3>1 DEF TypeOK
    <3>3. pos' < Len(dlq'["kitchen"]) /\ dlq'["kitchen"][pos + 1] = dlq["kitchen"][pos + 1]
      BY <2>1, <3>1, <3>2 DEF Extends, TypeOK
    <3> QED BY <2>1, <3>1, <3>3 DEF ReplayReads
  <2>2. CASE Idle("replay")'
    BY <2>2 DEF ReplayReads
  <2> QED BY <2>1, <2>2
<1> QED BY <1>2, <1>3, <1>4, <1>5, <1>6 DEF Grows

LEMMA TopicFacts ==
  /\ KitchenStatus \subseteq Topics /\ OrderTopics \subseteq Topics
  /\ {"placed", "cancelled"} = OrderTopics
  /\ \A t \in KitchenStatus : t \notin OrderTopics /\ t # "RECEIVED"
  /\ KitchenStatus \subseteq TicketStatus /\ KitchenStatus \subseteq Statuses
  /\ "CANCELLED" \in KitchenStatus
  BY DEF Topics, OrderTopics, KitchenStatus, TicketStatus, Statuses, ActiveStatus, TerminalStatus

\* Typed logs and queues, as the lemmas on sequences want them.
LEMMA InvLogs ==
  ASSUME KitchenInv
  PROVE  log \in Logs /\ dlq["order"] \in Seq(Letter) /\ dlq["kitchen"] \in Seq(Letter)
  BY DEF KitchenInv, TypeOK, Logs

LEMMA DeathsTyped ==
  ASSUME KitchenInv, NEW f, Dies(f) \/ UNCHANGED deaths
  PROVE  deaths' \in 0..MaxDeaths
<1>1. deaths \in 0..MaxDeaths /\ MaxDeaths \in Nat
  BY OrderKitchenAssumption DEF KitchenInv, TypeOK
<1> QED BY <1>1 DEF Dies

\* The views of the order service.
LEMMA ViewInv ==
  ASSUME KitchenInv, NEW o \in Orders, NEW st \in Statuses, NEW L \in Logs,
         order' = [order EXCEPT ![o] = st], HeadsKept(log, L), ViewPublishes(L),
         UNCHANGED <<accepting, dlq, kitchenSide>>
  PROVE  KitchenInv'
<1>1. log' \in Logs /\ HeadsKept(log, log')
  BY InvLogs DEF ViewPublishes, HeadsKept
<1>2. deaths' \in 0..MaxDeaths
  BY DeathsTyped DEF ViewPublishes
<1>3. order' \in [Orders -> Statuses \cup {"NONE"}]
  BY DEF KitchenInv, TypeOK
<1>4. /\ dlq' \in [{"order", "kitchen"} -> Seq(Letter)] /\ accepting' = accepting
      /\ accepting \in [Waiters -> Orders \cup {NoVal}]
      /\ \A i \in 1..Len(dlq'["order"]) : dlq'["order"][i].topic \in KitchenStatus
  BY DEF KitchenInv, TypeOK, LettersSorted
<1> QED BY <1>1, <1>2, <1>3, <1>4, OrderSideInv

LEMMA OrderViewsInv ==
  ASSUME KitchenInv, OrderViews
  PROVE  KitchenInv'
<1>1. log \in Logs /\ HeadsKept(log, log)
  BY InvLogs DEF HeadsKept
<1>2. PICK o \in Orders :
        \/ \E h \in Sources : CreateOrder(o, h)
        \/ \E st \in Statuses : AdminUpdate(o, st)
        \/ CancelOrder(o)
        \/ \E w \in Waiters : AcceptPublish(w, o) \/ AcceptSave(w)
  BY DEF OrderViews
<1>3. ASSUME NEW h \in Sources, CreateOrder(o, h) PROVE KitchenInv'
  <2> DEFINE st == IF h = "waiter" THEN "ACCEPTED" ELSE "CREATED"
  <2>1. /\ order' = [order EXCEPT ![o] = st] /\ ViewPublishes(Announce(log, st, o))
        /\ UNCHANGED <<accepting, dlq, kitchenSide>>
    BY <1>3 DEF CreateOrder
  <2>2. st \in Statuses
    BY DEF Statuses, ActiveStatus
  <2> HIDE DEF st
  <2>3. Announce(log, st, o) \in Logs /\ HeadsKept(log, Announce(log, st, o))
    BY <1>1, AnnounceLog
  <2> QED BY <2>1, <2>2, <2>3, ViewInv
<1>4. ASSUME NEW st \in Statuses, AdminUpdate(o, st) PROVE KitchenInv'
  <2>1. Announce(log, st, o) \in Logs /\ HeadsKept(log, Announce(log, st, o))
    BY <1>1, AnnounceLog
  <2> QED BY <1>4, <2>1, ViewInv DEF AdminUpdate
<1>5. CASE CancelOrder(o)
  <2> DEFINE L == Send(log, "cancelled", o)
             M == Send(L, "cancelled", o)
  <2>1. L \in Logs /\ HeadsKept(log, L)
    BY <1>1, SendLog, TopicFacts
  <2>2. ViewPublishes(M)
    BY <1>5 DEF CancelOrder
  <2> HIDE DEF L
  <2>3. M \in Logs /\ HeadsKept(L, M)
    BY <2>1, SendLog, TopicFacts
  <2> HIDE DEF M
  <2> QED BY <1>5, <2>1, <2>2, <2>3, HeadsKeptTwice, ViewInv, TopicFacts DEF CancelOrder
<1>6. ASSUME NEW w \in Waiters, AcceptPublish(w, o) PROVE KitchenInv'
  <2>1. log' \in Logs /\ HeadsKept(log, log')
    BY <1>1, <1>6, SendLog, TopicFacts DEF AcceptPublish
  <2>2. accepting' \in [Waiters -> Orders \cup {NoVal}]
    BY <1>6 DEF AcceptPublish, KitchenInv, TypeOK
  <2> QED BY <1>6, <2>1, <2>2, OrderSideInv
        DEF AcceptPublish, KitchenInv, TypeOK, LettersSorted
<1>7. ASSUME NEW w \in Waiters, AcceptSave(w) PROVE KitchenInv'
  <2>1. /\ accepting' \in [Waiters -> Orders \cup {NoVal}]
        /\ order' \in [Orders -> Statuses \cup {"NONE"}]
    BY <1>7 DEF AcceptSave, KitchenInv, TypeOK, Statuses, ActiveStatus
  <2> QED BY <1>1, <1>7, <2>1, OrderSideInv DEF AcceptSave, KitchenInv, TypeOK, LettersSorted
<1> QED BY <1>2, <1>3, <1>4, <1>5, <1>6, <1>7

\* process_event, of the consumer and of the replay.
LEMMA MoveInv ==
  ASSUME KitchenInv, NEW t \in KitchenStatus, NEW o \in Orders, NEW L \in Logs,
         HeadsKept(log, L), Move(L, o, t)
  PROVE  /\ log' \in Logs /\ HeadsKept(log, log')
         /\ order' \in [Orders -> Statuses \cup {"NONE"}]
<1>1. Announce(L, t, o) \in Logs /\ HeadsKept(L, Announce(L, t, o))
  BY AnnounceLog
<1>2. HeadsKept(log, Announce(L, t, o))
  BY <1>1, HeadsKeptTwice
<1>3. order' \in [Orders -> Statuses \cup {"NONE"}]
  BY TopicFacts DEF Move, KitchenInv, TypeOK
<1> QED BY <1>1, <1>2, <1>3 DEF Move

LEMMA HeadOfKitchen ==
  ASSUME KitchenInv, NEW t \in KitchenStatus, log[t] # <<>>
  PROVE  /\ Head(log[t]) \in Message /\ Head(log[t]).o \in Orders
         /\ Drop(log, t) \in Logs /\ HeadsKept(log, Drop(log, t))
<1>1. log \in Logs /\ t \in Topics /\ t \notin OrderTopics
  BY InvLogs, TopicFacts
<1>2. /\ Drop(log, t) \in Logs /\ Head(log[t]) \in Message
      /\ \A u \in Topics \ {t} : Drop(log, t)[u] = log[u]
  BY <1>1, DropLog
<1>3. HeadsKept(log, Drop(log, t))
  BY <1>1, <1>2, TopicFacts DEF HeadsKept
<1> QED BY <1>2, <1>3 DEF Message

LEMMA OrderConsumesInv ==
  ASSUME KitchenInv, NEW t \in KitchenStatus, OrderConsume(t) \/ OrderConsumerDies(t)
  PROVE  KitchenInv'
<1>1. log[t] # <<>>
  BY DEF OrderConsume, OrderConsumerDies
<1> DEFINE o == Head(log[t]).o
<1>2. o \in Orders /\ Drop(log, t) \in Logs /\ HeadsKept(log, Drop(log, t))
  BY <1>1, HeadOfKitchen
<1>3. log \in Logs /\ HeadsKept(log, log)
  BY InvLogs DEF HeadsKept
<1>4. \/ Move(Drop(log, t), o, t) \/ Move(log, o, t)
      \/ order' = [order EXCEPT ![o] = t] /\ UNCHANGED log
  BY DEF OrderConsume, OrderConsumerDies
<1>5. UNCHANGED <<accepting, dlq, kitchenSide>> /\ deaths' \in 0..MaxDeaths
  BY DeathsTyped DEF OrderConsume, OrderConsumerDies
<1> HIDE DEF o
<1>6. order' = [order EXCEPT ![o] = t] => order' \in [Orders -> Statuses \cup {"NONE"}]
  BY TopicFacts DEF KitchenInv, TypeOK
<1>7. /\ log' \in Logs /\ HeadsKept(log, log')
      /\ order' \in [Orders -> Statuses \cup {"NONE"}]
  BY <1>2, <1>3, <1>4, <1>6, MoveInv
<1> QED BY <1>5, <1>7, OrderSideInv DEF KitchenInv, TypeOK, LettersSorted

LEMMA OrderFailsInv ==
  ASSUME KitchenInv, NEW t \in KitchenStatus, OrderConsumeFails(t)
  PROVE  KitchenInv'
<1> DEFINE m == Head(log[t])
<1>1. log[t] # <<>> /\ t \in Topics
  BY TopicFacts DEF OrderConsumeFails
<1>2. /\ m \in Message /\ m.o \in Orders /\ Drop(log, t) \in Logs
      /\ HeadsKept(log, Drop(log, t))
  BY <1>1, HeadOfKitchen
<1>3. UNCHANGED <<orderSide, kitchenSide, deaths>>
  BY DEF OrderConsumeFails
<1>4. \/ /\ dlq' = [dlq EXCEPT !["order"] = Append(@, [topic |-> t, o |-> m.o])]
         /\ log' = Drop(log, t)
      \/ m.retry < MaxRetries /\ log' = Again(Drop(log, t), t, m) /\ UNCHANGED dlq
  BY DEF OrderConsumeFails
<1> HIDE DEF m
<1>5. CASE /\ dlq' = [dlq EXCEPT !["order"] = Append(@, [topic |-> t, o |-> m.o])]
           /\ log' = Drop(log, t)
  <2> DEFINE q == dlq["order"]
             r == dlq'["order"]
  <2>1. r = Append(q, [topic |-> t, o |-> m.o]) /\ dlq'["kitchen"] = dlq["kitchen"]
    BY <1>5 DEF KitchenInv, TypeOK
  <2>2. q \in Seq(Letter)
    BY InvLogs
  <2>3. /\ r \in Seq(Letter) /\ Len(q) \in Nat /\ Len(r) = Len(q) + 1
        /\ \A i \in 1..Len(q) : r[i] = q[i]
        /\ r[Len(q) + 1] = [topic |-> t, o |-> m.o]
    <3> HIDE DEF q, r
    <3> QED BY <1>1, <1>2, <2>1, <2>2, AppendLetter
  <2>4. ASSUME NEW i \in 1..Len(r) PROVE r[i].topic \in KitchenStatus
    <3>1. CASE i \in 1..Len(q)
      BY <2>3, <3>1 DEF KitchenInv, LettersSorted
    <3>2. CASE i = Len(q) + 1
      BY <2>3, <3>2
    <3> QED BY <2>3, <3>1, <3>2
  <2>5. dlq' \in [{"order", "kitchen"} -> Seq(Letter)]
    BY <1>5, <2>3 DEF KitchenInv, TypeOK
  <2> HIDE DEF q
  <2> QED BY <1>2, <1>3, <1>5, <2>1, <2>4, <2>5, OrderSideInv DEF KitchenInv, TypeOK, orderSide
<1>6. CASE m.retry < MaxRetries /\ log' = Again(Drop(log, t), t, m) /\ UNCHANGED dlq
  <2>1. log' \in Logs /\ HeadsKept(Drop(log, t), log')
    BY <1>1, <1>2, <1>6, AgainLog
  <2> QED BY <1>2, <1>3, <1>6, <2>1, HeadsKeptTwice, OrderSideInv
        DEF KitchenInv, TypeOK, LettersSorted, orderSide
<1> QED BY <1>4, <1>5, <1>6

\* What is refused of another order leaves its letter, and nothing else.
LEMMA OthersFacts ==
  ASSUME KitchenInv, OthersRefused
  PROVE  /\ UNCHANGED <<orderSide, log, kitchenSide, deaths>>
         /\ dlq' \in [{"order", "kitchen"} -> Seq(Letter)] /\ dlq'["kitchen"] = dlq["kitchen"]
         /\ \A i \in 1..Len(dlq'["order"]) : dlq'["order"][i].topic \in KitchenStatus
         /\ \A u, o : o \in Orders /\ HasLetter(dlq'["order"], u, o) => HasLetter(dlq["order"], u, o)
<1> DEFINE q == dlq["order"]
           r == dlq'["order"]
<1>1. /\ r = Append(q, [topic |-> "ACCEPTED", o |-> NoVal]) /\ dlq'["kitchen"] = dlq["kitchen"]
      /\ dlq' = [dlq EXCEPT !["order"] = r] /\ UNCHANGED <<orderSide, log, kitchenSide, deaths>>
  BY DEF OthersRefused, KitchenInv, TypeOK
<1>2. q \in Seq(Letter) /\ "ACCEPTED" \in KitchenStatus /\ "ACCEPTED" \in Topics
  BY InvLogs DEF Topics, KitchenStatus
<1> HIDE DEF q, r
<1>3. /\ r \in Seq(Letter) /\ Len(q) \in Nat /\ Len(r) = Len(q) + 1
      /\ \A i \in 1..Len(q) : r[i] = q[i]
      /\ r[Len(q) + 1] = [topic |-> "ACCEPTED", o |-> NoVal]
  BY <1>1, <1>2, AppendLetter
<1>4. \A i \in 1..Len(r) : i \in 1..Len(q) \/ i = Len(q) + 1
  BY <1>3
<1>5. ASSUME NEW i \in 1..Len(r) PROVE r[i].topic \in KitchenStatus
  <2>1. CASE i \in 1..Len(q)
    BY <1>3, <2>1 DEF KitchenInv, LettersSorted, q
  <2>2. CASE i = Len(q) + 1
    BY <1>2, <1>3, <2>2
  <2> QED BY <1>4, <2>1, <2>2
<1>6. \A u, o : HasLetter(r, u, o) <=> HasLetter(q, u, o) \/ (u = "ACCEPTED" /\ o = NoVal)
  BY <1>1, <1>2, LetterAdded
<1>7. dlq' \in [{"order", "kitchen"} -> Seq(Letter)]
  BY <1>1, <1>3 DEF KitchenInv, TypeOK
<1>8. NoVal \notin Orders
  BY OrderKitchenAssumption
<1> QED BY <1>1, <1>5, <1>6, <1>7, <1>8 DEF q, r

LEMMA OthersInv ==
  ASSUME KitchenInv, OthersRefused
  PROVE  KitchenInv'
<1>1. /\ order' = order /\ accepting' = accepting /\ log' = log /\ deaths' = deaths
      /\ UNCHANGED kitchenSide
  BY OthersFacts DEF orderSide
<1>2. /\ order \in [Orders -> Statuses \cup {"NONE"}] /\ accepting \in [Waiters -> Orders \cup {NoVal}]
      /\ log \in Logs /\ deaths \in 0..MaxDeaths
  BY InvLogs DEF KitchenInv, TypeOK
<1>3. HeadsKept(log, log')
  BY <1>1 DEF HeadsKept
<1> QED BY <1>1, <1>2, <1>3, OthersFacts, OrderSideInv

LEMMA OrderReplayInv ==
  ASSUME KitchenInv, OrderReplay
  PROVE  KitchenInv'
<1> DEFINE q == dlq["order"]
           m == Head(q)
<1>1. /\ q \in Seq(Letter) /\ q # <<>> /\ dlq' = [dlq EXCEPT !["order"] = Tail(q)]
      /\ m.o \in Orders /\ Move(log, m.o, m.topic) /\ UNCHANGED <<accepting, kitchenSide, deaths>>
  BY InvLogs DEF OrderReplay
<1>2. /\ m = q[1] /\ m \in Letter /\ Len(q) \in Nat /\ Len(q) > 0
      /\ Tail(q) \in Seq(Letter) /\ Len(Tail(q)) = Len(q) - 1
      /\ \A i \in 1..Len(q) - 1 : Tail(q)[i] = q[i + 1]
  <2> HIDE DEF q
  <2> QED BY <1>1, TailFacts
<1>3. \A i \in 1..Len(q) : q[i].topic \in KitchenStatus
  BY DEF KitchenInv, LettersSorted
<1>4. dlq'["order"] = Tail(q) /\ dlq'["kitchen"] = dlq["kitchen"]
      /\ dlq' \in [{"order", "kitchen"} -> Seq(Letter)]
  BY <1>1, <1>2 DEF KitchenInv, TypeOK
<1> HIDE DEF q
<1>5. m.topic \in KitchenStatus /\ m.o \in Orders
  BY <1>1, <1>2, <1>3
<1>6. \A i \in 1..Len(dlq'["order"]) : dlq'["order"][i].topic \in KitchenStatus
  <2> SUFFICES ASSUME NEW i \in 1..Len(dlq'["order"])
               PROVE  dlq'["order"][i].topic \in KitchenStatus
    OBVIOUS
  <2>1. i \in 1..Len(q) - 1 /\ i + 1 \in 1..Len(q)
    BY <1>2, <1>4
  <2>2. dlq'["order"][i] = q[i + 1]
    BY <1>2, <1>4, <2>1
  <2> QED BY <1>3, <2>1, <2>2
<1>7. /\ log' \in Logs /\ HeadsKept(log, log')
      /\ order' \in [Orders -> Statuses \cup {"NONE"}]
  <2>1. log \in Logs /\ HeadsKept(log, log)
    BY InvLogs DEF HeadsKept
  <2> HIDE DEF m
  <2> QED BY <1>1, <1>5, <2>1, MoveInv
<1> QED BY <1>1, <1>4, <1>6, <1>7, OrderSideInv DEF KitchenInv, TypeOK

\* What handling a message does to the tickets.
LEMMA HandleFacts ==
  ASSUME KitchenInv, NEW h \in Handlers, ~Idle(h), Handle(at[h])
  PROVE  /\ Grows
         /\ \A k \in Tickets :
              \/ ticket'[k] = ticket[k]
              \/ /\ at[h].topic = "placed" /\ DOMAIN at[h].seen = {}
                 /\ ticket[k] = NoTicket /\ ticket'[k] = [o |-> at[h].o, status |-> "RECEIVED"]
              \/ ticket[k].o = at[h].o /\ ticket'[k] = [o |-> at[h].o, status |-> "CANCELLED"]
         /\ \A k1, k2 \in Tickets :
              ticket'[k1] # ticket[k1] /\ ticket'[k2] # ticket[k2] => k1 = k2
         /\ at[h].topic = "cancelled" =>
              \E k \in Tickets : ticket'[k].o = at[h].o /\ ticket'[k].status # "RECEIVED"
         /\ at[h].topic \in OrderTopics
<1> DEFINE j == at[h]
<1>1. /\ j.o \in Orders /\ j.o # NoVal /\ DOMAIN j.seen \subseteq Tickets /\ Recalls(h)
  BY JobFacts DEF KitchenInv
<1>2. ticket \in [Tickets -> TicketRow] /\ \A k \in Tickets : ticket[k].o = NoVal => ticket[k] = NoTicket
  BY DEF KitchenInv, TypeOK
<1>3. ASSUME ticket' = ticket PROVE Grows
  BY <1>2, <1>3 DEF Grows
<1>4. CASE HandlePlaced(j)
  <2>1. CASE ticket' = ticket
    BY <1>3, <1>4, <2>1 DEF HandlePlaced, OrderTopics
  <2>2. CASE ticket' # ticket
    <3>1. PICK k \in Tickets : ticket[k] = NoTicket /\ ticket' = [ticket EXCEPT ![k].o = j.o]
      BY <1>4, <2>2 DEF HandlePlaced
    <3>2. j.seen = <<>> /\ j.topic = "placed"
      BY <1>4, <2>2 DEF HandlePlaced
    <3>3. DOMAIN j.seen = {}
      BY <3>2
    <3>4. ticket'[k] = [o |-> j.o, status |-> "RECEIVED"] /\ \A i \in Tickets \ {k} : ticket'[i] = ticket[i]
      BY <1>2, <3>1 DEF NoTicket, TicketRow
    <3>5. Grows
      BY <1>1, <1>2, <3>1, <3>4 DEF Grows, NoTicket, TicketRow, TicketStatus
    <3> QED BY <3>1, <3>2, <3>3, <3>4, <3>5 DEF OrderTopics
  <2> QED BY <2>1, <2>2
<1>5. CASE HandleCancelled(j)
  <2>1. PICK k \in DOMAIN j.seen :
          ticket' = IF j.seen[k] = "CANCELLED" THEN ticket
                    ELSE [ticket EXCEPT ![k].status = "CANCELLED"]
    BY <1>5 DEF HandleCancelled
  <2>2. k \in Tickets /\ ticket[k].o = j.o /\ j.topic = "cancelled"
    BY <1>1, <1>5 DEF Recalls, HandleCancelled
  <2>3. CASE j.seen[k] = "CANCELLED"
    <3>1. ticket[k].status # "RECEIVED"
      BY <1>1, <2>3 DEF Recalls
    <3> QED BY <1>3, <2>1, <2>2, <2>3, <3>1 DEF OrderTopics
  <2>4. CASE j.seen[k] # "CANCELLED"
    <3>1. ticket'[k] = [o |-> j.o, status |-> "CANCELLED"] /\ \A i \in Tickets \ {k} : ticket'[i] = ticket[i]
      BY <1>2, <2>1, <2>2, <2>4 DEF TicketRow
    <3>2. Grows
      BY <1>1, <1>2, <2>1, <2>2, <2>4, <3>1 DEF Grows, TicketRow, TicketStatus
    <3> QED BY <2>2, <3>1, <3>2 DEF OrderTopics
  <2> QED BY <2>3, <2>4
<1> QED BY <1>4, <1>5 DEF Handle

LEMMA StaffReadInv ==
  ASSUME KitchenInv, NEW w \in Staff, NEW k \in Tickets, NEW st \in KitchenStatus,
         StaffRead(w, k, st)
  PROVE  KitchenInv'
<1> DEFINE o == ticket[k].o
           x == JobOn(st, o, 0, {k})
<1>1. o \in Orders
  BY DEF StaffRead, KitchenInv, TypeOK, TicketRow
<1>2. 0 \in 0..MaxRetries /\ st \in Topics /\ TypeOK
  BY OrderKitchenAssumption, TopicFacts DEF KitchenInv
<1>3. /\ x \in Job /\ x.topic = st /\ x.o = o /\ DOMAIN x.seen = {k}
      /\ x.seen[k] = ticket[k].status
  <2> HIDE DEF o
  <2> QED BY <1>1, <1>2, JobOnFacts
<1>4. Begin(w, x) /\ ticket[k].status \in Required(st)
  BY DEF StaffRead
<1> HIDE DEF x
<1>5. w \in Handlers /\ at'[w] = x /\ w \notin {"consumer", "replay"}
  BY <1>2, <1>4, OrderKitchenAssumption DEF Begin, TypeOK, Handlers
<1>6. UNCHANGED <<orderSide, ticket, log, dlq, pos, deaths>> /\ requests' \in 0..MaxRequests
  <2>1. requests \in 0..MaxRequests /\ requests < MaxRequests /\ requests' = requests + 1
    BY <1>2 DEF StaffRead, TypeOK
  <2> QED BY <2>1, OrderKitchenAssumption DEF StaffRead
<1>7. Recalls(w)' /\ StaffReads(w)'
  BY <1>3, <1>4, <1>5, <1>6 DEF Recalls, StaffReads
<1>8. Grows /\ LettersSorted' /\ Extends(dlq["kitchen"], dlq'["kitchen"]) /\ HeadsKept(log, log')
  <2>1. Len(dlq["kitchen"]) \in Nat
    BY InvLogs
  <2>2. LettersSorted'
    BY <1>6 DEF KitchenInv, LettersSorted
  <2> QED BY <1>2, <1>6, <2>1, <2>2 DEF KitchenInv, TypeOK, Grows, Extends, HeadsKept
<1>9. /\ log' \in Logs /\ dlq' \in [{"order", "kitchen"} -> Seq(Letter)]
      /\ pos' = pos /\ pos' \in 0..Len(dlq'["kitchen"]) /\ deaths' \in 0..MaxDeaths
  BY <1>2, <1>6, InvLogs DEF TypeOK
<1> QED BY <1>3, <1>4, <1>5, <1>6, <1>7, <1>8, <1>9, HandlerInv

\* What a view does to the ticket it saves.
LEMMA StaffSaveFacts ==
  ASSUME KitchenInv, NEW w \in Staff, StaffSave(w)
  PROVE  /\ ~Idle(w) /\ Grows /\ at[w].topic \in KitchenStatus /\ at[w].o \in Orders
         /\ \E k \in DOMAIN at[w].seen :
              /\ k \in Tickets /\ ticket[k].o = at[w].o
              /\ at[w].seen[k] \in Required(at[w].topic)
              /\ ticket'[k].o = at[w].o /\ ticket'[k].status # "RECEIVED"
              /\ at[w].topic = "CANCELLED" \/ ticket'[k].status = at[w].topic
              /\ ticket'[k].status \in {ticket[k].status, at[w].topic}
              /\ \A i \in Tickets \ {k} : ticket'[i] = ticket[i]
         /\ log' = Send(log, at[w].topic, at[w].o) \/ (Dies("request") /\ UNCHANGED log)
<1> DEFINE j == at[w]
<1>1. ~Idle(w) /\ w \in Handlers
  BY DEF StaffSave, Handlers
<1>2. /\ j.o \in Orders /\ j.o # NoVal /\ DOMAIN j.seen \subseteq Tickets /\ Recalls(w)
      /\ StaffReads(w)
  BY <1>1, JobFacts DEF KitchenInv
<1>3. ticket \in [Tickets -> TicketRow] /\ \A k \in Tickets : ticket[k].o = NoVal => ticket[k] = NoTicket
  BY DEF KitchenInv, TypeOK
<1>4. PICK k \in DOMAIN j.seen :
        ticket' = IF j.seen[k] = j.topic THEN ticket
                  ELSE [ticket EXCEPT ![k].status = j.topic]
  BY DEF StaffSave
<1>5. k \in Tickets /\ ticket[k].o = j.o /\ j.seen[k] \in Required(j.topic)
      /\ j.topic \in KitchenStatus /\ j.topic \in TicketStatus /\ j.topic # "RECEIVED"
  BY <1>1, <1>2, TopicFacts DEF Recalls, StaffReads
<1>6. j.seen[k] = j.topic => j.topic = "CANCELLED" /\ ticket[k].status # "RECEIVED"
  BY <1>2, <1>5 DEF Required, KitchenStatus, Recalls
<1>7. /\ ticket'[k].o = j.o /\ \A i \in Tickets \ {k} : ticket'[i] = ticket[i]
      /\ ticket'[k].status = IF j.seen[k] = j.topic THEN ticket[k].status ELSE j.topic
      /\ ticket' \in [Tickets -> TicketRow]
  BY <1>3, <1>4, <1>5 DEF TicketRow
<1>8. Grows
  BY <1>2, <1>3, <1>5, <1>6, <1>7 DEF Grows
<1>9. /\ j.topic = "CANCELLED" \/ ticket'[k].status = j.topic
      /\ ticket'[k].status # "RECEIVED" /\ ticket'[k].status \in {ticket[k].status, j.topic}
  BY <1>5, <1>6, <1>7
<1>10. log' = Send(log, j.topic, j.o) \/ (Dies("request") /\ UNCHANGED log)
  BY DEF StaffSave, ViewPublishes
<1>11. \E i \in DOMAIN j.seen :
         /\ i \in Tickets /\ ticket[i].o = j.o /\ j.seen[i] \in Required(j.topic)
         /\ ticket'[i].o = j.o /\ ticket'[i].status # "RECEIVED"
         /\ j.topic = "CANCELLED" \/ ticket'[i].status = j.topic
         /\ ticket'[i].status \in {ticket[i].status, j.topic}
         /\ \A n \in Tickets \ {i} : ticket'[n] = ticket[n]
  <2> HIDE DEF j
  <2> WITNESS k \in DOMAIN j.seen
  <2> QED BY <1>5, <1>7, <1>9
<1> QED BY <1>1, <1>2, <1>5, <1>8, <1>10, <1>11

LEMMA StaffSaveInv ==
  ASSUME KitchenInv, NEW w \in Staff, StaffSave(w)
  PROVE  KitchenInv'
<1>1. /\ ~Idle(w) /\ Grows /\ at[w].topic \in KitchenStatus /\ at[w].o \in Orders
      /\ \/ log' = Send(log, at[w].topic, at[w].o) \/ UNCHANGED log
  BY StaffSaveFacts
<1>2. Begin(w, NoVal) /\ UNCHANGED <<orderSide, dlq, pos, requests>>
  BY DEF StaffSave, End, Begin
<1>3. deaths' \in 0..MaxDeaths
  BY DeathsTyped DEF StaffSave, ViewPublishes
<1>4. log' \in Logs /\ HeadsKept(log, log')
  BY <1>1, InvLogs, SendLog, TopicFacts DEF HeadsKept
<1>5. w \in Handlers /\ w \notin {"consumer", "replay"} /\ at'[w] = NoVal
  BY <1>2, OrderKitchenAssumption DEF Handlers, Begin, KitchenInv, TypeOK
<1>6. StaffReads(w)' /\ LettersSorted' /\ Extends(dlq["kitchen"], dlq'["kitchen"])
  <2>1. Len(dlq["kitchen"]) \in Nat
    BY InvLogs
  <2> QED BY <1>2, <1>5, <2>1 DEF StaffReads, Idle, KitchenInv, LettersSorted, Extends
<1>7. /\ dlq' \in [{"order", "kitchen"} -> Seq(Letter)] /\ pos' = pos
      /\ pos' \in 0..Len(dlq'["kitchen"]) /\ requests' \in 0..MaxRequests
  BY <1>2 DEF KitchenInv, TypeOK
<1> QED BY <1>1, <1>2, <1>3, <1>4, <1>5, <1>6, <1>7, HandlerInv

LEMMA HeadOfOrders ==
  ASSUME KitchenInv, NEW t \in OrderTopics, log[t] # <<>>
  PROVE  /\ Head(log[t]) \in Message /\ Head(log[t]).o \in Orders
         /\ Head(log[t]).retry \in 0..MaxRetries /\ Drop(log, t) \in Logs
<1>1. log \in Logs /\ t \in Topics
  BY InvLogs, TopicFacts
<1> QED BY <1>1, DropLog DEF Message

LEMMA KitchenReadInv ==
  ASSUME KitchenInv, NEW t \in OrderTopics, KitchenRead(t)
  PROVE  KitchenInv'
<1> DEFINE m == Head(log[t])
           x == JobOn(t, m.o, m.retry, TicketsOf(m.o))
<1>1. m \in Message /\ m.o \in Orders /\ m.retry \in 0..MaxRetries /\ log[t] # <<>>
  BY HeadOfOrders DEF KitchenRead
<1>2. TicketsOf(m.o) \in SUBSET Tickets /\ t \in Topics /\ TypeOK
  BY TopicFacts DEF TicketsOf, KitchenInv
<1>3. Begin("consumer", x) /\ UNCHANGED <<orderSide, ticket, log, dlq, pos, requests, deaths>>
  BY DEF KitchenRead
<1>4. /\ x \in Job /\ x.topic = t /\ x.o = m.o /\ x.retry = m.retry
      /\ DOMAIN x.seen = TicketsOf(m.o)
      /\ \A k \in TicketsOf(m.o) : x.seen[k] = ticket[k].status
  <2> HIDE DEF m
  <2> QED BY <1>1, <1>2, JobOnFacts
<1> HIDE DEF x
<1>5. "consumer" \in Handlers /\ "consumer" \notin Staff /\ at'["consumer"] = x
  BY <1>2, <1>3, OrderKitchenAssumption DEF Begin, TypeOK, Handlers
<1>6. Recalls("consumer")'
  BY <1>3, <1>4, <1>5 DEF Recalls, TicketsOf
<1>7. m = [o |-> m.o, retry |-> m.retry]
  <2> HIDE DEF m
  <2> QED BY <1>1 DEF Message
<1>8. ConsumerReads'
  BY <1>1, <1>3, <1>4, <1>5, <1>7 DEF ConsumerReads
<1>9. Grows /\ LettersSorted' /\ Extends(dlq["kitchen"], dlq'["kitchen"])
  <2>1. Len(dlq["kitchen"]) \in Nat
    BY InvLogs
  <2> QED BY <1>2, <1>3, <2>1 DEF KitchenInv, TypeOK, Grows, LettersSorted, Extends
<1>10. /\ log' \in Logs /\ dlq' \in [{"order", "kitchen"} -> Seq(Letter)] /\ pos' = pos
       /\ pos' \in 0..Len(dlq'["kitchen"]) /\ requests' \in 0..MaxRequests
       /\ deaths' \in 0..MaxDeaths
  BY <1>2, <1>3, InvLogs DEF TypeOK
<1> QED BY <1>3, <1>4, <1>5, <1>6, <1>8, <1>9, <1>10, HandlerInv

LEMMA AnswerLog ==
  ASSUME NEW L \in Logs, NEW j, j.o \in Orders
  PROVE  /\ Answer(L, j) \in Logs /\ HeadsKept(L, Answer(L, j))
         /\ \A u, q : u \in Topics =>
              (Has(Answer(L, j), u, q) <=>
                 Has(L, u, q) \/ (j.topic = "cancelled" /\ u = "CANCELLED" /\ q = j.o))
<1>1. CASE j.topic = "cancelled"
  <2>1. Answer(L, j) = Send(L, "CANCELLED", j.o) /\ "CANCELLED" \in Topics
    BY <1>1, TopicFacts DEF Answer
  <2> QED BY <1>1, <2>1, SendLog
<1>2. CASE j.topic # "cancelled"
  BY <1>2 DEF Answer, HeadsKept
<1> QED BY <1>1, <1>2

\* A handler of messages is done with its job.
LEMMA JobEndsInv ==
  ASSUME KitchenInv, NEW h \in {"consumer", "replay"}, ~Idle(h), End(h), Grows, UNCHANGED orderSide,
         log' \in Logs, h = "replay" => HeadsKept(log, log'),
         dlq' \in [{"order", "kitchen"} -> Seq(Letter)], LettersSorted',
         h = "consumer" => pos' = pos /\ Extends(dlq["kitchen"], dlq'["kitchen"]),
         pos' \in 0..Len(dlq'["kitchen"]), requests' = requests, deaths' \in 0..MaxDeaths
  PROVE  KitchenInv'
<1>1. h \in Handlers /\ h \notin Staff /\ Begin(h, NoVal) /\ at'[h] = NoVal
  BY OrderKitchenAssumption DEF Handlers, Begin, End, KitchenInv, TypeOK
<1>2. h = "consumer" => ConsumerReads'
  BY <1>1 DEF ConsumerReads, Idle
<1>3. h = "replay" => ReplayReads'
  BY <1>1 DEF ReplayReads, Idle
<1>4. requests' \in 0..MaxRequests
  BY DEF KitchenInv, TypeOK
<1> QED BY <1>1, <1>2, <1>3, <1>4, HandlerInv

LEMMA KitchenConsumesInv ==
  ASSUME KitchenInv, KitchenConsume \/ KitchenConsumerDies
  PROVE  KitchenInv'
<1> DEFINE j == at["consumer"]
<1>1. ~Idle("consumer") /\ Handle(j) /\ End("consumer") /\ UNCHANGED <<orderSide, dlq, pos, requests>>
  BY DEF KitchenConsume, KitchenConsumerDies
<1>2. "consumer" \in Handlers /\ j.o \in Orders
  BY <1>1, JobFacts DEF Handlers, KitchenInv
<1>3. Grows /\ deaths' \in 0..MaxDeaths
  BY <1>1, <1>2, HandleFacts, DeathsTyped DEF KitchenConsume, KitchenConsumerDies
<1>4. log \in Logs /\ Drop(log, j.topic) \in Logs
  BY <1>1, InvLogs, HeadOfOrders DEF KitchenInv, ConsumerReads
<1>5. log' \in {log, Answer(log, j), Answer(Drop(log, j.topic), j)}
  BY DEF KitchenConsume, KitchenConsumerDies
<1>6. log' \in Logs
  <2> HIDE DEF j
  <2> QED BY <1>2, <1>4, <1>5, AnswerLog
<1>7. /\ LettersSorted' /\ Extends(dlq["kitchen"], dlq'["kitchen"])
      /\ dlq' \in [{"order", "kitchen"} -> Seq(Letter)] /\ pos' \in 0..Len(dlq'["kitchen"])
  <2>1. Len(dlq["kitchen"]) \in Nat
    BY InvLogs
  <2> QED BY <1>1, <2>1 DEF KitchenInv, TypeOK, LettersSorted, Extends
<1> QED BY <1>1, <1>3, <1>6, <1>7, JobEndsInv

LEMMA KitchenFailsInv ==
  ASSUME KitchenInv, KitchenConsumeFails
  PROVE  KitchenInv'
<1> DEFINE j == at["consumer"]
           rest == Drop(log, j.topic)
           q == dlq["kitchen"]
           r == dlq'["kitchen"]
<1>1. ~Idle("consumer") /\ End("consumer") /\ UNCHANGED <<orderSide, ticket, pos, requests, deaths>>
  BY DEF KitchenConsumeFails
<1>2. "consumer" \in Handlers /\ j.o \in Orders /\ j.retry \in 0..MaxRetries
  BY <1>1, JobFacts DEF Handlers, KitchenInv
<1>3. j.topic \in OrderTopics /\ j.topic \in Topics /\ log[j.topic] # <<>>
  BY <1>1, TopicFacts DEF KitchenInv, ConsumerReads
<1>4. rest \in Logs /\ q \in Seq(Letter) /\ Len(q) \in Nat
  BY <1>3, InvLogs, HeadOfOrders
<1>5. Grows /\ deaths' \in 0..MaxDeaths
  BY <1>1 DEF KitchenInv, TypeOK, Grows
<1>6. \/ j.retry < MaxRetries /\ log' = Again(rest, j.topic, [o |-> j.o, retry |-> j.retry])
         /\ dlq' = dlq
      \/ log' = rest /\ dlq' = [dlq EXCEPT !["kitchen"] = Append(@, [topic |-> j.topic, o |-> j.o])]
  BY DEF KitchenConsumeFails
<1>7. /\ log' \in Logs /\ dlq' \in [{"order", "kitchen"} -> Seq(Letter)] /\ LettersSorted'
      /\ Extends(q, r) /\ pos' \in 0..Len(r)
  <2>1. CASE j.retry < MaxRetries /\ log' = Again(rest, j.topic, [o |-> j.o, retry |-> j.retry])
             /\ dlq' = dlq
    <3>1. [o |-> j.o, retry |-> j.retry] \in Message
      BY <1>2 DEF Message
    <3> HIDE DEF j, rest
    <3>2. log' \in Logs
      BY <1>3, <1>4, <2>1, <3>1, AgainLog
    <3> QED BY <1>1, <1>4, <2>1, <3>2 DEF KitchenInv, TypeOK, LettersSorted, Extends
  <2>2. CASE log' = rest /\ dlq' = [dlq EXCEPT !["kitchen"] = Append(@, [topic |-> j.topic, o |-> j.o])]
    <3>1. r = Append(q, [topic |-> j.topic, o |-> j.o]) /\ dlq'["order"] = dlq["order"]
      BY <2>2 DEF KitchenInv, TypeOK
    <3>2. /\ r \in Seq(Letter) /\ Len(r) = Len(q) + 1 /\ \A i \in 1..Len(q) : r[i] = q[i]
          /\ r[Len(q) + 1] = [topic |-> j.topic, o |-> j.o]
      <4> HIDE DEF j, q, r
      <4> QED BY <1>2, <1>3, <1>4, <3>1, AppendLetter
    <3>3. dlq' \in [{"order", "kitchen"} -> Seq(Letter)]
      BY <2>2, <3>2 DEF KitchenInv, TypeOK
    <3>4. ASSUME NEW i \in 1..Len(r) PROVE r[i].topic \in OrderTopics /\ r[i].o \in Orders
      <4>1. CASE i \in 1..Len(q)
        BY <3>2, <4>1 DEF KitchenInv, LettersSorted
      <4>2. CASE i = Len(q) + 1
        BY <1>2, <1>3, <3>2, <4>2
      <4> QED BY <1>4, <3>2, <4>1, <4>2
    <3>5. pos \in 0..Len(q) /\ pos' = pos
      BY <1>1 DEF KitchenInv, TypeOK
    <3>6. LettersSorted'
      BY <3>1, <3>4 DEF KitchenInv, LettersSorted
    <3> HIDE DEF q, r, rest, j
    <3> QED BY <1>4, <2>2, <3>2, <3>3, <3>5, <3>6 DEF Extends
  <2> QED BY <1>6, <2>1, <2>2
<1> QED BY <1>1, <1>5, <1>7, JobEndsInv

\* The letters behind the first n.
LEMMA RestLetters ==
  ASSUME NEW s \in Seq(Letter), NEW n \in 1..Len(s), NEW r, r = SubSeq(s, n + 1, Len(s))
  PROVE  /\ r \in Seq(Letter) /\ Len(s) \in Nat /\ Len(r) = Len(s) - n
         /\ \A i \in 1..Len(r) : n + i \in 1..Len(s) /\ r[i] = s[n + i]
<1>1. Len(s) \in Nat /\ n + 1 \in Int /\ \A i \in n + 1..Len(s) : s[i] \in Letter
  OBVIOUS
<1>2. /\ r \in Seq(Letter)
      /\ Len(r) = IF n + 1 <= Len(s) THEN Len(s) - (n + 1) + 1 ELSE 0
      /\ \A i \in 1..Len(s) - (n + 1) + 1 : r[i] = s[n + 1 + i - 1]
  BY <1>1, SubSeqProperties
<1>3. Len(r) = Len(s) - n
  BY <1>1, <1>2
<1>4. ASSUME NEW i \in 1..Len(r) PROVE n + i \in 1..Len(s) /\ r[i] = s[n + i]
  <2>1. i \in 1..Len(s) - (n + 1) + 1 /\ n + 1 + i - 1 = n + i
    BY <1>1, <1>3
  <2> QED BY <1>1, <1>2, <1>3, <2>1
<1> QED BY <1>1, <1>2, <1>3, <1>4

LEMMA ReplayReadInv ==
  ASSUME KitchenInv, ReplayRead
  PROVE  KitchenInv'
<1> DEFINE q == dlq["kitchen"]
           m == q[pos + 1]
           x == JobOn(m.topic, m.o, 0, TicketsOf(m.o))
<1>1. Begin("replay", x) /\ UNCHANGED <<orderSide, ticket, log, dlq, pos, requests, deaths>>
      /\ pos < Len(q)
  BY DEF ReplayRead
<1>2. TypeOK /\ q \in Seq(Letter) /\ Len(q) \in Nat /\ pos \in Nat
  BY InvLogs DEF KitchenInv, TypeOK
<1>3. m \in Letter /\ m.o \in Orders
  <2>1. pos + 1 \in 1..Len(q)
    BY <1>1, <1>2
  <2> QED BY <1>2, <2>1 DEF KitchenInv, LettersSorted
<1> HIDE DEF m
<1>4. m.topic \in Topics /\ m.o \in Orders /\ TicketsOf(m.o) \in SUBSET Tickets
      /\ m = [topic |-> m.topic, o |-> m.o] /\ 0 \in 0..MaxRetries
  BY <1>3, OrderKitchenAssumption DEF Letter, TicketsOf
<1>5. /\ x \in Job /\ x.topic = m.topic /\ x.o = m.o /\ DOMAIN x.seen = TicketsOf(m.o)
      /\ \A k \in TicketsOf(m.o) : x.seen[k] = ticket[k].status
  BY <1>2, <1>4, JobOnFacts
<1> HIDE DEF x
<1>6. "replay" \in Handlers /\ "replay" \notin Staff /\ at'["replay"] = x
  BY <1>1, <1>2, OrderKitchenAssumption DEF Begin, TypeOK, Handlers
<1>7. Recalls("replay")'
  BY <1>1, <1>5, <1>6 DEF Recalls, TicketsOf
<1>8. ReplayReads'
  <2>1. pos' = pos /\ dlq' = dlq /\ dlq["kitchen"][pos + 1] = [topic |-> x.topic, o |-> x.o]
    BY <1>1, <1>4, <1>5 DEF m
  <2> QED BY <1>1, <1>6, <2>1 DEF ReplayReads
<1>9. Grows /\ LettersSorted' /\ HeadsKept(log, log')
  BY <1>1, <1>2 DEF KitchenInv, TypeOK, Grows, LettersSorted, HeadsKept
<1>10. /\ log' \in Logs /\ dlq' \in [{"order", "kitchen"} -> Seq(Letter)]
       /\ pos' \in 0..Len(dlq'["kitchen"]) /\ requests' \in 0..MaxRequests
       /\ deaths' \in 0..MaxDeaths
  BY <1>1, <1>2, InvLogs DEF TypeOK
<1> QED BY <1>1, <1>5, <1>6, <1>7, <1>8, <1>9, <1>10, HandlerInv

\* The replay is through with a letter: those behind it are left.
LEMMA LettersLeft ==
  ASSUME KitchenInv, ReplayConsume
  PROVE  /\ dlq' \in [{"order", "kitchen"} -> Seq(Letter)] /\ dlq'["order"] = dlq["order"]
         /\ Len(dlq'["kitchen"]) \in Nat
         /\ \A i \in 1..Len(dlq'["kitchen"]) :
              \E n \in 1..Len(dlq["kitchen"]) : dlq'["kitchen"][i] = dlq["kitchen"][n]
<1> DEFINE q == dlq["kitchen"]
           r == dlq'["kitchen"]
<1>1. ~Idle("replay") /\ dlq' = [dlq EXCEPT !["kitchen"] = SubSeq(q, pos + 2, Len(q))]
  BY DEF ReplayConsume
<1>2. /\ r \in Seq(Letter) /\ Len(r) \in Nat
      /\ \A i \in 1..Len(r) : \E n \in 1..Len(q) : r[i] = q[n]
  <2>1. q \in Seq(Letter) /\ Len(q) \in Nat /\ pos + 1 \in 1..Len(q) /\ pos \in Nat
    BY <1>1, InvLogs DEF KitchenInv, TypeOK, ReplayReads
  <2>2. r = SubSeq(q, (pos + 1) + 1, Len(q))
    <3>1. (pos + 1) + 1 = pos + 2
      BY <2>1
    <3>2. r = SubSeq(q, pos + 2, Len(q))
      BY <1>1 DEF KitchenInv, TypeOK
    <3> QED BY <3>1, <3>2
  <2> HIDE DEF q, r
  <2> QED BY <2>1, <2>2, RestLetters
<1>3. dlq' \in [{"order", "kitchen"} -> Seq(Letter)] /\ dlq'["order"] = dlq["order"]
  BY <1>1, <1>2 DEF KitchenInv, TypeOK
<1> QED BY <1>2, <1>3

LEMMA ReplayConsumeInv ==
  ASSUME KitchenInv, ReplayConsume
  PROVE  KitchenInv'
<1> DEFINE j == at["replay"]
<1>1. /\ ~Idle("replay") /\ Handle(j) /\ End("replay") /\ log' = Answer(log, j) /\ pos' = 0
      /\ UNCHANGED <<orderSide, requests, deaths>>
  BY DEF ReplayConsume
<1>2. "replay" \in Handlers /\ j.o \in Orders
  BY <1>1, JobFacts DEF Handlers, KitchenInv
<1>3. Grows
  BY <1>1, <1>2, HandleFacts
<1>4. log' \in Logs /\ HeadsKept(log, log')
  <2> HIDE DEF j
  <2> QED BY <1>1, <1>2, InvLogs, AnswerLog
<1>5. LettersSorted'
  BY LettersLeft DEF KitchenInv, LettersSorted
<1>6. pos' \in 0..Len(dlq'["kitchen"]) /\ deaths' \in 0..MaxDeaths
  BY <1>1, LettersLeft DEF KitchenInv, TypeOK
<1> QED BY <1>1, <1>3, <1>4, <1>5, <1>6, LettersLeft, JobEndsInv

LEMMA ReplayStopsInv ==
  ASSUME KitchenInv, ReplayFails \/ ReplayEnds
  PROVE  KitchenInv'
<1> USE DEF KitchenInv
<1>1. UNCHANGED <<orderSide, ticket, log, dlq, requests, deaths>>
  BY DEF ReplayFails, ReplayEnds
<1>2. Grows /\ LettersSorted' /\ HeadsKept(log, log')
  BY <1>1 DEF TypeOK, Grows, LettersSorted, HeadsKept
<1>3. log' \in Logs /\ dlq' \in [{"order", "kitchen"} -> Seq(Letter)]
      /\ requests' = requests /\ deaths' \in 0..MaxDeaths
  BY <1>1, InvLogs DEF TypeOK
<1>4. CASE ReplayFails
  <2>1. ~Idle("replay") /\ End("replay") /\ pos' = pos + 1
    BY <1>4 DEF ReplayFails
  <2>2. pos' \in 0..Len(dlq'["kitchen"])
    BY <1>1, <2>1, InvLogs DEF TypeOK, ReplayReads
  <2> QED BY <1>1, <1>2, <1>3, <2>1, <2>2, JobEndsInv
<1>5. CASE ReplayEnds
  <2>1. pos' = 0 /\ at' = at /\ Idle("replay")
    BY <1>5 DEF ReplayEnds
  <2>2. TypeOK'
    BY <1>1, <2>1, InvLogs DEF TypeOK, orderSide
  <2>3. \A h \in Handlers : ~Idle(h)' => Recalls(h)'
    BY <1>1, <2>1 DEF Idle, Recalls
  <2> QED BY <1>1, <1>2, <2>1, <2>2, <2>3 DEF StaffReads, ConsumerReads, ReplayReads, Idle
<1> QED BY <1>4, <1>5

LEMMA KitchenNext == KitchenInv /\ [Next]_vars => KitchenInv'
<1> SUFFICES ASSUME KitchenInv, [Next]_vars PROVE KitchenInv'
  OBVIOUS
<1>1. CASE UNCHANGED vars
  BY <1>1 DEF vars, KitchenInv, TypeOK, Recalls, StaffReads, ConsumerReads, ReplayReads,
              LettersSorted, Idle
<1>2. CASE OrderViews
  BY <1>2, OrderViewsInv
<1>3. CASE OrderConsumer
  BY <1>3, OrderConsumesInv, OrderFailsInv DEF OrderConsumer
<1>4. CASE KitchenViews
  BY <1>4, StaffReadInv, StaffSaveInv DEF KitchenViews
<1>5. CASE KitchenConsumer
  BY <1>5, KitchenReadInv, KitchenConsumesInv, KitchenFailsInv DEF KitchenConsumer
<1>6. CASE Deaths
  BY <1>6, OrderConsumesInv, KitchenConsumesInv DEF Deaths
<1>7. CASE Replays
  BY <1>7, OrderReplayInv, ReplayReadInv, ReplayConsumeInv, ReplayStopsInv DEF Replays
<1>8. CASE OthersRefused
  BY <1>8, OthersInv
<1> QED BY <1>1, <1>2, <1>3, <1>4, <1>5, <1>6, <1>7, <1>8 DEF Next

LEMMA KitchenInit == Init => KitchenInv
<1> SUFFICES ASSUME Init PROVE KitchenInv
  OBVIOUS
<1>1. \A h \in Handlers : Idle(h)
  BY DEF Init, Idle
<1>2. /\ dlq["kitchen"] = <<>> /\ dlq["order"] = <<>>
      /\ dlq \in [{"order", "kitchen"} -> Seq(Letter)] /\ log \in [Topics -> Seq(Message)]
  BY DEF Init
<1>3. TypeOK
  BY <1>2, OrderKitchenAssumption DEF Init, TypeOK, NoTicket, TicketRow, TicketStatus
<1>4. LettersSorted
  BY <1>2 DEF LettersSorted
<1> QED BY <1>1, <1>3, <1>4 DEF KitchenInv, Init, StaffReads, ConsumerReads, ReplayReads, Handlers

\* Rows, topics, dead letters and what handlers hold keep their types, and a
\* handler's message is still where it found it: for any number of orders,
\* tickets, views, retries and deaths.
THEOREM KitchenTypes == Spec => []TypeOK
<1>1. KitchenInv => TypeOK
  BY DEF KitchenInv
<1> QED BY <1>1, KitchenInit, KitchenNext, PTL DEF Spec
------------------------------------------------------------------------------
(* One ticket per order *)

LEMMA SoleKept ==
  ASSUME KitchenInv, KitchenInv', SoleInv,
         \A k \in Tickets : ticket'[k].o = ticket[k].o,
         at'["consumer"] \in {at["consumer"], NoVal}, at'["replay"] \in {at["replay"], NoVal},
         "database" \notin Faults =>
           \A i \in 1..Len(dlq'["kitchen"]) : dlq'["kitchen"][i].topic = "cancelled"
  PROVE  SoleInv'
<1>1. \A o \in Orders : TicketsOf(o)' = TicketsOf(o)
  BY DEF TicketsOf
<1>2. ~Idle("consumer")' => ~Idle("consumer") /\ at'["consumer"] = at["consumer"]
  BY DEF Idle
<1>3. ~Idle("replay")' => ~Idle("replay") /\ at'["replay"] = at["replay"]
  BY DEF Idle
<1>4. ~Idle("consumer") => at["consumer"].o \in Orders
  BY JobFacts DEF KitchenInv, Handlers
<1>5. OneTicketPerOrder'
  <2>1. \A k \in Tickets : ticket'[k] # NoTicket => ticket[k] # NoTicket
    BY DEF KitchenInv, NoTicket
  <2> QED BY <2>1 DEF SoleInv, OneTicketPerOrder
<1> QED BY <1>1, <1>2, <1>3, <1>4, <1>5 DEF SoleInv

\* Handling a message makes a second ticket only if the handler saw too little.
LEMMA HandleSole ==
  ASSUME KitchenInv, KitchenInv', OneTicketPerOrder, NEW h \in Handlers, ~Idle(h), Handle(at[h]),
         at[h].topic = "placed" => TicketsOf(at[h].o) \subseteq DOMAIN at[h].seen
  PROVE  OneTicketPerOrder'
<1> DEFINE j == at[h]
<1>1. /\ \A k \in Tickets :
           \/ ticket'[k] = ticket[k]
           \/ /\ j.topic = "placed" /\ DOMAIN j.seen = {}
              /\ ticket[k] = NoTicket /\ ticket'[k] = [o |-> j.o, status |-> "RECEIVED"]
           \/ ticket[k].o = j.o /\ ticket'[k] = [o |-> j.o, status |-> "CANCELLED"]
      /\ \A k1, k2 \in Tickets :
           ticket'[k1] # ticket[k1] /\ ticket'[k2] # ticket[k2] => k1 = k2
  BY HandleFacts
<1>2. \A k \in Tickets : ticket[k].o = NoVal => ticket[k] = NoTicket
  BY DEF KitchenInv
<1>3. j.o # NoVal /\ NoTicket.o = NoVal
  BY JobFacts DEF KitchenInv, NoTicket
<1>4. j.topic = "placed" /\ DOMAIN j.seen = {} => \A k \in Tickets : ticket[k].o # j.o
  BY DEF TicketsOf
<1> HIDE DEF j
<1> SUFFICES ASSUME NEW k1 \in Tickets, NEW k2 \in Tickets,
                    ticket'[k1] # NoTicket, ticket'[k1].o = ticket'[k2].o, k1 # k2
             PROVE  FALSE
  BY DEF OneTicketPerOrder
<1>5. ~(ticket[k1] # NoTicket /\ ticket[k1].o = ticket[k2].o)
  BY DEF OneTicketPerOrder
<1>6. ticket'[k1].o # NoVal /\ ticket'[k2].o # NoVal
  BY DEF KitchenInv
<1>7. PICK k \in {k1, k2} : ticket'[k] # ticket[k] /\ \A i \in {k1, k2} \ {k} : ticket'[i] = ticket[i]
  BY <1>1, <1>5
<1>8. ticket[k] = NoTicket /\ ticket'[k].o = j.o /\ j.topic = "placed" /\ DOMAIN j.seen = {}
  <2>1. CASE ticket[k].o = j.o /\ ticket'[k] = [o |-> j.o, status |-> "CANCELLED"]
    BY <1>2, <1>3, <1>5, <1>7, <2>1
  <2> QED BY <1>1, <1>7, <2>1
<1>9. PICK i \in {k1, k2} \ {k} : ticket[i].o = j.o
  BY <1>7, <1>8
<1> QED BY <1>4, <1>8, <1>9

LEMMA SoleOrderSide ==
  ASSUME KitchenInv, KitchenInv', SoleInv, OrderViews \/ OrderConsumer \/ OrderReplay
         \/ (\E t \in KitchenStatus : OrderConsumerDies(t))
  PROVE  SoleInv'
<1>1. UNCHANGED kitchenSide /\ dlq'["kitchen"] = dlq["kitchen"]
  <2>1. CASE OrderViews
    BY <2>1 DEF OrderViews, CreateOrder, AdminUpdate, CancelOrder, AcceptPublish, AcceptSave
  <2>2. CASE OrderConsumer
    BY <2>2 DEF OrderConsumer, OrderConsume, OrderConsumeFails, KitchenInv, TypeOK
  <2>3. CASE OrderReplay
    BY <2>3 DEF OrderReplay, KitchenInv, TypeOK
  <2>4. CASE \E t \in KitchenStatus : OrderConsumerDies(t)
    BY <2>4 DEF OrderConsumerDies
  <2> QED BY <2>1, <2>2, <2>3, <2>4
<1> QED BY <1>1, SoleKept DEF kitchenSide, SoleInv

LEMMA SoleStaff ==
  ASSUME KitchenInv, KitchenInv', SoleInv, KitchenViews
  PROVE  SoleInv'
<1>1. PICK w \in Staff, k \in Tickets, st \in KitchenStatus : StaffRead(w, k, st) \/ StaffSave(w)
  BY DEF KitchenViews
<1>2. dlq' = dlq /\ at'["consumer"] = at["consumer"] /\ at'["replay"] = at["replay"]
  BY <1>1, OrderKitchenAssumption
     DEF StaffRead, StaffSave, Begin, End, KitchenInv, TypeOK, Handlers
<1>3. \A i \in Tickets : ticket'[i].o = ticket[i].o
  <2>1. CASE StaffRead(w, k, st)
    BY <2>1 DEF StaffRead
  <2>2. CASE StaffSave(w)
    <3>1. PICK n \in DOMAIN at[w].seen :
            n \in Tickets /\ ticket[n].o = at[w].o /\ ticket'[n].o = at[w].o
            /\ \A i \in Tickets \ {n} : ticket'[i] = ticket[i]
      BY <2>2, StaffSaveFacts
    <3> QED BY <3>1
  <2> QED BY <1>1, <2>1, <2>2
<1> QED BY <1>2, <1>3, SoleKept DEF SoleInv

LEMMA SoleConsumer ==
  ASSUME KitchenInv, KitchenInv', SoleInv, KitchenConsumer \/ KitchenConsumerDies
  PROVE  SoleInv'
<1> DEFINE j == at["consumer"]
<1>1. ASSUME NEW t \in OrderTopics, KitchenRead(t) PROVE SoleInv'
  <2> DEFINE m == Head(log[t])
             x == JobOn(t, m.o, m.retry, TicketsOf(m.o))
  <2>1. Begin("consumer", x) /\ UNCHANGED <<ticket, dlq>>
    BY <1>1 DEF KitchenRead
  <2>2. at'["consumer"] = x /\ at'["replay"] = at["replay"]
    BY <2>1 DEF Begin, KitchenInv, TypeOK, Handlers
  <2>3. x.o = m.o /\ DOMAIN x.seen = TicketsOf(m.o)
    BY DEF JobOn
  <2> HIDE DEF x
  <2> QED BY <2>1, <2>2, <2>3 DEF SoleInv, OneTicketPerOrder, Idle, TicketsOf
<1>2. CASE KitchenConsume \/ KitchenConsumerDies
  <2>1. ~Idle("consumer") /\ Handle(j) /\ End("consumer") /\ UNCHANGED dlq
    BY <1>2 DEF KitchenConsume, KitchenConsumerDies
  <2>2. at'["consumer"] = NoVal /\ at'["replay"] = at["replay"] /\ "consumer" \in Handlers
    BY <2>1 DEF End, KitchenInv, TypeOK, Handlers
  <2>3. OneTicketPerOrder'
    BY <2>1, <2>2, HandleSole DEF SoleInv
  <2> QED BY <2>1, <2>2, <2>3 DEF SoleInv, Idle
<1>3. CASE KitchenConsumeFails
  <2>1. ~Idle("consumer") /\ End("consumer") /\ UNCHANGED ticket
        /\ (Hopeless(j) \/ "database" \in Faults)
    BY <1>3 DEF KitchenConsumeFails
  <2>2. at'["consumer"] = NoVal /\ at'["replay"] = at["replay"] /\ "consumer" \in Handlers
    BY <2>1 DEF End, KitchenInv, TypeOK, Handlers
  <2>3. ASSUME "database" \notin Faults, NEW i \in 1..Len(dlq'["kitchen"])
        PROVE  dlq'["kitchen"][i].topic = "cancelled"
    <3> DEFINE q == dlq["kitchen"]
               r == dlq'["kitchen"]
    <3>1. j.topic = "cancelled" /\ j.o \in Orders /\ j.topic \in Topics
      BY <2>1, <2>2, <2>3, JobFacts DEF Hopeless, KitchenInv
    <3>2. r = q \/ r = Append(q, [topic |-> j.topic, o |-> j.o])
      BY <1>3 DEF KitchenConsumeFails, KitchenInv, TypeOK
    <3>3. q \in Seq(Letter) /\ \A n \in 1..Len(q) : q[n].topic = "cancelled"
      BY <2>3, InvLogs DEF SoleInv
    <3>4. r[i].topic = "cancelled"
      <4> HIDE DEF q, r, j
      <4>1. CASE r = Append(q, [topic |-> j.topic, o |-> j.o])
        <5>1. /\ Len(q) \in Nat /\ Len(r) = Len(q) + 1 /\ \A n \in 1..Len(q) : r[n] = q[n]
              /\ r[Len(q) + 1] = [topic |-> j.topic, o |-> j.o]
          BY <3>1, <3>3, <4>1, AppendLetter
        <5>2. i \in 1..Len(q) \/ i = Len(q) + 1
          BY <5>1 DEF r
        <5> QED BY <3>1, <3>3, <5>1, <5>2
      <4>2. CASE r = q
        BY <3>3, <4>2 DEF r
      <4> QED BY <3>2, <4>1, <4>2
    <3> QED BY <3>4
  <2> QED BY <2>1, <2>2, <2>3, SoleKept
<1> QED BY <1>1, <1>2, <1>3 DEF KitchenConsumer

LEMMA SoleReplay ==
  ASSUME ConsumerAlone, KitchenInv, KitchenInv', SoleInv,
         ReplayRead \/ ReplayConsume \/ ReplayFails \/ ReplayEnds
  PROVE  SoleInv'
<1> DEFINE j == at["replay"]
<1>1. CASE ReplayRead
  <2> DEFINE m == dlq["kitchen"][pos + 1]
             x == JobOn(m.topic, m.o, 0, TicketsOf(m.o))
  <2>1. /\ Begin("replay", x) /\ UNCHANGED <<ticket, dlq>>
        /\ "replay" \in Sources /\ pos < Len(dlq["kitchen"])
    BY <1>1 DEF ReplayRead
  <2>2. at'["replay"] = x /\ at'["consumer"] = at["consumer"] /\ x.topic = m.topic
    BY <2>1 DEF Begin, KitchenInv, TypeOK, Handlers, JobOn
  <2>3. pos + 1 \in 1..Len(dlq["kitchen"])
    BY <2>1, InvLogs DEF KitchenInv, TypeOK
  <2>4. m.topic = "cancelled"
    BY <2>1, <2>3 DEF SoleInv, ConsumerAlone
  <2> HIDE DEF x, m
  <2> QED BY <2>1, <2>2, <2>4 DEF SoleInv, OneTicketPerOrder, Idle, TicketsOf
<1>2. CASE ReplayConsume
  <2>1. ~Idle("replay") /\ Handle(j) /\ End("replay")
    BY <1>2 DEF ReplayConsume
  <2>2. at'["replay"] = NoVal /\ at'["consumer"] = at["consumer"] /\ "replay" \in Handlers
    BY <2>1 DEF End, KitchenInv, TypeOK, Handlers
  <2>3. j.topic = "cancelled"
    BY <2>1 DEF SoleInv
  <2>4. \A k \in Tickets : ticket'[k].o = ticket[k].o
    <3>1. \A k \in Tickets :
            \/ ticket'[k] = ticket[k] \/ j.topic = "placed"
            \/ ticket[k].o = j.o /\ ticket'[k] = [o |-> j.o, status |-> "CANCELLED"]
      BY <2>1, <2>2, HandleFacts
    <3> QED BY <2>3, <3>1
  <2>5. "database" \notin Faults =>
          \A i \in 1..Len(dlq'["kitchen"]) : dlq'["kitchen"][i].topic = "cancelled"
    BY <1>2, LettersLeft DEF SoleInv
  <2> QED BY <2>2, <2>4, <2>5, SoleKept
<1>3. CASE ReplayFails \/ ReplayEnds
  <2>1. UNCHANGED <<ticket, dlq>> /\ (at' = at \/ End("replay"))
    BY <1>3 DEF ReplayFails, ReplayEnds
  <2>2. at'["consumer"] = at["consumer"] /\ at'["replay"] \in {at["replay"], NoVal}
    BY <2>1 DEF End, KitchenInv, TypeOK, Handlers
  <2> QED BY <2>1, <2>2, SoleKept DEF SoleInv
<1> QED BY <1>1, <1>2, <1>3

LEMMA SoleOthers ==
  ASSUME KitchenInv, KitchenInv', SoleInv, OthersRefused
  PROVE  SoleInv'
<1>1. UNCHANGED <<ticket, at>> /\ dlq'["kitchen"] = dlq["kitchen"]
  BY OthersFacts DEF kitchenSide
<1> QED BY <1>1 DEF SoleInv, OneTicketPerOrder, Idle, TicketsOf

LEMMA SoleNext == ConsumerAlone /\ KitchenInv /\ SoleInv /\ [Next]_vars => SoleInv'
<1> SUFFICES ASSUME ConsumerAlone, KitchenInv, SoleInv, [Next]_vars PROVE SoleInv'
  OBVIOUS
<1>1. KitchenInv'
  BY KitchenNext
<1>2. CASE UNCHANGED vars
  BY <1>2 DEF vars, SoleInv, OneTicketPerOrder, Idle, TicketsOf
<1>3. CASE OrderViews \/ OrderConsumer \/ OrderReplay
  BY <1>1, <1>3, SoleOrderSide
<1>4. CASE KitchenViews
  BY <1>1, <1>4, SoleStaff
<1>5. CASE KitchenConsumer
  BY <1>1, <1>5, SoleConsumer
<1>6. CASE Deaths
  BY <1>1, <1>6, SoleOrderSide, SoleConsumer DEF Deaths
<1>7. CASE Replays
  BY <1>1, <1>7, SoleOrderSide, SoleReplay DEF Replays
<1>8. CASE OthersRefused
  BY <1>1, <1>8, SoleOthers
<1> QED BY <1>2, <1>3, <1>4, <1>5, <1>6, <1>7, <1>8 DEF Next

LEMMA SoleInit == Init => SoleInv
  BY DEF Init, SoleInv, OneTicketPerOrder, Idle, Handlers

\* An order gets one ticket, however often its placement is announced,
\* delivered and retried, unless placements reach the dead letter queue and
\* their replay works next to the consumer.
THEOREM OneTicket ==
  ASSUME ConsumerAlone
  PROVE  Spec => []OneTicketPerOrder
<1>1. SoleInv => OneTicketPerOrder
  BY DEF SoleInv
<1>2. KitchenInv /\ SoleInv /\ [Next]_vars => (KitchenInv /\ SoleInv)'
  BY KitchenNext, SoleNext
<1> QED BY <1>1, <1>2, KitchenInit, SoleInit, PTL DEF Spec
------------------------------------------------------------------------------
(* An order is not ahead of its ticket *)

Cooking == {"PREPARING", "READY"}

\* Nobody tells more than was told, and tickets do not fall back.
LEMMA LeadKept ==
  ASSUME KitchenInv, LeadInv,
         \A o \in Orders, st \in Cooking : Told(o, st)' => Told(o, st),
         \A k \in Tickets, st \in Cooking :
           ticket[k].o # NoVal /\ Past(k, st) => ticket'[k].o = ticket[k].o /\ Past(k, st)'
  PROVE  LeadInv'
<1> SUFFICES ASSUME NEW o \in Orders, NEW st \in Cooking, Told(o, st)'
             PROVE  \E k \in TicketsOf(o)' : Past(k, st)'
  BY DEF LeadInv, Cooking
<1>1. PICK k \in TicketsOf(o) : Past(k, st)
  BY DEF LeadInv, Cooking
<1>2. k \in Tickets /\ ticket[k].o = o /\ o # NoVal
  BY <1>1, OrderKitchenAssumption DEF TicketsOf
<1>3. k \in TicketsOf(o)' /\ Past(k, st)'
  BY <1>1, <1>2 DEF TicketsOf
<1> QED BY <1>3

\* A step of the order service leaves the tickets and their handlers alone.
LEMMA LeadOrderSide ==
  ASSUME KitchenInv, LeadInv, UNCHANGED kitchenSide,
         \A o \in Orders, st \in Cooking : Told(o, st)' => Told(o, st)
  PROVE  LeadInv'
<1>1. \A k \in Tickets, st \in Cooking : Past(k, st) => Past(k, st)'
  BY DEF kitchenSide, Past, Idle
<1> QED BY <1>1, LeadKept DEF kitchenSide

\* What an announcement or the answer to a cancellation adds tells nothing.
LEMMA ToldOrders ==
  ASSUME KitchenInv, NEW o \in Orders, NEW st \in Statuses, st \notin Cooking,
         order' = [order EXCEPT ![o] = st] \/ UNCHANGED order, UNCHANGED dlq,
         \A u \in Cooking, q \in Orders : Has(log', u, q) => Has(log, u, q)
  PROVE  \A q \in Orders, u \in Cooking : Told(q, u)' => Told(q, u)
<1>1. order \in [Orders -> Statuses \cup {"NONE"}]
  BY DEF KitchenInv, TypeOK
<1>2. \A q \in Orders, u \in Cooking : order'[q] = u => order[q] = u
  BY <1>1
<1> QED BY <1>2 DEF Told

LEMMA LeadViews ==
  ASSUME OneCook, KitchenInv, LeadInv, OrderViews
  PROVE  LeadInv'
<1>1. log \in Logs /\ Cooking \subseteq KitchenStatus
  BY InvLogs DEF Cooking, KitchenStatus
<1>2. \A u \in Cooking : u \in Topics /\ u # "placed" /\ u # "cancelled"
  BY TopicFacts DEF Cooking, KitchenStatus
<1>3. PICK o \in Orders :
        \/ \E h \in Sources : CreateOrder(o, h)
        \/ \E st \in Statuses : AdminUpdate(o, st)
        \/ CancelOrder(o)
        \/ \E w \in Waiters : AcceptPublish(w, o) \/ AcceptSave(w)
  BY DEF OrderViews
<1>4. ASSUME NEW q \in Orders, NEW st \in Statuses, st \notin Cooking,
             order' = [order EXCEPT ![q] = st], log' \in {log, Announce(log, st, q)},
             UNCHANGED <<dlq, kitchenSide>>
      PROVE  LeadInv'
  <2>1. \A u \in Cooking, p \in Orders : Has(log', u, p) => Has(log, u, p)
    BY <1>1, <1>4, AnnounceLog
  <2> QED BY <1>4, <2>1, ToldOrders, LeadOrderSide
<1>5. ASSUME NEW h \in Sources, CreateOrder(o, h) PROVE LeadInv'
  <2> DEFINE st == IF h = "waiter" THEN "ACCEPTED" ELSE "CREATED"
  <2>1. /\ order' = [order EXCEPT ![o] = st] /\ log' \in {log, Announce(log, st, o)}
        /\ UNCHANGED <<dlq, kitchenSide>>
    BY <1>5 DEF CreateOrder, ViewPublishes
  <2>2. st \in Statuses /\ st \notin Cooking
    BY DEF Statuses, ActiveStatus, Cooking
  <2> HIDE DEF st
  <2> QED BY <1>4, <2>1, <2>2
<1>6. ASSUME NEW st \in Statuses, AdminUpdate(o, st) PROVE LeadInv'
  <2>1. /\ order' = [order EXCEPT ![o] = st] /\ log' \in {log, Announce(log, st, o)}
        /\ UNCHANGED <<dlq, kitchenSide>>
    BY <1>6 DEF AdminUpdate, ViewPublishes
  <2>2. st \notin Cooking
    BY <1>6 DEF AdminUpdate, OneCook, Cooking
  <2> QED BY <1>4, <2>1, <2>2
<1>7. CASE CancelOrder(o)
  <2> DEFINE L == Send(log, "cancelled", o)
             M == Send(L, "cancelled", o)
  <2>1. /\ order' = [order EXCEPT ![o] = "CANCELLED"] /\ log' \in {log, M}
        /\ UNCHANGED <<dlq, kitchenSide>>
    BY <1>7 DEF CancelOrder, ViewPublishes
  <2>2. L \in Logs /\ \A u \in Cooking, q \in Orders : Has(L, u, q) => Has(log, u, q)
    BY <1>1, <1>2, SendLog, TopicFacts
  <2> HIDE DEF L
  <2>3. \A u \in Cooking, q \in Orders : Has(M, u, q) => Has(L, u, q)
    BY <1>2, <2>2, SendLog, TopicFacts
  <2> HIDE DEF M
  <2>4. "CANCELLED" \in Statuses /\ "CANCELLED" \notin Cooking
    BY TopicFacts DEF Cooking
  <2> QED BY <2>1, <2>2, <2>3, <2>4, ToldOrders, LeadOrderSide
<1>8. ASSUME NEW w \in Waiters, AcceptPublish(w, o) PROVE LeadInv'
  <2>1. \A u \in Cooking, q \in Orders : Has(log', u, q) => Has(log, u, q)
    BY <1>1, <1>2, <1>8, SendLog, TopicFacts DEF AcceptPublish
  <2>2. \A q \in Orders, u \in Cooking : Told(q, u)' => Told(q, u)
    BY <1>8, <2>1 DEF Told, AcceptPublish
  <2> QED BY <1>8, <2>2, LeadOrderSide DEF AcceptPublish
<1>9. ASSUME NEW w \in Waiters, AcceptSave(w) PROVE LeadInv'
  <2>1. accepting[w] \in Orders /\ "ACCEPTED" \in Statuses /\ "ACCEPTED" \notin Cooking
    BY <1>9 DEF AcceptSave, KitchenInv, TypeOK, Statuses, ActiveStatus, Cooking
  <2>2. order' = [order EXCEPT ![accepting[w]] = "ACCEPTED"] /\ UNCHANGED <<log, dlq, kitchenSide>>
    BY <1>9 DEF AcceptSave
  <2> QED BY <1>4, <2>1, <2>2
<1> QED BY <1>3, <1>5, <1>6, <1>7, <1>8, <1>9

\* What process_event publishes is for the kitchen.
LEMMA MoveHas ==
  ASSUME NEW L \in Logs, NEW o \in Orders, NEW t, Move(L, o, t)
  PROVE  \A u \in KitchenStatus, q \in Orders : Has(log', u, q) <=> Has(L, u, q)
<1>1. log' \in {L, Announce(L, t, o)}
  BY DEF Move
<1> QED BY <1>1, AnnounceLog

\* An event that is accepted has told before what the order now says.
LEMMA LeadMove ==
  ASSUME KitchenInv, LeadInv, NEW t \in KitchenStatus, NEW o \in Orders, Told(o, t),
         order' = [order EXCEPT ![o] = t], UNCHANGED kitchenSide,
         \A u \in KitchenStatus, q \in Orders : Has(log', u, q) => Has(log, u, q),
         \A u \in KitchenStatus, q \in Orders :
           HasLetter(dlq'["order"], u, q) => HasLetter(dlq["order"], u, q)
  PROVE  LeadInv'
<1>1. order \in [Orders -> Statuses \cup {"NONE"}] /\ Cooking \subseteq KitchenStatus
  BY DEF KitchenInv, TypeOK, Cooking, KitchenStatus
<1>2. \A q \in Orders : order'[q] = IF q = o THEN t ELSE order[q]
  BY <1>1
<1>3. \A q \in Orders, u \in Cooking : Told(q, u)' => Told(q, u)
  BY <1>1, <1>2 DEF Told
<1> QED BY <1>3, LeadOrderSide

\* A topic without its head.
LEMMA DropHas ==
  ASSUME KitchenInv, NEW t \in Topics, log[t] # <<>>
  PROVE  /\ Drop(log, t) \in Logs /\ Head(log[t]).o \in Orders
         /\ Has(log, t, Head(log[t]).o)
         /\ \A u \in Topics, q \in Orders : Has(Drop(log, t), u, q) => Has(log, u, q)
         /\ \A u \in Topics, q \in Orders :
              Has(log, u, q) => Has(Drop(log, t), u, q) \/ (u = t /\ q = Head(log[t]).o)
  BY InvLogs, DropLog DEF Message

\* A queue without its head.
LEMMA TailLetters ==
  ASSUME NEW s \in Seq(Letter), s # <<>>
  PROVE  /\ HasLetter(s, Head(s).topic, Head(s).o) /\ Head(s) \in Letter
         /\ \A u, q : HasLetter(Tail(s), u, q) => HasLetter(s, u, q)
<1>1. /\ Head(s) \in Letter /\ Head(s) = s[1] /\ Len(s) \in Nat /\ Len(s) > 0
      /\ Len(Tail(s)) = Len(s) - 1 /\ \A i \in 1..Len(s) - 1 : Tail(s)[i] = s[i + 1]
  BY TailFacts
<1>2. 1 \in 1..Len(s) /\ Head(s) = [topic |-> Head(s).topic, o |-> Head(s).o]
  BY <1>1 DEF Letter
<1>3. \A i \in 1..Len(Tail(s)) : i + 1 \in 1..Len(s) /\ Tail(s)[i] = s[i + 1]
  BY <1>1
<1> QED BY <1>1, <1>2, <1>3 DEF HasLetter

LEMMA LeadConsumer ==
  ASSUME KitchenInv, LeadInv, NEW t \in KitchenStatus, OrderConsume(t) \/ OrderConsumerDies(t)
  PROVE  LeadInv'
<1> DEFINE o == Head(log[t]).o
<1>1. log[t] # <<>> /\ t \in Topics /\ UNCHANGED <<dlq, kitchenSide>>
  BY TopicFacts DEF OrderConsume, OrderConsumerDies
<1>2. /\ Drop(log, t) \in Logs /\ o \in Orders /\ Has(log, t, o) /\ log \in Logs
      /\ \A u \in Topics, q \in Orders : Has(Drop(log, t), u, q) => Has(log, u, q)
  BY <1>1, DropHas, InvLogs
<1>3. /\ order' = [order EXCEPT ![o] = t]
      /\ \/ Move(Drop(log, t), o, t) \/ Move(log, o, t) \/ UNCHANGED log
  BY DEF OrderConsume, OrderConsumerDies, Move
<1> HIDE DEF o
<1>4. \A u \in KitchenStatus, q \in Orders : Has(log', u, q) => Has(log, u, q)
  BY <1>2, <1>3, MoveHas, TopicFacts
<1> QED BY <1>1, <1>2, <1>3, <1>4, LeadMove DEF Told

LEMMA LeadReplays ==
  ASSUME KitchenInv, LeadInv, OrderReplay
  PROVE  LeadInv'
<1> DEFINE q == dlq["order"]
           m == Head(q)
<1>1. /\ q \in Seq(Letter) /\ q # <<>> /\ UNCHANGED kitchenSide
      /\ m.o \in Orders /\ Move(log, m.o, m.topic) /\ log \in Logs /\ dlq'["order"] = Tail(q)
  BY InvLogs DEF OrderReplay, KitchenInv, TypeOK
<1>2. /\ HasLetter(q, m.topic, m.o) /\ m \in Letter
      /\ \A u, p : HasLetter(Tail(q), u, p) => HasLetter(q, u, p)
  <2> HIDE DEF q
  <2> QED BY <1>1, TailLetters
<1>3. m.topic \in KitchenStatus /\ m.o \in Orders /\ Told(m.o, m.topic)
  <2> HIDE DEF m
  <2>1. PICK i \in 1..Len(q) : q[i] = [topic |-> m.topic, o |-> m.o]
    BY <1>2 DEF HasLetter
  <2>2. m.topic \in KitchenStatus
    BY <2>1 DEF KitchenInv, LettersSorted
  <2> QED BY <1>1, <1>2, <2>2 DEF Told
<1> HIDE DEF m
<1>4. \A u \in KitchenStatus, p \in Orders : Has(log', u, p) => Has(log, u, p)
  BY <1>1, <1>3, MoveHas
<1>5. order' = [order EXCEPT ![m.o] = m.topic]
  BY <1>1 DEF Move
<1> QED BY <1>1, <1>2, <1>3, <1>4, <1>5, LeadMove

\* An event that fails is in its topic again, or in the dead letter queue.
LEMMA FailsHas ==
  ASSUME KitchenInv, NEW t \in KitchenStatus, OrderConsumeFails(t)
  PROVE  \A u \in KitchenStatus, q \in Orders :
           Has(log', u, q) \/ HasLetter(dlq'["order"], u, q) =>
             Has(log, u, q) \/ HasLetter(dlq["order"], u, q)
<1> DEFINE m == Head(log[t])
<1>1. log[t] # <<>> /\ t \in Topics
  BY TopicFacts DEF OrderConsumeFails
<1>2. /\ Drop(log, t) \in Logs /\ m \in Message /\ m.o \in Orders /\ Has(log, t, m.o)
      /\ \A u \in Topics, q \in Orders : Has(Drop(log, t), u, q) => Has(log, u, q)
  BY <1>1, DropHas, HeadOfKitchen
<1>3. \/ /\ dlq' = [dlq EXCEPT !["order"] = Append(@, [topic |-> t, o |-> m.o])]
         /\ log' = Drop(log, t)
      \/ m.retry < MaxRetries /\ log' = Again(Drop(log, t), t, m) /\ UNCHANGED dlq
  BY DEF OrderConsumeFails
<1> HIDE DEF m
<1>4. CASE /\ dlq' = [dlq EXCEPT !["order"] = Append(@, [topic |-> t, o |-> m.o])]
           /\ log' = Drop(log, t)
  <2> DEFINE e == [topic |-> t, o |-> m.o]
             s == dlq["order"]
             r == Append(s, e)
  <2>1. dlq'["order"] = r /\ s \in Seq(Letter) /\ m.o \in Orders
    BY <1>2, <1>4, InvLogs DEF KitchenInv, TypeOK
  <2>2. \A u, q : HasLetter(r, u, q) <=> HasLetter(s, u, q) \/ (u = t /\ q = m.o)
    BY <1>1, <2>1, LetterAdded
  <2>3. \A u \in KitchenStatus, q \in Orders :
          HasLetter(dlq'["order"], u, q) => HasLetter(s, u, q) \/ (u = t /\ q = m.o)
    BY <2>1, <2>2
  <2>4. \A u \in KitchenStatus, q \in Orders : Has(log', u, q) => Has(log, u, q)
    BY <1>2, <1>4, TopicFacts
  <2> QED BY <1>2, <2>3, <2>4
<1>5. CASE m.retry < MaxRetries /\ log' = Again(Drop(log, t), t, m) /\ UNCHANGED dlq
  <2>1. \A u, q : u \in Topics =>
          (Has(log', u, q) <=> Has(Drop(log, t), u, q) \/ (u = t /\ q = m.o))
    BY <1>1, <1>2, <1>5, AgainLog
  <2> QED BY <1>2, <1>5, <2>1, TopicFacts
<1> QED BY <1>3, <1>4, <1>5

LEMMA LeadFails ==
  ASSUME KitchenInv, LeadInv, NEW t \in KitchenStatus, OrderConsumeFails(t)
  PROVE  LeadInv'
<1>1. UNCHANGED <<order, kitchenSide>> /\ Cooking \subseteq KitchenStatus
  BY DEF OrderConsumeFails, orderSide, Cooking, KitchenStatus
<1>2. \A q \in Orders, u \in Cooking : Told(q, u)' => Told(q, u)
  BY <1>1, FailsHas DEF Told
<1> QED BY <1>1, <1>2, LeadOrderSide

\* A view that goes by a ticket that is past a status does not take it back.
LEMMA LeadStaff ==
  ASSUME OneCook, KitchenInv, LeadInv, KitchenViews
  PROVE  LeadInv'
<1>1. PICK w \in Staff, k \in Tickets, st \in KitchenStatus : StaffRead(w, k, st) \/ StaffSave(w)
  BY DEF KitchenViews
<1>2. w \in Handlers /\ \A v \in Staff : v = w
  BY DEF Handlers, OneCook
<1>3. CASE StaffRead(w, k, st)
  <2>1. UNCHANGED <<order, ticket, log, dlq>> /\ ticket[k].status \in Required(st)
        /\ Begin(w, JobOn(st, ticket[k].o, 0, {k}))
    BY <1>3 DEF StaffRead, orderSide
  <2>2. at'[w].topic = st /\ DOMAIN at'[w].seen = {k}
    BY <1>2, <2>1 DEF Begin, KitchenInv, TypeOK, JobOn
  <2>3. ASSUME NEW i \in Tickets, NEW u \in Cooking, Past(i, u) PROVE Past(i, u)'
    <3>1. ticket'[i].status \in After(u)
      BY <2>1, <2>3 DEF Past
    <3>2. i = k => st \in After(u)
      BY <2>1, <2>3 DEF Past, After, Required, Cooking, KitchenStatus
    <3> QED BY <1>2, <2>2, <3>1, <3>2 DEF Past
  <2>4. \A o \in Orders, u \in Cooking : Told(o, u)' => Told(o, u)
    BY <2>1 DEF Told
  <2> QED BY <2>1, <2>3, <2>4, LeadKept
<1>4. CASE StaffSave(w)
  <2> DEFINE j == at[w]
  <2>1. /\ ~Idle(w) /\ j.topic \in KitchenStatus /\ j.o \in Orders
        /\ log' = Send(log, j.topic, j.o) \/ (Dies("request") /\ UNCHANGED log)
    BY <1>4, StaffSaveFacts
  <2>2. PICK n \in DOMAIN j.seen :
          /\ n \in Tickets /\ ticket[n].o = j.o /\ ticket'[n].o = j.o
          /\ j.topic = "CANCELLED" \/ ticket'[n].status = j.topic
          /\ ticket'[n].status \in {ticket[n].status, j.topic}
          /\ \A i \in Tickets \ {n} : ticket'[i] = ticket[i]
    BY <1>4, StaffSaveFacts
  <2>3. UNCHANGED <<order, dlq>> /\ at'[w] = NoVal
    BY <1>2, <1>4 DEF StaffSave, End, KitchenInv, TypeOK, orderSide
  <2>4. \A v \in Staff : Idle(v)'
    BY <1>2, <2>3 DEF Idle
  <2>5. ASSUME NEW i \in Tickets, NEW u \in Cooking, Past(i, u)
        PROVE  ticket'[i].o = ticket[i].o /\ Past(i, u)'
    <3>1. i = n => j.topic \in After(u)
      BY <2>1, <2>2, <2>5 DEF Past
    <3>2. ticket'[i].status \in After(u) /\ ticket'[i].o = ticket[i].o
      BY <2>2, <2>5, <3>1 DEF Past
    <3> QED BY <2>4, <3>2 DEF Past
  <2>6. \A u, q : u \in Topics => (Has(log', u, q) => Has(log, u, q) \/ (u = j.topic /\ q = j.o))
    <3> HIDE DEF j
    <3> QED BY <2>1, InvLogs, SendLog, TopicFacts
  <2> SUFFICES ASSUME NEW o \in Orders, NEW u \in Cooking, Told(o, u)'
               PROVE  \E i \in TicketsOf(o)' : Past(i, u)'
    BY DEF LeadInv, Cooking
  <2>7. CASE Told(o, u)
    <3>1. PICK i \in TicketsOf(o) : Past(i, u)
      BY <2>7 DEF LeadInv, Cooking
    <3> QED BY <2>5, <3>1 DEF TicketsOf
  <2>8. CASE u = j.topic /\ o = j.o
    <3>1. ticket'[n].status \in After(u)
      BY <2>2, <2>8 DEF After, Cooking
    <3>2. n \in TicketsOf(o)' /\ Past(n, u)'
      BY <2>2, <2>4, <2>8, <3>1 DEF TicketsOf, Past
    <3> QED BY <3>2
  <2>9. Told(o, u) \/ (u = j.topic /\ o = j.o)
    <3>1. u \in Topics
      BY TopicFacts DEF Cooking, KitchenStatus
    <3> QED BY <2>3, <2>6, <3>1 DEF Told
  <2> QED BY <2>7, <2>8, <2>9
<1> QED BY <1>1, <1>3, <1>4

\* The kitchen's consumer and its replay take orders of the order service
\* only: they make tickets or cancel them.
LEMMA LeadMessages ==
  ASSUME KitchenInv, LeadInv, NEW h \in {"consumer", "replay"},
         \A w \in Staff : at'[w] = at[w],
         UNCHANGED ticket \/ (~Idle(h) /\ Handle(at[h])), UNCHANGED order,
         \A u \in Cooking, q \in Orders : Has(log', u, q) => Has(log, u, q),
         dlq'["order"] = dlq["order"]
  PROVE  LeadInv'
<1>1. \A o \in Orders, st \in Cooking : Told(o, st)' => Told(o, st)
  BY DEF Told
<1>2. ASSUME NEW k \in Tickets, NEW st \in Cooking, ticket[k].o # NoVal, Past(k, st)
      PROVE  ticket'[k].o = ticket[k].o /\ Past(k, st)'
  <2>1. ticket'[k].o = ticket[k].o /\ ticket'[k].status \in {ticket[k].status, "CANCELLED"}
    <3>1. CASE ~Idle(h) /\ Handle(at[h])
      <4>1. \/ ticket'[k] = ticket[k] \/ ticket[k] = NoTicket
            \/ ticket[k].o = at[h].o /\ ticket'[k] = [o |-> at[h].o, status |-> "CANCELLED"]
        BY <3>1, HandleFacts DEF Handlers
      <4> QED BY <1>2, <4>1 DEF NoTicket
    <3> QED BY <3>1
  <2> QED BY <1>2, <2>1 DEF Past, After, Idle
<1> QED BY <1>1, <1>2, LeadKept

LEMMA LeadKitchen ==
  ASSUME KitchenInv, LeadInv, KitchenConsumer \/ KitchenConsumerDies
  PROVE  LeadInv'
<1> DEFINE j == at["consumer"]
<1>1. \A w \in Staff : at'[w] = at[w]
  BY OrderKitchenAssumption DEF KitchenConsumer, KitchenRead, KitchenConsume, KitchenConsumeFails,
     KitchenConsumerDies, Begin, End, KitchenInv, TypeOK, Handlers
<1>2. order' = order /\ dlq'["order"] = dlq["order"]
  BY DEF KitchenConsumer, KitchenRead, KitchenConsume, KitchenConsumeFails,
     KitchenConsumerDies, orderSide, KitchenInv, TypeOK
<1>3. log \in Logs /\ \A u \in Cooking : u \in Topics /\ u \notin OrderTopics /\ u # "CANCELLED"
  BY InvLogs, TopicFacts DEF Cooking, KitchenStatus
<1>4. ASSUME NEW t \in OrderTopics, KitchenRead(t) PROVE LeadInv'
  BY <1>1, <1>2, <1>4, LeadMessages DEF KitchenRead
<1>5. ASSUME ~Idle("consumer")
      PROVE  /\ j.topic \in OrderTopics /\ j.topic \in Topics /\ j.o \in Orders
             /\ j.retry \in 0..MaxRetries /\ Drop(log, j.topic) \in Logs
             /\ \A u \in Topics, q \in Orders : Has(Drop(log, j.topic), u, q) => Has(log, u, q)
  <2>1. j.topic \in OrderTopics /\ j.topic \in Topics /\ log[j.topic] # <<>>
    BY <1>5, TopicFacts DEF KitchenInv, ConsumerReads
  <2>2. j.o \in Orders /\ j.retry \in 0..MaxRetries
    BY <1>5, JobFacts DEF KitchenInv, Handlers
  <2> QED BY <2>1, <2>2, DropHas
<1> HIDE DEF j
<1>6. CASE KitchenConsume \/ KitchenConsumerDies
  <2>1. /\ ~Idle("consumer") /\ Handle(j)
        /\ log' \in {log, Answer(log, j), Answer(Drop(log, j.topic), j)}
    BY <1>6 DEF KitchenConsume, KitchenConsumerDies, j
  <2>2. \A u \in Cooking, q \in Orders : Has(log', u, q) => Has(log, u, q)
    BY <1>3, <1>5, <2>1, AnswerLog
  <2> QED BY <1>1, <1>2, <2>1, <2>2, LeadMessages DEF j
<1>7. CASE KitchenConsumeFails
  <2>1. /\ ~Idle("consumer") /\ UNCHANGED ticket
        /\ \/ log' = Drop(log, j.topic)
           \/ /\ j.retry < MaxRetries
              /\ log' = Again(Drop(log, j.topic), j.topic, [o |-> j.o, retry |-> j.retry])
    BY <1>7 DEF KitchenConsumeFails, j
  <2>2. [o |-> j.o, retry |-> j.retry] \in Message
    BY <1>5, <2>1 DEF Message
  <2>3. \A u \in Cooking, q \in Orders : Has(log', u, q) => Has(log, u, q)
    BY <1>3, <1>5, <2>1, <2>2, AgainLog
  <2> QED BY <1>1, <1>2, <2>1, <2>3, LeadMessages
<1> QED BY <1>4, <1>6, <1>7 DEF KitchenConsumer

LEMMA LeadReplay ==
  ASSUME KitchenInv, LeadInv, ReplayRead \/ ReplayConsume \/ ReplayFails \/ ReplayEnds
  PROVE  LeadInv'
<1> DEFINE j == at["replay"]
<1>1. \A w \in Staff : at'[w] = at[w]
  BY OrderKitchenAssumption DEF ReplayRead, ReplayConsume, ReplayFails, ReplayEnds,
     Begin, End, KitchenInv, TypeOK, Handlers
<1>2. order' = order /\ dlq'["order"] = dlq["order"]
  BY LettersLeft DEF ReplayRead, ReplayConsume, ReplayFails, ReplayEnds, orderSide
<1>3. CASE ReplayRead \/ ReplayFails \/ ReplayEnds
  <2>1. UNCHANGED <<ticket, log>>
    BY <1>3 DEF ReplayRead, ReplayFails, ReplayEnds
  <2>2. \A u \in Cooking, q \in Orders : Has(log', u, q) => Has(log, u, q)
    BY <2>1
  <2> QED BY <1>1, <1>2, <2>1, <2>2, LeadMessages
<1>4. CASE ReplayConsume
  <2>1. ~Idle("replay") /\ Handle(j) /\ log' = Answer(log, j)
    BY <1>4 DEF ReplayConsume
  <2>2. log \in Logs /\ j.o \in Orders
    BY <2>1, InvLogs, JobFacts DEF KitchenInv, Handlers
  <2>3. \A u \in Cooking : u \in Topics /\ u # "CANCELLED"
    BY TopicFacts DEF Cooking, KitchenStatus
  <2>4. \A u \in Cooking, q \in Orders : Has(log', u, q) => Has(log, u, q)
    <3> HIDE DEF j
    <3> QED BY <2>1, <2>2, <2>3, AnswerLog
  <2> QED BY <1>1, <1>2, <2>1, <2>4, LeadMessages
<1> QED BY <1>3, <1>4

LEMMA LeadOthers ==
  ASSUME KitchenInv, LeadInv, OthersRefused
  PROVE  LeadInv'
<1>1. UNCHANGED <<order, kitchenSide>> /\ log' = log /\ Cooking \subseteq KitchenStatus
  BY OthersFacts DEF orderSide, Cooking, KitchenStatus
<1>2. \A q \in Orders, u \in Cooking : Told(q, u)' => Told(q, u)
  BY <1>1, OthersFacts DEF Told
<1> QED BY <1>1, <1>2, LeadOrderSide

LEMMA LeadNext == OneCook /\ KitchenInv /\ LeadInv /\ [Next]_vars => LeadInv'
<1> SUFFICES ASSUME OneCook, KitchenInv, LeadInv, [Next]_vars PROVE LeadInv'
  OBVIOUS
<1>1. CASE UNCHANGED vars
  BY <1>1 DEF vars, LeadInv, Told, Past, Idle, TicketsOf
<1>2. CASE OrderViews
  BY <1>2, LeadViews
<1>3. CASE OrderConsumer
  BY <1>3, LeadConsumer, LeadFails DEF OrderConsumer
<1>4. CASE KitchenViews
  BY <1>4, LeadStaff
<1>5. CASE KitchenConsumer
  BY <1>5, LeadKitchen
<1>6. CASE Deaths
  BY <1>6, LeadConsumer, LeadKitchen DEF Deaths
<1>7. CASE Replays
  BY <1>7, LeadReplays, LeadReplay DEF Replays
<1>8. CASE OthersRefused
  BY <1>8, LeadOthers
<1> QED BY <1>1, <1>2, <1>3, <1>4, <1>5, <1>6, <1>7, <1>8 DEF Next

LEMMA LeadInit == Init => LeadInv
<1> SUFFICES ASSUME Init, NEW o \in Orders, NEW st \in Cooking PROVE ~Told(o, st)
  BY DEF LeadInv, Cooking
<1>1. order[o] = "NONE" /\ log[st] = <<>> /\ dlq["order"] = <<>>
  BY TopicFacts DEF Init, Cooking, KitchenStatus
<1> QED BY <1>1 DEF Told, Has, HasLetter, Cooking

\* No order is said to be in preparation or ready before the kitchen has said
\* so of its ticket, whatever is lost, retried, replayed or overtaken, for any
\* number of orders and failures, as long as one view of the kitchen saves at
\* a time and administrators do not set these statuses themselves.
THEOREM KitchenLeads ==
  ASSUME OneCook
  PROVE  Spec => []OrderNotAheadOfTicket
<1>1. LeadInv => OrderNotAheadOfTicket
  <2> SUFFICES ASSUME LeadInv, NEW o \in Orders, order[o] \in {"PREPARING", "READY"}
               PROVE  \E k \in TicketsOf(o) :
                        ticket[k].status \in {order[o], "CANCELLED"} \cup
                                             (IF order[o] = "PREPARING" THEN {"READY"} ELSE {})
    BY DEF OrderNotAheadOfTicket
  <2>1. PICK k \in TicketsOf(o) : Past(k, order[o])
    BY DEF LeadInv, Told
  <2>2. ticket[k].status \in {order[o], "CANCELLED"} \cup
                             (IF order[o] = "PREPARING" THEN {"READY"} ELSE {})
    BY <2>1 DEF Past, After
  <2> QED BY <2>1, <2>2
<1>2. KitchenInv /\ LeadInv /\ [Next]_vars => (KitchenInv /\ LeadInv)'
  BY KitchenNext, LeadNext
<1> QED BY <1>1, <1>2, KitchenInit, LeadInit, PTL DEF Spec
------------------------------------------------------------------------------
(* Cancellations *)

\* The event that a ticket was cancelled is on its way.
Cancelling(o) == Has(log, "CANCELLED", o) \/ HasLetter(dlq["order"], "CANCELLED", o)

LEMMA CancelKept ==
  ASSUME KitchenInv, CancelInv, Grows,
         \A o \in Orders :
           /\ order'[o] = "CANCELLED" => order[o] = "CANCELLED" \/ Coming(o)' \/ Touched(o)'
           /\ Coming(o) => Coming(o)' \/ Touched(o)'
           /\ Cancelling(o)' => Cancelling(o) \/ Touched(o)'
  PROVE  CancelInv'
<1>1. ASSUME NEW o \in Orders, Touched(o) PROVE Touched(o)'
  <2>1. PICK k \in TicketsOf(o) : ticket[k].status # "RECEIVED"
    BY <1>1 DEF Touched
  <2>2. k \in Tickets /\ ticket[k].o = o /\ o # NoVal
    BY <2>1, OrderKitchenAssumption DEF TicketsOf
  <2>3. k \in TicketsOf(o)' /\ ticket'[k].status # "RECEIVED"
    BY <2>1, <2>2 DEF Grows, TicketsOf
  <2> QED BY <2>3 DEF Touched
<1> QED BY <1>1 DEF CancelInv, Cancelling

\* A step of the order service: an order is cancelled with a message, unless
\* its ticket is.
LEMMA CancelOrderSide ==
  ASSUME KitchenInv, CancelInv, UNCHANGED kitchenSide, dlq'["kitchen"] = dlq["kitchen"],
         \A o \in Orders :
           /\ order'[o] = "CANCELLED" => order[o] = "CANCELLED" \/ Coming(o)' \/ Touched(o)
           /\ Has(log, "cancelled", o) => Has(log', "cancelled", o)
           /\ Cancelling(o)' => Cancelling(o)
  PROVE  CancelInv'
<1>1. ticket' = ticket /\ Grows
  BY DEF kitchenSide, KitchenInv, TypeOK, Grows
<1>2. \A o \in Orders : Touched(o) => Touched(o)'
  BY <1>1 DEF Touched, TicketsOf
<1>3. \A o \in Orders : Coming(o) => Coming(o)'
  BY DEF Coming
<1> QED BY <1>1, <1>2, <1>3, CancelKept

LEMMA CancelViews ==
  ASSUME Calm, KitchenInv, CancelInv, OrderViews
  PROVE  CancelInv'
<1>1. log \in Logs /\ "cancelled" \in Topics /\ "CANCELLED" \in Topics /\ "placed" \in Topics
  BY InvLogs, TopicFacts
<1>2. PICK o \in Orders :
        \/ \E h \in Sources : CreateOrder(o, h)
        \/ \E st \in Statuses : AdminUpdate(o, st)
        \/ CancelOrder(o)
        \/ \E w \in Waiters : AcceptPublish(w, o) \/ AcceptSave(w)
  BY DEF OrderViews
<1>3. \A L : ViewPublishes(L) => log' = L
  BY DEF ViewPublishes, Dies, Calm
<1>4. order \in [Orders -> Statuses \cup {"NONE"}]
  BY DEF KitchenInv, TypeOK
<1>5. ASSUME NEW st, order' = [order EXCEPT ![o] = st], log' = Announce(log, st, o),
             UNCHANGED <<dlq, kitchenSide>>
      PROVE  CancelInv'
  <2>1. /\ \A q : Has(log', "CANCELLED", q) <=> Has(log, "CANCELLED", q)
        /\ \A q : Has(log, "cancelled", q) => Has(log', "cancelled", q)
        /\ st = "CANCELLED" => Has(log', "cancelled", o)
    BY <1>1, <1>5, AnnounceLog, TopicFacts
  <2>2. \A q \in Orders : order'[q] = "CANCELLED" => order[q] = "CANCELLED" \/ Coming(q)'
    BY <1>4, <1>5, <2>1 DEF Coming
  <2> QED BY <1>5, <2>1, <2>2, CancelOrderSide DEF Cancelling
<1>6. ASSUME NEW h \in Sources, CreateOrder(o, h) PROVE CancelInv'
  BY <1>3, <1>5, <1>6 DEF CreateOrder
<1>7. ASSUME NEW st \in Statuses, AdminUpdate(o, st) PROVE CancelInv'
  BY <1>3, <1>5, <1>7 DEF AdminUpdate
<1>8. CASE CancelOrder(o)
  <2> DEFINE L == Send(log, "cancelled", o)
  <2>1. /\ log' = Send(L, "cancelled", o) /\ order' = [order EXCEPT ![o] = "CANCELLED"]
        /\ UNCHANGED <<dlq, kitchenSide>>
    BY <1>3, <1>8 DEF CancelOrder
  <2>2. /\ L \in Logs
        /\ \A u, q : u \in Topics => (Has(L, u, q) <=> Has(log, u, q) \/ (u = "cancelled" /\ q = o))
    BY <1>1, SendLog
  <2> HIDE DEF L
  <2>3. \A u, q : u \in Topics => (Has(log', u, q) <=> Has(L, u, q) \/ (u = "cancelled" /\ q = o))
    BY <1>1, <2>1, <2>2, SendLog
  <2>4. \A q \in Orders : order'[q] = "CANCELLED" => order[q] = "CANCELLED" \/ Coming(q)'
    BY <1>1, <1>4, <2>1, <2>3 DEF Coming
  <2> QED BY <1>1, <2>1, <2>2, <2>3, <2>4, CancelOrderSide DEF Cancelling
<1>9. ASSUME NEW w \in Waiters, AcceptPublish(w, o) PROVE CancelInv'
  <2>1. /\ log' = Send(log, "placed", o) /\ UNCHANGED <<order, dlq, kitchenSide>>
    BY <1>9 DEF AcceptPublish
  <2>2. \A u, q : u \in Topics => (Has(log', u, q) <=> Has(log, u, q) \/ (u = "placed" /\ q = o))
    BY <1>1, <2>1, SendLog
  <2> QED BY <1>1, <2>1, <2>2, CancelOrderSide DEF Cancelling
<1>10. ASSUME NEW w \in Waiters, AcceptSave(w) PROVE CancelInv'
  <2>1. \A q \in Orders : order'[q] = "CANCELLED" => order[q] = "CANCELLED"
    BY <1>4, <1>10 DEF AcceptSave
  <2> QED BY <1>10, <2>1, CancelOrderSide DEF AcceptSave, Cancelling
<1> QED BY <1>2, <1>6, <1>7, <1>8, <1>9, <1>10

\* An accepted event cancels an order that is cancelled, or is announced.
LEMMA MoveCancels ==
  ASSUME KitchenInv, NEW L \in Logs, NEW o \in Orders, NEW t, Move(L, o, t)
  PROVE  \A q \in Orders :
           /\ order'[q] = "CANCELLED" => order[q] = "CANCELLED" \/ Has(log', "cancelled", q)
           /\ Has(L, "cancelled", q) => Has(log', "cancelled", q)
           /\ Has(log', "CANCELLED", q) => Has(L, "CANCELLED", q)
<1>1. /\ order' = [order EXCEPT ![o] = t]
      /\ log' = IF order[o] = t THEN L ELSE Announce(L, t, o)
  BY DEF Move
<1>2. order \in [Orders -> Statuses \cup {"NONE"}]
  BY DEF KitchenInv, TypeOK
<1>3. \A q \in Orders : order'[q] = IF q = o THEN t ELSE order[q]
  BY <1>1, <1>2
<1>4. /\ \A q : Has(Announce(L, t, o), "CANCELLED", q) <=> Has(L, "CANCELLED", q)
      /\ \A q : Has(L, "cancelled", q) => Has(Announce(L, t, o), "cancelled", q)
      /\ t = "CANCELLED" => Has(Announce(L, t, o), "cancelled", o)
  BY AnnounceLog, TopicFacts
<1> QED BY <1>1, <1>3, <1>4

LEMMA CancelConsumer ==
  ASSUME KitchenInv, CancelInv, NEW t \in KitchenStatus, OrderConsume(t) \/ OrderConsumerDies(t)
  PROVE  CancelInv'
<1> DEFINE o == Head(log[t]).o
<1>1. log[t] # <<>> /\ t \in Topics /\ UNCHANGED <<dlq, kitchenSide>>
  BY TopicFacts DEF OrderConsume, OrderConsumerDies
<1>2. /\ Drop(log, t) \in Logs /\ o \in Orders /\ Has(log, t, o) /\ log \in Logs
      /\ \A u \in Topics, q \in Orders : Has(Drop(log, t), u, q) => Has(log, u, q)
      /\ \A u \in Topics, q \in Orders :
           Has(log, u, q) => Has(Drop(log, t), u, q) \/ (u = t /\ q = o)
  BY <1>1, DropHas, InvLogs
<1>3. "cancelled" \in Topics \ {t} /\ "CANCELLED" \in Topics
  BY TopicFacts
<1>4. \/ Move(Drop(log, t), o, t) \/ Move(log, o, t)
      \/ order' = [order EXCEPT ![o] = t] /\ UNCHANGED log
  BY DEF OrderConsume, OrderConsumerDies
<1> HIDE DEF o
<1>5. CASE Move(Drop(log, t), o, t) \/ Move(log, o, t)
  BY <1>1, <1>2, <1>3, <1>5, MoveCancels, CancelOrderSide DEF Coming, Cancelling
<1>6. CASE order' = [order EXCEPT ![o] = t] /\ UNCHANGED log
  <2>1. t = "CANCELLED" => Touched(o)
    BY <1>2 DEF CancelInv
  <2>2. \A q \in Orders : order'[q] = "CANCELLED" => order[q] = "CANCELLED" \/ Touched(q)
    BY <1>6, <2>1 DEF KitchenInv, TypeOK
  <2> QED BY <1>1, <1>6, <2>2, CancelOrderSide DEF Cancelling
<1> QED BY <1>4, <1>5, <1>6

LEMMA CancelReplays ==
  ASSUME KitchenInv, CancelInv, OrderReplay
  PROVE  CancelInv'
<1> DEFINE q == dlq["order"]
           m == Head(q)
<1>1. /\ q \in Seq(Letter) /\ q # <<>> /\ UNCHANGED kitchenSide /\ Move(log, m.o, m.topic)
      /\ m.o \in Orders /\ log \in Logs /\ dlq'["order"] = Tail(q) /\ dlq'["kitchen"] = dlq["kitchen"]
  BY InvLogs DEF OrderReplay, KitchenInv, TypeOK
<1>2. /\ m \in Letter /\ m.o \in Orders
      /\ \A u, p : HasLetter(Tail(q), u, p) => HasLetter(q, u, p)
  <2> HIDE DEF q
  <2> QED BY <1>1, TailLetters
<1> HIDE DEF m
<1> QED BY <1>1, <1>2, MoveCancels, CancelOrderSide DEF Coming, Cancelling

LEMMA CancelFails ==
  ASSUME KitchenInv, CancelInv, NEW t \in KitchenStatus, OrderConsumeFails(t)
  PROVE  CancelInv'
<1> DEFINE m == Head(log[t])
<1>1. log[t] # <<>> /\ t \in Topics /\ UNCHANGED <<order, kitchenSide>>
      /\ dlq'["kitchen"] = dlq["kitchen"]
  BY TopicFacts DEF OrderConsumeFails, orderSide, KitchenInv, TypeOK
<1>2. /\ Drop(log, t) \in Logs /\ m \in Message
      /\ \A u \in Topics, q \in Orders :
           Has(log, u, q) => Has(Drop(log, t), u, q) \/ (u = t /\ q = m.o)
  BY <1>1, DropHas, HeadOfKitchen
<1>3. log' = Drop(log, t) \/ (m.retry < MaxRetries /\ log' = Again(Drop(log, t), t, m))
  BY DEF OrderConsumeFails
<1>4. "cancelled" \in Topics \ {t}
  BY TopicFacts
<1> HIDE DEF m
<1>5. \A q \in Orders : Has(log, "cancelled", q) => Has(log', "cancelled", q)
  BY <1>1, <1>2, <1>3, <1>4, AgainLog
<1> QED BY <1>1, <1>5, FailsHas, TopicFacts, CancelOrderSide DEF Cancelling

LEMMA CancelStaff ==
  ASSUME Calm, KitchenInv, CancelInv, KitchenViews
  PROVE  CancelInv'
<1>1. PICK w \in Staff, k \in Tickets, st \in KitchenStatus : StaffRead(w, k, st) \/ StaffSave(w)
  BY DEF KitchenViews
<1>2. CASE StaffRead(w, k, st)
  BY <1>2 DEF StaffRead, orderSide, CancelInv, Coming, Touched, TicketsOf
<1>3. CASE StaffSave(w)
  <2> DEFINE j == at[w]
  <2>1. /\ Grows /\ j.topic \in KitchenStatus /\ j.o \in Orders /\ log' = Send(log, j.topic, j.o)
        /\ UNCHANGED <<order, dlq>>
    BY <1>3, StaffSaveFacts DEF Calm, Dies, StaffSave, orderSide
  <2>2. PICK o \in Orders : o = j.o
    BY <2>1
  <2>3. Touched(o)'
    <3>1. PICK n \in Tickets : ticket'[n].o = o /\ ticket'[n].status # "RECEIVED"
      BY <1>3, <2>2, StaffSaveFacts
    <3> QED BY <3>1 DEF Touched, TicketsOf
  <2> HIDE DEF j
  <2>4. \A u, q : u \in Topics => (Has(log', u, q) <=> Has(log, u, q) \/ (u = j.topic /\ q = o))
    BY <2>1, <2>2, InvLogs, SendLog, TopicFacts
  <2> QED BY <2>1, <2>3, <2>4, TopicFacts, CancelKept DEF Coming, Cancelling
<1> QED BY <1>1, <1>2, <1>3

LEMMA CancelKitchen ==
  ASSUME Calm, KitchenInv, CancelInv, KitchenConsumer \/ KitchenConsumerDies
  PROVE  CancelInv'
<1> DEFINE j == at["consumer"]
<1>1. log \in Logs /\ "cancelled" \in Topics /\ "CANCELLED" \in Topics /\ "CANCELLED" \notin OrderTopics
      /\ OrderTopics = {"placed", "cancelled"}
  BY InvLogs, TopicFacts
<1>2. ASSUME NEW t \in OrderTopics, KitchenRead(t) PROVE CancelInv'
  BY <1>2 DEF KitchenRead, orderSide, CancelInv, Coming, Touched, TicketsOf
<1>3. ASSUME ~Idle("consumer")
      PROVE  /\ j.topic \in OrderTopics /\ j.topic \in Topics /\ j.retry \in 0..MaxRetries
             /\ j.o \in Orders /\ Drop(log, j.topic) \in Logs
             /\ \A u \in Topics, q \in Orders : Has(Drop(log, j.topic), u, q) => Has(log, u, q)
             /\ \A u \in Topics, q \in Orders :
                  Has(log, u, q) => Has(Drop(log, j.topic), u, q) \/ (u = j.topic /\ q = j.o)
  <2>1. j.topic \in OrderTopics /\ j.topic \in Topics /\ log[j.topic] # <<>>
        /\ Head(log[j.topic]).o = j.o
    BY <1>3, TopicFacts DEF KitchenInv, ConsumerReads
  <2>2. j.o \in Orders /\ j.retry \in 0..MaxRetries
    BY <1>3, JobFacts DEF KitchenInv, Handlers
  <2> QED BY <2>1, <2>2, DropHas
<1>4. CASE KitchenConsume \/ KitchenConsumerDies
  <2>1. /\ ~Idle("consumer") /\ Handle(j) /\ UNCHANGED <<order, dlq>>
        /\ log' \in {log, Answer(log, j), Answer(Drop(log, j.topic), j)}
    BY <1>4 DEF KitchenConsume, KitchenConsumerDies, orderSide
  <2>2. PICK o \in Orders : o = j.o
    BY <1>3, <2>1
  <2>3. Grows /\ (j.topic = "cancelled" => Touched(o)')
    <3>1. Grows /\ (j.topic = "cancelled" =>
                      \E k \in Tickets : ticket'[k].o = j.o /\ ticket'[k].status # "RECEIVED")
      BY <2>1, HandleFacts DEF Handlers
    <3> QED BY <2>2, <3>1 DEF Touched, TicketsOf
  <2> HIDE DEF j
  <2>4. \A q \in Orders :
          /\ Has(log, "cancelled", q) => Has(log', "cancelled", q) \/ (j.topic = "cancelled" /\ q = o)
          /\ Has(log', "CANCELLED", q) => Has(log, "CANCELLED", q) \/ (j.topic = "cancelled" /\ q = o)
    BY <1>1, <1>3, <2>1, <2>2, AnswerLog
  <2> QED BY <2>1, <2>3, <2>4, CancelKept DEF Coming, Cancelling
<1>5. CASE KitchenConsumeFails
  <2> DEFINE rest == Drop(log, j.topic)
             s == dlq["kitchen"]
             r == Append(s, [topic |-> j.topic, o |-> j.o])
  <2>1. /\ ~Idle("consumer") /\ UNCHANGED <<order, ticket>> /\ j.topic = "cancelled"
        /\ dlq'["order"] = dlq["order"]
        /\ \/ /\ j.retry < MaxRetries /\ dlq' = dlq
              /\ log' = Again(rest, j.topic, [o |-> j.o, retry |-> j.retry])
           \/ log' = rest /\ dlq'["kitchen"] = r
    BY <1>5 DEF KitchenConsumeFails, Calm, Hopeless, orderSide, KitchenInv, TypeOK
  <2>2. s \in Seq(Letter) /\ Grows
    BY <2>1, InvLogs DEF KitchenInv, TypeOK, Grows
  <2>3. \A u, q : HasLetter(r, u, q) <=> HasLetter(s, u, q) \/ (u = j.topic /\ q = j.o)
    <3> HIDE DEF j, s
    <3> QED BY <1>3, <2>1, <2>2, LetterAdded
  <2>4. [o |-> j.o, retry |-> j.retry] \in Message
    BY <1>3, <2>1 DEF Message
  <2>5. ASSUME NEW q \in Orders
        PROVE  /\ Coming(q) => Coming(q)'
               /\ Has(log', "CANCELLED", q) => Has(log, "CANCELLED", q)
    <3> HIDE DEF r, j
    <3>1. CASE log' = rest /\ dlq'["kitchen"] = r
      BY <1>1, <1>3, <2>1, <2>3, <3>1 DEF Coming
    <3>2. CASE /\ j.retry < MaxRetries /\ dlq' = dlq
               /\ log' = Again(rest, j.topic, [o |-> j.o, retry |-> j.retry])
      <4> HIDE DEF rest
      <4>1. \A u, p : u \in Topics => (Has(log', u, p) <=> Has(rest, u, p) \/ (u = j.topic /\ p = j.o))
        BY <1>3, <2>1, <2>4, <3>2, AgainLog DEF rest
      <4> QED BY <1>1, <1>3, <2>1, <3>2, <4>1 DEF Coming, rest
    <3> QED BY <2>1, <3>1, <3>2
  <2> QED BY <2>1, <2>2, <2>5, CancelKept DEF Cancelling
<1> QED BY <1>2, <1>4, <1>5 DEF KitchenConsumer

LEMMA CancelReplay ==
  ASSUME Calm, KitchenInv, SoleInv, CancelInv, ReplayRead \/ ReplayConsume \/ ReplayFails \/ ReplayEnds
  PROVE  CancelInv'
<1> DEFINE j == at["replay"]
<1>1. CASE ReplayRead \/ ReplayFails \/ ReplayEnds
  BY <1>1 DEF ReplayRead, ReplayFails, ReplayEnds, orderSide, CancelInv, Coming, Touched, TicketsOf
<1>2. CASE ReplayConsume
  <2>1. ~Idle("replay") /\ Handle(j)
    BY <1>2 DEF ReplayConsume
  <2>2. j.topic = "cancelled" /\ j.o \in Orders /\ \A o, q \in Orders : o = q
    BY <2>1, JobFacts DEF SoleInv, Calm, KitchenInv, Handlers
  <2>3. \E k \in Tickets : ticket'[k].o = j.o /\ ticket'[k].status # "RECEIVED"
    BY <2>1, <2>2, HandleFacts DEF Handlers
  <2> HIDE DEF j
  <2>4. \A o \in Orders : Touched(o)'
    BY <2>2, <2>3 DEF Touched, TicketsOf
  <2> QED BY <2>4 DEF CancelInv
<1> QED BY <1>1, <1>2

LEMMA CancelOthers ==
  ASSUME KitchenInv, CancelInv, OthersRefused
  PROVE  CancelInv'
<1>1. /\ UNCHANGED <<order, ticket>> /\ log' = log /\ dlq'["kitchen"] = dlq["kitchen"]
      /\ \A o \in Orders : HasLetter(dlq'["order"], "CANCELLED", o) => HasLetter(dlq["order"], "CANCELLED", o)
  BY OthersFacts DEF orderSide, kitchenSide
<1>2. \A o \in Orders : Coming(o)' = Coming(o) /\ Touched(o)' = Touched(o)
  BY <1>1 DEF Coming, Touched, TicketsOf
<1> QED BY <1>1, <1>2 DEF CancelInv

LEMMA CancelNext == Calm /\ KitchenInv /\ SoleInv /\ CancelInv /\ [Next]_vars => CancelInv'
<1> SUFFICES ASSUME Calm, KitchenInv, SoleInv, CancelInv, [Next]_vars PROVE CancelInv'
  OBVIOUS
<1>1. CASE UNCHANGED vars
  BY <1>1 DEF vars, CancelInv, Coming, Touched, TicketsOf
<1>2. CASE OrderViews
  BY <1>2, CancelViews
<1>3. CASE OrderConsumer
  BY <1>3, CancelConsumer, CancelFails DEF OrderConsumer
<1>4. CASE KitchenViews
  BY <1>4, CancelStaff
<1>5. CASE KitchenConsumer
  BY <1>5, CancelKitchen
<1>6. CASE Deaths
  BY <1>6, CancelConsumer, CancelKitchen DEF Deaths
<1>7. CASE Replays
  BY <1>7, CancelReplays, CancelReplay DEF Replays
<1>8. CASE OthersRefused
  BY <1>8, CancelOthers
<1> QED BY <1>1, <1>2, <1>3, <1>4, <1>5, <1>6, <1>7, <1>8 DEF Next

LEMMA CancelInit == Init => CancelInv
<1> SUFFICES ASSUME Init, NEW o \in Orders PROVE order[o] # "CANCELLED" /\ ~Cancelling(o)
  BY DEF CancelInv, Cancelling
<1>1. order[o] = "NONE" /\ log["CANCELLED"] = <<>> /\ dlq["order"] = <<>>
  BY TopicFacts DEF Init
<1> QED BY <1>1 DEF Cancelling, Has, HasLetter

\* When all is quiet, no ticket of a cancelled order waits to be cooked, for
\* any number of orders, tickets, views and retries and however often the
\* consumers die: no cancellation is lost on the way to the kitchen, as long
\* as views and database do not fail, and the replay does not commit the
\* letters of other orders that it has passed.
THEOREM CancellationsArrive ==
  ASSUME Calm
  PROVE  Spec => []CancelledNotQueued
<1>1. KitchenInv /\ SoleInv /\ CancelInv => CancelledNotQueued
  <2> SUFFICES ASSUME KitchenInv, SoleInv, CancelInv, Drained, NEW k \in Tickets,
                      ticket[k] # NoTicket, order[ticket[k].o] = "CANCELLED"
               PROVE  ticket[k].status # "RECEIVED"
    BY DEF CancelledNotQueued
  <2> DEFINE o == ticket[k].o
  <2>1. o \in Orders
    BY DEF KitchenInv, TypeOK, TicketRow
  <2>2. ~Coming(o)
    <3>1. log["cancelled"] = <<>> /\ dlq["kitchen"] = <<>>
      BY TopicFacts DEF Drained, KitchenInv, TypeOK
    <3> QED BY <3>1 DEF Coming, Has, HasLetter
  <2>3. PICK i \in TicketsOf(o) : ticket[i].status # "RECEIVED"
    BY <2>1, <2>2 DEF CancelInv, Touched
  <2>4. i = k
    BY <2>3 DEF TicketsOf, SoleInv, OneTicketPerOrder
  <2> QED BY <2>3, <2>4
<1>2. ConsumerAlone
  BY DEF Calm, ConsumerAlone
<1>3. KitchenInv /\ SoleInv /\ CancelInv /\ [Next]_vars => (KitchenInv /\ SoleInv /\ CancelInv)'
  BY <1>2, KitchenNext, SoleNext, CancelNext
<1> QED BY <1>1, <1>3, KitchenInit, SoleInit, CancelInit, PTL DEF Spec
=============================================================================
