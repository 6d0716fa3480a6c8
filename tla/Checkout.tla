------------------------------- MODULE Checkout -------------------------------
(* Orders of one table as cashiers see them: payments that are recorded while *)
(* other requests move the orders on, and bills that are put together from    *)
(* three queries.  How orders and sessions are made and moved is              *)
(* OrderService's; here a request that moves an order is a read and a save of *)
(* the whole row, and an order is at the table or over.                       *)
EXTENDS Naturals, FiniteSets

CONSTANTS
  Orders,
  Requests,   \* of waiters, guests and administrators, that move orders
  Bills,      \* bills being put together
  NoRow       \* no order, and nothing read

VARIABLES
  orders,     \* rows
  sessions,   \* the number of sessions the table has had
  seated,     \* the last of them is active
  opened,     \* what each request has read
  bill,       \* bills, with what each query found
  recorded,   \* the payment recorded last
  exposed,    \* orders of which a payment was recorded while a request had read it
  stranded    \* closed sessions that had orders still, or again, at the table

checkoutVars == <<orders, sessions, seated, opened, bill, recorded, exposed, stranded>>
------------------------------------------------------------------------------
Payments == {"PENDING", "PAID", "FAILED"}
OrderRow == [session : 1..Cardinality(Orders), ongoing : BOOLEAN, payment : Payments]
Bill == [step : {"none", "asked", "named", "done", "failed"},
         session : 0..Cardinality(Orders), listed : SUBSET Orders, theirs : SUBSET Orders,
         current : BOOLEAN]

ASSUME CheckoutAssumption == IsFiniteSet(Orders) /\ NoRow \notin OrderRow

NoBill == [step |-> "none", session |-> 0, listed |-> {}, theirs |-> {}, current |-> FALSE]

CheckoutInit ==
  /\ orders = [o \in Orders |-> NoRow]
  /\ sessions = 0 /\ seated = FALSE
  /\ opened = [r \in Requests |-> NoRow]
  /\ bill = [b \in Bills |-> NoBill]
  /\ recorded = [o \in Orders |-> "PENDING"] /\ exposed = {} /\ stranded = {}

Placed == {o \in Orders : orders[o] # NoRow}
Ongoing == {o \in Placed : orders[o].ongoing}
AtTable(s) == {o \in Ongoing : orders[o].session = s}

\* The order joins the active session, or starts one.
PlaceOrder(o) ==
  LET s == IF seated THEN sessions ELSE sessions + 1
  IN /\ orders[o] = NoRow
     /\ orders' = [orders EXCEPT ![o] = [session |-> s, ongoing |-> TRUE, payment |-> "PENDING"]]
     /\ sessions' = s /\ seated' = TRUE
     /\ UNCHANGED <<opened, bill, recorded, exposed, stranded>>

\* An order that raced with the end of its session is in a closed one.
PlaceLate(o) ==
  /\ orders[o] = NoRow /\ ~seated /\ sessions > 0
  /\ orders' = [orders EXCEPT ![o] = [session |-> sessions, ongoing |-> TRUE, payment |-> "PENDING"]]
  /\ stranded' = stranded \cup {sessions}
  /\ UNCHANGED <<sessions, seated, opened, bill, recorded, exposed>>

\* The row becomes x; the last order of the active session to end closes it.
\* An old row may bring an order back to the table after its session.
Rewrites(o, x) ==
  /\ orders' = [orders EXCEPT ![o] = x]
  /\ stranded' = IF x.ongoing /\ ~(seated /\ x.session = sessions)
                 THEN stranded \cup {x.session} ELSE stranded
  /\ seated' = (seated /\ (x.ongoing \/ x.session # sessions \/ AtTable(sessions) \ {o} # {}))

\* Kitchen events lock the row they read.
KitchenMoves(o) ==
  /\ o \in Ongoing
  /\ \E on \in BOOLEAN : Rewrites(o, [orders[o] EXCEPT !.ongoing = on])
  /\ UNCHANGED <<sessions, opened, bill, recorded, exposed>>

\* A request reads the row, without a lock...
OpenOrder(r, o) ==
  /\ opened[r] = NoRow /\ o \in Ongoing
  /\ opened' = [opened EXCEPT ![r] = [o |-> o, row |-> orders[o]]]
  /\ UNCHANGED <<orders, sessions, seated, bill, recorded, exposed, stranded>>

\* Mutated form: a cancelled order's payment fails.
SaveAndFail(r) ==
  /\ opened[r] # NoRow
  /\ \E on \in BOOLEAN :
       Rewrites(opened[r].o, [opened[r].row EXCEPT !.ongoing = on,
                                                 !.payment = IF on THEN @ ELSE "FAILED"])
  /\ opened' = [opened EXCEPT ![r] = NoRow]
  /\ UNCHANGED <<sessions, bill, recorded, exposed>>

\* ... and update_status saves all of it.
SaveStatus(r) ==
  /\ opened[r] # NoRow
  /\ \E on \in BOOLEAN : Rewrites(opened[r].o, [opened[r].row EXCEPT !.ongoing = on])
  /\ opened' = [opened EXCEPT ![r] = NoRow]
  /\ UNCHANGED <<sessions, bill, recorded, exposed>>

\* The move is not allowed, or an error.
Decline(r) ==
  /\ opened[r] # NoRow
  /\ opened' = [opened EXCEPT ![r] = NoRow]
  /\ UNCHANGED <<orders, sessions, seated, bill, recorded, exposed, stranded>>

\* update_fields: only the payment is written, whatever the order's status.
RecordPayment(o, p) ==
  /\ o \in Placed
  /\ orders' = [orders EXCEPT ![o].payment = p]
  /\ recorded' = [recorded EXCEPT ![o] = p]
  /\ exposed' = IF \E r \in Requests : opened[r] # NoRow /\ opened[r].o = o
                THEN exposed \cup {o} ELSE exposed \ {o}
  /\ UNCHANGED <<sessions, seated, opened, bill, stranded>>

\* An administrator closes the session, or nothing happened for half an hour.
Leave ==
  /\ seated /\ seated' = FALSE
  /\ stranded' = IF AtTable(sessions) = {} THEN stranded ELSE stranded \cup {sessions}
  /\ UNCHANGED <<orders, sessions, opened, bill, recorded, exposed>>
------------------------------------------------------------------------------
(* The bill of the table *)

\* Mutated form: the bill lists the orders that are over, too.
ListedAll == Placed

\* The status is all the queries ask for besides the table.
Listed == Ongoing

Step(b, x) ==
  /\ bill' = [bill EXCEPT ![b] = x]
  /\ UNCHANGED <<orders, sessions, seated, opened, recorded, exposed, stranded>>

\* exists()
AskBill(b) ==
  /\ bill[b].step = "none" /\ Listed # {}
  /\ Step(b, [NoBill EXCEPT !.step = "asked"])

\* first().session, of the oldest order; there may be none by now.
NameSession(b) ==
  /\ bill[b].step = "asked"
  /\ IF Listed = {} THEN Step(b, [bill[b] EXCEPT !.step = "failed"])
     ELSE \E o \in Listed :
            /\ \A q \in Listed : orders[o].session <= orders[q].session
            /\ Step(b, [bill[b] EXCEPT !.step = "named", !.session = orders[o].session])

\* The loop; first().currency fails if it found nothing.
ListOrders(b) ==
  /\ bill[b].step = "named"
  /\ IF Listed = {} THEN Step(b, [bill[b] EXCEPT !.step = "failed"])
     ELSE Step(b, [bill[b] EXCEPT !.step = "done", !.listed = Listed,
                                  !.theirs = AtTable(bill[b].session),
                                  !.current = seated /\ sessions = bill[b].session /\ stranded = {}])

\* The answer is sent, or the request for the bill failed.
Hand(b) == bill[b].step \in {"done", "failed"} /\ Step(b, NoBill)

CheckoutNext ==
  \/ \E o \in Orders : \/ PlaceOrder(o) \/ PlaceLate(o) \/ KitchenMoves(o)
                       \/ \E p \in Payments : RecordPayment(o, p)
                       \/ \E r \in Requests : OpenOrder(r, o)
  \/ \E r \in Requests : SaveStatus(r) \/ Decline(r)
  \/ Leave
  \/ \E b \in Bills : AskBill(b) \/ NameSession(b) \/ ListOrders(b) \/ Hand(b)

CheckoutSpec == CheckoutInit /\ [][CheckoutNext]_checkoutVars
------------------------------------------------------------------------------
(* Properties *)

\* Types of the rows, the requests and the bills.
CheckoutTypeOK ==
  /\ orders \in [Orders -> OrderRow \cup {NoRow}]
  /\ sessions \in 0..Cardinality(Orders) /\ seated \in BOOLEAN
  /\ \A r \in Requests :
       opened[r] = NoRow \/ opened[r] \in [o : Orders, row : OrderRow]
  /\ bill \in [Bills -> Bill]
  /\ recorded \in [Orders -> Payments]
  /\ exposed \subseteq Orders /\ stranded \subseteq 1..sessions

\* A payment that was recorded stays as it was recorded, however the order
\* moves on, unless a request had read the order before and saves it after.
PaymentsKept ==
  \A o \in Placed \ exposed : orders[o].payment = recorded[o]

\* A bill that names the table's active session lists the orders of that
\* session that are not over, all of them and no others, unless a session was
\* closed over its orders, or a row saved late brought one back.
BillsAgree ==
  \A b \in Bills :
    bill[b].step = "done" /\ bill[b].current => bill[b].listed = bill[b].theirs
=============================================================================
