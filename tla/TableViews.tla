----------------------------- MODULE TableViews -----------------------------
(* Who may take a table: what the auth service tells the waiters about it,   *)
(* and what it answers a guest who scans its code.  The questions are asked  *)
(* of the same rows, in code of its own each; the module compares them for   *)
(* every table, reservation and guest.                                       *)
(*                                                                           *)
(* Times are ticks of a short clock.  The restaurant exists and the token is *)
(* that of the table; filters by zone and name are left out.  A guest who is *)
(* told "User already exists" has passed the scan: he logs in instead.       *)
EXTENDS Integers, FiniteSets

CONSTANTS
  Scanners,   \* guests, by mobile number
  Horizon     \* bounds the clock

ASSUME TableViewsAssumption == Horizon \in Nat

VARIABLES
  table,      \* the row
  bookings,   \* its reservations
  users,      \* who is registered, and who of them is blocked
  open,       \* the restaurant is
  now

viewVars == <<table, bookings, users, open, now>>
------------------------------------------------------------------------------
Times == 0..Horizon
Statuses == {"pending", "confirmed", "seated", "cancelled"}  \* which stands for all that is over
Booking == [status : Statuses, from : Times, to : Times, guest : Scanners]
Table == [active : BOOLEAN, occupied : BOOLEAN, by : SUBSET Scanners, manual : BOOLEAN]
Registry == [registered : SUBSET Scanners, blocked : SUBSET Scanners]

\* The table is free, occupied by a guest, or by one whose account has gone; it
\* has at most two reservations.
ViewsInit ==
  /\ table \in {t \in Table : Cardinality(t.by) <= IF t.occupied THEN 1 ELSE 0}
  /\ bookings \in {{}} \cup {{b, c} : b, c \in {x \in Booking : x.from < x.to}}
  /\ users \in {r \in Registry : r.blocked \subseteq r.registered}
  /\ open = TRUE /\ now = 0

Tick ==
  /\ now < Horizon /\ now' = now + 1
  /\ UNCHANGED <<table, bookings, users, open>>

\* An administrator opens or closes the restaurant; no table is told.
OpenOrClose ==
  /\ open' = ~open
  /\ UNCHANGED <<table, bookings, users, now>>

ViewsNext == Tick \/ OpenOrClose

ViewsSpec == ViewsInit /\ [][ViewsNext]_viewVars
------------------------------------------------------------------------------
(* The waiters *)

Ahead(statuses) == {b \in bookings : b.status \in statuses /\ b.to >= now}
Waiting == Ahead({"pending", "confirmed"})

\* Mutated form: reservations do not count.
CanBookNow == table.active /\ ~table.occupied /\ ~table.manual

CanBook == table.active /\ ~table.occupied /\ ~table.manual /\ Waiting = {}
CanOrder == table.active /\ ~table.manual

\* The reservation that is shown: the one that begins first.
Shown ==
  {b \in Ahead({"pending", "confirmed", "seated"}) :
     \A c \in Ahead({"pending", "confirmed", "seated"}) : b.from <= c.from}

\* The lists by status.  The two conditions of an exclude on reservations need
\* not be met by the same one.
Available ==
  /\ table.active /\ ~table.occupied /\ ~table.manual
  /\ ~(/\ \E b \in bookings : b.status \in {"pending", "confirmed"}
       /\ \E b \in bookings : b.to >= now)
Reserved == table.active /\ Waiting # {}
------------------------------------------------------------------------------
(* A guest scans the code: ValidateScanSerializer.validate *)

\* Of the confirmed reservations of this moment the first in the model's order:
\* the one that begins last.
Present == {b \in bookings : b.status = "confirmed" /\ b.from <= now /\ now <= b.to}
Foremost == {b \in Present : \A c \in Present : c.from <= b.from}

MayScan(g) ==
  /\ table.active /\ ~table.manual /\ open
  /\ table.occupied => g \in table.by \cap users.registered
  /\ Foremost # {} => \E b \in Foremost : b.guest = g
  /\ g \notin users.blocked
------------------------------------------------------------------------------
(* Properties *)

\* Types of the rows.
ViewsTypeOK ==
  /\ table \in Table /\ bookings \subseteq Booking /\ users \in Registry
  /\ open \in BOOLEAN /\ now \in Times

\* Waiters and guests are told the same: a table in the list of the available
\* ones can be booked, one that can be booked and is not in the list has a
\* reservation that is past and another that is ahead or over, and none that
\* waits is shown for it; while the restaurant is open, every guest who is not
\* blocked may scan its code; and whoever may scan a table at all may order
\* there.  The lists do not ask whether the restaurant is open: of a closed one
\* they offer tables that nobody may scan.
SeatsAgree ==
  /\ Available => CanBook /\ ~Reserved
  /\ CanBook /\ ~Available => Cardinality(bookings) = 2
  /\ CanBook => /\ \A b \in Shown : b.status = "seated"
                /\ open => \A g \in Scanners \ users.blocked : MayScan(g)
  /\ \A g \in Scanners : MayScan(g) => CanOrder /\ open
=============================================================================
