--------------------------- MODULE OrderLifecycle ---------------------------
(* The life of an order: its statuses and the moves update_status lets it    *)
(* make (orderService/orders/models.py).  Shared by the modules that touch   *)
(* orders.                                                                   *)

\* Statuses of a row that still counts against its table.
ActiveStatus == {"CREATED", "ACCEPTED", "PREPARING", "READY", "PAID"}

\* Statuses whose arrival triggers the automatic closing of the session.
TerminalStatus == {"COMPLETED", "CANCELLED"}

Statuses == ActiveStatus \cup TerminalStatus

\* A terminal status is absent from the code's table: it has no successor.
Allowed(st) ==
  CASE st = "CREATED"   -> {"ACCEPTED", "CANCELLED"}
    [] st = "ACCEPTED"  -> {"PREPARING", "CANCELLED"}
    [] st = "PREPARING" -> {"READY", "CANCELLED"}
    [] st = "READY"     -> {"PAID", "COMPLETED", "CANCELLED"}
    [] st = "PAID"      -> {"COMPLETED"}
    [] OTHER            -> {}

\* What a customer may cancel; update_status then still refuses PAID.
Cancellable == {"CREATED", "ACCEPTED", "PREPARING", "PAID"}

\* The status each topic of the kitchen stands for.
KitchenStatus == {"ACCEPTED", "PREPARING", "READY", "CANCELLED"}

PaymentStatus == {"PENDING", "PAID", "FAILED"}
=============================================================================
