------------------------------- MODULE Devices -------------------------------
(* The devices to which the notification service pushes.  A device registers *)
(* for a user in one transaction, READ COMMITTED, which takes its row and    *)
(* then turns the user's other devices off, those that are committed at that *)
(* moment.  A push, to a user or to all of a restaurant, reads the devices   *)
(* that are on, and turns those off that Firebase refuses.                   *)
(*                                                                           *)
(* Roles and restaurants of the devices are left out: a push to a restaurant *)
(* stands for one to the devices of a role.                                  *)
EXTENDS Integers, FiniteSets

CONSTANTS
  Persons,
  Phones,    \* tokens of Firebase
  Regs,      \* registrations that run at the same time
  Pushes,    \* tasks that run at the same time
  Nobody     \* no user, row or request

VARIABLES
  device,    \* committed rows
  reg,       \* transactions
  push,      \* devices a task is sending to
  latest,    \* the device that a user registered last
  refused,   \* devices that Firebase refused since they registered
  mingled,   \* users whose registrations overlapped since one was alone
  jostled    \* registrations that met another of their user

deviceVars == <<device, reg, push, latest, refused, mingled, jostled>>
------------------------------------------------------------------------------
Device == [user : Persons, on : BOOLEAN]
Reg == [user : Persons, phone : Phones, swept : BOOLEAN, off : SUBSET Phones]

ASSUME NobodyIsNothing == Nobody \notin Persons \cup Phones \cup Device \cup Reg

DevicesInit ==
  /\ device = [f \in Phones |-> Nobody]
  /\ reg = [r \in Regs |-> Nobody] /\ push = [p \in Pushes |-> {}]
  /\ latest = [u \in Persons |-> Nobody]
  /\ refused = {} /\ mingled = {} /\ jostled = {}

Of(u) == {f \in Phones : device[f] # Nobody /\ device[f].user = u}
On(u) == {f \in Of(u) : device[f].on}
HeldBy(r) == IF reg[r] = Nobody THEN {} ELSE {reg[r].phone} \cup reg[r].off
Held == UNION {HeldBy(r) : r \in Regs}
Rivals(u) == {r \in Regs : reg[r] # Nobody /\ reg[r].user = u}
------------------------------------------------------------------------------
(* Registrations: RegisterDeviceView *)

\* update_or_create holds the device's row from here on.
Register(r, u, f) ==
  /\ reg[r] = Nobody /\ f \notin Held
  /\ reg' = [reg EXCEPT ![r] = [user |-> u, phone |-> f, swept |-> FALSE, off |-> {}]]
  /\ IF Rivals(u) = {} THEN UNCHANGED <<mingled, jostled>>
     ELSE mingled' = mingled \cup {u} /\ jostled' = jostled \cup Rivals(u) \cup {r}
  /\ UNCHANGED <<device, push, latest, refused>>

Unswept(r) == reg[r] # Nobody /\ ~reg[r].swept

\* Mutated form: the user's other devices stay as they are.
SweepNothing(r) ==
  /\ Unswept(r)
  /\ reg' = [reg EXCEPT ![r].swept = TRUE]
  /\ UNCHANGED <<device, push, latest, refused, mingled, jostled>>

\* The update of the others waits for those that another transaction holds.
Sweep(r) ==
  LET others == Of(reg[r].user) \ {reg[r].phone}
  IN /\ Unswept(r) /\ others \cap Held = {}
     /\ reg' = [reg EXCEPT ![r].swept = TRUE, ![r].off = others]
     /\ UNCHANGED <<device, push, latest, refused, mingled, jostled>>

Gone(r) == reg' = [reg EXCEPT ![r] = Nobody] /\ jostled' = jostled \ {r}

Commits(r) ==
  LET w == reg[r]
  IN /\ w # Nobody /\ w.swept
     /\ device' = [f \in Phones |-> CASE f = w.phone -> [user |-> w.user, on |-> TRUE]
                                      [] f \in w.off -> [device[f] EXCEPT !.on = FALSE]
                                      [] OTHER -> device[f]]
     /\ latest' = [u \in Persons |-> CASE u = w.user -> w.phone
                                       [] u # w.user /\ latest[u] = w.phone -> Nobody
                                       [] OTHER -> latest[u]]
     /\ refused' = refused \ {w.phone}
     /\ mingled' = IF r \in jostled THEN mingled ELSE mingled \ {w.user}
     /\ Gone(r) /\ UNCHANGED push

\* An error, a dead process, or a deadlock that the database ends.
Abort(r) ==
  /\ reg[r] # Nobody /\ Gone(r)
  /\ UNCHANGED <<device, push, latest, refused, mingled>>
------------------------------------------------------------------------------
(* Pushes: send_push_notification_task and its like for a restaurant *)

Audiences == {{u} : u \in Persons} \cup {Persons}

Send(p, us) ==
  /\ push[p] = {} /\ push' = [push EXCEPT ![p] = UNION {On(u) : u \in us}]
  /\ UNCHANGED <<device, reg, latest, refused, mingled, jostled>>

\* The device is turned off whoever has it by now, after the transaction that
\* holds its row.
Refuse(p, f) ==
  /\ f \in push[p] \ Held
  /\ device' = [device EXCEPT ![f].on = FALSE]
  /\ refused' = refused \cup {f}
  /\ push' = [push EXCEPT ![p] = @ \ {f}]
  /\ UNCHANGED <<reg, latest, mingled, jostled>>

\* The rest was accepted; or the task fails: it is tried again, three times.
EndPush(p) ==
  /\ push[p] # {} /\ push' = [push EXCEPT ![p] = {}]
  /\ UNCHANGED <<device, reg, latest, refused, mingled, jostled>>

DevicesNext ==
  \/ \E r \in Regs :
       \/ \E u \in Persons, f \in Phones : Register(r, u, f)
       \/ Sweep(r) \/ Commits(r) \/ Abort(r)
  \/ \E p \in Pushes :
       \/ \E us \in Audiences : Send(p, us)
       \/ \E f \in Phones : Refuse(p, f)
       \/ EndPush(p)

DevicesSpec == DevicesInit /\ [][DevicesNext]_deviceVars
------------------------------------------------------------------------------
(* Properties *)

\* Types of the rows, the transactions and the tasks.
DevicesTypeOK ==
  /\ device \in [Phones -> Device \cup {Nobody}]
  /\ reg \in [Regs -> Reg \cup {Nobody}] /\ push \in [Pushes -> SUBSET Phones]
  /\ latest \in [Persons -> Phones \cup {Nobody}]
  /\ refused \subseteq Phones /\ mingled \subseteq Persons /\ jostled \subseteq Regs

\* A user is notified on the device that registered last for him, and on no
\* other, unless Firebase refused it or another user has it now; whatever is
\* pushed meanwhile, and unless two registrations of his overlapped: the next
\* one alone sets it right again.
DevicesFollow ==
  \A u \in Persons \ mingled : On(u) = {latest[u]} \ (refused \cup {Nobody})
=============================================================================
