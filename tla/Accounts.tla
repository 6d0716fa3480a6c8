------------------------------ MODULE Accounts ------------------------------
(* Accounts of guests and staff in the auth service.  Guests register        *)
(* themselves, administrators enter their staff; both change their profiles, *)
(* administrators block and unblock, delete, and set passwords, their own    *)
(* with a one-time code.  Most requests read the row, change their columns   *)
(* and save all of it, without a lock.                                       *)
(*                                                                           *)
(* An account stands for a login name: restaurant and mobile number of a     *)
(* guest, e-mail address of an administrator.  Of a row the status and the   *)
(* password are modelled: a request on the profile sets neither, but saves   *)
(* both.  auth_version, which nothing reads, is left out, and so are events. *)
EXTENDS Integers

CONSTANTS
  Logins,
  Secrets,    \* passwords
  Desks,      \* requests that run at the same time
  MaxIds,     \* bounds the rows that a login has had
  MaxCodes,   \* bounds the one-time codes
  Nothing     \* no row, code or request

ASSUME AccountsAssumption == MaxIds \in Nat \ {0} /\ MaxCodes \in Nat

VARIABLES
  role,       \* of each account, while it exists
  account,    \* committed rows
  meant,      \* what they would be if each request had only set its columns
  deskwork,   \* requests that have read
  behind,     \* requests whose row was written since they read it
  overwritten,\* accounts that such a request has saved
  code,       \* one-time code cached for each e-mail address
  issued,     \* codes so far
  used,       \* codes that have changed a password
  reused,     \* and again
  exposed     \* codes that two confirmations held at once, or whose confirmation died

accountVars ==
  <<role, account, meant, deskwork, behind, overwritten, code, issued, used, reused, exposed>>
codes == <<code, issued, used, reused, exposed>>
------------------------------------------------------------------------------
Roles == {"customer", "employee", "restaurant-admin"}
Codes == 1..MaxCodes
Account == [id : 1..MaxIds, active : BOOLEAN, secret : Secrets]

\* Requests that save a row, and the columns each may set, with their values.
Untouched == {[x \in {} |-> x]}
Status == [active : BOOLEAN]
Password == [secret : Secrets]
Sets == [ profile  |-> Untouched,
          status   |-> Untouched \cup Status,
          employee |-> Untouched \cup Status \cup Password \cup [active : BOOLEAN, secret : Secrets],
          admin    |-> Untouched,
          reset    |-> Password ]
Ops == DOMAIN Sets
Work == [op : Ops, u : Logins, row : Account, code : Codes \cup {Nothing}, saved : BOOLEAN]
Entry == [op : {"enter"}, u : Logins, secret : Secrets]

ASSUME NothingIsNothing == Nothing \notin Account \cup Work \cup Entry \cup Codes

Exists(u) == account[u] # Nothing
Has(c, op) == deskwork[c] # Nothing /\ deskwork[c].op = op
HasRead(c) == deskwork[c] # Nothing /\ deskwork[c].op # "enter" /\ ~deskwork[c].saved
OnRow(u) == {c \in Desks : HasRead(c) /\ deskwork[c].u = u}

AccountsInit ==
  /\ role \in [Logins -> Roles]
  /\ account = [u \in Logins |-> Nothing] /\ meant = account
  /\ deskwork = [c \in Desks |-> Nothing]
  /\ behind = {} /\ overwritten = {}
  /\ code = account /\ issued = 0 /\ used = {} /\ reused = {} /\ exposed = {}

Puts(u, r, m) ==
  /\ account' = [account EXCEPT ![u] = r]
  /\ meant' = [meant EXCEPT ![u] = m]
Done(c) == deskwork' = [deskwork EXCEPT ![c] = Nothing]
------------------------------------------------------------------------------
(* New accounts *)

\* The serializers find that the name is free; a guest's was verified by Firebase.
Enter(c, u, s) ==
  /\ deskwork[c] = Nothing /\ ~Exists(u)
  /\ deskwork' = [deskwork EXCEPT ![c] = [op |-> "enter", u |-> u, secret |-> s]]
  /\ UNCHANGED <<role, account, meant, behind, overwritten, codes>>

\* A row with a primary key that no request has seen.
New(e, i) == [id |-> i, active |-> TRUE, secret |-> e.secret]
Fresh(u) == {i \in 1..MaxIds : \A c \in OnRow(u) : deskwork[c].row.id # i}

\* create_user; the unique constraints reject the second of two.
CreateAccount(c) ==
  LET e == deskwork[c]
  IN /\ Has(c, "enter")
     /\ IF Exists(e.u) THEN UNCHANGED <<account, meant, overwritten>>
        ELSE /\ \E i \in Fresh(e.u) : Puts(e.u, New(e, i), New(e, i))
             /\ overwritten' = overwritten \ {e.u}
     /\ Done(c)
     /\ UNCHANGED <<role, behind, codes>>

------------------------------------------------------------------------------
(* Requests that save the row they have read *)

ReadRow(c, op, u) ==
  /\ deskwork[c] = Nothing /\ Exists(u)
  /\ deskwork' = [deskwork EXCEPT ![c] =
       [op |-> op, u |-> u, row |-> account[u], saved |-> FALSE,
        code |-> IF op = "reset" THEN code[u] ELSE Nothing]]
  /\ UNCHANGED <<role, account, meant, behind, overwritten, code, issued, used, reused>>

\* UserProfileView, with a token of a user who is active.
ReadProfile(c, u) ==
  ReadRow(c, "profile", u) /\ account[u].active /\ UNCHANGED exposed

\* The administrators' views of guests: the row is saved also if no status is given.
ReadGuest(c, u) ==
  ReadRow(c, "status", u) /\ role[u] = "customer" /\ UNCHANGED exposed

\* RestaurantAdminEmployeeViewSet.update
ReadEmployee(c, u) ==
  ReadRow(c, "employee", u) /\ role[u] # "customer" /\ UNCHANGED exposed

\* AdminProfileUpdateView, with the present password.
ReadAdmin(c, u) ==
  ReadRow(c, "admin", u) /\ role[u] = "restaurant-admin" /\ UNCHANGED exposed

\* AdminPasswordResetConfirmView, with the code that was sent.
ReadCode(c, u) ==
  /\ ReadRow(c, "reset", u)
  /\ role[u] = "restaurant-admin" /\ code[u] # Nothing
  /\ exposed' = IF \E d \in Desks : Has(d, "reset") /\ deskwork[d].code = code[u]
                THEN exposed \cup {code[u]} ELSE exposed

Set(r, v) == [x \in DOMAIN r |-> IF x \in DOMAIN v THEN v[x] ELSE r[x]]

\* Mutated form: a guest whose status is not given is active.
WrittenActive(w, v) ==
  [Set(w.row, v) EXCEPT !.active = @ \/ (w.op = "status" /\ DOMAIN v = {})]

Written(w, v) == Set(w.row, v)

\* The code has changed a password.
Counts(k) ==
  used' = used \cup ({k} \ {Nothing}) /\ reused' = reused \cup ({k} \cap used)

\* A row that has gone is inserted again, which fails if a new one has the name.
SaveRow(c, v) ==
  LET w == deskwork[c]
  IN /\ HasRead(c) /\ v \in Sets[w.op]
     /\ IF Exists(w.u) /\ account[w.u].id # w.row.id
        THEN Done(c) /\ UNCHANGED <<account, meant, overwritten, used, reused>>
        ELSE /\ Puts(w.u, Written(w, v),
                     IF meant[w.u] = Nothing THEN Nothing ELSE Set(meant[w.u], v))
             /\ overwritten' = IF c \in behind THEN overwritten \cup {w.u} ELSE overwritten
             /\ Counts(w.code)
             /\ IF w.op = "reset" THEN deskwork' = [deskwork EXCEPT ![c].saved = TRUE] ELSE Done(c)
     /\ behind' = (IF account' = account THEN behind ELSE behind \cup OnRow(w.u)) \ {c}
     /\ UNCHANGED <<role, code, issued, exposed>>

\* The request fails, or dies.
Fail(c) ==
  /\ deskwork[c] # Nothing /\ Done(c)
  /\ behind' = behind \ {c}
  /\ exposed' = IF Has(c, "reset") /\ deskwork[c].saved THEN exposed \cup {deskwork[c].code}
                ELSE exposed
  /\ UNCHANGED <<role, account, meant, overwritten, code, issued, used, reused>>
------------------------------------------------------------------------------
(* One statement, or one that does not depend on what was read before *)

\* All staff of a restaurant or one: queryset.update and update_fields.
Block(u, on) ==
  /\ Exists(u) /\ role[u] # "customer"
  /\ account' = [account EXCEPT ![u].active = on]
  /\ meant' = IF meant[u] = Nothing THEN meant ELSE [meant EXCEPT ![u].active = on]
  /\ behind' = behind \cup OnRow(u)
  /\ UNCHANGED <<role, deskwork, overwritten, codes>>

\* Administrators delete guests and staff.
DeleteAccount(u) ==
  /\ Exists(u) /\ Puts(u, Nothing, Nothing)
  /\ behind' = behind \cup OnRow(u)
  /\ UNCHANGED <<role, deskwork, overwritten, codes>>
------------------------------------------------------------------------------
(* One-time codes *)

AskCode(u) ==
  /\ Exists(u) /\ account[u].active /\ role[u] = "restaurant-admin"
  /\ issued < MaxCodes /\ issued' = issued + 1
  /\ code' = [code EXCEPT ![u] = issued + 1]
  /\ UNCHANGED <<role, account, meant, deskwork, behind, overwritten, used, reused, exposed>>

\* After ten minutes.
ExpireCode(u) ==
  /\ code[u] # Nothing /\ code' = [code EXCEPT ![u] = Nothing]
  /\ UNCHANGED <<role, account, meant, deskwork, behind, overwritten, issued, used, reused, exposed>>

\* Mutated form: the code stays until it expires.
KeepCode(c) ==
  /\ Has(c, "reset") /\ deskwork[c].saved /\ Done(c)
  /\ UNCHANGED <<role, account, meant, behind, overwritten, codes>>

\* The password is saved: the key is deleted, whichever code it holds.
DeleteCode(c) ==
  /\ Has(c, "reset") /\ deskwork[c].saved /\ Done(c)
  /\ code' = [code EXCEPT ![deskwork[c].u] = Nothing]
  /\ UNCHANGED <<role, account, meant, behind, overwritten, issued, used, reused, exposed>>

AccountsNext ==
  \/ \E c \in Desks, u \in Logins :
       \/ \E s \in Secrets : Enter(c, u, s)
       \/ ReadProfile(c, u) \/ ReadGuest(c, u) \/ ReadEmployee(c, u)
       \/ ReadAdmin(c, u) \/ ReadCode(c, u)
  \/ \E c \in Desks :
       \/ CreateAccount(c) \/ Fail(c) \/ DeleteCode(c)
       \/ \E v \in Sets.employee : SaveRow(c, v)
  \/ \E u \in Logins :
       (\E on \in BOOLEAN : Block(u, on)) \/ DeleteAccount(u) \/ AskCode(u) \/ ExpireCode(u)

AccountsSpec == AccountsInit /\ [][AccountsNext]_accountVars
------------------------------------------------------------------------------
(* Properties *)

\* Types of the rows, the requests and the codes.
AccountsTypeOK ==
  /\ role \in [Logins -> Roles]
  /\ {account, meant} \subseteq [Logins -> Account \cup {Nothing}]
  /\ deskwork \in [Desks -> Work \cup Entry \cup {Nothing}]
  /\ behind \subseteq Desks /\ overwritten \subseteq Logins
  /\ code \in [Logins -> Codes \cup {Nothing}] /\ issued \in 0..MaxCodes
  /\ used \cup reused \cup exposed \subseteq Codes

\* Who was blocked stays blocked until an administrator unblocks him, whatever
\* he and others save meanwhile, a password that was set opens the account
\* until another is set, and who was deleted stays so, unless a request saved a
\* row that had changed since it read it.
AccountsKept == \A u \in Logins : u \notin overwritten => account[u] = meant[u]

\* A code changes one password once, however requests for codes, confirmations
\* and expiry follow each other, unless two confirmations hold it at the same
\* time or one dies before it has deleted it.
CodesOnce == reused \subseteq exposed
=============================================================================
