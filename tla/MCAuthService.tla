--------------------------- MODULE MCAuthService ---------------------------
(* Tables in three services, and accounts, addresses, tokens, the views of   *)
(* tables and the creation of restaurants in the auth service, for TLC.  A   *)
(* behaviour is of one of the six, which share no state here: their states   *)
(* add up instead of multiplying.                                            *)
EXTENDS Tables, Accounts, Addresses, Tokens, TableViews, TenantProvisioning, TLC

VARIABLE part

AuthInit ==
  /\ Init /\ AccountsInit /\ AddressesInit /\ TokensInit /\ ViewsInit /\ TenantInit
  /\ part \in {"tables", "accounts", "addresses", "tokens", "views", "tenants"}
  /\ part # "accounts" => role = [u \in Logins |-> "customer"]
  /\ part # "tokens" => rank = [h \in Holders |-> "customer"]
  /\ part # "views" =>
       /\ table = [active |-> TRUE, occupied |-> FALSE, by |-> {}, manual |-> FALSE]
       /\ bookings = {} /\ users = [registered |-> {}, blocked |-> {}]

AuthNext ==
  /\ UNCHANGED part
  /\ \/ part = "tables" /\ Next
        /\ UNCHANGED <<accountVars, addressVars, tokenVars, viewVars, tenantVars>>
     \/ part = "accounts" /\ AccountsNext
        /\ UNCHANGED <<vars, addressVars, tokenVars, viewVars, tenantVars>>
     \/ part = "addresses" /\ AddressesNext
        /\ UNCHANGED <<vars, accountVars, tokenVars, viewVars, tenantVars>>
     \/ part = "tokens" /\ TokensNext
        /\ UNCHANGED <<vars, accountVars, addressVars, viewVars, tenantVars>>
     \/ part = "views" /\ ViewsNext
        /\ UNCHANGED <<vars, accountVars, addressVars, tokenVars, tenantVars>>
     \/ part = "tenants" /\ TenantNext
        /\ UNCHANGED <<vars, accountVars, addressVars, tokenVars, viewVars>>

AuthSpec ==
  AuthInit /\ [][AuthNext]_<<part, vars, accountVars, addressVars, tokenVars, viewVars,
                            tenantVars>>

\* Types of the six modules' variables.
AuthTypeOK == TypeOK /\ AccountsTypeOK /\ AddressesTypeOK /\ TokensTypeOK
              /\ ViewsTypeOK /\ TenantTypeOK

\* What users and administrators set of an account holds, its status, its
\* password and its default address: AccountsKept and DefaultFollows.
ProfilesKept == AccountsKept /\ DefaultFollows

\* The .cfg gives Users, Secrets and Scanners the same values, and Desks and Calls.
Ids == Permutations(Users) \cup Permutations(Desks)

\* With a second session there is an edit, or a death, or a session that is
\* closed twice; with an edit, one service at most is in doubt then, and one
\* session event on its way; and with a second edit nothing dies and no session
\* is opened.
\* An account that was overwritten, of which AccountsKept says nothing, gets no
\* second code.
Explored ==
  /\ opened = 2 => Cardinality({x \in {"edit", "death", "twice"} :
                      CASE x = "edit"  -> edits > 0
                        [] x = "death" -> deaths > 0
                        [] x = "twice" -> \E e \in outbox : e.copy = 2}) <= 1
  /\ opened = 2 /\ edits > 0 =>
       Cardinality(doubt) <= 1 /\ Cardinality(Coming("auth") \cup Coming("ai")) <= 1
  /\ edits = 2 => deaths = 0 /\ opened = 0
  /\ overwritten # {} => issued <= 1
=============================================================================
