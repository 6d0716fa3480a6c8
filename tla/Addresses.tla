------------------------------ MODULE Addresses ------------------------------
(* The addresses of a guest in the auth service.  One of them is the default *)
(* one: a request that adds it first takes the mark from the others, in a    *)
(* statement and a transaction of its own, and then inserts its row.         *)
(*                                                                           *)
(* One guest, since guests share nothing.  No view changes or deletes an     *)
(* address; what it says is left out.                                        *)

CONSTANTS
  Places,   \* addresses
  Savers,   \* requests that run at the same time
  NoPlace   \* no address

ASSUME AddressesAssumption == NoPlace \notin Places

VARIABLES
  addresses,  \* committed rows
  marked,     \* those of them that are the default
  saver,      \* the address that each request is about to insert as default
  chosen,     \* the default address that was inserted last
  huddled,    \* requests that met another
  unsettled   \* requests met, or one failed halfway, since one was alone

addressVars == <<addresses, marked, saver, chosen, huddled, unsettled>>
------------------------------------------------------------------------------
AddressesInit ==
  /\ addresses = {} /\ marked = {} /\ saver = [r \in Savers |-> NoPlace]
  /\ chosen = NoPlace /\ huddled = {} /\ unsettled = FALSE

Unsaved(p) == p \notin addresses /\ \A r \in Savers : saver[r] # p
Midway == {r \in Savers : saver[r] # NoPlace}
Ends(r) ==
  /\ saver' = [saver EXCEPT ![r] = NoPlace] /\ huddled' = huddled \ {r}

\* An address that is not to be the default leaves the others alone.
AddAddress(p) ==
  /\ Unsaved(p) /\ addresses' = addresses \cup {p}
  /\ UNCHANGED <<marked, saver, chosen, huddled, unsettled>>

\* Mutated form: the others keep the mark.
KeepMarks(r, p) ==
  /\ saver[r] = NoPlace /\ Unsaved(p)
  /\ saver' = [saver EXCEPT ![r] = p]
  /\ huddled' = IF Midway = {} THEN huddled ELSE huddled \cup Midway \cup {r}
  /\ UNCHANGED <<addresses, marked, chosen, unsettled>>

\* UserAddress.save: the rows that are committed lose the mark.
Unmark(r, p) ==
  /\ saver[r] = NoPlace /\ Unsaved(p)
  /\ marked' = {}
  /\ saver' = [saver EXCEPT ![r] = p]
  /\ huddled' = IF Midway = {} THEN huddled ELSE huddled \cup Midway \cup {r}
  /\ UNCHANGED <<addresses, chosen, unsettled>>

Insert(r) ==
  /\ r \in Midway
  /\ addresses' = addresses \cup {saver[r]} /\ marked' = marked \cup {saver[r]}
  /\ chosen' = saver[r] /\ unsettled' = (r \in huddled)
  /\ Ends(r)

\* The insertion fails, or the process dies before it.
InsertFails(r) ==
  /\ r \in Midway /\ Ends(r) /\ unsettled' = TRUE
  /\ UNCHANGED <<addresses, marked, chosen>>

AddressesNext ==
  \/ \E p \in Places : AddAddress(p)
  \/ \E r \in Savers : Insert(r) \/ InsertFails(r) \/ \E p \in Places : Unmark(r, p)

AddressesSpec == AddressesInit /\ [][AddressesNext]_addressVars
------------------------------------------------------------------------------
(* Properties *)

\* Types of rows and requests.
AddressesTypeOK ==
  /\ addresses \subseteq Places /\ marked \subseteq addresses
  /\ saver \in [Savers -> Places \cup {NoPlace}] /\ chosen \in Places \cup {NoPlace}
  /\ huddled \subseteq Midway /\ unsettled \in BOOLEAN

\* A guest who has chosen a default address has that one and no other, unless
\* two additions overlapped or one failed halfway: the next one alone sets it
\* right again.
DefaultFollows ==
  Midway = {} /\ ~unsettled => marked = {chosen} \ {NoPlace}
==============================================================================
