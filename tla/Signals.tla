------------------------------- MODULE Signals -------------------------------
(* What recommendations are made from: the dishes a guest has viewed, his     *)
(* cart, his orders and the menu.  The AI service keeps each in Redis for     *)
(* some minutes; a lookup that finds nothing there queries the source and     *)
(* stores what it got, of the views what some replica had.  A view is stored  *)
(* and then drops the history from the cache; the agent drops the cart from   *)
(* it and then changes the cart; other services change cart, orders and menu  *)
(* without a word.                                                            *)
(*                                                                            *)
(* A behaviour is about one of the four.  What it contains is the number of   *)
(* its last change; how it is ranked is left out.                             *)
EXTENDS Naturals

CONSTANTS
  Lookups,     \* lookups that run at the same time
  Tellers,     \* requests that change the source and the cache
  MaxChanges,  \* bounds the changes, not in the code
  NoSignal     \* nothing cached, or queried

ASSUME SignalsAssumption == MaxChanges \in Nat /\ NoSignal \notin Nat

VARIABLES
  source,   \* which of the four
  current,   \* the source's last change
  cached,   \* what Redis has of it
  lookup,   \* what each lookup has queried and not yet stored
  teller,   \* how far each request has come
  doubtful  \* something older may be cached: see Doubt

signalVars == <<source, current, cached, lookup, teller, doubtful>>
------------------------------------------------------------------------------
Sources == {"views", "cart", "orders", "menu"}

SignalsInit ==
  /\ source \in Sources
  /\ current = 0 /\ cached = NoSignal
  /\ lookup = [r \in Lookups |-> NoSignal]
  /\ teller = [t \in Tellers |-> "idle"] /\ doubtful = FALSE

UnderWay == \E r \in Lookups : lookup[r] # NoSignal

\* The source changes, and the cache does not.
Change ==
  /\ current < MaxChanges /\ current' = current + 1
  /\ UNCHANGED <<source, cached, lookup>>

\* Redis had nothing when the lookup asked, or could not be asked.  The views
\* are read without ConsistentRead.
LookUp(r) ==
  /\ lookup[r] = NoSignal
  /\ \E v \in IF source = "views" THEN 0..current ELSE {current} :
       /\ lookup' = [lookup EXCEPT ![r] = v]
       /\ doubtful' = (doubtful \/ v # current)
  /\ UNCHANGED <<source, current, cached, teller>>

\* What was queried is stored, unless query or store failed.
StoreSignal(r) ==
  /\ lookup[r] # NoSignal
  /\ cached' \in {lookup[r], cached}
  /\ lookup' = [lookup EXCEPT ![r] = NoSignal]
  /\ UNCHANGED <<source, current, teller, doubtful>>

\* setex
ExpireSignal ==
  /\ cached # NoSignal /\ cached' = NoSignal
  /\ doubtful' = (doubtful /\ UnderWay)
  /\ UNCHANGED <<source, current, lookup, teller>>

\* The guest's page, an order or an administrator.
ChangeElsewhere ==
  /\ source # "views" /\ Change
  /\ doubtful' = (doubtful \/ cached # NoSignal \/ UnderWay)
  /\ UNCHANGED teller

\* An error is ignored, and the history dropped all the same.
StoreView(t) ==
  /\ source = "views" /\ teller[t] = "idle"
  /\ teller' = [teller EXCEPT ![t] = "stored"]
  /\ Change \/ UNCHANGED <<source, current, cached, lookup>>
  /\ UNCHANGED doubtful

\* Mutated form: only the view is stored.
KeepHistory(t) ==
  /\ teller[t] = "stored"
  /\ teller' = [teller EXCEPT ![t] = "idle"]
  /\ UNCHANGED <<source, current, cached, lookup, doubtful>>

\* Only lookups that are under way now can bring the old history back.
DropHistory(t) ==
  /\ teller[t] = "stored"
  /\ cached' = NoSignal
  /\ doubtful' = UnderWay
  /\ teller' = [teller EXCEPT ![t] = "idle"]
  /\ UNCHANGED <<source, current, lookup>>

\* Redis is out of reach, or the process dies.
DropFails(t) ==
  /\ teller[t] = "stored"
  /\ doubtful' = TRUE
  /\ teller' = [teller EXCEPT ![t] = "idle"]
  /\ UNCHANGED <<source, current, cached, lookup>>

\* Before the call of the cart service; an error is ignored.
InvalidateCart(t) ==
  /\ source = "cart" /\ teller[t] = "idle"
  /\ teller' = [teller EXCEPT ![t] = "dropped"]
  /\ \/ cached' = NoSignal /\ doubtful' = (doubtful /\ UnderWay)
     \/ UNCHANGED <<cached, doubtful>>
  /\ UNCHANGED <<source, current, lookup>>

\* A lookup since then, or before, may have read the old cart.
ChangeCart(t) ==
  /\ teller[t] = "dropped" /\ Change
  /\ teller' = [teller EXCEPT ![t] = "idle"]
  /\ doubtful' = (doubtful \/ cached # NoSignal \/ UnderWay)

CartCallFails(t) ==
  /\ teller[t] = "dropped"
  /\ teller' = [teller EXCEPT ![t] = "idle"]
  /\ UNCHANGED <<source, current, cached, lookup, doubtful>>

SignalsNext ==
  \/ \E r \in Lookups : LookUp(r) \/ StoreSignal(r)
  \/ \E t \in Tellers :
       \/ StoreView(t) \/ DropHistory(t) \/ DropFails(t)
       \/ InvalidateCart(t) \/ ChangeCart(t) \/ CartCallFails(t)
  \/ ExpireSignal \/ ChangeElsewhere

SignalsSpec == SignalsInit /\ [][SignalsNext]_signalVars
------------------------------------------------------------------------------
(* Properties *)

\* Types of source and cache.
SignalsTypeOK ==
  /\ source \in Sources /\ current \in 0..MaxChanges
  /\ cached \in (0..current) \cup {NoSignal}
  /\ lookup \in [Lookups -> (0..current) \cup {NoSignal}]
  /\ teller \in [Tellers -> {"idle", "stored", "dropped"}] /\ doubtful \in BOOLEAN

\* Recommendations are made from what the source holds.  The history that is
\* cached is that of the views stored by all requests that are over, other
\* lookups at the same time notwithstanding, unless one had queried before the
\* cache was dropped, or was answered with an older one; a change of cart,
\* orders or menu is seen if nothing was cached or being looked up when it was
\* made.  (A view of the same second as another replaces it in the source.)
SignalsFollow ==
  ~doubtful /\ (\A t \in Tellers : teller[t] # "stored") => cached \in {current, NoSignal}
==============================================================================
