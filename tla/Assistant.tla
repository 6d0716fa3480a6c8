------------------------------ MODULE Assistant ------------------------------
(* The AI waiter orders what is in a guest's cart.  A call of place_order     *)
(* looks at the cart, posts an order with a key of its own, waits ten seconds *)
(* for the answer, clears the cart and forgets where the guest is.  The guest *)
(* and cart_add change the cart meanwhile: such a request reads the cart and  *)
(* later writes all of it.  The guest's messages run at the same time, in one *)
(* process or in two, so calls may overlap; a process may die.                *)
(*                                                                            *)
(* A portion is one unit of a dish that was put in the cart.  The keys are    *)
(* never the same, so the order service takes every request for a new one.    *)
EXTENDS Naturals, FiniteSets

CONSTANTS
  Portions,
  Hands,     \* requests that change the cart at the same time
  Calls,     \* calls of place_order, each made once
  Pods       \* processes of the AI service

VARIABLES
  wanted,    \* portions that have been put in the cart
  basket,    \* portions in the cart
  returned,  \* portions that the guest took out of it
  touching,  \* the cart that each request has read, and the one it will write
  home,      \* the process that each call is made in
  located,   \* processes whose USER_LOCATION_CACHE holds the guest's place
  placing,   \* how far each call has come, with what it saw in the cart
  pending,   \* calls whose request the order service may still carry out
  bought,    \* what each order contains
  astray     \* portions that something happened to while they were ordered

assistantVars == <<wanted, basket, returned, touching, home, located, placing, pending, bought, astray>>
cartSide == <<wanted, basket, returned, touching, home>>
------------------------------------------------------------------------------
Reached(c, step) == placing[c].step = step
\* The call has looked at the cart and has yet to clear it.
Holds(c) == Reached(c, "posted") \/ Reached(c, "placed")
Ordering == UNION {placing[c].items : c \in {d \in Calls : Holds(d)}}
Goes(c, step) == placing' = [placing EXCEPT ![c].step = step]

\* What the request will put in the cart, and take out of it.
Untouched == [read |-> {}, write |-> {}]
Puts(h) == touching[h].write \ touching[h].read
Takes(h) == touching[h].read \ touching[h].write

AssistantInit ==
  /\ wanted = {} /\ basket = {} /\ returned = {}
  /\ touching = [h \in Hands |-> Untouched]
  /\ home \in [Calls -> Pods] /\ located = {}
  /\ placing = [c \in Calls |-> [step |-> "idle", items |-> {}]]
  /\ pending = {} /\ bought = [c \in Calls |-> {}]
  /\ astray = {}

\* get_cart, and what the request makes of it.
Touch(h, cart) ==
  /\ touching[h] = Untouched
  /\ touching' = [touching EXCEPT ![h] = [read |-> basket, write |-> cart]]
  /\ UNCHANGED <<wanted, basket, returned, home, located, placing, pending, bought, astray>>

\* The page or cart_add is about to put a portion in the cart.
PutIn(h, p) ==
  /\ p \notin wanted /\ \A k \in Hands : p \notin Puts(k)
  /\ Touch(h, basket \cup {p})

\* A portion is about to be removed.
TakeOut(h, p) == p \in basket /\ Touch(h, basket \ {p})

\* save_cart writes all of the cart over what has happened to it since: that is
\* undone, what was ordered meanwhile comes back.  Who looked before does not
\* see what is put in, and orders what is taken out.
Overwritten(h) == (basket \ touching[h].read) \cup (touching[h].read \ basket)
SaveCart(h) ==
  /\ touching[h] # Untouched
  /\ touching' = [touching EXCEPT ![h] = Untouched]
  /\ basket' = touching[h].write
  /\ wanted' = wanted \cup Puts(h) /\ returned' = returned \cup Takes(h)
  /\ astray' = astray \cup Overwritten(h) \cup (Takes(h) \cap Ordering)
                 \cup IF \E c \in Calls : Holds(c) THEN Puts(h) ELSE {}
  /\ UNCHANGED <<home, located, placing, pending, bought>>

\* The guest clears the cart: the key is deleted.
EmptyCart ==
  /\ basket # {} /\ basket' = {} /\ returned' = returned \cup basket
  /\ astray' = astray \cup (basket \cap Ordering)
  /\ UNCHANGED <<wanted, touching, home, located, placing, pending, bought>>

\* A message brings the guest's coordinates; one without them changes nothing.
Hear(p) == /\ p \notin located /\ located' = located \cup {p}
           /\ UNCHANGED <<cartSide, placing, pending, bought, astray>>

\* "I could not determine your location" otherwise.
CallPlaceOrder(c) ==
  /\ Reached(c, "idle") /\ home[c] \in located
  /\ Goes(c, "looking")
  /\ UNCHANGED <<cartSide, located, pending, bought, astray>>

\* The cart is fetched, and its items are posted at once.
PostOrder(c) ==
  /\ Reached(c, "looking") /\ basket # {}
  /\ placing' = [placing EXCEPT ![c] = [step |-> "posted", items |-> basket]]
  /\ pending' = pending \cup {c}
  /\ astray' = astray \cup (basket \cap Ordering)
  /\ UNCHANGED <<cartSide, located, bought>>

\* The cart is empty or cannot be fetched.
NothingToOrder(c) ==
  /\ Reached(c, "looking")
  /\ Goes(c, "done")
  /\ UNCHANGED <<cartSide, located, pending, bought, astray>>

\* The order service makes the order, whether or not anyone still waits.
MakeOrder(c) ==
  /\ c \in pending
  /\ bought' = [bought EXCEPT ![c] = placing[c].items]
  /\ pending' = pending \ {c}
  /\ UNCHANGED <<cartSide, located, placing, astray>>

\* The order service refuses, or the request never reached it.
RefuseOrder(c) ==
  /\ c \in pending
  /\ pending' = pending \ {c}
  /\ placing' = IF Reached(c, "posted") THEN [placing EXCEPT ![c].step = "done"] ELSE placing
  /\ UNCHANGED <<cartSide, located, bought, astray>>

ReceiveAnswer(c) ==
  /\ Reached(c, "posted") /\ bought[c] # {}
  /\ Goes(c, "placed")
  /\ UNCHANGED <<cartSide, located, pending, bought, astray>>

\* No answer in time: "Order failed", and cart and place are kept.
AnswerLate(c) ==
  /\ Reached(c, "posted")
  /\ Goes(c, "done")
  /\ astray' = astray \cup placing[c].items
  /\ UNCHANGED <<cartSide, located, pending, bought>>

\* Mutated form: an order leaves the cart as it is.
KeepCart(c) ==
  /\ Reached(c, "placed")
  /\ located' = located \ {home[c]}
  /\ Goes(c, "done")
  /\ UNCHANGED <<cartSide, pending, bought, astray>>

ClearAfterOrder(c) ==
  /\ Reached(c, "placed")
  /\ basket' = {} /\ located' = located \ {home[c]}
  /\ Goes(c, "done")
  /\ UNCHANGED <<wanted, returned, touching, home, pending, bought, astray>>

\* An error is ignored; an exception leaves the place known.  The cart service
\* may have cleared the cart.
ClearFails(c) ==
  /\ Reached(c, "placed")
  /\ basket' \in {basket, {}} /\ located' \in {located, located \ {home[c]}}
  /\ Goes(c, "done")
  /\ astray' = astray \cup placing[c].items
  /\ UNCHANGED <<wanted, returned, touching, home, pending, bought>>

AgentDies(p) ==
  /\ placing' = [c \in Calls |-> IF home[c] # p \/ Reached(c, "idle") THEN placing[c]
                                 ELSE [placing[c] EXCEPT !.step = "done"]]
  /\ located' = located \ {p}
  /\ astray' = astray \cup UNION {placing[c].items : c \in {d \in Calls : home[d] = p /\ Holds(d)}}
  /\ UNCHANGED <<cartSide, pending, bought>>

AssistantNext ==
  \/ \E h \in Hands : SaveCart(h) \/ \E p \in Portions : PutIn(h, p) \/ TakeOut(h, p)
  \/ EmptyCart \/ \E p \in Pods : Hear(p) \/ AgentDies(p)
  \/ \E c \in Calls :
       \/ CallPlaceOrder(c) \/ PostOrder(c) \/ NothingToOrder(c)
       \/ MakeOrder(c) \/ RefuseOrder(c) \/ ReceiveAnswer(c) \/ AnswerLate(c)
       \/ ClearAfterOrder(c) \/ ClearFails(c)

AssistantSpec == AssistantInit /\ [][AssistantNext]_assistantVars
------------------------------------------------------------------------------
(* Properties *)

\* Types of the cart and the calls.
AssistantTypeOK ==
  /\ wanted \subseteq Portions /\ basket \subseteq wanted /\ returned \subseteq wanted
  /\ touching \in [Hands -> [read : SUBSET Portions, write : SUBSET Portions]]
  /\ home \in [Calls -> Pods] /\ located \subseteq Pods /\ astray \subseteq wanted
  /\ placing \in [Calls -> [step : {"idle", "looking", "posted", "placed", "done"},
                            items : SUBSET Portions]]
  /\ pending \subseteq Calls /\ bought \in [Calls -> SUBSET Portions]

\* What a guest put in the cart is ordered at most once, is not lost, and is in
\* the cart no more when it has been ordered or given back, unless while a call
\* ordered it another did too or the guest changed it, a call had no answer, or
\* a request wrote an outdated cart in which it was, or was not.
OrderedOnce ==
  \A p \in wanted \ astray :
    LET in == {c \in Calls : p \in bought[c]}
    IN /\ Cardinality(in) <= 1
       /\ p \in basket \cup returned \/ in # {}
       /\ p \in returned => in = {} /\ p \notin basket
       /\ p \in basket => \A c \in in : Holds(c)
=============================================================================
