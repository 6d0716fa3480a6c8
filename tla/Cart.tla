-------------------------------- MODULE Cart --------------------------------
(* The cart service.  A cart is one value in Redis.  A request of the page,  *)
(* or of the AI agent in the guest's name, checks the dish, reads the cart,  *)
(* changes its copy and writes all of it back; several may run at once, also *)
(* for one guest.  Prices and availability are the service's own copy of the *)
(* menu, which MenuSnapshots is about.                                       *)
(*                                                                           *)
(* Names and images, and the sums of the answer, are left out.              *)
EXTENDS Integers, FiniteSets

CONSTANTS
  Guests, Foods, Offers, Quantities,
  Servers,      \* requests that run at the same time
  MaxQuantity   \* bounds the items of a dish in a cart, not in the code

ASSUME CartAssumption ==
  /\ Offers \subseteq [price : Nat, original : Nat]
  /\ Quantities \subseteq Int
  /\ MaxQuantity \in Nat

VARIABLES
  cart,
  offer,     \* the dishes that are available, with their prices
  request,   \* what each request has done so far
  outdated   \* requests whose cart was written since they read it

cartVars == <<cart, offer, request, outdated>>

torn == {request[p].g : p \in outdated}
Contract == INSTANCE CartContract
------------------------------------------------------------------------------
Idle == [step |-> "idle"]
Busy(p) == request[p] # Idle
Reading(g) == {p \in Servers : request[p].step = "read" /\ request[p].g = g}

CartInit ==
  /\ cart = [g \in Guests |-> Contract!Empty]
  /\ offer \in [Foods -> Offers]
  /\ request = [p \in Servers |-> Idle]
  /\ outdated = {}

\* An event of the menu: a dish is not available, or is, at a price.
MenuChanges(d) ==
  /\ \/ \E o \in Offers : offer' = [f \in DOMAIN offer \cup {d} |-> IF f = d THEN o ELSE offer[f]]
     \/ offer' = Contract!Without(offer, d)
  /\ UNCHANGED <<cart, request, outdated>>

\* Mutated form: a dish that is not on the menu costs nothing.
AskAnything(p, g, d, q) ==
  /\ ~Busy(p)
  /\ request' = [request EXCEPT ![p] =
       [step |-> "asked", g |-> g, d |-> d, q |-> q,
        offer |-> IF d \in DOMAIN offer THEN offer[d] ELSE [price |-> 0, original |-> 0]]]
  /\ UNCHANGED <<cart, offer, outdated>>

\* An addition finds its dish on the menu, at its price of that moment.
Ask(p, g, d, q) ==
  /\ ~Busy(p) /\ d \in DOMAIN offer
  /\ request' = [request EXCEPT ![p] =
       [step |-> "asked", g |-> g, d |-> d, q |-> q, offer |-> offer[d]]]
  /\ UNCHANGED <<cart, offer, outdated>>

\* The serializers of the page bound the quantity; the agent's views take any.
AddItem(p, g, d, q) == q >= 1 /\ Ask(p, g, d, q)
AICartAddItem(p, g, d, q) == Ask(p, g, d, q)

\* The request has read the cart, and what it will write is settled.
WillWrite(p, g, c) ==
  /\ request' = [request EXCEPT ![p] = [step |-> "read", g |-> g, written |-> c]]
  /\ UNCHANGED <<cart, offer, outdated>>

Add(p) ==
  LET r == request[p]
  IN r.step = "asked" /\ WillWrite(p, r.g, Contract!Added(cart[r.g], r.d, r.offer, r.q))

\* Mutated form: a quantity of zero is stored.
SetAsIs(p, g, d, q) ==
  /\ ~Busy(p) /\ d \in DOMAIN cart[g]
  /\ WillWrite(p, g, [cart[g] EXCEPT ![d].quantity = q])

\* "Item not in cart" otherwise.
Set(p, g, d, q) ==
  /\ ~Busy(p) /\ d \in DOMAIN cart[g]
  /\ WillWrite(p, g, Contract!SetTo(cart[g], d, q))

UpdateItem(p, g, d, q) == q >= 0 /\ Set(p, g, d, q)
AICartUpdateItem(p, g, d, q) == Set(p, g, d, q)

\* The agent's view answers "removed" also if there is nothing to remove.
RemoveItem(p, g, d) ==
  /\ ~Busy(p) /\ d \in DOMAIN cart[g]
  /\ WillWrite(p, g, Contract!Without(cart[g], d))

InBounds(c) == \A d \in DOMAIN c : c[d].quantity \in -MaxQuantity..MaxQuantity

Store(p) ==
  LET r == request[p]
  IN /\ r.step = "read" /\ InBounds(r.written)
     /\ cart' = [cart EXCEPT ![r.g] = r.written]
     /\ outdated' = (outdated \cup Reading(r.g)) \ {p}
     /\ request' = [request EXCEPT ![p] = Idle]
     /\ UNCHANGED offer

\* The guest or the agent clears the cart, or it was not written for a day.
Vanish(g) ==
  /\ cart[g] # Contract!Empty
  /\ cart' = [cart EXCEPT ![g] = Contract!Empty]
  /\ outdated' = outdated \cup Reading(g)
  /\ UNCHANGED <<offer, request>>

CartNext ==
  \/ \E d \in Foods : MenuChanges(d)
  \/ \E g \in Guests : Vanish(g)
  \/ \E p \in Servers, g \in Guests, d \in Foods :
       \/ \E q \in Quantities : \/ AddItem(p, g, d, q) \/ AICartAddItem(p, g, d, q)
                               \/ UpdateItem(p, g, d, q) \/ AICartUpdateItem(p, g, d, q)
       \/ RemoveItem(p, g, d)
  \/ \E p \in Servers : Add(p) \/ Store(p)

CartSpec == CartInit /\ [][CartNext]_cartVars
------------------------------------------------------------------------------
(* Properties *)

Items == [price : Nat, original : Nat, quantity : Int]
Known(c) == DOMAIN c \subseteq Foods /\ \A d \in DOMAIN c : c[d] \in Items

\* Types of carts, menu and requests.
CartTypeOK ==
  /\ DOMAIN cart = Guests /\ \A g \in Guests : Known(cart[g])
  /\ DOMAIN offer \subseteq Foods /\ \A d \in DOMAIN offer : offer[d] \in Offers
  /\ outdated \subseteq {p \in Servers : request[p].step = "read"}
  /\ \A p \in Servers :
       \/ request[p] = Idle
       \/ request[p] \in [step : {"asked"}, g : Guests, d : Foods, q : Quantities, offer : Offers]
       \/ /\ request[p].step = "read"
          /\ request[p].g \in Guests /\ Known(request[p].written)

\* A guest's requests, of the page and of the agent, change the cart one by
\* one, each as it finds it, unless one of them wrote it between the other's
\* read and write.
CartIsAtomic == Contract!Spec
=============================================================================
