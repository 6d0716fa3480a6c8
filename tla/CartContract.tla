---------------------------- MODULE CartContract ----------------------------
(* What a cart is to its guest: each request changes the cart as it is at     *)
(* that moment.  The cart service keeps this unless another request wrote     *)
(* the cart while one had read it and not yet written it back.                *)
EXTENDS Integers

CONSTANTS
  Guests,
  Foods,       \* dishes
  Offers,      \* what a dish may cost: records of price and original price
  Quantities   \* what a request may ask for

VARIABLES
  cart,   \* the items of each guest's cart, by dish
  torn    \* guests with a request whose cart was written since it read it

Empty == [d \in {} |-> d]
Item(o, q) == [price |-> o.price, original |-> o.original, quantity |-> q]

\* The price of a dish that is in the cart already stays.
Added(c, d, o, q) ==
  [f \in DOMAIN c \cup {d} |->
     IF f # d THEN c[f]
     ELSE IF d \in DOMAIN c THEN [c[d] EXCEPT !.quantity = @ + q]
     ELSE Item(o, q)]
Without(c, d) == [f \in DOMAIN c \ {d} |-> c[f]]
SetTo(c, d, q) == IF q <= 0 THEN Without(c, d) ELSE [c EXCEPT ![d].quantity = q]

Init == cart = [g \in Guests |-> Empty]

Puts(g, c) == cart' = [cart EXCEPT ![g] = c]
Add(g, d, o, q) == Puts(g, Added(cart[g], d, o, q))
Set(g, d, q) == d \in DOMAIN cart[g] /\ Puts(g, SetTo(cart[g], d, q))
Remove(g, d) == d \in DOMAIN cart[g] /\ Puts(g, Without(cart[g], d))
Clear(g) == Puts(g, Empty)

\* A request that lost sight of the cart writes what it made of an older one.
Overwrite(g) == g \in torn /\ \A h \in Guests \ {g} : cart'[h] = cart[h]

Next ==
  \E g \in Guests :
    \/ \E d \in Foods :
         \/ \E o \in Offers, q \in Quantities : Add(g, d, o, q)
         \/ \E q \in Quantities : Set(g, d, q)
         \/ Remove(g, d)
    \/ Clear(g)
    \/ Overwrite(g)

Spec == Init /\ [][Next]_cart
=============================================================================
