-------------------------- MODULE Storefront_proofs --------------------------
(* What guests see, for any number of them, of requests and of dishes: a      *)
(* cart changes by one request at a time, each as it finds it, except where   *)
(* requests tear; what cashiers record stays, and a bill lists what is at the *)
(* table; lists of dishes are current and ratings those of the reviews; users *)
(* are pushed to on their last device, once for each event; the AI waiter     *)
(* orders a portion once; and what it tells, and recommends, follows what is  *)
(* announced and stored.                                                      *)
EXTENDS MCStorefront, FiniteSetTheorems, SequenceTheorems, TLAPS

(* Cart *)

\* What a request writes is what it asks for, of the cart c of guest g.
Follows(c, w) ==
  \/ \E d \in Foods, o \in Offers, q \in Quantities : w = Contract!Added(c, d, o, q)
  \/ \E d \in Foods, q \in Quantities : d \in DOMAIN c /\ w = Contract!SetTo(c, d, q)
  \/ \E d \in Foods : d \in DOMAIN c /\ w = Contract!Without(c, d)

\* A request has read the cart that it will write, or is known to be outdated.
Sound(p) ==
  /\ request[p].step \in {"idle", "asked", "read"}
  /\ request[p].step = "asked" =>
       /\ request[p].g \in Guests /\ request[p].d \in Foods
       /\ request[p].offer \in Offers /\ request[p].q \in Quantities
  /\ request[p].step = "read" =>
       /\ request[p].g \in Guests
       /\ p \notin outdated => Follows(cart[request[p].g], request[p].written)

CartInv ==
  /\ DOMAIN cart = Guests /\ DOMAIN request = Servers
  /\ \A f \in DOMAIN offer : offer[f] \in Offers
  /\ \A p \in Servers : Sound(p)

LEMMA InitSound == CartInit => CartInv
  BY DEF CartInit, CartInv, Sound, Idle

\* Request p takes a step of its own that leaves carts and offers alone.
LEMMA StepSound ==
  ASSUME CartInv, NEW p \in Servers, NEW x,
         UNCHANGED <<cart, offer, outdated>>,
         request' = [request EXCEPT ![p] = x],
         Sound(p)'
  PROVE  CartInv'
<1>1. ASSUME NEW r \in Servers, r # p PROVE Sound(r)'
  <2>1. request'[r] = request[r]
    BY <1>1 DEF CartInv
  <2> QED BY <1>1, <2>1 DEF CartInv, Sound
<1> QED BY <1>1 DEF CartInv

LEMMA AskSound ==
  ASSUME CartInv, NEW p \in Servers, NEW g \in Guests, NEW d \in Foods, NEW q \in Quantities,
         Ask(p, g, d, q)
  PROVE  CartInv'
<1>1. request'[p] = [step |-> "asked", g |-> g, d |-> d, q |-> q, offer |-> offer[d]]
  BY DEF Ask, CartInv
<1>2. offer[d] \in Offers
  BY DEF Ask, CartInv
<1>3. Sound(p)'
  BY <1>1, <1>2 DEF Sound
<1> QED BY <1>3, StepSound DEF Ask

LEMMA WriteSound ==
  ASSUME CartInv, NEW p \in Servers, NEW g \in Guests, NEW c,
         WillWrite(p, g, c), Follows(cart[g], c)
  PROVE  CartInv'
<1>1. request'[p] = [step |-> "read", g |-> g, written |-> c]
  BY DEF WillWrite, CartInv
<1>2. Sound(p)'
  BY <1>1 DEF Sound, WillWrite, Follows
<1> QED BY <1>2, StepSound DEF WillWrite

\* The cart of guest g is replaced: who has read it is outdated.
LEMMA ReplaceSound ==
  ASSUME CartInv, NEW r \in Servers, NEW g \in Guests, NEW c,
         cart' = [cart EXCEPT ![g] = c], request'[r] = request[r],
         r \in outdated' <=> r \in outdated \cup Reading(g)
  PROVE  Sound(r)'
<1>1. CASE request[r].step = "read" /\ request[r].g = g
  <2>1. r \in outdated'
    BY <1>1 DEF Reading
  <2> QED BY <1>1, <2>1 DEF CartInv, Sound
<1>2. CASE request[r].step = "read" /\ request[r].g # g
  <2>1. cart'[request[r].g] = cart[request[r].g] /\ (r \in outdated' <=> r \in outdated)
    BY <1>2 DEF Reading, CartInv, Sound
  <2> QED BY <1>2, <2>1 DEF CartInv, Sound, Follows
<1>3. CASE request[r].step # "read"
  BY <1>3 DEF CartInv, Sound
<1> QED BY <1>1, <1>2, <1>3

LEMMA StoreSound ==
  ASSUME CartInv, NEW p \in Servers, Store(p)
  PROVE  CartInv'
<1> DEFINE g == request[p].g
<1>1. /\ g \in Guests /\ cart' = [cart EXCEPT ![g] = request[p].written]
      /\ outdated' = (outdated \cup Reading(g)) \ {p}
      /\ request' = [request EXCEPT ![p] = Idle] /\ offer' = offer
  BY DEF Store, CartInv, Sound
<1>2. ASSUME NEW r \in Servers, r # p PROVE Sound(r)'
  <2>1. request'[r] = request[r]
    BY <1>1, <1>2 DEF CartInv
  <2>2. r \in outdated' <=> r \in outdated \cup Reading(g)
    BY <1>1, <1>2
  <2> QED BY <1>1, <2>1, <2>2, ReplaceSound
<1>3. Sound(p)'
  BY <1>1 DEF CartInv, Sound, Idle
<1> QED BY <1>1, <1>2, <1>3 DEF CartInv

LEMMA VanishSound ==
  ASSUME CartInv, NEW g \in Guests, Vanish(g)
  PROVE  CartInv'
<1>1. ASSUME NEW r \in Servers PROVE Sound(r)'
  BY ReplaceSound DEF Vanish
<1> QED BY <1>1 DEF Vanish, CartInv

LEMMA MenuSound ==
  ASSUME CartInv, NEW d \in Foods, MenuChanges(d)
  PROVE  CartInv'
<1>1. ASSUME NEW r \in Servers PROVE Sound(r)'
  BY DEF MenuChanges, CartInv, Sound, Follows
<1>2. \A f \in DOMAIN offer' : offer'[f] \in Offers
  BY DEF MenuChanges, CartInv, Contract!Without
<1> QED BY <1>1, <1>2 DEF MenuChanges, CartInv

LEMMA NextSound == CartInv /\ [CartNext]_cartVars => CartInv'
<1> SUFFICES ASSUME CartInv, [CartNext]_cartVars PROVE CartInv'
  OBVIOUS
<1>1. CASE \E d \in Foods : MenuChanges(d)
  BY <1>1, MenuSound
<1>2. CASE \E g \in Guests : Vanish(g)
  BY <1>2, VanishSound
<1>3. ASSUME NEW p \in Servers, NEW g \in Guests, NEW d \in Foods, NEW q \in Quantities,
             AddItem(p, g, d, q) \/ AICartAddItem(p, g, d, q)
      PROVE  CartInv'
  BY <1>3, AskSound DEF AddItem, AICartAddItem
<1>4. ASSUME NEW p \in Servers, NEW g \in Guests, NEW d \in Foods, NEW q \in Quantities,
             UpdateItem(p, g, d, q) \/ AICartUpdateItem(p, g, d, q)
      PROVE  CartInv'
  <2>1. WillWrite(p, g, Contract!SetTo(cart[g], d, q)) /\ d \in DOMAIN cart[g]
    BY <1>4 DEF UpdateItem, AICartUpdateItem, Set
  <2>2. Follows(cart[g], Contract!SetTo(cart[g], d, q))
    BY <2>1 DEF Follows
  <2> QED BY <2>1, <2>2, WriteSound
<1>5. ASSUME NEW p \in Servers, NEW g \in Guests, NEW d \in Foods, RemoveItem(p, g, d)
      PROVE  CartInv'
  <2>1. WillWrite(p, g, Contract!Without(cart[g], d)) /\ d \in DOMAIN cart[g]
    BY <1>5 DEF RemoveItem
  <2>2. Follows(cart[g], Contract!Without(cart[g], d))
    BY <2>1 DEF Follows
  <2> QED BY <2>1, <2>2, WriteSound
<1>6. ASSUME NEW p \in Servers, Add(p) PROVE CartInv'
  <2> DEFINE r == request[p]
  <2>1. /\ r.g \in Guests /\ r.d \in Foods /\ r.offer \in Offers /\ r.q \in Quantities
        /\ WillWrite(p, r.g, Contract!Added(cart[r.g], r.d, r.offer, r.q))
    BY <1>6 DEF Add, CartInv, Sound
  <2>2. Follows(cart[r.g], Contract!Added(cart[r.g], r.d, r.offer, r.q))
    BY <2>1 DEF Follows
  <2> HIDE DEF r
  <2> QED BY <2>1, <2>2, WriteSound
<1>7. ASSUME NEW p \in Servers, Store(p) PROVE CartInv'
  BY <1>7, StoreSound
<1>8. CASE UNCHANGED cartVars
  BY <1>8 DEF cartVars, CartInv, Sound, Follows, Reading
<1> QED BY <1>1, <1>2, <1>3, <1>4, <1>5, <1>6, <1>7, <1>8 DEF CartNext
------------------------------------------------------------------------------
\* A write puts the change into the cart as it is, or the request is torn.
LEMMA StoreMaps ==
  ASSUME CartInv, NEW p \in Servers, Store(p)
  PROVE  Contract!Next
<1> DEFINE g == request[p].g
           w == request[p].written
<1>1. /\ g \in Guests /\ cart' = [cart EXCEPT ![g] = w] /\ Sound(p) /\ request[p].step = "read"
  BY DEF Store, CartInv, Sound
<1>2. CASE p \in outdated
  <2>1. g \in torn
    BY <1>2 DEF torn
  <2>2. \A h \in Guests \ {g} : cart'[h] = cart[h]
    BY <1>1 DEF CartInv
  <2>3. Contract!Overwrite(g)
    BY <2>1, <2>2 DEF Contract!Overwrite
  <2> QED BY <1>1, <2>3 DEF Contract!Next
<1>3. CASE p \notin outdated
  <2>1. Follows(cart[g], w)
    BY <1>1, <1>3 DEF Sound
  <2>2. Contract!Puts(g, w)
    BY <1>1 DEF Contract!Puts
  <2> HIDE DEF g, w
  <2>3. ASSUME NEW d \in Foods, NEW o \in Offers, NEW q \in Quantities,
               w = Contract!Added(cart[g], d, o, q)
        PROVE  Contract!Add(g, d, o, q)
    BY <2>2, <2>3 DEF Contract!Add
  <2>4. ASSUME NEW d \in Foods, NEW q \in Quantities, d \in DOMAIN cart[g],
               w = Contract!SetTo(cart[g], d, q)
        PROVE  Contract!Set(g, d, q)
    BY <2>2, <2>4 DEF Contract!Set
  <2>5. ASSUME NEW d \in Foods, d \in DOMAIN cart[g], w = Contract!Without(cart[g], d)
        PROVE  Contract!Remove(g, d)
    BY <2>2, <2>5 DEF Contract!Remove
  <2> QED BY <1>1, <2>1, <2>3, <2>4, <2>5 DEF Follows, Contract!Next
<1> QED BY <1>2, <1>3

LEMMA VanishMaps ==
  ASSUME NEW g \in Guests, Vanish(g)
  PROVE  Contract!Next
<1>1. Contract!Clear(g)
  BY DEF Vanish, Contract!Clear, Contract!Puts
<1> QED BY <1>1 DEF Contract!Next

LEMMA NextMaps == CartInv /\ [CartNext]_cartVars => [Contract!Next]_cart
<1> SUFFICES ASSUME CartInv, [CartNext]_cartVars, cart' # cart PROVE Contract!Next
  OBVIOUS
<1>1. CartNext
  BY DEF cartVars
<1>2. \A d \in Foods : ~MenuChanges(d)
  BY DEF MenuChanges
<1>3. \A p \in Servers : \A g, c : ~WillWrite(p, g, c)
  BY DEF WillWrite
<1>4. ASSUME NEW p \in Servers, NEW g \in Guests, NEW d \in Foods
      PROVE  /\ ~RemoveItem(p, g, d)
             /\ \A q \in Quantities : /\ ~AddItem(p, g, d, q) /\ ~AICartAddItem(p, g, d, q)
                                     /\ ~UpdateItem(p, g, d, q) /\ ~AICartUpdateItem(p, g, d, q)
  BY <1>3 DEF AddItem, AICartAddItem, Ask, UpdateItem, AICartUpdateItem, Set, RemoveItem
<1>5. \A p \in Servers : ~Add(p)
  BY <1>3 DEF Add
<1>6. (\E g \in Guests : Vanish(g)) \/ (\E p \in Servers : Store(p))
  BY <1>1, <1>2, <1>4, <1>5 DEF CartNext
<1> QED BY <1>6, VanishMaps, StoreMaps

\* The cart service implements its contract: each request of the page and of
\* the agent changes the cart as it is when the request writes, except one
\* whose cart was written since it was read.
THEOREM CartsAreAtomic == CartSpec => CartIsAtomic
<1>1. CartInit => Contract!Init
  BY DEF CartInit, Contract!Init
<1> QED BY <1>1, InitSound, NextSound, NextMaps, PTL DEF CartSpec, CartIsAtomic, Contract!Spec
------------------------------------------------------------------------------
\* Every write of a request leaves the cart one of items with a quantity.
LEMMA FewerKnown ==
  ASSUME NEW c, Known(c), NEW d
  PROVE  Known(Contract!Without(c, d))
  BY DEF Known, Contract!Without

LEMMA SetKnown ==
  ASSUME NEW c, Known(c), NEW d \in DOMAIN c, NEW q \in Quantities
  PROVE  Known(Contract!SetTo(c, d, q))
<1>1. CASE q <= 0
  BY <1>1, FewerKnown DEF Contract!SetTo
<1>2. CASE ~(q <= 0)
  <2>1. Contract!SetTo(c, d, q) = [c EXCEPT ![d] = [c[d] EXCEPT !.quantity = q]]
    BY <1>2 DEF Contract!SetTo
  <2>2. [c[d] EXCEPT !.quantity = q] \in Items
    BY CartAssumption DEF Known, Items
  <2> QED BY <2>1, <2>2 DEF Known
<1> QED BY <1>1, <1>2

LEMMA AddedKnown ==
  ASSUME NEW c, Known(c), NEW d \in Foods, NEW o \in Offers, NEW q \in Quantities
  PROVE  Known(Contract!Added(c, d, o, q))
<1>1. q \in Int /\ o \in [price : Nat, original : Nat]
  BY CartAssumption
<1>2. Contract!Item(o, q) \in Items
  BY <1>1 DEF Contract!Item, Items
<1>3. ASSUME NEW x \in Items PROVE [x EXCEPT !.quantity = @ + q] \in Items
  BY <1>1 DEF Items
<1>4. PICK w : w = Contract!Added(c, d, o, q)
  OBVIOUS
<1>5. DOMAIN w = DOMAIN c \cup {d}
  BY <1>4 DEF Contract!Added
<1>6. ASSUME NEW f \in DOMAIN w PROVE w[f] \in Items
  <2>1. CASE f # d
    BY <1>4, <1>5, <1>6, <2>1 DEF Contract!Added, Known
  <2>2. CASE f = d /\ d \in DOMAIN c
    <3>1. w[f] = [c[d] EXCEPT !.quantity = @ + q] /\ c[d] \in Items
      BY <1>4, <1>5, <2>2 DEF Contract!Added, Known
    <3> QED BY <1>3, <3>1
  <2>3. CASE f = d /\ d \notin DOMAIN c
    BY <1>2, <1>4, <1>5, <2>3 DEF Contract!Added
  <2> QED BY <2>1, <2>2, <2>3
<1> QED BY <1>4, <1>5, <1>6 DEF Known

\* The type of request p, and a step of p that leaves carts and offers alone.
Shaped(p) ==
  \/ request[p] = Idle
  \/ request[p] \in [step : {"asked"}, g : Guests, d : Foods, q : Quantities, offer : Offers]
  \/ /\ request[p].step = "read"
     /\ request[p].g \in Guests /\ Known(request[p].written)

LEMMA StepTyped ==
  ASSUME CartTypeOK, CartInv, NEW p \in Servers, NEW x,
         UNCHANGED <<cart, offer, outdated>>, request' = [request EXCEPT ![p] = x],
         p \notin outdated \/ x.step = "read",
         \/ x \in [step : {"asked"}, g : Guests, d : Foods, q : Quantities, offer : Offers]
         \/ x.step = "read" /\ x.g \in Guests /\ Known(x.written)
  PROVE  CartTypeOK'
<1>1. request'[p] = x /\ \A r \in Servers : r # p => request'[r] = request[r]
  BY DEF CartInv
<1>2. outdated' \subseteq {r \in Servers : request'[r].step = "read"}
  BY <1>1 DEF CartTypeOK
<1>3. \A r \in Servers : Shaped(r)'
  BY <1>1 DEF CartTypeOK, Shaped
<1> QED BY <1>2, <1>3 DEF CartTypeOK, Shaped

LEMMA WriteTyped ==
  ASSUME CartTypeOK, CartInv, NEW p \in Servers, NEW g \in Guests, NEW c, Known(c),
         WillWrite(p, g, c)
  PROVE  CartTypeOK'
<1>1. PICK x : x = [step |-> "read", g |-> g, written |-> c]
  OBVIOUS
<1> QED BY <1>1, StepTyped DEF WillWrite

LEMMA RequestTyped ==
  ASSUME CartTypeOK, CartInv, NEW p \in Servers, NEW g \in Guests, NEW d \in Foods,
         \/ RemoveItem(p, g, d)
         \/ \E q \in Quantities : \/ AddItem(p, g, d, q) \/ AICartAddItem(p, g, d, q)
                                 \/ UpdateItem(p, g, d, q) \/ AICartUpdateItem(p, g, d, q)
  PROVE  CartTypeOK'
<1>1. \A h \in Guests : Known(cart[h])
  BY DEF CartTypeOK
<1>2. ASSUME NEW q \in Quantities, Ask(p, g, d, q) PROVE CartTypeOK'
  <2>1. PICK x : x = [step |-> "asked", g |-> g, d |-> d, q |-> q, offer |-> offer[d]]
    OBVIOUS
  <2>2. x \in [step : {"asked"}, g : Guests, d : Foods, q : Quantities, offer : Offers]
    BY <1>2, <2>1 DEF Ask, CartTypeOK
  <2>3. p \notin outdated
    BY <1>2 DEF Ask, Busy, Idle, CartTypeOK
  <2> QED BY <1>2, <2>1, <2>2, <2>3, StepTyped DEF Ask
<1>3. ASSUME NEW q \in Quantities, Set(p, g, d, q) PROVE CartTypeOK'
  <2>1. PICK c : c = Contract!SetTo(cart[g], d, q)
    OBVIOUS
  <2>2. d \in DOMAIN cart[g] /\ WillWrite(p, g, c)
    BY <1>3, <2>1 DEF Set
  <2>3. Known(c)
    BY <1>1, <2>1, <2>2, SetKnown
  <2> QED BY <2>2, <2>3, WriteTyped
<1>4. CASE RemoveItem(p, g, d)
  <2>1. PICK c : c = Contract!Without(cart[g], d)
    OBVIOUS
  <2>2. Known(c)
    BY <1>1, <2>1, FewerKnown
  <2> QED BY <1>4, <2>1, <2>2, WriteTyped DEF RemoveItem
<1> QED BY <1>2, <1>3, <1>4 DEF AddItem, AICartAddItem, UpdateItem, AICartUpdateItem

LEMMA AddTyped ==
  ASSUME CartTypeOK, CartInv, NEW p \in Servers, Add(p)
  PROVE  CartTypeOK'
<1>1. PICK r : r = request[p]
  OBVIOUS
<1>2. PICK c : c = Contract!Added(cart[r.g], r.d, r.offer, r.q)
  OBVIOUS
<1>3. r.step = "asked" /\ WillWrite(p, r.g, c)
  BY <1>1, <1>2 DEF Add
<1>4. r.g \in Guests /\ r.d \in Foods /\ r.offer \in Offers /\ r.q \in Quantities
  BY <1>1, <1>3 DEF CartTypeOK, Idle
<1>5. Known(cart[r.g])
  BY <1>4 DEF CartTypeOK
<1>6. Known(c)
  BY <1>2, <1>4, <1>5, AddedKnown
<1> QED BY <1>3, <1>4, <1>6, WriteTyped

LEMMA StoreTyped ==
  ASSUME CartTypeOK, CartInv, NEW p \in Servers, Store(p)
  PROVE  CartTypeOK'
<1>1. PICK r : r = request[p]
  OBVIOUS
<1>2. /\ r.step = "read" /\ request' = [request EXCEPT ![p] = Idle] /\ offer' = offer
      /\ cart' = [cart EXCEPT ![r.g] = r.written]
      /\ outdated' = (outdated \cup Reading(r.g)) \ {p}
  BY <1>1 DEF Store
<1>3. r.g \in Guests /\ Known(r.written)
  BY <1>1, <1>2 DEF CartTypeOK, Idle
<1>4. request'[p] = Idle /\ \A q \in Servers : q # p => request'[q] = request[q]
  BY <1>2 DEF CartInv
<1>5. DOMAIN cart' = Guests /\ \A g \in Guests : Known(cart'[g])
  BY <1>2, <1>3 DEF CartTypeOK
<1>6. outdated' \subseteq {q \in Servers : request'[q].step = "read"}
  BY <1>2, <1>4 DEF CartTypeOK, Reading
<1>7. \A q \in Servers : Shaped(q)'
  BY <1>4 DEF CartTypeOK, Shaped
<1> QED BY <1>2, <1>5, <1>6, <1>7 DEF CartTypeOK, Shaped

LEMMA VanishTyped ==
  ASSUME CartTypeOK, NEW g \in Guests, Vanish(g)
  PROVE  CartTypeOK'
<1>1. Known(Contract!Empty)
  BY DEF Known, Contract!Empty
<1>2. DOMAIN cart' = Guests /\ \A h \in Guests : Known(cart'[h])
  BY <1>1 DEF Vanish, CartTypeOK
<1> QED BY <1>2 DEF Vanish, CartTypeOK, Reading

LEMMA MenuTyped ==
  ASSUME CartTypeOK, NEW d \in Foods, MenuChanges(d)
  PROVE  CartTypeOK'
<1>1. DOMAIN offer' \subseteq Foods /\ \A f \in DOMAIN offer' : offer'[f] \in Offers
  BY DEF MenuChanges, Contract!Without, CartTypeOK
<1> QED BY <1>1 DEF MenuChanges, CartTypeOK

LEMMA NextCartTyped == CartTypeOK /\ CartInv /\ [CartNext]_cartVars => CartTypeOK'
<1> SUFFICES ASSUME CartTypeOK, CartInv, [CartNext]_cartVars PROVE CartTypeOK'
  OBVIOUS
<1>1. CASE UNCHANGED cartVars
  BY <1>1 DEF cartVars, CartTypeOK
<1>2. ASSUME NEW p \in Servers, Add(p) PROVE CartTypeOK'
  BY <1>2, AddTyped
<1> QED BY <1>1, <1>2, MenuTyped, VanishTyped, RequestTyped, StoreTyped DEF CartNext

\* Types: every item of a cart has the prices of an offer and a quantity, and
\* only requests that have read a cart are outdated.
THEOREM CartTypes == CartSpec => []CartTypeOK
<1>1. CartInit => CartTypeOK
  <2> SUFFICES ASSUME CartInit PROVE CartTypeOK
    OBVIOUS
  <2>1. Known(Contract!Empty)
    BY DEF Known, Contract!Empty
  <2> QED BY <2>1 DEF CartInit, CartTypeOK
<1> QED BY <1>1, InitSound, NextSound, NextCartTyped, PTL DEF CartSpec
------------------------------------------------------------------------------
(* Checkout *)

\* A row names a session that the table has had.
LiveRow == [session : 1..sessions, ongoing : BOOLEAN, payment : Payments]
Opened == [o : Orders, row : LiveRow]

\* An order has started each session: there are no more of them than orders.
TypeInv ==
  /\ orders \in [Orders -> LiveRow \cup {NoRow}]
  /\ opened \in [Requests -> Opened \cup {NoRow}]
  /\ sessions \in Nat /\ sessions <= Cardinality(Placed)
  /\ seated \in BOOLEAN /\ (seated => sessions > 0)
  /\ bill \in [Bills -> Bill]
  /\ recorded \in [Orders -> Payments]
  /\ exposed \in SUBSET Orders
  /\ stranded \in SUBSET (1..sessions)

\* The sets of orders that are placed are finite, and no larger than all.
LEMMA Sizes ==
  /\ IsFiniteSet(Placed) /\ Cardinality(Placed) \in Nat /\ Cardinality(Orders) \in Nat
  /\ Cardinality(Placed) <= Cardinality(Orders)
<1>1. Placed \subseteq Orders
  BY DEF Placed
<1> QED BY <1>1, CheckoutAssumption, FS_CardinalityType, FS_Subset

LEMMA RowsAreTyped ==
  ASSUME TypeInv
  PROVE  /\ sessions <= Cardinality(Orders)
         /\ LiveRow \subseteq OrderRow /\ NoRow \notin LiveRow
<1>1. sessions \in Nat /\ sessions <= Cardinality(Orders)
  BY Sizes DEF TypeInv
<1>2. LiveRow \subseteq OrderRow
  BY <1>1, Sizes DEF LiveRow, OrderRow
<1> QED BY <1>1, <1>2, CheckoutAssumption

LEMMA TypesFollow == TypeInv => CheckoutTypeOK
<1> SUFFICES ASSUME TypeInv PROVE CheckoutTypeOK
  OBVIOUS
<1>1. orders \in [Orders -> OrderRow \cup {NoRow}]
  BY RowsAreTyped DEF TypeInv
<1>2. sessions \in 0..Cardinality(Orders)
  BY RowsAreTyped, Sizes DEF TypeInv
<1>3. \A r \in Requests : opened[r] = NoRow \/ opened[r] \in [o : Orders, row : OrderRow]
  BY RowsAreTyped DEF TypeInv, Opened
<1> QED BY <1>1, <1>2, <1>3 DEF TypeInv, CheckoutTypeOK

LEMMA InitTyped == CheckoutInit => TypeInv
<1> SUFFICES ASSUME CheckoutInit PROVE TypeInv
  OBVIOUS
<1>1. Placed = {} /\ Cardinality(Placed) = 0
  BY FS_EmptySet DEF CheckoutInit, Placed
<1>2. NoBill \in Bill
  BY Sizes DEF NoBill, Bill
<1>3. orders \in [Orders -> LiveRow \cup {NoRow}] /\ opened \in [Requests -> Opened \cup {NoRow}]
  BY DEF CheckoutInit
<1>4. bill \in [Bills -> Bill] /\ recorded \in [Orders -> Payments]
  BY <1>2 DEF CheckoutInit, Payments
<1>5. exposed \in SUBSET Orders /\ stranded \in SUBSET (1..sessions)
  BY DEF CheckoutInit
<1>6. /\ sessions \in Nat /\ sessions <= Cardinality(Placed)
      /\ seated \in BOOLEAN /\ (seated => sessions > 0)
  <2>1. sessions = 0 /\ seated = FALSE
    BY DEF CheckoutInit
  <2>2. sessions <= Cardinality(Placed)
    BY <1>1, <2>1
  <2> QED BY <2>1, <2>2
<1> QED BY <1>3, <1>4, <1>5, <1>6 DEF TypeInv

\* The row of o becomes x; the sessions it may name are those of the new state.
SetsRow(o, x) ==
  /\ orders' = [orders EXCEPT ![o] = x]
  /\ sessions' \in Nat /\ sessions <= sessions' /\ x.session <= sessions'

LEMMA RowWritten ==
  ASSUME TypeInv, NEW o \in Orders, NEW x \in OrderRow, SetsRow(o, x)
  PROVE  /\ orders' \in [Orders -> LiveRow' \cup {NoRow}]
         /\ LiveRow \subseteq LiveRow' /\ Opened \subseteq Opened'
         /\ Placed' = Placed \cup {o}
         /\ Cardinality(Placed') =
              IF o \in Placed THEN Cardinality(Placed) ELSE Cardinality(Placed) + 1
<1> USE DEF SetsRow
<1>1. LiveRow \subseteq LiveRow' /\ x \in LiveRow'
  <2>1. sessions \in Nat /\ x.session \in Nat /\ 1 <= x.session
    BY Sizes DEF TypeInv, OrderRow
  <2>2. x.session \in 1..sessions' /\ 1..sessions \subseteq 1..sessions'
    BY <2>1
  <2>3. x \in LiveRow'
    BY <2>2 DEF LiveRow, OrderRow
  <2> QED BY <2>2, <2>3 DEF LiveRow
<1>2. Opened \subseteq Opened'
  BY <1>1 DEF Opened
<1>3. x # NoRow /\ orders'[o] = x /\ \A q \in Orders \ {o} : orders'[q] = orders[q]
  BY CheckoutAssumption DEF TypeInv
<1>4. Placed' = Placed \cup {o}
  BY <1>3 DEF Placed
<1>5. Cardinality(Placed') =
        IF o \in Placed THEN Cardinality(Placed) ELSE Cardinality(Placed) + 1
  BY <1>4, Sizes, FS_AddElement
<1> QED BY <1>1, <1>2, <1>4, <1>5 DEF TypeInv

\* A row is saved under a session that was there.
LEMMA RewriteTyped ==
  ASSUME TypeInv, NEW o \in Orders, NEW x \in LiveRow, Rewrites(o, x),
         sessions' = sessions, opened' \in [Requests -> Opened \cup {NoRow}],
         UNCHANGED <<bill, recorded, exposed>>
  PROVE  TypeInv'
<1>1. x \in OrderRow /\ x.session \in 1..sessions /\ sessions \in Nat
  BY RowsAreTyped DEF LiveRow, TypeInv
<1>2. SetsRow(o, x)
  BY <1>1 DEF SetsRow, Rewrites
<1>3. /\ orders' \in [Orders -> LiveRow' \cup {NoRow}] /\ Opened \subseteq Opened'
      /\ Cardinality(Placed') = IF o \in Placed THEN Cardinality(Placed) ELSE Cardinality(Placed) + 1
  BY <1>1, <1>2, RowWritten
<1>6. sessions' <= Cardinality(Placed')
  BY <1>1, <1>3, Sizes DEF TypeInv
<1>4. stranded' \in SUBSET (1..sessions')
  BY <1>1 DEF Rewrites, TypeInv
<1>5. seated' \in BOOLEAN /\ (seated' => sessions' > 0)
  BY DEF Rewrites, TypeInv
<1> QED BY <1>1, <1>3, <1>6, <1>4, <1>5 DEF TypeInv

LEMMA PlaceTyped ==
  ASSUME TypeInv, NEW o \in Orders, PlaceOrder(o) \/ PlaceLate(o)
  PROVE  TypeInv'
<1> DEFINE x == [session |-> sessions', ongoing |-> TRUE, payment |-> "PENDING"]
<1>1. /\ orders' = [orders EXCEPT ![o] = x] /\ o \notin Placed
      /\ sessions' \in Nat /\ sessions' > 0 /\ sessions' <= sessions + 1 /\ sessions <= sessions'
      /\ PlaceLate(o) => seated' = FALSE /\ stranded' = stranded \cup {sessions}
                         /\ sessions' = sessions
      /\ UNCHANGED <<opened, bill, recorded, exposed>>
  BY DEF PlaceOrder, PlaceLate, Placed, TypeInv
<1>2. Cardinality(Placed) + 1 <= Cardinality(Orders)
  <2>1. Placed \cup {o} \subseteq Orders
    BY DEF Placed
  <2>2. Cardinality(Placed \cup {o}) = Cardinality(Placed) + 1
    BY <1>1, Sizes, FS_AddElement
  <2> QED BY <2>1, <2>2, CheckoutAssumption, FS_Subset
<1>3. x \in OrderRow /\ x.session = sessions'
  <2>1. sessions' \in 1..Cardinality(Orders)
    BY <1>1, <1>2, Sizes DEF TypeInv
  <2> QED BY <2>1 DEF OrderRow, Payments
<1> HIDE DEF x
<1>7. SetsRow(o, x)
  BY <1>1, <1>3 DEF SetsRow
<1>4. /\ orders' \in [Orders -> LiveRow' \cup {NoRow}] /\ Opened \subseteq Opened'
      /\ Cardinality(Placed') = Cardinality(Placed) + 1
  BY <1>1, <1>3, <1>7, RowWritten
<1>5. sessions' <= Cardinality(Placed')
  BY <1>1, <1>4, Sizes DEF TypeInv
<1>6. stranded' \in SUBSET (1..sessions') /\ seated' \in BOOLEAN
  <2>1. CASE PlaceOrder(o)
    BY <1>1, <2>1 DEF PlaceOrder, TypeInv
  <2>2. CASE PlaceLate(o)
    BY <1>1, <2>2 DEF PlaceLate, TypeInv
  <2> QED BY <2>1, <2>2
<1> QED BY <1>1, <1>4, <1>5, <1>6 DEF TypeInv

LEMMA PaymentTyped ==
  ASSUME TypeInv, NEW o \in Orders, NEW p \in Payments, RecordPayment(o, p)
  PROVE  TypeInv'
<1> DEFINE x == [orders[o] EXCEPT !.payment = p]
<1>1. o \in Placed /\ orders[o] \in LiveRow
  BY DEF RecordPayment, Placed, TypeInv
<1>2. orders' = [orders EXCEPT ![o] = x] /\ x \in LiveRow /\ x.session <= sessions /\ sessions \in Nat
  BY <1>1 DEF RecordPayment, LiveRow, TypeInv
<1>3. x \in OrderRow
  BY <1>2, RowsAreTyped
<1>4. sessions' = sessions
  BY DEF RecordPayment
<1> HIDE DEF x
<1>7. SetsRow(o, x)
  BY <1>2, <1>4 DEF SetsRow
<1>5. /\ orders' \in [Orders -> LiveRow' \cup {NoRow}] /\ Opened \subseteq Opened'
      /\ Placed' = Placed \cup {o}
  BY <1>3, <1>7, RowWritten
<1>6. Placed' = Placed
  BY <1>1, <1>5
<1> QED BY <1>1, <1>4, <1>5, <1>6 DEF RecordPayment, TypeInv

LEMMA BillTyped ==
  ASSUME TypeInv, NEW b \in Bills,
         AskBill(b) \/ NameSession(b) \/ ListOrders(b) \/ Hand(b)
  PROVE  TypeInv'
<1>1. UNCHANGED <<orders, sessions, seated, opened, recorded, exposed, stranded>>
  BY DEF AskBill, NameSession, ListOrders, Hand, Step
<1>2. Listed \subseteq Orders /\ AtTable(bill[b].session) \subseteq Orders
  BY DEF Listed, Ongoing, AtTable, Placed
<1>3. \A o \in Listed : orders[o].session \in 0..Cardinality(Orders)
  <2> SUFFICES ASSUME NEW o \in Listed PROVE orders[o].session \in 0..Cardinality(Orders)
    OBVIOUS
  <2>1. orders[o] \in OrderRow
    BY RowsAreTyped DEF Listed, Ongoing, Placed, TypeInv
  <2> QED BY <2>1, Sizes DEF OrderRow
<1>4. NoBill \in Bill
  BY Sizes DEF NoBill, Bill
<1>5. bill[b] \in Bill
  BY DEF TypeInv
<1>6. CASE AskBill(b)
  <2>1. [NoBill EXCEPT !.step = "asked"] \in Bill
    BY <1>4 DEF Bill
  <2> QED BY <1>1, <1>6, <2>1 DEF AskBill, Step, TypeInv, Placed, LiveRow, Opened
<1>7. CASE NameSession(b)
  <2>1. [bill[b] EXCEPT !.step = "failed"] \in Bill
    BY <1>5 DEF Bill
  <2>2. \A o \in Listed :
          [bill[b] EXCEPT !.step = "named", !.session = orders[o].session] \in Bill
    BY <1>3, <1>5 DEF Bill
  <2>3. bill' \in [Bills -> Bill]
    BY <1>7, <2>1, <2>2 DEF NameSession, Step, TypeInv
  <2> QED BY <1>1, <2>3 DEF TypeInv, Placed, LiveRow, Opened
<1>8. CASE ListOrders(b)
  <2>1. [bill[b] EXCEPT !.step = "failed"] \in Bill
    BY <1>5 DEF Bill
  <2>2. [bill[b] EXCEPT !.step = "done", !.listed = Listed,
                        !.theirs = AtTable(bill[b].session),
                        !.current = seated /\ sessions = bill[b].session /\ stranded = {}] \in Bill
    BY <1>2, <1>5 DEF Bill
  <2>3. bill' \in [Bills -> Bill]
    BY <1>8, <2>1, <2>2 DEF ListOrders, Step, TypeInv
  <2> QED BY <1>1, <2>3 DEF TypeInv, Placed, LiveRow, Opened
<1>9. CASE Hand(b)
  BY <1>1, <1>4, <1>9 DEF Hand, Step, TypeInv, Placed, LiveRow, Opened
<1> QED BY <1>6, <1>7, <1>8, <1>9

LEMMA NextTyped == TypeInv /\ [CheckoutNext]_checkoutVars => TypeInv'
<1> SUFFICES ASSUME TypeInv, [CheckoutNext]_checkoutVars PROVE TypeInv'
  OBVIOUS
<1>1. ASSUME NEW o \in Orders, PlaceOrder(o) \/ PlaceLate(o) PROVE TypeInv'
  BY <1>1, PlaceTyped
<1>2. ASSUME NEW o \in Orders, KitchenMoves(o) PROVE TypeInv'
  <2>1. PICK on \in BOOLEAN : Rewrites(o, [orders[o] EXCEPT !.ongoing = on])
    BY <1>2 DEF KitchenMoves
  <2>2. orders[o] \in LiveRow
    BY <1>2 DEF KitchenMoves, Ongoing, Placed, TypeInv
  <2>3. [orders[o] EXCEPT !.ongoing = on] \in LiveRow
    BY <2>2 DEF LiveRow
  <2>4. opened' \in [Requests -> Opened \cup {NoRow}]
    BY <1>2 DEF KitchenMoves, TypeInv
  <2> QED BY <1>2, <2>1, <2>3, <2>4, RewriteTyped DEF KitchenMoves
<1>3. ASSUME NEW r \in Requests, SaveStatus(r) PROVE TypeInv'
  <2>1. PICK on \in BOOLEAN : Rewrites(opened[r].o, [opened[r].row EXCEPT !.ongoing = on])
    BY <1>3 DEF SaveStatus
  <2>2. opened[r].o \in Orders /\ opened[r].row \in LiveRow
    BY <1>3 DEF SaveStatus, TypeInv, Opened
  <2>3. [opened[r].row EXCEPT !.ongoing = on] \in LiveRow
    BY <2>2 DEF LiveRow
  <2>4. opened' \in [Requests -> Opened \cup {NoRow}]
    BY <1>3 DEF SaveStatus, TypeInv
  <2> QED BY <1>3, <2>1, <2>2, <2>3, <2>4, RewriteTyped DEF SaveStatus
<1>4. ASSUME NEW r \in Requests, NEW o \in Orders, OpenOrder(r, o) PROVE TypeInv'
  <2>1. [o |-> o, row |-> orders[o]] \in Opened
    BY <1>4 DEF OpenOrder, Ongoing, Placed, Opened, TypeInv
  <2>2. opened' \in [Requests -> Opened \cup {NoRow}]
    BY <1>4, <2>1 DEF OpenOrder, TypeInv
  <2> QED BY <1>4, <2>2 DEF OpenOrder, TypeInv, Placed, LiveRow, Opened
<1>5. ASSUME NEW r \in Requests, Decline(r) PROVE TypeInv'
  <2>1. opened' \in [Requests -> Opened \cup {NoRow}]
    BY <1>5 DEF Decline, TypeInv
  <2> QED BY <1>5, <2>1 DEF Decline, TypeInv, Placed, LiveRow, Opened
<1>6. ASSUME NEW o \in Orders, NEW p \in Payments, RecordPayment(o, p) PROVE TypeInv'
  BY <1>6, PaymentTyped
<1>7. CASE Leave
  <2>1. stranded' \in SUBSET (1..sessions)
    BY <1>7 DEF Leave, TypeInv
  <2>2. seated' = FALSE
    BY <1>7 DEF Leave
  <2> QED BY <1>7, <2>1, <2>2 DEF Leave, TypeInv, Placed, LiveRow, Opened
<1>8. ASSUME NEW b \in Bills, AskBill(b) \/ NameSession(b) \/ ListOrders(b) \/ Hand(b)
      PROVE  TypeInv'
  BY <1>8, BillTyped
<1>9. CASE UNCHANGED checkoutVars
  BY <1>9 DEF checkoutVars, TypeInv, Placed, LiveRow, Opened
<1> QED BY <1>1, <1>2, <1>3, <1>4, <1>5, <1>6, <1>7, <1>8, <1>9 DEF CheckoutNext

LEMMA AlwaysTyped == CheckoutSpec => []TypeInv
  BY InitTyped, NextTyped, PTL DEF CheckoutSpec

\* Rows, requests and bills are of their types: a session's number is never
\* larger than the number of orders, each session having its first order.
THEOREM CheckoutTypes == CheckoutSpec => []CheckoutTypeOK
  BY AlwaysTyped, TypesFollow, PTL
------------------------------------------------------------------------------
\* What a request has read agrees with what was recorded, unless a payment was
\* recorded since; an order that is not placed has no payment yet.
PayInv ==
  /\ PaymentsKept
  /\ \A o \in Orders \ Placed : recorded[o] = "PENDING"
  /\ \A r \in Requests :
       opened[r] # NoRow =>
         /\ opened[r].o \in Placed
         /\ opened[r].o \notin exposed => opened[r].row.payment = recorded[opened[r].o]

LEMMA InitPays == CheckoutInit => PayInv
  BY DEF CheckoutInit, PayInv, PaymentsKept, Placed

\* A row that carries the recorded payment is saved.
LEMMA RewritePays ==
  ASSUME TypeInv, PayInv, NEW o \in Placed, NEW x \in LiveRow, Rewrites(o, x),
         o \notin exposed => x.payment = recorded[o],
         \A r \in Requests : opened'[r] = opened[r] \/ opened'[r] = NoRow,
         UNCHANGED <<recorded, exposed>>
  PROVE  PayInv'
<1>1. /\ o \in Orders /\ x # NoRow /\ orders'[o] = x
      /\ \A q \in Orders \ {o} : orders'[q] = orders[q]
  BY RowsAreTyped DEF Rewrites, Placed, TypeInv
<1>2. Placed' = Placed
  BY <1>1 DEF Placed
<1> QED BY <1>1, <1>2 DEF PayInv, PaymentsKept, Placed

LEMMA NextPays == TypeInv /\ PayInv /\ [CheckoutNext]_checkoutVars => PayInv'
<1> SUFFICES ASSUME TypeInv, PayInv, [CheckoutNext]_checkoutVars PROVE PayInv'
  OBVIOUS
<1>1. ASSUME NEW o \in Orders, PlaceOrder(o) \/ PlaceLate(o) PROVE PayInv'
  <2>1. PICK s : orders' = [orders EXCEPT ![o] = [session |-> s, ongoing |-> TRUE,
                                                 payment |-> "PENDING"]]
    BY <1>1 DEF PlaceOrder, PlaceLate
  <2>2. o \notin Placed /\ recorded[o] = "PENDING" /\ UNCHANGED <<opened, recorded, exposed>>
    BY <1>1 DEF PlaceOrder, PlaceLate, Placed, PayInv
  <2>3. orders'[o].payment = "PENDING" /\ \A q \in Orders \ {o} : orders'[q] = orders[q]
    BY <2>1 DEF TypeInv
  <2>4. Placed \subseteq Placed' /\ Placed' \subseteq Placed \cup {o}
    BY <2>2, <2>3 DEF Placed
  <2> QED BY <2>2, <2>3, <2>4 DEF PayInv, PaymentsKept, Placed
<1>2. ASSUME NEW o \in Orders, KitchenMoves(o) PROVE PayInv'
  <2>1. PICK on \in BOOLEAN : Rewrites(o, [orders[o] EXCEPT !.ongoing = on])
    BY <1>2 DEF KitchenMoves
  <2>2. o \in Placed /\ orders[o] \in LiveRow
    BY <1>2 DEF KitchenMoves, Ongoing, Placed, TypeInv
  <2> DEFINE x == [orders[o] EXCEPT !.ongoing = on]
  <2>3. x \in LiveRow /\ x.payment = orders[o].payment
    BY <2>2 DEF LiveRow
  <2>4. o \notin exposed => orders[o].payment = recorded[o]
    BY <2>2 DEF PayInv, PaymentsKept
  <2> HIDE DEF x
  <2> QED BY <1>2, <2>1, <2>2, <2>3, <2>4, RewritePays DEF KitchenMoves, x
<1>3. ASSUME NEW r \in Requests, SaveStatus(r) PROVE PayInv'
  <2> DEFINE o == opened[r].o
             row == opened[r].row
  <2>1. PICK on \in BOOLEAN : Rewrites(o, [row EXCEPT !.ongoing = on])
    BY <1>3 DEF SaveStatus
  <2>2. o \in Placed /\ row \in LiveRow /\ (o \notin exposed => row.payment = recorded[o])
    BY <1>3 DEF SaveStatus, TypeInv, Opened, PayInv
  <2> HIDE DEF o, row
  <2> DEFINE x == [row EXCEPT !.ongoing = on]
  <2>3. x \in LiveRow /\ x.payment = row.payment
    BY <2>2 DEF LiveRow
  <2>4. Rewrites(o, x)
    BY <2>1
  <2> HIDE DEF x
  <2>5. \A q \in Requests : opened'[q] = opened[q] \/ opened'[q] = NoRow
    BY <1>3 DEF SaveStatus, TypeInv
  <2> QED BY <1>3, <2>2, <2>3, <2>4, <2>5, RewritePays DEF SaveStatus
<1>4. ASSUME NEW r \in Requests, NEW o \in Orders, OpenOrder(r, o) PROVE PayInv'
  <2>1. o \in Placed /\ Placed' = Placed
    BY <1>4 DEF OpenOrder, Ongoing, Placed
  <2>2. /\ opened'[r] = [o |-> o, row |-> orders[o]]
        /\ \A q \in Requests \ {r} : opened'[q] = opened[q]
    BY <1>4 DEF OpenOrder, TypeInv
  <2> QED BY <1>4, <2>1, <2>2 DEF OpenOrder, PayInv, PaymentsKept
<1>5. ASSUME NEW r \in Requests, Decline(r) PROVE PayInv'
  <2>1. \A q \in Requests : opened'[q] = opened[q] \/ opened'[q] = NoRow
    BY <1>5 DEF Decline, TypeInv
  <2> QED BY <1>5, <2>1 DEF Decline, PayInv, PaymentsKept, Placed
<1>6. ASSUME NEW o \in Orders, NEW p \in Payments, RecordPayment(o, p) PROVE PayInv'
  <2>1. o \in Placed /\ orders[o] \in LiveRow
    BY <1>6 DEF RecordPayment, Placed, TypeInv
  <2>2. [orders[o] EXCEPT !.payment = p] \in LiveRow /\ [orders[o] EXCEPT !.payment = p].payment = p
    BY <2>1 DEF LiveRow
  <2>3. /\ orders'[o] # NoRow /\ orders'[o].payment = p /\ recorded'[o] = p
        /\ \A q \in Orders \ {o} : orders'[q] = orders[q] /\ recorded'[q] = recorded[q]
    BY <1>6, <2>2, RowsAreTyped DEF RecordPayment, TypeInv
  <2>4. Placed' = Placed
    BY <2>1, <2>3 DEF Placed
  <2>5. /\ \A q \in Orders \ {o} : q \in exposed' <=> q \in exposed
        /\ (\E r \in Requests : opened[r] # NoRow /\ opened[r].o = o) => o \in exposed'
        /\ opened' = opened
    BY <1>6 DEF RecordPayment
  <2>6. PaymentsKept' /\ \A q \in Orders \ Placed' : recorded'[q] = "PENDING"
    BY <2>1, <2>3, <2>4, <2>5 DEF PayInv, PaymentsKept, Placed
  <2>7. ASSUME NEW r \in Requests, opened'[r] # NoRow
        PROVE  /\ opened'[r].o \in Placed'
               /\ opened'[r].o \notin exposed' => opened'[r].row.payment = recorded'[opened'[r].o]
    <3>1. opened[r].o \in Placed /\ opened[r].o \in Orders
      BY <2>5, <2>7 DEF PayInv, Placed
    <3>2. CASE opened[r].o = o
      BY <2>4, <2>5, <2>7, <3>1, <3>2
    <3>3. CASE opened[r].o # o
      BY <2>3, <2>4, <2>5, <2>7, <3>1, <3>3 DEF PayInv
    <3> QED BY <3>2, <3>3
  <2> QED BY <2>6, <2>7 DEF PayInv
<1>7. CASE Leave \/ UNCHANGED checkoutVars
  BY <1>7 DEF Leave, checkoutVars, PayInv, PaymentsKept, Placed
<1>8. ASSUME NEW b \in Bills, AskBill(b) \/ NameSession(b) \/ ListOrders(b) \/ Hand(b)
      PROVE  PayInv'
  BY <1>8 DEF AskBill, NameSession, ListOrders, Hand, Step, PayInv, PaymentsKept, Placed
<1> QED BY <1>1, <1>2, <1>3, <1>4, <1>5, <1>6, <1>7, <1>8 DEF CheckoutNext

\* However requests move an order on, its payment stays as it was recorded
\* last, unless a request had read the order before that and saves it after.
THEOREM PaymentsAreKept == CheckoutSpec => []PaymentsKept
<1>1. PayInv => PaymentsKept
  BY DEF PayInv
<1> QED BY <1>1, AlwaysTyped, InitPays, NextPays, PTL DEF CheckoutSpec
------------------------------------------------------------------------------
\* An order at the table belongs to the active session or to one that was left
\* with orders.
BillInv ==
  /\ BillsAgree
  /\ \A o \in Ongoing :
       (seated /\ orders[o].session = sessions) \/ orders[o].session \in stranded

LEMMA InitBills == CheckoutInit => BillInv
  BY DEF CheckoutInit, BillInv, BillsAgree, NoBill, Ongoing, Placed

\* Rows change; no bill does.
LEMMA BillsStay ==
  ASSUME BillInv, bill' = bill
  PROVE  BillsAgree'
  BY DEF BillInv, BillsAgree

LEMMA RewriteBills ==
  ASSUME TypeInv, BillInv, NEW o \in Placed, NEW x \in LiveRow, Rewrites(o, x),
         UNCHANGED <<sessions, bill>>
  PROVE  BillInv'
<1>1. /\ o \in Orders /\ x # NoRow /\ orders'[o] = x
      /\ \A q \in Orders \ {o} : orders'[q] = orders[q]
  BY RowsAreTyped DEF Rewrites, Placed, TypeInv
<1>2. ASSUME NEW q \in Ongoing'
      PROVE  (seated' /\ orders'[q].session = sessions') \/ orders'[q].session \in stranded'
  <2>1. CASE q = o
    <3>1. x.ongoing
      BY <1>1, <1>2, <2>1 DEF Ongoing
    <3>2. CASE seated /\ x.session = sessions
      BY <1>1, <2>1, <3>1, <3>2 DEF Rewrites, TypeInv
    <3>3. CASE ~(seated /\ x.session = sessions)
      BY <1>1, <2>1, <3>1, <3>3 DEF Rewrites
    <3> QED BY <3>2, <3>3
  <2>2. CASE q # o
    <3>1. q \in Ongoing /\ orders'[q] = orders[q]
      BY <1>1, <1>2, <2>2 DEF Ongoing, Placed
    <3>2. CASE orders[q].session \in stranded
      BY <3>1, <3>2 DEF Rewrites
    <3>3. CASE seated /\ orders[q].session = sessions
      <4>1. q \in AtTable(sessions) \ {o}
        BY <2>2, <3>1, <3>3 DEF AtTable
      <4>2. seated'
        BY <3>3, <4>1 DEF Rewrites
      <4> QED BY <3>1, <3>3, <4>2
    <3> QED BY <3>1, <3>2, <3>3 DEF BillInv
  <2> QED BY <2>1, <2>2
<1> QED BY <1>2, BillsStay DEF BillInv

LEMMA ListBills ==
  ASSUME TypeInv, BillInv, NEW b \in Bills, ListOrders(b)
  PROVE  BillsAgree'
<1>1. \A c \in Bills \ {b} : bill'[c] = bill[c]
  BY DEF ListOrders, Step, TypeInv
<1>2. bill'[b].step = "done" /\ bill'[b].current => bill'[b].listed = bill'[b].theirs
  <2>1. bill[b] \in Bill
    BY DEF TypeInv
  <2>2. CASE Listed = {}
    <3>1. bill'[b] = [bill[b] EXCEPT !.step = "failed"]
      BY <2>2 DEF ListOrders, Step, TypeInv
    <3> QED BY <2>1, <3>1 DEF Bill
  <2>3. CASE Listed # {}
    <3>1. bill'[b] = [bill[b] EXCEPT !.step = "done", !.listed = Listed,
                                     !.theirs = AtTable(bill[b].session),
                                     !.current = seated /\ sessions = bill[b].session
                                                 /\ stranded = {}]
      BY <2>3 DEF ListOrders, Step, TypeInv
    <3>2. /\ bill'[b].listed = Listed /\ bill'[b].theirs = AtTable(bill[b].session)
          /\ bill'[b].current <=> (seated /\ sessions = bill[b].session /\ stranded = {})
      BY <2>1, <3>1 DEF Bill
    <3>3. seated /\ sessions = bill[b].session /\ stranded = {} =>
            AtTable(bill[b].session) = Listed
      BY DEF BillInv, AtTable, Listed
    <3> QED BY <3>2, <3>3
  <2> QED BY <2>2, <2>3
<1> QED BY <1>1, <1>2 DEF BillInv, BillsAgree

LEMMA NextBills == TypeInv /\ PayInv /\ BillInv /\ [CheckoutNext]_checkoutVars => BillInv'
<1> SUFFICES ASSUME TypeInv, PayInv, BillInv, [CheckoutNext]_checkoutVars PROVE BillInv'
  OBVIOUS
<1>1. ASSUME NEW o \in Orders, PlaceOrder(o) \/ PlaceLate(o) PROVE BillInv'
  <2>1. /\ orders' = [orders EXCEPT ![o] = [session |-> sessions', ongoing |-> TRUE,
                                            payment |-> "PENDING"]]
        /\ \/ seated' /\ (seated => sessions' = sessions) /\ stranded' = stranded
           \/ ~seated /\ stranded' = stranded \cup {sessions'}
        /\ bill' = bill
    BY <1>1 DEF PlaceOrder, PlaceLate
  <2>2. orders'[o].session = sessions' /\ \A q \in Orders \ {o} : orders'[q] = orders[q]
    BY <2>1 DEF TypeInv
  <2>3. Ongoing' \subseteq Ongoing \cup {o}
    BY <2>2 DEF Ongoing, Placed
  <2>4. Ongoing \subseteq Orders /\ o \notin Ongoing
    BY <1>1 DEF Ongoing, Placed, PlaceOrder, PlaceLate
  <2>5. ASSUME NEW q \in Ongoing'
        PROVE  (seated' /\ orders'[q].session = sessions') \/ orders'[q].session \in stranded'
    <3>1. CASE q = o
      BY <2>1, <2>2, <3>1
    <3>2. CASE q # o
      <4>1. q \in Ongoing /\ orders'[q] = orders[q]
        BY <2>2, <2>3, <2>4, <2>5, <3>2
      <4> QED BY <2>1, <4>1 DEF BillInv
    <3> QED BY <3>1, <3>2
  <2> QED BY <2>1, <2>5, BillsStay DEF BillInv
<1>2. ASSUME NEW o \in Orders, KitchenMoves(o) PROVE BillInv'
  <2>1. PICK on \in BOOLEAN : Rewrites(o, [orders[o] EXCEPT !.ongoing = on])
    BY <1>2 DEF KitchenMoves
  <2>2. o \in Placed /\ orders[o] \in LiveRow
    BY <1>2 DEF KitchenMoves, Ongoing, Placed, TypeInv
  <2>3. [orders[o] EXCEPT !.ongoing = on] \in LiveRow
    BY <2>2 DEF LiveRow
  <2> QED BY <1>2, <2>1, <2>2, <2>3, RewriteBills DEF KitchenMoves
<1>3. ASSUME NEW r \in Requests, SaveStatus(r) PROVE BillInv'
  <2>1. PICK on \in BOOLEAN : Rewrites(opened[r].o, [opened[r].row EXCEPT !.ongoing = on])
    BY <1>3 DEF SaveStatus
  <2>2. [opened[r].row EXCEPT !.ongoing = on] \in LiveRow /\ opened[r].o \in Placed
    BY <1>3 DEF SaveStatus, TypeInv, Opened, LiveRow, PayInv
  <2> QED BY <1>3, <2>1, <2>2, RewriteBills DEF SaveStatus
<1>4. ASSUME NEW r \in Requests, NEW o \in Orders, OpenOrder(r, o) PROVE BillInv'
  BY <1>4 DEF OpenOrder, BillInv, BillsAgree, Ongoing, Placed
<1>5. ASSUME NEW r \in Requests, Decline(r) PROVE BillInv'
  BY <1>5 DEF Decline, BillInv, BillsAgree, Ongoing, Placed
<1>6. ASSUME NEW o \in Orders, NEW p \in Payments, RecordPayment(o, p) PROVE BillInv'
  <2>1. orders[o] \in LiveRow /\ orders' = [orders EXCEPT ![o].payment = p]
        /\ UNCHANGED <<sessions, seated, stranded, bill>>
    BY <1>6 DEF RecordPayment, Placed, TypeInv
  <2>2. /\ orders'[o].session = orders[o].session /\ orders'[o].ongoing = orders[o].ongoing
        /\ \A q \in Orders \ {o} : orders'[q] = orders[q]
    BY <2>1 DEF TypeInv, LiveRow
  <2>3. Ongoing' \subseteq Ongoing
    BY <1>6, <2>2 DEF Ongoing, Placed, RecordPayment
  <2>4. \A q \in Ongoing' : orders'[q].session = orders[q].session
    BY <2>2 DEF Ongoing, Placed
  <2> QED BY <2>1, <2>3, <2>4, BillsStay DEF BillInv
<1>7. CASE Leave
  <2>1. ASSUME NEW o \in Ongoing, seated, orders[o].session = sessions
        PROVE  orders[o].session \in stranded'
    <3>1. o \in AtTable(sessions)
      BY <2>1 DEF AtTable
    <3> QED BY <1>7, <2>1, <3>1 DEF Leave
  <2>2. stranded \subseteq stranded' /\ UNCHANGED <<orders, bill>>
    BY <1>7 DEF Leave
  <2>3. Ongoing' = Ongoing
    BY <2>2 DEF Ongoing, Placed
  <2> QED BY <2>1, <2>2, <2>3, BillsStay DEF BillInv
<1>8. ASSUME NEW b \in Bills, AskBill(b) \/ NameSession(b) \/ ListOrders(b) \/ Hand(b)
      PROVE  BillInv'
  <2>1. UNCHANGED <<orders, sessions, seated, stranded>> /\ Ongoing' = Ongoing
    BY <1>8 DEF AskBill, NameSession, ListOrders, Hand, Step, Ongoing, Placed
  <2>2. BillsAgree'
    <3>1. CASE ListOrders(b)
      BY <3>1, ListBills
    <3>2. ASSUME NEW x \in Bill, x.step # "done", bill' = [bill EXCEPT ![b] = x]
          PROVE  BillsAgree'
      BY <3>2 DEF BillInv, BillsAgree, TypeInv
    <3>3. NoBill \in Bill /\ bill[b] \in Bill
      BY Sizes DEF NoBill, Bill, TypeInv
    <3>4. CASE AskBill(b)
      <4>1. [NoBill EXCEPT !.step = "asked"] \in Bill
        BY <3>3 DEF Bill
      <4> QED BY <3>2, <3>4, <4>1 DEF AskBill, Step, NoBill
    <3>5. CASE NameSession(b)
      <4>1. CASE Listed = {}
        BY <3>2, <3>3, <3>5, <4>1 DEF NameSession, Step, Bill
      <4>2. CASE Listed # {}
        <5>1. PICK o \in Listed : bill' = [bill EXCEPT ![b] =
                [bill[b] EXCEPT !.step = "named", !.session = orders[o].session]]
          BY <3>5, <4>2 DEF NameSession, Step
        <5>2. orders[o].session \in 0..Cardinality(Orders)
          BY <5>1, RowsAreTyped, Sizes DEF Listed, Ongoing, Placed, TypeInv, OrderRow
        <5>3. [bill[b] EXCEPT !.step = "named", !.session = orders[o].session] \in Bill
          BY <3>3, <5>2 DEF Bill
        <5> QED BY <3>2, <3>3, <5>1, <5>3 DEF Bill
      <4> QED BY <4>1, <4>2
    <3>6. CASE Hand(b)
      BY <3>2, <3>3, <3>6 DEF Hand, Step, NoBill
    <3> QED BY <1>8, <3>1, <3>4, <3>5, <3>6
  <2> QED BY <2>1, <2>2 DEF BillInv
<1>9. CASE UNCHANGED checkoutVars
  BY <1>9 DEF checkoutVars, BillInv, BillsAgree, Ongoing, Placed
<1> QED BY <1>1, <1>2, <1>3, <1>4, <1>5, <1>6, <1>7, <1>8, <1>9 DEF CheckoutNext

\* A bill lists the orders of the active session that are not over, all of them
\* and no others, unless a session was left with orders.
THEOREM BillsAreRight == CheckoutSpec => []BillsAgree
<1>1. BillInv => BillsAgree
  BY DEF BillInv
<1> QED BY <1>1, AlwaysTyped, InitPays, NextPays, InitBills, NextBills, PTL DEF CheckoutSpec
------------------------------------------------------------------------------
(* Lists of dishes *)

\* How often the version was raised since it was 1, and who is about to raise it.
Raised == IF version = NoDish THEN 0 ELSE version - 1
Saved == {e \in Editors : desk[e] = "saved"}

\* Each time the version was raised one of the edits was announced.
ListsBound ==
  /\ ListsTypeOK
  /\ IsFiniteSet(Saved) /\ Raised + Cardinality(Saved) <= edits

\* A request that has saved is put among those that will raise the version, or
\* leaves them.
LEMMA SavedMoves ==
  ASSUME ListsBound, NEW e \in Editors, NEW x, desk' = [desk EXCEPT ![e] = x]
  PROVE  /\ Cardinality(Saved) \in Nat
         /\ IsFiniteSet(Saved') /\ Cardinality(Saved') \in Nat
         /\ x = "saved" => Cardinality(Saved') <= Cardinality(Saved) + 1
         /\ x # "saved" =>
              IF desk[e] = "saved" THEN Cardinality(Saved') = Cardinality(Saved) - 1
              ELSE Cardinality(Saved') = Cardinality(Saved)
<1>0. IsFiniteSet(Saved) /\ Cardinality(Saved) \in Nat
  BY FS_CardinalityType DEF ListsBound
<1>1. Saved' = IF x = "saved" THEN Saved \cup {e} ELSE Saved \ {e}
  BY DEF Saved, ListsBound, ListsTypeOK
<1>2. CASE x = "saved"
  <2>1. Saved' = Saved \cup {e}
    BY <1>1, <1>2
  <2>2. IsFiniteSet(Saved') /\ Cardinality(Saved') \in Nat
    BY <1>0, <2>1, FS_AddElement, FS_CardinalityType
  <2>3. Cardinality(Saved') = IF e \in Saved THEN Cardinality(Saved) ELSE Cardinality(Saved) + 1
    BY <1>0, <2>1, FS_AddElement
  <2> QED BY <1>0, <1>2, <2>2, <2>3
<1>3. CASE x # "saved"
  <2>1. e \in Saved <=> desk[e] = "saved"
    BY DEF Saved
  <2>2. Saved' = Saved \ {e}
    BY <1>1, <1>3
  <2>3. IsFiniteSet(Saved') /\ Cardinality(Saved') \in Nat
    BY <1>0, <2>2, FS_RemoveElement, FS_CardinalityType
  <2>4. Cardinality(Saved') = IF e \in Saved THEN Cardinality(Saved) - 1 ELSE Cardinality(Saved)
    BY <1>0, <2>2, FS_RemoveElement
  <2> QED BY <1>0, <1>3, <2>1, <2>3, <2>4
<1> QED BY <1>2, <1>3

LEMMA VersionBound ==
  ASSUME ListsBound
  PROVE  /\ version # NoDish => version \in 1..(edits + 1)
         /\ Raised \in Nat /\ edits \in Nat /\ MaxEdits \in Nat /\ edits <= MaxEdits
<1>1. Cardinality(Saved) \in Nat
  BY FS_CardinalityType DEF ListsBound
<1>2. Raised \in Nat /\ edits \in Nat
  BY ListsAssumption DEF ListsBound, ListsTypeOK, Versions, Raised
<1> QED BY <1>1, <1>2, ListsAssumption DEF ListsBound, ListsTypeOK, Versions, Raised

LEMMA InitLists == ListsInit => ListsBound
<1> SUFFICES ASSUME ListsInit PROVE ListsBound
  OBVIOUS
<1>1. Saved = {}
  BY NoDishIsNothing DEF ListsInit, Saved
<1>2. IsFiniteSet(Saved) /\ Cardinality(Saved) = 0
  BY <1>1, FS_EmptySet
<1>3. ListsTypeOK
  BY ListsAssumption DEF ListsInit, ListsTypeOK, Menus
<1> QED BY <1>2, <1>3 DEF ListsBound, ListsInit, Raised

\* Steps that neither raise the version nor edit.
LEMMA QuietStep ==
  ASSUME ListsBound, ListsTypeOK', UNCHANGED <<desk, version, edits>>
  PROVE  ListsBound'
BY DEF ListsBound, Saved, Raised

LEMMA EditBound ==
  ASSUME ListsBound, NEW e \in Editors, NEW d \in Entries, NEW c \in Contents \cup {NoDish},
         EditDish(e, d, c) \/ CreateNext(e, d, c)
  PROVE  ListsBound'
<1>1. ListsTypeOK'
  <2>1. menu' \in Menus
    BY DEF EditDish, CreateNext, Writes, ListsBound, ListsTypeOK, Menus
  <2>2. edits' \in 0..MaxEdits
    BY ListsAssumption DEF EditDish, CreateNext, Edits, ListsBound, ListsTypeOK
  <2> QED BY <2>1, <2>2 DEF EditDish, CreateNext, Writes, ListsBound, ListsTypeOK
<1>2. CASE CreateNext(e, d, c)
  BY <1>1, <1>2, QuietStep DEF CreateNext, Writes
<1>3. CASE EditDish(e, d, c)
  <2>1. desk' = [desk EXCEPT ![e] = "saved"] /\ edits' = edits + 1 /\ version' = version
    BY <1>3 DEF EditDish, Writes, Edits
  <2>2. IsFiniteSet(Saved') /\ Cardinality(Saved') \in Nat /\ Cardinality(Saved) \in Nat
        /\ Cardinality(Saved') <= Cardinality(Saved) + 1
    BY <2>1, SavedMoves
  <2>3. Raised' = Raised
    BY <2>1 DEF Raised
  <2> QED BY <1>1, <2>1, <2>2, <2>3, VersionBound DEF ListsBound
<1> QED BY <1>2, <1>3

\* The version is raised for an edit that has been counted.
LEMMA RoomToRaise ==
  ASSUME ListsBound, NEW e \in Editors, desk[e] = "saved", version # NoDish
  PROVE  /\ version \in 1..(edits + 1) /\ version + 1 \in Versions /\ version + 1 # NoDish
         /\ version + Cardinality(Saved) - 1 <= edits
<1>1. version \in 1..(edits + 1) /\ version - 1 + Cardinality(Saved) <= edits
  BY VersionBound DEF Raised, ListsBound
<1>2. e \in Saved
  BY DEF Saved
<1>3. Cardinality(Saved) \in Nat /\ Cardinality(Saved) # 0
  BY <1>2, FS_EmptySet, FS_CardinalityType DEF ListsBound
<1>4. version + 1 \in Versions
  BY <1>1, <1>3, VersionBound DEF Versions
<1> QED BY <1>1, <1>3, <1>4, NoDishIsNothing

LEMMA BumpBound ==
  ASSUME ListsBound, NEW e \in Editors, GiveUp(e) \/ Bump(e) \/ StartVersions(e)
  PROVE  ListsBound'
<1>1. PICK x \in {NoDish, "cold"} : desk' = [desk EXCEPT ![e] = x]
  BY DEF GiveUp, Bump, StartVersions
<1>2. x # "saved"
  BY NoDishIsNothing
<1>3. /\ IsFiniteSet(Saved') /\ Cardinality(Saved') \in Nat /\ Cardinality(Saved) \in Nat
      /\ Cardinality(Saved') <= Cardinality(Saved)
      /\ desk[e] = "saved" => Cardinality(Saved') = Cardinality(Saved) - 1
  <2>1. /\ IsFiniteSet(Saved') /\ Cardinality(Saved') \in Nat /\ Cardinality(Saved) \in Nat
        /\ IF desk[e] = "saved" THEN Cardinality(Saved') = Cardinality(Saved) - 1
           ELSE Cardinality(Saved') = Cardinality(Saved)
    BY <1>1, <1>2, SavedMoves
  <2> QED BY <2>1
<1>4. desk' \in [Editors -> {NoDish, "saved", "cold"}]
  BY <1>1 DEF ListsBound, ListsTypeOK
<1>5. /\ edits' = edits /\ UNCHANGED <<category, menu, lists, reader>>
      /\ mishaps' \subseteq Mishaps
  BY DEF GiveUp, Bump, StartVersions, ListsBound, ListsTypeOK, Mishaps
<1>6. Raised + Cardinality(Saved) <= edits
  BY DEF ListsBound
<1>7. version \in Versions \cup {NoDish}
  BY DEF ListsBound, ListsTypeOK
<1>8. version' \in Versions \cup {NoDish} /\ Raised' \in Nat /\ Raised' + Cardinality(Saved') <= edits
  <2>1. CASE version' = version
    BY <2>1, <1>3, <1>6, <1>7, VersionBound DEF Raised
  <2>2. CASE version' = 1
    BY <2>2, <1>3, <1>6, VersionBound, NoDishIsNothing DEF Raised, Versions
  <2>3. CASE desk[e] = "saved" /\ version # NoDish /\ version' = version + 1
    <3>1. version' \in Versions /\ version' # NoDish /\ version \in 1..(edits + 1)
          /\ version + Cardinality(Saved) - 1 <= edits
      BY <2>3, RoomToRaise
    <3>2. Raised' = version
      BY <3>1, <2>3 DEF Raised
    <3> QED BY <3>1, <3>2, <2>3, <1>3, VersionBound
  <2> QED BY <2>1, <2>2, <2>3 DEF GiveUp, Bump, StartVersions
<1> QED BY <1>3, <1>4, <1>5, <1>8 DEF ListsBound, ListsTypeOK

LEMMA OthersBound ==
  ASSUME ListsBound,
         DropCategory \/ Evict \/ (\E v \in Versions : Expire(v))
  PROVE  ListsBound'
<1>1. CASE DropCategory
  <2>1. ListsTypeOK'
    <3>1. edits' \in 0..MaxEdits
      BY <1>1, ListsAssumption DEF DropCategory, Edits, ListsBound, ListsTypeOK
    <3>2. menu' \in Menus
      BY <1>1 DEF DropCategory, Menus
    <3> QED BY <1>1, <3>1, <3>2 DEF DropCategory, ListsBound, ListsTypeOK, Mishaps
  <2>2. edits' = edits + 1 /\ UNCHANGED <<desk, version>>
    BY <1>1 DEF DropCategory, Edits
  <2>3. Saved' = Saved /\ Raised' = Raised
    BY <2>2 DEF Saved, Raised
  <2> QED BY <2>1, <2>2, <2>3, VersionBound, FS_CardinalityType DEF ListsBound
<1>2. CASE Evict
  <2>1. ListsTypeOK'
    BY <1>2 DEF Evict, ListsBound, ListsTypeOK, Mishaps
  <2>2. version' = NoDish /\ UNCHANGED <<desk, edits>>
    BY <1>2 DEF Evict
  <2>3. Saved' = Saved /\ Raised' = 0
    BY <2>2 DEF Saved, Raised
  <2> QED BY <2>1, <2>2, <2>3, VersionBound, FS_CardinalityType DEF ListsBound
<1>3. CASE \E v \in Versions : Expire(v)
  <2>1. ListsTypeOK'
    BY <1>3 DEF Expire, ListsBound, ListsTypeOK
  <2> QED BY <1>3, <2>1, QuietStep DEF Expire
<1> QED BY <1>1, <1>2, <1>3

LEMMA ReadBound ==
  ASSUME ListsBound, NEW r \in Readers, AskVersion(r) \/ Hit(r) \/ Query(r) \/ Cache(r)
  PROVE  ListsBound'
<1>1. CASE AskVersion(r)
  <2>1. version' \in Versions /\ Raised' = Raised
    BY <1>1, VersionBound, NoDishIsNothing DEF AskVersion, ListsBound, ListsTypeOK, Versions, Raised
  <2>2. reader' \in [Readers -> Request \cup {NoDish}]
    BY <1>1, <2>1 DEF AskVersion, ListsBound, ListsTypeOK, Request
  <2>3. Saved' = Saved
    BY <1>1 DEF AskVersion, Saved
  <2> QED BY <1>1, <2>1, <2>2, <2>3 DEF AskVersion, ListsBound, ListsTypeOK
<1>2. CASE Hit(r) \/ Query(r) \/ Cache(r)
  <2>1. reader' \in [Readers -> Request \cup {NoDish}]
    BY <1>2 DEF Hit, Query, Cache, Asks, ListsBound, ListsTypeOK, Request
  <2>2. lists' \in [Versions -> Menus \cup {NoDish}]
    BY <1>2 DEF Hit, Query, Cache, ListsBound, ListsTypeOK, Request
  <2>3. ListsTypeOK'
    BY <1>2, <2>1, <2>2 DEF Hit, Query, Cache, ListsBound, ListsTypeOK
  <2> QED BY <1>2, <2>3, QuietStep DEF Hit, Query, Cache
<1> QED BY <1>1, <1>2

LEMMA NextBound == ListsBound /\ [ListsNext]_listsVars => ListsBound'
<1> SUFFICES ASSUME ListsBound, [ListsNext]_listsVars PROVE ListsBound'
  OBVIOUS
<1>1. CASE UNCHANGED listsVars
  BY <1>1, QuietStep DEF listsVars, ListsBound, ListsTypeOK
<1> QED BY <1>1, EditBound, BumpBound, OthersBound, ReadBound DEF ListsNext, Administer, Read

\* Types: the version under which lists are kept never passes the number of
\* edits that were announced, for any number of administrators and readers.
THEOREM ListsTypes == ListsSpec => []ListsTypeOK
<1>1. ListsBound => ListsTypeOK
  BY DEF ListsBound
<1> QED BY <1>1, InitLists, NextBound, PTL DEF ListsSpec
------------------------------------------------------------------------------
\* Until a mishap: nothing is kept under a version to come, nor does a reader
\* know of it; and what is kept under the last version, or was queried for it,
\* is the menu, unless a request has committed and not yet raised the version.
CurrentInv ==
  mishaps = {} =>
    /\ version = NoDish =>
         /\ \A v \in Versions : lists[v] = NoDish
         /\ \A r \in Readers : reader[r] = NoDish
    /\ version # NoDish =>
         /\ \A v \in Versions : v > version => lists[v] = NoDish
         /\ \A r \in Readers : reader[r] # NoDish => reader[r].v <= version
    /\ ~Unannounced /\ version # NoDish =>
         /\ lists[version] \in {NoDish, menu}
         /\ \A r \in Readers :
              reader[r] # NoDish /\ reader[r].v = version => reader[r].list \in {NoDish, menu}

\* A step that lets something come in between.
LEMMA MishapStep ==
  ASSUME mishaps' # {}
  PROVE  CurrentInv'
BY DEF CurrentInv

LEMMA EditCurrent ==
  ASSUME ListsBound, CurrentInv, NEW e \in Editors, NEW d, NEW c,
         EditDish(e, d, c) \/ CreateNext(e, d, c)
  PROVE  CurrentInv'
<1>1. desk'[e] = "saved"
  BY DEF EditDish, CreateNext, ListsBound, ListsTypeOK
<1>2. Unannounced'
  BY <1>1, NoDishIsNothing DEF Unannounced
<1> QED BY <1>2 DEF EditDish, CreateNext, Writes, CurrentInv

LEMMA BumpCurrent ==
  ASSUME ListsBound, CurrentInv, NEW e \in Editors, GiveUp(e) \/ Bump(e) \/ StartVersions(e)
  PROVE  CurrentInv'
<1>1. CASE GiveUp(e)
  BY <1>1, MishapStep DEF GiveUp
<1>2. CASE Bump(e) /\ version = NoDish
  <2>1. desk'[e] = "cold"
    BY <1>2 DEF Bump, ListsBound, ListsTypeOK
  <2>2. Unannounced'
    BY <2>1, NoDishIsNothing DEF Unannounced
  <2> QED BY <1>2, <2>2 DEF Bump, CurrentInv
<1>3. CASE Bump(e) /\ version # NoDish
  <2>1. version' = version + 1 /\ UNCHANGED <<menu, lists, reader, mishaps>>
    BY <1>3 DEF Bump
  <2>2. version \in Versions /\ version' \in Versions /\ version' # NoDish
    BY <1>3, <2>1, RoomToRaise DEF Bump, ListsBound, ListsTypeOK
  <2>3. ASSUME mishaps = {}, NEW v \in Versions, v > version PROVE lists[v] = NoDish
    BY <1>3, <2>3 DEF CurrentInv
  <2>4. ASSUME mishaps = {}, NEW r \in Readers, reader[r] # NoDish
        PROVE  reader[r].v \in Nat /\ reader[r].v <= version
    BY <1>3, <2>4 DEF CurrentInv, ListsBound, ListsTypeOK, Request, Versions
  <2>5. version \in Nat /\ \A v \in Versions : v \in Nat
    BY <2>2 DEF Versions
  <2>6. mishaps = {} => \A v \in Versions : v > version' => lists'[v] = NoDish
    BY <2>1, <2>3, <2>5
  <2>7. mishaps = {} => lists'[version'] = NoDish
    BY <2>1, <2>2, <2>3, <2>5
  <2>8. mishaps = {} => \A r \in Readers : reader'[r] # NoDish =>
          reader'[r].v <= version' /\ reader'[r].v # version'
    BY <2>1, <2>4, <2>5
  <2> QED BY <2>1, <2>2, <2>6, <2>7, <2>8 DEF CurrentInv
<1>4. CASE StartVersions(e) /\ version # NoDish
  BY <1>4, MishapStep DEF StartVersions
<1>5. CASE StartVersions(e) /\ version = NoDish
  <2>1. version' = 1 /\ UNCHANGED <<menu, lists, reader, mishaps>>
    BY <1>5 DEF StartVersions
  <2>2. 1 \in Versions /\ 1 # NoDish
    BY ListsAssumption, NoDishIsNothing DEF Versions
  <2> QED BY <1>5, <2>1, <2>2 DEF CurrentInv
<1> QED BY <1>1, <1>2, <1>3, <1>4, <1>5

LEMMA AskCurrent ==
  ASSUME ListsBound, CurrentInv, NEW r \in Readers, AskVersion(r)
  PROVE  CurrentInv'
<1>1. /\ reader' = [reader EXCEPT ![r] = [v |-> version', list |-> NoDish]]
      /\ UNCHANGED <<menu, desk, lists, mishaps>>
  BY DEF AskVersion
<1>2. 1 \in Versions /\ 1 # NoDish /\ version' # NoDish
  BY ListsAssumption, NoDishIsNothing DEF Versions, AskVersion
<1>3. reader'[r].v = version' /\ reader'[r].list = NoDish
  BY <1>1 DEF ListsBound, ListsTypeOK
<1>4. ASSUME NEW q \in Readers, q # r PROVE reader'[q] = reader[q]
  BY <1>1, <1>4 DEF ListsBound, ListsTypeOK
<1>5. Unannounced' <=> Unannounced
  BY <1>1 DEF Unannounced
<1>6. version' \in Nat
  BY ReadBound, <1>2 DEF ListsBound, ListsTypeOK, Versions
<1>7. CASE version = NoDish
  <2>1. version' = 1
    BY <1>7 DEF AskVersion
  <2> QED BY <1>1, <1>2, <1>3, <1>4, <1>6, <1>7, <2>1 DEF CurrentInv
<1>8. CASE version # NoDish
  <2>1. version' = version
    BY <1>8 DEF AskVersion
  <2> QED BY <1>1, <1>3, <1>4, <1>5, <1>6, <1>8, <2>1 DEF CurrentInv
<1> QED BY <1>7, <1>8

LEMMA ReadCurrent ==
  ASSUME ListsBound, CurrentInv, NEW r \in Readers, Hit(r) \/ Query(r) \/ Cache(r)
  PROVE  CurrentInv'
<1>1. UNCHANGED <<menu, desk, version, mishaps>>
  BY DEF Hit, Query, Cache
<1>2. Unannounced' <=> Unannounced
  BY <1>1 DEF Unannounced
<1>3. ASSUME NEW q \in Readers, q # r PROVE reader'[q] = reader[q]
  BY <1>3 DEF Hit, Query, Cache, ListsBound, ListsTypeOK
<1>4. reader[r] # NoDish /\ reader[r].v \in Versions
  BY DEF Hit, Query, Cache, Asks, ListsBound, ListsTypeOK, Request
<1>5. reader'[r] = NoDish \/ (reader'[r].v = reader[r].v /\ reader'[r].list = menu)
  <2>1. CASE Hit(r) \/ Cache(r)
    BY <2>1 DEF Hit, Cache, ListsBound, ListsTypeOK
  <2>2. CASE Query(r)
    <3>1. reader' = [reader EXCEPT ![r] = [reader[r] EXCEPT !.list = menu]]
      BY <2>2 DEF Query, ListsBound, ListsTypeOK
    <3>2. reader'[r] = [reader[r] EXCEPT !.list = menu]
      BY <3>1 DEF ListsBound, ListsTypeOK
    <3>3. reader[r] \in Request
      BY <1>4 DEF ListsBound, ListsTypeOK
    <3> QED BY <3>2, <3>3 DEF Request
  <2> QED BY <2>1, <2>2
<1>6. lists' = lists \/ (lists' = [lists EXCEPT ![reader[r].v] = reader[r].list] /\ reader[r].list # NoDish)
  BY DEF Hit, Query, Cache
<1>7. mishaps = {} => version # NoDish /\ reader[r].v <= version
  BY <1>4 DEF CurrentInv
<1>8. version # NoDish => version \in Versions /\ version \in Nat
  BY DEF ListsBound, ListsTypeOK, Versions
<1>9. ASSUME NEW v \in Versions, v # reader[r].v PROVE lists'[v] = lists[v]
  BY <1>6, <1>9 DEF ListsBound, ListsTypeOK
<1>10. lists'[reader[r].v] \in {lists[reader[r].v], reader[r].list}
  BY <1>6, <1>4 DEF ListsBound, ListsTypeOK
<1>11. \A v \in Versions : v \in Nat
  BY DEF Versions
<1> QED BY <1>1, <1>2, <1>3, <1>4, <1>5, <1>7, <1>8, <1>9, <1>10, <1>11 DEF CurrentInv

LEMMA ExpireCurrent ==
  ASSUME ListsBound, CurrentInv, NEW v \in Versions, Expire(v)
  PROVE  CurrentInv'
<1>1. UNCHANGED <<menu, desk, version, reader, mishaps>>
  BY DEF Expire
<1>2. Unannounced' <=> Unannounced
  BY <1>1 DEF Unannounced
<1>3. \A w \in Versions : lists'[w] \in {lists[w], NoDish}
  BY DEF Expire, ListsBound, ListsTypeOK
<1>4. version # NoDish => version \in Versions
  BY DEF ListsBound, ListsTypeOK
<1> QED BY <1>1, <1>2, <1>3, <1>4 DEF CurrentInv

LEMMA NextCurrent == ListsBound /\ CurrentInv /\ [ListsNext]_listsVars => CurrentInv'
<1> SUFFICES ASSUME ListsBound, CurrentInv, [ListsNext]_listsVars PROVE CurrentInv'
  OBVIOUS
<1>1. CASE UNCHANGED listsVars
  BY <1>1 DEF listsVars, CurrentInv, Unannounced
<1>2. CASE DropCategory \/ Evict
  BY <1>2, MishapStep DEF DropCategory, Evict
<1> QED BY <1>1, <1>2, EditCurrent, BumpCurrent, AskCurrent, ReadCurrent, ExpireCurrent
        DEF ListsNext, Administer, Read

\* Who asks once the edits are through is shown the menu as it is, for any
\* number of administrators' requests and readers at the same time, until one
\* of the three mishaps has happened.
THEOREM ListsAreCurrent == ListsSpec => []ListsCurrent
<1>1. ListsInit => CurrentInv
  BY DEF ListsInit, CurrentInv
<1>2. ListsBound /\ CurrentInv => ListsCurrent
  BY DEF CurrentInv, ListsCurrent
<1> QED BY <1>1, <1>2, InitLists, NextBound, NextCurrent, PTL DEF ListsSpec
------------------------------------------------------------------------------
(* Reviews and ratings *)

\* Requests are of one kind each, and a request that met another is at work,
\* with the dish noted; two requests on one dish have met.
Met ==
  /\ \A x \in crowded : \E d \in Dishes : x \in At(d)
  /\ \A d \in Dishes : \A x, y \in At(d) : x # y => x \in crowded
  /\ \A d \in Dishes \ overlapped : crowded \cap At(d) = {}

\* An administrator who has met nobody has the rating as it is.
FreshEdit(e) ==
  editing[e] # None /\ e \notin crowded =>
    OnMenu(editing[e].d) /\ editing[e].rated = dish[editing[e].d]

\* A transaction that has met nobody has the rating that it will leave.
FreshPost(p) ==
  post[p] # None /\ p \notin crowded /\ post[p].rated # None =>
    post[p].rated = {r \in Seen(post[p]) : r.d = post[p].r.d}

Agrees(d) == IF OnMenu(d) THEN dish[d] = ReviewsOf(d) ELSE ReviewsOf(d) = {}

ReviewsInv ==
  /\ ReviewsTypeOK /\ Met
  /\ \A e \in Admins : FreshEdit(e)
  /\ \A p \in Posts : FreshPost(p)
  /\ RatingsAgree

LEMMA AtWork ==
  ASSUME ReviewsTypeOK, NEW d \in Dishes
  PROVE  /\ \A e \in Admins : e \in At(d) <=> editing[e] # None /\ editing[e].d = d
         /\ \A p \in Posts : p \in At(d) <=> post[p] # None /\ post[p].r.d = d
         /\ At(d) \subseteq Admins \cup Posts
         /\ \A c \in Dishes : \A x : x \in At(c) /\ x \in At(d) => c = d
<1>1. Admins \cap Posts = {}
  BY NoneIsNothing
<1> QED BY <1>1 DEF At

\* Request x is put to work on dish d.
LEMMA ArrivalMeets ==
  ASSUME ReviewsTypeOK, ReviewsTypeOK', Met, NEW d \in Dishes, NEW x \in Admins \cup Posts,
         Meets(x, d), At(d)' = At(d) \cup {x},
         \A c \in Dishes : c # d => At(c)' = At(c),
         \A c \in Dishes : x \notin At(c)
  PROVE  Met'
<1>1. x \notin crowded
  BY DEF Met
<1>2. crowded \subseteq crowded' /\ overlapped \subseteq overlapped'
  BY DEF Meets
<1>3. CASE At(d) = {}
  BY <1>1, <1>3 DEF Meets, Met
<1>4. CASE At(d) # {}
  <2>1. overlapped' = overlapped \cup {d} /\ crowded' = crowded \cup At(d) \cup {x}
    BY <1>4 DEF Meets
  <2>2. ASSUME NEW y \in crowded' PROVE \E c \in Dishes : y \in At(c)'
    <3>1. CASE y \in crowded
      <4>1. PICK c \in Dishes : y \in At(c)
        BY <3>1 DEF Met
      <4>2. y \in At(c)'
        BY <4>1
      <4> QED BY <4>1, <4>2
    <3>2. CASE y \notin crowded
      BY <2>1, <3>2
    <3> QED BY <3>1, <3>2
  <2>3. ASSUME NEW c \in Dishes, NEW y \in At(c)', NEW z \in At(c)', y # z PROVE y \in crowded'
    BY <2>1, <2>3 DEF Met
  <2>4. ASSUME NEW c \in Dishes, c \notin overlapped' PROVE crowded' \cap At(c)' = {}
    <3>1. c # d /\ c \notin overlapped /\ At(c)' = At(c)
      BY <2>1, <2>4
    <3>2. crowded \cap At(c) = {}
      BY <3>1 DEF Met
    <3>3. At(d) \cap At(c) = {}
      BY <3>1, AtWork
    <3> QED BY <2>1, <3>1, <3>2, <3>3
  <2> QED BY <2>2, <2>3, <2>4 DEF Met
<1> QED BY <1>3, <1>4

\* Request x leaves dish d, which is noted as in order at most if nobody was met.
LEMMA DepartureMeets ==
  ASSUME ReviewsTypeOK, ReviewsTypeOK', Met, NEW d \in Dishes, NEW x \in At(d),
         Leaves(x), At(d)' = At(d) \ {x},
         \A c \in Dishes : c # d => At(c)' = At(c),
         overlapped' = overlapped \/ (x \notin crowded /\ overlapped' = overlapped \ {d})
  PROVE  Met'
<1>1. crowded' = crowded \ {x}
  BY DEF Leaves
<1>2. ASSUME NEW y \in crowded' PROVE \E c \in Dishes : y \in At(c)'
  <2>1. PICK c \in Dishes : y \in At(c)
    BY <1>1 DEF Met
  <2>2. y \in At(c)'
    BY <1>1, <2>1
  <2> QED BY <2>2
<1>3. ASSUME NEW c \in Dishes, NEW y \in At(c)', NEW z \in At(c)', y # z PROVE y \in crowded'
  <2>1. y \in At(c) /\ z \in At(c)
    OBVIOUS
  <2>2. y # x
    <3>1. CASE c = d
      BY <3>1
    <3>2. CASE c # d
      BY <3>2, <2>1, AtWork
    <3> QED BY <3>1, <3>2
  <2> QED BY <1>1, <1>3, <2>1, <2>2 DEF Met
<1>4. ASSUME NEW c \in Dishes, c \notin overlapped' PROVE crowded' \cap At(c)' = {}
  <2>1. CASE c \notin overlapped
    BY <1>1, <2>1 DEF Met
  <2>2. CASE c \in overlapped
    <3>1. c = d /\ x \notin crowded
      BY <1>4, <2>2
    <3>2. At(d) = {x}
      BY <3>1 DEF Met
    <3> QED BY <3>1, <3>2
  <2> QED BY <2>1, <2>2
<1> QED BY <1>2, <1>3, <1>4 DEF Met

\* Row and reviews of no dish but d change, and x is not the request that
\* changes them: it keeps its rating, or has met.
LEMMA EditStaysFresh ==
  ASSUME ReviewsTypeOK, NEW d, NEW e \in Admins, FreshEdit(e),
         \A c \in Dishes : c # d => dish'[c] = dish[c],
         editing'[e] = editing[e], e \in crowded => e \in crowded',
         e \in At(d) => e \in crowded'
  PROVE  FreshEdit(e)'
<1> SUFFICES ASSUME editing[e] # None, e \notin crowded'
             PROVE  OnMenu(editing[e].d)' /\ editing[e].rated = dish'[editing[e].d]
  BY DEF FreshEdit, OnMenu
<1>1. editing[e].d \in Dishes /\ editing[e].d # d
  BY DEF At, ReviewsTypeOK, Edit
<1> QED BY <1>1 DEF FreshEdit, OnMenu

LEMMA PostStaysFresh ==
  ASSUME ReviewsTypeOK, NEW d, NEW p \in Posts, FreshPost(p),
         \A r : r.d # d => (r \in reviews' <=> r \in reviews),
         post'[p] = post[p], p \in crowded => p \in crowded',
         p \in At(d) => p \in crowded'
  PROVE  FreshPost(p)'
<1> SUFFICES ASSUME post[p] # None, p \notin crowded', post[p].rated # None
             PROVE  post[p].rated = {r \in Seen(post[p])' : r.d = post[p].r.d}
  BY DEF FreshPost, Seen
<1>1. post[p].r.d # d
  BY DEF At
<1>2. post[p].rated = {r \in Seen(post[p]) : r.d = post[p].r.d}
  BY DEF FreshPost
<1> QED BY <1>1, <1>2 DEF Seen

\* What a step of request x on dish d leaves of the others' knowledge and of
\* the other dishes, when it changes no row or review but those of d.
LEMMA OthersStayFresh ==
  ASSUME ReviewsInv, NEW d \in Dishes, NEW x,
         \A c \in Dishes : c # d => dish'[c] = dish[c],
         \A r : r.d # d => (r \in reviews' <=> r \in reviews),
         \A y \in crowded : y # x => y \in crowded',
         \A y \in At(d) : y # x => y \in crowded',
         \A e \in Admins : e # x => editing'[e] = editing[e],
         \A p \in Posts : p # x => post'[p] = post[p]
  PROVE  /\ \A e \in Admins : e # x => FreshEdit(e)'
         /\ \A p \in Posts : p # x => FreshPost(p)'
<1>1. ASSUME NEW e \in Admins, e # x PROVE FreshEdit(e)'
  BY <1>1, EditStaysFresh DEF ReviewsInv
<1>2. ASSUME NEW p \in Posts, p # x PROVE FreshPost(p)'
  BY <1>2, PostStaysFresh DEF ReviewsInv
<1> QED BY <1>1, <1>2

LEMMA OtherDishesAgree ==
  ASSUME ReviewsInv, NEW d \in Dishes,
         \A c \in Dishes : c # d => dish'[c] = dish[c],
         \A r : r.d # d => (r \in reviews' <=> r \in reviews),
         \A c \in Dishes : c # d /\ c \in overlapped => c \in overlapped'
  PROVE  \A c \in Dishes \ overlapped' : c # d =>
           IF OnMenu(c)' THEN dish'[c] = ReviewsOf(c)' ELSE ReviewsOf(c)' = {}
BY DEF ReviewsInv, RatingsAgree, OnMenu, ReviewsOf

\* Who ends its work on dish d is alone, or the others on d have met it.
LEMMA Parting ==
  ASSUME ReviewsInv, NEW d \in Dishes, NEW x \in At(d)
  PROVE  /\ \A y \in At(d) : y # x => y \in crowded
         /\ x \in crowded => d \in overlapped
BY DEF ReviewsInv, Met

LEMMA CreateAgrees ==
  ASSUME ReviewsInv, NEW d \in Dishes, Create(d)
  PROVE  ReviewsInv'
<1>1. /\ ~OnMenu(d) /\ dish' = [dish EXCEPT ![d] = {}]
      /\ UNCHANGED <<reviews, editing, post, overlapped, crowded>>
  BY DEF Create
<1>2. ReviewsTypeOK'
  BY <1>1 DEF ReviewsInv, ReviewsTypeOK, Rating
<1>3. Met'
  BY <1>1 DEF ReviewsInv, Met, At
<1>4. dish'[d] = {} /\ \A c \in Dishes : c # d => dish'[c] = dish[c]
  BY <1>1 DEF ReviewsInv, ReviewsTypeOK
<1>5. ASSUME NEW e \in Admins PROVE FreshEdit(e)'
  <2>1. editing[e] # None => editing[e].d \in Dishes
    BY DEF ReviewsInv, ReviewsTypeOK, Edit
  <2>2. editing[e] # None /\ e \notin crowded => editing[e].d # d
    BY <1>1 DEF ReviewsInv, FreshEdit
  <2> QED BY <1>1, <1>4, <2>1, <2>2 DEF ReviewsInv, FreshEdit, OnMenu
<1>6. ASSUME NEW p \in Posts PROVE FreshPost(p)'
  BY <1>1 DEF ReviewsInv, FreshPost, Seen
<1>7. RatingsAgree'
  <2>1. d \notin overlapped => ReviewsOf(d) = {}
    BY <1>1 DEF ReviewsInv, RatingsAgree
  <2>2. {} # None
    BY NoneIsNothing DEF Rating
  <2> QED BY <1>1, <1>4, <2>1, <2>2 DEF ReviewsInv, RatingsAgree, OnMenu, ReviewsOf
<1> QED BY <1>2, <1>3, <1>5, <1>6, <1>7 DEF ReviewsInv

LEMMA OpenAgrees ==
  ASSUME ReviewsInv, NEW e \in Admins, NEW op \in {"update", "delete"}, NEW d \in Dishes,
         Open(e, op, d)
  PROVE  ReviewsInv'
<1> DEFINE k == [op |-> op, d |-> d, rated |-> dish[d]]
<1>1. /\ editing[e] = None /\ OnMenu(d) /\ editing' = [editing EXCEPT ![e] = k]
      /\ Meets(e, d) /\ UNCHANGED <<dish, reviews, post>>
  BY DEF Open
<1>2. k \in Edit /\ k # None
  BY <1>1, NoneIsNothing DEF Edit, OnMenu, ReviewsInv, ReviewsTypeOK
<1>3. crowded \subseteq crowded' /\ overlapped \subseteq overlapped'
  BY <1>1 DEF Meets
<1>4. ReviewsTypeOK'
  <2>1. At(d) \subseteq Admins \cup Posts
    BY AtWork DEF ReviewsInv
  <2> QED BY <1>1, <1>2, <2>1 DEF Meets, ReviewsInv, ReviewsTypeOK
<1> HIDE DEF k
<1>5. editing'[e] = k /\ \A f \in Admins : f # e => editing'[f] = editing[f]
  BY <1>1 DEF ReviewsInv, ReviewsTypeOK
<1>6. \A c \in Dishes : At(c)' = IF c = d THEN At(c) \cup {e} ELSE At(c)
  <2>1. k.d = d
    BY DEF k
  <2>2. Admins \cap Posts = {}
    BY NoneIsNothing
  <2> QED BY <1>1, <1>2, <1>5, <2>1, <2>2 DEF At
<1>7. \A c \in Dishes : e \notin At(c)
  BY <1>1, AtWork DEF ReviewsInv
<1>8. Met'
  BY <1>1, <1>4, <1>6, <1>7, ArrivalMeets DEF ReviewsInv
<1>9. ASSUME NEW f \in Admins PROVE FreshEdit(f)'
  <2>1. CASE f = e
    BY <2>1, <1>1, <1>5 DEF FreshEdit, k, OnMenu
  <2>2. CASE f # e
    BY <2>2, <1>1, <1>3, <1>5 DEF ReviewsInv, FreshEdit, OnMenu
  <2> QED BY <2>1, <2>2
<1>10. ASSUME NEW p \in Posts PROVE FreshPost(p)'
  BY <1>1, <1>3 DEF ReviewsInv, FreshPost, Seen
<1>11. RatingsAgree'
  BY <1>1, <1>3 DEF ReviewsInv, RatingsAgree, OnMenu, ReviewsOf
<1> QED BY <1>4, <1>8, <1>9, <1>10, <1>11 DEF ReviewsInv

LEMMA WriteAgrees ==
  ASSUME ReviewsInv, NEW p \in Posts, NEW op \in {"add", "edit", "remove"}, NEW r \in Review,
         Write(p, op, r)
  PROVE  ReviewsInv'
<1> DEFINE w == [op |-> op, r |-> r, rated |-> None]
<1> DEFINE d == r.d
<1>1. /\ post[p] = None /\ post' = [post EXCEPT ![p] = w]
      /\ Meets(p, d) /\ UNCHANGED <<dish, reviews, editing>>
  BY DEF Write
<1>2. w \in Post /\ w # None /\ d \in Dishes
  BY NoneIsNothing DEF Post, Review
<1>3. crowded \subseteq crowded' /\ overlapped \subseteq overlapped'
  BY <1>1 DEF Meets
<1>4. ReviewsTypeOK'
  <2>1. At(d) \subseteq Admins \cup Posts
    BY <1>2, AtWork DEF ReviewsInv
  <2> QED BY <1>1, <1>2, <2>1 DEF Meets, ReviewsInv, ReviewsTypeOK
<1>5. w.r.d = d /\ w.rated = None
  OBVIOUS
<1> HIDE DEF w, d
<1>6. post'[p] = w /\ \A q \in Posts : q # p => post'[q] = post[q]
  BY <1>1 DEF ReviewsInv, ReviewsTypeOK
<1>7. \A c \in Dishes : At(c)' = IF c = d THEN At(c) \cup {p} ELSE At(c)
  <2>1. Admins \cap Posts = {}
    BY NoneIsNothing
  <2> QED BY <1>1, <1>2, <1>5, <1>6, <2>1 DEF At
<1>8. \A c \in Dishes : p \notin At(c)
  BY <1>1, AtWork DEF ReviewsInv
<1>9. Met'
  BY <1>1, <1>2, <1>4, <1>7, <1>8, ArrivalMeets DEF ReviewsInv
<1>10. ASSUME NEW e \in Admins PROVE FreshEdit(e)'
  BY <1>1, <1>3 DEF ReviewsInv, FreshEdit, OnMenu
<1>11. ASSUME NEW q \in Posts PROVE FreshPost(q)'
  <2>1. CASE q = p
    BY <2>1, <1>5, <1>6 DEF FreshPost
  <2>2. CASE q # p
    BY <2>2, <1>1, <1>3, <1>6 DEF ReviewsInv, FreshPost, Seen
  <2> QED BY <2>1, <2>2
<1>12. RatingsAgree'
  BY <1>1, <1>3 DEF ReviewsInv, RatingsAgree, OnMenu, ReviewsOf
<1> QED BY <1>4, <1>9, <1>10, <1>11, <1>12 DEF ReviewsInv

LEMMA SyncAgrees ==
  ASSUME ReviewsInv, NEW p \in Posts, Sync(p)
  PROVE  ReviewsInv'
<1> DEFINE s == {r \in Seen(post[p]) : r.d = post[p].r.d}
<1>1. /\ post[p] # None /\ post' = [post EXCEPT ![p].rated = s]
      /\ UNCHANGED <<dish, reviews, editing, overlapped, crowded>>
  BY DEF Sync
<1>2. post[p] \in Post
  BY <1>1 DEF ReviewsInv, ReviewsTypeOK
<1>3. s \in Rating
  BY <1>2 DEF Seen, Rating, Post, ReviewsInv, ReviewsTypeOK
<1> DEFINE w == [post[p] EXCEPT !.rated = s]
<1>4. w \in Post /\ w.r = post[p].r /\ w.op = post[p].op /\ w.rated = s
  BY <1>2, <1>3 DEF Post
<1>5. w # None
  BY <1>4, NoneIsNothing
<1>6. post' = [post EXCEPT ![p] = w]
  BY <1>1 DEF ReviewsInv, ReviewsTypeOK
<1> HIDE DEF w
<1>7. post'[p] = w /\ \A q \in Posts : q # p => post'[q] = post[q]
  BY <1>6 DEF ReviewsInv, ReviewsTypeOK
<1>8. ReviewsTypeOK'
  BY <1>1, <1>4, <1>6 DEF ReviewsInv, ReviewsTypeOK
<1>9. \A c \in Dishes : At(c)' = At(c)
  <2>1. \A q \in Posts : /\ post'[q] # None <=> post[q] # None
                         /\ post[q] # None => post'[q].r = post[q].r
    BY <1>1, <1>4, <1>5, <1>7
  <2>2. editing' = editing
    BY <1>1
  <2> HIDE DEF s
  <2> QED BY <2>1, <2>2, Zenon DEF At
<1>10. Met'
  BY <1>1, <1>9 DEF ReviewsInv, Met
<1>11. ASSUME NEW e \in Admins PROVE FreshEdit(e)'
  BY <1>1 DEF ReviewsInv, FreshEdit, OnMenu
<1>12. ASSUME NEW q \in Posts PROVE FreshPost(q)'
  <2>1. CASE q = p
    BY <2>1, <1>1, <1>4, <1>7 DEF FreshPost, Seen
  <2>2. CASE q # p
    BY <2>2, <1>1, <1>7 DEF ReviewsInv, FreshPost, Seen
  <2> QED BY <2>1, <2>2
<1>13. RatingsAgree'
  BY <1>1 DEF ReviewsInv, RatingsAgree, OnMenu, ReviewsOf
<1> QED BY <1>8, <1>10, <1>11, <1>12, <1>13 DEF ReviewsInv
------------------------------------------------------------------------------
\* An administrator's request ends.
LEMMA CloseAgrees ==
  ASSUME ReviewsInv, NEW e \in Admins, editing[e] # None, Close(e),
         NEW d \in Dishes, d = editing[e].d,
         NEW x \in Rating \cup {None}, dish' = [dish EXCEPT ![d] = x],
         reviews' \subseteq reviews,
         \A r : r.d # d => (r \in reviews' <=> r \in reviews),
         d \notin overlapped => Agrees(d)',
         UNCHANGED <<post, overlapped>>
  PROVE  ReviewsInv'
<1>1. editing' = [editing EXCEPT ![e] = None] /\ crowded' = crowded \ {e}
  BY DEF Close, Leaves
<1>2. ReviewsTypeOK'
  BY <1>1 DEF ReviewsInv, ReviewsTypeOK
<1>3. editing'[e] = None /\ \A f \in Admins : f # e => editing'[f] = editing[f]
  BY <1>1 DEF ReviewsInv, ReviewsTypeOK
<1>4. e \in At(d)
  BY AtWork DEF ReviewsInv
<1>5. \A c \in Dishes : At(c)' = IF c = d THEN At(c) \ {e} ELSE At(c)
  <2>1. Admins \cap Posts = {}
    BY NoneIsNothing
  <2> QED BY <1>3, <2>1 DEF At
<1>6. Met'
  BY <1>2, <1>4, <1>5, DepartureMeets DEF ReviewsInv, Close
<1>7. \A c \in Dishes : c # d => dish'[c] = dish[c]
  BY DEF ReviewsInv, ReviewsTypeOK
<1>8. \A y \in At(d) : y # e => y \in crowded'
  BY <1>1, <1>4, Parting
<1>9. e \notin Posts
  BY NoneIsNothing
<1>10. /\ \A f \in Admins : f # e => FreshEdit(f)'
       /\ \A p \in Posts : p # e => FreshPost(p)'
  BY <1>1, <1>3, <1>7, <1>8, OthersStayFresh
<1>11. FreshEdit(e)'
  BY <1>3 DEF FreshEdit
<1>12. \A c \in Dishes \ overlapped' : c # d =>
           IF OnMenu(c)' THEN dish'[c] = ReviewsOf(c)' ELSE ReviewsOf(c)' = {}
  BY <1>7, OtherDishesAgree
<1>13. \A r, q \in reviews' : r.d = q.d /\ r.u = q.u => r = q
  BY DEF ReviewsInv, RatingsAgree
<1>14. RatingsAgree'
  BY <1>12, <1>13 DEF RatingsAgree, Agrees
<1> QED BY <1>2, <1>6, <1>9, <1>10, <1>11, <1>14 DEF ReviewsInv

LEMMA SaveAgrees ==
  ASSUME ReviewsInv, NEW e \in Admins, Save(e)
  PROVE  ReviewsInv'
<1>1. PICK k \in Edit : k = editing[e]
  BY DEF Save, ReviewsInv, ReviewsTypeOK
<1>2. /\ k # None /\ dish' = [dish EXCEPT ![k.d] = k.rated] /\ Close(e)
      /\ UNCHANGED <<post, reviews, overlapped>>
  BY <1>1 DEF Save
<1>3. PICK d \in Dishes : d = k.d /\ k.rated \in Rating
  BY DEF Edit
<1>4. d \notin overlapped => e \notin crowded
  BY <1>1, <1>2, <1>3, Parting, AtWork DEF ReviewsInv
<1>5. d \notin overlapped => OnMenu(d) /\ k.rated = dish[d]
  BY <1>1, <1>2, <1>3, <1>4 DEF ReviewsInv, FreshEdit
<1>6. d \notin overlapped => Agrees(d)'
  BY <1>2, <1>3, <1>5 DEF ReviewsInv, ReviewsTypeOK, RatingsAgree, Agrees, OnMenu, ReviewsOf
<1> QED BY <1>1, <1>2, <1>3, <1>6, CloseAgrees

LEMMA DeleteAgrees ==
  ASSUME ReviewsInv, NEW e \in Admins, Delete(e)
  PROVE  ReviewsInv'
<1>1. PICK k \in Edit : k = editing[e]
  BY DEF Delete, ReviewsInv, ReviewsTypeOK
<1>2. PICK d \in Dishes : d = k.d
  BY DEF Edit
<1>3. /\ k # None /\ dish' = [dish EXCEPT ![d] = None] /\ Close(e)
      /\ reviews' = reviews \ ReviewsOf(d)
      /\ UNCHANGED <<post, overlapped>>
  BY <1>1, <1>2 DEF Delete
<1>4. Agrees(d)'
  BY <1>3 DEF ReviewsInv, ReviewsTypeOK, Agrees, OnMenu, ReviewsOf
<1>5. \A r : r.d # d => (r \in reviews' <=> r \in reviews)
  BY <1>3 DEF ReviewsOf
<1> QED BY <1>1, <1>2, <1>3, <1>4, <1>5, CloseAgrees

LEMMA CommitAgrees ==
  ASSUME ReviewsInv, NEW p \in Posts, Commit(p)
  PROVE  ReviewsInv'
<1>w. PICK w \in Post : w = post[p]
  BY DEF Commit, ReviewsInv, ReviewsTypeOK
<1>d. PICK d \in Dishes : d = w.r.d
  BY DEF Post, Review
<1>1. /\ w # None /\ w.rated # None /\ OnMenu(d)
      /\ dish' = [dish EXCEPT ![d] = w.rated] /\ reviews' = Seen(w)
      /\ overlapped' = IF p \in crowded THEN overlapped ELSE overlapped \ {d}
      /\ post' = [post EXCEPT ![p] = None] /\ Leaves(p)
      /\ crowded' = crowded \ {p} /\ editing' = editing
  BY <1>w, <1>d DEF Commit, Ends, Leaves
<1>2. w.r \in Review /\ w.rated \in Rating
  BY <1>1 DEF Post
<1>3. ReviewsTypeOK'
  <2>1. reviews' \subseteq Review
    BY <1>1, <1>2 DEF Seen, ReviewsInv, ReviewsTypeOK
  <2> QED BY <1>1, <1>2, <2>1 DEF ReviewsInv, ReviewsTypeOK
<1>4. post'[p] = None /\ \A q \in Posts : q # p => post'[q] = post[q]
  BY <1>1 DEF ReviewsInv, ReviewsTypeOK
<1>5. p \in At(d)
  BY <1>w, <1>d, <1>1, AtWork DEF ReviewsInv
<1>6. \A c \in Dishes : At(c)' = IF c = d THEN At(c) \ {p} ELSE At(c)
  <2>1. Admins \cap Posts = {}
    BY NoneIsNothing
  <2> QED BY <1>w, <1>d, <1>1, <1>4, <2>1 DEF At
<1>7. Met'
  BY <1>1, <1>2, <1>3, <1>5, <1>6, DepartureMeets DEF ReviewsInv
<1>8. \A c \in Dishes : c # d => dish'[c] = dish[c]
  BY <1>1 DEF ReviewsInv, ReviewsTypeOK
<1>9. \A y \in At(d) : y # p => y \in crowded'
  BY <1>1, <1>2, <1>5, Parting
<1>10. \A r : r.d # d => (r \in reviews' <=> r \in reviews)
  BY <1>d, <1>1 DEF Seen
<1>11. /\ \A e \in Admins : e # p => FreshEdit(e)'
       /\ \A q \in Posts : q # p => FreshPost(q)'
  BY <1>1, <1>2, <1>4, <1>8, <1>9, <1>10, OthersStayFresh
<1>12. FreshPost(p)' /\ p \notin Admins
  BY <1>4, NoneIsNothing DEF FreshPost
<1>13. \A c \in Dishes \ overlapped' : c # d =>
           IF OnMenu(c)' THEN dish'[c] = ReviewsOf(c)' ELSE ReviewsOf(c)' = {}
  BY <1>1, <1>2, <1>8, <1>10, OtherDishesAgree
<1>14. \A r, q \in reviews' : r.d = q.d /\ r.u = q.u => r = q
  BY <1>1 DEF Seen, ReviewsInv, RatingsAgree
<1>15. d \notin overlapped' => OnMenu(d)' /\ dish'[d] = ReviewsOf(d)'
  <2>1. d \notin overlapped' => p \notin crowded
    BY <1>1, <1>2, <1>5, Parting
  <2>2. p \notin crowded => w.rated = {r \in Seen(w) : r.d = d}
    BY <1>w, <1>d, <1>1 DEF ReviewsInv, FreshPost
  <2>3. dish'[d] = w.rated
    BY <1>1, <1>2 DEF ReviewsInv, ReviewsTypeOK
  <2> QED BY <1>1, <2>1, <2>2, <2>3 DEF OnMenu, ReviewsOf
<1>16. RatingsAgree'
  BY <1>13, <1>14, <1>15 DEF RatingsAgree
<1> QED BY <1>3, <1>7, <1>11, <1>12, <1>16 DEF ReviewsInv

LEMMA RollbackAgrees ==
  ASSUME ReviewsInv, NEW p \in Posts, Rollback(p)
  PROVE  ReviewsInv'
<1> DEFINE d == post[p].r.d
<1>1. /\ post[p] # None /\ post' = [post EXCEPT ![p] = None] /\ Leaves(p)
      /\ crowded' = crowded \ {p} /\ UNCHANGED <<dish, reviews, editing, overlapped>>
  BY DEF Rollback, Ends, Leaves
<1>2. d \in Dishes
  BY <1>1 DEF ReviewsInv, ReviewsTypeOK, Post, Review
<1>3. ReviewsTypeOK'
  BY <1>1 DEF ReviewsInv, ReviewsTypeOK
<1>4. post'[p] = None /\ \A q \in Posts : q # p => post'[q] = post[q]
  BY <1>1 DEF ReviewsInv, ReviewsTypeOK
<1>5. p \in At(d)
  BY <1>1, <1>2, AtWork DEF ReviewsInv
<1>6. \A c \in Dishes : At(c)' = IF c = d THEN At(c) \ {p} ELSE At(c)
  <2>1. Admins \cap Posts = {}
    BY NoneIsNothing
  <2> QED BY <1>1, <1>4, <2>1 DEF At
<1>7. Met'
  BY <1>1, <1>2, <1>3, <1>5, <1>6, DepartureMeets DEF ReviewsInv
<1>8. \A y \in At(d) : y # p => y \in crowded'
  BY <1>1, <1>2, <1>5, Parting
<1>9. /\ \A e \in Admins : e # p => FreshEdit(e)'
      /\ \A q \in Posts : q # p => FreshPost(q)'
  BY <1>1, <1>2, <1>4, <1>8, OthersStayFresh
<1>10. FreshPost(p)' /\ p \notin Admins
  BY <1>4, NoneIsNothing DEF FreshPost
<1>11. RatingsAgree'
  BY <1>1 DEF ReviewsInv, RatingsAgree, OnMenu, ReviewsOf
<1> QED BY <1>3, <1>7, <1>9, <1>10, <1>11 DEF ReviewsInv

LEMMA InitAgrees == ReviewsInit => ReviewsInv
<1> SUFFICES ASSUME ReviewsInit PROVE ReviewsInv
  OBVIOUS
<1>1. \A d \in Dishes : At(d) = {}
  BY DEF ReviewsInit, At
<1> QED BY <1>1 DEF ReviewsInit, ReviewsInv, ReviewsTypeOK, Met, FreshEdit, FreshPost,
                    RatingsAgree, OnMenu, ReviewsOf

LEMMA NextAgrees == ReviewsInv /\ [ReviewsNext]_reviewVars => ReviewsInv'
<1> SUFFICES ASSUME ReviewsInv, [ReviewsNext]_reviewVars PROVE ReviewsInv'
  OBVIOUS
<1>1. CASE UNCHANGED reviewVars
  BY <1>1 DEF reviewVars, ReviewsInv, ReviewsTypeOK, Met, At, FreshEdit, FreshPost, Seen,
              RatingsAgree, OnMenu, ReviewsOf
<1> QED BY <1>1, CreateAgrees, OpenAgrees, SaveAgrees, DeleteAgrees, WriteAgrees,
           SyncAgrees, CommitAgrees, RollbackAgrees DEF ReviewsNext

\* A user has one review of a dish, and a dish is rated by its reviews unless
\* requests overlapped on it since one was alone, for any number of dishes,
\* users and requests.
THEOREM RatingsFollow == ReviewsSpec => [](ReviewsTypeOK /\ RatingsAgree)
<1>1. ReviewsInv => ReviewsTypeOK /\ RatingsAgree
  BY DEF ReviewsInv
<1> QED BY <1>1, InitAgrees, NextAgrees, PTL DEF ReviewsSpec
------------------------------------------------------------------------------
(* Devices *)

\* A registration that met another of its user is at work, with the user noted;
\* two registrations of one user have met.
Jostling ==
  /\ \A r \in jostled : reg[r] # Nobody /\ reg[r].user \in mingled
  /\ \A r, q \in Regs :
       r # q /\ reg[r] # Nobody /\ reg[q] # Nobody /\ reg[r].user = reg[q].user => r \in jostled

\* A device's row is held by one registration; those that are to be turned off
\* are the user's, all of them but the one that registers if nobody was met.
Holding(r) ==
  reg[r] # Nobody =>
    /\ reg[r].off \subseteq Of(reg[r].user) \ {reg[r].phone}
    /\ reg[r].swept /\ r \notin jostled => Of(reg[r].user) \subseteq reg[r].off \cup {reg[r].phone}

Follow(u) == On(u) = {latest[u]} \ (refused \cup {Nobody})

DevicesInv ==
  /\ DevicesTypeOK /\ Jostling
  /\ \A r \in Regs : Holding(r)
  /\ \A r, q \in Regs : r # q => HeldBy(r) \cap HeldBy(q) = {}
  /\ \A p \in Pushes : \A f \in push[p] : device[f] # Nobody
  /\ \A u \in Persons \ mingled : Follow(u)

LEMMA InitFollows == DevicesInit => DevicesInv
BY NobodyIsNothing DEF DevicesInit, DevicesInv, DevicesTypeOK, Jostling, Holding, HeldBy, Follow, On, Of

LEMMA HeldIs ==
  \A f : f \in Held <=> \E r \in Regs : f \in HeldBy(r)
BY DEF Held

LEMMA RegisterFollows ==
  ASSUME DevicesInv, NEW r \in Regs, NEW u \in Persons, NEW f \in Phones, Register(r, u, f)
  PROVE  DevicesInv'
<1> DEFINE w == [user |-> u, phone |-> f, swept |-> FALSE, off |-> {}]
<1>1. /\ reg[r] = Nobody /\ f \notin Held /\ reg' = [reg EXCEPT ![r] = w]
      /\ UNCHANGED <<device, push, latest, refused>>
  BY DEF Register
<1>2. w \in Reg /\ w # Nobody
  <2>1. w \in Reg
    BY DEF Reg
  <2> QED BY <2>1, NobodyIsNothing
<1>3. reg'[r] = w /\ \A q \in Regs : q # r => reg'[q] = reg[q]
  BY <1>1 DEF DevicesInv, DevicesTypeOK
<1>4. jostled \subseteq jostled' /\ mingled \subseteq mingled'
  BY DEF Register
<1>5. DevicesTypeOK'
  BY <1>1, <1>2 DEF Register, Rivals, DevicesInv, DevicesTypeOK
<1>6. w.user = u /\ w.phone = f /\ w.off = {} /\ ~w.swept
  OBVIOUS
<1> HIDE DEF w
<1>7. Jostling'
  <2>1. \A q \in Regs : q \in Rivals(u) <=> reg[q] # Nobody /\ reg[q].user = u
    BY DEF Rivals
  <2>2. r \notin jostled
    BY <1>1 DEF DevicesInv, Jostling
  <2>3. CASE Rivals(u) = {}
    <3>1. UNCHANGED <<mingled, jostled>>
      BY <2>3 DEF Register
    <3>2. ASSUME NEW q \in jostled' PROVE reg'[q] # Nobody /\ reg'[q].user \in mingled'
      BY <1>3, <2>2, <3>1 DEF DevicesInv, DevicesTypeOK, Jostling
    <3> QED BY <1>2, <1>3, <1>6, <2>1, <2>3, <3>1, <3>2 DEF DevicesInv, Jostling
  <2>4. CASE Rivals(u) # {}
    <3>1. mingled' = mingled \cup {u} /\ jostled' = jostled \cup Rivals(u) \cup {r}
      BY <2>4 DEF Register
    <3>2. ASSUME NEW q \in jostled' PROVE reg'[q] # Nobody /\ reg'[q].user \in mingled'
      BY <1>2, <1>3, <1>6, <2>1, <3>1 DEF Rivals, DevicesInv, DevicesTypeOK, Jostling
    <3>3. ASSUME NEW q \in Regs, NEW s \in Regs, q # s, reg'[q] # Nobody, reg'[s] # Nobody,
                 reg'[q].user = reg'[s].user
          PROVE  q \in jostled'
      <4>1. CASE q = r \/ s = r
        BY <4>1, <1>3, <1>6, <2>1, <3>1, <3>3
      <4>2. CASE q # r /\ s # r
        BY <4>2, <1>3, <3>1, <3>3 DEF DevicesInv, Jostling
      <4> QED BY <4>1, <4>2
    <3> QED BY <3>2, <3>3 DEF Jostling
  <2> QED BY <2>3, <2>4
<1>8. ASSUME NEW q \in Regs PROVE Holding(q)'
  <2>1. CASE q = r
    BY <2>1, <1>3, <1>6 DEF Holding
  <2>2. CASE q # r
    BY <2>2, <1>1, <1>3, <1>4 DEF DevicesInv, Holding, Of
  <2> QED BY <2>1, <2>2
<1>9. \A q \in Regs : HeldBy(q)' = IF q = r THEN {f} ELSE HeldBy(q)
  BY <1>2, <1>3, <1>6 DEF HeldBy
<1>10. \A q, s \in Regs : q # s => HeldBy(q)' \cap HeldBy(s)' = {}
  BY <1>1, <1>9, HeldIs DEF DevicesInv
<1>11. \A v \in Persons \ mingled' : Follow(v)'
  BY <1>1, <1>4 DEF DevicesInv, Follow, On, Of
<1> QED BY <1>1, <1>5, <1>7, <1>8, <1>10, <1>11 DEF DevicesInv

LEMMA SweepFollows ==
  ASSUME DevicesInv, NEW r \in Regs, Sweep(r)
  PROVE  DevicesInv'
<1>1. PICK w \in Reg : w = reg[r]
  BY DEF Sweep, Unswept, DevicesInv, DevicesTypeOK
<1> DEFINE others == Of(w.user) \ {w.phone}
           x == [w EXCEPT !.swept = TRUE, !.off = others]
<1>2. /\ reg[r] # Nobody /\ others \cap Held = {}
      /\ UNCHANGED <<device, push, latest, refused, mingled, jostled>>
  BY <1>1 DEF Sweep, Unswept
<1>3. reg' = [reg EXCEPT ![r] = x]
  BY <1>1 DEF Sweep, DevicesInv, DevicesTypeOK
<1>4. others \subseteq Phones
  BY DEF Of
<1>5. x \in Reg /\ x.user = w.user /\ x.phone = w.phone /\ x.off = others /\ x.swept
  BY <1>4 DEF Reg
<1>6. x # Nobody
  BY <1>5, NobodyIsNothing
<1> HIDE DEF x
<1>7. reg'[r] = x /\ \A q \in Regs : q # r => reg'[q] = reg[q]
  BY <1>3 DEF DevicesInv, DevicesTypeOK
<1>8. DevicesTypeOK'
  BY <1>2, <1>3, <1>5 DEF DevicesInv, DevicesTypeOK
<1>9. Jostling'
  BY <1>1, <1>2, <1>5, <1>6, <1>7 DEF DevicesInv, DevicesTypeOK, Jostling
<1>10. ASSUME NEW q \in Regs PROVE Holding(q)'
  <2>1. CASE q = r
    BY <2>1, <1>2, <1>5, <1>7 DEF Holding, Of
  <2>2. CASE q # r
    BY <2>2, <1>2, <1>7 DEF DevicesInv, Holding, Of
  <2> QED BY <2>1, <2>2
<1>11. \A q \in Regs : HeldBy(q)' = IF q = r THEN {w.phone} \cup others ELSE HeldBy(q)
  BY <1>5, <1>6, <1>7 DEF HeldBy
<1>12. w.phone \in HeldBy(r)
  BY <1>1, <1>2 DEF HeldBy
<1>13. \A q, s \in Regs : q # s => HeldBy(q)' \cap HeldBy(s)' = {}
  BY <1>2, <1>11, <1>12, HeldIs DEF DevicesInv
<1>14. \A v \in Persons \ mingled' : Follow(v)'
  BY <1>2 DEF DevicesInv, Follow, On, Of
<1> QED BY <1>2, <1>8, <1>9, <1>10, <1>13, <1>14 DEF DevicesInv
------------------------------------------------------------------------------
\* A registration goes; the user is noted as in order at most if it met nobody.
LEMMA GoneFollows ==
  ASSUME DevicesInv, NEW r \in Regs, reg[r] # Nobody, Gone(r),
         mingled' = mingled \/ (r \notin jostled /\ mingled' = mingled \ {reg[r].user})
  PROVE  /\ reg' \in [Regs -> Reg \cup {Nobody}] /\ jostled' \subseteq Regs
         /\ mingled' \subseteq Persons
         /\ reg'[r] = Nobody /\ \A q \in Regs : q # r => reg'[q] = reg[q]
         /\ Jostling'
         /\ \A q, s \in Regs : q # s => HeldBy(q)' \cap HeldBy(s)' = {}
<1>1. reg' = [reg EXCEPT ![r] = Nobody] /\ jostled' = jostled \ {r}
  BY DEF Gone
<1>2. reg'[r] = Nobody /\ \A q \in Regs : q # r => reg'[q] = reg[q]
  BY <1>1 DEF DevicesInv, DevicesTypeOK
<1>3. ASSUME NEW q \in jostled' PROVE reg'[q] # Nobody /\ reg'[q].user \in mingled'
  <2>1. q # r /\ q \in jostled /\ q \in Regs /\ reg'[q] = reg[q]
    BY <1>1, <1>2 DEF DevicesInv, DevicesTypeOK
  <2>2. reg[q] # Nobody /\ reg[q].user \in mingled
    BY <2>1 DEF DevicesInv, Jostling
  <2>3. r \notin jostled => reg[q].user # reg[r].user
    BY <2>1, <2>2 DEF DevicesInv, Jostling
  <2> QED BY <2>1, <2>2, <2>3
<1>4. Jostling'
  BY <1>1, <1>2, <1>3 DEF DevicesInv, Jostling
<1>5. \A q, s \in Regs : q # s => HeldBy(q)' \cap HeldBy(s)' = {}
  BY <1>2 DEF DevicesInv, HeldBy
<1> QED BY <1>1, <1>2, <1>4, <1>5 DEF DevicesInv, DevicesTypeOK

LEMMA AbortFollows ==
  ASSUME DevicesInv, NEW r \in Regs, Abort(r)
  PROVE  DevicesInv'
<1>1. reg[r] # Nobody /\ Gone(r) /\ UNCHANGED <<device, push, latest, refused, mingled>>
  BY DEF Abort
<1>2. /\ reg' \in [Regs -> Reg \cup {Nobody}] /\ jostled' \subseteq Regs
      /\ reg'[r] = Nobody /\ \A q \in Regs : q # r => reg'[q] = reg[q]
      /\ Jostling'
      /\ \A q, s \in Regs : q # s => HeldBy(q)' \cap HeldBy(s)' = {}
  BY <1>1, GoneFollows
<1>3. ASSUME NEW q \in Regs PROVE Holding(q)'
  BY <1>1, <1>2 DEF DevicesInv, Holding, Of, Gone
<1>4. \A v \in Persons \ mingled' : Follow(v)'
  BY <1>1 DEF DevicesInv, Follow, On, Of
<1>5. DevicesTypeOK'
  BY <1>1, <1>2 DEF DevicesInv, DevicesTypeOK
<1> QED BY <1>1, <1>2, <1>3, <1>4, <1>5 DEF DevicesInv

LEMMA CommitFollows ==
  ASSUME DevicesInv, NEW r \in Regs, Commits(r)
  PROVE  DevicesInv'
<1>1. PICK w \in Reg : w = reg[r]
  BY DEF Commits, DevicesInv, DevicesTypeOK
<1>2. PICK u \in Persons : u = w.user
  BY DEF Reg
<1>3. PICK f \in Phones : f = w.phone
  BY DEF Reg
<1>4. w.off \subseteq Phones
  BY DEF Reg
<1>5. /\ reg[r] # Nobody /\ w.swept /\ Gone(r) /\ push' = push
      /\ refused' = refused \ {f}
      /\ mingled' = IF r \in jostled THEN mingled ELSE mingled \ {u}
      /\ jostled' = jostled \ {r}
  BY <1>1, <1>2, <1>3 DEF Commits, Gone
<1>6. device' = [g \in Phones |-> CASE g = f -> [user |-> u, on |-> TRUE]
                                    [] g \in w.off -> [device[g] EXCEPT !.on = FALSE]
                                    [] OTHER -> device[g]]
  BY <1>1, <1>2, <1>3 DEF Commits
<1>7. latest' = [v \in Persons |-> CASE v = u -> f
                                     [] v # u /\ latest[v] = f -> Nobody
                                     [] OTHER -> latest[v]]
  BY <1>1, <1>2, <1>3 DEF Commits
<1>8. /\ reg' \in [Regs -> Reg \cup {Nobody}] /\ jostled' \subseteq Regs
      /\ mingled' \subseteq Persons
      /\ reg'[r] = Nobody /\ \A q \in Regs : q # r => reg'[q] = reg[q]
      /\ Jostling'
      /\ \A q, s \in Regs : q # s => HeldBy(q)' \cap HeldBy(s)' = {}
  BY <1>1, <1>2, <1>5, GoneFollows
<1>9. w.off \subseteq Of(u) \ {f} /\ (r \notin jostled => Of(u) \subseteq w.off \cup {f})
  BY <1>1, <1>2, <1>3, <1>5 DEF DevicesInv, Holding
<1>10. ASSUME NEW g \in w.off
       PROVE  g \in Phones /\ g # f /\ device[g] \in Device /\ device[g].user = u
  BY <1>4, <1>9 DEF Of, DevicesInv, DevicesTypeOK
<1>11. device'[f] = [user |-> u, on |-> TRUE]
  BY <1>6, <1>9
<1>12. ASSUME NEW g \in w.off
       PROVE  device'[g] \in Device /\ device'[g].user = u /\ device'[g].on = FALSE
  <2>1. device'[g] = [device[g] EXCEPT !.on = FALSE]
    BY <1>6, <1>10
  <2> QED BY <1>10, <2>1 DEF Device
<1>13. ASSUME NEW g \in Phones, g # f, g \notin w.off PROVE device'[g] = device[g]
  BY <1>6, <1>13
<1>14. device' \in [Phones -> Device \cup {Nobody}]
  <2>1. ASSUME NEW g \in Phones PROVE device'[g] \in Device \cup {Nobody}
    <3>1. [user |-> u, on |-> TRUE] \in Device
      BY DEF Device
    <3> QED BY <3>1, <1>11, <1>12, <1>13 DEF DevicesInv, DevicesTypeOK
  <2>2. device' = [g \in Phones |-> device'[g]]
    BY <1>6
  <2> QED BY <2>1, <2>2
<1>15. latest' \in [Persons -> Phones \cup {Nobody}]
  BY <1>7 DEF DevicesInv, DevicesTypeOK
<1>16. DevicesTypeOK'
  BY <1>5, <1>8, <1>14, <1>15 DEF DevicesInv, DevicesTypeOK
<1>17. device'[f] # Nobody /\ \A g \in w.off : device'[g] # Nobody /\ device[g] # Nobody
  <2>1. device'[f] \in Device
    BY <1>11 DEF Device
  <2> QED BY <1>10, <1>12, <2>1, NobodyIsNothing
<1>18. /\ Of(u)' = Of(u) \cup {f}
       /\ \A v \in Persons : v # u => Of(v)' = Of(v) \ {f}
  <2>1. ASSUME NEW g \in Phones, NEW v \in Persons
        PROVE  g \in Of(v)' <=> IF g = f THEN v = u ELSE g \in Of(v)
    <3>1. CASE g = f
      BY <3>1, <1>11, <1>17 DEF Of
    <3>2. CASE g \in w.off
      BY <3>2, <1>10, <1>12, <1>17 DEF Of
    <3>3. CASE g # f /\ g \notin w.off
      BY <3>3, <1>13 DEF Of
    <3> QED BY <3>1, <3>2, <3>3, <1>10
  <2> QED BY <2>1 DEF Of
<1>19. ASSUME NEW q \in Regs PROVE Holding(q)'
  <2>1. CASE q = r
    BY <2>1, <1>8 DEF Holding
  <2>2. CASE q # r /\ reg[q] # Nobody
    <3>1. reg'[q] = reg[q]
      BY <2>2, <1>8
    <3>2. PICK x \in Reg : x = reg[q]
      BY <2>2 DEF DevicesInv, DevicesTypeOK
    <3>3. PICK v \in Persons : v = x.user
      BY DEF Reg
    <3>4. f \in HeldBy(r)
      BY <1>1, <1>3, <1>5 DEF HeldBy
    <3>5. f \notin HeldBy(q)
      BY <2>2, <3>4 DEF DevicesInv
    <3>6. f \notin x.off
      BY <2>2, <3>2, <3>5 DEF HeldBy
    <3>7. x.off \subseteq Of(v) \ {x.phone}
      BY <2>2, <3>2, <3>3 DEF DevicesInv, Holding
    <3>8. x.off \subseteq Of(v)' \ {x.phone}
      BY <3>6, <3>7, <1>18
    <3>9. x.swept /\ q \notin jostled' => Of(v)' \subseteq x.off \cup {x.phone}
      <4> SUFFICES ASSUME x.swept, q \notin jostled' PROVE Of(v)' \subseteq x.off \cup {x.phone}
        OBVIOUS
      <4>1. q \notin jostled
        BY <1>5, <2>2
      <4>2. v # u
        BY <4>1, <1>1, <1>2, <1>5, <2>2, <3>2, <3>3 DEF DevicesInv, Jostling
      <4>3. Of(v) \subseteq x.off \cup {x.phone}
        BY <2>2, <3>2, <3>3, <4>1 DEF DevicesInv, Holding
      <4> QED BY <4>2, <4>3, <1>18
    <3> QED BY <3>1, <3>2, <3>3, <3>8, <3>9 DEF Holding
  <2>3. CASE q # r /\ reg[q] = Nobody
    BY <2>3, <1>8 DEF Holding
  <2> QED BY <2>1, <2>2, <2>3
<1>20. \A p \in Pushes : \A g \in push'[p] : device'[g] # Nobody
  BY <1>5, <1>13, <1>17 DEF DevicesInv, DevicesTypeOK
<1>21. r \notin jostled => Follow(u)'
  <2> SUFFICES ASSUME r \notin jostled PROVE On(u)' = {f}
    BY <1>5, <1>7, NobodyIsNothing DEF Follow
  <2>1. Of(u)' \subseteq w.off \cup {f} /\ f \in Of(u)'
    BY <1>9, <1>18
  <2>2. ASSUME NEW g \in w.off PROVE ~device'[g].on
    BY <1>12
  <2>3. device'[f].on
    BY <1>11
  <2> QED BY <2>1, <2>2, <2>3 DEF On
<1>22. ASSUME NEW v \in Persons, v # u, v \notin mingled PROVE Follow(v)'
  <2>1. On(v) = {latest[v]} \ (refused \cup {Nobody})
    BY <1>22 DEF DevicesInv, Follow
  <2>2. On(v)' = On(v) \ {f}
    <3>1. ASSUME NEW g \in Of(v), g # f PROVE device'[g] = device[g]
      BY <1>10, <1>13, <1>22, <3>1 DEF Of
    <3> QED BY <3>1, <1>18, <1>22 DEF On
  <2>3. latest'[v] = IF latest[v] = f THEN Nobody ELSE latest[v]
    BY <1>7, <1>22
  <2> QED BY <2>1, <2>2, <2>3, <1>5, NobodyIsNothing DEF Follow
<1>23. \A v \in Persons \ mingled' : Follow(v)'
  <2>1. u \in mingled' \/ r \notin jostled
    BY <1>1, <1>2, <1>5 DEF DevicesInv, Jostling
  <2> QED BY <2>1, <1>5, <1>21, <1>22
<1> QED BY <1>8, <1>16, <1>19, <1>20, <1>23 DEF DevicesInv
------------------------------------------------------------------------------
LEMMA SendFollows ==
  ASSUME DevicesInv, NEW p \in Pushes, NEW us \in Audiences, Send(p, us)
  PROVE  DevicesInv'
<1>1. /\ push' = [push EXCEPT ![p] = UNION {On(u) : u \in us}]
      /\ UNCHANGED <<device, reg, latest, refused, mingled, jostled>>
  BY DEF Send
<1>2. \A f \in UNION {On(u) : u \in us} : f \in Phones /\ device[f] # Nobody
  BY DEF On, Of
<1>3. push' \in [Pushes -> SUBSET Phones] /\ \A q \in Pushes : \A f \in push'[q] : device[f] # Nobody
  BY <1>1, <1>2 DEF DevicesInv, DevicesTypeOK
<1> QED BY <1>1, <1>3 DEF DevicesInv, DevicesTypeOK, Jostling, Holding, HeldBy, Follow, On, Of

LEMMA EndFollows ==
  ASSUME DevicesInv, NEW p \in Pushes, EndPush(p)
  PROVE  DevicesInv'
<1>1. /\ push' = [push EXCEPT ![p] = {}]
      /\ UNCHANGED <<device, reg, latest, refused, mingled, jostled>>
  BY DEF EndPush
<1>2. push' \in [Pushes -> SUBSET Phones] /\ \A q \in Pushes : \A f \in push'[q] : device[f] # Nobody
  BY <1>1 DEF DevicesInv, DevicesTypeOK
<1> QED BY <1>1, <1>2 DEF DevicesInv, DevicesTypeOK, Jostling, Holding, HeldBy, Follow, On, Of

LEMMA RefuseFollows ==
  ASSUME DevicesInv, NEW p \in Pushes, NEW f \in Phones, Refuse(p, f)
  PROVE  DevicesInv'
<1>1. /\ f \in push[p] /\ refused' = refused \cup {f}
      /\ push' = [push EXCEPT ![p] = @ \ {f}]
      /\ UNCHANGED <<reg, latest, mingled, jostled>>
  BY DEF Refuse
<1>2. device[f] \in Device
  BY <1>1 DEF DevicesInv, DevicesTypeOK
<1>3. device' = [device EXCEPT ![f] = [device[f] EXCEPT !.on = FALSE]]
  BY DEF Refuse, DevicesInv, DevicesTypeOK
<1>4. /\ device'[f] \in Device /\ device'[f].user = device[f].user /\ device'[f].on = FALSE
      /\ \A g \in Phones : g # f => device'[g] = device[g]
  BY <1>2, <1>3 DEF DevicesInv, DevicesTypeOK, Device
<1>5. device'[f] # Nobody /\ device[f] # Nobody
  BY <1>2, <1>4, NobodyIsNothing
<1>6. push' \in [Pushes -> SUBSET Phones] /\ \A q \in Pushes : push'[q] \subseteq push[q]
  BY <1>1 DEF DevicesInv, DevicesTypeOK
<1>7. DevicesTypeOK'
  BY <1>1, <1>3, <1>4, <1>6 DEF DevicesInv, DevicesTypeOK
<1>8. \A u : Of(u)' = Of(u)
  BY <1>4, <1>5 DEF Of
<1>9. Jostling' /\ (\A r \in Regs : Holding(r)')
      /\ \A r, q \in Regs : r # q => HeldBy(r)' \cap HeldBy(q)' = {}
  BY <1>1, <1>8 DEF DevicesInv, Jostling, Holding, HeldBy
<1>10. \A q \in Pushes : \A g \in push'[q] : device'[g] # Nobody
  BY <1>4, <1>5, <1>6 DEF DevicesInv, DevicesTypeOK
<1>11. ASSUME NEW u \in Persons, u \notin mingled PROVE Follow(u)'
  <2>1. On(u)' = On(u) \ {f}
    BY <1>4, <1>8 DEF On, Of
  <2>2. Follow(u)
    BY <1>11 DEF DevicesInv
  <2> QED BY <1>1, <2>1, <2>2 DEF Follow
<1> QED BY <1>1, <1>7, <1>9, <1>10, <1>11 DEF DevicesInv

LEMMA NextFollows == DevicesInv /\ [DevicesNext]_deviceVars => DevicesInv'
<1> SUFFICES ASSUME DevicesInv, [DevicesNext]_deviceVars PROVE DevicesInv'
  OBVIOUS
<1>1. CASE UNCHANGED deviceVars
  BY <1>1 DEF deviceVars, DevicesInv, DevicesTypeOK, Jostling, Holding, HeldBy, Follow, On, Of
<1> QED BY <1>1, RegisterFollows, SweepFollows, CommitFollows, AbortFollows, SendFollows,
           RefuseFollows, EndFollows DEF DevicesNext

\* A user is notified on the device that registered last for him and on no
\* other, unless his registrations overlapped since one was alone, for any
\* number of users, devices, registrations and pushes.
THEOREM DevicesAreRight == DevicesSpec => [](DevicesTypeOK /\ DevicesFollow)
<1>1. DevicesInv => DevicesTypeOK /\ DevicesFollow
  BY DEF DevicesInv, DevicesFollow, Follow
<1> QED BY <1>1, InitFollows, NextFollows, PTL DEF DevicesSpec
------------------------------------------------------------------------------
(* Notifications *)

\* A worker works on the message that it has read and not committed.
AtItsMessage ==
  /\ Working("consumer") =>
       /\ inbox # <<>>
       /\ worker["consumer"].event = Head(inbox).event
       /\ worker["consumer"].tries = Head(inbox).tries
  /\ Working("replay") => at < Len(dead) /\ worker["replay"].event = dead[at + 1]
  /\ \A w \in Workers : Working(w) => worker[w].step <= Len(Steps(worker[w].event))

\* An event waits in one place.
OnePlace ==
  /\ \A i, j \in DOMAIN inbox : inbox[i].event = inbox[j].event => i = j
  /\ \A i, j \in DOMAIN dead : dead[i] = dead[j] => i = j
  /\ \A i \in DOMAIN inbox, j \in DOMAIN dead : inbox[i].event # dead[j]
  /\ \A e \in given : ~Pending(e)

\* Nothing more comes of event e, and the command has not given it up.
Finished(e) == ~Pending(e) /\ e \notin given

\* The worker that handles event e has had effect x.
Had(w, e, x) ==
  /\ Working(w) /\ worker[w].event = e
  /\ \E i \in 1..worker[w].step : Steps(e)[i] = x

\* Each effect of an event was had as often as handling broke behind it, and
\* once more by the worker that is past it, or by the one that completed it.
Counted(e, x) ==
  made[e][x] = IF Finished(e) \/ \E w \in Workers : Had(w, e, x)
               THEN broken[e][x] + 1 ELSE broken[e][x]

NotifyInv ==
  /\ NotifyTypeOK /\ AtItsMessage /\ OnePlace
  /\ \A e \in Events : \A i \in 1..Len(Steps(e)) : Counted(e, Steps(e)[i])

\* The effects of an event are different from each other.
LEMMA PlansAre ==
  ASSUME NotifyTypeOK, NEW e \in Events
  PROVE  /\ Len(Steps(e)) \in 1..3
         /\ \A i \in 1..Len(Steps(e)) : Steps(e)[i] \in Effects
         /\ \A i, j \in 1..Len(Steps(e)) : Steps(e)[i] = Steps(e)[j] => i = j
<1>1. kind[e] \in {"order", "update", "ready"}
  BY DEF NotifyTypeOK, Plan
<1>2. Steps(e) \in {<<"waiters">>, <<"row", "push">>, <<"row", "push", "waiters">>}
  BY <1>1 DEF Steps, Plan
<1> QED BY <1>2 DEF Effects

LEMMA Inboxes ==
  ASSUME NotifyTypeOK
  PROVE  /\ DOMAIN inbox = 1..Len(inbox) /\ Len(inbox) \in Nat
         /\ \A i \in DOMAIN inbox : inbox[i] \in Message
         /\ inbox # <<>> => 1 \in DOMAIN inbox /\ Head(inbox) = inbox[1]
BY DEF NotifyTypeOK

\* The message at the head is committed.
LEMMA TailInbox ==
  ASSUME NotifyTypeOK, inbox # <<>>, NEW s, s = Tail(inbox)
  PROVE  /\ s \in Seq(Message) /\ Len(s) = Len(inbox) - 1 /\ DOMAIN s = 1..Len(s)
         /\ \A i \in DOMAIN s : i + 1 \in DOMAIN inbox /\ s[i] = inbox[i + 1]
         /\ \A i \in DOMAIN inbox : i # 1 => i - 1 \in DOMAIN s /\ s[i - 1] = inbox[i]
<1>1. /\ s \in Seq(Message) /\ Len(s) = Len(inbox) - 1
      /\ \A i \in 1..Len(s) : s[i] = inbox[i + 1]
  BY HeadTailProperties DEF NotifyTypeOK
<1>2. DOMAIN s = 1..Len(s) /\ Len(s) \in Nat
  BY <1>1
<1> QED BY <1>1, <1>2, Inboxes

LEMMA Deads ==
  ASSUME NotifyTypeOK
  PROVE  /\ DOMAIN dead = 1..Len(dead) /\ Len(dead) \in Nat /\ at \in 0..Len(dead)
         /\ \A i \in DOMAIN dead : dead[i] \in Events
BY DEF NotifyTypeOK

LEMMA InitNotifies == NotifyInit => NotifyInv
<1> SUFFICES ASSUME NotifyInit PROVE NotifyInv
  OBVIOUS
<1>1. PICK f \in [1..Cardinality(Events) -> [event : Events, tries : {0}]] :
        {f[i].event : i \in DOMAIN f} = Events /\ inbox = f
  BY DEF NotifyInit
<1> DEFINE n == Cardinality(Events)
           g == [i \in 1..n |-> f[i].event]
<1>2. n \in Nat
  BY FS_CardinalityType, NotificationsAssumption
<1>3. g \in Surjection(1..n, Events)
  <2>1. g \in [1..n -> Events]
    OBVIOUS
  <2>2. \A e \in Events : \E i \in 1..n : g[i] = e
    BY <1>1
  <2> QED BY <2>1, <2>2 DEF Surjection
<1>4. IsFiniteSet(1..n) /\ Cardinality(1..n) = n
  BY <1>2, FS_Interval
<1>5. g \in Injection(1..n, Events)
  BY <1>3, <1>4, FS_SurjSameCardinalityImpliesInj
<1>6. \A i, j \in 1..n : f[i].event = f[j].event => i = j
  BY <1>5 DEF Injection, IsInjective
<1>7. inbox \in Seq(Message)
  <2>1. f \in [1..n -> Message]
    BY NotificationsAssumption DEF Message
  <2> QED BY <1>1, <1>2, <2>1
<1>8. DOMAIN inbox = 1..n /\ \A e \in Events : Pending(e)
  BY <1>1 DEF Pending
<1>9. NotifyTypeOK
  <2>1. dead \in Seq(Events) /\ at \in 0..Len(dead)
    BY DEF NotifyInit
  <2> QED BY <1>7, <2>1, NotificationsAssumption DEF NotifyInit, NotifyTypeOK
<1>10. AtItsMessage /\ \A w \in Workers : ~Working(w)
  BY DEF NotifyInit, AtItsMessage, Working, Workers
<1>11. OnePlace
  <2>1. DOMAIN dead = {}
    BY DEF NotifyInit
  <2> QED BY <1>1, <1>6, <1>8, <2>1 DEF NotifyInit, OnePlace
<1>12. ASSUME NEW e \in Events, NEW i \in 1..Len(Steps(e)) PROVE Counted(e, Steps(e)[i])
  <2>1. Steps(e)[i] \in Effects
    BY <1>9, PlansAre
  <2> QED BY <1>8, <1>10, <2>1 DEF NotifyInit, Counted, Had, Finished
<1> QED BY <1>9, <1>10, <1>11, <1>12 DEF NotifyInv

\* Two workers never handle one event.
LEMMA Alone ==
  ASSUME AtItsMessage, OnePlace, NotifyTypeOK, NEW w \in Workers, NEW v \in Workers,
         Working(w), Working(v), worker[w].event = worker[v].event
  PROVE  w = v
<1>1. Working("consumer") => 1 \in DOMAIN inbox /\ worker["consumer"].event = inbox[1].event
  BY Inboxes DEF AtItsMessage
<1>2. ~(Working("consumer") /\ Working("replay") /\ worker["consumer"].event = worker["replay"].event)
  <2>1. Working("replay") => at + 1 \in DOMAIN dead /\ worker["replay"].event = dead[at + 1]
    BY Deads DEF AtItsMessage
  <2> QED BY <1>1, <2>1 DEF OnePlace
<1> QED BY <1>2 DEF Workers

\* What a worker is doing.
LEMMA JobIs ==
  ASSUME NotifyInv, NEW w \in Workers, Working(w)
  PROVE  /\ worker[w] \in Job /\ worker[w].event \in Events
         /\ worker[w].step \in 0..Len(Steps(worker[w].event))
         /\ Pending(worker[w].event) /\ worker[w].event \notin given
         /\ w = "replay" => at + 1 \in DOMAIN dead /\ worker[w].event = dead[at + 1]
<1>1. worker[w] \in Job
  BY DEF NotifyInv, NotifyTypeOK, Working
<1>2. worker[w].event \in Events /\ worker[w].step \in Nat
  BY <1>1 DEF Job
<1>3. Len(Steps(worker[w].event)) \in Nat
  BY <1>2, PlansAre DEF NotifyInv
<1>4. Pending(worker[w].event)
  <2>1. CASE w = "consumer"
    BY <2>1, Inboxes DEF NotifyInv, AtItsMessage, Pending
  <2>2. CASE w = "replay"
    BY <2>2, Deads DEF NotifyInv, AtItsMessage, Pending
  <2> QED BY <2>1, <2>2 DEF Workers
<1>5. w = "replay" => at + 1 \in DOMAIN dead /\ worker[w].event = dead[at + 1]
  BY Deads DEF NotifyInv, AtItsMessage
<1> QED BY <1>1, <1>2, <1>3, <1>4, <1>5 DEF NotifyInv, AtItsMessage, OnePlace

\* Events that a step does not touch.
LEMMA OthersCounted ==
  ASSUME NotifyInv, NEW e \in Events, kind' = kind, made'[e] = made[e], broken'[e] = broken[e],
         Finished(e)' <=> Finished(e),
         \A w \in Workers, x \in Effects : Had(w, e, x)' <=> Had(w, e, x)
  PROVE  \A i \in 1..Len(Steps(e)') : Counted(e, Steps(e)[i])'
<1>1. Steps(e)' = Steps(e)
  BY DEF Steps
<1>2. ASSUME NEW i \in 1..Len(Steps(e)), NEW x, x = Steps(e)[i] PROVE Counted(e, x)'
  <2>1. x \in Effects /\ Counted(e, x)
    BY <1>2, PlansAre DEF NotifyInv
  <2> QED BY <2>1 DEF Counted
<1> QED BY <1>1, <1>2

LEMMA PollNotifies ==
  ASSUME NotifyInv, Poll \/ PollDead
  PROVE  NotifyInv'
<1>1. UNCHANGED <<kind, inbox, dead, at, given, made, broken, breaks>>
  BY DEF Poll, PollDead, letters
<1>2. PICK w \in Workers, j \in Job :
        /\ ~Working(w) /\ worker' = [worker EXCEPT ![w] = j] /\ j.step = 0
        /\ w = "consumer" => inbox # <<>> /\ j.event = Head(inbox).event /\ j.tries = Head(inbox).tries
        /\ w = "replay" => at < Len(dead) /\ j.event = dead[at + 1]
  <2>1. CASE Poll
    <3> DEFINE k == [event |-> Head(inbox).event, tries |-> Head(inbox).tries, step |-> 0]
    <3>1. Head(inbox) \in Message
      BY <2>1, Inboxes DEF Poll, NotifyInv
    <3>2. k \in Job
      BY <3>1 DEF Message, Job
    <3> QED BY <2>1, <3>2 DEF Poll, Workers
  <2>2. CASE PollDead
    <3> DEFINE k == [event |-> dead[at + 1], tries |-> MaxRetries, step |-> 0]
    <3>1. k \in Job
      <4>1. at + 1 \in DOMAIN dead
        BY <2>2, Deads DEF PollDead, NotifyInv
      <4> QED BY <4>1, Deads, NotificationsAssumption DEF Job, NotifyInv
    <3> QED BY <2>2, <3>1 DEF PollDead, Workers
  <2> QED BY <2>1, <2>2
<1>3. worker'[w] = j /\ \A v \in Workers : v # w => worker'[v] = worker[v]
  BY <1>2 DEF NotifyInv, NotifyTypeOK
<1>4. NotifyTypeOK'
  BY <1>1, <1>2 DEF NotifyInv, NotifyTypeOK
<1>5. \A e : Steps(e)' = Steps(e)
  BY <1>1 DEF Steps
<1>6. j # NoWork
  BY NoWorkIsNothing
<1>7. AtItsMessage'
  <2>1. Len(Steps(j.event)) \in Nat
    BY PlansAre DEF NotifyInv, Job
  <2>2. \A v \in Workers : Working(v)' => worker'[v].step <= Len(Steps(worker'[v].event))
    BY <1>2, <1>3, <2>1 DEF NotifyInv, AtItsMessage, Working
  <2>3. Working("consumer")' => /\ inbox # <<>>
                                /\ worker'["consumer"].event = Head(inbox).event
                                /\ worker'["consumer"].tries = Head(inbox).tries
    BY <1>2, <1>3 DEF NotifyInv, AtItsMessage, Working, Workers
  <2>4. Working("replay")' => at < Len(dead) /\ worker'["replay"].event = dead[at + 1]
    BY <1>2, <1>3 DEF NotifyInv, AtItsMessage, Working, Workers
  <2> QED BY <1>1, <1>5, <2>2, <2>3, <2>4 DEF AtItsMessage, Steps
<1>8. OnePlace' /\ \A e : Pending(e)' <=> Pending(e)
  BY <1>1 DEF NotifyInv, OnePlace, Pending
<1>11. \A e \in Events : Finished(e)' <=> Finished(e)
  BY <1>1, <1>8 DEF Finished
<1>9. \A v \in Workers : \A e, x : Had(v, e, x)' <=> Had(v, e, x)
  BY <1>2, <1>3, <1>5 DEF Had, Working
<1>10. \A e \in Events : \A i \in 1..Len(Steps(e)') : Counted(e, Steps(e)[i])'
  BY <1>1, <1>9, <1>11, OthersCounted
<1> QED BY <1>4, <1>7, <1>8, <1>10 DEF NotifyInv

LEMMA EffectNotifies ==
  ASSUME NotifyInv, NEW w \in Workers, Effect(w)
  PROVE  NotifyInv'
<1>1. PICK j \in Job : j = worker[w]
  BY JobIs DEF Effect
<1>2. PICK e \in Events : e = j.event
  BY DEF Job
<1>3. /\ Working(w) /\ j.step < Len(Steps(e)) /\ j.step \in Nat
      /\ UNCHANGED <<kind, inbox, dead, at, given, broken, breaks>>
  BY <1>1, <1>2 DEF Effect, Job, letters
<1> DEFINE k == j.step + 1
<1>4. k \in 1..Len(Steps(e)) /\ k \in 0..3
  BY <1>3, PlansAre DEF NotifyInv
<1>5. PICK x \in Effects : x = Steps(e)[k]
  BY <1>4, PlansAre DEF NotifyInv
<1>6. made' = [made EXCEPT ![e] = [made[e] EXCEPT ![x] = @ + 1]]
  BY <1>1, <1>2, <1>5 DEF Effect, NotifyInv, NotifyTypeOK
<1> DEFINE y == [j EXCEPT !.step = k]
<1>7. worker' = [worker EXCEPT ![w] = y]
  BY <1>1 DEF Effect, NotifyInv, NotifyTypeOK
<1>8. y \in Job /\ y.event = e /\ y.tries = j.tries /\ y.step = k
  BY <1>2, <1>4 DEF Job
<1> HIDE DEF y, k
<1>9. worker'[w] = y /\ \A v \in Workers : v # w => worker'[v] = worker[v]
  BY <1>7 DEF NotifyInv, NotifyTypeOK
<1>10. made[e] \in [Effects -> Nat]
  BY DEF NotifyInv, NotifyTypeOK
<1>11. /\ made'[e][x] = made[e][x] + 1
       /\ \A z \in Effects : z # x => made'[e][z] = made[e][z]
       /\ \A d \in Events : d # e => made'[d] = made[d]
       /\ made' \in [Events -> [Effects -> Nat]]
  BY <1>6, <1>10 DEF NotifyInv, NotifyTypeOK
<1>12. NotifyTypeOK'
  BY <1>3, <1>7, <1>8, <1>11 DEF NotifyInv, NotifyTypeOK
<1>13. (\A d : Steps(d)' = Steps(d)) /\ OnePlace' /\ (\A d : Finished(d)' <=> Finished(d))
  BY <1>3 DEF Steps, NotifyInv, OnePlace, Pending, Finished
<1>14. Working(w)' /\ \A v \in Workers : Working(v)' <=> Working(v)
  BY <1>3, <1>8, <1>9, NoWorkIsNothing DEF Working
<1>15. AtItsMessage'
  <2>1. \A v \in Workers : Working(v)' =>
          /\ worker'[v].event = worker[v].event /\ worker'[v].tries = worker[v].tries
          /\ worker'[v].step <= Len(Steps(worker[v].event))
    BY <1>1, <1>2, <1>4, <1>8, <1>9, <1>14 DEF NotifyInv, AtItsMessage
  <2> QED BY <1>3, <1>13, <1>14, <2>1 DEF NotifyInv, AtItsMessage, Workers
<1>16. ~Finished(e) /\ \A v \in Workers : v # w => ~(Working(v) /\ worker[v].event = e)
  BY <1>1, <1>2, <1>3, JobIs, Alone DEF NotifyInv, Finished
<1>17. ASSUME NEW i \in 1..Len(Steps(e)), NEW z, z = Steps(e)[i]
       PROVE  Counted(e, z)'
  <2>1. z \in Effects /\ Counted(e, z)
    BY <1>17, PlansAre DEF NotifyInv
  <2>2. (z = x) <=> i = k
    BY <1>4, <1>5, <1>17, PlansAre DEF NotifyInv
  <2>3. Had(w, e, z) <=> i \in 1..j.step
    <3>1. \A m \in 1..j.step : Steps(e)[m] = z <=> m = i
      BY <1>3, <1>17, PlansAre DEF NotifyInv
    <3> QED BY <1>1, <1>2, <1>3, <3>1 DEF Had
  <2>4. Had(w, e, z)' <=> i \in 1..k
    <3>1. \A m \in 1..k : Steps(e)[m] = z <=> m = i
      BY <1>4, <1>17, PlansAre DEF NotifyInv
    <3> QED BY <1>8, <1>9, <1>13, <1>14, <3>1 DEF Had
  <2>5. \A v \in Workers : v # w => ~Had(v, e, z) /\ ~Had(v, e, z)'
    BY <1>9, <1>14, <1>16 DEF Had
  <2>6. made[e][z] = IF i \in 1..j.step THEN broken[e][z] + 1 ELSE broken[e][z]
    BY <1>16, <2>1, <2>3, <2>5 DEF Counted
  <2>7. made'[e][z] = IF i \in 1..k THEN broken[e][z] + 1 ELSE broken[e][z]
    BY <1>3, <1>4, <1>11, <2>1, <2>2, <2>6 DEF k
  <2> QED BY <1>3, <1>13, <1>16, <2>4, <2>5, <2>7 DEF Counted
<1>18. ASSUME NEW d \in Events, d # e PROVE \A i \in 1..Len(Steps(d)') : Counted(d, Steps(d)[i])'
  <2>1. \A v \in Workers, z \in Effects : Had(v, d, z)' <=> Had(v, d, z)
    BY <1>1, <1>2, <1>8, <1>9, <1>13, <1>14, <1>18 DEF Had
  <2> QED BY <1>3, <1>11, <1>13, <1>18, <2>1, OthersCounted
<1>19. \A i \in 1..Len(Steps(e)') : Counted(e, Steps(e)[i])'
  BY <1>13, <1>17
<1>20. \A d \in Events : \A i \in 1..Len(Steps(d)') : Counted(d, Steps(d)[i])'
  BY <1>18, <1>19
<1> QED BY <1>12, <1>13, <1>15, <1>20 DEF NotifyInv
------------------------------------------------------------------------------
\* The worker w, which handled event e, rests.
LEMMA Resting ==
  ASSUME NotifyInv, NEW w \in Workers, Working(w), Rest(w), kind' = kind,
         NEW e, e = worker[w].event
  PROVE  /\ worker' \in [Workers -> Job \cup {NoWork}] /\ ~Working(w)'
         /\ \A v \in Workers : v # w => worker'[v] = worker[v] /\ (Working(v)' <=> Working(v))
         /\ \A d : Steps(d)' = Steps(d)
         /\ \A v \in Workers, d \in Events, x \in Effects :
              d # e => (Had(v, d, x)' <=> Had(v, d, x))
         /\ \A v \in Workers, x \in Effects : ~Had(v, e, x)'
<1>1. worker' = [worker EXCEPT ![w] = NoWork]
  BY DEF Rest
<1>2. worker'[w] = NoWork /\ \A v \in Workers : v # w => worker'[v] = worker[v]
  BY <1>1 DEF NotifyInv, NotifyTypeOK
<1>3. \A d : Steps(d)' = Steps(d)
  BY DEF Steps
<1>4. ~Working(w)' /\ \A v \in Workers : v # w => (Working(v)' <=> Working(v))
  BY <1>2 DEF Working
<1>5. \A v \in Workers, d \in Events, x \in Effects :
        d # e => (Had(v, d, x)' <=> Had(v, d, x))
  BY <1>2, <1>3, <1>4 DEF Had, Working
<1>6. \A v \in Workers, x \in Effects : ~Had(v, e, x)'
  BY <1>2, <1>4, Alone DEF Had, NotifyInv
<1>7. worker' \in [Workers -> Job \cup {NoWork}]
  BY <1>1 DEF NotifyInv, NotifyTypeOK
<1> QED BY <1>2, <1>3, <1>4, <1>5, <1>6, <1>7

LEMMA AppendDiffers ==
  ASSUME NEW s \in Seq(Message), NEW m \in Message
  PROVE  Append(s, m) # s
<1>1. Len(Append(s, m)) = Len(s) + 1
  BY AppendProperties
<1>2. Len(s) \in Nat
  BY LenProperties
<1> QED BY <1>1, <1>2

\* The letters stay in their order, and the command where it is.
KeepsDead ==
  /\ dead' \in Seq(Events) /\ Len(dead) <= Len(dead')
  /\ \A i \in 1..Len(dead) : dead'[i] = dead[i]
  /\ at' = at /\ at' \in 0..Len(dead') /\ given' = given /\ given' \subseteq Events

\* The topic and the dead letters after the message of the consumer is taken
\* off; what is appended, or appended to the dead letters, is that message's event.
LEMMA MessageMoves ==
  ASSUME NotifyInv, Working("consumer"), NEW e, e = worker["consumer"].event,
         at' = at, given' = given,
         \/ inbox' = Tail(inbox) /\ dead' \in {dead, Append(dead, e)}
         \/ \E m \in Message : m.event = e /\ inbox' = Append(Tail(inbox), m) /\ dead' = dead
  PROVE  /\ inbox' \in Seq(Message) /\ KeepsDead
         /\ OnePlace'
         /\ \A d : d # e => (Finished(d)' <=> Finished(d))
         /\ Pending(e)' <=> inbox' # Tail(inbox) \/ dead' # dead
<1>1. e \in Events /\ inbox # <<>> /\ Head(inbox).event = e
  BY JobIs DEF NotifyInv, AtItsMessage, Workers
<1> DEFINE s == Tail(inbox)
<1>2. /\ s \in Seq(Message) /\ Len(s) = Len(inbox) - 1 /\ DOMAIN s = 1..Len(s)
      /\ \A i \in DOMAIN s : i + 1 \in DOMAIN inbox /\ s[i] = inbox[i + 1]
      /\ \A i \in DOMAIN inbox : i # 1 => i - 1 \in DOMAIN s /\ s[i - 1] = inbox[i]
  BY <1>1, TailInbox DEF NotifyInv
<1>3. /\ 1 \in DOMAIN inbox /\ inbox[1].event = e
      /\ DOMAIN inbox = 1..Len(inbox) /\ Len(inbox) \in Nat /\ Len(s) \in Nat
  BY <1>1, <1>2, Inboxes DEF NotifyInv
<1>4. \A i \in DOMAIN s : s[i].event # e
  BY <1>2, <1>3 DEF NotifyInv, OnePlace
<1>5. \A i, j \in DOMAIN s : s[i].event = s[j].event => i = j
  <2> SUFFICES ASSUME NEW i \in DOMAIN s, NEW j \in DOMAIN s, s[i].event = s[j].event PROVE i = j
    OBVIOUS
  <2>1. i + 1 = j + 1
    BY <1>2 DEF NotifyInv, OnePlace
  <2> QED BY <1>2, <1>3, <2>1
<1>6. (\A j \in DOMAIN dead : dead[j] # e) /\ \A i \in DOMAIN s, j \in DOMAIN dead : s[i].event # dead[j]
  BY <1>2, <1>3 DEF NotifyInv, OnePlace
<1>7. \A d : d # e => ((\E i \in DOMAIN s : s[i].event = d) <=> \E i \in DOMAIN inbox : inbox[i].event = d)
  BY <1>2, <1>3
<1>10. e \notin given
  BY JobIs DEF Workers
<1>11. /\ DOMAIN dead = 1..Len(dead) /\ Len(dead) \in Nat /\ at \in 0..Len(dead)
       /\ dead \in Seq(Events) /\ given \subseteq Events /\ inbox \in Seq(Message)
  BY Deads DEF NotifyInv, NotifyTypeOK
<1>12. \A i, j \in DOMAIN dead : dead[i] = dead[j] => i = j
  BY DEF NotifyInv, OnePlace
<1>13. \A d \in given : ~Pending(d)
  BY DEF NotifyInv, OnePlace
<1> HIDE DEF s
<1>8. CASE inbox' = s /\ dead' = dead
  <2>1. \A d : Pending(d)' <=> (d # e /\ Pending(d))
    BY <1>4, <1>6, <1>7, <1>8 DEF Pending
  <2>2. KeepsDead
    BY <1>8, <1>11 DEF KeepsDead
  <2>3. OnePlace'
    BY <1>2, <1>5, <1>6, <1>8, <1>12, <1>13, <2>1 DEF OnePlace
  <2>4. \A d : d # e => (Finished(d)' <=> Finished(d))
    BY <2>1 DEF Finished
  <2> QED BY <1>2, <1>8, <2>1, <2>2, <2>3, <2>4 DEF s
<1>14. CASE inbox' = s /\ dead' = Append(dead, e)
  <2>11. /\ Append(dead, e) \in Seq(Events) /\ Len(Append(dead, e)) = Len(dead) + 1
        /\ \A i \in 1..Len(dead) : Append(dead, e)[i] = dead[i]
        /\ Append(dead, e)[Len(dead) + 1] = e
    BY <1>1, <1>11, AppendProperties
  <2>1. /\ dead' \in Seq(Events) /\ Len(dead') = Len(dead) + 1
        /\ \A i \in 1..Len(dead) : dead'[i] = dead[i]
        /\ dead'[Len(dead) + 1] = e
    BY <1>14, <2>11
  <2>2. DOMAIN dead' = 1..(Len(dead) + 1)
    BY <2>1
  <2>3. ASSUME NEW i \in 1..(Len(dead) + 1)
        PROVE  dead'[i] = IF i = Len(dead) + 1 THEN e ELSE dead[i]
    <3>1. CASE i = Len(dead) + 1
      BY <3>1, <2>1
    <3>2. CASE i # Len(dead) + 1
      <4>1. i \in 1..Len(dead)
        BY <3>2, <1>11
      <4> QED BY <4>1, <3>2, <2>1
    <3> QED BY <3>1, <3>2
  <2>4. KeepsDead
    BY <1>11, <2>1 DEF KeepsDead
  <2>5. Pending(e)'
    <3>0. Len(dead) + 1 \in 1..(Len(dead) + 1)
      BY <1>11
    <3>1. Len(dead) + 1 \in DOMAIN dead'
      BY <2>2, <3>0, Zenon
    <3> QED BY <3>1, <2>1 DEF Pending
  <2>6. ASSUME NEW d, d # e
        PROVE  (\E i \in DOMAIN dead' : dead'[i] = d) <=> \E i \in DOMAIN dead : dead[i] = d
    BY <1>11, <2>2, <2>3, <2>6
  <2>7. \A d : d # e => (Pending(d)' <=> Pending(d))
    BY <1>7, <1>14, <2>6 DEF Pending
  <2>8. OnePlace'
    <3>1. \A i, j \in DOMAIN dead' : dead'[i] = dead'[j] => i = j
      BY <1>6, <1>11, <1>12, <2>2, <2>3
    <3>2. \A i \in DOMAIN s, j \in DOMAIN dead' : s[i].event # dead'[j]
      BY <1>4, <1>6, <1>11, <2>2, <2>3
    <3>3. \A d \in given : ~Pending(d)'
      BY <1>10, <1>13, <2>7
    <3> QED BY <1>5, <1>14, <3>1, <3>2, <3>3 DEF OnePlace
  <2>9. \A d : d # e => (Finished(d)' <=> Finished(d))
    BY <2>7 DEF Finished
  <2>10. dead' # dead
    BY <1>11, <2>1
  <2> QED BY <1>2, <1>14, <2>4, <2>5, <2>8, <2>9, <2>10 DEF s
<1>9. ASSUME NEW m \in Message, m.event = e, inbox' = Append(s, m), dead' = dead
      PROVE  /\ inbox' \in Seq(Message) /\ KeepsDead
             /\ OnePlace'
             /\ \A d : d # e => (Finished(d)' <=> Finished(d))
             /\ Pending(e)' /\ inbox' # s
  <2>1. /\ inbox' \in Seq(Message) /\ Len(inbox') = Len(s) + 1
        /\ \A i \in 1..Len(s) : inbox'[i] = s[i]
        /\ inbox'[Len(s) + 1] = m
    BY <1>2, <1>9, AppendProperties
  <2>2. DOMAIN inbox' = 1..(Len(s) + 1)
    BY <2>1
  <2>3. \A i \in DOMAIN inbox' : inbox'[i].event = IF i = Len(s) + 1 THEN e ELSE s[i].event
    <3> SUFFICES ASSUME NEW i \in 1..(Len(s) + 1)
                 PROVE  inbox'[i].event = IF i = Len(s) + 1 THEN e ELSE s[i].event
      BY <2>2
    <3>1. CASE i = Len(s) + 1
      BY <3>1, <1>9, <2>1
    <3>2. CASE i # Len(s) + 1
      <4>1. i \in 1..Len(s)
        BY <3>2, <1>3
      <4> QED BY <4>1, <3>2, <2>1
    <3> QED BY <3>1, <3>2
  <2>5. ASSUME NEW d, d # e
        PROVE  (\E i \in DOMAIN inbox' : inbox'[i].event = d) <=> \E i \in DOMAIN s : s[i].event = d
    BY <1>2, <1>3, <2>2, <2>3, <2>5
  <2>6. \A d : d # e => (Pending(d)' <=> Pending(d))
    BY <1>7, <1>9, <2>5 DEF Pending
  <2>7. Pending(e)'
    <3>0. Len(s) + 1 \in 1..(Len(s) + 1)
      BY <1>3
    <3>1. Len(s) + 1 \in DOMAIN inbox'
      BY <2>2, <3>0, Zenon
    <3>2. inbox'[Len(s) + 1].event = e
      BY <2>3, <3>1
    <3> QED BY <3>1, <3>2 DEF Pending
  <2>4. OnePlace'
    <3>1. \A i, j \in DOMAIN inbox' : inbox'[i].event = inbox'[j].event => i = j
      BY <1>2, <1>3, <1>4, <1>5, <2>2, <2>3
    <3>2. \A i \in DOMAIN inbox', j \in DOMAIN dead : inbox'[i].event # dead[j]
      BY <1>2, <1>3, <1>6, <2>2, <2>3
    <3>3. \A d \in given : ~Pending(d)'
      BY <1>10, <1>13, <2>6
    <3> QED BY <1>9, <1>12, <3>1, <3>2, <3>3 DEF OnePlace
  <2>8. KeepsDead
    BY <1>9, <1>11 DEF KeepsDead
  <2>9. \A d : d # e => (Finished(d)' <=> Finished(d))
    BY <2>6 DEF Finished
  <2>10. inbox' # s
    BY <1>2, <1>9, AppendDiffers
  <2> QED BY <2>1, <2>4, <2>7, <2>8, <2>9, <2>10
<1> QED BY <1>8, <1>9, <1>14 DEF s

\* The letter that was read is committed, and those before it are given up.
LEMMA DeadMove ==
  ASSUME NotifyInv, Working("replay"), NEW e, e = worker["replay"].event,
         inbox' = inbox, dead' = SubSeq(dead, at + 2, Len(dead)), at' = 0,
         given' = given \cup {dead[i] : i \in 1..at}
  PROVE  /\ dead' \in Seq(Events) /\ at' \in 0..Len(dead') /\ given' \subseteq Events
         /\ OnePlace' /\ Finished(e)'
         /\ \A d : d # e => (Finished(d)' <=> Finished(d))
<1>1. /\ DOMAIN dead = 1..Len(dead) /\ Len(dead) \in Nat /\ at \in 0..Len(dead)
      /\ \A i \in DOMAIN dead : dead[i] \in Events
  BY Deads DEF NotifyInv
<1>2. at + 1 \in 1..Len(dead) /\ e = dead[at + 1] /\ e \notin given
  BY <1>1, JobIs DEF Workers
<1>3. /\ dead' \in Seq(Events) /\ Len(dead') = Len(dead) - (at + 1)
      /\ \A i \in 1..Len(dead') : dead'[i] = dead[i + (at + 1)]
  <2>1. \A i \in (at + 2)..Len(dead) : dead[i] \in Events
    BY <1>1
  <2> DEFINE n == Len(dead)
             u == SubSeq(dead, at + 2, n)
  <2>2. /\ u \in Seq(Events) /\ Len(u) = IF at + 2 <= n THEN n - (at + 2) + 1 ELSE 0
        /\ \A i \in 1..(n - (at + 2) + 1) : u[i] = dead[(at + 2) + i - 1]
    BY <1>1, <2>1, SubSeqProperties
  <2> HIDE DEF u
  <2>3. Len(u) = n - (at + 1)
    <3>1. n \in Nat /\ at \in 0..n /\ at + 1 <= n
      BY <1>1, <1>2
    <3>2. Len(u) = IF at + 2 <= n THEN n - (at + 2) + 1 ELSE 0
      BY <2>2
    <3> HIDE DEF n
    <3> QED BY <3>1, <3>2
  <2>4. ASSUME NEW i \in 1..(n - (at + 1)) PROVE u[i] = dead[i + (at + 1)]
    <3>1. i \in 1..(n - (at + 2) + 1) /\ (at + 2) + i - 1 = i + (at + 1)
      BY <1>1
    <3>2. u[i] = dead[(at + 2) + i - 1]
      BY <2>2, <3>1
    <3> QED BY <3>1, <3>2
  <2> QED BY <2>2, <2>3, <2>4 DEF u
<1>4. DOMAIN dead' = 1..(Len(dead) - (at + 1))
  BY <1>3
<1>5. \A i \in DOMAIN dead' : i + (at + 1) \in DOMAIN dead /\ dead'[i] = dead[i + (at + 1)]
  BY <1>1, <1>3, <1>4
<1>6. ASSUME NEW j \in DOMAIN dead, j > at + 1
      PROVE  j - (at + 1) \in DOMAIN dead' /\ dead'[j - (at + 1)] = dead[j]
  <2>1. j - (at + 1) \in DOMAIN dead' /\ (j - (at + 1)) + (at + 1) = j
    BY <1>1, <1>4, <1>6
  <2> QED BY <1>5, <2>1
<1>7. /\ \A i, j \in DOMAIN dead : dead[i] = dead[j] => i = j
      /\ \A i \in DOMAIN inbox, j \in DOMAIN dead : inbox[i].event # dead[j]
      /\ \A i, j \in DOMAIN inbox : inbox[i].event = inbox[j].event => i = j
      /\ \A d \in given : ~Pending(d)
  BY DEF NotifyInv, OnePlace
<1>8. \A i, j \in DOMAIN dead' : dead'[i] = dead'[j] => i = j
  <2> SUFFICES ASSUME NEW i \in DOMAIN dead', NEW j \in DOMAIN dead', dead'[i] = dead'[j] PROVE i = j
    OBVIOUS
  <2>1. i + (at + 1) = j + (at + 1)
    BY <1>5, <1>7
  <2> QED BY <1>1, <1>4, <2>1
<1>9. \A d : (\E j \in DOMAIN dead : dead[j] = d) <=>
              \/ d = e
              \/ d \in {dead[i] : i \in 1..at}
              \/ \E j \in DOMAIN dead' : dead'[j] = d
  <2>1. ASSUME NEW j \in DOMAIN dead
        PROVE  \/ dead[j] = e
               \/ dead[j] \in {dead[i] : i \in 1..at}
               \/ \E i \in DOMAIN dead' : dead'[i] = dead[j]
    <3>1. CASE j > at + 1
      BY <1>6, <3>1
    <3>2. CASE j = at + 1
      BY <1>2, <3>2
    <3>3. CASE j < at + 1
      <4>1. j \in 1..at
        BY <1>1, <3>3
      <4> QED BY <4>1
    <3> QED BY <1>1, <3>1, <3>2, <3>3
  <2>2. 1..at \subseteq DOMAIN dead
    BY <1>1
  <2>3. ASSUME NEW d, d = e \/ d \in {dead[i] : i \in 1..at} \/ \E j \in DOMAIN dead' : dead'[j] = d
        PROVE  \E j \in DOMAIN dead : dead[j] = d
    <3>1. CASE d = e
      BY <1>1, <1>2, <3>1
    <3>2. CASE d \in {dead[i] : i \in 1..at}
      BY <2>2, <3>2
    <3>3. CASE \E j \in DOMAIN dead' : dead'[j] = d
      BY <1>5, <3>3
    <3> QED BY <2>3, <3>1, <3>2, <3>3
  <2> QED BY <2>1, <2>3
<1>10. \A j \in DOMAIN dead' : dead'[j] # e /\ dead'[j] \notin {dead[i] : i \in 1..at}
  <2> SUFFICES ASSUME NEW j \in DOMAIN dead', NEW i \in 1..(at + 1) PROVE dead'[j] # dead[i]
    BY <1>1, <1>2
  <2>1. i \in DOMAIN dead /\ i # j + (at + 1)
    BY <1>1, <1>2, <1>4
  <2> QED BY <1>5, <1>7, <2>1
<1>11. e \notin {dead[i] : i \in 1..at}
  BY <1>1, <1>2, <1>7
<1>12. \A d : Pending(d)' <=> Pending(d) /\ d # e /\ d \notin {dead[i] : i \in 1..at}
  <2>1. \A i \in DOMAIN inbox : inbox[i].event # e /\ inbox[i].event \notin {dead[k] : k \in 1..at}
    <3>1. (at + 1) \in DOMAIN dead /\ 1..at \subseteq DOMAIN dead
      BY <1>1, <1>2
    <3> SUFFICES ASSUME NEW i \in DOMAIN inbox
                 PROVE  inbox[i].event # e /\ inbox[i].event \notin {dead[k] : k \in 1..at}
      OBVIOUS
    <3>2. inbox[i].event # dead[at + 1]
      BY <1>7, <3>1
    <3>3. \A k \in 1..at : inbox[i].event # dead[k]
      BY <1>7, <3>1
    <3> QED BY <1>2, <3>2, <3>3
  <2> DEFINE read == {dead[i] : i \in 1..at}
             InDead(d) == \E j \in DOMAIN dead : dead[j] = d
             LeftDead(d) == \E j \in DOMAIN dead' : dead'[j] = d
             InBox(d) == \E j \in DOMAIN inbox : inbox[j].event = d
  <2>2. \A d : Pending(d) <=> InBox(d) \/ InDead(d)
    BY DEF Pending
  <2>3. \A d : Pending(d)' <=> InBox(d) \/ LeftDead(d)
    BY <1>2 DEF Pending
  <2>4. \A d : InDead(d) <=> d = e \/ d \in read \/ LeftDead(d)
    BY <1>9
  <2>5. \A d : LeftDead(d) => d # e /\ d \notin read
    BY <1>10
  <2>6. \A d : InBox(d) => d # e /\ d \notin read
    BY <2>1
  <2> HIDE DEF read, InDead, LeftDead, InBox
  <2>7. ASSUME NEW d PROVE Pending(d)' <=> Pending(d) /\ d # e /\ d \notin read
    <3>1. /\ Pending(d) <=> InBox(d) \/ InDead(d)
          /\ Pending(d)' <=> InBox(d) \/ LeftDead(d)
      BY <2>2, <2>3
    <3>2. /\ InDead(d) <=> d = e \/ d \in read \/ LeftDead(d)
          /\ LeftDead(d) => d # e /\ d \notin read
          /\ InBox(d) => d # e /\ d \notin read
      BY <2>4, <2>5, <2>6
    <3> QED BY <3>1, <3>2
  <2> QED BY <2>7 DEF read
<1>13. OnePlace'
  <2>1. \A i \in DOMAIN inbox, j \in DOMAIN dead' : inbox[i].event # dead'[j]
    <3> SUFFICES ASSUME NEW i \in DOMAIN inbox, NEW j \in DOMAIN dead' PROVE inbox[i].event # dead'[j]
      OBVIOUS
    <3> QED BY <1>5, <1>7
  <2>2. \A d \in given' : ~Pending(d)'
    BY <1>7, <1>12
  <2> QED BY <1>7, <1>8, <2>1, <2>2 DEF OnePlace
<1>14. \A d \in {dead[i] : i \in 1..at} : Pending(d) /\ d \in Events
  BY <1>1 DEF Pending
<1>15. Finished(e)' /\ \A d : d # e => (Finished(d)' <=> Finished(d))
  BY <1>2, <1>11, <1>12, <1>14 DEF Finished
<1>16. at' \in 0..Len(dead') /\ given' \subseteq Events
  <2>1. Len(dead') \in Nat
    BY <1>3
  <2>2. given \subseteq Events
    BY DEF NotifyInv, NotifyTypeOK
  <2>3. given' \subseteq Events
    BY <1>14, <2>2
  <2>4. ASSUME NEW m \in Nat PROVE 0 \in 0..m
    OBVIOUS
  <2>5. 0 \in 0..Len(dead')
    BY <2>1, <2>4, Zenon
  <2> QED BY <2>3, <2>5, Zenon
<1> QED BY <1>3, <1>13, <1>15, <1>16

\* After a worker has left event e, the others are at their messages.
LEMMA StillAtMessage ==
  ASSUME NotifyInv, NEW w \in Workers, ~Working(w)',
         \A v \in Workers : v # w => worker'[v] = worker[v] /\ (Working(v)' <=> Working(v)),
         \A d : Steps(d)' = Steps(d),
         w = "consumer" => KeepsDead,
         w = "replay" => inbox' = inbox
  PROVE  AtItsMessage'
<1>1. CASE w = "consumer"
  <2>1. Working("replay") => /\ at < Len(dead) /\ worker["replay"].event = dead[at + 1]
                            /\ at + 1 \in 1..Len(dead)
    BY Deads DEF NotifyInv, AtItsMessage
  <2>2. Working("replay")' => at' < Len(dead') /\ worker'["replay"].event = dead'[at' + 1]
    <3>1. Len(dead') \in Nat /\ Len(dead) \in Nat /\ at \in Nat
      BY <1>1, Deads DEF KeepsDead, NotifyInv
    <3> QED BY <1>1, <2>1, <3>1 DEF KeepsDead, Workers
  <2> QED BY <1>1, <2>2 DEF NotifyInv, AtItsMessage, Workers
<1>2. CASE w = "replay"
  BY <1>2 DEF NotifyInv, AtItsMessage, Workers
<1> QED BY <1>1, <1>2 DEF Workers

LEMMA CompleteNotifies ==
  ASSUME NotifyInv, NEW w \in Workers, Complete(w)
  PROVE  NotifyInv'
<1>1. PICK e \in Events : e = worker[w].event
  BY JobIs DEF Complete
<1>2. /\ Working(w) /\ worker[w].step = Len(Steps(e)) /\ Rest(w)
      /\ UNCHANGED <<kind, made, broken, breaks>>
  BY <1>1 DEF Complete
<1>3. /\ worker' \in [Workers -> Job \cup {NoWork}] /\ ~Working(w)'
      /\ \A v \in Workers : v # w => worker'[v] = worker[v] /\ (Working(v)' <=> Working(v))
      /\ \A d : Steps(d)' = Steps(d)
      /\ \A v \in Workers, d \in Events, x \in Effects :
           d # e => (Had(v, d, x)' <=> Had(v, d, x))
      /\ \A v \in Workers, x \in Effects : ~Had(v, e, x)'
  BY <1>1, <1>2, Resting
<1>4. /\ inbox' \in Seq(Message) /\ dead' \in Seq(Events) /\ at' \in 0..Len(dead')
      /\ given' \subseteq Events /\ OnePlace' /\ Finished(e)'
      /\ \A d : d # e => (Finished(d)' <=> Finished(d))
      /\ w = "consumer" => KeepsDead
      /\ w = "replay" => inbox' = inbox
  <2>1. CASE w = "consumer"
    <3>1. inbox' = Tail(inbox) /\ dead' = dead /\ at' = at /\ given' = given
      BY <2>1 DEF Complete, letters
    <3>2. e \notin given
      BY <1>1, <1>2, JobIs
    <3>3. /\ inbox' \in Seq(Message) /\ KeepsDead
          /\ OnePlace'
          /\ \A d : d # e => (Finished(d)' <=> Finished(d))
          /\ Pending(e)' <=> inbox' # Tail(inbox) \/ dead' # dead
      BY <1>1, <1>2, <2>1, <3>1, MessageMoves
    <3> QED BY <2>1, <3>1, <3>2, <3>3 DEF KeepsDead, Finished
  <2>2. CASE w = "replay"
    <3>1. /\ inbox' = inbox /\ dead' = SubSeq(dead, at + 2, Len(dead)) /\ at' = 0
          /\ given' = given \cup {dead[i] : i \in 1..at}
      BY <2>2 DEF Complete
    <3> QED BY <1>1, <1>2, <2>2, <3>1, DeadMove DEF NotifyInv, NotifyTypeOK
  <2> QED BY <2>1, <2>2 DEF Workers
<1>5. NotifyTypeOK'
  BY <1>2, <1>3, <1>4 DEF NotifyInv, NotifyTypeOK
<1>6. AtItsMessage'
  BY <1>3, <1>4, StillAtMessage
<1>7. ASSUME NEW i \in 1..Len(Steps(e)), NEW x, x = Steps(e)[i] PROVE Counted(e, x)'
  <2>1. Had(w, e, x)
    BY <1>1, <1>2, <1>7 DEF Had
  <2>2. made[e][x] = broken[e][x] + 1
    BY <1>7, <2>1 DEF NotifyInv, Counted
  <2> QED BY <1>2, <1>4, <2>2 DEF Counted
<1>8. ASSUME NEW d \in Events, d # e PROVE \A i \in 1..Len(Steps(d)') : Counted(d, Steps(d)[i])'
  BY <1>2, <1>3, <1>4, <1>8, OthersCounted
<1>9. \A i \in 1..Len(Steps(e)') : Counted(e, Steps(e)[i])'
  BY <1>3, <1>7
<1>10. \A d \in Events : \A i \in 1..Len(Steps(d)') : Counted(d, Steps(d)[i])'
  BY <1>8, <1>9
<1> QED BY <1>4, <1>5, <1>6, <1>10 DEF NotifyInv

\* Handling breaks: the event still waits, and what was had is counted.
LEMMA BreakNotifies ==
  ASSUME NotifyInv, NEW w \in Workers,
         (Raise /\ w = "consumer") \/ (ReplayFails /\ w = "replay") \/ Die(w)
  PROVE  NotifyInv'
<1>1. PICK e \in Events : e = worker[w].event
  BY JobIs DEF Raise, ReplayFails, Die
<1>2. /\ Working(w) /\ Rest(w) /\ Broke(w) /\ kind' = kind /\ made' = made
  BY <1>1 DEF Raise, ReplayFails, Die
<1>3. /\ worker' \in [Workers -> Job \cup {NoWork}] /\ ~Working(w)'
      /\ \A v \in Workers : v # w => worker'[v] = worker[v] /\ (Working(v)' <=> Working(v))
      /\ \A d : Steps(d)' = Steps(d)
      /\ \A v \in Workers, d \in Events, x \in Effects :
           d # e => (Had(v, d, x)' <=> Had(v, d, x))
      /\ \A v \in Workers, x \in Effects : ~Had(v, e, x)'
  BY <1>1, <1>2, Resting
<1>4. /\ inbox' \in Seq(Message) /\ dead' \in Seq(Events) /\ at' \in 0..Len(dead')
      /\ given' \subseteq Events /\ OnePlace' /\ ~Finished(e)'
      /\ \A d : d # e => (Finished(d)' <=> Finished(d))
      /\ w = "consumer" => KeepsDead
      /\ w = "replay" => inbox' = inbox
  <2>1. CASE Die(w) \/ (ReplayFails /\ w = "replay")
    <3>1. UNCHANGED <<inbox, dead, given>> /\ at' \in 0..Len(dead)
      <4>1. at \in 0..Len(dead) /\ Len(dead) \in Nat /\ (w = "replay" => at < Len(dead))
        BY <1>2, Deads DEF NotifyInv, AtItsMessage
      <4> QED BY <2>1, <4>1 DEF Die, ReplayFails
    <3>2. ~Finished(e)
      BY <1>1, <1>2, JobIs DEF Finished
    <3>3. w = "consumer" => KeepsDead
      <4>1. ASSUME w = "consumer" PROVE at' = at
        BY <2>1, <4>1 DEF Die
      <4> QED BY <3>1, <4>1, Deads DEF NotifyInv, NotifyTypeOK, KeepsDead
    <3>4. OnePlace' /\ \A d : Finished(d)' <=> Finished(d)
      BY <3>1 DEF NotifyInv, OnePlace, Pending, Finished
    <3> QED BY <3>1, <3>2, <3>3, <3>4 DEF NotifyInv, NotifyTypeOK
  <2>2. CASE Raise /\ w = "consumer"
    <3>1. worker["consumer"] \in Job /\ UNCHANGED <<at, given>>
      BY <1>2, <2>2, JobIs DEF Raise
    <3>4. dead \in Seq(Events) /\ Len(dead) \in Nat
      BY DEF NotifyInv, NotifyTypeOK
    <3> SUFFICES /\ inbox' \in Seq(Message) /\ KeepsDead /\ OnePlace'
                 /\ \A d : d # e => (Finished(d)' <=> Finished(d))
                 /\ Pending(e)'
      BY <2>2 DEF KeepsDead, Finished
    <3>2. CASE worker["consumer"].tries < MaxRetries
      <4> DEFINE m == [event |-> e, tries |-> worker["consumer"].tries + 1]
      <4>1. m \in Message /\ m.event = e
        BY <3>1, <3>2, NotificationsAssumption DEF Message, Job
      <4>2. inbox' = Append(Tail(inbox), m) /\ dead' = dead
        BY <1>1, <2>2, <3>2 DEF Raise
      <4> HIDE DEF m
      <4>3. inbox' # Tail(inbox)
        <5>1. Tail(inbox) \in Seq(Message)
          BY <1>2, <2>2, TailInbox DEF NotifyInv, AtItsMessage
        <5> QED BY <4>1, <4>2, <5>1, AppendDiffers
      <4> QED BY <1>1, <1>2, <2>2, <3>1, <4>1, <4>2, <4>3, MessageMoves
    <3>3. CASE ~(worker["consumer"].tries < MaxRetries)
      <4>1. inbox' = Tail(inbox) /\ dead' = Append(dead, e) /\ dead' # dead
        <5>1. Len(Append(dead, e)) = Len(dead) + 1
          BY <3>4, AppendProperties
        <5> QED BY <1>1, <2>2, <3>3, <3>4, <5>1 DEF Raise
      <4> QED BY <1>1, <1>2, <2>2, <3>1, <4>1, MessageMoves
    <3> QED BY <3>2, <3>3
  <2> QED BY <2>1, <2>2
<1>5. PICK n \in Nat : n = worker[w].step /\ n <= Len(Steps(e))
  BY <1>1, <1>2, JobIs, PlansAre DEF NotifyInv
<1> DEFINE had == {Steps(e)[i] : i \in 1..n}
           now == [x \in Effects |-> IF x \in had THEN broken[e][x] + 1 ELSE broken[e][x]]
<1>6. broken' = [broken EXCEPT ![e] = now] /\ breaks' \in 0..MaxBreaks
  BY <1>1, <1>2, <1>5, NotificationsAssumption DEF Broke, NotifyInv, NotifyTypeOK
<1>7. broken[e] \in [Effects -> Nat]
  BY DEF NotifyInv, NotifyTypeOK
<1>8. now \in [Effects -> Nat]
  BY <1>7
<1>9. broken' \in [Events -> [Effects -> Nat]] /\ broken'[e] = now
      /\ \A d \in Events : d # e => broken'[d] = broken[d]
  BY <1>6, <1>8 DEF NotifyInv, NotifyTypeOK
<1>10. NotifyTypeOK'
  BY <1>2, <1>3, <1>4, <1>6, <1>9 DEF NotifyInv, NotifyTypeOK
<1>11. AtItsMessage'
  BY <1>3, <1>4, StillAtMessage
<1>12. ASSUME NEW i \in 1..Len(Steps(e)), NEW x, x = Steps(e)[i] PROVE Counted(e, x)'
  <2>1. x \in Effects
    BY <1>12, PlansAre DEF NotifyInv
  <2>2. Had(w, e, x) <=> x \in had
    BY <1>1, <1>2, <1>5 DEF Had
  <2>3. \A v \in Workers : v # w => ~Had(v, e, x)
    BY <1>1, <1>2, Alone DEF NotifyInv, Had
  <2>4. ~Finished(e) /\ Counted(e, x)
    BY <1>1, <1>2, <1>12, JobIs DEF NotifyInv, Finished
  <2>5. made[e][x] = IF x \in had THEN broken[e][x] + 1 ELSE broken[e][x]
    BY <2>2, <2>3, <2>4 DEF Counted
  <2>6. made'[e][x] = broken'[e][x]
    BY <1>2, <1>9, <2>1, <2>5
  <2> QED BY <1>3, <1>4, <2>1, <2>6 DEF Counted
<1>13. ASSUME NEW d \in Events, d # e PROVE \A i \in 1..Len(Steps(d)') : Counted(d, Steps(d)[i])'
  BY <1>2, <1>3, <1>4, <1>9, <1>13, OthersCounted
<1>14. \A i \in 1..Len(Steps(e)') : Counted(e, Steps(e)[i])'
  BY <1>3, <1>12
<1>15. \A d \in Events : \A i \in 1..Len(Steps(d)') : Counted(d, Steps(d)[i])'
  BY <1>13, <1>14
<1> QED BY <1>4, <1>10, <1>11, <1>15 DEF NotifyInv

LEMMA NextNotifies == NotifyInv /\ [NotifyNext]_notifyVars => NotifyInv'
<1> SUFFICES ASSUME NotifyInv, [NotifyNext]_notifyVars PROVE NotifyInv'
  OBVIOUS
<1>1. CASE UNCHANGED notifyVars
  <2>1. UNCHANGED <<kind, inbox, dead, at, given, worker, made, broken, breaks>>
    BY <1>1 DEF notifyVars
  <2>2. NotifyTypeOK' /\ AtItsMessage' /\ OnePlace'
    BY <2>1 DEF NotifyInv, NotifyTypeOK, AtItsMessage, OnePlace, Working, Steps, Pending
  <2>3. \A e \in Events : Finished(e)' <=> Finished(e)
    BY <2>1 DEF Pending, Finished
  <2>4. \A v \in Workers : \A e, x : Had(v, e, x)' <=> Had(v, e, x)
    BY <2>1 DEF Had, Working, Steps
  <2>5. \A e \in Events : \A i \in 1..Len(Steps(e)') : Counted(e, Steps(e)[i])'
    BY <2>1, <2>3, <2>4, OthersCounted
  <2> QED BY <2>2, <2>5 DEF NotifyInv
<1>2. CASE Raise \/ ReplayFails
  BY <1>2, BreakNotifies DEF Workers
<1>3. CASE ReplayEnds
  <2>1. UNCHANGED <<kind, inbox, dead, given, worker, made, broken, breaks>> /\ at' = 0 /\ ~Working("replay")
    BY <1>3 DEF ReplayEnds
  <2>2. NotifyTypeOK' /\ AtItsMessage' /\ OnePlace'
    BY <2>1, Deads DEF NotifyInv, NotifyTypeOK, AtItsMessage, OnePlace, Working, Steps, Pending
  <2>3. \A e \in Events : Finished(e)' <=> Finished(e)
    BY <2>1 DEF Pending, Finished
  <2>4. \A v \in Workers : \A e, x : Had(v, e, x)' <=> Had(v, e, x)
    BY <2>1 DEF Had, Working, Steps
  <2>5. \A e \in Events : \A i \in 1..Len(Steps(e)') : Counted(e, Steps(e)[i])'
    BY <2>1, <2>3, <2>4, OthersCounted
  <2> QED BY <2>2, <2>5 DEF NotifyInv
<1> QED BY <1>1, <1>2, <1>3, PollNotifies, EffectNotifies, CompleteNotifies, BreakNotifies DEF NotifyNext

\* Whatever retries, replays, errors and deaths there are, an effect is had once
\* for each time that handling broke behind it, and once more when the event is
\* neither waiting nor among the dead letters nor given up by the command that
\* replays those, for any number of events.
THEOREM EventsNotifyOnce == NotifySpec => [](NotifyTypeOK /\ NotifiedOnce)
<1>1. NotifyInv => NotifyTypeOK /\ NotifiedOnce
  <2> SUFFICES ASSUME NotifyInv, NEW e \in Events, NEW i \in 1..Len(Steps(e))
               PROVE  LET x == Steps(e)[i]
                      IN /\ ~Pending(e) => made[e][x] = broken[e][x] + IF e \in given THEN 0 ELSE 1
                         /\ made[e][x] <= 1 + broken[e][x]
    BY DEF NotifiedOnce, NotifyInv
  <2>1. PICK x \in Effects : x = Steps(e)[i]
    BY PlansAre DEF NotifyInv
  <2>2. broken[e][x] \in Nat /\ Counted(e, x)
    BY <2>1 DEF NotifyInv, NotifyTypeOK
  <2>3. ~Pending(e) => \A w \in Workers : ~Had(w, e, x)
    BY JobIs DEF Had
  <2> QED BY <2>1, <2>2, <2>3 DEF Counted, Finished
<1> QED BY <1>1, InitNotifies, NextNotifies, PTL DEF NotifySpec
------------------------------------------------------------------------------
(* The AI waiter *)

\* The order that call c made, or may yet make, contains portion p.
Claims(c, p) == p \in placing[c].items /\ (c \in pending \/ p \in bought[c])

\* What a call has posted and what came of it.
CallInv(c) ==
  /\ placing[c].items \subseteq wanted
  /\ bought[c] \in {{}, placing[c].items}
  /\ c \in pending => bought[c] = {}
  /\ placing[c].step \in {"idle", "looking"} => placing[c].items = {} /\ c \notin pending
  /\ placing[c].step = "placed" => bought[c] = placing[c].items

\* A portion that nothing happened to is claimed by one call at most; while it
\* is in the cart each call that has looked has seen it, and its call has yet to
\* clear the cart; it is not lost, and nobody claims it once it is given back.
PortionInv(p) ==
  /\ \A c, d \in Calls : Claims(c, p) /\ Claims(d, p) => c = d
  /\ \A c \in Calls : Claims(c, p) /\ ~Holds(c) => p \notin basket
  /\ \A c \in Calls : Holds(c) /\ p \in basket => p \in placing[c].items
  /\ p \in basket \cup returned \/ \E c \in Calls : p \in bought[c]
  /\ p \in returned => p \notin basket /\ \A c \in Calls : ~Claims(c, p)

AssistantInv ==
  /\ AssistantTypeOK
  /\ \A c \in Calls : CallInv(c)
  /\ \A p \in wanted \ astray : PortionInv(p)

\* What requests have read was put in the cart; what they will put there is new,
\* and each puts another portion.
HandsInv ==
  \A h \in Hands :
    /\ touching[h].read \subseteq wanted /\ Puts(h) \cap wanted = {}
    /\ \A k \in Hands : k # h => Puts(h) \cap Puts(k) = {}

LEMMA InitOrders == AssistantInit => AssistantInv /\ HandsInv
<1> SUFFICES ASSUME AssistantInit PROVE AssistantInv /\ HandsInv
  OBVIOUS
<1>1. AssistantTypeOK
  BY DEF AssistantInit, AssistantTypeOK, Untouched
<1>2. \A c \in Calls : CallInv(c)
  BY DEF AssistantInit, CallInv
<1>3. HandsInv
  BY DEF AssistantInit, HandsInv, Untouched, Puts
<1> QED BY <1>1, <1>2, <1>3 DEF AssistantInit, AssistantInv

LEMMA OrderingIs ==
  \A p : p \in Ordering <=> \E c \in Calls : Holds(c) /\ p \in placing[c].items
BY DEF Ordering

LEMMA TouchOrders ==
  ASSUME AssistantInv, NEW h \in Hands, NEW c \in SUBSET Portions, Touch(h, c)
  PROVE  AssistantInv'
<1>1. UNCHANGED <<wanted, basket, returned, home, located, placing, pending, bought, astray>>
  BY DEF Touch
<1>2. touching' \in [Hands -> [read : SUBSET Portions, write : SUBSET Portions]]
  BY DEF Touch, AssistantInv, AssistantTypeOK
<1>3. AssistantTypeOK'
  BY <1>1, <1>2 DEF AssistantInv, AssistantTypeOK
<1> QED BY <1>1, <1>3 DEF AssistantInv, CallInv, PortionInv, Claims, Holds, Reached

\* A cart is written: what is overwritten in it is astray.
LEMMA SaveOrders ==
  ASSUME AssistantInv, HandsInv, NEW h \in Hands, SaveCart(h)
  PROVE  AssistantInv'
<1>1. PICK r \in SUBSET Portions, w \in SUBSET Portions : r = touching[h].read /\ w = touching[h].write
  BY DEF AssistantInv, AssistantTypeOK
<1>2. /\ basket' = w /\ wanted' = wanted \cup (w \ r) /\ returned' = returned \cup (r \ w)
      /\ astray' = astray \cup ((basket \ r) \cup (r \ basket)) \cup ((r \ w) \cap Ordering)
                     \cup IF \E c \in Calls : Holds(c) THEN w \ r ELSE {}
      /\ UNCHANGED <<home, located, placing, pending, bought>>
      /\ touching' = [touching EXCEPT ![h] = Untouched]
  BY <1>1 DEF SaveCart, Overwritten, Puts, Takes
<1>3. r \subseteq wanted /\ (w \ r) \cap wanted = {} /\ wanted \subseteq Portions
      /\ basket \subseteq wanted /\ returned \subseteq wanted /\ astray \subseteq wanted
  BY <1>1 DEF HandsInv, Puts, AssistantInv, AssistantTypeOK
<1>4. touching' \in [Hands -> [read : SUBSET Portions, write : SUBSET Portions]]
  BY <1>2 DEF Untouched, AssistantInv, AssistantTypeOK
<1>5. wanted' \subseteq Portions /\ basket' \subseteq wanted' /\ returned' \subseteq wanted'
  BY <1>2, <1>3
<1>6. astray' \subseteq wanted'
  BY <1>2, <1>3
<1>7. AssistantTypeOK'
  BY <1>2, <1>4, <1>5, <1>6 DEF AssistantInv, AssistantTypeOK
<1>8. \A c \in Calls : CallInv(c)' /\ (Holds(c)' <=> Holds(c))
  BY <1>2 DEF AssistantInv, CallInv, Holds, Reached
<1>9. ASSUME NEW q \in wanted' \ astray' PROVE PortionInv(q)'
  <2>1. CASE q \in w \ r
    <3>1. q \notin wanted /\ q \notin returned /\ \A c \in Calls : q \notin placing[c].items
      BY <1>3, <2>1 DEF AssistantInv, CallInv
    <3>2. \A c \in Calls : ~Holds(c)
      BY <1>2, <1>9, <2>1
    <3>3. q \in basket' /\ q \notin returned'
      BY <1>2, <2>1, <3>1
    <3>4. \A c \in Calls : ~Claims(c, q)'
      BY <1>2, <3>1 DEF Claims
    <3> QED BY <1>8, <3>2, <3>3, <3>4 DEF PortionInv
  <2>2. CASE q \notin w \ r
    <3>1. q \in wanted /\ q \notin astray /\ (q \in basket <=> q \in r)
      BY <1>2, <1>9, <2>2
    <3>2. PortionInv(q)
      BY <3>1 DEF AssistantInv
    <3>3. \A c \in Calls : (Claims(c, q)' <=> Claims(c, q)) /\ placing'[c] = placing[c] /\ bought'[c] = bought[c]
      BY <1>2 DEF Claims
    <3>4. CASE q \in r \ w
      <4>1. q \in basket /\ q \notin Ordering /\ q \notin basket' /\ q \in returned'
        BY <1>2, <1>9, <3>1, <3>4
      <4>2. ASSUME NEW c \in Calls PROVE ~Claims(c, q)
        <5>1. ~(Holds(c) /\ q \in placing[c].items)
          BY <4>1, OrderingIs
        <5> QED BY <3>2, <4>1, <5>1 DEF PortionInv, Claims
      <4> QED BY <3>3, <4>1, <4>2 DEF PortionInv
    <3>5. CASE q \notin r \ w
      <4>1. (q \in basket' <=> q \in basket) /\ (q \in returned' <=> q \in returned)
        BY <1>2, <2>2, <3>1, <3>5
      <4> QED BY <1>8, <3>2, <3>3, <4>1 DEF PortionInv
    <3> QED BY <3>4, <3>5
  <2> QED BY <2>1, <2>2
<1> QED BY <1>7, <1>8, <1>9 DEF AssistantInv

LEMMA EmptyOrders ==
  ASSUME AssistantInv, EmptyCart
  PROVE  AssistantInv'
<1>1. /\ basket' = {} /\ returned' = returned \cup basket
      /\ astray' = astray \cup (basket \cap Ordering)
      /\ UNCHANGED <<wanted, touching, home, located, placing, pending, bought>>
  BY DEF EmptyCart
<1>2. AssistantTypeOK'
  BY <1>1 DEF AssistantInv, AssistantTypeOK
<1>3. \A c \in Calls : CallInv(c)' /\ (Holds(c)' <=> Holds(c))
  BY <1>1 DEF AssistantInv, CallInv, Holds, Reached
<1>4. ASSUME NEW q \in wanted' \ astray' PROVE PortionInv(q)'
  <2>1. PortionInv(q)
    BY <1>1, <1>4 DEF AssistantInv
  <2>2. ASSUME q \in basket, NEW c \in Calls PROVE ~Claims(c, q)
    <3>1. ~(Holds(c) /\ q \in placing[c].items)
      BY <1>1, <1>4, <2>2, OrderingIs
    <3> QED BY <2>1, <2>2, <3>1 DEF PortionInv, Claims
  <2> QED BY <1>1, <1>3, <2>1, <2>2 DEF PortionInv, Claims
<1> QED BY <1>2, <1>3, <1>4 DEF AssistantInv

\* Steps of one call that leave cart and orders alone.
LEMMA CallStep ==
  ASSUME AssistantInv, NEW c \in Calls, NEW step \in {"looking", "placed", "done"},
         Goes(c, step), UNCHANGED <<cartSide, bought>>, astray \subseteq astray', astray' \subseteq wanted,
         located' \subseteq Pods, pending' = pending \/ (pending' = pending \ {c} /\ bought[c] = {}),
         step = "looking" => placing[c].step = "idle",
         step = "placed" => placing[c].step = "posted" /\ bought[c] = placing[c].items,
         step = "done" /\ Holds(c) =>
           (bought[c] = {} /\ c \notin pending') \/ placing[c].items \subseteq astray'
  PROVE  AssistantInv'
<1> DEFINE x == [placing[c] EXCEPT !.step = step]
<1>1. placing' = [placing EXCEPT ![c] = x] /\ x.step = step /\ x.items = placing[c].items
      /\ x \in [step : {"idle", "looking", "posted", "placed", "done"}, items : SUBSET Portions]
  BY DEF Goes, AssistantInv, AssistantTypeOK
<1> HIDE DEF x
<1>2. placing'[c] = x /\ \A d \in Calls : d # c => placing'[d] = placing[d]
  BY <1>1 DEF AssistantInv, AssistantTypeOK
<1>3. AssistantTypeOK'
  BY <1>1 DEF AssistantInv, AssistantTypeOK, cartSide
<1>4. ASSUME NEW d \in Calls PROVE CallInv(d)'
  <2>1. CallInv(d) /\ wanted' = wanted /\ bought' = bought
    BY DEF AssistantInv, cartSide
  <2>2. CASE d = c
    BY <1>1, <1>2, <2>1, <2>2 DEF CallInv
  <2>3. CASE d # c
    BY <1>2, <2>1, <2>3 DEF CallInv
  <2> QED BY <2>2, <2>3
<1>5. ASSUME NEW p \in wanted' \ astray' PROVE PortionInv(p)'
  <2>1. PortionInv(p) /\ UNCHANGED <<wanted, basket, returned, bought>>
    BY <1>5 DEF AssistantInv, cartSide
  <2>2. \A d \in Calls : placing'[d].items = placing[d].items
    BY <1>1, <1>2
  <2>3. \A d \in Calls : Claims(d, p)' => Claims(d, p)
    BY <2>1, <2>2 DEF Claims
  <2>4. \A d \in Calls : d # c => (Holds(d)' <=> Holds(d))
    BY <1>2 DEF Holds, Reached
  <2>5. Holds(c)' => Holds(c)
    BY <1>1, <1>2 DEF Holds, Reached
  <2>6. Claims(c, p)' /\ Holds(c) => Holds(c)'
    <3>1. CASE step = "placed"
      BY <3>1, <1>1, <1>2 DEF Holds, Reached
    <3>2. CASE step = "looking"
      BY <3>2 DEF Holds, Reached
    <3>3. CASE step = "done"
      BY <3>3, <1>5, <2>1, <2>2 DEF Claims
    <3> QED BY <3>1, <3>2, <3>3
  <2> QED BY <2>1, <2>2, <2>3, <2>4, <2>5, <2>6 DEF PortionInv
<1> QED BY <1>3, <1>4, <1>5 DEF AssistantInv

LEMMA CallsOrder ==
  ASSUME AssistantInv, NEW c \in Calls,
         CallPlaceOrder(c) \/ NothingToOrder(c) \/ ReceiveAnswer(c) \/ AnswerLate(c)
  PROVE  AssistantInv'
<1>1. CASE CallPlaceOrder(c)
  BY <1>1, CallStep DEF CallPlaceOrder, Reached, AssistantInv, AssistantTypeOK
<1>2. CASE NothingToOrder(c)
  BY <1>2, CallStep DEF NothingToOrder, Reached, Holds, AssistantInv, AssistantTypeOK
<1>3. CASE ReceiveAnswer(c)
  <2>1. placing[c].step = "posted"
    BY <1>3 DEF ReceiveAnswer, Reached
  <2>2. bought[c] = placing[c].items
    BY <1>3 DEF ReceiveAnswer, AssistantInv, CallInv
  <2> QED BY <1>3, <2>1, <2>2, CallStep DEF ReceiveAnswer, AssistantInv, AssistantTypeOK
<1>4. CASE AnswerLate(c)
  <2>1. placing[c].items \subseteq wanted
    BY DEF AssistantInv, CallInv
  <2> QED BY <1>4, <2>1, CallStep DEF AnswerLate, AssistantInv, AssistantTypeOK
<1> QED BY <1>1, <1>2, <1>3, <1>4

\* A call that looks sees the whole cart.
LEMMA PostOrders ==
  ASSUME AssistantInv, NEW c \in Calls, PostOrder(c)
  PROVE  AssistantInv'
<1> DEFINE x == [step |-> "posted", items |-> basket]
<1>1. /\ Reached(c, "looking") /\ placing' = [placing EXCEPT ![c] = x]
      /\ pending' = pending \cup {c} /\ astray' = astray \cup (basket \cap Ordering)
      /\ UNCHANGED <<wanted, basket, returned, touching, home, located, bought>>
  BY DEF PostOrder, cartSide
<1>2. placing'[c] = x /\ \A d \in Calls : d # c => placing'[d] = placing[d]
  BY <1>1 DEF AssistantInv, AssistantTypeOK
<1>3. AssistantTypeOK'
  BY <1>1 DEF AssistantInv, AssistantTypeOK
<1>4. placing[c].items = {} /\ bought[c] = {} /\ c \notin pending /\ ~Holds(c)
  BY <1>1 DEF AssistantInv, CallInv, Reached, Holds
<1>5. ASSUME NEW d \in Calls PROVE CallInv(d)'
  <2>1. CASE d = c
    BY <1>1, <1>2, <1>4, <2>1 DEF CallInv, AssistantInv, AssistantTypeOK
  <2>2. CASE d # c
    BY <1>1, <1>2, <2>2 DEF CallInv, AssistantInv
  <2> QED BY <2>1, <2>2
<1>6. Holds(c)' /\ \A d \in Calls : d # c => (Holds(d)' <=> Holds(d))
  BY <1>2 DEF Holds, Reached
<1>7. ASSUME NEW p \in wanted' \ astray' PROVE PortionInv(p)'
  <2>1. PortionInv(p)
    BY <1>1, <1>7 DEF AssistantInv
  <2>2. p \in basket => p \notin Ordering
    BY <1>1, <1>7
  <2>3. p \in basket => \A d \in Calls : ~Claims(d, p) /\ ~Holds(d)
    BY <2>1, <2>2, OrderingIs DEF PortionInv, Claims
  <2>4. \A d \in Calls : d # c => (Claims(d, p)' <=> Claims(d, p))
    BY <1>1, <1>2 DEF Claims
  <2>5. Claims(c, p)' => p \in basket
    BY <1>2 DEF Claims
  <2> QED BY <1>1, <1>2, <1>6, <2>1, <2>3, <2>4, <2>5 DEF PortionInv
<1> QED BY <1>3, <1>5, <1>7 DEF AssistantInv

LEMMA MakeOrders ==
  ASSUME AssistantInv, NEW c \in Calls, MakeOrder(c)
  PROVE  AssistantInv'
<1>1. /\ c \in pending /\ bought' = [bought EXCEPT ![c] = placing[c].items]
      /\ pending' = pending \ {c}
      /\ UNCHANGED <<wanted, basket, returned, touching, home, located, placing, astray>>
  BY DEF MakeOrder, cartSide
<1>2. AssistantTypeOK'
  BY <1>1 DEF AssistantInv, AssistantTypeOK
<1>3. bought'[c] = placing[c].items /\ \A d \in Calls : d # c => bought'[d] = bought[d]
  BY <1>1 DEF AssistantInv, AssistantTypeOK
<1>4. ASSUME NEW d \in Calls PROVE CallInv(d)' /\ (Holds(d)' <=> Holds(d))
  BY <1>1, <1>3 DEF CallInv, AssistantInv, Holds, Reached
<1>5. ASSUME NEW p \in wanted' \ astray' PROVE PortionInv(p)'
  <2>1. PortionInv(p)
    BY <1>1, <1>5 DEF AssistantInv
  <2>2. \A d \in Calls : Claims(d, p)' => Claims(d, p)
    BY <1>1, <1>3 DEF Claims
  <2>3. \A d \in Calls : p \in bought[d] => p \in bought'[d]
    BY <1>1, <1>3 DEF AssistantInv, CallInv
  <2> QED BY <1>1, <1>4, <2>1, <2>2, <2>3 DEF PortionInv
<1> QED BY <1>2, <1>4, <1>5 DEF AssistantInv

LEMMA RefuseOrders ==
  ASSUME AssistantInv, NEW c \in Calls, RefuseOrder(c)
  PROVE  AssistantInv'
<1>1. c \in pending /\ pending' = pending \ {c} /\ bought[c] = {}
  BY DEF RefuseOrder, AssistantInv, CallInv
<1>2. CASE Reached(c, "posted")
  BY <1>1, <1>2, CallStep DEF RefuseOrder, Goes, AssistantInv, AssistantTypeOK
<1>3. CASE ~Reached(c, "posted")
  <2>1. UNCHANGED <<wanted, basket, returned, touching, home, located, placing, bought, astray>>
    BY <1>3 DEF RefuseOrder, cartSide
  <2>2. \A d \in Calls : CallInv(d)' /\ (Holds(d)' <=> Holds(d))
    BY <1>1, <2>1 DEF AssistantInv, CallInv, Holds, Reached
  <2>3. ASSUME NEW p \in wanted' \ astray' PROVE PortionInv(p)'
    <3>1. PortionInv(p) /\ \A d \in Calls : Claims(d, p)' => Claims(d, p)
      BY <1>1, <2>1, <2>3 DEF AssistantInv, Claims
    <3> QED BY <2>1, <2>2, <3>1 DEF PortionInv
  <2> QED BY <1>1, <2>1, <2>2, <2>3 DEF AssistantInv, AssistantTypeOK
<1> QED BY <1>2, <1>3

\* The call empties the cart, or may have: all that was in it is of the call's
\* order, or something happened to it.
LEMMA ClearOrders ==
  ASSUME AssistantInv, NEW c \in Calls, ClearAfterOrder(c) \/ ClearFails(c)
  PROVE  AssistantInv'
<1> DEFINE x == [placing[c] EXCEPT !.step = "done"]
<1>1. /\ placing[c].step = "placed" /\ placing' = [placing EXCEPT ![c] = x]
      /\ basket' \in {basket, {}} /\ located' \subseteq Pods
      /\ UNCHANGED <<wanted, returned, touching, home, pending, bought>>
  BY DEF ClearAfterOrder, ClearFails, Goes, Reached, AssistantInv, AssistantTypeOK
<1>2. \/ basket' = {} /\ astray' = astray
      \/ astray' = astray \cup placing[c].items
  BY DEF ClearAfterOrder, ClearFails
<1>3. Holds(c) /\ placing[c].items \subseteq wanted /\ bought[c] = placing[c].items
  BY <1>1 DEF Holds, Reached, AssistantInv, CallInv
<1>4. x \in [step : {"idle", "looking", "posted", "placed", "done"}, items : SUBSET Portions]
  BY DEF AssistantInv, AssistantTypeOK
<1>5. x.step = "done" /\ x.items = placing[c].items
  BY DEF AssistantInv, AssistantTypeOK
<1> HIDE DEF x
<1>6. placing'[c] = x /\ \A d \in Calls : d # c => placing'[d] = placing[d]
  BY <1>1 DEF AssistantInv, AssistantTypeOK
<1>7. AssistantTypeOK'
  BY <1>1, <1>2, <1>3, <1>4 DEF AssistantInv, AssistantTypeOK
<1>8. ASSUME NEW d \in Calls PROVE CallInv(d)'
  BY <1>1, <1>3, <1>5, <1>6 DEF CallInv, AssistantInv
<1>9. ~Holds(c)' /\ \A d \in Calls : d # c => (Holds(d)' <=> Holds(d))
  BY <1>5, <1>6 DEF Holds, Reached
<1>10. ASSUME NEW p \in wanted' \ astray' PROVE PortionInv(p)'
  <2>1. PortionInv(p)
    BY <1>1, <1>2, <1>10 DEF AssistantInv
  <2>2. \A d \in Calls : (Claims(d, p)' <=> Claims(d, p)) /\ placing'[d].items = placing[d].items
    BY <1>1, <1>5, <1>6 DEF Claims
  <2>3. p \in basket => p \in placing[c].items
    BY <1>3, <2>1 DEF PortionInv
  <2>4. p \in basket' => p \notin placing[c].items /\ p \in basket
    BY <1>1, <1>2, <1>10
  <2>5. p \notin basket'
    BY <2>3, <2>4
  <2>6. p \in basket => p \in bought'[c]
    BY <1>1, <1>3, <2>3
  <2>7. p \in returned' \/ \E d \in Calls : p \in bought'[d]
    BY <1>1, <2>1, <2>6 DEF PortionInv
  <2> QED BY <1>1, <2>1, <2>2, <2>5, <2>7 DEF PortionInv
<1> QED BY <1>7, <1>8, <1>10 DEF AssistantInv

LEMMA DeathOrders ==
  ASSUME AssistantInv, NEW p \in Pods, AgentDies(p)
  PROVE  AssistantInv'
<1> DEFINE Struck(c) == home[c] = p /\ ~Reached(c, "idle")
           held == UNION {placing[c].items : c \in {d \in Calls : home[d] = p /\ Holds(d)}}
<1>1. /\ located' = located \ {p} /\ astray' = astray \cup held
      /\ UNCHANGED <<wanted, basket, returned, touching, home, pending, bought>>
  BY DEF AgentDies, cartSide
<1>2. placing' = [c \in Calls |-> IF home[c] # p \/ Reached(c, "idle") THEN placing[c]
                                  ELSE [placing[c] EXCEPT !.step = "done"]]
  BY DEF AgentDies
<1>3. \A c \in Calls : /\ placing'[c].items = placing[c].items
                       /\ placing'[c].step = IF Struck(c) THEN "done" ELSE placing[c].step
                       /\ placing'[c] \in [step : {"idle", "looking", "posted", "placed", "done"},
                                            items : SUBSET Portions]
  BY <1>2 DEF Reached, AssistantInv, AssistantTypeOK
<1>4. held \subseteq wanted
  BY DEF AssistantInv, CallInv
<1>5. AssistantTypeOK'
  BY <1>1, <1>2, <1>3, <1>4 DEF AssistantInv, AssistantTypeOK
<1>6. \A c \in Calls : CallInv(c)'
  BY <1>1, <1>3 DEF AssistantInv, CallInv, Reached
<1>8. \A c \in Calls : Holds(c)' <=> (Holds(c) /\ home[c] # p)
  BY <1>3 DEF Holds, Reached
<1>9. \A q : \A c \in Calls : Holds(c) /\ home[c] = p /\ q \in placing[c].items => q \in held
  OBVIOUS
<1> HIDE DEF held, Struck
<1>7. ASSUME NEW q \in wanted' \ astray' PROVE PortionInv(q)'
  <2>1. PortionInv(q) /\ q \notin held
    BY <1>1, <1>7 DEF AssistantInv
  <2>2. \A c \in Calls : (Claims(c, q)' <=> Claims(c, q)) /\ placing'[c].items = placing[c].items
    BY <1>1, <1>3 DEF Claims
  <2>3. \A c \in Calls : Claims(c, q) /\ ~Holds(c)' => ~Holds(c)
    BY <1>8, <1>9, <2>1 DEF Claims
  <2>4. UNCHANGED <<basket, returned, bought>>
    BY <1>1
  <2> QED BY <1>8, <2>1, <2>2, <2>3, <2>4 DEF PortionInv
<1> QED BY <1>5, <1>6, <1>7 DEF AssistantInv

LEMMA QuietOrders ==
  ASSUME AssistantInv, located' \subseteq Pods,
         UNCHANGED <<wanted, basket, returned, touching, home, placing, pending, bought, astray>>
  PROVE  AssistantInv'
BY DEF AssistantInv, AssistantTypeOK, CallInv, PortionInv, Claims, Holds, Reached

LEMMA NextOrders == AssistantInv /\ HandsInv /\ [AssistantNext]_assistantVars => AssistantInv'
<1> SUFFICES ASSUME AssistantInv, HandsInv, [AssistantNext]_assistantVars PROVE AssistantInv'
  OBVIOUS
<1>1. CASE UNCHANGED assistantVars
  BY <1>1, QuietOrders DEF assistantVars, AssistantInv, AssistantTypeOK
<1>2. CASE \E p \in Pods : Hear(p)
  BY <1>2, QuietOrders DEF Hear, cartSide, AssistantInv, AssistantTypeOK
<1>3. CASE \E h \in Hands : \E p \in Portions : PutIn(h, p) \/ TakeOut(h, p)
  BY <1>3, TouchOrders DEF PutIn, TakeOut, AssistantInv, AssistantTypeOK
<1> QED BY <1>1, <1>2, <1>3, SaveOrders, EmptyOrders, DeathOrders, CallsOrder, PostOrders, MakeOrders,
           RefuseOrders, ClearOrders DEF AssistantNext

\* A request reads the cart.
LEMMA TouchHands ==
  ASSUME AssistantTypeOK, HandsInv, NEW h \in Hands, NEW p \in Portions,
         PutIn(h, p) \/ TakeOut(h, p)
  PROVE  HandsInv'
<1>0. ASSUME NEW c \in SUBSET Portions, Touch(h, c)
      PROVE  wanted' = wanted /\ touching' = [touching EXCEPT ![h] = [read |-> basket, write |-> c]]
  BY <1>0 DEF Touch
<1>1. PICK c \in SUBSET Portions :
        /\ wanted' = wanted
        /\ touching' = [touching EXCEPT ![h] = [read |-> basket, write |-> c]]
        /\ \/ c \ basket = {}
           \/ c \ basket = {p} /\ p \notin wanted /\ \A k \in Hands : p \notin Puts(k)
  <2>1. CASE PutIn(h, p)
    <3> DEFINE c == basket \cup {p}
    <3>1. p \notin basket /\ c \in SUBSET Portions /\ Touch(h, c)
          /\ p \notin wanted /\ \A k \in Hands : p \notin Puts(k)
      BY <2>1 DEF PutIn, AssistantTypeOK
    <3>2. c \ basket = {p}
      BY <3>1
    <3> HIDE DEF c
    <3> QED BY <1>0, <3>1, <3>2
  <2>2. CASE TakeOut(h, p)
    <3> DEFINE c == basket \ {p}
    <3>1. c \in SUBSET Portions /\ Touch(h, c) /\ c \ basket = {}
      BY <2>2 DEF TakeOut, AssistantTypeOK
    <3> HIDE DEF c
    <3> QED BY <1>0, <3>1
  <2> QED BY <2>1, <2>2
<1>2. touching'[h] = [read |-> basket, write |-> c] /\ \A k \in Hands : k # h => touching'[k] = touching[k]
  BY <1>1 DEF AssistantTypeOK
<1>3. touching'[h].read = basket /\ Puts(h)' = c \ basket
  BY <1>2 DEF Puts
<1>4. \A k \in Hands : k # h => touching'[k].read = touching[k].read /\ Puts(k)' = Puts(k)
  BY <1>2 DEF Puts
<1>5. basket \subseteq wanted
  BY DEF AssistantTypeOK
<1> QED BY <1>1, <1>3, <1>4, <1>5 DEF HandsInv

\* A request writes the cart.
LEMMA SaveHands ==
  ASSUME AssistantTypeOK, HandsInv, NEW h \in Hands, SaveCart(h)
  PROVE  HandsInv'
<1>1. /\ touching'[h] = Untouched /\ \A k \in Hands : k # h => touching'[k] = touching[k]
      /\ wanted' = wanted \cup Puts(h)
  BY DEF SaveCart, AssistantTypeOK
<1>2. touching'[h].read = {} /\ Puts(h)' = {}
  BY <1>1 DEF Untouched, Puts
<1>3. \A k \in Hands : k # h => touching'[k].read = touching[k].read /\ Puts(k)' = Puts(k)
  BY <1>1 DEF Puts
<1> QED BY <1>1, <1>2, <1>3 DEF HandsInv

LEMMA NextHands == AssistantTypeOK /\ HandsInv /\ [AssistantNext]_assistantVars => HandsInv'
<1> SUFFICES ASSUME AssistantTypeOK, HandsInv, [AssistantNext]_assistantVars PROVE HandsInv'
  OBVIOUS
<1>1. CASE UNCHANGED <<wanted, touching>>
  BY <1>1 DEF HandsInv, Puts
<1>2. CASE UNCHANGED assistantVars
  BY <1>1, <1>2 DEF assistantVars
<1>3. CASE \E p \in Pods : Hear(p) \/ AgentDies(p)
  BY <1>1, <1>3 DEF Hear, AgentDies, cartSide
<1>4. CASE EmptyCart
  BY <1>1, <1>4 DEF EmptyCart
<1>5. ASSUME NEW c \in Calls,
             \/ CallPlaceOrder(c) \/ PostOrder(c) \/ NothingToOrder(c)
             \/ MakeOrder(c) \/ RefuseOrder(c) \/ ReceiveAnswer(c) \/ AnswerLate(c)
             \/ ClearAfterOrder(c) \/ ClearFails(c)
      PROVE  HandsInv'
  BY <1>1, <1>5 DEF CallPlaceOrder, PostOrder, NothingToOrder, MakeOrder, RefuseOrder, ReceiveAnswer,
                    AnswerLate, ClearAfterOrder, ClearFails, cartSide
<1> QED BY <1>2, <1>3, <1>4, <1>5, TouchHands, SaveHands DEF AssistantNext

\* A portion is in one order at most, is not lost, is not ordered when it was
\* given back, and leaves the cart with its order, for any number of portions,
\* calls, processes and requests that read and write the whole cart, unless it
\* was changed while a call ordered it or overwritten by such a request.
THEOREM WaiterOrdersOnce == AssistantSpec => [](AssistantTypeOK /\ OrderedOnce)
<1>1. AssistantInv => AssistantTypeOK /\ OrderedOnce
  <2> SUFFICES ASSUME AssistantInv, NEW p \in wanted \ astray
               PROVE  LET in == {c \in Calls : p \in bought[c]}
                      IN /\ Cardinality(in) <= 1
                         /\ p \in basket \cup returned \/ in # {}
                         /\ p \in returned => in = {} /\ p \notin basket
                         /\ p \in basket => \A c \in in : Holds(c)
    BY DEF OrderedOnce, AssistantInv
  <2> DEFINE in == {c \in Calls : p \in bought[c]}
  <2>1. PortionInv(p) /\ \A c \in in : Claims(c, p)
    BY DEF AssistantInv, CallInv, Claims
  <2>2. \A c, d \in in : c = d
    BY <2>1 DEF PortionInv
  <2>3. Cardinality(in) <= 1
    <3>1. CASE in = {}
      BY <3>1, FS_EmptySet
    <3>2. CASE in # {}
      <4>1. PICK c \in Calls : in = {c}
        BY <2>2, <3>2
      <4>2. Cardinality({c}) = 1
        BY FS_Singleton
      <4> QED BY <4>1, <4>2
    <3> QED BY <3>1, <3>2
  <2>4. /\ p \in basket \cup returned \/ in # {}
        /\ p \in returned => in = {} /\ p \notin basket
        /\ p \in basket => \A c \in in : Holds(c)
    BY <2>1 DEF PortionInv
  <2> QED BY <2>3, <2>4
<1>2. AssistantInv => AssistantTypeOK
  BY DEF AssistantInv
<1> QED BY <1>1, <1>2, InitOrders, NextOrders, NextHands, PTL DEF AssistantSpec
------------------------------------------------------------------------------
(* What the AI service keeps of others' events *)

\* Unless muddled, every row shows the newest event handled, and nothing newer
\* has been read: an event that is handled again is not older than the rows.
MemoryInv ==
  /\ MemoryTypeOK
  /\ newest > 0 => rows # <<>>
  /\ ~muddled => /\ \A v \in heard : v <= newest
                 /\ \A i \in DOMAIN rows : rows[i] = newest

LEMMA InitMemory == MemoryInit => MemoryInv
<1> SUFFICES ASSUME MemoryInit PROVE MemoryInv
  OBVIOUS
<1>1. said = 0 /\ 0 \in 0..MaxSaid /\ 0 \in 0..0 /\ rows = <<>> /\ <<>> \in Seq(1..said)
  BY MemoryAssumption DEF MemoryInit
<1>2. MemoryTypeOK
  BY <1>1 DEF MemoryInit, MemoryTypeOK
<1> QED BY <1>1, <1>2 DEF MemoryInit, MemoryInv

LEMMA AnnounceKept ==
  ASSUME MemoryInv, Announce
  PROVE  MemoryInv'
<1>1. /\ said \in Nat /\ said' = said + 1 /\ said' \in 0..MaxSaid
      /\ 1..said \subseteq 1..said' /\ 0..said \subseteq 0..said'
  BY MemoryAssumption DEF MemoryInv, MemoryTypeOK, Announce
<1>2. rows \in Seq(1..said')
  BY <1>1 DEF MemoryInv, MemoryTypeOK
<1> QED BY <1>1, <1>2 DEF MemoryInv, MemoryTypeOK, Announce

\* A handler stores its event, does nothing if the rows show it already, or
\* drops it because there is no row.
LEMMA HandlerKept ==
  ASSUME MemoryInv, NEW v \in 1..said, Handler(v)
  PROVE  /\ rows' \in Seq(1..said) /\ newest' \in 0..said /\ muddled' \in BOOLEAN
         /\ newest' > 0 => rows' # <<>>
         /\ ~muddled' => /\ v <= newest'
                         /\ \A w \in heard : w <= newest'
                         /\ \A i \in DOMAIN rows' : rows'[i] = newest'
<1>1. /\ said \in Nat /\ newest \in 0..said /\ muddled \in BOOLEAN
      /\ heard \subseteq 1..said /\ rows \in Seq(1..said) /\ v \in Nat /\ v > 0
  BY DEF MemoryInv, MemoryTypeOK
<1>2. ASSUME Stored(v)
      PROVE  /\ newest' \in 0..said /\ muddled' \in BOOLEAN
             /\ ~muddled' => v = newest' /\ \A w \in heard : w <= newest'
  <2>1. newest' \in 0..said /\ (v >= newest => newest' = v)
    BY <1>1, <1>2 DEF Stored
  <2>2. muddled' \in BOOLEAN
    BY <1>2 DEF Stored
  <2>3. ~muddled' => v = said \/ (~muddled /\ ~(v < newest))
    BY <1>2 DEF Stored
  <2>4. ~muddled => \A w \in heard : w <= newest
    BY DEF MemoryInv
  <2> QED BY <1>1, <2>1, <2>2, <2>3, <2>4
<1>3. CASE Upsert(v)
  <2>1. rows' \in Seq(1..said) /\ rows' # <<>> /\ DOMAIN rows' = {1} /\ rows'[1] = v
    BY <1>3 DEF Upsert
  <2> QED BY <1>2, <1>3, <2>1 DEF Upsert
<1>4. CASE v = 1 /\ Insert(v)
  <2>1. /\ rows' \in Seq(1..said) /\ rows' # <<>>
        /\ \A i \in DOMAIN rows' : rows'[i] = v \/ (i \in DOMAIN rows /\ rows'[i] = rows[i])
    BY <1>1, <1>4 DEF Insert
  <2>2. newest' \in 0..said /\ muddled' \in BOOLEAN
    BY <1>1, <1>4 DEF Insert
  <2>3. ASSUME ~muddled'
        PROVE  /\ v = newest' /\ newest \in {0, 1}
               /\ \A w \in heard : w <= newest'
               /\ \A i \in DOMAIN rows : rows[i] = newest
    <3>1. ~muddled /\ ~(v < newest)
      BY <1>4, <2>3 DEF Insert
    <3>2. (\A w \in heard : w <= newest) /\ \A i \in DOMAIN rows : rows[i] = newest
      BY <3>1 DEF MemoryInv
    <3>3. newest' = IF v > newest THEN v ELSE newest
      BY <1>4 DEF Insert
    <3> QED BY <1>1, <1>4, <3>1, <3>2, <3>3
  <2>4. \A i \in DOMAIN rows : rows[i] # 0
    BY <1>1
  <2>5. ASSUME ~muddled', NEW i \in DOMAIN rows' PROVE rows'[i] = newest'
    <3>1. CASE rows'[i] = v
      BY <2>3, <2>5, <3>1
    <3>2. CASE i \in DOMAIN rows /\ rows'[i] = rows[i]
      <4>1. rows[i] = newest /\ newest \in {0, 1} /\ newest' = v
        BY <2>3, <2>5, <3>2
      <4>2. rows[i] # 0
        BY <2>4, <3>2
      <4> QED BY <1>4, <3>2, <4>1, <4>2
    <3> QED BY <2>1, <2>5, <3>1, <3>2
  <2>6. ~muddled' => v <= newest' /\ \A w \in heard : w <= newest'
    BY <1>1, <2>3
  <2> QED BY <2>1, <2>2, <2>5, <2>6
<1>5. CASE Update(v)
  <2>1. CASE rows = <<>> /\ muddled' = TRUE /\ UNCHANGED <<rows, newest>>
    BY <1>1, <2>1 DEF MemoryInv
  <2>2. ASSUME NEW i \in DOMAIN rows, rows[i] = v, UNCHANGED <<rows, newest, muddled>>
        PROVE  /\ rows' \in Seq(1..said) /\ newest' \in 0..said /\ muddled' \in BOOLEAN
               /\ newest' > 0 => rows' # <<>>
               /\ ~muddled' => /\ v <= newest'
                               /\ \A w \in heard : w <= newest'
                               /\ \A j \in DOMAIN rows' : rows'[j] = newest'
    BY <1>1, <2>2 DEF MemoryInv
  <2>3. ASSUME NEW i \in DOMAIN rows, rows' = [j \in DOMAIN rows |-> v], Stored(v)
        PROVE  /\ rows' \in Seq(1..said) /\ rows' # <<>>
               /\ \A j \in DOMAIN rows' : rows'[j] = v
    <3>1. DOMAIN rows = 1..Len(rows) /\ Len(rows) \in Nat
      BY <1>1
    <3>2. rows' \in Seq(1..said) /\ DOMAIN rows' = DOMAIN rows
      BY <2>3, <3>1
    <3> QED BY <2>3, <3>1, <3>2
  <2>4. CASE Stored(v) /\ \E i \in DOMAIN rows : rows' = [j \in DOMAIN rows |-> v]
    <3>1. rows' \in Seq(1..said) /\ rows' # <<>> /\ \A j \in DOMAIN rows' : rows'[j] = v
      BY <2>3, <2>4
    <3> QED BY <1>1, <1>2, <2>4, <3>1
  <2>5. \/ rows = <<>> /\ muddled' = TRUE /\ UNCHANGED <<rows, newest>>
        \/ \E i \in DOMAIN rows : rows[i] = v /\ UNCHANGED <<rows, newest, muddled>>
        \/ Stored(v) /\ \E i \in DOMAIN rows : rows' = [j \in DOMAIN rows |-> v]
    BY <1>5 DEF Update
  <2> QED BY <2>1, <2>2, <2>4, <2>5
<1> QED BY <1>3, <1>4, <1>5 DEF Handler

LEMMA HearKept ==
  ASSUME MemoryInv, NEW v, HearEvent(v) \/ Overlook(v) \/ Bury(v)
  PROVE  MemoryInv'
<1>1. /\ v \in 1..said /\ heard' = heard \cup {v} /\ UNCHANGED <<about, said, noted>>
      /\ buried' \in {buried, buried \cup {v}}
  BY DEF HearEvent, Overlook, Bury, Unheard
<1>2. CASE HearEvent(v)
  <2>1. Handler(v)
    BY <1>2 DEF HearEvent
  <2>2. /\ rows' \in Seq(1..said) /\ newest' \in 0..said /\ muddled' \in BOOLEAN
        /\ newest' > 0 => rows' # <<>>
        /\ ~muddled' => /\ v <= newest'
                        /\ \A w \in heard : w <= newest'
                        /\ \A i \in DOMAIN rows' : rows'[i] = newest'
    BY <1>1, <2>1, HandlerKept
  <2> QED BY <1>1, <2>2 DEF MemoryInv, MemoryTypeOK
<1>3. CASE Overlook(v) \/ Bury(v)
  <2>1. muddled' = TRUE /\ UNCHANGED <<rows, newest>>
    BY <1>3 DEF Overlook, Bury
  <2> QED BY <1>1, <2>1 DEF MemoryInv, MemoryTypeOK
<1> QED BY <1>2, <1>3

LEMMA ReviveKept ==
  ASSUME MemoryInv, NEW v, Revive(v)
  PROVE  MemoryInv'
<1>1. v \in 1..said /\ buried' \subseteq buried /\ UNCHANGED <<about, said, heard, noted>>
  BY DEF Revive, MemoryInv, MemoryTypeOK
<1>2. CASE Handler(v)
  <2>1. /\ rows' \in Seq(1..said) /\ newest' \in 0..said /\ muddled' \in BOOLEAN
        /\ newest' > 0 => rows' # <<>>
        /\ ~muddled' => /\ \A w \in heard : w <= newest'
                        /\ \A i \in DOMAIN rows' : rows'[i] = newest'
    BY <1>1, <1>2, HandlerKept
  <2> QED BY <1>1, <2>1 DEF MemoryInv, MemoryTypeOK
<1>3. CASE UNCHANGED <<rows, newest, muddled>>
  BY <1>1, <1>3 DEF MemoryInv, MemoryTypeOK
<1> QED BY <1>2, <1>3 DEF Revive

\* A commit, a repeated event or a restart leaves the rows alone.
LEMMA OffsetsKept ==
  ASSUME MemoryInv, UNCHANGED <<about, said, buried, rows, newest, muddled>>,
         heard' \subseteq heard, noted' \subseteq heard'
  PROVE  MemoryInv'
  BY DEF MemoryInv, MemoryTypeOK

LEMMA NextMemory == MemoryInv /\ [MemoryNext]_memoryVars => MemoryInv'
<1> SUFFICES ASSUME MemoryInv, [MemoryNext]_memoryVars PROVE MemoryInv'
  OBVIOUS
<1>1. noted \subseteq heard
  BY DEF MemoryInv, MemoryTypeOK
<1>2. CASE UNCHANGED memoryVars
  BY <1>1, <1>2, OffsetsKept DEF memoryVars
<1>3. CASE ConsumerRestarts
  BY <1>1, <1>3, OffsetsKept DEF ConsumerRestarts
<1>4. ASSUME NEW v, Confirm(v) \/ Repeat(v) PROVE MemoryInv'
  BY <1>1, <1>4, OffsetsKept DEF Confirm, Repeat
<1> QED BY <1>2, <1>3, <1>4, AnnounceKept, HearKept, ReviveKept DEF MemoryNext

\* The rows show the newest event once everything is read, for any number of
\* events and rows, unless one was skipped, dropped or handled late.
THEOREM MemoriesFollow == MemorySpec => [](MemoryTypeOK /\ MemoryFollows)
<1>1. MemoryInv => MemoryTypeOK /\ MemoryFollows
  <2> SUFFICES ASSUME MemoryInv, said > 0, heard = 1..said, ~muddled
               PROVE  rows # <<>> /\ \A i \in DOMAIN rows : rows[i] = said
    BY DEF MemoryInv, MemoryFollows
  <2>1. said \in Nat /\ newest \in 0..said /\ said \in heard
    BY DEF MemoryInv, MemoryTypeOK
  <2>2. newest = said
    BY <2>1 DEF MemoryInv
  <2> QED BY <2>1, <2>2 DEF MemoryInv
<1> QED BY <1>1, InitMemory, NextMemory, PTL DEF MemorySpec
------------------------------------------------------------------------------
(* What the AI waiter tells *)

\* While a guest is talked with, the restaurant's profiles since each process
\* started are among those of the conversation: the process may remember any.
Talking == session # Unasked \/ Answering # {}
TalkInv ==
  /\ TalkTypeOK /\ TalkFollows
  /\ \A w \in Webs : /\ profile["restaurant"] \in lately[w]
                     /\ remembered[w] # Unasked => remembered[w] \in lately[w]
  /\ Talking => /\ \A w \in Webs : lately[w] \subseteq during["restaurant"]
                /\ \A s \in Subjects : profile[s] \in during[s]

LEMMA InitTalk == TalkInit => TalkInv
<1> SUFFICES ASSUME TalkInit PROVE TalkInv
  OBVIOUS
<1>1. /\ 0 \in 0..MaxWrites /\ session = Unasked /\ Answering = {}
      /\ \A m \in Messages : turn[m] = Unasked
  BY TalkAssumption DEF TalkInit, Answering
<1>2. TalkTypeOK
  BY <1>1 DEF TalkInit, TalkTypeOK, Profiles
<1> QED BY <1>1, <1>2 DEF TalkInit, TalkInv, TalkFollows, Talking, Subjects

LEMMA StoreTold ==
  ASSUME TalkInv, NEW s \in Subjects, StoreProfile(s)
  PROVE  TalkInv'
<1> DEFINE x == profile[s] + 1
<1>1. /\ profile \in [Subjects -> 0..MaxWrites] /\ x \in 0..MaxWrites
      /\ during \in [Subjects -> SUBSET (0..MaxWrites)] /\ lately \in [Webs -> SUBSET (0..MaxWrites)]
  BY TalkAssumption DEF TalkInv, TalkTypeOK, Profiles, StoreProfile
<1>2. /\ profile' = [profile EXCEPT ![s] = x] /\ profile'[s] = x
      /\ UNCHANGED <<by, remembered, session, turn>>
  BY <1>1 DEF StoreProfile
<1> HIDE DEF x
<1>3. /\ during' = [during EXCEPT ![s] = @ \cup {x}]
      /\ lately' = IF s = "restaurant" THEN [w \in Webs |-> lately[w] \cup {x}] ELSE lately
  BY <1>2 DEF StoreProfile
<1>4. TalkTypeOK'
  <2>1. profile' \in Profiles
    BY <1>1, <1>2 DEF Profiles
  <2>2. during' \in [Subjects -> SUBSET (0..MaxWrites)] /\ lately' \in [Webs -> SUBSET (0..MaxWrites)]
    BY <1>1, <1>3
  <2> QED BY <1>2, <2>1, <2>2 DEF TalkInv, TalkTypeOK
<1>5. \A u \in Subjects : /\ during[u] \subseteq during'[u]
                          /\ u # s => profile'[u] = profile[u]
  BY <1>1, <1>2, <1>3
<1>6. /\ x \in during'[s]
      /\ \A w \in Webs : /\ s = "restaurant" => x \in lately'[w]
                        /\ lately[w] \subseteq lately'[w]
                        /\ lately'[w] \subseteq IF s = "restaurant" THEN lately[w] \cup {x} ELSE lately[w]
  BY <1>1, <1>3
<1>7. TalkFollows'
  <2> SUFFICES ASSUME NEW p \in {session} \cup {turn[m] : m \in Messages}, p # Unasked,
                      NEW u \in Subjects
               PROVE  p[u] \in during'[u]
    BY <1>2 DEF TalkFollows
  <2>1. p[u] \in during[u]
    BY DEF TalkInv, TalkFollows
  <2> QED BY <1>5, <2>1
<1>8. \A w \in Webs : profile'["restaurant"] \in lately'[w]
  BY <1>2, <1>5, <1>6 DEF TalkInv, Subjects
<1>9. Talking' => /\ \A w \in Webs : lately'[w] \subseteq during'["restaurant"]
                  /\ \A u \in Subjects : profile'[u] \in during'[u]
  <2> SUFFICES ASSUME Talking
               PROVE  /\ \A w \in Webs : lately'[w] \subseteq during'["restaurant"]
                      /\ \A u \in Subjects : profile'[u] \in during'[u]
    BY <1>2 DEF Talking, Answering
  <2>1. ASSUME NEW w \in Webs PROVE lately'[w] \subseteq during'["restaurant"]
    <3>1. lately[w] \subseteq during["restaurant"] /\ "restaurant" \in Subjects
      BY DEF TalkInv, Subjects
    <3>2. CASE s = "restaurant"
      BY <1>5, <1>6, <3>1, <3>2
    <3>3. CASE s # "restaurant"
      BY <1>5, <1>6, <3>1, <3>3
    <3> QED BY <3>2, <3>3
  <2>2. \A u \in Subjects : profile'[u] \in during'[u]
    BY <1>2, <1>5, <1>6 DEF TalkInv
  <2> QED BY <2>1, <2>2
<1>10. \A w \in Webs : remembered'[w] # Unasked => remembered'[w] \in lately'[w]
  BY <1>2, <1>6 DEF TalkInv
<1> QED BY <1>4, <1>7, <1>8, <1>9, <1>10 DEF TalkInv

LEMMA BeginTold ==
  ASSUME TalkInv, NEW m \in Messages, Begin(m)
  PROVE  TalkInv'
<1>0. PICK v, l : v = by[m] /\ l = Lookup(v)
  OBVIOUS
<1>1. PICK p : p = IF Kept THEN session ELSE [restaurant |-> l, user |-> profile["user"]]
  OBVIOUS
<1>2. /\ turn[m] = Unasked /\ turn' = [turn EXCEPT ![m] = p]
      /\ UNCHANGED <<profile, by, session, lately>>
      /\ remembered' = remembered \/ remembered' = [remembered EXCEPT ![v] = l]
  BY <1>0, <1>1 DEF Begin, TakeProfiles
<1>3. TalkTypeOK /\ Subjects = {"restaurant", "user"}
  BY DEF TalkInv, Subjects
<1>4. v \in Webs /\ l \in lately[v] /\ l \in 0..MaxWrites
  <2>1. v \in Webs /\ lately[v] \subseteq 0..MaxWrites
    BY <1>0, <1>3 DEF TalkTypeOK
  <2> QED BY <1>0, <2>1 DEF Lookup, TalkInv
<1>8. /\ remembered' \in [Webs -> (0..MaxWrites) \cup {Unasked}]
      /\ \A w \in Webs : remembered'[w] # Unasked => remembered'[w] \in lately[w]
  <2>1. CASE remembered' = remembered
    BY <1>3, <2>1 DEF TalkInv, TalkTypeOK
  <2>2. CASE remembered' = [remembered EXCEPT ![v] = l]
    BY <1>3, <1>4, <2>2 DEF TalkInv, TalkTypeOK
  <2> QED BY <1>2, <2>1, <2>2
<1>5. p \in Profiles
  <2>1. CASE Kept
    BY <1>1, <1>3, <2>1 DEF Kept, TalkTypeOK
  <2>2. CASE ~Kept
    <3>1. profile["user"] \in 0..MaxWrites
      BY <1>3 DEF TalkTypeOK, Profiles
    <3>2. p = [restaurant |-> l, user |-> profile["user"]]
      BY <1>1, <2>2
    <3>3. p \in [Subjects -> 0..MaxWrites]
      BY <1>3, <1>4, <3>1, <3>2
    <3> QED BY <3>3 DEF Profiles
  <2> QED BY <2>1, <2>2
<1>6. CASE session = Unasked /\ Answering = {}
  <2> DEFINE all == UNION {lately[w] : w \in Webs}
  <2>1. during' = [restaurant |-> all, user |-> {profile["user"]}]
    BY <1>6 DEF Begin
  <2>0. (\A w \in Webs : lately[w] \subseteq all) /\ all \subseteq 0..MaxWrites
    BY <1>3 DEF TalkTypeOK
  <2> HIDE DEF all
  <2>2. /\ DOMAIN during' = Subjects /\ during'["restaurant"] = all
        /\ during'["user"] = {profile["user"]}
    BY <1>3, <2>1
  <2>3. profile["user"] \in 0..MaxWrites
    BY <1>3 DEF TalkTypeOK, Profiles
  <2>4. during' \in [Subjects -> SUBSET (0..MaxWrites)]
    <3> DEFINE R == SUBSET (0..MaxWrites)
               mine == {profile["user"]}
    <3>1. all \in R /\ mine \in R
      BY <2>0, <2>3
    <3>2. during' = [restaurant |-> all, user |-> mine]
      BY <2>1
    <3> HIDE DEF R, mine
    <3>3. during' \in [Subjects -> R]
      BY <1>3, <3>1, <3>2
    <3> QED BY <3>3 DEF R
  <2>5. p["restaurant"] \in all /\ p["user"] = profile["user"] /\ profile["restaurant"] \in all
    <3>1. ~Kept
      BY <1>6 DEF Kept
    <3>2. p = [restaurant |-> l, user |-> profile["user"]]
      BY <1>1, <3>1
    <3>3. l \in all
      BY <1>4, <2>0
    <3>4. profile["restaurant"] \in lately[v]
      BY <1>4 DEF TalkInv
    <3>5. profile["restaurant"] \in all
      BY <1>4, <2>0, <3>4
    <3> QED BY <3>2, <3>3, <3>5
  <2>6. \A s \in Subjects : p[s] \in during'[s] /\ profile[s] \in during'[s]
    BY <1>3, <2>2, <2>5
  <2>7. \A n \in Messages : turn'[n] = IF n = m THEN p ELSE Unasked
    BY <1>2, <1>3, <1>6 DEF TalkTypeOK, Answering
  <2>8. TalkTypeOK'
    BY <1>2, <1>3, <1>5, <1>8, <2>4 DEF TalkTypeOK
  <2>9. TalkFollows'
    BY <1>2, <1>6, <2>6, <2>7 DEF TalkFollows
  <2> QED BY <1>2, <1>8, <2>0, <2>2, <2>6, <2>8, <2>9 DEF TalkInv
<1>7. CASE ~(session = Unasked /\ Answering = {})
  <2>1. during' = during
    BY <1>7 DEF Begin
  <2>2. /\ \A w \in Webs : lately[w] \subseteq during["restaurant"]
        /\ \A s \in Subjects : profile[s] \in during[s]
        /\ TalkFollows
    BY <1>7 DEF TalkInv, Talking
  <2>3. \A s \in Subjects : p[s] \in during[s]
    <3>1. CASE Kept
      BY <1>1, <2>2, <3>1 DEF Kept, TalkFollows
    <3>2. CASE ~Kept
      BY <1>1, <1>3, <1>4, <2>2, <3>2
    <3> QED BY <3>1, <3>2
  <2>4. \A n \in Messages : turn'[n] = p \/ turn'[n] = turn[n]
    BY <1>2, <1>3 DEF TalkTypeOK
  <2>5. TalkTypeOK'
    BY <1>2, <1>3, <1>5, <1>8, <2>1 DEF TalkTypeOK
  <2>6. TalkFollows'
    BY <1>2, <2>1, <2>2, <2>3, <2>4 DEF TalkFollows
  <2> QED BY <1>2, <1>8, <2>1, <2>2, <2>5, <2>6 DEF TalkInv
<1> QED BY <1>6, <1>7

\* A message ends, the session expires, or a process starts again or forgets:
\* nothing new is told, and no new conversation begun.
LEMMA LessTold ==
  ASSUME TalkInv, UNCHANGED <<profile, by, during>>,
         session' \in {session, Unasked} \cup {turn[m] : m \in Messages},
         turn' \in [Messages -> Profiles \cup {Unasked}],
         \A m \in Messages : turn'[m] \in {turn[m], Unasked},
         remembered' \in [Webs -> (0..MaxWrites) \cup {Unasked}],
         \A w \in Webs : /\ remembered'[w] \in {remembered[w], Unasked}
                         /\ \/ lately'[w] = lately[w]
                            \/ remembered'[w] = Unasked /\ lately'[w] = {profile["restaurant"]},
         lately' \in [Webs -> SUBSET (0..MaxWrites)]
  PROVE  TalkInv'
<1>1. /\ TalkTypeOK /\ TalkFollows /\ \A m \in Messages : turn[m] \in Profiles \cup {Unasked}
  BY DEF TalkInv, TalkTypeOK
<1>2. Talking' => Talking
  BY DEF Talking, Answering
<1>3. \A w \in Webs : lately'[w] \subseteq lately[w]
  BY DEF TalkInv
<1>6. \A w \in Webs : /\ profile'["restaurant"] \in lately'[w]
                      /\ remembered'[w] # Unasked => remembered'[w] \in lately'[w]
  BY DEF TalkInv
<1>4. TalkTypeOK'
  BY <1>1 DEF TalkTypeOK
<1>5. TalkFollows'
  BY <1>1 DEF TalkFollows
<1> QED BY <1>2, <1>3, <1>4, <1>5, <1>6 DEF TalkInv

LEMMA NextTalk == TalkInv /\ [TalkNext]_talkVars => TalkInv'
<1> SUFFICES ASSUME TalkInv, [TalkNext]_talkVars PROVE TalkInv'
  OBVIOUS
<1>1. /\ turn \in [Messages -> Profiles \cup {Unasked}]
      /\ remembered \in [Webs -> (0..MaxWrites) \cup {Unasked}]
      /\ lately \in [Webs -> SUBSET (0..MaxWrites)]
  BY DEF TalkInv, TalkTypeOK
<1>2. CASE UNCHANGED talkVars
  BY <1>1, <1>2, LessTold DEF talkVars
<1>3. ASSUME NEW m \in Messages, EndTurn(m) \/ Snag(m) PROVE TalkInv'
  <2>1. /\ turn' = [turn EXCEPT ![m] = Unasked] /\ session' \in {session, turn[m]}
        /\ UNCHANGED <<profile, by, remembered, lately, during>>
    BY <1>3 DEF EndTurn, Snag
  <2>2. /\ turn' \in [Messages -> Profiles \cup {Unasked}]
        /\ \A n \in Messages : turn'[n] \in {turn[n], Unasked}
    BY <1>1, <2>1
  <2> QED BY <1>1, <2>1, <2>2, LessTold
<1>4. CASE SessionExpires
  BY <1>1, <1>4, LessTold DEF SessionExpires
<1>5. ASSUME NEW w \in Webs, WebRestarts(w) \/ ForgetRestaurant(w) PROVE TalkInv'
  <2>1. /\ turn' \in [Messages -> Profiles \cup {Unasked}]
        /\ \A n \in Messages : turn'[n] \in {turn[n], Unasked}
    BY <1>1, <1>5 DEF WebRestarts, ForgetRestaurant
  <2>2. profile["restaurant"] \in 0..MaxWrites
    BY DEF TalkInv, TalkTypeOK, Profiles, Subjects
  <2>3. /\ remembered' = [remembered EXCEPT ![w] = Unasked]
        /\ lately' = lately \/ lately' = [lately EXCEPT ![w] = {profile["restaurant"]}]
        /\ UNCHANGED <<profile, by, session, during>>
    BY <1>5 DEF WebRestarts, ForgetRestaurant
  <2>4. /\ remembered' \in [Webs -> (0..MaxWrites) \cup {Unasked}]
        /\ remembered'[w] = Unasked /\ \A v \in Webs : v # w => remembered'[v] = remembered[v]
    BY <1>1, <2>3
  <2>5. /\ lately' \in [Webs -> SUBSET (0..MaxWrites)]
        /\ \A v \in Webs : lately'[v] = lately[v] \/ (v = w /\ lately'[v] = {profile["restaurant"]})
    BY <1>1, <2>2, <2>3
  <2> QED BY <1>1, <2>1, <2>3, <2>4, <2>5, LessTold
<1> QED BY <1>2, <1>3, <1>4, <1>5, StoreTold, BeginTold DEF TalkNext

\* A guest is told of himself what was stored since the conversation began, and
\* of the restaurant what was since the oldest process then running had started,
\* for any number of messages, processes and writes.
THEOREM TalksFollow == TalkSpec => [](TalkTypeOK /\ TalkFollows)
<1>1. TalkInv => TalkTypeOK /\ TalkFollows
  BY DEF TalkInv
<1> QED BY <1>1, InitTalk, NextTalk, PTL DEF TalkSpec
------------------------------------------------------------------------------
(* What recommendations are made from *)

\* Only views are stored and then dropped; and unless in doubt, not only what is
\* cached is current, but also what lookups have queried and will store.
SignalsInv ==
  /\ SignalsTypeOK
  /\ \A t \in Tellers : teller[t] = "stored" => source = "views"
  /\ ~doubtful /\ (\A t \in Tellers : teller[t] # "stored") =>
       /\ cached \in {current, NoSignal}
       /\ \A r \in Lookups : lookup[r] \in {current, NoSignal}

LEMMA InitSignals == SignalsInit => SignalsInv
<1> SUFFICES ASSUME SignalsInit PROVE SignalsInv
  OBVIOUS
<1>1. /\ current \in 0..MaxChanges /\ cached = NoSignal
      /\ \A r \in Lookups : lookup[r] = NoSignal
      /\ \A t \in Tellers : teller[t] = "idle"
  BY SignalsAssumption DEF SignalsInit
<1> QED BY <1>1 DEF SignalsInit, SignalsInv, SignalsTypeOK

\* A change elsewhere leaves nothing old behind, or makes what is cached doubtful.
LEMMA ElsewhereCurrent ==
  ASSUME SignalsInv, Change,
         doubtful' = (doubtful \/ cached # NoSignal \/ UnderWay),
         teller' \in [Tellers -> {"idle", "stored", "dropped"}],
         \A t \in Tellers : teller'[t] = "stored" => teller[t] = "stored"
  PROVE  SignalsInv'
<1>1. SignalsTypeOK'
  <2>1. /\ current \in Nat /\ current' = current + 1 /\ current < MaxChanges
        /\ source' = source /\ cached' = cached /\ lookup' = lookup
    BY DEF SignalsInv, SignalsTypeOK, Change
  <2>2. /\ 0..current \subseteq 0..current' /\ current' \in 0..MaxChanges
    BY <2>1, SignalsAssumption
  <2>3. doubtful' \in BOOLEAN
    OBVIOUS
  <2> QED BY <2>1, <2>2, <2>3 DEF SignalsInv, SignalsTypeOK
<1>2. ~doubtful' => cached' = NoSignal /\ \A r \in Lookups : lookup'[r] = NoSignal
  BY DEF Change, UnderWay
<1> QED BY <1>1, <1>2 DEF SignalsInv, Change

LEMMA LookUpCurrent ==
  ASSUME SignalsInv, NEW r \in Lookups, LookUp(r) \/ StoreSignal(r)
  PROVE  SignalsInv'
<1>1. /\ current \in Nat /\ current \in 0..current
      /\ lookup \in [Lookups -> (0..current) \cup {NoSignal}]
  BY DEF SignalsInv, SignalsTypeOK
<1>2. CASE LookUp(r)
  <2>1. PICK v \in 0..current : /\ lookup' = [lookup EXCEPT ![r] = v]
                                /\ doubtful' = (doubtful \/ v # current)
    BY <1>1, <1>2 DEF LookUp
  <2>2. /\ lookup' \in [Lookups -> (0..current) \cup {NoSignal}]
        /\ \A q \in Lookups : lookup'[q] \in {lookup[q], v}
    BY <1>1, <2>1
  <2>3. doubtful' \in BOOLEAN /\ UNCHANGED <<source, current, cached, teller>>
    BY <1>2, <2>1 DEF LookUp
  <2>4. ~doubtful' => ~doubtful /\ v = current
    BY <2>1
  <2> QED BY <2>2, <2>3, <2>4 DEF SignalsInv, SignalsTypeOK
<1>3. CASE StoreSignal(r)
  <2>1. lookup' \in [Lookups -> (0..current) \cup {NoSignal}]
    BY <1>1, <1>3 DEF StoreSignal
  <2>2. \A q \in Lookups : lookup'[q] \in {lookup[q], NoSignal}
    BY <1>1, <1>3 DEF StoreSignal
  <2> QED BY <1>1, <1>3, <2>1, <2>2 DEF StoreSignal, SignalsInv, SignalsTypeOK
<1> QED BY <1>2, <1>3

\* A request drops what is cached: only lookups under way can still be old.
LEMMA DropCurrent ==
  ASSUME SignalsInv, cached' = NoSignal, UNCHANGED <<source, current, lookup>>,
         doubtful' \in BOOLEAN, ~doubtful' => ~UnderWay \/ (~doubtful /\ teller' = teller),
         teller' \in [Tellers -> {"idle", "stored", "dropped"}],
         \A t \in Tellers : teller'[t] = "stored" => teller[t] = "stored"
  PROVE  SignalsInv'
<1>1. SignalsTypeOK'
  BY DEF SignalsInv, SignalsTypeOK
<1>2. ASSUME ~doubtful', \A t \in Tellers : teller'[t] # "stored"
      PROVE  \A r \in Lookups : lookup'[r] \in {current', NoSignal}
  BY <1>2 DEF SignalsInv, UnderWay
<1> QED BY <1>1, <1>2 DEF SignalsInv

\* A request that stored a view, or is to change the cart.
LEMMA TellerCurrent ==
  ASSUME SignalsInv, NEW t \in Tellers,
         \/ StoreView(t) \/ DropHistory(t) \/ DropFails(t)
         \/ InvalidateCart(t) \/ ChangeCart(t) \/ CartCallFails(t)
  PROVE  SignalsInv'
<1> DEFINE Marks == [Tellers -> {"idle", "stored", "dropped"}]
<1>1. /\ teller \in Marks /\ doubtful \in BOOLEAN
      /\ current \in Nat /\ current \in 0..MaxChanges
  BY DEF SignalsInv, SignalsTypeOK
<1>2. \A x \in {"idle", "stored", "dropped"} :
        teller' = [teller EXCEPT ![t] = x] =>
          /\ teller' \in Marks /\ teller'[t] = x
          /\ \A u \in Tellers : u # t => teller'[u] = teller[u]
  BY <1>1
<1> HIDE DEF Marks
<1>3. CASE StoreView(t)
  <2>1. teller' \in Marks /\ teller'[t] = "stored" /\ source' = "views"
    BY <1>2, <1>3 DEF StoreView, Change
  <2>2. /\ current' \in 0..MaxChanges /\ 0..current \subseteq 0..current'
        /\ cached' = cached /\ lookup' = lookup
    BY <1>1, <1>3, SignalsAssumption DEF StoreView, Change
  <2>3. SignalsTypeOK'
    BY <1>3, <2>1, <2>2 DEF StoreView, SignalsInv, SignalsTypeOK, Sources, Marks
  <2> QED BY <2>1, <2>3 DEF SignalsInv
<1>4. CASE DropHistory(t)
  <2>1. /\ teller' \in Marks /\ doubtful' \in BOOLEAN
        /\ \A u \in Tellers : teller'[u] = "stored" => teller[u] = "stored"
    BY <1>1, <1>2, <1>4 DEF DropHistory, UnderWay
  <2> QED BY <1>4, <2>1, DropCurrent DEF DropHistory, Marks
<1>5. CASE DropFails(t)
  BY <1>2, <1>5 DEF DropFails, SignalsInv, SignalsTypeOK, Marks
<1>6. CASE InvalidateCart(t)
  <2>1. /\ teller' \in Marks /\ teller'[t] = "dropped"
        /\ \A u \in Tellers : u # t => teller'[u] = teller[u]
    BY <1>2, <1>6 DEF InvalidateCart
  <2>2. \A u \in Tellers : teller[u] # "stored" /\ teller'[u] # "stored"
    BY <1>6, <2>1 DEF InvalidateCart, SignalsInv
  <2>3. cached' = NoSignal \/ (cached' = cached /\ doubtful' = doubtful)
    BY <1>6 DEF InvalidateCart
  <2>4. doubtful' \in BOOLEAN /\ (~doubtful' => ~doubtful \/ ~UnderWay)
    BY <1>1, <1>6 DEF InvalidateCart
  <2>5. SignalsTypeOK'
    BY <1>6, <2>1, <2>3, <2>4 DEF InvalidateCart, SignalsInv, SignalsTypeOK, Marks
  <2>6. doubtful /\ cached # NoSignal /\ cached' = cached => doubtful' = TRUE
    BY <1>1, <1>6, <2>3 DEF InvalidateCart
  <2>7. ASSUME ~doubtful'
        PROVE  /\ cached' \in {current, NoSignal}
               /\ \A r \in Lookups : lookup[r] \in {current, NoSignal}
    <3>1. CASE ~doubtful
      BY <2>2, <2>3, <3>1 DEF SignalsInv
    <3>2. CASE doubtful
      BY <1>6, <2>4, <2>7, <3>2 DEF InvalidateCart, UnderWay
    <3> QED BY <3>1, <3>2
  <2> QED BY <1>6, <2>2, <2>5, <2>7 DEF InvalidateCart, SignalsInv
<1>7. CASE ChangeCart(t)
  <2>1. /\ teller' \in Marks
        /\ \A u \in Tellers : teller'[u] = "stored" => teller[u] = "stored"
    BY <1>2, <1>7 DEF ChangeCart
  <2> QED BY <1>7, <2>1, ElsewhereCurrent DEF ChangeCart, Marks
<1>8. CASE CartCallFails(t)
  <2>1. /\ teller' \in Marks /\ teller'[t] = "idle" /\ teller[t] = "dropped"
        /\ \A u \in Tellers : u # t => teller'[u] = teller[u]
    BY <1>2, <1>8 DEF CartCallFails
  <2>2. \A u \in Tellers : teller'[u] = "stored" <=> teller[u] = "stored"
    BY <2>1
  <2> QED BY <1>8, <2>1, <2>2 DEF CartCallFails, SignalsInv, SignalsTypeOK, Marks
<1> QED BY <1>3, <1>4, <1>5, <1>6, <1>7, <1>8

LEMMA NextSignals == SignalsInv /\ [SignalsNext]_signalVars => SignalsInv'
<1> SUFFICES ASSUME SignalsInv, [SignalsNext]_signalVars PROVE SignalsInv'
  OBVIOUS
<1>1. CASE UNCHANGED signalVars
  BY <1>1 DEF signalVars, SignalsInv, SignalsTypeOK
<1>2. CASE ExpireSignal
  <2>1. /\ cached' = NoSignal /\ UNCHANGED <<source, current, lookup, teller>>
        /\ doubtful' = (doubtful /\ UnderWay)
    BY <1>2 DEF ExpireSignal
  <2>2. teller \in [Tellers -> {"idle", "stored", "dropped"}] /\ doubtful \in BOOLEAN
    BY DEF SignalsInv, SignalsTypeOK
  <2> QED BY <2>1, <2>2, DropCurrent DEF UnderWay
<1>3. CASE ChangeElsewhere
  <2>1. /\ Change /\ teller' = teller
        /\ doubtful' = (doubtful \/ cached # NoSignal \/ UnderWay)
    BY <1>3 DEF ChangeElsewhere
  <2>2. teller \in [Tellers -> {"idle", "stored", "dropped"}]
    BY DEF SignalsInv, SignalsTypeOK
  <2> QED BY <2>1, <2>2, ElsewhereCurrent
<1> QED BY <1>1, <1>2, <1>3, LookUpCurrent, TellerCurrent DEF SignalsNext

\* What recommendations are made from is what the source holds, for any number
\* of lookups and requests, unless in doubt.
THEOREM SignalsAreCurrent == SignalsSpec => [](SignalsTypeOK /\ SignalsFollow)
<1>1. SignalsInv => SignalsTypeOK /\ SignalsFollow
  BY DEF SignalsInv, SignalsFollow
<1> QED BY <1>1, InitSignals, NextSignals, PTL DEF SignalsSpec
------------------------------------------------------------------------------
(* All of it *)

\* A behaviour of the ten parts is one of each of them.
LEMMA PartsRun ==
  Spec => /\ CartSpec /\ ListsSpec /\ ReviewsSpec /\ NotifySpec /\ DevicesSpec
          /\ AssistantSpec /\ MemorySpec /\ TalkSpec /\ SignalsSpec /\ CheckoutSpec
<1> DEFINE all == <<part, cartVars, listsVars, reviewVars, notifyVars, deviceVars,
                    assistantVars, memoryVars, talkVars, signalVars, checkoutVars>>
<1>1. Init => /\ CartInit /\ ListsInit /\ ReviewsInit /\ NotifyInit /\ DevicesInit
              /\ AssistantInit /\ MemoryInit /\ TalkInit /\ SignalsInit /\ CheckoutInit
  BY DEF Init
<1>2. [Next]_all => [CartNext]_cartVars
  BY DEF Next, Others
<1>3. [Next]_all => [ListsNext]_listsVars
  BY DEF Next, Others
<1>4. [Next]_all => [ReviewsNext]_reviewVars
  BY DEF Next, Others
<1>5. [Next]_all => [NotifyNext]_notifyVars
  BY DEF Next, Others
<1>6. [Next]_all => [DevicesNext]_deviceVars
  BY DEF Next, Others
<1>7. [Next]_all => [AssistantNext]_assistantVars
  BY DEF Next, Others
<1>8. [Next]_all => [MemoryNext]_memoryVars
  BY DEF Next, Others
<1>9. [Next]_all => [TalkNext]_talkVars
  BY DEF Next, Others
<1>10. [Next]_all => [SignalsNext]_signalVars
  BY DEF Next, Others
<1>11. [Next]_all => [CheckoutNext]_checkoutVars
  BY DEF Next, Others
<1> QED BY <1>1, <1>2, <1>3, <1>4, <1>5, <1>6, <1>7, <1>8, <1>9, <1>10, <1>11, PTL
        DEF Spec, CartSpec, ListsSpec, ReviewsSpec, NotifySpec, DevicesSpec,
            AssistantSpec, MemorySpec, TalkSpec, SignalsSpec, CheckoutSpec

LEMMA PartKnown ==
  Spec => [](part \in {"cart", "lists", "reviews", "notifications", "devices",
                       "assistant", "memory", "talk", "signals", "checkout"})
<1> DEFINE Parts == {"cart", "lists", "reviews", "notifications", "devices",
                     "assistant", "memory", "talk", "signals", "checkout"}
<1>1. Init => part \in Parts
  BY DEF Init
<1>2. part \in Parts /\ [Next]_<<part, cartVars, listsVars, reviewVars, notifyVars, deviceVars,
                                assistantVars, memoryVars, talkVars, signalVars, checkoutVars>>
        => (part \in Parts)'
  BY DEF Next
<1> QED BY <1>1, <1>2, PTL DEF Spec

\* Whatever the ten parts do, their variables have their types.
THEOREM StorefrontTyped == Spec => []TypeOK
<1>1. /\ part \in {"cart", "lists", "reviews", "notifications", "devices",
                   "assistant", "memory", "talk", "signals", "checkout"}
      /\ CartTypeOK /\ ListsTypeOK /\ ReviewsTypeOK /\ NotifyTypeOK /\ DevicesTypeOK
      /\ AssistantTypeOK /\ MemoryTypeOK /\ TalkTypeOK /\ SignalsTypeOK /\ CheckoutTypeOK
      => TypeOK
  BY DEF TypeOK
<1> QED BY <1>1, PartsRun, PartKnown, CartTypes, ListsTypes, RatingsFollow, EventsNotifyOnce,
           DevicesAreRight, WaiterOrdersOnce, MemoriesFollow, TalksFollow, SignalsAreCurrent,
           CheckoutTypes, PTL

\* What the AI service stores, what the AI waiter tells and what recommendations
\* are made from follow what was announced, stored and done, for any number of
\* events, messages, lookups and requests.
THEOREM AnswersDoFollow == Spec => []AnswersFollow
<1>1. MemoryFollows /\ TalkFollows /\ SignalsFollow => AnswersFollow
  BY DEF AnswersFollow
<1> QED BY <1>1, PartsRun, MemoriesFollow, TalksFollow, SignalsAreCurrent, PTL

\* The theorems about the parts hold where the parts are put together: carts,
\* lists, ratings, notifications, devices, orders, payments and bills.
THEOREM StorefrontKeeps ==
  Spec => /\ CartIsAtomic
          /\ [](/\ ListsCurrent /\ RatingsAgree /\ NotifiedOnce /\ DevicesFollow
                /\ OrderedOnce /\ PaymentsKept /\ BillsAgree)
  BY PartsRun, CartsAreAtomic, ListsAreCurrent, RatingsFollow, EventsNotifyOnce, DevicesAreRight,
     WaiterOrdersOnce, PaymentsAreKept, BillsAreRight, PTL
==============================================================================
