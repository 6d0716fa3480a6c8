---------------------------- MODULE MCStorefront ----------------------------
(* What guests see, for TLC: carts, cached lists of dishes, reviews,         *)
(* notifications, the devices they are pushed to, the AI waiter with what it *)
(* knows and remembers, and the bill.  The parts share no state: a behaviour *)
(* is of one of them, and the states add up instead of multiplying.          *)
EXTENDS Cart, DishLists, DishReviews, Notifications, Devices,
        Assistant, AssistantMemory, AssistantTalk, Signals, Checkout, TLC

VARIABLE part

\* A dish that is discounted, and one whose original price is the lower one.
MCOffers == {[price |-> 2, original |-> 1], [price |-> 1, original |-> 3]}
\* The agent's views take any quantity.
MCQuantities == {0, 1}

AnOffer == CHOOSE o \in Offers : TRUE
AKind == CHOOSE k \in [Events -> DOMAIN Plan] : TRUE
AnEvent == CHOOSE e \in Events : TRUE
APod == CHOOSE p \in Pods : TRUE
AWeb == CHOOSE w \in Webs : TRUE

\* The variables of all parts but one do not change.
Others(p) ==
  /\ p = "cart" \/ UNCHANGED cartVars
  /\ p = "lists" \/ UNCHANGED listsVars
  /\ p = "reviews" \/ UNCHANGED reviewVars
  /\ p = "notifications" \/ UNCHANGED notifyVars
  /\ p = "devices" \/ UNCHANGED deviceVars
  /\ p = "assistant" \/ UNCHANGED assistantVars
  /\ p = "memory" \/ UNCHANGED memoryVars
  /\ p = "talk" \/ UNCHANGED talkVars
  /\ p = "signals" \/ UNCHANGED signalVars
  /\ p = "checkout" \/ UNCHANGED checkoutVars

Init ==
  /\ CartInit /\ ListsInit /\ ReviewsInit /\ NotifyInit /\ DevicesInit
  /\ AssistantInit /\ MemoryInit /\ TalkInit /\ SignalsInit /\ CheckoutInit
  /\ part \in {"cart", "lists", "reviews", "notifications", "devices",
              "assistant", "memory", "talk", "signals", "checkout"}
  /\ part # "cart" => offer = [f \in Foods |-> AnOffer]
  /\ part # "notifications" => kind = AKind
  /\ inbox[1].event = AnEvent  \* events differ by nothing but their kind
  /\ part # "assistant" => home = [c \in Calls |-> APod]
  /\ part # "talk" => by = [m \in Messages |-> AWeb]
  /\ part # "memory" => about = "profile"
  /\ part # "signals" => source = "menu"

Next ==
  /\ UNCHANGED part
  /\ \/ part = "cart" /\ CartNext
     \/ part = "lists" /\ ListsNext
     \/ part = "reviews" /\ ReviewsNext
     \/ part = "notifications" /\ NotifyNext
     \/ part = "devices" /\ DevicesNext
     \/ part = "assistant" /\ AssistantNext
     \/ part = "memory" /\ MemoryNext
     \/ part = "talk" /\ TalkNext
     \/ part = "signals" /\ SignalsNext
     \/ part = "checkout" /\ CheckoutNext
  /\ Others(part)

Spec == Init /\ [][Next]_<<part, cartVars, listsVars, reviewVars, notifyVars, deviceVars,
                          assistantVars, memoryVars, talkVars, signalVars, checkoutVars>>

\* Types of the modules' variables.
TypeOK ==
  CASE part = "cart" -> CartTypeOK
    [] part = "lists" -> ListsTypeOK
    [] part = "reviews" -> ReviewsTypeOK
    [] part = "notifications" -> NotifyTypeOK
    [] part = "devices" -> DevicesTypeOK
    [] part = "assistant" -> AssistantTypeOK
    [] part = "memory" -> MemoryTypeOK
    [] part = "talk" -> TalkTypeOK
    [] part = "signals" -> SignalsTypeOK
    [] part = "checkout" -> CheckoutTypeOK

\* What the AI service stores follows what is announced, what the AI waiter
\* tells follows what is stored, and what recommendations are made from follows
\* the guest: MemoryFollows, TalkFollows and SignalsFollow.
AnswersFollow == MemoryFollows /\ TalkFollows /\ SignalsFollow

\* The .cfg gives sets that play no role together the same values, so that few
\* permutations are to be tried.
Sym == Permutations(Servers) \cup Permutations(Editors) \cup Permutations(Foods)
=============================================================================
