----------------------------- MODULE AtLeastOnce -----------------------------
(* What the consumers of this system promise about the messages of their     *)
(* topics: none is given up that is not settled, that is, that did not have  *)
(* its effect and was not put into a dead letter queue.                      *)
CONSTANT Messages

VARIABLES
  settled,  \* messages that had their effect or are in the dead letter queue
  gone      \* messages that will not be delivered any more

Init == settled = {} /\ gone = {}

\* Messages are settled, perhaps not for the first time, and messages that are
\* settled by now are given up.
Next ==
  /\ settled \subseteq settled' /\ settled' \subseteq Messages
  /\ gone \subseteq gone' /\ gone' \subseteq settled'

Spec == Init /\ [][Next]_<<settled, gone>>
=============================================================================
