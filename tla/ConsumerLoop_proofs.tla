------------------------- MODULE ConsumerLoop_proofs -------------------------
(* A consumer loop of either style gives up no message that is not settled,  *)
(* but for those its three mishaps expose: it implements AtLeastOnce.        *)
EXTENDS ConsumerLoop, TLAPS

Settled == handled \cup parked \cup exposed

\* The message comes again after the one that is being processed.
Later(m) ==
  \/ \E i \in DOMAIN log : i > next /\ log[i].m = m
  \/ \E i \in DOMAIN buffer : buffer[i].m = m

\* The loop is past this entry and has not committed it.
Passed(i) == offset < i /\ (i < next \/ (at = "poll" /\ i = next))

\* What lies between the offset and the loop was passed over; what the loop is
\* about to commit is settled or comes again; and only settled messages are
\* gone.
LoopInv ==
  /\ TypeOK
  /\ at # "poll" => offset < next
  /\ \A i \in DOMAIN log : Passed(i) => log[i].m \in Settled
  /\ at = "settle" => This.m \in Settled \/ Later(This.m)
  /\ Gone \subseteq Settled

\* What a produced message changes in a sequence.
LEMMA AppendEntry ==
  ASSUME NEW s \in Seq(Entry), NEW e \in Entry
  PROVE  /\ Append(s, e) \in Seq(Entry)
         /\ Len(Append(s, e)) = Len(s) + 1
         /\ DOMAIN Append(s, e) = 1..(Len(s) + 1)
         /\ Append(s, e)[Len(s) + 1] = e
         /\ \A i \in DOMAIN s : Append(s, e)[i] = s[i]
  OBVIOUS

\* What sending the first message leaves in the buffer.
LEMMA TailEntry ==
  ASSUME NEW s \in Seq(Entry), s # <<>>
  PROVE  /\ Head(s) \in Entry /\ Tail(s) \in Seq(Entry)
         /\ \A m : (\E i \in DOMAIN s : s[i].m = m) <=>
                   (Head(s).m = m \/ \E i \in DOMAIN Tail(s) : Tail(s)[i].m = m)
<1>1. Head(s) \in Entry /\ Tail(s) \in Seq(Entry) /\ Len(s) \in Nat \ {0}
  OBVIOUS
<1>2. Head(s) = s[1] /\ DOMAIN s = 1..Len(s)
  OBVIOUS
<1>3. DOMAIN Tail(s) = 1..(Len(s) - 1) /\ \A i \in 1..(Len(s) - 1) : Tail(s)[i] = s[i + 1]
  OBVIOUS
<1>4. \A i \in 2..Len(s) : i - 1 \in DOMAIN Tail(s) /\ Tail(s)[i - 1] = s[i]
  BY <1>1, <1>3
<1>5. ASSUME NEW m, NEW i \in DOMAIN s, s[i].m = m
      PROVE  Head(s).m = m \/ \E j \in DOMAIN Tail(s) : Tail(s)[j].m = m
  <2>1. i = 1 \/ i \in 2..Len(s)
    BY <1>1, <1>2, <1>5
  <2> QED BY <1>2, <1>4, <1>5, <2>1
<1>6. ASSUME NEW m, Head(s).m = m \/ \E j \in DOMAIN Tail(s) : Tail(s)[j].m = m
      PROVE  \E i \in DOMAIN s : s[i].m = m
  BY <1>1, <1>2, <1>3, <1>6
<1> QED BY <1>1, <1>5, <1>6
------------------------------------------------------------------------------
\* A log that only grows, by an entry of a message that is pending or new,
\* gives up nothing.
LEMMA LogGrows ==
  ASSUME LoopInv, NEW e \in Entry, log' = Append(log, e), offset' = offset,
         \A m \in Messages : m # e.m =>
           ((\E i \in DOMAIN buffer' : buffer'[i].m = m) <=>
            (\E i \in DOMAIN buffer : buffer[i].m = m))
  PROVE  /\ Published' = Published \cup {e.m}
         /\ Pending(e.m)'
         /\ \A m \in Messages : m # e.m => (Pending(m)' <=> Pending(m))
<1>1. /\ log \in Seq(Entry) /\ Len(log) \in Nat /\ offset \in Nat /\ offset <= Len(log)
      /\ DOMAIN log = 1..Len(log)
  BY DEF LoopInv, TypeOK
<1>2. /\ DOMAIN log' = 1..(Len(log) + 1) /\ log'[Len(log) + 1] = e
      /\ \A i \in DOMAIN log : log'[i] = log[i]
  BY <1>1, AppendEntry
<1>3. Published' = Published \cup {e.m}
  BY <1>1, <1>2 DEF Published
<1>4. Pending(e.m)'
  <2>1. Len(log) + 1 \in DOMAIN log' /\ Len(log) + 1 > offset'
    BY <1>1, <1>2
  <2> QED BY <1>2, <2>1 DEF Pending
<1>5. ASSUME NEW m \in Messages, m # e.m PROVE Pending(m)' <=> Pending(m)
  <2>1. (\E i \in DOMAIN log' : i > offset' /\ log'[i].m = m) <=>
        (\E i \in DOMAIN log : i > offset /\ log[i].m = m)
    BY <1>1, <1>2, <1>5
  <2> QED BY <1>5, <2>1 DEF Pending
<1> QED BY <1>3, <1>4, <1>5

\* While the log, the offset and the buffer stay, so does what is gone.
LEMMA GoneStays ==
  ASSUME UNCHANGED <<log, offset, buffer>>
  PROVE  Gone' = Gone
  BY DEF Gone, Published, Pending

LEMMA PublishedTyped == TypeOK => Published \subseteq Messages
<1> SUFFICES ASSUME TypeOK, NEW i \in DOMAIN log PROVE log[i].m \in Messages
  BY DEF Published
<1>1. log[i] \in Entry
  BY DEF TypeOK
<1> QED BY <1>1 DEF Entry

\* While a message is processed or about to be committed, it is pending.
LEMMA ThisPending ==
  ASSUME LoopInv, at # "poll"
  PROVE  /\ next \in DOMAIN log /\ This \in Entry /\ This.m \in Messages
         /\ This.m \in Published /\ Pending(This.m) /\ next > offset
<1>1. next \in DOMAIN log /\ next > offset
  BY DEF LoopInv, TypeOK
<1>2. This \in Entry
  BY <1>1 DEF LoopInv, TypeOK, This
<1> QED BY <1>1, <1>2 DEF This, Entry, Published, Pending

\* While the log, the offset and the buffer stay, and nothing is unsettled, the
\* parts of LoopInv about the loop's position are what a step has to keep.
LEMMA QuietStep ==
  ASSUME LoopInv, UNCHANGED <<log, offset, buffer>>, TypeOK',
         (at # "poll" => offset < next)',
         (\A i \in DOMAIN log : Passed(i) => log[i].m \in Settled)',
         (at = "settle" => This.m \in Settled \/ Later(This.m))',
         Settled \subseteq Settled'
  PROVE  LoopInv' /\ [Contract!Next]_<<Settled, Gone>>
<1>1. Gone' = Gone
  BY GoneStays
<1>2. (Gone \subseteq Settled)'
  BY <1>1 DEF LoopInv
<1>3. Settled' \subseteq Messages
  BY DEF TypeOK, Settled
<1> QED BY <1>1, <1>2, <1>3 DEF LoopInv, Contract!Next, Settled

\* The same of a step that only adds to the log, or to the buffer, an entry of
\* a message that is new or pending.
LEMMA GrowingStep ==
  ASSUME LoopInv, TypeOK', UNCHANGED <<offset, next, Settled, Gone>>,
         DOMAIN log \subseteq DOMAIN log', \A i \in DOMAIN log : log'[i] = log[i],
         at' = at \/ (at = "work" /\ at' = "settle"),
         (at = "settle" => This.m \in Settled \/ Later(This.m))'
  PROVE  LoopInv' /\ [Contract!Next]_<<Settled, Gone>>
<1>1. (at # "poll" => offset < next)'
  BY DEF LoopInv
<1>2. (\A i \in DOMAIN log : Passed(i) => log[i].m \in Settled)'
  <2> SUFFICES ASSUME NEW i \in DOMAIN log', Passed(i)' PROVE log'[i].m \in Settled'
    OBVIOUS
  <2>1. i \in DOMAIN log /\ Passed(i)
    BY DEF Passed, LoopInv, TypeOK
  <2> QED BY <2>1 DEF LoopInv
<1>3. (Gone \subseteq Settled)'
  BY DEF LoopInv
<1> QED BY <1>1, <1>2, <1>3 DEF LoopInv

\* Every step keeps LoopInv and is a step of AtLeastOnce.
LEMMA LoopStep ==
  ASSUME LoopInv, [Next]_vars
  PROVE  LoopInv' /\ [Contract!Next]_<<Settled, Gone>>
<1> USE LoopAssumption
<1>t. /\ log \in Seq(Entry) /\ buffer \in Seq(Entry)
      /\ Len(log) \in Nat /\ DOMAIN log = 1..Len(log)
      /\ offset \in Nat /\ next \in Nat /\ offset <= next /\ next <= Len(log)
      /\ Gone \subseteq Published /\ Published \subseteq Messages
  BY PublishedTyped DEF LoopInv, TypeOK, Gone
<1>1. ASSUME NEW m \in Messages, Publish(m)
      PROVE  LoopInv' /\ [Contract!Next]_<<Settled, Gone>>
  <2> DEFINE e == [m |-> m, retry |-> 0]
  <2>1. e \in Entry /\ e.m = m
    BY DEF Entry
  <2>2. log' = Append(log, e)
    BY <1>1 DEF Publish
  <2>3. /\ Len(log') = Len(log) + 1 /\ DOMAIN log' = 1..(Len(log) + 1)
        /\ log' \in Seq(Entry) /\ \A i \in DOMAIN log : log'[i] = log[i]
    BY <1>t, <2>1, <2>2, AppendEntry
  <2>4. /\ Published' = Published \cup {e.m} /\ Pending(e.m)'
        /\ \A x \in Messages : x # e.m => (Pending(x)' <=> Pending(x))
    BY <1>1, <2>1, <2>2, LogGrows DEF Publish
  <2>5. Gone' = Gone
    BY <1>1, <1>t, <2>1, <2>4 DEF Publish, Gone
  <2>6. TypeOK'
    BY <1>1, <1>t, <2>3 DEF Publish, LoopInv, TypeOK
  <2>7. UNCHANGED <<offset, next, at, buffer, Settled>>
    BY <1>1 DEF Publish, Settled
  <2>8. (at = "settle" => This.m \in Settled \/ Later(This.m))'
    <3> SUFFICES ASSUME at = "settle" PROVE (This.m \in Settled \/ Later(This.m))'
      BY <2>7
    <3>1. This' = This
      BY <2>3, <2>7, ThisPending DEF This
    <3>2. ASSUME Later(This.m) PROVE Later(This.m)'
      BY <1>t, <2>3, <2>7, <3>1, <3>2 DEF Later
    <3> QED BY <2>7, <3>1, <3>2 DEF LoopInv
  <2> QED BY <1>t, <2>3, <2>5, <2>6, <2>7, <2>8, GrowingStep
<1>2. CASE Poll
  <2>1. /\ at = "poll" /\ next' = next + 1 /\ at' = "work"
        /\ UNCHANGED <<log, offset, buffer, Settled>> /\ TypeOK'
    BY <1>2, <1>t DEF Poll, LoopInv, TypeOK, Settled
  <2>2. (at # "poll" => offset < next)'
    BY <1>t, <2>1
  <2>3. (\A i \in DOMAIN log : Passed(i) => log[i].m \in Settled)'
    BY <1>t, <2>1 DEF LoopInv, Passed
  <2> QED BY <2>1, <2>2, <2>3, QuietStep
<1>3. CASE Handle \/ FailForGood \/ Exhausted
  <2>1. at = "work" /\ (Handle \/ Park)
    BY <1>3 DEF Handle, FailForGood, Exhausted
  <2>2. /\ UNCHANGED <<style, log, offset, next, buffer, deaths>>
        /\ at' = "settle" /\ This' = This
    BY <2>1 DEF Handle, Park, This
  <2>3. This.m \in Messages /\ Settled' = Settled \cup {This.m}
    BY <2>1, ThisPending DEF Handle, Park, Settled
  <2>4. TypeOK'
    BY <2>1, <2>2, <2>3 DEF Handle, Park, LoopInv, TypeOK
  <2>5. (\A i \in DOMAIN log : Passed(i) => log[i].m \in Settled)'
    BY <1>t, <2>1, <2>2, <2>3 DEF LoopInv, Passed
  <2>6. (at # "poll" => offset < next)'
    BY <2>1, <2>2 DEF LoopInv
  <2> QED BY <2>2, <2>3, <2>4, <2>5, <2>6, QuietStep
<1>4. CASE Skip
  <2>1. /\ at = "work" /\ at' = "poll"
        /\ UNCHANGED <<style, log, offset, next, buffer, deaths, handled, parked>>
    BY <1>4 DEF Skip
  <2>2. This.m \in Messages /\ Settled' = Settled \cup {This.m}
    BY <1>4, <2>1, ThisPending DEF Skip, Settled
  <2>3. TypeOK'
    BY <1>4, <2>1, <2>2 DEF Skip, LoopInv, TypeOK
  <2>4. (\A i \in DOMAIN log : Passed(i) => log[i].m \in Settled)'
    BY <1>t, <2>1, <2>2 DEF LoopInv, Passed, This
  <2> QED BY <2>1, <2>2, <2>3, <2>4, QuietStep
<1>5. CASE Requeue
  <2> DEFINE e == [This EXCEPT !.retry = @ + 1]
  <2>1. This \in Entry /\ This.m \in Published /\ Pending(This.m)
    BY <1>5, ThisPending DEF Requeue
  <2>2. e \in Entry /\ e.m = This.m
    BY <1>5, <2>1 DEF Requeue, Entry
  <2>3. /\ buffer' = Append(buffer, e) /\ at = "work" /\ at' = "settle"
        /\ UNCHANGED <<log, offset, next, handled, parked, exposed, deaths>>
    BY <1>5 DEF Requeue
  <2> HIDE DEF e
  <2>4. /\ buffer' \in Seq(Entry) /\ Len(buffer) \in Nat /\ DOMAIN buffer' = 1..(Len(buffer) + 1)
        /\ DOMAIN buffer = 1..Len(buffer)
        /\ buffer'[Len(buffer) + 1] = e
        /\ \A i \in DOMAIN buffer : buffer'[i] = buffer[i]
    BY <1>t, <2>2, <2>3, AppendEntry
  <2>5. Published' = Published
    BY <2>3 DEF Published
  <2>6. \A x : Pending(x)' <=> Pending(x) \/ x = This.m
    BY <2>2, <2>3, <2>4 DEF Pending
  <2>7. Gone' = Gone
    BY <2>1, <2>5, <2>6 DEF Gone
  <2>8. TypeOK'
    BY <1>5, <2>3, <2>4 DEF Requeue, LoopInv, TypeOK
  <2>9. (at = "settle" => This.m \in Settled \/ Later(This.m))'
    BY <2>2, <2>3, <2>4 DEF Later, This
  <2>10. UNCHANGED <<offset, next, log, Settled>>
    BY <2>3 DEF Settled
  <2> QED BY <2>3, <2>7, <2>8, <2>9, <2>10, GrowingStep
<1>6. CASE Commit
  <2>1. /\ at = "settle" /\ at' = "poll" /\ offset' = next
        /\ UNCHANGED <<style, log, next, buffer, handled, parked, exposed, deaths>>
    BY <1>6 DEF Commit
  <2>2. next > offset /\ next \in DOMAIN log /\ This.m \in Messages
    BY <2>1, ThisPending
  <2>3. Published' = Published /\ Settled' = Settled
    BY <2>1 DEF Published, Settled
  <2>4. \A x : Pending(x)' <=> Later(x)
    BY <2>1 DEF Pending, Later
  <2>5. \A x : Later(x) => Pending(x)
    BY <1>t, <2>2 DEF Pending, Later
  <2>6. ASSUME NEW x, Pending(x), ~Later(x) PROVE x \in Settled
    <3>1. PICK i \in DOMAIN log : i > offset /\ log[i].m = x /\ i <= next
      BY <1>t, <2>6 DEF Pending, Later
    <3>2. CASE i = next
      BY <2>1, <2>6, <3>1, <3>2 DEF LoopInv, This
    <3>3. CASE i < next
      BY <3>1, <3>3 DEF LoopInv, Passed
    <3> QED BY <1>t, <3>1, <3>2, <3>3
  <2>7. Gone \subseteq Gone' /\ Gone' \subseteq Settled
    BY <2>3, <2>4, <2>5, <2>6 DEF Gone, LoopInv
  <2>8. TypeOK' /\ Settled' \subseteq Messages
    BY <1>t, <2>1 DEF LoopInv, TypeOK, Settled
  <2>9. LoopInv'
    BY <1>t, <2>1, <2>3, <2>7, <2>8 DEF LoopInv, Passed
  <2> QED BY <2>3, <2>7, <2>8, <2>9 DEF Contract!Next, Settled
<1>7. CASE Deliver
  <2>h. /\ buffer # <<>> /\ Head(buffer) \in Entry /\ Tail(buffer) \in Seq(Entry)
        /\ \A m : (\E i \in DOMAIN buffer : buffer[i].m = m) <=>
                  (Head(buffer).m = m \/ \E i \in DOMAIN Tail(buffer) : Tail(buffer)[i].m = m)
    BY <1>7, <1>t, TailEntry DEF Deliver
  <2> PICK e \in Entry : e = Head(buffer)
    BY <2>h
  <2>1. /\ buffer # <<>> /\ log' = Append(log, e) /\ buffer' = Tail(buffer)
        /\ UNCHANGED <<style, offset, next, at, handled, parked, exposed, deaths>>
    BY <1>7 DEF Deliver
  <2>2. /\ e \in Entry /\ Tail(buffer) \in Seq(Entry)
        /\ \A m : (\E i \in DOMAIN buffer : buffer[i].m = m) <=>
                  (e.m = m \/ \E i \in DOMAIN Tail(buffer) : Tail(buffer)[i].m = m)
    BY <2>h
  <2>3. /\ Len(log') = Len(log) + 1 /\ DOMAIN log' = 1..(Len(log) + 1)
        /\ log' \in Seq(Entry) /\ log'[Len(log) + 1] = e
        /\ \A i \in DOMAIN log : log'[i] = log[i]
    BY <1>t, <2>1, <2>2, AppendEntry
  <2>4. \A m \in Messages : m # e.m =>
           ((\E i \in DOMAIN buffer' : buffer'[i].m = m) <=>
            (\E i \in DOMAIN buffer : buffer[i].m = m))
    BY <2>1, <2>2
  <2>5. /\ Published' = Published \cup {e.m} /\ Pending(e.m)'
        /\ \A x \in Messages : x # e.m => (Pending(x)' <=> Pending(x))
    BY <2>1, <2>2, <2>4, LogGrows
  <2>6. Pending(e.m)
    BY <2>2 DEF Pending
  <2>7. Gone' = Gone
    BY <1>t, <2>5, <2>6 DEF Gone
  <2>8. TypeOK'
    BY <1>t, <2>1, <2>2, <2>3 DEF LoopInv, TypeOK
  <2>9. (at = "settle" => This.m \in Settled \/ Later(This.m))'
    <3> SUFFICES ASSUME at = "settle" PROVE (This.m \in Settled \/ Later(This.m))'
      BY <2>1
    <3>1. This' = This /\ Settled' = Settled
      BY <2>1, <2>3, ThisPending DEF This, Settled
    <3>2. ASSUME Later(This.m) PROVE Later(This.m)'
      <4>1. CASE \E i \in DOMAIN log : i > next /\ log[i].m = This.m
        BY <1>t, <2>1, <2>3, <3>1, <4>1 DEF Later
      <4>2. CASE \E i \in DOMAIN buffer : buffer[i].m = This.m
        <5>1. Len(log) + 1 \in DOMAIN log' /\ Len(log) + 1 > next'
          BY <1>t, <2>1, <2>3
        <5> QED BY <2>1, <2>2, <2>3, <3>1, <4>2, <5>1 DEF Later
      <4> QED BY <3>2, <4>1, <4>2 DEF Later
    <3> QED BY <3>1, <3>2 DEF LoopInv
  <2>10. UNCHANGED <<offset, next, at, Settled>>
    BY <2>1 DEF Settled
  <2> QED BY <1>t, <2>3, <2>7, <2>8, <2>9, <2>10, GrowingStep
<1>8. CASE Crash
  <2> DEFINE Dying == {buffer[i].m : i \in DOMAIN buffer}
  <2>1. /\ at' = "poll" /\ next' = offset /\ buffer' = <<>> /\ exposed' = exposed \cup Dying
        /\ deaths < MaxDeaths /\ deaths' = deaths + 1
        /\ UNCHANGED <<style, log, offset, handled, parked>>
    BY <1>8 DEF Crash
  <2>2. Dying \subseteq Messages
    <3> SUFFICES ASSUME NEW i \in DOMAIN buffer PROVE buffer[i].m \in Messages
      OBVIOUS
    <3>1. buffer[i] \in Entry
      BY <1>t
    <3> QED BY <3>1 DEF Entry
  <2>3. TypeOK'
    BY <1>t, <2>1, <2>2 DEF LoopInv, TypeOK
  <2>4. Published' = Published /\ Settled' = Settled \cup Dying
    BY <2>1 DEF Published, Settled
  <2>5. \A x : Pending(x)' => Pending(x)
    BY <2>1 DEF Pending
  <2>6. \A x : Pending(x) => Pending(x)' \/ x \in Dying
    BY <2>1 DEF Pending
  <2>7. Gone \subseteq Gone' /\ Gone' \subseteq Settled'
    BY <2>4, <2>5, <2>6 DEF Gone, LoopInv
  <2>8. (\A i \in DOMAIN log : Passed(i) => log[i].m \in Settled)'
    BY <1>t, <2>1 DEF Passed
  <2>9. Settled' \subseteq Messages
    BY <2>3 DEF TypeOK, Settled
  <2> QED BY <2>1, <2>3, <2>4, <2>7, <2>8, <2>9 DEF LoopInv, Contract!Next, Settled
<1>9. CASE UNCHANGED vars
  <2>1. UNCHANGED <<log, offset, buffer, next, at, Settled>> /\ TypeOK' /\ UNCHANGED This
    BY <1>9 DEF vars, LoopInv, TypeOK, This, Settled
  <2>2. \A x : Later(x)' <=> Later(x)
    BY <1>9 DEF vars, Later
  <2>3. \A i : Passed(i)' <=> Passed(i)
    BY <1>9 DEF vars, Passed
  <2> QED BY <2>1, <2>2, <2>3, QuietStep DEF LoopInv
<1> QED
  BY <1>1, <1>2, <1>3, <1>4, <1>5, <1>6, <1>7, <1>8, <1>9 DEF Next, Work
------------------------------------------------------------------------------
\* A consumer loop of either style, wherever its process dies and however its
\* messages fail, gives up a message only when it had its effect, or is in the
\* dead letter queue, or was exposed by one of the three mishaps.
THEOREM LoopsDeliver == Spec => DeliversAtLeastOnce
<1>1. Init => LoopInv /\ Contract!Init
  <2> SUFFICES ASSUME Init PROVE LoopInv /\ Contract!Init
    OBVIOUS
  <2>1. Published = {} /\ Gone = {} /\ Settled = {}
    BY DEF Init, Published, Gone, Settled
  <2>2. \A i \in DOMAIN log : FALSE
    BY DEF Init
  <2> QED BY <2>1, <2>2, LoopAssumption DEF Init, LoopInv, TypeOK, Contract!Init, Settled
<1>2. LoopInv /\ [Next]_vars => LoopInv' /\ [Contract!Next]_<<Settled, Gone>>
  BY LoopStep
<1> QED
  BY <1>1, <1>2, PTL DEF Spec, DeliversAtLeastOnce, Contract!Spec, Settled
=============================================================================
