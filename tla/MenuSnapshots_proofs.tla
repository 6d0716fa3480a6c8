------------------------ MODULE MenuSnapshots_proofs ------------------------
(* What every number of writers, replicas and dishes preserves: the types,   *)
(* and that in the end the snapshots agree with the menu.                    *)
EXTENDS MenuSnapshots, SequenceTheorems, TLAPS

\* An event that is appended to or taken from a topic keeps it typed.
LEMMA TailTyped ==
  ASSUME NEW S, NEW s \in Seq(S), s # <<>>
  PROVE  Head(s) \in S /\ Tail(s) \in Seq(S)
  OBVIOUS

LEMMA AppendTyped ==
  ASSUME NEW S, NEW s \in Seq(S), NEW e \in S
  PROVE  Append(s, e) \in Seq(S)
  OBVIOUS

\* What is in a topic after an event is appended, or its first one taken.
In(s, f) == \E i \in 1..Len(s) : s[i] = f

LEMMA AppendIn ==
  ASSUME NEW S, NEW s \in Seq(S), NEW e \in S, NEW f
  PROVE  In(Append(s, e), f) <=> f = e \/ In(s, f)
<1>1. /\ Len(Append(s, e)) = Len(s) + 1 /\ Append(s, e)[Len(s) + 1] = e /\ Len(s) \in Nat
      /\ \A i \in 1..Len(s) : Append(s, e)[i] = s[i]
  BY AppendProperties
<1> QED BY <1>1 DEF In

LEMMA TailIn ==
  ASSUME NEW S, NEW s \in Seq(S), s # <<>>, NEW f
  PROVE  In(s, f) <=> f = Head(s) \/ In(Tail(s), f)
<1>1. /\ Head(s) = s[1] /\ Len(s) \in Nat \ {0}
      /\ Tail(s) \in Seq(S) /\ Len(Tail(s)) = Len(s) - 1
      /\ \A i \in 1..Len(Tail(s)) : Tail(s)[i] = s[i + 1]
  BY HeadTailProperties, LenProperties, EmptySeq
<1>2. In(s, f) => f = Head(s) \/ In(Tail(s), f)
  <2> SUFFICES ASSUME NEW i \in 1..Len(s), s[i] = f, f # Head(s)
               PROVE  In(Tail(s), f)
    BY DEF In
  <2>1. i - 1 \in 1..Len(Tail(s)) /\ Tail(s)[i - 1] = s[i]
    BY <1>1
  <2> QED BY <2>1 DEF In
<1>3. In(Tail(s), f) => In(s, f)
  <2> SUFFICES ASSUME NEW i \in 1..Len(Tail(s)), Tail(s)[i] = f PROVE In(s, f)
    BY DEF In
  <2>1. i + 1 \in 1..Len(s) /\ s[i + 1] = f
    BY <1>1
  <2> QED BY <2>1 DEF In
<1>4. In(s, Head(s))
  BY <1>1 DEF In
<1> QED BY <1>2, <1>3, <1>4

LEMMA EventTyped ==
  ASSUME NEW e \in Event
  PROVE  /\ e.kind \in Kinds /\ e.kind \in Topics /\ e \in EventOn(e.kind)
         /\ e.d \in Dishes /\ e.version \in Nat
         /\ e.content \in (IF e.kind = "deleted" THEN {NoVal} ELSE Contents)
<1>1. PICK k \in Kinds : e \in EventOn(k)
  BY DEF Event
<1>2. /\ e.kind = k /\ e.d \in Dishes /\ e.version \in Nat
      /\ e.content \in (IF k = "deleted" THEN {NoVal} ELSE Contents)
  BY <1>1 DEF EventOn
<1> QED BY <1>1, <1>2 DEF Topics

\* Publishing an event appends it to its topic of every replica.
LEMMA PublishTyped ==
  ASSUME TypeOK, NEW e \in Event, Publish(e)
  PROVE  /\ log' \in [Replicas -> [Topics -> Seq(Event)]]
         /\ \A r \in Replicas, u \in Topics :
              log'[r][u] = IF u = e.kind THEN Append(log[r][u], e) ELSE log[r][u]
<1>1. e.kind \in Topics
  BY EventTyped
<1>2. \A r \in Replicas, u \in Topics :
        log'[r][u] = IF u = e.kind THEN Append(log[r][u], e) ELSE log[r][u]
  BY <1>1 DEF Publish, TypeOK
<1>3. ASSUME NEW r \in Replicas, NEW u \in Topics
      PROVE  log'[r][u] \in Seq(Event)
  <2>1. log[r][u] \in Seq(Event)
    BY DEF TypeOK
  <2> QED BY <2>1, <1>2, AppendTyped
<1>4. log' = [r \in Replicas |-> [u \in Topics |-> log'[r][u]]]
  BY DEF Publish, TypeOK
<1> QED BY <1>2, <1>3, <1>4

\* What a handler writes: nothing, the event, or that the dish is removed; what
\* it writes over something no newer is noted.
LEMMA PutDoes ==
  ASSUME TypeOK, NEW r \in Replicas, NEW e \in Event, Put(r, e)
  PROVE  /\ snap' \in [Replicas -> [Dishes -> Snapshot \cup {NoVal}]]
         /\ mishaps' \in [Dishes -> SUBSET Mishaps]
         /\ \A q \in Replicas, b \in Dishes : q # r \/ b # e.d => snap'[q][b] = snap[q][b]
         /\ \A b \in Dishes : mishaps'[b] = mishaps[b] \/ (b = e.d /\ mishaps'[b] = mishaps[b] \cup {r})
         /\ r \notin mishaps'[e.d] =>
              /\ Fresh(r, e)
              /\ \/ /\ e.kind # "deleted" /\ snap'[r][e.d] # NoVal
                    /\ snap'[r][e.d].version = e.version
                    /\ snap'[r][e.d].content = e.content /\ snap'[r][e.d].removed = FALSE
                 \/ /\ e.kind = "deleted" /\ snap[r][e.d] # NoVal /\ snap'[r][e.d] # NoVal
                    /\ snap'[r][e.d].version = e.version /\ snap'[r][e.d].removed = TRUE
<1>1. /\ e.d \in Dishes /\ e.version \in Nat
      /\ e.content \in (IF e.kind = "deleted" THEN {NoVal} ELSE Contents)
  BY EventTyped
<1>2. PICK d \in Dishes : d = e.d
  BY <1>1
<1>3. PICK old \in Snapshot \cup {NoVal} : old = snap[r][d]
  BY DEF TypeOK
<1>4. PICK lost \in BOOLEAN : lost = (e.kind = "deleted" /\ old = NoVal)
  OBVIOUS
<1>5. PICK new : new = IF e.kind = "deleted" THEN Removed(old, e) ELSE Upserted(e)
  OBVIOUS
<1>6. PICK late \in BOOLEAN : late = ~Fresh(r, e)
  OBVIOUS
<1>7. /\ snap' = IF lost THEN snap ELSE [snap EXCEPT ![r][d] = new]
      /\ mishaps' = [mishaps EXCEPT ![d] = IF lost \/ late THEN @ \cup {r} ELSE @]
  BY <1>2, <1>3, <1>4, <1>5, <1>6 DEF Put
<1>8. ~lost => /\ new \in Snapshot /\ new # NoVal /\ new.version = e.version
               /\ new.removed = (e.kind = "deleted")
               /\ e.kind # "deleted" => new.content = e.content
  <2> SUFFICES ASSUME ~lost
               PROVE  /\ new \in Snapshot /\ new.version = e.version
                      /\ new.removed = (e.kind = "deleted")
                      /\ e.kind # "deleted" => new.content = e.content
    BY NoValIsNoRow
  <2>1. CASE e.kind = "deleted"
    <3>1. old \in Snapshot
      BY <1>4, <2>1
    <3> QED BY <1>1, <1>5, <2>1, <3>1 DEF Removed, Snapshot
  <2>2. CASE e.kind # "deleted"
    BY <1>1, <1>5, <2>2 DEF Upserted, Snapshot
  <2> QED BY <2>1, <2>2
<1>9. /\ snap' \in [Replicas -> [Dishes -> Snapshot \cup {NoVal}]]
      /\ \A q \in Replicas, b \in Dishes :
           snap'[q][b] = IF q = r /\ b = d /\ ~lost THEN new ELSE snap[q][b]
  BY <1>7, <1>8 DEF TypeOK
<1>10. /\ mishaps' \in [Dishes -> SUBSET Mishaps]
       /\ \A b \in Dishes : mishaps'[b] = IF b = d /\ (lost \/ late) THEN mishaps[b] \cup {r} ELSE mishaps[b]
  BY <1>7 DEF TypeOK, Mishaps
<1>11. ASSUME r \notin mishaps'[d]
       PROVE  /\ Fresh(r, e) /\ ~lost
  BY <1>6, <1>10, <1>11
<1>12. ASSUME r \notin mishaps'[d]
       PROVE  \/ /\ e.kind # "deleted" /\ snap'[r][d] # NoVal
                 /\ snap'[r][d].version = e.version
                 /\ snap'[r][d].content = e.content /\ snap'[r][d].removed = FALSE
              \/ /\ e.kind = "deleted" /\ snap[r][d] # NoVal /\ snap'[r][d] # NoVal
                 /\ snap'[r][d].version = e.version /\ snap'[r][d].removed = TRUE
  <2>1. snap'[r][d] = new /\ ~lost
    BY <1>9, <1>11, <1>12
  <2>2. CASE e.kind = "deleted"
    <3>1. snap[r][d] # NoVal
      BY <1>3, <1>4, <2>1, <2>2
    <3> QED BY <1>8, <2>1, <2>2, <3>1
  <2>3. CASE e.kind # "deleted"
    BY <1>8, <2>1, <2>3
  <2> QED BY <2>2, <2>3
<1> QED BY <1>2, <1>9, <1>10, <1>11, <1>12
------------------------------------------------------------------------------
\* The types are inductive, and a held event is there.
HeldOK == \A r \in Replicas : \A t \in held[r] : log[r][t] # <<>>

LEMMA TypeStep == TypeOK /\ HeldOK /\ [Next]_vars => TypeOK' /\ HeldOK'
<1> SUFFICES ASSUME TypeOK, HeldOK, [Next]_vars PROVE TypeOK' /\ HeldOK'
  OBVIOUS
<1> USE MenuAssumption, NoValIsNoRow
<1>0. ASSUME NEW e \in Event, Publish(e), held' = held PROVE HeldOK'
  <2>1. ASSUME NEW r \in Replicas, NEW t \in Topics, log[r][t] # <<>> PROVE log'[r][t] # <<>>
    <3>1. log[r][t] \in Seq(Event)
      BY DEF TypeOK
    <3>2. Append(log[r][t], e) # <<>>
      BY <3>1
    <3> QED BY <1>0, <2>1, <3>2, PublishTyped
  <2> QED BY <1>0, <2>1 DEF HeldOK, TypeOK
<1>00. ASSUME UNCHANGED <<log, held>> PROVE HeldOK'
  BY <1>00 DEF HeldOK
<1>1. ASSUME NEW d \in Dishes, NEW c \in Contents, Create(d, c) PROVE TypeOK' /\ HeldOK'
  <2>1. dish' \in [Dishes -> Row]
    BY <1>1 DEF Create, TypeOK, Row
  <2>2. PICK e : e = [kind |-> "created", d |-> d, version |-> 1, content |-> c]
    OBVIOUS
  <2>3. CASE Publish(e)
    <3>1. e \in Event
      BY <2>2 DEF Event, EventOn, Kinds
    <3>2. log' \in [Replicas -> [Topics -> Seq(Event)]]
      BY <2>3, <3>1, PublishTyped
    <3> QED BY <1>0, <1>1, <2>1, <2>3, <3>1, <3>2 DEF Create, TypeOK, replicaSide
  <2>4. CASE UNCHANGED log
    BY <1>00, <1>1, <2>1, <2>4 DEF Create, TypeOK, replicaSide
  <2> QED BY <1>1, <2>2, <2>3, <2>4 DEF Create
<1>2. ASSUME NEW w \in Writers, NEW op \in Requested, NEW d \in Dishes,
             NEW c \in Contents \cup {NoVal}, Begin(w, op, d, c)
      PROVE  TypeOK' /\ HeldOK'
  <2> DEFINE e == [op |-> op, step |-> "read", d |-> d, version |-> dish[d].version, content |-> c]
  <2>1. dish[d].version \in Nat
    BY DEF TypeOK, Row
  <2>2. e \in Edit
    BY <1>2, <2>1 DEF Begin, Edit, EditBy, Requested
  <2>3. writer' \in [Writers -> Edit \cup {NoVal}]
    BY <1>2, <2>2 DEF Begin, TypeOK
  <2>4. mishaps' \in [Dishes -> SUBSET Mishaps]
    BY <1>2 DEF Begin, Crowd, TypeOK, Mishaps
  <2> QED BY <1>00, <1>2, <2>3, <2>4 DEF Begin, TypeOK, replicaSide
<1>3. ASSUME NEW w \in Writers, Number(w) PROVE TypeOK' /\ HeldOK'
  <2> DEFINE e == writer[w]
             v == IF dish[e.d].stage = "live" THEN dish[e.d].version + 1 ELSE 1
  <2>1. e \in Edit /\ e.op \in {"update", "review"}
    BY <1>3 DEF Number, TypeOK
  <2>2. v \in Nat
    BY <2>1 DEF TypeOK, Row, Edit, EditBy
  <2>3. [e EXCEPT !.step = "numbered", !.version = v] \in Edit
    <3> HIDE DEF v
    <3> QED BY <2>1, <2>2 DEF Edit, EditBy
  <2>4. writer' = [writer EXCEPT ![w] = [e EXCEPT !.step = "numbered", !.version = v]]
    BY <1>3 DEF Number
  <2>5. writer' \in [Writers -> Edit \cup {NoVal}]
    <3> HIDE DEF v
    <3> QED BY <2>3, <2>4 DEF TypeOK
  <2> QED BY <1>00, <1>3, <2>5 DEF Number, TypeOK, replicaSide
<1>4. ASSUME NEW w \in Writers, Save(w) PROVE TypeOK' /\ HeldOK'
  <2>1. writer[w] \in EditBy("update", {"read", "numbered", "saved"}, Contents)
    BY <1>4 DEF Save, TypeOK, Edit, EditBy
  <2>2. dish' \in [Dishes -> Row]
    <3> DEFINE row == [stage |-> "live", version |-> writer[w].version,
                       content |-> writer[w].content]
    <3>1. row \in Row
      BY <2>1 DEF EditBy, Row
    <3>2. dish' = [dish EXCEPT ![writer[w].d] = row]
      BY <1>4 DEF Save
    <3> HIDE DEF row
    <3> QED BY <3>1, <3>2 DEF TypeOK
  <2>3. [writer[w] EXCEPT !.step = "saved"] \in Edit
    BY <2>1 DEF Edit, EditBy
  <2>4. writer' \in [Writers -> Edit \cup {NoVal}]
    BY <1>4, <2>3 DEF Save, TypeOK
  <2> QED BY <1>00, <1>4, <2>2, <2>4 DEF Save, TypeOK, replicaSide
<1>5. ASSUME NEW w \in Writers, Rate(w) PROVE TypeOK' /\ HeldOK'
  <2>1. writer[w] \in Edit
    BY <1>5 DEF Rate, TypeOK
  <2>2. writer[w].d \in Dishes /\ writer[w].version \in Nat
    BY <2>1 DEF Edit, EditBy
  <2>3. dish' \in [Dishes -> Row]
    <3>1. dish[writer[w].d] \in Row
      BY <2>2 DEF TypeOK
    <3> DEFINE row == [dish[writer[w].d] EXCEPT !.version = writer[w].version]
    <3>2. row \in Row
      BY <2>2, <3>1 DEF Row
    <3>3. dish' = [dish EXCEPT ![writer[w].d] = row] \/ dish' = dish
      BY <1>5 DEF Rate
    <3> HIDE DEF row
    <3> QED BY <3>2, <3>3 DEF TypeOK
  <2> QED BY <1>00, <1>5, <2>3 DEF Rate, TypeOK, replicaSide
<1>6. ASSUME NEW w \in Writers, Delete(w) PROVE TypeOK' /\ HeldOK'
  <2>1. writer[w] \in EditBy("delete", {"read", "saved"}, {NoVal})
    BY <1>6 DEF Delete, TypeOK, Edit, EditBy
  <2>2. dish' \in [Dishes -> Row]
    <3>1. writer[w].d \in Dishes
      BY <2>1 DEF EditBy
    <3>2. dish[writer[w].d] \in Row
      BY <3>1 DEF TypeOK
    <3>3. [dish[writer[w].d] EXCEPT !.stage = "gone"] \in Row
      BY <3>2 DEF Row
    <3>4. dish' = [dish EXCEPT ![writer[w].d] =
                     [dish[writer[w].d] EXCEPT !.stage = "gone"]]
      BY <1>6 DEF Delete
    <3> QED BY <3>3, <3>4 DEF TypeOK
  <2>3. [writer[w] EXCEPT !.step = "saved"] \in Edit
    BY <2>1 DEF Edit, EditBy
  <2>4. writer' \in [Writers -> Edit \cup {NoVal}]
    BY <1>6, <2>3 DEF Delete, TypeOK
  <2> QED BY <1>00, <1>6, <2>2, <2>4 DEF Delete, TypeOK, replicaSide
<1>7. ASSUME NEW w \in Writers, Announce(w) PROVE TypeOK' /\ HeldOK'
  <2>1. writer[w] \in Edit /\ writer[w].step = "saved"
    BY <1>7 DEF Announce, TypeOK
  <2>2. PICK e : e = [kind |-> IF writer[w].op = "delete" THEN "deleted" ELSE "updated",
                      d |-> writer[w].d, version |-> writer[w].version,
                      content |-> writer[w].content]
    OBVIOUS
  <2>3. e \in Event
    BY <2>1, <2>2 DEF Edit, EditBy, Event, EventOn, Kinds
  <2>4. Publish(e)
    BY <1>7, <2>2 DEF Announce
  <2>5. log' \in [Replicas -> [Topics -> Seq(Event)]]
    BY <2>3, <2>4, PublishTyped
  <2>6. writer' \in [Writers -> Edit \cup {NoVal}]
    BY <1>7 DEF Announce, TypeOK
  <2> QED BY <1>0, <1>7, <2>3, <2>4, <2>5, <2>6 DEF Announce, TypeOK, replicaSide
<1>8. ASSUME NEW w \in Writers, SaveFails(w) PROVE TypeOK' /\ HeldOK'
  <2>1. writer' \in [Writers -> Edit \cup {NoVal}]
    BY <1>8 DEF SaveFails, TypeOK
  <2> QED BY <1>00, <1>8, <2>1 DEF SaveFails, TypeOK, replicaSide
<1>9. ASSUME NEW d \in Dishes, DropCategory(d) PROVE TypeOK' /\ HeldOK'
  <2>1. dish' \in [Dishes -> Row]
    BY <1>9 DEF DropCategory, TypeOK, Row
  <2>2. mishaps' \in [Dishes -> SUBSET Mishaps]
    BY <1>9 DEF DropCategory, Crowd, TypeOK, Mishaps
  <2> QED BY <1>00, <1>9, <2>1, <2>2 DEF DropCategory, TypeOK, replicaSide
<1>10. ASSUME NEW r \in Replicas, NEW t \in Topics,
              Look(r, t) \/ Skip(r, t) \/ Write(r, t) \/ ConsumerDies(r, t) \/ Refuse(r, t)
       PROVE  TypeOK' /\ HeldOK'
  <2>1. log[r][t] \in Seq(Event) /\ log[r][t] # <<>>
    BY <1>10 DEF TypeOK, HeldOK, Look, Skip, Write, ConsumerDies, Refuse
  <2>2. Head(log[r][t]) \in Event /\ Tail(log[r][t]) \in Seq(Event)
    BY <2>1, TailTyped
  <2>3. Look(r, t) \/ ConsumerDies(r, t) =>
          held' \in [Replicas -> SUBSET Topics] /\ HeldOK'
    <3> SUFFICES ASSUME Look(r, t) \/ ConsumerDies(r, t)
                 PROVE  held' \in [Replicas -> SUBSET Topics] /\ HeldOK'
      OBVIOUS
    <3>1. log' = log /\ (held' = [held EXCEPT ![r] = @ \cup {t}] \/ held' = [held EXCEPT ![r] = @ \ {t}])
      BY DEF Look, ConsumerDies, menuSide
    <3>2. held' \in [Replicas -> SUBSET Topics]
      <4>1. CASE held' = [held EXCEPT ![r] = @ \cup {t}]
        BY <4>1 DEF TypeOK
      <4>2. CASE held' = [held EXCEPT ![r] = @ \ {t}]
        BY <4>2 DEF TypeOK
      <4> QED BY <3>1, <4>1, <4>2
    <3>3. \A q \in Replicas : \A u \in held'[q] : u \in held[q] \/ (q = r /\ u = t)
      BY <3>1 DEF TypeOK
    <3>4. HeldOK'
      <4>1. ASSUME NEW q \in Replicas, NEW u \in held'[q] PROVE log[q][u] # <<>>
        <5>1. CASE u \in held[q]
          BY <5>1 DEF HeldOK
        <5> QED BY <2>1, <3>3, <5>1
      <4> QED BY <3>1, <4>1 DEF HeldOK
    <3> QED BY <3>2, <3>4
  <2>4. \A q \in Replicas : \A u \in held[q] : u \in Topics
    BY DEF TypeOK
  <2>5. CASE Look(r, t)
    BY <2>3, <2>5 DEF Look, TypeOK, menuSide
  <2>6. CASE Skip(r, t)
    <3>1. \A q \in Replicas, u \in Topics :
            log'[q][u] = IF q = r /\ u = t THEN Tail(log[r][t]) ELSE log[q][u]
      BY <2>6 DEF Skip, TypeOK
    <3>2. log' \in [Replicas -> [Topics -> Seq(Event)]]
      BY <2>2, <2>6 DEF Skip, TypeOK
    <3>3. HeldOK'
      BY <2>4, <2>6, <3>1 DEF Skip, HeldOK
    <3> QED BY <2>6, <3>2, <3>3 DEF Skip, TypeOK, menuSide
  <2>7. CASE Write(r, t)
    <3>1. \A q \in Replicas, u \in Topics :
            log'[q][u] = IF q = r /\ u = t THEN Tail(log[r][t]) ELSE log[q][u]
      BY <2>7 DEF Write, TypeOK
    <3>2. log' \in [Replicas -> [Topics -> Seq(Event)]]
      BY <2>2, <2>7 DEF Write, TypeOK
    <3>3. /\ held' \in [Replicas -> SUBSET Topics]
          /\ \A q \in Replicas : held'[q] = IF q = r THEN held[q] \ {t} ELSE held[q]
      BY <2>7 DEF Write, TypeOK
    <3>4. HeldOK'
      BY <2>4, <3>1, <3>3 DEF HeldOK
    <3>5. /\ snap' \in [Replicas -> [Dishes -> Snapshot \cup {NoVal}]]
          /\ mishaps' \in [Dishes -> SUBSET Mishaps]
      BY <2>2, <2>7, PutDoes DEF Write
    <3> QED BY <2>7, <3>2, <3>3, <3>4, <3>5 DEF Write, TypeOK, menuSide
  <2>8. CASE ConsumerDies(r, t)
    <3>1. /\ snap' \in [Replicas -> [Dishes -> Snapshot \cup {NoVal}]]
          /\ mishaps' \in [Dishes -> SUBSET Mishaps]
      <4>1. CASE Put(r, Head(log[r][t]))
        BY <2>2, <4>1, PutDoes
      <4>2. CASE UNCHANGED <<snap, mishaps>>
        BY <4>2 DEF TypeOK
      <4> QED BY <2>8, <4>1, <4>2 DEF ConsumerDies
    <3>2. deaths' \in 0..MaxDeaths
      BY <2>8 DEF ConsumerDies, TypeOK
    <3>3. UNCHANGED <<log, menuSide>>
      BY <2>8 DEF ConsumerDies
    <3>4. held' \in [Replicas -> SUBSET Topics] /\ HeldOK'
      BY <2>3, <2>8
    <3> QED BY <3>1, <3>2, <3>3, <3>4 DEF TypeOK, menuSide
  <2>9. CASE Refuse(r, t)
    <3>1. t # "dlq" /\ "dlq" \in Topics /\ held' = held
      BY <2>9 DEF Refuse, Topics
    <3>2. log[r]["dlq"] \in Seq(Event)
      BY <3>1 DEF TypeOK
    <3>3. PICK s \in Seq(Event) : s = Append(log[r]["dlq"], Head(log[r][t])) /\ s # <<>>
      <4>1. Append(log[r]["dlq"], Head(log[r][t])) \in Seq(Event)
        BY <2>2, <3>2, AppendTyped
      <4>2. Append(log[r]["dlq"], Head(log[r][t])) # <<>>
        BY <2>2, <3>2
      <4> QED BY <4>1, <4>2
    <3>4. \A q \in Replicas, u \in Topics :
            log'[q][u] = IF q = r /\ u = t THEN Tail(log[r][t])
                         ELSE IF q = r /\ u = "dlq" THEN s ELSE log[q][u]
      BY <2>9, <3>1, <3>3 DEF Refuse, TypeOK
    <3>5. log' \in [Replicas -> [Topics -> Seq(Event)]]
      <4>1. \A q \in Replicas, u \in Topics : log'[q][u] \in Seq(Event)
        BY <2>2, <3>4 DEF TypeOK
      <4>2. log' = [q \in Replicas |-> [u \in Topics |-> log'[q][u]]]
        BY <2>9 DEF Refuse, TypeOK
      <4> QED BY <4>1, <4>2
    <3>6. HeldOK'
      <4>1. t \notin held[r]
        BY <2>9 DEF Refuse
      <4>2. ASSUME NEW q \in Replicas, NEW u \in held[q] PROVE log'[q][u] # <<>>
        <5>1. u \in Topics /\ log[q][u] # <<>>
          BY <2>4 DEF HeldOK
        <5> QED BY <3>3, <3>4, <4>1, <5>1
      <4> QED BY <3>1, <4>2 DEF HeldOK
    <3> QED BY <2>9, <3>5, <3>6 DEF Refuse, TypeOK, menuSide
  <2> QED BY <1>10, <2>5, <2>6, <2>7, <2>8, <2>9
<1>11. CASE UNCHANGED vars
  BY <1>00, <1>11 DEF vars, TypeOK
<1> QED
  BY <1>1, <1>2, <1>3, <1>4, <1>5, <1>6, <1>7, <1>8, <1>9, <1>10, <1>11 DEF Next, Requests, Consumers

LEMMA TypeInit == Init => TypeOK /\ HeldOK
BY MenuAssumption DEF Init, TypeOK, HeldOK, Row, NewRow

\* Rows, requests, topics and snapshots keep their types, however many
\* requests to the menu overlap, and however the topics' handlers do.
THEOREM MenuTypes == Spec => []TypeOK
<1>1. TypeOK /\ HeldOK => TypeOK
  OBVIOUS
<1>2. QED
  BY <1>1, TypeInit, TypeStep, PTL DEF Spec
------------------------------------------------------------------------------
(* Snapshots agree with the menu when all is quiet                            *)

On(w, d) == writer[w] # NoVal /\ writer[w].d = d
Has(r, d) == snap[r][d] # NoVal

\* The events of a kind about the dish that replica r has yet to commit, dead
\* letters included.
Said(r, k, d) == {e \in EventOn(k) : e.d = d /\ \E t \in Topics : In(log[r][t], e)}
News(r, d) == Said(r, "created", d) \cup Said(r, "updated", d)

\* What replica r shows of the dish, or has yet to read of it.
Version == [version : Nat, content : Contents]
Known(r, d) ==
  {k \in Version :
     \/ \E e \in News(r, d) : e.version = k.version /\ e.content = k.content
     \/ Has(r, d) /\ snap[r][d].version = k.version /\ snap[r][d].content = k.content}

\* Whatever does not have content c is overtaken by something that does.
Best(K, c) == \A x \in K : x.content # c => \E y \in K : y.version > x.version /\ y.content = c

\* A save that is committed and not published.
Unsaid(d) == \E w \in Writers : On(w, d) /\ writer[w].op = "update" /\ writer[w].step = "saved"

\* The parts of the invariant, for dishes whose requests did not overlap: how a
\* request's version stands to the row's, that no replica is ahead of the menu,
\* that it will be up to date, and that it will hear of a deletion.
AtStep(w) ==
  LET e == writer[w]
      row == dish[e.d]
  IN /\ e.step = "read" => row.stage = "live" /\ (e.op = "delete" => e.version = row.version)
     /\ e.step = "numbered" => row.stage = "live" /\ e.version = row.version + 1
     /\ e.step = "saved" =>
          /\ e.version = row.version
          /\ e.op = "delete" => row.stage = "gone"
          /\ e.op # "delete" => row.stage = "live" /\ e.content = row.content
Bounded(r, d) ==
  /\ \A k \in Known(r, d) :
       k.version <= dish[d].version /\ (Unsaid(d) => k.version < dish[d].version)
  /\ \A e \in Said(r, "deleted", d) : dish[d].stage = "gone" /\ e.version = dish[d].version
  /\ Has(r, d) /\ snap[r][d].removed =>
       dish[d].stage = "gone" /\ snap[r][d].version = dish[d].version
Latest(r, d) == Live(d) /\ ~Unsaid(d) => Best(Known(r, d), dish[d].content)
Withdrawn(r, d) ==
  dish[d].stage = "gone" /\ r # "ai" /\ ~Busy(d) =>
    (Has(r, d) /\ snap[r][d].removed) \/ Said(r, "deleted", d) # {}
Agrees(r, d) == Bounded(r, d) /\ Latest(r, d) /\ Withdrawn(r, d)

DishOK(d) ==
  /\ dish[d].stage = "new" => /\ ~Busy(d)
                              /\ \A r \in Replicas : ~Has(r, d) /\ \A k \in Kinds : Said(r, k, d) = {}
  /\ "overlap" \notin mishaps[d] =>
       /\ \A w, x \in Writers : On(w, d) /\ On(x, d) => w = x
       /\ \A w \in Writers : On(w, d) => AtStep(w)
       /\ \A r \in Replicas \ mishaps[d] : Agrees(r, d)
AgreeInv == TypeOK /\ HeldOK /\ \A d \in Dishes : DishOK(d)

LEMMA BestKept ==
  ASSUME NEW c, NEW K \in SUBSET Version, NEW L \in SUBSET K, Best(K, c), NEW a \in L,
         \A x \in K \ L : x.version <= a.version
  PROVE  Best(L, c)
<1> SUFFICES ASSUME NEW x \in L, x.content # c
             PROVE  \E y \in L : y.version > x.version /\ y.content = c
  BY DEF Best
<1>1. \A y \in K : y.version \in Nat
  BY DEF Version
<1>2. PICK y \in K : y.version > x.version /\ y.content = c
  BY DEF Best
<1>3. CASE y \in L
  BY <1>2, <1>3
<1>4. CASE y \notin L /\ a.content = c
  BY <1>1, <1>2, <1>4
<1>5. CASE y \notin L /\ a.content # c
  <2>1. PICK z \in K : z.version > a.version /\ z.content = c
    BY <1>5 DEF Best
  <2>2. z \in L
    BY <1>1, <2>1
  <2> QED BY <1>1, <1>2, <1>5, <2>1, <2>2
<1> QED BY <1>3, <1>4, <1>5

LEMMA BestAdded ==
  ASSUME NEW c, NEW K \in SUBSET Version, NEW k \in Version, k.content = c,
         \A x \in K : x.version < k.version
  PROVE  Best(K \cup {k}, c)
BY DEF Best, Version

\* A step that does not touch dish d.
LEMMA OtherDish ==
  ASSUME NEW d \in Dishes, DishOK(d), dish'[d] = dish[d], mishaps'[d] = mishaps[d],
         \A w \in Writers : (On(w, d)' <=> On(w, d)) /\ (On(w, d) => writer'[w] = writer[w]),
         \A r \in Replicas : snap'[r][d] = snap[r][d],
         \A r \in Replicas, k \in Kinds : Said(r, k, d)' = Said(r, k, d)
  PROVE  DishOK(d)'
<1>1. (Busy(d)' <=> Busy(d)) /\ (Unsaid(d)' <=> Unsaid(d)) /\ (Live(d)' <=> Live(d))
  BY DEF Busy, On, Unsaid, Live
<1>2. \A w \in Writers : On(w, d) => (AtStep(w)' <=> AtStep(w))
  BY DEF AtStep, On
<1>3. ASSUME NEW r \in Replicas
      PROVE  /\ Has(r, d)' <=> Has(r, d)
             /\ News(r, d)' = News(r, d)
             /\ Known(r, d)' = Known(r, d)
  BY DEF Has, News, Known, Kinds
<1>4. ASSUME NEW r \in Replicas
      PROVE  /\ Bounded(r, d)' <=> Bounded(r, d)
             /\ Latest(r, d)' <=> Latest(r, d)
             /\ Withdrawn(r, d)' <=> Withdrawn(r, d)
  <2>1. Bounded(r, d)' <=> Bounded(r, d)
    BY <1>1, <1>3 DEF Bounded, Kinds
  <2>2. Latest(r, d)' <=> Latest(r, d)
    BY <1>1, <1>3 DEF Latest
  <2>4. Withdrawn(r, d)' <=> Withdrawn(r, d)
    BY <1>1, <1>3 DEF Withdrawn, Kinds
  <2> QED BY <2>1, <2>2, <2>4
<1>5. (dish[d].stage = "new" => /\ ~Busy(d)
                               /\ \A r \in Replicas : ~Has(r, d) /\ \A k \in Kinds : Said(r, k, d) = {})'
  BY <1>1, <1>3 DEF DishOK
<1>6. ASSUME "overlap" \notin mishaps'[d]
      PROVE  /\ (\A w, x \in Writers : On(w, d) /\ On(x, d) => w = x)'
             /\ (\A w \in Writers : On(w, d) => AtStep(w))'
             /\ (\A r \in Replicas \ mishaps[d] : Agrees(r, d))'
  <2>1. \A r \in Replicas : Agrees(r, d)' <=> Agrees(r, d)
    BY <1>4 DEF Agrees
  <2> QED BY <1>2, <1>6, <2>1 DEF DishOK
<1> QED BY <1>5, <1>6 DEF DishOK

\* Publishing an event lets every replica hear of it.
LEMMA PublishSays ==
  ASSUME TypeOK, NEW e \in Event, Publish(e)
  PROVE  \A r \in Replicas, k \in Kinds, b \in Dishes :
           Said(r, k, b)' = IF k = e.kind /\ b = e.d THEN Said(r, k, b) \cup {e} ELSE Said(r, k, b)
<1> SUFFICES ASSUME NEW r \in Replicas, NEW k \in Kinds, NEW b \in Dishes
             PROVE  Said(r, k, b)' = IF k = e.kind /\ b = e.d THEN Said(r, k, b) \cup {e} ELSE Said(r, k, b)
  OBVIOUS
<1>1. e.kind \in Topics /\ e \in EventOn(e.kind)
  BY EventTyped
<1>2. ASSUME NEW f, NEW u \in Topics
      PROVE  In(log'[r][u], f) <=> In(log[r][u], f) \/ (u = e.kind /\ f = e)
  <2>1. PICK q \in Seq(Event) : q = log[r][u]
    BY DEF TypeOK
  <2>2. log'[r][u] = IF u = e.kind THEN Append(q, e) ELSE q
    BY <2>1, PublishTyped
  <2>3. In(Append(q, e), f) <=> f = e \/ In(q, f)
    BY AppendIn
  <2> QED BY <2>1, <2>2, <2>3
<1>3. ASSUME NEW f
      PROVE  (\E u \in Topics : In(log'[r][u], f)) <=> (\E u \in Topics : In(log[r][u], f)) \/ f = e
  BY <1>1, <1>2
<1>4. \A f : f \in EventOn(k) => f.kind = k
  BY DEF EventOn
<1> QED BY <1>1, <1>3, <1>4 DEF Said

\* A consumer that takes the first event of a topic leaves the others, one that
\* leaves the topic alone or puts the event aside leaves them all.
LEMMA ConsumerSays ==
  ASSUME TypeOK, NEW r \in Replicas, NEW t \in Topics, log[r][t] # <<>>,
         NEW e, e = Head(log[r][t])
  PROVE  /\ e \in Event /\ e \in Said(r, e.kind, e.d)
         /\ log' = log \/ log' = [log EXCEPT ![r][t] = Tail(@)] =>
              \A q \in Replicas, k \in Kinds, b \in Dishes :
                /\ Said(q, k, b)' \subseteq Said(q, k, b)
                /\ q # r \/ k # e.kind \/ b # e.d => Said(q, k, b)' = Said(q, k, b)
                /\ Said(q, k, b) \subseteq Said(q, k, b)' \cup {e}
         /\ Refuse(r, t) =>
              \A q \in Replicas, k \in Kinds, b \in Dishes : Said(q, k, b)' = Said(q, k, b)
<1>1. PICK s \in Seq(Event) : s = log[r][t] /\ s # <<>>
  BY DEF TypeOK
<1>2. e \in Event /\ Tail(s) \in Seq(Event)
  BY <1>1, TailTyped
<1>3. \A f : In(s, f) <=> f = e \/ In(Tail(s), f)
  BY <1>1, TailIn
<1>4. e \in EventOn(e.kind)
  BY <1>2, EventTyped
<1>5. e \in Said(r, e.kind, e.d)
  BY <1>1, <1>3, <1>4 DEF Said
<1>6. \A k : \A f \in EventOn(k) : f.kind = k
  BY DEF EventOn
<1>7. ASSUME log' = log \/ log' = [log EXCEPT ![r][t] = Tail(@)],
             NEW q \in Replicas, NEW k \in Kinds, NEW b \in Dishes
      PROVE  /\ Said(q, k, b)' \subseteq Said(q, k, b)
             /\ q # r \/ k # e.kind \/ b # e.d => Said(q, k, b)' = Said(q, k, b)
             /\ Said(q, k, b) \subseteq Said(q, k, b)' \cup {e}
  <2>1. ASSUME NEW u \in Topics PROVE log'[q][u] = log[q][u] \/ (q = r /\ u = t /\ log'[q][u] = Tail(s))
    <3>1. CASE log' = log
      BY <3>1
    <3>2. CASE log' = [log EXCEPT ![r][t] = Tail(@)]
      BY <1>1, <3>2 DEF TypeOK
    <3> QED BY <1>7, <3>1, <3>2
  <2>2. ASSUME NEW f, NEW u \in Topics
        PROVE  /\ In(log'[q][u], f) => In(log[q][u], f)
               /\ In(log[q][u], f) /\ ~(f = e /\ q = r) => In(log'[q][u], f)
    BY <1>1, <1>3, <2>1
  <2> QED BY <1>6, <2>2 DEF Said
<1>8. ASSUME Refuse(r, t), NEW q \in Replicas, NEW k \in Kinds, NEW b \in Dishes
      PROVE  Said(q, k, b)' = Said(q, k, b)
  <2>1. t # "dlq" /\ "dlq" \in Topics
    BY <1>8 DEF Refuse, Topics
  <2>2. PICK z \in Seq(Event) : z = log[r]["dlq"]
    BY <2>1 DEF TypeOK
  <2>3. \A u \in Topics :
          log'[q][u] = IF q = r /\ u = t THEN Tail(s)
                       ELSE IF q = r /\ u = "dlq" THEN Append(z, e) ELSE log[q][u]
    BY <1>1, <1>8, <2>1, <2>2 DEF Refuse, TypeOK
  <2>4. \A f : In(Append(z, e), f) <=> f = e \/ In(z, f)
    BY <1>2, AppendIn
  <2>5. ASSUME NEW f
        PROVE  (\E u \in Topics : In(log'[q][u], f)) <=> (\E u \in Topics : In(log[q][u], f))
    <3>1. CASE q # r
      BY <2>3, <3>1
    <3>2. CASE q = r
      <4>1. /\ log'[q][t] = Tail(s) /\ log[q][t] = s
            /\ log'[q]["dlq"] = Append(z, e) /\ log[q]["dlq"] = z
            /\ \A u \in Topics \ {t, "dlq"} : log'[q][u] = log[q][u]
        BY <1>1, <2>1, <2>2, <2>3, <3>2
      <4> QED BY <1>3, <2>1, <2>4, <4>1
    <3> QED BY <3>1, <3>2
  <2> QED BY <2>5 DEF Said
<1> QED BY <1>2, <1>5, <1>7, <1>8

\* Request w goes on with dish d; it is the only one there.
LEMMA RequestGoes ==
  ASSUME NEW w \in Writers, NEW d \in Dishes, NEW x,
         writer'[w] = x, \A v \in Writers \ {w} : writer'[v] = writer[v],
         writer[w] = NoVal \/ writer[w].d = d, x = NoVal \/ x.d = d
  PROVE  /\ \A b \in Dishes \ {d}, v \in Writers :
              (On(v, b)' <=> On(v, b)) /\ (On(v, b) => writer'[v] = writer[v])
         /\ \A v \in Writers \ {w} : On(v, d)' <=> On(v, d)
         /\ (\A v \in Writers : On(v, d) => v = w) =>
              /\ \A v \in Writers : On(v, d)' => v = w
              /\ Busy(d)' <=> x # NoVal
              /\ Unsaid(d)' <=> x # NoVal /\ x.op = "update" /\ x.step = "saved"
<1>1. writer'[w] = x /\ \A v \in Writers \ {w} : writer'[v] = writer[v]
  OBVIOUS
<1>2. \A v \in Writers \ {w} : On(v, d)' <=> On(v, d)
  BY <1>1 DEF On
<1>3. \A b \in Dishes \ {d}, v \in Writers :
        (On(v, b)' <=> On(v, b)) /\ (On(v, b) => writer'[v] = writer[v])
  BY <1>1 DEF On
<1>4. ASSUME \A v \in Writers : On(v, d) => v = w
      PROVE  /\ \A v \in Writers : On(v, d)' => v = w
             /\ Busy(d)' <=> x # NoVal
             /\ Unsaid(d)' <=> x # NoVal /\ x.op = "update" /\ x.step = "saved"
  <2>1. \A v \in Writers : On(v, d)' => v = w
    BY <1>2, <1>4
  <2>2. On(w, d)' <=> x # NoVal
    BY <1>1 DEF On
  <2>3. Busy(d)' <=> x # NoVal
    BY <2>1, <2>2 DEF Busy, On
  <2>4. Unsaid(d)' <=> x # NoVal /\ x.op = "update" /\ x.step = "saved"
    BY <1>1, <2>1, <2>2 DEF Unsaid
  <2> QED BY <2>1, <2>3, <2>4
<1> QED BY <1>1, <1>2, <1>3, <1>4

LEMMA RequestAlone ==
  ASSUME NEW d \in Dishes, DishOK(d), "overlap" \notin mishaps[d], NEW w \in Writers, On(w, d)
  PROVE  /\ \A v \in Writers : On(v, d) => v = w
         /\ AtStep(w) /\ Busy(d)
         /\ Unsaid(d) <=> writer[w].op = "update" /\ writer[w].step = "saved"
         /\ \A r \in Replicas \ mishaps[d] : Agrees(r, d)
<1>1. \A v \in Writers : On(v, d) => v = w
  BY DEF DishOK
<1> QED BY <1>1 DEF DishOK, Busy, On, Unsaid

LEMMA SameSayings ==
  ASSUME UNCHANGED <<log, snap>>
  PROVE  \A r \in Replicas, b \in Dishes :
           /\ Has(r, b)' <=> Has(r, b)
           /\ News(r, b)' = News(r, b)
           /\ Known(r, b)' = Known(r, b)
           /\ \A k \in Kinds : Said(r, k, b)' = Said(r, k, b)
BY DEF Has, News, Known, Said

LEMMA KnownIs ==
  ASSUME TypeOK, NEW r \in Replicas, NEW d \in Dishes
  PROVE  /\ Known(r, d) \subseteq Version
         /\ \A k \in Known(r, d) : k.version \in Nat
         /\ dish[d].version \in Nat
BY DEF Known, Version, TypeOK, Row

LEMMA BeginAgrees ==
  ASSUME AgreeInv, NEW w \in Writers, NEW op \in Requested, NEW d \in Dishes,
         NEW c \in Contents \cup {NoVal}, Begin(w, op, d, c)
  PROVE  \A b \in Dishes : DishOK(b)'
<1>0. PICK x : x = [op |-> op, step |-> "read", d |-> d, version |-> dish[d].version, content |-> c]
  OBVIOUS
<1>1. /\ writer[w] = NoVal /\ Live(d) /\ writer' = [writer EXCEPT ![w] = x]
      /\ UNCHANGED <<dish, log, snap>>
      /\ Crowd(d)
  BY <1>0 DEF Begin, replicaSide
<1>2. x.d = d /\ x.op = op /\ x.step = "read" /\ x.version = dish[d].version
  BY <1>0
<1>3. x # NoVal
  <2>1. x \in Edit
    BY <1>0, <1>1 DEF Begin, Edit, EditBy, Requested, AgreeInv, TypeOK, Row
  <2> QED BY <2>1, NoValIsNoRow
<1>4. /\ \A b \in Dishes \ {d} : mishaps'[b] = mishaps[b]
      /\ mishaps[d] \subseteq mishaps'[d]
      /\ "overlap" \notin mishaps'[d] => ~Busy(d)
  BY <1>1 DEF Crowd, AgreeInv, TypeOK
<1>a. \A b \in Dishes : DishOK(b)
  BY DEF AgreeInv
<1>b. writer'[w] = x /\ \A v \in Writers \ {w} : writer'[v] = writer[v]
  BY <1>1 DEF AgreeInv, TypeOK
<1>5. ASSUME NEW b \in Dishes \ {d} PROVE DishOK(b)'
  <2>1. \A v \in Writers : (On(v, b)' <=> On(v, b)) /\ (On(v, b) => writer'[v] = writer[v])
    BY <1>b, <1>1, <1>2, RequestGoes
  <2>2. \A r \in Replicas, k \in Kinds : Said(r, k, b)' = Said(r, k, b)
    BY <1>1, SameSayings
  <2> QED BY <1>a, <1>1, <1>4, <2>1, <2>2, OtherDish
<1>6. ASSUME "overlap" \notin mishaps'[d]
      PROVE  /\ (\A v, y \in Writers : On(v, d) /\ On(y, d) => v = y)'
             /\ (\A v \in Writers : On(v, d) => AtStep(v))'
             /\ (\A r \in Replicas \ mishaps[d] : Agrees(r, d))'
  <2>0. mishaps'[d] = mishaps[d]
    BY <1>1, <1>6 DEF Crowd, AgreeInv, TypeOK
  <2>1. \A v \in Writers : ~On(v, d)
    BY <1>4, <1>6 DEF Busy, On
  <2>2. /\ \A v \in Writers : On(v, d)' => v = w
        /\ writer'[w] = x /\ Busy(d)' /\ ~Unsaid(d)'
    <3>1. /\ \A v \in Writers : On(v, d)' => v = w
          /\ Busy(d)' <=> x # NoVal
          /\ Unsaid(d)' <=> x # NoVal /\ x.op = "update" /\ x.step = "saved"
      BY <1>b, <1>1, <1>2, <2>1, RequestGoes
    <3> QED BY <1>1, <1>2, <1>3, <1>b, <3>1
  <2>3. ~Unsaid(d) /\ dish[d].stage = "live"
    BY <1>1, <2>1 DEF Unsaid, Live
  <2>4. AtStep(w)'
    BY <1>1, <1>2, <2>2, <2>3 DEF AtStep
  <2>5. ASSUME NEW r \in Replicas \ mishaps[d]
        PROVE  Agrees(r, d)'
    <3>1. Bounded(r, d) /\ Latest(r, d)
      BY <1>4, <1>6, <2>0 DEF AgreeInv, DishOK, Agrees
    <3>2. Bounded(r, d)'
      BY <1>1, <2>2, <3>1, SameSayings DEF Bounded, Kinds
    <3>3. Latest(r, d)'
      BY <1>1, <2>2, <2>3, <3>1, SameSayings DEF Latest, Live
    <3>4. Withdrawn(r, d)'
      BY <1>1, <2>3 DEF Withdrawn
    <3> QED BY <3>2, <3>3, <3>4 DEF Agrees
  <2> QED BY <2>0, <2>2, <2>4, <2>5
<1>7. dish'[d].stage # "new"
  BY <1>1 DEF Live
<1> QED BY <1>5, <1>6, <1>7 DEF DishOK

\* A step of request w at dish d keeps the other dishes, and its own if that is
\* alone with the request.
LEMMA RequestStep ==
  ASSUME AgreeInv, NEW w \in Writers, NEW d \in Dishes, NEW x, On(w, d), x = NoVal \/ x.d = d,
         writer'[w] = x, \A v \in Writers \ {w} : writer'[v] = writer[v],
         UNCHANGED <<mishaps, snap>>, dish'[d].stage # "new",
         \A b \in Dishes \ {d} : dish'[b] = dish[b],
         \A b \in Dishes \ {d}, r \in Replicas, k \in Kinds : Said(r, k, b)' = Said(r, k, b),
         "overlap" \notin mishaps[d] =>
           /\ x # NoVal => AtStep(w)'
           /\ \A r \in Replicas \ mishaps[d] : Agrees(r, d)'
  PROVE  \A b \in Dishes : DishOK(b)'
<1>1. writer[w].d = d
  BY DEF On
<1>2. ASSUME NEW b \in Dishes \ {d} PROVE DishOK(b)'
  <2>1. \A v \in Writers : (On(v, b)' <=> On(v, b)) /\ (On(v, b) => writer'[v] = writer[v])
    BY <1>1, RequestGoes
  <2>2. DishOK(b)
    BY DEF AgreeInv
  <2> QED BY <2>1, <2>2, OtherDish
<1>3. ASSUME "overlap" \notin mishaps'[d]
      PROVE  /\ (\A v, y \in Writers : On(v, d) /\ On(y, d) => v = y)'
             /\ (\A v \in Writers : On(v, d) => AtStep(v))'
  <2>1. DishOK(d)
    BY DEF AgreeInv
  <2>2. \A v \in Writers : On(v, d) => v = w
    BY <1>3, <2>1, RequestAlone
  <2>3. \A v \in Writers : On(v, d)' => v = w
    BY <1>1, <2>2, RequestGoes
  <2>4. On(w, d)' => x # NoVal
    BY DEF On
  <2> QED BY <1>3, <2>3, <2>4
<1> QED BY <1>2, <1>3 DEF DishOK

\* What request w knows when it is alone with dish d, and what it leaves.
LEMMA RequestFacts ==
  ASSUME AgreeInv, NEW w \in Writers, NEW d \in Dishes, NEW x, On(w, d), x = NoVal \/ x.d = d,
         writer'[w] = x, \A v \in Writers \ {w} : writer'[v] = writer[v],
         "overlap" \notin mishaps[d]
  PROVE  /\ AtStep(w)
         /\ Unsaid(d) <=> writer[w].op = "update" /\ writer[w].step = "saved"
         /\ \A r \in Replicas \ mishaps[d] : Agrees(r, d)
         /\ Busy(d)' <=> x # NoVal
         /\ Unsaid(d)' <=> x # NoVal /\ x.op = "update" /\ x.step = "saved"
<1>1. DishOK(d) /\ writer[w].d = d
  BY DEF AgreeInv, On
<1>2. /\ \A v \in Writers : On(v, d) => v = w
      /\ AtStep(w)
      /\ Unsaid(d) <=> writer[w].op = "update" /\ writer[w].step = "saved"
      /\ \A r \in Replicas \ mishaps[d] : Agrees(r, d)
  BY <1>1, RequestAlone
<1>3. /\ Busy(d)' <=> x # NoVal
      /\ Unsaid(d)' <=> x # NoVal /\ x.op = "update" /\ x.step = "saved"
  BY <1>1, <1>2, RequestGoes
<1> QED BY <1>2, <1>3

\* A request's dish was created.
LEMMA NeverNew ==
  ASSUME AgreeInv, NEW w \in Writers, NEW d \in Dishes, On(w, d)
  PROVE  dish[d].stage \in {"live", "gone", "swept"}
BY DEF AgreeInv, DishOK, Busy, On, TypeOK, Row

LEMMA NumberAgrees ==
  ASSUME AgreeInv, NEW w \in Writers, Number(w)
  PROVE  \A b \in Dishes : DishOK(b)'
<1>1. PICK d \in Dishes : d = writer[w].d
  BY DEF Number, AgreeInv, TypeOK, Edit, EditBy
<1>2. PICK v \in Nat : v = IF dish[d].stage = "live" THEN dish[d].version + 1 ELSE 1
  BY <1>1 DEF AgreeInv, TypeOK, Row
<1>3. PICK x : x = [writer[w] EXCEPT !.step = "numbered", !.version = v]
  OBVIOUS
<1>4. /\ On(w, d) /\ writer[w].step = "read" /\ writer[w].op \in {"update", "review"}
      /\ writer[w] \in Edit /\ writer' = [writer EXCEPT ![w] = x]
      /\ UNCHANGED <<dish, log, snap, mishaps>>
  BY <1>1, <1>2, <1>3 DEF Number, replicaSide, On, AgreeInv, TypeOK
<1>5. x.d = d /\ x.op = writer[w].op /\ x.step = "numbered" /\ x.version = v /\ x \in Edit
  BY <1>1, <1>3, <1>4 DEF Edit, EditBy
<1>6. writer'[w] = x /\ \A u \in Writers \ {w} : writer'[u] = writer[u]
  BY <1>4 DEF AgreeInv, TypeOK
<1>7. ASSUME "overlap" \notin mishaps[d]
      PROVE  /\ AtStep(w)'
             /\ \A r \in Replicas \ mishaps[d] : Agrees(r, d)'
  <2>1. /\ AtStep(w)
        /\ ~Unsaid(d) /\ ~Unsaid(d)' /\ Busy(d)'
        /\ \A r \in Replicas \ mishaps[d] : Bounded(r, d) /\ Latest(r, d)
    <3>1. x # NoVal
      BY <1>5, NoValIsNoRow
    <3> QED BY <1>4, <1>5, <1>6, <1>7, <3>1, RequestFacts DEF Agrees
  <2>2. dish[d].stage = "live" /\ v = dish[d].version + 1
    BY <1>1, <1>2, <1>4, <2>1 DEF AtStep
  <2>3. AtStep(w)'
    BY <1>4, <1>5, <1>6, <2>2 DEF AtStep
  <2>4. ASSUME NEW r \in Replicas \ mishaps[d]
        PROVE  Agrees(r, d)'
    <3>1. Bounded(r, d)'
      BY <1>4, <2>1, SameSayings DEF Bounded, Kinds
    <3>2. Latest(r, d)'
      BY <1>4, <2>1, SameSayings DEF Latest, Live
    <3>3. Withdrawn(r, d)'
      BY <1>4, <2>1, <2>2 DEF Withdrawn
    <3> QED BY <3>1, <3>2, <3>3 DEF Agrees
  <2> QED BY <2>3, <2>4
<1>8. dish'[d].stage # "new"
  BY <1>4, NeverNew
<1>9. \A b \in Dishes, r \in Replicas, k \in Kinds : Said(r, k, b)' = Said(r, k, b)
  BY <1>4, SameSayings
<1> QED BY <1>4, <1>5, <1>6, <1>7, <1>8, <1>9, RequestStep

LEMMA SaveAgrees ==
  ASSUME AgreeInv, NEW w \in Writers, Save(w)
  PROVE  \A b \in Dishes : DishOK(b)'
<1>1. PICK d \in Dishes : d = writer[w].d
  BY DEF Save, AgreeInv, TypeOK, Edit, EditBy
<1>2. PICK x : x = [writer[w] EXCEPT !.step = "saved"]
  OBVIOUS
<1>3. /\ On(w, d) /\ writer[w].step = "numbered" /\ writer[w].op = "update"
      /\ writer[w] \in Edit /\ writer' = [writer EXCEPT ![w] = x]
      /\ UNCHANGED <<log, snap, mishaps>>
      /\ dish' = [dish EXCEPT ![d] = [stage |-> "live", version |-> writer[w].version,
                                      content |-> writer[w].content]]
  BY <1>1, <1>2 DEF Save, replicaSide, On, AgreeInv, TypeOK
<1>4. /\ x.d = d /\ x.op = "update" /\ x.step = "saved" /\ x \in Edit
      /\ x.version = writer[w].version /\ x.content = writer[w].content
  BY <1>1, <1>2, <1>3 DEF Edit, EditBy
<1>5. writer'[w] = x /\ \A u \in Writers \ {w} : writer'[u] = writer[u]
  BY <1>3 DEF AgreeInv, TypeOK
<1>6. /\ dish'[d].stage = "live" /\ dish'[d].version = writer[w].version
      /\ dish'[d].content = writer[w].content
      /\ \A b \in Dishes \ {d} : dish'[b] = dish[b]
  BY <1>3 DEF AgreeInv, TypeOK
<1>7. ASSUME "overlap" \notin mishaps[d]
      PROVE  /\ AtStep(w)'
             /\ \A r \in Replicas \ mishaps[d] : Agrees(r, d)'
  <2>1. /\ AtStep(w) /\ Unsaid(d)'
        /\ \A r \in Replicas \ mishaps[d] : Bounded(r, d)
    <3>1. x # NoVal
      BY <1>4, NoValIsNoRow
    <3> QED BY <1>3, <1>4, <1>5, <1>6, <1>7, <3>1, RequestFacts DEF Agrees
  <2>2. dish[d].stage = "live" /\ dish'[d].version = dish[d].version + 1
    BY <1>1, <1>3, <1>6, <2>1 DEF AtStep
  <2>3. AtStep(w)'
    BY <1>4, <1>5, <1>6 DEF AtStep
  <2>4. ASSUME NEW r \in Replicas \ mishaps[d]
        PROVE  Agrees(r, d)'
    <3>1. \A k \in Known(r, d) : k.version \in Nat /\ k.version <= dish[d].version
      BY <2>1, KnownIs DEF Bounded, AgreeInv
    <3>2. dish[d].version \in Nat
      BY KnownIs DEF AgreeInv
    <3>3. \A k \in Known(r, d)' : k.version < dish'[d].version
      BY <1>3, <2>2, <3>1, <3>2, SameSayings
    <3>4. Bounded(r, d)'
      <4>1. Said(r, "deleted", d)' = {} /\ (Has(r, d)' => ~snap'[r][d].removed)
        BY <1>3, <2>1, <2>2, SameSayings DEF Bounded, Kinds
      <4>2. \A k \in Known(r, d)' : k.version <= dish'[d].version
        BY <1>3, <2>2, <3>1, <3>2, SameSayings
      <4> QED BY <3>3, <4>1, <4>2 DEF Bounded
    <3>5. Latest(r, d)' /\ Withdrawn(r, d)'
      BY <1>6, <2>1 DEF Latest, Withdrawn
    <3> QED BY <3>4, <3>5 DEF Agrees
  <2> QED BY <2>3, <2>4
<1>8. \A b \in Dishes, r \in Replicas, k \in Kinds : Said(r, k, b)' = Said(r, k, b)
  BY <1>3, SameSayings
<1> QED BY <1>3, <1>4, <1>5, <1>6, <1>7, <1>8, RequestStep

LEMMA RateAgrees ==
  ASSUME AgreeInv, NEW w \in Writers, Rate(w)
  PROVE  \A b \in Dishes : DishOK(b)'
<1>1. PICK d \in Dishes : d = writer[w].d
  BY DEF Rate, AgreeInv, TypeOK, Edit, EditBy
<1>2. /\ On(w, d) /\ writer[w].step = "numbered" /\ writer[w].op = "review"
      /\ writer' = [writer EXCEPT ![w] = NoVal] /\ UNCHANGED <<log, snap, mishaps>>
      /\ dish' = IF Live(d) THEN [dish EXCEPT ![d].version = writer[w].version] ELSE dish
  BY <1>1 DEF Rate, replicaSide, On
<1>3. writer'[w] = NoVal /\ \A u \in Writers \ {w} : writer'[u] = writer[u]
  BY <1>2 DEF AgreeInv, TypeOK
<1>4. /\ \A b \in Dishes \ {d} : dish'[b] = dish[b]
      /\ dish'[d].stage = dish[d].stage /\ dish'[d].content = dish[d].content
      /\ Live(d) => dish'[d].version = writer[w].version
  BY <1>2 DEF AgreeInv, TypeOK, Row
<1>5. ASSUME "overlap" \notin mishaps[d], NEW r \in Replicas \ mishaps[d]
      PROVE  Agrees(r, d)'
  <2>1. /\ AtStep(w) /\ ~Unsaid(d) /\ ~Unsaid(d)' /\ Bounded(r, d) /\ Latest(r, d)
    BY <1>2, <1>3, <1>5, RequestFacts DEF Agrees
  <2>2. dish[d].stage = "live" /\ dish'[d].version = dish[d].version + 1
    BY <1>1, <1>2, <1>4, <2>1 DEF AtStep, Live
  <2>3. Bounded(r, d)'
    <3>1. \A k \in Known(r, d) : k.version \in Nat /\ k.version <= dish[d].version
      BY <2>1, KnownIs DEF Bounded, AgreeInv
    <3>2. dish[d].version \in Nat
      BY KnownIs DEF AgreeInv
    <3>3. Said(r, "deleted", d)' = {} /\ (Has(r, d)' => ~snap'[r][d].removed)
      BY <1>2, <2>1, <2>2, SameSayings DEF Bounded, Kinds
    <3>4. \A k \in Known(r, d)' : k.version <= dish'[d].version
      BY <1>2, <2>2, <3>1, <3>2, SameSayings
    <3> QED BY <2>1, <3>3, <3>4 DEF Bounded
  <2>4. Latest(r, d)'
    BY <1>2, <1>4, <2>1, <2>2, SameSayings DEF Latest, Live
  <2>5. Withdrawn(r, d)'
    BY <1>4, <2>1, <2>2 DEF Withdrawn
  <2> QED BY <2>3, <2>4, <2>5 DEF Agrees
<1>6. dish'[d].stage # "new"
  BY <1>2, <1>4, NeverNew
<1>7. \A b \in Dishes, r \in Replicas, k \in Kinds : Said(r, k, b)' = Said(r, k, b)
  BY <1>2, SameSayings
<1> QED BY <1>2, <1>3, <1>4, <1>5, <1>6, <1>7, RequestStep

LEMMA DeleteAgrees ==
  ASSUME AgreeInv, NEW w \in Writers, Delete(w)
  PROVE  \A b \in Dishes : DishOK(b)'
<1>1. PICK d \in Dishes : d = writer[w].d
  BY DEF Delete, AgreeInv, TypeOK, Edit, EditBy
<1>2. PICK x : x = [writer[w] EXCEPT !.step = "saved"]
  OBVIOUS
<1>3. /\ On(w, d) /\ writer[w].step = "read" /\ writer[w].op = "delete"
      /\ writer[w] \in Edit /\ writer' = [writer EXCEPT ![w] = x]
      /\ UNCHANGED <<log, snap, mishaps>>
      /\ dish' = [dish EXCEPT ![d].stage = "gone"]
  BY <1>1, <1>2 DEF Delete, replicaSide, On, AgreeInv, TypeOK
<1>4. /\ x.d = d /\ x.op = "delete" /\ x.step = "saved" /\ x \in Edit
      /\ x.version = writer[w].version
  BY <1>1, <1>2, <1>3 DEF Edit, EditBy
<1>5. writer'[w] = x /\ \A u \in Writers \ {w} : writer'[u] = writer[u]
  BY <1>3 DEF AgreeInv, TypeOK
<1>6. /\ dish'[d].stage = "gone" /\ dish'[d].version = dish[d].version
      /\ \A b \in Dishes \ {d} : dish'[b] = dish[b]
  BY <1>3 DEF AgreeInv, TypeOK, Row
<1>7. ASSUME "overlap" \notin mishaps[d]
      PROVE  /\ AtStep(w)'
             /\ \A r \in Replicas \ mishaps[d] : Agrees(r, d)'
  <2>1. /\ AtStep(w) /\ ~Unsaid(d)' /\ Busy(d)'
        /\ \A r \in Replicas \ mishaps[d] : Bounded(r, d)
    <3>1. x # NoVal
      BY <1>4, NoValIsNoRow
    <3> QED BY <1>3, <1>4, <1>5, <1>6, <1>7, <3>1, RequestFacts DEF Agrees
  <2>2. dish[d].stage = "live" /\ writer[w].version = dish[d].version
    BY <1>1, <1>3, <2>1 DEF AtStep
  <2>3. AtStep(w)'
    BY <1>4, <1>5, <1>6, <2>2 DEF AtStep
  <2>4. ASSUME NEW r \in Replicas \ mishaps[d]
        PROVE  Agrees(r, d)'
    <3>1. Bounded(r, d)'
      BY <1>3, <1>6, <2>1, <2>2, SameSayings DEF Bounded, Kinds
    <3>2. Latest(r, d)'
      BY <1>6 DEF Latest, Live
    <3>3. Withdrawn(r, d)'
      BY <2>1 DEF Withdrawn
    <3> QED BY <3>1, <3>2, <3>3 DEF Agrees
  <2> QED BY <2>3, <2>4
<1>8. \A b \in Dishes, r \in Replicas, k \in Kinds : Said(r, k, b)' = Said(r, k, b)
  BY <1>3, SameSayings
<1> QED BY <1>3, <1>4, <1>5, <1>6, <1>7, <1>8, RequestStep

LEMMA AnnounceAgrees ==
  ASSUME AgreeInv, NEW w \in Writers, Announce(w)
  PROVE  \A b \in Dishes : DishOK(b)'
<1>1. PICK d \in Dishes : d = writer[w].d
  BY DEF Announce, AgreeInv, TypeOK, Edit, EditBy
<1>2. PICK t \in Kinds : t = IF writer[w].op = "delete" THEN "deleted" ELSE "updated"
  BY DEF Kinds
<1>3. PICK e : e = [kind |-> t, d |-> d, version |-> writer[w].version, content |-> writer[w].content]
  OBVIOUS
<1>4. /\ On(w, d) /\ writer[w].step = "saved" /\ writer[w] \in Edit
      /\ writer' = [writer EXCEPT ![w] = NoVal] /\ UNCHANGED <<dish, snap, mishaps>>
      /\ Publish(e)
  BY <1>1, <1>2, <1>3 DEF Announce, replicaSide, On, AgreeInv, TypeOK
<1>5. /\ e.kind = t /\ e.d = d /\ e.version = writer[w].version /\ e.content = writer[w].content
      /\ e \in EventOn(t) /\ e \in Event
  BY <1>2, <1>3, <1>4 DEF Event, EventOn, Edit, EditBy
<1>6. writer'[w] = NoVal /\ \A u \in Writers \ {w} : writer'[u] = writer[u]
  BY <1>4 DEF AgreeInv, TypeOK
<1>7. \A r \in Replicas, u \in Kinds, b \in Dishes :
        Said(r, u, b)' = IF u = t /\ b = d THEN Said(r, u, b) \cup {e} ELSE Said(r, u, b)
  BY <1>4, <1>5, PublishSays DEF AgreeInv
<1>8. ASSUME "overlap" \notin mishaps[d], NEW r \in Replicas \ mishaps[d]
      PROVE  Agrees(r, d)'
  <2>1. /\ AtStep(w) /\ ~Unsaid(d)'
        /\ Unsaid(d) <=> writer[w].op = "update"
        /\ Bounded(r, d) /\ Latest(r, d)
    BY <1>4, <1>6, <1>8, RequestFacts DEF Agrees
  <2>2. /\ e.version = dish[d].version
        /\ writer[w].op = "delete" => dish[d].stage = "gone"
        /\ writer[w].op # "delete" => dish[d].stage = "live" /\ e.content = dish[d].content
    BY <1>1, <1>4, <1>5, <2>1 DEF AtStep
  <2>3. Has(r, d)' <=> Has(r, d)
    BY <1>4 DEF Has
  <2>4. CASE writer[w].op = "delete"
    <3>1. /\ News(r, d)' = News(r, d)
          /\ Said(r, "deleted", d)' = Said(r, "deleted", d) \cup {e}
      BY <1>2, <1>7, <2>4 DEF News, Kinds
    <3>2. Known(r, d)' = Known(r, d)
      BY <1>4, <2>3, <3>1 DEF Known
    <3>3. Bounded(r, d)'
      BY <1>4, <2>1, <2>2, <2>3, <2>4, <3>1, <3>2 DEF Bounded
    <3>4. Latest(r, d)'
      BY <1>4, <2>2, <2>4 DEF Latest, Live
    <3>5. Withdrawn(r, d)'
      BY <3>1 DEF Withdrawn
    <3> QED BY <3>3, <3>4, <3>5 DEF Agrees
  <2>5. CASE writer[w].op # "delete"
    <3>1. writer[w].op = "update" /\ e.content \in Contents /\ e.version \in Nat
      BY <1>4, <1>5, <2>5 DEF Edit, EditBy
    <3>2. PICK k \in Version : k.version = e.version /\ k.content = e.content
      <4>1. [version |-> e.version, content |-> e.content] \in Version
        BY <3>1 DEF Version
      <4> QED BY <4>1
    <3>3. /\ News(r, d)' = News(r, d) \cup {e}
          /\ Said(r, "deleted", d)' = Said(r, "deleted", d)
      BY <1>2, <1>7, <2>5 DEF News, Kinds
    <3>4. Known(r, d)' = Known(r, d) \cup {k}
      <4>1. \A y \in Version : y = k <=> y.version = e.version /\ y.content = e.content
        BY <3>2 DEF Version
      <4> QED BY <1>4, <2>3, <3>3, <4>1 DEF Known
    <3>5. \A y \in Known(r, d) : y.version \in Nat /\ y.version < dish[d].version
      BY <2>1, <3>1, KnownIs DEF Bounded, AgreeInv
    <3>6. Bounded(r, d)'
      <4>1. \A y \in Known(r, d)' : y.version <= dish[d].version
        BY <2>2, <3>1, <3>2, <3>4, <3>5
      <4> QED BY <1>4, <2>1, <2>3, <3>3, <4>1 DEF Bounded
    <3>7. Latest(r, d)'
      <4>1. Known(r, d) \subseteq Version
        BY DEF Known
      <4>2. Best(Known(r, d) \cup {k}, dish[d].content)
        BY <2>2, <2>5, <3>2, <3>5, <4>1, BestAdded
      <4> QED BY <1>4, <3>4, <4>2 DEF Latest
    <3>8. Withdrawn(r, d)'
      BY <1>4, <2>1, <2>2, <2>5 DEF Withdrawn
    <3> QED BY <3>6, <3>7, <3>8 DEF Agrees
  <2> QED BY <2>4, <2>5
<1>9. dish'[d].stage # "new"
  BY <1>4, NeverNew
<1> QED BY <1>4, <1>6, <1>7, <1>8, <1>9, RequestStep

LEMMA CreateAgrees ==
  ASSUME AgreeInv, NEW d \in Dishes, NEW c \in Contents, Create(d, c)
  PROVE  \A b \in Dishes : DishOK(b)'
<1>1. PICK e : e = [kind |-> "created", d |-> d, version |-> 1, content |-> c]
  OBVIOUS
<1>2. /\ e \in Event /\ e.kind = "created" /\ e.d = d /\ e.version = 1 /\ e.content = c
      /\ UNCHANGED <<writer, mishaps, snap>>
      /\ dish' = [dish EXCEPT ![d] = [stage |-> "live", version |-> 1, content |-> c]]
  BY <1>1 DEF Create, Event, EventOn, Kinds, replicaSide
<1>3. /\ \A b \in Dishes \ {d} : dish'[b] = dish[b]
      /\ dish'[d].stage = "live" /\ dish'[d].version = 1 /\ dish'[d].content = c
  BY <1>2 DEF AgreeInv, TypeOK
<1>4. /\ \A w \in Writers : ~On(w, d)
      /\ \A r \in Replicas : ~Has(r, d) /\ \A k \in Kinds : Said(r, k, d) = {}
  BY DEF Create, AgreeInv, DishOK, Busy, On
<1>5. /\ \A b \in Dishes \ {d}, r \in Replicas, u \in Kinds : Said(r, u, b)' = Said(r, u, b)
      /\ \A r \in Replicas, u \in Kinds :
           Said(r, u, d)' \subseteq (IF u = "created" THEN {e} ELSE {})
  <2>1. CASE UNCHANGED log
    BY <1>2, <1>4, <2>1, SameSayings
  <2>2. CASE Publish(e)
    <3>1. \A r \in Replicas, u \in Kinds, b \in Dishes :
            Said(r, u, b)' = IF u = "created" /\ b = d THEN Said(r, u, b) \cup {e} ELSE Said(r, u, b)
      BY <1>2, <2>2, PublishSays DEF AgreeInv, Kinds
    <3> QED BY <1>4, <3>1
  <2> QED BY <1>1, <2>1, <2>2 DEF Create
<1>6. ASSUME NEW b \in Dishes \ {d} PROVE DishOK(b)'
  BY <1>2, <1>3, <1>5, <1>6, OtherDish DEF AgreeInv, On
<1>7. /\ \A w \in Writers : ~On(w, d)'
      /\ ~Unsaid(d)'
  BY <1>2, <1>3, <1>4 DEF On, Unsaid
<1>8. ASSUME NEW r \in Replicas
      PROVE  Agrees(r, d)'
  <2>1. ~Has(r, d)' /\ News(r, d)' \subseteq {e} /\ Said(r, "deleted", d)' = {}
    BY <1>2, <1>4, <1>5 DEF Has, News, Kinds
  <2>2. \A k \in Known(r, d)' : k.version = 1 /\ k.content = c
    BY <1>2, <2>1 DEF Known
  <2>3. Bounded(r, d)'
    BY <1>3, <1>7, <2>1, <2>2 DEF Bounded
  <2>4. Latest(r, d)'
    BY <1>3, <2>2 DEF Latest, Best
  <2>5. Withdrawn(r, d)'
    BY <1>3, <1>7 DEF Withdrawn
  <2> QED BY <2>3, <2>4, <2>5 DEF Agrees
<1>9. DishOK(d)'
  BY <1>3, <1>7, <1>8 DEF DishOK
<1> QED BY <1>6, <1>9

\* An update that fails as the category has gone.
LEMMA SaveFailsAgrees ==
  ASSUME AgreeInv, NEW w \in Writers, SaveFails(w)
  PROVE  \A b \in Dishes : DishOK(b)'
<1>1. PICK d \in Dishes : d = writer[w].d
  BY DEF SaveFails, AgreeInv, TypeOK, Edit, EditBy
<1>2. /\ On(w, d) /\ writer[w].step = "numbered" /\ dish[d].stage = "swept"
      /\ writer' = [writer EXCEPT ![w] = NoVal] /\ UNCHANGED <<dish, log, snap, mishaps>>
  BY <1>1 DEF SaveFails, replicaSide, On
<1>3. writer'[w] = NoVal /\ \A u \in Writers \ {w} : writer'[u] = writer[u]
  BY <1>2 DEF AgreeInv, TypeOK
<1>4. "overlap" \in mishaps[d]
  <2> SUFFICES ASSUME "overlap" \notin mishaps[d] PROVE FALSE
    OBVIOUS
  <2>1. AtStep(w)
    BY <1>2, <1>3, RequestFacts
  <2> QED BY <1>1, <1>2, <2>1 DEF AtStep
<1>5. \A b \in Dishes, r \in Replicas, k \in Kinds : Said(r, k, b)' = Said(r, k, b)
  BY <1>2, SameSayings
<1> QED BY <1>2, <1>3, <1>4, <1>5, RequestStep

\* A dish that goes with its category.
LEMMA DropAgrees ==
  ASSUME AgreeInv, NEW d \in Dishes, DropCategory(d)
  PROVE  \A b \in Dishes : DishOK(b)'
<1>1. /\ Live(d) /\ UNCHANGED <<writer, log, snap>> /\ Crowd(d)
      /\ dish' = [dish EXCEPT ![d].stage = "swept"]
  BY DEF DropCategory, replicaSide
<1>2. /\ dish'[d].stage = "swept" /\ dish'[d].version = dish[d].version
      /\ \A b \in Dishes \ {d} : dish'[b] = dish[b] /\ mishaps'[b] = mishaps[b]
      /\ mishaps'[d] = IF Busy(d) THEN mishaps[d] \cup {"overlap"} ELSE mishaps[d]
  BY <1>1 DEF Crowd, AgreeInv, TypeOK, Row
<1>3. ASSUME NEW b \in Dishes \ {d} PROVE DishOK(b)'
  <2>1. \A r \in Replicas, k \in Kinds : Said(r, k, b)' = Said(r, k, b)
    BY <1>1, SameSayings
  <2> QED BY <1>1, <1>2, <2>1, OtherDish DEF AgreeInv, On
<1>4. ASSUME "overlap" \notin mishaps'[d]
      PROVE  /\ \A w \in Writers : ~On(w, d)'
             /\ \A r \in Replicas \ mishaps'[d] : Agrees(r, d)'
  <2>1. /\ \A w \in Writers : ~On(w, d) /\ ~On(w, d)'
        /\ mishaps'[d] = mishaps[d]
    BY <1>1, <1>2, <1>4 DEF Busy, On
  <2>2. ~Unsaid(d) /\ ~Unsaid(d)'
    BY <2>1 DEF Unsaid
  <2>3. ASSUME NEW r \in Replicas \ mishaps[d] PROVE Agrees(r, d)'
    <3>1. Bounded(r, d)
      BY <1>2, <1>4, <2>1 DEF AgreeInv, DishOK, Agrees
    <3>2. Bounded(r, d)'
      <4>1. Said(r, "deleted", d) = {} /\ (Has(r, d) => ~snap[r][d].removed)
        BY <1>1, <3>1 DEF Bounded, Live
      <4> QED BY <1>1, <1>2, <2>2, <3>1, <4>1, SameSayings DEF Bounded, Kinds
    <3>3. Latest(r, d)' /\ Withdrawn(r, d)'
      BY <1>2 DEF Latest, Withdrawn, Live
    <3> QED BY <3>2, <3>3 DEF Agrees
  <2> QED BY <2>1, <2>3
<1>5. DishOK(d)'
  BY <1>2, <1>4 DEF DishOK
<1> QED BY <1>3, <1>5

\* A handler that looks, and an event put aside for a replay, change nothing.
LEMMA IdleAgrees ==
  ASSUME AgreeInv, UNCHANGED <<dish, writer, snap, mishaps>>,
         \A r \in Replicas, k \in Kinds, b \in Dishes : Said(r, k, b)' = Said(r, k, b)
  PROVE  \A b \in Dishes : DishOK(b)'
BY OtherDish DEF AgreeInv, On

\* Taking an event: the snapshot stays, shows the event, or is removed; or the
\* replica wrote over something newer.
LEMMA ConsumerAgrees ==
  ASSUME AgreeInv, NEW r \in Replicas, NEW t \in Topics, Skip(r, t) \/ Write(r, t) \/ ConsumerDies(r, t)
  PROVE  \A b \in Dishes : DishOK(b)'
<1>1. PICK e : e = Head(log[r][t])
  OBVIOUS
<1>2. /\ log[r][t] # <<>> /\ UNCHANGED <<dish, writer>>
      /\ log' = log \/ log' = [log EXCEPT ![r][t] = Tail(@)]
      /\ \/ ~Fresh(r, e) /\ UNCHANGED <<snap, mishaps>>
         \/ Put(r, e)
         \/ UNCHANGED <<snap, mishaps, log>>
  BY <1>1 DEF Skip, Write, ConsumerDies, menuSide, AgreeInv, HeldOK
<1>3. TypeOK
  BY DEF AgreeInv
<1>4. e \in Event /\ e \in Said(r, e.kind, e.d)
  BY <1>1, <1>2, <1>3, ConsumerSays
<1>5. PICK k \in Kinds : k = e.kind
  BY <1>4, EventTyped
<1>6. PICK d \in Dishes : d = e.d
  BY <1>4, EventTyped
<1>7. /\ e \in Said(r, k, d) /\ e \in EventOn(k)
      /\ \A q \in Replicas, u \in Kinds, b \in Dishes :
           /\ Said(q, u, b)' \subseteq Said(q, u, b)
           /\ q # r \/ u # k \/ b # d => Said(q, u, b)' = Said(q, u, b)
           /\ Said(q, u, b) \subseteq Said(q, u, b)' \cup {e}
  BY <1>1, <1>2, <1>3, <1>4, <1>5, <1>6, ConsumerSays, EventTyped
<1>8. CASE UNCHANGED <<snap, mishaps, log>>
  BY <1>2, <1>8, IdleAgrees, SameSayings
<1> SUFFICES ASSUME (~Fresh(r, e) /\ UNCHANGED <<snap, mishaps>>) \/ Put(r, e)
             PROVE  \A b \in Dishes : DishOK(b)'
  BY <1>2, <1>8
<1>took. /\ \A q \in Replicas, b \in Dishes : q # r \/ b # d => snap'[q][b] = snap[q][b]
         /\ \A b \in Dishes : mishaps'[b] = mishaps[b] \/ (b = d /\ mishaps'[b] = mishaps[b] \cup {r})
         /\ r \notin mishaps'[d] =>
            \/ /\ snap'[r][d] = snap[r][d]
               /\ snap[r][d] # NoVal /\ e.version <= snap[r][d].version
               /\ k = "deleted" /\ r # "ai" => e.version < snap[r][d].version
            \/ /\ k # "deleted" /\ (snap[r][d] # NoVal => e.version > snap[r][d].version)
               /\ snap'[r][d] # NoVal /\ snap'[r][d].version = e.version
               /\ snap'[r][d].content = e.content /\ snap'[r][d].removed = FALSE
            \/ /\ k = "deleted" /\ snap[r][d] # NoVal /\ snap'[r][d] # NoVal
               /\ snap'[r][d].version = e.version /\ snap'[r][d].removed = TRUE
  <2>1. snap[r][d] \in Snapshot \cup {NoVal}
    BY <1>3 DEF TypeOK
  <2>2. e.version \in Nat
    BY <1>4, EventTyped
  <2>3. CASE ~Fresh(r, e) /\ UNCHANGED <<snap, mishaps>>
    <3>1. snap[r][d] # NoVal /\ snap[r][d].version \in Nat
      BY <1>6, <2>1, <2>3 DEF Fresh, Snapshot
    <3> QED BY <1>5, <1>6, <2>2, <2>3, <3>1 DEF Fresh
  <2>4. CASE Put(r, e)
    <3>1. /\ \A q \in Replicas, b \in Dishes : q # r \/ b # d => snap'[q][b] = snap[q][b]
          /\ \A b \in Dishes : mishaps'[b] = mishaps[b] \/ (b = d /\ mishaps'[b] = mishaps[b] \cup {r})
          /\ r \notin mishaps'[d] =>
               /\ Fresh(r, e)
               /\ \/ /\ k # "deleted" /\ snap'[r][d] # NoVal
                     /\ snap'[r][d].version = e.version
                     /\ snap'[r][d].content = e.content /\ snap'[r][d].removed = FALSE
                  \/ /\ k = "deleted" /\ snap[r][d] # NoVal /\ snap'[r][d] # NoVal
                     /\ snap'[r][d].version = e.version /\ snap'[r][d].removed = TRUE
      <4>1. /\ \A q \in Replicas, b \in Dishes : q # r \/ b # e.d => snap'[q][b] = snap[q][b]
            /\ \A b \in Dishes : mishaps'[b] = mishaps[b] \/ (b = e.d /\ mishaps'[b] = mishaps[b] \cup {r})
            /\ r \notin mishaps'[e.d] =>
                 /\ Fresh(r, e)
                 /\ \/ /\ e.kind # "deleted" /\ snap'[r][e.d] # NoVal
                       /\ snap'[r][e.d].version = e.version
                       /\ snap'[r][e.d].content = e.content /\ snap'[r][e.d].removed = FALSE
                    \/ /\ e.kind = "deleted" /\ snap[r][e.d] # NoVal /\ snap'[r][e.d] # NoVal
                       /\ snap'[r][e.d].version = e.version /\ snap'[r][e.d].removed = TRUE
        BY <1>3, <1>4, <2>4, PutDoes
      <4> QED BY <1>5, <1>6, <4>1
    <3>2. Fresh(r, e) /\ k # "deleted" => (snap[r][d] # NoVal => e.version > snap[r][d].version)
      BY <1>5, <1>6 DEF Fresh
    <3> QED BY <3>1, <3>2
  <2> QED BY <2>3, <2>4
<1>9. ASSUME NEW b \in Dishes, b # d PROVE DishOK(b)'
  <2>1. DishOK(b) /\ mishaps'[b] = mishaps[b]
    BY <1>9, <1>took DEF AgreeInv
  <2> QED BY <1>2, <1>7, <1>took, <1>9, <2>1, OtherDish DEF On
<1>10. /\ Busy(d)' <=> Busy(d)
       /\ Unsaid(d)' <=> Unsaid(d)
       /\ \A w \in Writers : (On(w, d)' <=> On(w, d)) /\ (AtStep(w)' <=> AtStep(w))
  BY <1>2 DEF Busy, Unsaid, On, AtStep
<1>11. DishOK(d) /\ dish[d].stage # "new"
  BY <1>7 DEF AgreeInv, DishOK
<1>12. "overlap" \notin mishaps'[d] => "overlap" \notin mishaps[d]
  BY <1>took
<1>13. ASSUME "overlap" \notin mishaps'[d], NEW q \in Replicas \ mishaps'[d], q # r
       PROVE  Agrees(q, d)'
  <2>1. Bounded(q, d) /\ Latest(q, d) /\ Withdrawn(q, d)
    BY <1>11, <1>12, <1>13, <1>took DEF DishOK, Agrees
  <2>2. snap'[q][d] = snap[q][d] /\ \A u \in Kinds : Said(q, u, d)' = Said(q, u, d)
    BY <1>7, <1>13, <1>took
  <2>3. /\ Has(q, d)' <=> Has(q, d)
        /\ News(q, d)' = News(q, d)
        /\ Said(q, "deleted", d)' = Said(q, "deleted", d)
    BY <2>2 DEF Has, News, Kinds
  <2>4. Known(q, d)' = Known(q, d)
    BY <2>2, <2>3 DEF Known
  <2>5. Bounded(q, d)'
    BY <1>2, <1>10, <2>1, <2>2, <2>3, <2>4 DEF Bounded
  <2>6. Latest(q, d)'
    BY <1>2, <1>10, <2>1, <2>4 DEF Latest, Live
  <2>7. Withdrawn(q, d)'
    BY <1>2, <1>10, <2>1, <2>2, <2>3 DEF Withdrawn
  <2> QED BY <2>5, <2>6, <2>7 DEF Agrees
<1>14. ASSUME "overlap" \notin mishaps'[d], r \notin mishaps'[d]
       PROVE  Agrees(r, d)'
  <2> DEFINE old == snap[r][d]
             new == snap'[r][d]
             Stays == /\ new = old
                      /\ Has(r, d) /\ e.version <= old.version
                      /\ k = "deleted" /\ r # "ai" => e.version < old.version
             Shows == /\ k # "deleted" /\ (Has(r, d) => e.version > old.version)
                      /\ Has(r, d)' /\ new.version = e.version
                      /\ new.content = e.content /\ new.removed = FALSE
             Goes == /\ k = "deleted" /\ Has(r, d) /\ Has(r, d)'
                     /\ new.version = e.version /\ new.removed = TRUE
  <2>1. Bounded(r, d) /\ Latest(r, d) /\ Withdrawn(r, d)
    BY <1>11, <1>12, <1>14, <1>took DEF DishOK, Agrees
  <2>2. Stays \/ Shows \/ Goes
    BY <1>14, <1>took DEF Has
  <2>3. e.version \in Nat /\ dish[d].version \in Nat /\ (Has(r, d) => old \in Snapshot)
    <3>1. e.version \in Nat
      BY <1>4, EventTyped
    <3>2. dish[d].version \in Nat
      BY <1>3 DEF TypeOK, Row
    <3>3. Has(r, d) => old \in Snapshot
      BY <1>3 DEF TypeOK, Has
    <3> QED BY <3>1, <3>2, <3>3
  <2>4. /\ \A u \in Kinds : Said(r, u, d)' \subseteq Said(r, u, d)
        /\ k # "deleted" => Said(r, "deleted", d)' = Said(r, "deleted", d) /\ e \in News(r, d)
        /\ k = "deleted" => News(r, d)' = News(r, d) /\ e \in Said(r, "deleted", d)
        /\ News(r, d)' \subseteq News(r, d) /\ News(r, d) \subseteq News(r, d)' \cup {e}
    BY <1>7 DEF News, Kinds
  <2>5. k = "deleted" => dish[d].stage = "gone" /\ e.version = dish[d].version
    BY <2>1, <2>4 DEF Bounded
  <2>6. Has(r, d) => Has(r, d)' /\ old.version <= dish[d].version
    <3>1. Has(r, d) => Has(r, d)'
      BY <2>2 DEF Has
    <3>2. ASSUME Has(r, d) PROVE old.version <= dish[d].version
      <4>1. [version |-> old.version, content |-> old.content] \in Known(r, d)
        BY <2>3, <3>2 DEF Known, Version, Snapshot
      <4> QED BY <2>1, <4>1 DEF Bounded
    <3> QED BY <3>1, <3>2
  <2>7. k # "deleted" => e.version <= dish[d].version
    <3> SUFFICES ASSUME k # "deleted" PROVE e.version <= dish[d].version
      OBVIOUS
    <3>1. [version |-> e.version, content |-> e.content] \in Known(r, d)
      BY <1>7, <2>3, <2>4 DEF Known, Version, EventOn
    <3> QED BY <2>1, <3>1 DEF Bounded
  <2>8. k # "deleted" => Known(r, d)' \subseteq Known(r, d)
    <3>1. CASE Stays
      BY <2>4, <3>1 DEF Known, Has
    <3>2. CASE Shows
      BY <2>4, <3>2 DEF Known, Has
    <3> QED BY <2>2, <3>1, <3>2
  <2>9. \A y \in Known(r, d)' : y.version <= dish[d].version /\ (Unsaid(d) => y.version < dish[d].version)
    <3>1. CASE k # "deleted"
      BY <2>1, <2>8, <3>1 DEF Bounded
    <3>2. CASE k = "deleted"
      <4>1. ~Unsaid(d)
        BY <1>11, <1>12, <1>14, <2>5, <3>2 DEF DishOK, Unsaid, AtStep, On
      <4>2. ASSUME NEW y \in Known(r, d)', y \notin Known(r, d) PROVE y.version = dish[d].version
        <5>1. CASE Stays
          BY <2>4, <3>2, <4>2, <5>1 DEF Known, Has
        <5>2. CASE Goes
          BY <2>4, <2>5, <3>2, <4>2, <5>2 DEF Known
        <5> QED BY <2>2, <3>2, <5>1, <5>2
      <4> QED BY <2>1, <2>3, <4>1, <4>2 DEF Bounded
    <3> QED BY <3>1, <3>2
  <2>10. Bounded(r, d)'
    <3>1. \A f \in Said(r, "deleted", d)' : dish[d].stage = "gone" /\ f.version = dish[d].version
      BY <2>1, <2>4 DEF Bounded, Kinds
    <3>2. Has(r, d)' /\ new.removed => dish[d].stage = "gone" /\ new.version = dish[d].version
      <4>1. CASE Stays
        BY <2>1, <4>1 DEF Bounded, Has
      <4>2. CASE Shows
        BY <4>2
      <4>3. CASE Goes
        BY <2>5, <4>3
      <4> QED BY <2>2, <4>1, <4>2, <4>3
    <3> HIDE DEF new
    <3> QED BY <1>2, <1>10, <2>9, <3>1, <3>2 DEF Bounded, new
  <2>11. Latest(r, d)'
    <3> SUFFICES ASSUME Live(d), ~Unsaid(d) PROVE Best(Known(r, d)', dish[d].content)
      BY <1>2, <1>10 DEF Latest, Live
    <3>1. k # "deleted" /\ Known(r, d)' \subseteq Known(r, d) /\ Best(Known(r, d), dish[d].content)
      BY <2>1, <2>5, <2>8 DEF Live, Latest
    <3>2. Known(r, d) \subseteq Version
      BY DEF Known
    <3>3. \E a \in Known(r, d)' : \A x \in Known(r, d) \ Known(r, d)' : x.version <= a.version
      <4>1. CASE Stays
        <5>1. Has(r, d)' /\ e.version <= old.version
          BY <3>1, <4>1 DEF Has
        <5>2. PICK a \in Version : a.version = old.version /\ a.content = old.content
          <6>1. [version |-> old.version, content |-> old.content] \in Version
            BY <2>3, <3>1, <4>1 DEF Version, Snapshot
          <6> QED BY <6>1
        <5>3. a \in Known(r, d)'
          BY <4>1, <5>1, <5>2 DEF Known
        <5>4. \A x \in Known(r, d) \ Known(r, d)' : x.version = e.version
          BY <2>4, <4>1 DEF Known, Has
        <5> QED BY <5>1, <5>2, <5>3, <5>4
      <4>2. CASE Shows
        <5>1. PICK a \in Version : a.version = e.version /\ a.content = e.content
          <6>1. [version |-> e.version, content |-> e.content] \in Version
            BY <1>7, <3>1 DEF Version, EventOn
          <6> QED BY <6>1
        <5>2. a \in Known(r, d)'
          BY <4>2, <5>1 DEF Known
        <5>3. \A x \in Known(r, d) \ Known(r, d)' :
                x.version = e.version \/ (Has(r, d) /\ x.version = old.version)
          BY <2>4, <4>2 DEF Known
        <5>4. Has(r, d) => old.version \in Nat
          BY <2>3 DEF Snapshot
        <5> QED BY <2>3, <4>2, <5>1, <5>2, <5>3, <5>4
      <4> QED BY <2>2, <3>1, <4>1, <4>2
    <3>4. PICK K : K = Known(r, d)
      OBVIOUS
    <3>5. PICK L : L = Known(r, d)'
      OBVIOUS
    <3>6. PICK c : c = dish[d].content
      OBVIOUS
    <3>7. PICK a \in L : \A x \in K \ L : x.version <= a.version
      BY <3>3, <3>4, <3>5
    <3>8. Best(K, c) /\ K \in SUBSET Version /\ L \in SUBSET K
      BY <3>1, <3>2, <3>4, <3>5, <3>6
    <3>9. Best(L, c)
      BY <3>7, <3>8, BestKept
    <3> QED BY <3>5, <3>6, <3>9
  <2>12. Withdrawn(r, d)'
    <3> SUFFICES ASSUME dish[d].stage = "gone", r # "ai", ~Busy(d)
                 PROVE  (Has(r, d)' /\ new.removed) \/ Said(r, "deleted", d)' # {}
      BY <1>2, <1>10 DEF Withdrawn
    <3>1. (Has(r, d) /\ old.removed) \/ Said(r, "deleted", d) # {}
      BY <2>1 DEF Withdrawn
    <3>2. Has(r, d) /\ old.removed => old.version = dish[d].version
      BY <2>1 DEF Bounded
    <3>3. CASE Stays
      <4>1. old.version \in Nat
        BY <2>3, <3>3 DEF Snapshot
      <4>2. k # "deleted"
        BY <2>3, <2>5, <2>6, <3>3, <4>1
      <4>3. Has(r, d)'
        BY <2>6, <3>3
      <4> QED BY <2>4, <3>1, <3>3, <4>2, <4>3
    <3>4. CASE Shows
      <4>1. ASSUME Has(r, d), old.removed PROVE FALSE
        <5>1. old.version \in Nat
          BY <2>3, <4>1 DEF Snapshot
        <5> QED BY <2>3, <2>7, <3>2, <3>4, <4>1, <5>1
      <4> QED BY <2>4, <3>1, <3>4, <4>1
    <3>5. CASE Goes
      BY <3>5
    <3> QED BY <2>2, <3>3, <3>4, <3>5
  <2> QED BY <2>10, <2>11, <2>12 DEF Agrees
<1>15. DishOK(d)'
  BY <1>2, <1>10, <1>11, <1>12, <1>13, <1>14 DEF DishOK
<1> QED BY <1>9, <1>15

LEMMA AgreeNext == AgreeInv /\ [Next]_vars => AgreeInv'
<1> SUFFICES ASSUME AgreeInv, [Next]_vars PROVE AgreeInv'
  OBVIOUS
<1>1. TypeOK' /\ HeldOK'
  BY TypeStep DEF AgreeInv
<1>2. CASE UNCHANGED vars
  <2>1. \A d \in Dishes : DishOK(d)'
    BY <1>2, IdleAgrees, SameSayings DEF vars
  <2> QED BY <1>1, <2>1 DEF AgreeInv
<1>3. CASE Requests
  BY <1>1, <1>3, CreateAgrees, BeginAgrees, NumberAgrees, SaveAgrees, RateAgrees, DeleteAgrees,
     AnnounceAgrees, SaveFailsAgrees, DropAgrees DEF Requests, AgreeInv
<1>4. CASE Consumers
  <2>1. PICK r \in Replicas, t \in Topics :
          Look(r, t) \/ Skip(r, t) \/ Write(r, t) \/ ConsumerDies(r, t) \/ Refuse(r, t)
    BY <1>4 DEF Consumers
  <2>2. CASE Look(r, t)
    <3>1. UNCHANGED <<dish, writer, log, snap, mishaps>>
      BY <2>2 DEF Look, menuSide
    <3>2. \A b \in Dishes : DishOK(b)'
      BY <3>1, IdleAgrees, SameSayings
    <3> QED BY <1>1, <3>2 DEF AgreeInv
  <2>3. CASE Refuse(r, t)
    <3>1. log[r][t] # <<>> /\ UNCHANGED <<dish, writer, snap, mishaps>>
      BY <2>3 DEF Refuse, menuSide
    <3>2. \A q \in Replicas, k \in Kinds, b \in Dishes : Said(q, k, b)' = Said(q, k, b)
      BY <2>3, <3>1, ConsumerSays DEF AgreeInv
    <3>3. \A b \in Dishes : DishOK(b)'
      BY <3>1, <3>2, IdleAgrees
    <3> QED BY <1>1, <3>3 DEF AgreeInv
  <2>4. CASE Skip(r, t) \/ Write(r, t) \/ ConsumerDies(r, t)
    BY <1>1, <2>4, ConsumerAgrees DEF AgreeInv
  <2> QED BY <2>1, <2>2, <2>3, <2>4
<1> QED BY <1>2, <1>3, <1>4 DEF Next

LEMMA AgreeInit == Init => AgreeInv
<1> SUFFICES ASSUME Init PROVE AgreeInv
  OBVIOUS
<1>1. TypeOK /\ HeldOK
  BY TypeInit
<1>2. /\ \A w \in Writers, d \in Dishes : ~On(w, d)
      /\ \A r \in Replicas, d \in Dishes : ~Has(r, d) /\ \A k \in Kinds : Said(r, k, d) = {}
      /\ \A d \in Dishes : dish[d].stage = "new"
  BY DEF Init, On, Has, Said, In, NewRow
<1>3. ASSUME NEW d \in Dishes, NEW r \in Replicas
      PROVE  Agrees(r, d)
  <2>1. News(r, d) = {} /\ Known(r, d) = {} /\ Said(r, "deleted", d) = {}
    BY <1>2 DEF News, Known, Kinds
  <2> QED BY <1>2, <2>1 DEF Agrees, Bounded, Latest, Withdrawn, Live, Unsaid
<1> QED BY <1>1, <1>2, <1>3 DEF AgreeInv, DishOK, Busy, On

\* When all is quiet a snapshot of a dish on the menu shows its last save, and
\* one of a deleted dish is withdrawn (but for the AI service), for any number of
\* dishes, writers, replicas, deaths and replays, unless requests overlapped, or
\* a handler of that replica wrote over something newer or missed the deletion.
THEOREM SnapshotsDoAgree == Spec => []SnapshotsAgree
<1>1. AgreeInv => SnapshotsAgree
  <2> SUFFICES ASSUME AgreeInv, Quiet, NEW r \in Replicas, NEW d \in Dishes,
                      snap[r][d] # NoVal, mishaps[d] \cap {r, "overlap"} = {}
               PROVE  /\ Live(d) => snap[r][d].content = dish[d].content /\ ~snap[r][d].removed
                      /\ dish[d].stage = "gone" /\ r # "ai" => snap[r][d].removed
    BY DEF SnapshotsAgree
  <2>1. Bounded(r, d) /\ Latest(r, d) /\ Withdrawn(r, d)
    BY DEF AgreeInv, DishOK, Agrees
  <2>2. ~Busy(d) /\ ~Unsaid(d) /\ Has(r, d) /\ \A k \in Kinds : Said(r, k, d) = {}
    <3>1. \A t \in Topics : \A f : ~In(log[r][t], f)
      BY DEF Quiet, In
    <3> QED BY <3>1 DEF Quiet, Busy, Unsaid, On, Has, Said
  <2>3. snap[r][d] \in Snapshot
    BY DEF AgreeInv, TypeOK
  <2>4. Live(d) => snap[r][d].content = dish[d].content
    <3> SUFFICES ASSUME Live(d), snap[r][d].content # dish[d].content PROVE FALSE
      OBVIOUS
    <3>1. News(r, d) = {}
      BY <2>2 DEF News, Kinds
    <3>2. PICK k \in Version : k.version = snap[r][d].version /\ k.content = snap[r][d].content
      <4>1. [version |-> snap[r][d].version, content |-> snap[r][d].content] \in Version
        BY <2>3 DEF Version, Snapshot
      <4> QED BY <4>1
    <3>3. k \in Known(r, d) /\ \A y \in Known(r, d) : y.content = k.content
      BY <2>2, <3>1, <3>2 DEF Known
    <3> QED BY <2>1, <2>2, <3>2, <3>3 DEF Latest, Best
  <2>5. Live(d) => ~snap[r][d].removed
    BY <2>1, <2>2 DEF Bounded, Live
  <2>6. dish[d].stage = "gone" /\ r # "ai" => snap[r][d].removed
    BY <2>1, <2>2 DEF Withdrawn, Kinds
  <2> QED BY <2>4, <2>5, <2>6
<1> QED BY <1>1, AgreeInit, AgreeNext, PTL DEF Spec
=============================================================================
