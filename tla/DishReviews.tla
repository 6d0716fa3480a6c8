----------------------------- MODULE DishReviews -----------------------------
(* Reviews and the ratings of their dishes.  A review and the rating that    *)
(* follows from it are written in one transaction, READ COMMITTED: it sees   *)
(* what is committed when it computes the rating, and its own review.  An    *)
(* administrator who edits a dish meanwhile writes the whole row, the rating *)
(* as it was read; the other columns are left out.                           *)
(*                                                                           *)
(* A rating is the set of reviews it was computed from: average and count    *)
(* are functions of it.                                                      *)
EXTENDS Integers, FiniteSets

CONSTANTS
  Dishes, Users, Stars,
  Admins,   \* administrators' requests that run at the same time
  Posts,    \* requests that write a review at the same time
  None      \* no dish, and no request

VARIABLES
  dish,       \* committed rows: their ratings
  reviews,    \* committed reviews
  editing,    \* administrators' requests: the rating they have read
  post,       \* transactions that write a review
  overlapped, \* dishes on which requests overlapped since a review was alone
  crowded     \* requests that met another on their dish

reviewVars == <<dish, reviews, editing, post, overlapped, crowded>>
------------------------------------------------------------------------------
Review == [d : Dishes, u : Users, stars : Stars]
Rating == SUBSET Review
Edit == [op : {"update", "delete"}, d : Dishes, rated : Rating]
Post == [op : {"add", "edit", "remove"}, r : Review, rated : Rating \cup {None}]

ASSUME NoneIsNothing ==
  /\ None \notin Edit \cup Post
  /\ \A s \in Rating : s # None
  /\ Admins \cap Posts = {}

OnMenu(d) == dish[d] # None
ReviewsOf(d) == {r \in reviews : r.d = d}

ReviewsInit ==
  /\ dish = [d \in Dishes |-> None] /\ reviews = {}
  /\ editing = [e \in Admins |-> None] /\ post = [p \in Posts |-> None]
  /\ overlapped = {} /\ crowded = {}

\* Requests at work on the dish.
At(d) == {e \in Admins : editing[e] # None /\ editing[e].d = d}
         \cup {p \in Posts : post[p] # None /\ post[p].r.d = d}

\* Request x begins on the dish, or ends.
Meets(x, d) ==
  IF At(d) = {} THEN UNCHANGED <<overlapped, crowded>>
  ELSE overlapped' = overlapped \cup {d} /\ crowded' = crowded \cup At(d) \cup {x}
Leaves(x) == crowded' = crowded \ {x}
------------------------------------------------------------------------------
(* Administrators *)

Create(d) ==
  /\ ~OnMenu(d)
  /\ dish' = [dish EXCEPT ![d] = {}]
  /\ UNCHANGED <<reviews, editing, post, overlapped, crowded>>

\* get_object: the request has read the row.
Open(e, op, d) ==
  /\ editing[e] = None /\ OnMenu(d)
  /\ editing' = [editing EXCEPT ![e] = [op |-> op, d |-> d, rated |-> dish[d]]]
  /\ Meets(e, d)
  /\ UNCHANGED <<dish, reviews, post>>

Close(e) == editing' = [editing EXCEPT ![e] = None] /\ Leaves(e)

\* DishWriteSerializer.update: a row that has gone is inserted again.
Save(e) ==
  LET k == editing[e]
  IN /\ k # None /\ k.op = "update"
     /\ dish' = [dish EXCEPT ![k.d] = k.rated]
     /\ Close(e)
     /\ UNCHANGED <<reviews, post, overlapped>>

\* A review that is being inserted refers to the dish's row.
Referred(d) == \E p \in Posts : post[p] # None /\ post[p].op = "add" /\ post[p].r.d = d

\* Mutated form: the reviews stay.
DeleteAlone(e) ==
  LET k == editing[e]
  IN /\ k # None /\ k.op = "delete" /\ ~Referred(k.d)
     /\ dish' = [dish EXCEPT ![k.d] = None]
     /\ Close(e)
     /\ UNCHANGED <<reviews, post, overlapped>>

\* The reviews go with their dish.
Delete(e) ==
  LET k == editing[e]
  IN /\ k # None /\ k.op = "delete" /\ ~Referred(k.d)
     /\ dish' = [dish EXCEPT ![k.d] = None]
     /\ reviews' = reviews \ ReviewsOf(k.d)
     /\ Close(e)
     /\ UNCHANGED <<post, overlapped>>
------------------------------------------------------------------------------
(* Reviews *)

\* The unique constraint, and the row's lock.
Locked(d, u) == \E p \in Posts : post[p] # None /\ post[p].r.d = d /\ post[p].r.u = u

\* Inside the transaction a user's first review of the dish is inserted, or one
\* is edited or deleted by an administrator.
Write(p, op, r) ==
  /\ post[p] = None /\ OnMenu(r.d) /\ ~Locked(r.d, r.u)
  /\ CASE op = "add"    -> \A q \in ReviewsOf(r.d) : q.u # r.u
       [] op = "edit"   -> r \notin reviews /\ \E q \in ReviewsOf(r.d) : q.u = r.u
       [] op = "remove" -> r \in reviews
  /\ post' = [post EXCEPT ![p] = [op |-> op, r |-> r, rated |-> None]]
  /\ Meets(p, r.d)
  /\ UNCHANGED <<dish, reviews, editing>>

\* The committed reviews with the transaction's own change.
Seen(w) ==
  {r \in reviews : ~(r.d = w.r.d /\ r.u = w.r.u)} \cup (IF w.op = "remove" THEN {} ELSE {w.r})

\* Mutated form: the rating is computed without the transaction's own change.
SyncBefore(p) ==
  /\ post[p] # None /\ post[p].rated = None
  /\ post' = [post EXCEPT ![p].rated = ReviewsOf(post[p].r.d)]
  /\ UNCHANGED <<dish, reviews, editing, overlapped, crowded>>

\* _sync_dish_rating, up to the save.
Sync(p) ==
  /\ post[p] # None /\ post[p].rated = None
  /\ post' = [post EXCEPT ![p].rated = {r \in Seen(post[p]) : r.d = post[p].r.d}]
  /\ UNCHANGED <<dish, reviews, editing, overlapped, crowded>>

Ends(p) == post' = [post EXCEPT ![p] = None] /\ Leaves(p)

\* The rating is saved and the transaction commits.
Commit(p) ==
  LET w == post[p]
  IN /\ w # None /\ w.rated # None /\ OnMenu(w.r.d)
     /\ dish' = [dish EXCEPT ![w.r.d] = w.rated]
     /\ reviews' = Seen(w)
     /\ overlapped' = IF p \in crowded THEN overlapped ELSE overlapped \ {w.r.d}
     /\ Ends(p)
     /\ UNCHANGED editing

\* The dish has gone, or an error: the transaction is rolled back.
Rollback(p) ==
  /\ post[p] # None
  /\ Ends(p)
  /\ UNCHANGED <<dish, reviews, editing, overlapped>>

ReviewsNext ==
  \/ \E d \in Dishes : Create(d)
  \/ \E e \in Admins :
       \/ \E op \in {"update", "delete"}, d \in Dishes : Open(e, op, d)
       \/ Save(e) \/ Delete(e)
  \/ \E p \in Posts :
       \/ \E op \in {"add", "edit", "remove"}, r \in Review : Write(p, op, r)
       \/ Sync(p) \/ Commit(p) \/ Rollback(p)

ReviewsSpec == ReviewsInit /\ [][ReviewsNext]_reviewVars
------------------------------------------------------------------------------
(* Properties *)

\* Types of the rows and the requests.
ReviewsTypeOK ==
  /\ dish \in [Dishes -> Rating \cup {None}] /\ reviews \subseteq Review
  /\ editing \in [Admins -> Edit \cup {None}]
  /\ post \in [Posts -> Post \cup {None}]
  /\ overlapped \subseteq Dishes /\ crowded \subseteq Admins \cup Posts

\* A user has one review of a dish at most.  The rating of a dish is that of
\* its reviews, and none are left of a dish that has gone, unless requests
\* overlapped on it; and the next review that meets no other request makes it
\* right again.
RatingsAgree ==
  /\ \A r, q \in reviews : r.d = q.d /\ r.u = q.u => r = q
  /\ \A d \in Dishes \ overlapped :
       IF OnMenu(d) THEN dish[d] = ReviewsOf(d) ELSE ReviewsOf(d) = {}
=============================================================================
