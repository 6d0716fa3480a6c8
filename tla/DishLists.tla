------------------------------ MODULE DishLists ------------------------------
(* The lists of dishes that the menu service keeps in Redis for five minutes *)
(* under a version of the menu.  An administrator's request raises the       *)
(* version after it has committed; a guest's, a waiter's or the AI service's *)
(* asks for the version first, and then for a list of that version.          *)
(*                                                                           *)
(* A dish is a content, which stands for what an administrator may save; a   *)
(* list stands for every query.  Ratings are the subject of DishReviews,     *)
(* menu_version is that of MenuSnapshots.                                    *)
EXTENDS Integers

CONSTANTS
  Entries,   \* dishes
  Contents,
  Editors,   \* administrators' requests that run at the same time
  Readers,   \* requests for a list that run at the same time
  MaxEdits,  \* bounds the administrators' requests
  NoDish     \* no dish, and no list, version or request

ASSUME ListsAssumption == MaxEdits \in Nat

VARIABLES
  category,  \* whether the dishes' category exists
  menu,      \* committed dishes
  desk,      \* administrators' requests
  version,   \* dishes:version in Redis
  lists,     \* the list cached under each version
  reader,    \* requests for a list
  mishaps,   \* what has come in between so far
  edits

listsVars == <<category, menu, desk, version, lists, reader, mishaps, edits>>
------------------------------------------------------------------------------
\* A change that no new version follows; a version that was evicted; a version
\* set to 1 by a request that had not found any, after another had made one.
Mishaps == {"unbumped", "evicted", "reset"}

Versions == 1..(MaxEdits + 1)
Menus == [Entries -> Contents \cup {NoDish}]
Request == [v : Versions, list : Menus \cup {NoDish}]

ASSUME NoDishIsNothing ==
  NoDish \notin Contents \cup Versions \cup Menus \cup Request \cup {"saved", "cold"}

ListsInit ==
  /\ category = TRUE /\ menu = [d \in Entries |-> NoDish]
  /\ desk = [e \in Editors |-> NoDish]
  /\ version = NoDish /\ lists = [v \in Versions |-> NoDish]
  /\ reader = [r \in Readers |-> NoDish]
  /\ mishaps = {} /\ edits = 0
------------------------------------------------------------------------------
(* Administrators *)

Edits == edits < MaxEdits /\ edits' = edits + 1

\* A request puts a dish on the menu or changes it (c is a content), or deletes
\* it.  Nothing is saved without a category.
Writes(d, c) ==
  /\ c # NoDish => category
  /\ menu' = [menu EXCEPT ![d] = c]
  /\ UNCHANGED <<category, version, lists, reader, mishaps>>

\* AdminDishViewSet: create, update, destroy.
EditDish(e, d, c) ==
  /\ desk[e] = NoDish /\ Edits
  /\ c = NoDish => menu[d] # NoDish
  /\ Writes(d, c)
  /\ desk' = [desk EXCEPT ![e] = "saved"]

\* Many dishes in one request: each is saved on its own.
CreateNext(e, d, c) ==
  /\ desk[e] = "saved" /\ menu[d] = NoDish /\ c # NoDish
  /\ Writes(d, c)
  /\ UNCHANGED <<desk, edits>>

\* The event after the commit cannot be produced, or the process dies.
GiveUp(e) ==
  /\ desk[e] # NoDish
  /\ desk' = [desk EXCEPT ![e] = NoDish]
  /\ mishaps' = mishaps \cup {"unbumped"}
  /\ UNCHANGED <<category, menu, version, lists, reader, edits>>

\* bump_dish_cache_version: incr raises ValueError if there is no version.
Bump(e) ==
  /\ desk[e] = "saved"
  /\ IF version = NoDish
     THEN desk' = [desk EXCEPT ![e] = "cold"] /\ UNCHANGED version
     ELSE desk' = [desk EXCEPT ![e] = NoDish] /\ version' = version + 1
  /\ UNCHANGED <<category, menu, lists, reader, mishaps, edits>>

StartVersions(e) ==
  /\ desk[e] = "cold"
  /\ version' = 1
  /\ desk' = [desk EXCEPT ![e] = NoDish]
  /\ mishaps' = IF version = NoDish THEN mishaps ELSE mishaps \cup {"reset"}
  /\ UNCHANGED <<category, menu, lists, reader, edits>>

\* AdminCategoryViewSet.destroy: the dishes go with their category, without an
\* event and without a new version.
DropCategory ==
  /\ category /\ category' = FALSE /\ Edits
  /\ menu' = [d \in Entries |-> NoDish]
  /\ mishaps' = mishaps \cup {"unbumped"}
  /\ UNCHANGED <<desk, version, lists, reader>>
------------------------------------------------------------------------------
(* Readers *)

\* get_or_set: a version that is missing becomes 1.
AskVersion(r) ==
  /\ reader[r] = NoDish
  /\ version' = IF version = NoDish THEN 1 ELSE version
  /\ reader' = [reader EXCEPT ![r] = [v |-> version', list |-> NoDish]]
  /\ UNCHANGED <<category, menu, desk, lists, mishaps, edits>>

Asks(r) == reader[r] # NoDish /\ reader[r].list = NoDish

\* The list is cached: it answers the request.
Hit(r) ==
  /\ Asks(r) /\ lists[reader[r].v] # NoDish
  /\ reader' = [reader EXCEPT ![r] = NoDish]
  /\ UNCHANGED <<category, menu, desk, version, lists, mishaps, edits>>

\* It is not: the database answers.
Query(r) ==
  /\ Asks(r) /\ lists[reader[r].v] = NoDish
  /\ reader' = [reader EXCEPT ![r].list = menu]
  /\ UNCHANGED <<category, menu, desk, version, lists, mishaps, edits>>

\* Mutated form: the list is stored under the version of this moment.
CacheNow(r) ==
  /\ reader[r] # NoDish /\ reader[r].list # NoDish /\ version # NoDish
  /\ lists' = [lists EXCEPT ![version] = reader[r].list]
  /\ reader' = [reader EXCEPT ![r] = NoDish]
  /\ UNCHANGED <<category, menu, desk, version, mishaps, edits>>

Cache(r) ==
  /\ reader[r] # NoDish /\ reader[r].list # NoDish
  /\ lists' = [lists EXCEPT ![reader[r].v] = reader[r].list]
  /\ reader' = [reader EXCEPT ![r] = NoDish]
  /\ UNCHANGED <<category, menu, desk, version, mishaps, edits>>

\* Five minutes have passed.
Expire(v) ==
  /\ lists[v] # NoDish
  /\ lists' = [lists EXCEPT ![v] = NoDish]
  /\ UNCHANGED <<category, menu, desk, version, reader, mishaps, edits>>

\* Redis is short of memory, or was restarted.
Evict ==
  /\ version # NoDish /\ version' = NoDish
  /\ mishaps' = mishaps \cup {"evicted"}
  /\ UNCHANGED <<category, menu, desk, lists, reader, edits>>

Administer ==
  \/ \E e \in Editors :
       \/ \E d \in Entries, c \in Contents \cup {NoDish} : EditDish(e, d, c) \/ CreateNext(e, d, c)
       \/ GiveUp(e) \/ Bump(e) \/ StartVersions(e)
  \/ DropCategory
Read == \E r \in Readers : AskVersion(r) \/ Hit(r) \/ Query(r) \/ Cache(r)

ListsNext == Administer \/ Read \/ (\E v \in Versions : Expire(v)) \/ Evict

ListsSpec == ListsInit /\ [][ListsNext]_listsVars
------------------------------------------------------------------------------
(* Properties *)

\* Types of the menu, the requests and what Redis keeps.
ListsTypeOK ==
  /\ category \in BOOLEAN
  /\ menu \in Menus
  /\ desk \in [Editors -> {NoDish, "saved", "cold"}]
  /\ version \in Versions \cup {NoDish}
  /\ lists \in [Versions -> Menus \cup {NoDish}]
  /\ reader \in [Readers -> Request \cup {NoDish}]
  /\ mishaps \subseteq Mishaps /\ edits \in 0..MaxEdits

\* A request has committed and not yet raised the version.
Unannounced == \E e \in Editors : desk[e] # NoDish

\* Who asks for a list once the requests that changed the menu are through is
\* shown the menu as it is, however long other readers took to store what they
\* had queried before, unless one of three mishaps has happened.
ListsCurrent ==
  mishaps = {} /\ ~Unannounced /\ version # NoDish => lists[version] \in {NoDish, menu}
=============================================================================
