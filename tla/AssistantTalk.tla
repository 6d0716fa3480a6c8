---------------------------- MODULE AssistantTalk ----------------------------
(* The AI waiter's conversation with a guest.  A message reads the session,   *)
(* takes the profiles of restaurant and guest from it if it has both, or asks *)
(* for them, and saves the session when it has been answered; messages of one *)
(* guest may overlap.  Each process looks the restaurant up once in its life, *)
(* or again when 128 others were asked for (lru_cache); there may be several, *)
(* and any answers a message.  A session is in Redis, for all of them, for    *)
(* half an hour after its last message.                                       *)
(*                                                                            *)
(* A profile is the number of the write that stored it, 0 no profile: what is *)
(* written is AssistantMemory's.  The text of the conversation is left out.   *)
EXTENDS Naturals

CONSTANTS
  Webs,       \* processes of the AI service, up to 3 in the cluster
  Messages,   \* messages of the guest that are answered at the same time
  MaxWrites,  \* bounds the writes of a profile, not in the code
  Unasked     \* no profile looked up

VARIABLES
  profile,     \* the stored profiles
  by,          \* the process that answers each message
  remembered,  \* what each process remembers of the restaurant, if it asked
  session,     \* the profiles in the session, if any
  turn,        \* the profiles each message is answered with
  lately,      \* the restaurant's profiles since each process started
  during       \* profiles that an answer in this conversation may be based on

talkVars == <<profile, by, remembered, session, turn, lately, during>>
------------------------------------------------------------------------------
Subjects == {"restaurant", "user"}
Profiles == [Subjects -> 0..MaxWrites]

ASSUME TalkAssumption ==
  MaxWrites \in Nat /\ Unasked \notin Nat /\ Unasked \notin Profiles

TalkInit ==
  /\ profile = [s \in Subjects |-> 0]
  /\ by \in [Messages -> Webs]
  /\ remembered = [w \in Webs |-> Unasked] /\ session = Unasked
  /\ turn = [m \in Messages |-> Unasked]
  /\ lately = [w \in Webs |-> {0}] /\ during = [s \in Subjects |-> {}]

\* The consumer, a process of its own, stores a profile.
StoreProfile(s) ==
  /\ profile[s] < MaxWrites
  /\ profile' = [profile EXCEPT ![s] = @ + 1]
  /\ lately' = IF s = "restaurant" THEN [w \in Webs |-> lately[w] \cup {profile'[s]}] ELSE lately
  /\ during' = [during EXCEPT ![s] = @ \cup {profile'[s]}]
  /\ UNCHANGED <<by, remembered, session, turn>>

\* get_restaurant_metadata: nothing found is remembered too.
Lookup(w) == IF remembered[w] = Unasked THEN profile["restaurant"] ELSE remembered[w]
Answering == {m \in Messages : turn[m] # Unasked}

\* Both profiles were found.
Kept == session # Unasked /\ \A s \in Subjects : session[s] > 0

TakeProfiles(m) ==
  IF Kept
  THEN turn' = [turn EXCEPT ![m] = session] /\ UNCHANGED remembered
  ELSE /\ turn' = [turn EXCEPT ![m] = [restaurant |-> Lookup(by[m]), user |-> profile["user"]]]
       /\ remembered' = [remembered EXCEPT ![by[m]] = Lookup(by[m])]

\* run_agent, up to the model's turn.
Begin(m) ==
  /\ turn[m] = Unasked
  /\ TakeProfiles(m)
  /\ during' = IF session = Unasked /\ Answering = {}
               THEN [restaurant |-> UNION {lately[w] : w \in Webs}, user |-> {profile["user"]}]
               ELSE during
  /\ UNCHANGED <<profile, by, session, lately>>

\* The session is saved with the profiles the message was answered with.
EndTurn(m) ==
  /\ turn[m] # Unasked
  /\ session' = turn[m] /\ turn' = [turn EXCEPT ![m] = Unasked]
  /\ UNCHANGED <<profile, by, remembered, lately, during>>

\* "I hit a small snag": the session stays as it was.
Snag(m) ==
  /\ turn[m] # Unasked
  /\ turn' = [turn EXCEPT ![m] = Unasked]
  /\ UNCHANGED <<profile, by, remembered, session, lately, during>>

\* Half an hour without a message.
SessionExpires ==
  /\ session # Unasked /\ Answering = {}
  /\ session' = Unasked
  /\ UNCHANGED <<profile, by, remembered, turn, lately, during>>

\* Mutated form: the restaurant is remembered beyond the process.
RestartRemembers(w) ==
  /\ turn' = [m \in Messages |-> IF by[m] = w THEN Unasked ELSE turn[m]]
  /\ lately' = [lately EXCEPT ![w] = {profile["restaurant"]}]
  /\ UNCHANGED <<profile, by, remembered, session, during>>

\* A process is started again: its lru_cache is empty, Redis is not.
WebRestarts(w) ==
  /\ remembered' = [remembered EXCEPT ![w] = Unasked]
  /\ turn' = [m \in Messages |-> IF by[m] = w THEN Unasked ELSE turn[m]]
  /\ lately' = [lately EXCEPT ![w] = {profile["restaurant"]}]
  /\ UNCHANGED <<profile, by, session, during>>

\* lru_cache drops the restaurant for others.
ForgetRestaurant(w) ==
  /\ remembered[w] # Unasked
  /\ remembered' = [remembered EXCEPT ![w] = Unasked]
  /\ UNCHANGED <<profile, by, session, turn, lately, during>>

TalkNext ==
  \/ \E s \in Subjects : StoreProfile(s)
  \/ \E m \in Messages : Begin(m) \/ EndTurn(m) \/ Snag(m)
  \/ SessionExpires \/ \E w \in Webs : WebRestarts(w) \/ ForgetRestaurant(w)

TalkSpec == TalkInit /\ [][TalkNext]_talkVars
------------------------------------------------------------------------------
(* Properties *)

\* Types of the caches.
TalkTypeOK ==
  /\ profile \in Profiles
  /\ by \in [Messages -> Webs] /\ remembered \in [Webs -> (0..MaxWrites) \cup {Unasked}]
  /\ session \in Profiles \cup {Unasked}
  /\ turn \in [Messages -> Profiles \cup {Unasked}]
  /\ lately \in [Webs -> SUBSET (0..MaxWrites)] /\ during \in [Subjects -> SUBSET (0..MaxWrites)]

\* Whatever messages, processes, writes and restarts overlap, a guest is told of
\* himself what was stored when the conversation began or since, and of the
\* restaurant what was stored when the oldest process of those that ran then was
\* started, or since.
TalkFollows ==
  \A p \in {session} \cup {turn[m] : m \in Messages} :
    p # Unasked => \A s \in Subjects : p[s] \in during[s]
=============================================================================
