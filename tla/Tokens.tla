------------------------------- MODULE Tokens -------------------------------
(* The refresh tokens of the auth service.  A login starts a chain of tokens *)
(* in a cookie; a refresh verifies the token and the user, issues the next   *)
(* one and puts its own on the blacklist; a logout puts it there alone.      *)
(* Nothing holds a lock in between.  Access tokens, which no service asks    *)
(* for after their half hour, are left out.                                  *)
EXTENDS Integers, FiniteSets

CONSTANTS
  Holders,    \* users who log in
  Chains,     \* their logins
  Calls,      \* requests that run at the same time
  MaxTokens,  \* bounds the tokens of a chain
  NoCall      \* no request, and no login

ASSUME TokensAssumption == MaxTokens \in Nat \ {0}

VARIABLES
  rank,      \* of each user
  standing,  \* whether the user exists and is active
  chain,     \* each login's user, tokens, those that are void, and whether it has ended
  call,      \* requests that have verified a token
  crossed    \* chains of which two requests were under way at once

tokenVars == <<rank, standing, chain, call, crossed>>
------------------------------------------------------------------------------
Ranks == {"customer", "staff", "super-admin"}
Standings == {"absent", "active", "blocked", "gone"}
Numbers == 1..MaxTokens
Chain == [user : Holders, issued : Numbers, void : SUBSET Numbers, ended : BOOLEAN]
Claim == [op : {"refresh", "logout"}, chain : Chains, token : Numbers]

ASSUME NoCallIsNothing == NoCall \notin Chain \cup Claim

Live(s) == (1..chain[s].issued) \ chain[s].void

TokensInit ==
  /\ rank \in [Holders -> Ranks] /\ standing = [u \in Holders |-> "absent"]
  /\ chain = [s \in Chains |-> NoCall] /\ call = [c \in Calls |-> NoCall] /\ crossed = {}

\* Staff is entered; whoever exists is blocked, let in again, or deleted.
StandingChanges(u, to) ==
  /\ standing[u] # "gone"
  /\ standing[u] = "absent" => rank[u] # "customer" /\ to = "active"
  /\ standing' = [standing EXCEPT ![u] = to]
  /\ UNCHANGED <<rank, chain, call, crossed>>

LogIn(s, u) ==
  /\ chain[s] = NoCall
  /\ chain' = [chain EXCEPT ![s] = [user |-> u, issued |-> 1, void |-> {}, ended |-> FALSE]]
  /\ UNCHANGED <<rank, call, crossed>>

\* UserRegistrationView
Register(s, u) ==
  /\ rank[u] = "customer" /\ standing[u] = "absent"
  /\ standing' = [standing EXCEPT ![u] = "active"] /\ LogIn(s, u)

\* UserLoginWithFirebaseView
GuestLogsIn(s, u) ==
  rank[u] = "customer" /\ standing[u] = "active" /\ LogIn(s, u) /\ UNCHANGED standing

\* EmployeeLoginView
StaffLogsIn(s, u) ==
  rank[u] = "staff" /\ standing[u] = "active" /\ LogIn(s, u) /\ UNCHANGED standing

\* SuperAdminLoginView
SuperAdminLogsIn(s, u) ==
  rank[u] = "super-admin" /\ standing[u] = "active" /\ LogIn(s, u) /\ UNCHANGED standing

\* The cookie's token is genuine, not expired and not on the blacklist; a
\* refresh also finds the user, who is active.
Verify(c, op, s, t) ==
  /\ call[c] = NoCall /\ chain[s] # NoCall /\ t \in Live(s)
  /\ op = "refresh" => standing[chain[s].user] = "active"
  /\ call' = [call EXCEPT ![c] = [op |-> op, chain |-> s, token |-> t]]
  /\ crossed' = IF \E d \in Calls : call[d] # NoCall /\ call[d].chain = s
                THEN crossed \cup {s} ELSE crossed
  /\ UNCHANGED <<rank, standing, chain>>

Underway(c, op) == call[c] # NoCall /\ call[c].op = op
Finish(c) == call' = [call EXCEPT ![c] = NoCall]

\* Mutated form: the old token stays valid.
RefreshOnly(c) ==
  LET s == call[c].chain
  IN /\ Underway(c, "refresh") /\ chain[s].issued < MaxTokens
     /\ chain' = [chain EXCEPT ![s].issued = @ + 1]
     /\ Finish(c) /\ UNCHANGED <<rank, standing, crossed>>

\* CookieTokenRefreshView: the cookie gets the new token when the old one is void.
Refresh(c) ==
  LET s == call[c].chain
  IN /\ Underway(c, "refresh") /\ chain[s].issued < MaxTokens
     /\ chain' = [chain EXCEPT ![s].issued = @ + 1, ![s].void = @ \cup {call[c].token}]
     /\ Finish(c) /\ UNCHANGED <<rank, standing, crossed>>

\* CustomLogoutView
LogOut(c) ==
  LET s == call[c].chain
  IN /\ Underway(c, "logout")
     /\ chain' = [chain EXCEPT ![s].ended = TRUE, ![s].void = @ \cup {call[c].token}]
     /\ Finish(c) /\ UNCHANGED <<rank, standing, crossed>>

\* The request ends before it has written anything.
CallFails(c) ==
  /\ call[c] # NoCall /\ Finish(c)
  /\ UNCHANGED <<rank, standing, chain, crossed>>

\* After seven days.
TokenExpires(s, t) ==
  /\ chain[s] # NoCall /\ t \in Live(s)
  /\ chain' = [chain EXCEPT ![s].void = @ \cup {t}]
  /\ UNCHANGED <<rank, standing, call, crossed>>

TokensNext ==
  \/ \E u \in Holders, to \in Standings \ {"absent"} : StandingChanges(u, to)
  \/ \E s \in Chains, u \in Holders :
       Register(s, u) \/ GuestLogsIn(s, u) \/ StaffLogsIn(s, u) \/ SuperAdminLogsIn(s, u)
  \/ \E c \in Calls :
       \/ \E op \in {"refresh", "logout"}, s \in Chains, t \in Numbers : Verify(c, op, s, t)
       \/ Refresh(c) \/ LogOut(c) \/ CallFails(c)
  \/ \E s \in Chains, t \in Numbers : TokenExpires(s, t)

TokensSpec == TokensInit /\ [][TokensNext]_tokenVars
------------------------------------------------------------------------------
(* Properties *)

\* Types of the chains and the requests.
TokensTypeOK ==
  /\ rank \in [Holders -> Ranks] /\ standing \in [Holders -> Standings]
  /\ \A s \in Chains : chain[s] = NoCall \/ chain[s] \in Chain
  /\ \A c \in Calls : call[c] = NoCall \/ call[c] \in Claim
  /\ crossed \subseteq Chains

\* A login has one token that works, and none once it was logged out, however
\* often it was refreshed and whatever expired or failed in between, unless two
\* of its requests were under way at the same time.
LoginsEnd ==
  \A s \in Chains \ crossed : chain[s] # NoCall =>
    /\ Cardinality(Live(s)) <= 1
    /\ chain[s].ended => Live(s) = {}
=============================================================================
