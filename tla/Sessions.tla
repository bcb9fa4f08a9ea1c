------------------------------ MODULE Sessions ------------------------------
(***************************************************************************)
(* Sessions of music-identity-gatekeeper: token pairs are issued at login, *)
(* rotated by refresh and revoked by logout (internal/token/service.go,    *)
(* internal/refresh/repository.go, internal/revocation/store.go,           *)
(* internal/auth/middleware.go, internal/profile/service.go).              *)
(*                                                                         *)
(* Any number of requests run at once; one statement or transaction of     *)
(* PostgreSQL or one Redis command is one step.  A pair is named by one    *)
(* element of Tokens, which stands for its refresh token and for the jti   *)
(* of its access token: both are random and never drawn twice.  A tier is  *)
(* the number of the upgrade that set it.                                  *)
(***************************************************************************)
EXTENDS Naturals, FiniteSets

CONSTANTS
  Users,
  Tokens,     \* token pairs
  Requests,   \* requests to the service
  MaxFaults,  \* bound: failed calls, disconnects and crashes
  None

ASSUME SessionsAssumption == None \notin Tokens \cup Users /\ MaxFaults \in Nat

VARIABLES
  row,          \* refresh_tokens: "absent", "active" or "revoked"
  user,         \* its user_id
  parent,       \* the pair it was rotated from
  session,      \* the pair its session began with
  overdue,      \* pairs whose refresh token is past expires_at
  lapsed,       \* pairs whose access token is past exp
  claim,        \* the tier its access token claims
  blacklisted,  \* the jtis Redis holds
  tier,         \* listener_profiles.subscription_tier
  held,         \* pairs that a response has handed out
  req,          \* what a request is about
  pc,           \* where a request is, or its answer
  read,         \* the tier a request has read
  since,        \* history: the tier when the request came in
  faults        \* faults so far

rows    == <<row, user, parent, session, claim>>
clock   == <<overdue, lapsed>>
request == <<req, read, since>>
vars    == <<rows, clock, blacklisted, tier, held, request, pc, faults>>

Ops     == {"issue", "upgrade", "refresh", "logout"}
Active  == {"upgrade", "tier", "store", "lookup", "rotate", "authorize", "blacklist", "revoke"}
Answers == {"200", "204", "401", "500", "503", "lost"}
Request == [op : Ops, user : Users \cup {None}, refresh : Tokens \cup {None},
            access : Tokens \cup {None}]

Fault   == faults < MaxFaults /\ faults' = faults + 1
NoFault == UNCHANGED faults

Init ==
  /\ row = [t \in Tokens |-> "absent"]
  /\ user = [t \in Tokens |-> None]
  /\ parent = [t \in Tokens |-> None]
  /\ session = [t \in Tokens |-> None]
  /\ overdue = {}
  /\ lapsed = {}
  /\ claim = [t \in Tokens |-> 0]
  /\ blacklisted = {}
  /\ tier = [u \in Users |-> 0]
  /\ held = {}
  /\ req = [r \in Requests |-> None]
  /\ pc = [r \in Requests |-> "new"]
  /\ read = [r \in Requests |-> 0]
  /\ since = [r \in Requests |-> 0]
  /\ faults = 0

Goto(r, label) == pc' = [pc EXCEPT ![r] = label]

-----------------------------------------------------------------------------
(* Requests come in.                                                       *)

Receive(r, q, u, label) ==
  /\ pc[r] = "new"
  /\ req' = [req EXCEPT ![r] = q]
  /\ since' = [since EXCEPT ![r] = tier[u]]
  /\ Goto(r, label)
  /\ UNCHANGED <<rows, clock, blacklisted, tier, held, read, faults>>

Asks(op, u, t, a) == [op |-> op, user |-> u, refresh |-> t, access |-> a]

\* Login or the OAuth callback has identified user u.
Login(r, u) == Receive(r, Asks("issue", u, None, None), u, "tier")

\* profile.Service.Upgrade.
Upgrade(r, u) == Receive(r, Asks("upgrade", u, None, None), u, "upgrade")

\* A client presents a refresh token, perhaps one it has used or revoked before.
Refresh(r, t) ==
  /\ t \in held
  /\ Receive(r, Asks("refresh", None, t, None), user[t], "lookup")

\* A client presents an access token and a refresh token, perhaps of another pair.
Logout(r, a, t) ==
  /\ a \in held /\ t \in held
  /\ Receive(r, Asks("logout", user[a], t, a), user[a], "authorize")

-----------------------------------------------------------------------------
(* Issuing a pair: IssueTokenPair.                                         *)

\* The tier is written before the pair is issued.
SetTier(r) ==
  /\ pc[r] = "upgrade"
  /\ tier' = [tier EXCEPT ![req[r].user] = @ + 1]
  /\ Goto(r, "tier")
  /\ UNCHANGED <<rows, clock, blacklisted, held, request, faults>>

Subject(r) == IF req[r].op = "refresh" THEN user[req[r].refresh] ELSE req[r].user

\* Mutant: a refresh copies the tier of the pair it rotates.
MutantCopiedTier(r) == IF req[r].op = "refresh" THEN claim[req[r].refresh] ELSE tier[Subject(r)]

\* The tier as persisted.
CurrentTier(r) == tier[Subject(r)]

\* GetTier; the access token is generated from what it returns.
GetTier(r) ==
  /\ pc[r] = "tier"
  /\ read' = [read EXCEPT ![r] = CurrentTier(r)]
  /\ Goto(r, IF req[r].op = "refresh" THEN "rotate" ELSE "store")
  /\ UNCHANGED <<rows, clock, blacklisted, tier, held, req, since, faults>>

\* The INSERT of a new refresh token, with the claims its access token was signed with.
Insert(r, t, from) ==
  /\ row[t] = "absent"
  /\ row' = [x \in Tokens |-> IF x = t THEN "active" ELSE IF x = from THEN "revoked" ELSE row[x]]
  /\ user' = [user EXCEPT ![t] = Subject(r)]
  /\ parent' = [parent EXCEPT ![t] = from]
  /\ session' = [session EXCEPT ![t] = IF from = None THEN t ELSE session[from]]
  /\ claim' = [claim EXCEPT ![t] = read[r]]

CreateRefreshToken(r, t) ==
  /\ pc[r] = "store"
  /\ Insert(r, t, None)
  /\ held' = held \cup {t}
  /\ Goto(r, "200")
  /\ UNCHANGED <<clock, blacklisted, tier, request, faults>>

-----------------------------------------------------------------------------
(* Refresh: RefreshAccessToken and Rotate.                                 *)

Usable(t) == row[t] = "active" /\ t \notin overdue

\* GetByHash and the checks on the row it returns.
LookupRefresh(r) ==
  /\ pc[r] = "lookup" /\ req[r].op = "refresh"
  /\ Goto(r, IF Usable(req[r].refresh) THEN "tier" ELSE "401")
  /\ UNCHANGED <<rows, clock, blacklisted, tier, held, request, faults>>

\* Mutant: the UPDATE of Rotate does not look at revoked.
MutantRotatable(t) == row[t] # "absent"

\* UPDATE ... WHERE token_hash = $1 AND revoked = false: the row as it is by then.
Rotatable(t) == row[t] = "active"

\* The transaction of Rotate: the old row is revoked and the new one inserted.
Rotate(r, t) ==
  /\ pc[r] = "rotate" /\ Rotatable(req[r].refresh)
  /\ Insert(r, t, req[r].refresh)
  /\ held' = held \cup {t}
  /\ Goto(r, "200")
  /\ UNCHANGED <<clock, blacklisted, tier, request, faults>>

RotateRejected(r) ==
  /\ pc[r] = "rotate" /\ ~Rotatable(req[r].refresh)
  /\ Goto(r, "401")
  /\ UNCHANGED <<rows, clock, blacklisted, tier, held, request, faults>>

-----------------------------------------------------------------------------
(* Logout: AuthMiddleware, then token.Service.Logout.                      *)

\* The access token is refused once it is past exp or its jti is blacklisted.
Authorized(a) == a \notin lapsed /\ a \notin blacklisted

Authorize(r) ==
  /\ pc[r] = "authorize"
  /\ Goto(r, IF Authorized(req[r].access) THEN "lookup" ELSE "401")
  /\ UNCHANGED <<rows, clock, blacklisted, tier, held, request, faults>>

\* GetByHash: the refresh token must be the user's own and not revoked.
LookupLogout(r) ==
  /\ pc[r] = "lookup" /\ req[r].op = "logout"
  /\ Goto(r, IF row[req[r].refresh] = "active" /\ user[req[r].refresh] = req[r].user
             THEN "blacklist" ELSE "401")
  /\ UNCHANGED <<rows, clock, blacklisted, tier, held, request, faults>>

\* SET with the access token's remaining lifetime, which must be positive.
Blacklist(r) ==
  /\ pc[r] = "blacklist"
  /\ \/ /\ req[r].access \in lapsed
        /\ Goto(r, "503")
        /\ UNCHANGED blacklisted
     \/ /\ req[r].access \notin lapsed
        /\ blacklisted' = blacklisted \cup {req[r].access}
        /\ Goto(r, "revoke")
  /\ UNCHANGED <<rows, clock, tier, held, request, faults>>

\* Revoke is unconditional: a row rotated in between is revoked already.
Revoke(r) ==
  /\ pc[r] = "revoke"
  /\ row' = [row EXCEPT ![req[r].refresh] = "revoked"]
  /\ Goto(r, "204")
  /\ UNCHANGED <<user, parent, session, claim, clock, blacklisted, tier, held, request, faults>>

-----------------------------------------------------------------------------
(* Failures and the passing of time.                                       *)

\* How a request is answered when its call fails.
Failure(r) ==
  CASE req[r].op \in {"issue", "upgrade"} -> "500"
    [] req[r].op = "refresh" -> "401"
    [] pc[r] \in {"authorize", "blacklist"} -> "503"
    [] OTHER -> "401"

\* The call a request is at fails without effect, or the process is gone.
CallFails(r) ==
  /\ pc[r] \in Active
  /\ Fault
  /\ \E answer \in {Failure(r), "lost"} : Goto(r, answer)
  /\ UNCHANGED <<rows, clock, blacklisted, tier, held, request>>

\* A write takes effect, but its answer, or the response, is lost.
AnswerLost(r) ==
  /\ Fault
  /\ \/ /\ pc[r] = "upgrade"
        /\ tier' = [tier EXCEPT ![req[r].user] = @ + 1]
        /\ UNCHANGED <<rows, blacklisted>>
     \/ /\ pc[r] = "store"
        /\ \E t \in Tokens : Insert(r, t, None)
        /\ UNCHANGED <<tier, blacklisted>>
     \/ /\ pc[r] = "rotate" /\ Rotatable(req[r].refresh)
        /\ \E t \in Tokens : Insert(r, t, req[r].refresh)
        /\ UNCHANGED <<tier, blacklisted>>
     \/ /\ pc[r] = "blacklist" /\ req[r].access \notin lapsed
        /\ blacklisted' = blacklisted \cup {req[r].access}
        /\ UNCHANGED <<rows, tier>>
     \/ /\ pc[r] = "revoke"
        /\ row' = [row EXCEPT ![req[r].refresh] = "revoked"]
        /\ UNCHANGED <<user, parent, session, claim, tier, blacklisted>>
  /\ Goto(r, Failure(r))
  /\ UNCHANGED <<clock, held, request>>

\* Mutant: Redis forgets a jti while its access token is still valid.
MutantEarlyForget(t) ==
  /\ row[t] # "absent" /\ t \notin lapsed
  /\ blacklisted' = blacklisted \ {t}
  /\ UNCHANGED <<lapsed, rows, overdue, tier, held, request, pc, faults>>

\* 15 minutes pass: the access token is past exp, and Redis drops its jti only then.
Lapse(t) ==
  /\ row[t] # "absent" /\ t \notin lapsed
  /\ lapsed' = lapsed \cup {t}
  /\ blacklisted' = blacklisted \ {t}
  /\ UNCHANGED <<rows, overdue, tier, held, request, pc, faults>>

\* Mutant: the two lifetimes are swapped.
MutantExpireFirst(t) ==
  /\ row[t] # "absent" /\ t \notin overdue
  /\ overdue' = overdue \cup {t}
  /\ UNCHANGED <<rows, lapsed, blacklisted, tier, held, request, pc, faults>>

\* 30 days pass, and the 15 minutes with them.
Expire(t) ==
  /\ t \in lapsed /\ t \notin overdue
  /\ overdue' = overdue \cup {t}
  /\ UNCHANGED <<rows, lapsed, blacklisted, tier, held, request, pc, faults>>

-----------------------------------------------------------------------------
Come(r) ==
  \/ \E u \in Users : Login(r, u) \/ Upgrade(r, u)
  \/ \E t \in Tokens : Refresh(r, t) \/ \E a \in Tokens : Logout(r, a, t)

Serve(r) ==
  \/ SetTier(r) \/ GetTier(r)
  \/ \E t \in Tokens : CreateRefreshToken(r, t) \/ Rotate(r, t)
  \/ LookupRefresh(r) \/ RotateRejected(r)
  \/ Authorize(r) \/ LookupLogout(r) \/ Blacklist(r) \/ Revoke(r)

Next ==
  \/ \E r \in Requests : Come(r) \/ Serve(r) \/ CallFails(r) \/ AnswerLost(r)
  \/ \E t \in Tokens : Lapse(t) \/ Expire(t)

Spec == Init /\ [][Next]_vars

-----------------------------------------------------------------------------
(* Properties.                                                             *)

TypeOK ==
  /\ row \in [Tokens -> {"absent", "active", "revoked"}]
  /\ user \in [Tokens -> Users \cup {None}]
  /\ parent \in [Tokens -> Tokens \cup {None}]
  /\ session \in [Tokens -> Tokens \cup {None}]
  /\ overdue \subseteq lapsed /\ lapsed \subseteq Tokens
  /\ claim \in [Tokens -> Nat]
  /\ blacklisted \subseteq Tokens
  /\ tier \in [Users -> Nat]
  /\ held \subseteq Tokens
  /\ req \in [Requests -> Request \cup {None}]
  /\ pc \in [Requests -> {"new"} \cup Active \cup Answers]
  /\ read \in [Requests -> Nat]
  /\ since \in [Requests -> Nat]
  /\ faults \in 0..MaxFaults

\* Rotation keeps a session a single line: however many refreshes of it race, fail half-way
\* or are repeated, at most one of its refresh tokens can be used, and each is rotated once
\* at most, whoever lost the answer (repository.go:356-387; Sprint1_TODOS.md:143, "Old
\* refresh tokens cannot be reused after rotation").
OneLiveTokenPerSession ==
  /\ \A s, t \in Tokens :
       row[s] = "active" /\ row[t] = "active" /\ session[s] = session[t] => s = t
  /\ \A s, t \in Tokens : parent[s] # None /\ parent[s] = parent[t] => s = t

\* Sprint1_TODOS.md:257, "Logout revokes both the refresh token and current access token",
\* and neither comes back, whatever runs at the same time: after a 204 the refresh token
\* stays revoked and the access token is refused until it is past exp anyway.
LogoutRevokesBoth ==
  \A r \in Requests : pc[r] = "204" =>
    row[req[r].refresh] = "revoked" /\ ~Authorized(req[r].access)

\* Sprint1_TODOS.md:197, "A token issued after upgrade contains the new tier": the pair
\* a client is given claims a tier no older than the one in force when it asked.
IssuedTierIsCurrent ==
  [][\A r \in Requests : \A t \in held' \ held :
       pc[r] # "200" /\ pc'[r] = "200" => claim'[t] >= since[r]]_vars
=============================================================================
