------------------------------ MODULE Accounts ------------------------------
(***************************************************************************)
(* Accounts of music-identity-gatekeeper: registration and login with a    *)
(* password, Google OAuth, and the rows that GET and PATCH /me create on   *)
(* demand (internal/auth/service.go, internal/oauth, internal/user,        *)
(* internal/profile; migrations 000001, 000003 and 000007).                *)
(*                                                                         *)
(* One PostgreSQL statement or transaction, one Redis command and one call *)
(* of Google is one step.  An address is one that normalizeEmail returns;  *)
(* nobody deletes an account, and so an account is named by its address.   *)
(* Every registration chooses a password of its own, and is the only one   *)
(* to know it.                                                             *)
(***************************************************************************)
EXTENDS Naturals

CONSTANTS
  Emails,
  Subjects,   \* Google users
  States,     \* values of the OAuth state; never drawn twice
  Requests,   \* bound: how many requests come in
  MaxFaults,  \* bound: failed calls, disconnects and crashes
  None

\* Requests are numbered as they come in.
Request == 1..Requests

ASSUME AccountsAssumption ==
  /\ Requests \in Nat /\ MaxFaults \in Nat
  /\ Subjects \cap Request = {}
  /\ None \notin Emails \cup Subjects \cup States \cup Request

VARIABLES
  account,   \* users: who may log in, the Google user or the registration that chose the password
  linked,    \* oauth_accounts: the account of a Google user
  profile,   \* accounts with a row of listener_profiles
  prefs,     \* accounts with a row of preferences
  states,    \* OAuth states: "unused", "live" in Redis, or "gone"
  passed,    \* requests whose state was accepted
  announced, \* registrations whose user.registered event was enqueued
  req,       \* what a request asks for
  issued,    \* the account a request was given a token pair for
  pc,        \* where it is, or its answer
  faults     \* faults so far

users == <<account, linked>>
me    == <<profile, prefs>>
redis == <<states, passed>>
vars  == <<users, me, redis, announced, req, issued, pc, faults>>

Ask(op, email, by, state) == [op |-> op, email |-> email, by |-> by, state |-> state]

\* by is the password of a login, None for a wrong one, or the Google user of a callback,
\* None for one whose address is not verified.
Asked ==
  {Ask("register", e, None, None) : e \in Emails}
    \cup {Ask("login", e, p, None) : e \in Emails, p \in Request \cup {None}}
    \cup {Ask("callback", e, g, s) : e \in Emails, g \in Subjects \cup {None}, s \in States}
    \cup {Ask(op, e, None, None) : op \in {"get", "patch", "like"}, e \in Emails}

Running == {"register", "create", "announce", "login", "callback", "exchange", "subject", "email",
            "link", "initialize", "issue", "get", "patch", "like", "ensure", "again", "update",
            "read"}
Answers == {"200", "201", "400", "401", "403", "409", "500", "502", "failed"}

Init ==
  /\ account = [e \in Emails |-> None]
  /\ linked = [g \in Subjects |-> None]
  /\ profile = {} /\ prefs = {}
  /\ states = [s \in States |-> "unused"]
  /\ passed = {} /\ announced = {}
  /\ req = [r \in Request |-> None]
  /\ issued = [r \in Request |-> None]
  /\ pc = [r \in Request |-> "new"]
  /\ faults = 0

Goto(r, label) == pc' = [pc EXCEPT ![r] = label]

Fault == faults < MaxFaults /\ faults' = faults + 1

Email(r)   == req[r].email
Subject(r) == req[r].by
Taken(e)   == account[e] # None

\* /me and the likes are for those who have logged in to the account, at any time before.
Receive(r) ==
  /\ pc[r] = "new" /\ \A q \in 1..(r - 1) : pc[q] # "new"
  /\ \E q \in Asked :
       /\ q.op = "login" /\ q.by # None => req[q.by] = Ask("register", q.email, None, None)
       /\ q.op = "callback" => states[q.state] # "unused"
       /\ q.op \in {"get", "patch", "like"} => Taken(q.email)
       /\ req' = [req EXCEPT ![r] = q]
       /\ Goto(r, q.op)
  /\ UNCHANGED <<users, me, redis, announced, issued, faults>>

-----------------------------------------------------------------------------
(* Register and Login.                                                     *)

\* GetByEmail: ErrEmailAlreadyExists.
LookupRegister(r) ==
  /\ pc[r] = "register"
  /\ Goto(r, IF Taken(Email(r)) THEN "409" ELSE "create")
  /\ UNCHANGED <<users, me, redis, announced, req, issued, faults>>

\* Mutant: ON CONFLICT (email) DO UPDATE.
MutantUpsert(r) ==
  /\ pc[r] = "create"
  /\ account' = [account EXCEPT ![Email(r)] = r]
  /\ Goto(r, "announce")
  /\ UNCHANGED <<linked, me, redis, announced, req, issued, faults>>

\* CreateUser; the address may be taken by now, which violates the unique key.
LocalInserted(r) ==
  /\ pc[r] = "create" /\ ~Taken(Email(r))
  /\ account' = [account EXCEPT ![Email(r)] = r]
  /\ UNCHANGED linked

CreateLocal(r) ==
  /\ \/ LocalInserted(r) /\ Goto(r, "announce")
     \/ pc[r] = "create" /\ Taken(Email(r)) /\ Goto(r, "500") /\ UNCHANGED users
  /\ UNCHANGED <<me, redis, announced, req, issued, faults>>

\* EmitUserRegistered: an error is only logged.
Announce(r) ==
  /\ pc[r] = "announce"
  /\ \/ announced' = announced \cup {r} /\ UNCHANGED faults
     \/ UNCHANGED announced /\ Fault
  /\ Goto(r, "201")
  /\ UNCHANGED <<users, me, redis, req, issued>>

\* GetByEmail and the comparison of the password; an account of Google has none, and what
\* is compared is then no hash, or the dummy.
Login(r) ==
  /\ pc[r] = "login"
  /\ Goto(r, IF Taken(Email(r)) /\ account[Email(r)] = req[r].by THEN "issue" ELSE "401")
  /\ UNCHANGED <<users, me, redis, announced, req, issued, faults>>

-----------------------------------------------------------------------------
(* OAuth.                                                                  *)

\* GET /auth/google: the state is saved for 10 minutes before the redirect.
Begin(s) ==
  /\ states[s] = "unused"
  /\ states' = [states EXCEPT ![s] = "live"]
  /\ UNCHANGED <<users, me, passed, announced, req, issued, pc, faults>>

Expire(s) ==
  /\ states[s] = "live"
  /\ states' = [states EXCEPT ![s] = "gone"]
  /\ UNCHANGED <<users, me, passed, announced, req, issued, pc, faults>>

\* Mutant: GET instead of GETDEL.
MutantConsume(r) ==
  /\ pc[r] = "callback" /\ states[req[r].state] = "live"
  /\ passed' = passed \cup {r}
  /\ Goto(r, "exchange")
  /\ UNCHANGED <<users, me, states, announced, req, issued, faults>>

\* Consume: GETDEL; nothing there is ErrInvalidState.
Consume(r) ==
  /\ pc[r] = "callback"
  /\ \/ /\ states[req[r].state] = "live"
        /\ states' = [states EXCEPT ![req[r].state] = "gone"]
        /\ passed' = passed \cup {r}
        /\ Goto(r, "exchange")
     \/ states[req[r].state] # "live" /\ Goto(r, "400") /\ UNCHANGED redis
  /\ UNCHANGED <<users, me, announced, req, issued, faults>>

\* The state is gone, but the answer of Redis is lost.
ConsumeLost(r) ==
  /\ pc[r] = "callback" /\ states[req[r].state] = "live" /\ Fault
  /\ states' = [states EXCEPT ![req[r].state] = "gone"]
  /\ Goto(r, "failed")
  /\ UNCHANGED <<users, me, passed, announced, req, issued>>

\* Exchange: Google refuses or fails, does not vouch for the address, or tells who it is.
Exchange(r) ==
  /\ pc[r] = "exchange"
  /\ \/ Goto(r, "502")
     \/ Goto(r, IF Subject(r) = None THEN "403" ELSE "subject")
  /\ UNCHANGED <<users, me, redis, announced, req, issued, faults>>

\* GetUser: the account this Google user is linked to, whatever its address is now.
LookupSubject(r) ==
  /\ pc[r] = "subject"
  /\ Goto(r, IF linked[Subject(r)] # None THEN "issue" ELSE "email")
  /\ UNCHANGED <<users, me, redis, announced, req, issued, faults>>

\* Mutant: an account with the address is linked.
MutantLookupEmail(r) ==
  /\ pc[r] = "email"
  /\ \/ ~Taken(Email(r)) /\ Goto(r, "link") /\ UNCHANGED linked
     \/ /\ Taken(Email(r))
        /\ linked' = [linked EXCEPT ![Subject(r)] = Email(r)]
        /\ Goto(r, "issue")
  /\ UNCHANGED <<account, me, redis, announced, req, issued, faults>>

\* GetByEmail: ErrEmailConflict.
LookupEmail(r) ==
  /\ pc[r] = "email"
  /\ Goto(r, IF Taken(Email(r)) THEN "409" ELSE "link")
  /\ UNCHANGED <<users, me, redis, announced, req, issued, faults>>

\* Mutant: the two inserts are not one transaction, and the second may fail.
MutantCreateLinked(r) ==
  /\ pc[r] = "link" /\ ~Taken(Email(r)) /\ linked[Subject(r)] = None
  /\ account' = [account EXCEPT ![Email(r)] = Subject(r)]
  /\ \/ linked' = [linked EXCEPT ![Subject(r)] = Email(r)] /\ Goto(r, "initialize") /\ UNCHANGED faults
     \/ UNCHANGED linked /\ Goto(r, "failed") /\ Fault
  /\ UNCHANGED <<me, redis, announced, req, issued>>

\* CreateUser: users and oauth_accounts in one transaction; by now the address may be taken,
\* or the Google user linked.
Clashes(r) == Taken(Email(r)) \/ linked[Subject(r)] # None

LinkedInserted(r) ==
  /\ pc[r] = "link" /\ ~Clashes(r)
  /\ account' = [account EXCEPT ![Email(r)] = Subject(r)]
  /\ linked' = [linked EXCEPT ![Subject(r)] = Email(r)]

CreateLinked(r) ==
  /\ \/ LinkedInserted(r) /\ Goto(r, "initialize")
     \/ pc[r] = "link" /\ Clashes(r) /\ Goto(r, "500") /\ UNCHANGED users
  /\ UNCHANGED <<me, redis, announced, req, issued, faults>>

-----------------------------------------------------------------------------
(* The rows of a profile, and token pairs.                                 *)

\* Mutant: EnsureExists creates the profile alone.
MutantEnsured(r) == profile' = profile \cup {Email(r)} /\ UNCHANGED prefs

\* EnsureExists: both rows in one transaction, ON CONFLICT DO NOTHING.
Ensured(r) ==
  /\ profile' = profile \cup {Email(r)}
  /\ prefs' = prefs \cup {Email(r)}

Initialize(r) ==
  /\ pc[r] = "initialize"
  /\ Ensured(r)
  /\ Goto(r, "issue")
  /\ UNCHANGED <<users, redis, announced, req, issued, faults>>

\* IssueTokenPair: the account found by password, or the one linked.
Issue(r) ==
  /\ pc[r] = "issue"
  /\ issued' = [issued EXCEPT ![r] = IF req[r].op = "login" THEN Email(r) ELSE linked[Subject(r)]]
  /\ Goto(r, "200")
  /\ UNCHANGED <<users, me, redis, announced, req, faults>>

\* GetMe: both rows are there, or EnsureExists is paid for.
GetMe(r) ==
  /\ pc[r] = "get"
  /\ Goto(r, IF Email(r) \in profile \cap prefs THEN "200" ELSE "ensure")
  /\ UNCHANGED <<users, me, redis, announced, req, issued, faults>>

\* PatchMe looks for the profile alone.
PatchMe(r) ==
  /\ pc[r] = "patch"
  /\ Goto(r, IF Email(r) \in profile THEN "update" ELSE "ensure")
  /\ UNCHANGED <<users, me, redis, announced, req, issued, faults>>

EnsureExists(r) ==
  /\ pc[r] = "ensure"
  /\ Ensured(r)
  /\ Goto(r, IF req[r].op = "get" THEN "again" ELSE "update")
  /\ UNCHANGED <<users, redis, announced, req, issued, faults>>

\* The second reads of GetMe: a row that is not there is an error now.
ReadAgain(r) ==
  /\ pc[r] = "again"
  /\ Goto(r, IF Email(r) \in profile \cap prefs THEN "200" ELSE "500")
  /\ UNCHANGED <<users, me, redis, announced, req, issued, faults>>

\* The UPDATE of the profile; no row: ErrProfileNotFound.
Update(r) ==
  /\ pc[r] = "update"
  /\ Goto(r, IF Email(r) \in profile THEN "read" ELSE "500")
  /\ UNCHANGED <<users, me, redis, announced, req, issued, faults>>

\* PatchMe reads the preferences after it has written.
ReadPrefs(r) ==
  /\ pc[r] = "read"
  /\ Goto(r, IF Email(r) \in prefs THEN "200" ELSE "500")
  /\ UNCHANGED <<users, me, redis, announced, req, issued, faults>>

\* A like creates the row of preferences alone.
Like(r) ==
  /\ pc[r] = "like"
  /\ prefs' = prefs \cup {Email(r)}
  /\ Goto(r, "200")
  /\ UNCHANGED <<users, profile, redis, announced, req, issued, faults>>

-----------------------------------------------------------------------------
\* A call fails without effect, or the client or the process is gone.
CallFails(r) ==
  /\ pc[r] \in Running /\ Fault
  /\ Goto(r, "failed")
  /\ UNCHANGED <<users, me, redis, announced, req, issued>>

\* A write takes effect and its answer is lost.
WriteLost(r) ==
  /\ \/ (LocalInserted(r) \/ LinkedInserted(r)) /\ UNCHANGED me
     \/ pc[r] \in {"initialize", "ensure"} /\ Ensured(r) /\ UNCHANGED users
  /\ Goto(r, "failed") /\ Fault
  /\ UNCHANGED <<redis, announced, req, issued>>

-----------------------------------------------------------------------------
Serve(r) ==
  \/ LookupRegister(r) \/ CreateLocal(r) \/ Announce(r) \/ Login(r)
  \/ Consume(r) \/ Exchange(r) \/ LookupSubject(r) \/ LookupEmail(r) \/ CreateLinked(r)
  \/ Initialize(r) \/ Issue(r)
  \/ GetMe(r) \/ PatchMe(r) \/ EnsureExists(r) \/ ReadAgain(r) \/ Update(r) \/ ReadPrefs(r)
  \/ Like(r)

Next ==
  \/ \E r \in Request : Receive(r) \/ Serve(r) \/ ConsumeLost(r) \/ CallFails(r) \/ WriteLost(r)
  \/ \E s \in States : Begin(s) \/ Expire(s)

Spec == Init /\ [][Next]_vars

-----------------------------------------------------------------------------
(* Properties.                                                             *)

\* The last conjunct: a Google account and its link are there together.
TypeOK ==
  /\ account \in [Emails -> Request \cup Subjects \cup {None}]
  /\ linked \in [Subjects -> Emails \cup {None}]
  /\ profile \subseteq Emails /\ prefs \subseteq Emails
  /\ states \in [States -> {"unused", "live", "gone"}]
  /\ passed \subseteq Request /\ announced \subseteq Request
  /\ req \in [Request -> Asked \cup {None}]
  /\ issued \in [Request -> Emails \cup {None}]
  /\ pc \in [Request -> {"new"} \cup Running \cup Answers]
  /\ faults \in 0..MaxFaults
  /\ \A e \in Emails, g \in Subjects : account[e] = g <=> linked[g] = e

\* Sprint1_TODOS.md:287, "Existing accounts are not silently taken over solely because an
\* email string matches": whatever races, a token pair is issued to who chose the account's
\* password, or to the Google user it was created for.
IssuedToOwner ==
  \A r \in Request : issued[r] # None => account[issued[r]] = req[r].by /\ req[r].by # None

\* A registration that is answered 201 holds: the account is there with the password it
\* chose, no other registration of the address is told the same, and consumers hear of it
\* unless the enqueueing failed (auth/service.go:60-118).
RegistrationHolds ==
  \A r \in Request : pc[r] = "201" =>
    account[Email(r)] = r /\ (r \in announced \/ faults > 0)

\* README.md:271-274, a state "is consumed atomically on first callback use": of the
\* callbacks that carry it one at most gets through, and none after a lost answer.
StateUsedOnce ==
  \A q, r \in passed : req[q].state = req[r].state => q = r

\* Without a fault, a registration or a callback is refused, by a 409 or by the 500 of a
\* unique key, only where its address or its Google user has an account; /me is never
\* refused, whichever of GET, PATCH and a like comes first (profile/service.go:136-137).
RefusedOnlyWhenTaken ==
  \A r \in Request : pc[r] \in {"409", "500"} =>
    \/ req[r].op = "register" /\ Taken(Email(r))
    \/ req[r].op = "callback" /\ Clashes(r)
=============================================================================
