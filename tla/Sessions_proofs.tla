--------------------------- MODULE Sessions_proofs ---------------------------
(***************************************************************************)
(* Theorems about Sessions, for any users, token pairs, requests and       *)
(* faults, and their proofs.                                               *)
(***************************************************************************)
EXTENDS Sessions, TLAPS

LEMMA Constants == None \notin Tokens /\ None \notin Users /\ MaxFaults \in Nat
BY SessionsAssumption

-----------------------------------------------------------------------------
(* The inductive invariant.                                                *)

RowsOK ==
  /\ row \in [Tokens -> {"absent", "active", "revoked"}]
  /\ user \in [Tokens -> Users \cup {None}]
  /\ parent \in [Tokens -> Tokens \cup {None}]
  /\ session \in [Tokens -> Tokens \cup {None}]
  /\ claim \in [Tokens -> Nat]

\* What is rotated is revoked, and a session begins with a pair that is there.
Tree ==
  /\ \A t \in Tokens : row[t] # "absent" => user[t] \in Users
  /\ \A t \in Tokens : row[t] = "absent" => parent[t] = None /\ session[t] = None
  /\ \A t \in Tokens : row[t] # "absent" => session[t] \in Tokens
  /\ \A t \in Tokens : parent[t] # None => row[parent[t]] = "revoked"
  /\ \A t \in Tokens : session[t] # None => row[session[t]] # "absent"

\* A request names pairs and a user that are there, and is where its operation takes it.
Asking(r) ==
  /\ req[r] \in Request
  /\ req[r].op \in {"issue", "upgrade"} => req[r].user \in Users
  /\ req[r].op \in {"refresh", "logout"} =>
       req[r].refresh \in Tokens /\ row[req[r].refresh] # "absent"
  /\ req[r].op = "logout" => req[r].access \in Tokens
  /\ pc[r] = "upgrade" => req[r].op = "upgrade"
  /\ pc[r] = "tier" => req[r].op # "logout"
  /\ pc[r] = "store" => req[r].op \in {"issue", "upgrade"}
  /\ pc[r] = "rotate" => req[r].op = "refresh"
  /\ pc[r] \in {"authorize", "blacklist", "revoke", "204"} => req[r].op = "logout"

\* A logout that revokes has blacklisted, or the access token is past exp; then it has revoked.
LoggingOut(r) ==
  /\ pc[r] \in {"revoke", "204"} => ~Authorized(req[r].access)
  /\ pc[r] = "204" => row[req[r].refresh] = "revoked"

Local(r) == pc[r] # "new" => Asking(r) /\ LoggingOut(r)

SessionsInv ==
  /\ TypeOK
  /\ Tree
  /\ OneLiveTokenPerSession
  /\ \A t \in held : row[t] # "absent"
  /\ \A r \in Requests : Local(r)

\* What no step takes back.
Grows ==
  /\ \A t \in Tokens : row[t] # "absent" => row'[t] # "absent"
  /\ \A t \in Tokens : row[t] = "revoked" => row'[t] = "revoked"
  /\ \A t \in Tokens : ~Authorized(t) => ~Authorized(t)'

LEMMA RowsType ==
  ASSUME TypeOK
  PROVE  RowsOK
BY DEF TypeOK, RowsOK

-----------------------------------------------------------------------------
(* Steps on the rows.                                                      *)

\* An insert adds a pair to the session it rotates, whose one live pair is revoked with it,
\* or begins a session.
LEMMA InsertRows ==
  ASSUME RowsOK, Tree, OneLiveTokenPerSession, NEW r \in Requests, NEW t \in Tokens,
         NEW from \in Tokens \cup {None}, Insert(r, t, from),
         from # None => row[from] = "active", Subject(r) \in Users, read[r] \in Nat
  PROVE  /\ RowsOK' /\ Tree' /\ OneLiveTokenPerSession' /\ row'[t] # "absent"
         /\ \A x \in Tokens : row[x] # "absent" => row'[x] # "absent"
         /\ \A x \in Tokens : row[x] = "revoked" => row'[x] = "revoked"
<1> DEFINE began == IF from = None THEN t ELSE session[from]
<1>1. /\ row[t] = "absent" /\ t # None /\ from # t
      /\ began \in Tokens
  BY Constants DEF Insert, RowsOK, Tree
<1>2. RowsOK'
  BY <1>1 DEF Insert, RowsOK
<1>3. /\ row'[t] = "active"
      /\ user'[t] = Subject(r) /\ parent'[t] = from /\ session'[t] = began
  BY <1>1 DEF Insert, RowsOK
<1>4. \A x \in Tokens \ {t} :
        /\ row'[x] = (IF x = from THEN "revoked" ELSE row[x])
        /\ user'[x] = user[x] /\ parent'[x] = parent[x] /\ session'[x] = session[x]
  BY DEF Insert, RowsOK
<1>5. from # None => row'[from] = "revoked"
  BY <1>1, <1>4
<1>6. /\ \A x \in Tokens : row[x] # "absent" => row'[x] # "absent"
      /\ \A x \in Tokens : row[x] = "revoked" => row'[x] = "revoked"
  BY <1>1, <1>4 DEF RowsOK
<1>7. Tree'
  <2>1. \A x \in Tokens : /\ row'[x] # "absent" => user'[x] \in Users /\ session'[x] \in Tokens
                          /\ row'[x] = "absent" => parent'[x] = None /\ session'[x] = None
    BY <1>1, <1>3, <1>4, Constants DEF Tree
  <2>2. ASSUME NEW x \in Tokens
        PROVE  /\ parent'[x] # None => row'[parent'[x]] = "revoked"
               /\ session'[x] # None => row'[session'[x]] # "absent"
    <3>1. CASE x = t
      BY <1>1, <1>3, <1>5, <1>6, <3>1 DEF Tree, RowsOK
    <3>2. CASE x # t
      <4>1. parent'[x] = parent[x] /\ session'[x] = session[x]
        BY <1>4, <3>2
      <4>2. parent[x] \in Tokens \cup {None} /\ session[x] \in Tokens \cup {None}
        BY DEF RowsOK
      <4>3. QED
        BY <1>6, <4>1, <4>2 DEF Tree
    <3>3. QED
      BY <3>1, <3>2
  <2>3. QED
    BY <2>1, <2>2 DEF Tree
<1>8. OneLiveTokenPerSession'
  <2>1. \A x \in Tokens \ {t} : row'[x] = "active" => session'[x] # began
    BY <1>1, <1>4 DEF OneLiveTokenPerSession, Tree
  <2>2. \A x \in Tokens \ {t} : from # None => parent'[x] # from
    BY <1>4 DEF Tree
  <2>3. \A x, y \in Tokens \ {t} : row'[x] = "active" /\ row'[y] = "active" /\ session'[x] = session'[y]
                                     => x = y
    BY <1>4 DEF OneLiveTokenPerSession
  <2>4. \A x, y \in Tokens \ {t} : parent'[x] # None /\ parent'[x] = parent'[y] => x = y
    BY <1>4 DEF OneLiveTokenPerSession
  <2>5. QED
    BY <1>3, <2>1, <2>2, <2>3, <2>4 DEF OneLiveTokenPerSession
<1>9. QED
  BY <1>2, <1>3, <1>6, <1>7, <1>8

\* Revoking a pair disturbs nothing.
LEMMA RevokeRows ==
  ASSUME RowsOK, Tree, OneLiveTokenPerSession, NEW t \in Tokens, row[t] # "absent",
         row' = [row EXCEPT ![t] = "revoked"], UNCHANGED <<user, parent, session, claim>>
  PROVE  /\ RowsOK' /\ Tree' /\ OneLiveTokenPerSession' /\ row'[t] = "revoked"
         /\ \A x \in Tokens : row[x] # "absent" => row'[x] # "absent"
         /\ \A x \in Tokens : row[x] = "revoked" => row'[x] = "revoked"
<1>1. RowsOK' /\ \A x \in Tokens : row'[x] = IF x = t THEN "revoked" ELSE row[x]
  BY DEF RowsOK
<1>2. Tree'
  BY <1>1 DEF Tree, RowsOK
<1>3. OneLiveTokenPerSession'
  BY <1>1 DEF OneLiveTokenPerSession
<1>4. QED
  BY <1>1, <1>2, <1>3

-----------------------------------------------------------------------------
(* The requests.                                                           *)

\* One that a step leaves alone.
LEMMA Stays ==
  ASSUME NEW r \in Requests, Local(r), Grows, req'[r] = req[r], pc'[r] = pc[r]
  PROVE  Local(r)'
<1>1. Asking(r) => Asking(r)'
  BY DEF Asking, Grows
<1>2. Asking(r) /\ LoggingOut(r) => LoggingOut(r)'
  <2>1. SUFFICES ASSUME Asking(r), LoggingOut(r), pc[r] \in {"revoke", "204"}
                 PROVE  LoggingOut(r)'
    BY DEF LoggingOut
  <2>2. req[r].access \in Tokens /\ req[r].refresh \in Tokens
    BY <2>1 DEF Asking
  <2>3. (~Authorized(req[r].access))'
    BY <2>1, <2>2 DEF LoggingOut, Grows, Authorized
  <2>4. QED
    BY <2>1, <2>2, <2>3 DEF LoggingOut, Grows
<1>3. QED
  BY <1>1, <1>2 DEF Local

\* One that goes on: what it asks for is still there.
LEMMA Moves ==
  ASSUME SessionsInv, Grows, NEW r \in Requests, pc[r] # "new", NEW label, Goto(r, label),
         UNCHANGED req, LoggingOut(r)',
         label = "upgrade" => req[r].op = "upgrade",
         label = "tier" => req[r].op # "logout",
         label = "store" => req[r].op \in {"issue", "upgrade"},
         label = "rotate" => req[r].op = "refresh",
         label \in {"authorize", "blacklist", "revoke", "204"} => req[r].op = "logout"
  PROVE  \A q \in Requests : Local(q)'
<1>1. pc'[r] = label /\ \A q \in Requests \ {r} : pc'[q] = pc[q]
  BY DEF SessionsInv, TypeOK, Goto
<1>2. Asking(r)'
  BY <1>1 DEF SessionsInv, Local, Asking, Grows
<1>3. Local(r)'
  BY <1>2 DEF Local
<1>4. \A q \in Requests \ {r} : Local(q)'
  BY <1>1, Stays DEF SessionsInv
<1>5. QED
  BY <1>3, <1>4

-----------------------------------------------------------------------------
(* The theorems.                                                           *)

\* A step that goes on without a write.
LEMMA ReadStep ==
  ASSUME SessionsInv, NEW r \in Requests, pc[r] # "new",
         NEW label \in Active \cup Answers, Goto(r, label),
         UNCHANGED <<rows, clock, blacklisted, held, req, since>>,
         tier' \in [Users -> Nat], read' \in [Requests -> Nat], faults' \in 0..MaxFaults,
         label \notin {"revoke", "204"},
         label = "upgrade" => req[r].op = "upgrade",
         label = "tier" => req[r].op # "logout",
         label = "store" => req[r].op \in {"issue", "upgrade"},
         label = "rotate" => req[r].op = "refresh",
         label \in {"authorize", "blacklist"} => req[r].op = "logout"
  PROVE  SessionsInv'
<1>1. TypeOK'
  BY DEF SessionsInv, TypeOK, rows, clock, Goto
<1>2. Grows /\ LoggingOut(r)'
  BY DEF SessionsInv, TypeOK, Grows, LoggingOut, Authorized, rows, clock, Goto
<1>3. \A q \in Requests : Local(q)'
  BY <1>2, Moves
<1>4. Tree' /\ OneLiveTokenPerSession' /\ \A t \in held' : row'[t] # "absent"
  BY DEF SessionsInv, Tree, OneLiveTokenPerSession, rows
<1>5. QED
  BY <1>1, <1>3, <1>4 DEF SessionsInv

\* What a request brings is in place when its first step begins.
LEMMA ReceiveStep ==
  ASSUME SessionsInv, NEW r \in Requests, NEW q \in Request, NEW u \in Users,
         NEW label \in {"tier", "upgrade", "lookup", "authorize"}, Receive(r, q, u, label),
         q.op \in {"issue", "upgrade"} => q.user \in Users,
         q.op \in {"refresh", "logout"} => q.refresh \in Tokens /\ row[q.refresh] # "absent",
         q.op = "logout" => q.access \in Tokens,
         label = "upgrade" => q.op = "upgrade",
         label = "tier" => q.op # "logout",
         label = "authorize" => q.op = "logout"
  PROVE  SessionsInv'
<1>1. TypeOK'
  BY DEF SessionsInv, TypeOK, Receive, rows, clock, Goto, Active
<1>2. Grows
  BY DEF SessionsInv, Grows, Authorized, Receive, rows, clock
<1>3. pc'[r] = label /\ req'[r] = q
  BY DEF SessionsInv, TypeOK, Receive, Goto
<1>4. \A x \in Requests \ {r} : pc'[x] = pc[x] /\ req'[x] = req[x]
  BY DEF SessionsInv, TypeOK, Receive, Goto
<1>5. Asking(r)' /\ LoggingOut(r)'
  BY <1>2, <1>3 DEF Asking, LoggingOut, Grows
<1>6. \A x \in Requests : Local(x)'
  BY <1>2, <1>4, <1>5, Stays DEF SessionsInv, Local
<1>7. Tree' /\ OneLiveTokenPerSession' /\ \A t \in held' : row'[t] # "absent"
  BY DEF SessionsInv, Tree, OneLiveTokenPerSession, Receive, rows
<1>8. QED
  BY <1>1, <1>6, <1>7 DEF SessionsInv

\* A request comes in.
LEMMA ComeStep ==
  ASSUME SessionsInv, NEW r \in Requests, Come(r)
  PROVE  SessionsInv'
<1>1. ASSUME NEW u \in Users, Login(r, u) \/ Upgrade(r, u) PROVE SessionsInv'
  <2>1. \A op \in {"issue", "upgrade"} :
          LET q == Asks(op, u, None, None) IN q \in Request /\ q.op = op /\ q.user = u
    BY DEF Asks, Request, Ops
  <2>2. QED
    BY <1>1, <2>1, ReceiveStep DEF Login, Upgrade
<1>2. ASSUME NEW t \in Tokens, Refresh(r, t) PROVE SessionsInv'
  <2>1. row[t] # "absent" /\ user[t] \in Users
    BY <1>2 DEF Refresh, SessionsInv, Tree
  <2>2. LET q == Asks("refresh", None, t, None)
        IN  q \in Request /\ q.op = "refresh" /\ q.refresh = t
    BY DEF Asks, Request, Ops
  <2>3. QED
    BY <1>2, <2>1, <2>2, ReceiveStep DEF Refresh
<1>3. ASSUME NEW t \in Tokens, NEW a \in Tokens, Logout(r, a, t) PROVE SessionsInv'
  <2>1. row[t] # "absent" /\ user[a] \in Users
    BY <1>3 DEF Logout, SessionsInv, Tree
  <2>2. LET q == Asks("logout", user[a], t, a)
        IN  q \in Request /\ q.op = "logout" /\ q.refresh = t /\ q.access = a
    BY <2>1 DEF Asks, Request, Ops
  <2>3. QED
    BY <1>3, <2>1, <2>2, ReceiveStep DEF Logout
<1>4. QED
  BY <1>1, <1>2, <1>3 DEF Come

\* Where a request is, whose pair it is about and for whom it asks.
LEMMA RequestType ==
  ASSUME SessionsInv, NEW r \in Requests, pc[r] # "new"
  PROVE  /\ Asking(r) /\ LoggingOut(r)
         /\ read[r] \in Nat /\ faults \in 0..MaxFaults
         /\ req[r].op \in Ops
         /\ req[r].op # "logout" => Subject(r) \in Users
<1>1. Asking(r) /\ LoggingOut(r)
  BY DEF SessionsInv, Local
<1>2. read[r] \in Nat /\ faults \in 0..MaxFaults
  BY DEF SessionsInv, TypeOK
<1>3. req[r].op \in Ops
  BY <1>1 DEF Asking, Request
<1>4. req[r].op # "logout" => Subject(r) \in Users
  BY <1>1, <1>3 DEF SessionsInv, Tree, Asking, Ops, Subject
<1>5. QED
  BY <1>1, <1>2, <1>3, <1>4

\* Inserting a pair, whether it is handed out or not.
LEMMA InsertStep ==
  ASSUME SessionsInv, NEW r \in Requests, NEW t \in Tokens, NEW label \in Answers,
         \/ pc[r] = "store" /\ Insert(r, t, None)
         \/ pc[r] = "rotate" /\ Rotatable(req[r].refresh) /\ Insert(r, t, req[r].refresh),
         Goto(r, label), label # "204", held' \subseteq held \cup {t}, faults' \in 0..MaxFaults,
         UNCHANGED <<clock, blacklisted, tier, request>>
  PROVE  SessionsInv'
<1>1. Asking(r) /\ read[r] \in Nat /\ Subject(r) \in Users
  BY RequestType DEF Asking, Ops
<1>2. PICK from \in Tokens \cup {None} : Insert(r, t, from) /\ (from # None => row[from] = "active")
  BY <1>1 DEF Asking, Rotatable
<1>3. /\ RowsOK' /\ Tree' /\ OneLiveTokenPerSession' /\ row'[t] # "absent"
      /\ \A x \in Tokens : row[x] # "absent" => row'[x] # "absent"
      /\ \A x \in Tokens : row[x] = "revoked" => row'[x] = "revoked"
  BY <1>1, <1>2, InsertRows, RowsType DEF SessionsInv
<1>4. Grows
  BY <1>3 DEF Grows, Authorized, clock
<1>5. TypeOK'
  BY <1>3 DEF RowsOK, SessionsInv, TypeOK, Goto, clock, request
<1>6. LoggingOut(r)'
  BY DEF SessionsInv, TypeOK, LoggingOut, Goto, Answers
<1>7. \A q \in Requests : Local(q)'
  BY <1>4, <1>6, Moves DEF request, Answers
<1>8. \A x \in held' : row'[x] # "absent"
  BY <1>3 DEF SessionsInv, TypeOK
<1>9. QED
  BY <1>3, <1>5, <1>7, <1>8 DEF SessionsInv

\* SET of the jti.
LEMMA BlacklistStep ==
  ASSUME SessionsInv, NEW r \in Requests, pc[r] = "blacklist",
         NEW label \in {"revoke", "503"}, Goto(r, label),
         blacklisted' = blacklisted \cup {req[r].access}, faults' \in 0..MaxFaults,
         UNCHANGED <<rows, clock, tier, held, request>>
  PROVE  SessionsInv'
<1>1. Asking(r) /\ req[r].op = "logout" /\ req[r].access \in Tokens
  BY RequestType DEF Asking
<1>2. TypeOK'
  BY <1>1 DEF SessionsInv, TypeOK, rows, clock, request, Goto, Active, Answers
<1>3. Grows /\ LoggingOut(r)'
  BY DEF SessionsInv, TypeOK, Grows, LoggingOut, Authorized, rows, clock, request, Goto
<1>4. \A q \in Requests : Local(q)'
  BY <1>1, <1>3, Moves DEF request
<1>5. Tree' /\ OneLiveTokenPerSession' /\ \A t \in held' : row'[t] # "absent"
  BY DEF SessionsInv, Tree, OneLiveTokenPerSession, rows
<1>6. QED
  BY <1>2, <1>4, <1>5 DEF SessionsInv

\* The UPDATE of a logout.
LEMMA RevokeStep ==
  ASSUME SessionsInv, NEW r \in Requests, pc[r] = "revoke",
         NEW label \in {"204", "401"}, Goto(r, label),
         row' = [row EXCEPT ![req[r].refresh] = "revoked"], faults' \in 0..MaxFaults,
         UNCHANGED <<user, parent, session, claim, clock, blacklisted, tier, held, request>>
  PROVE  SessionsInv'
<1>1. /\ Asking(r) /\ LoggingOut(r) /\ req[r].op = "logout"
      /\ req[r].refresh \in Tokens /\ row[req[r].refresh] # "absent"
  BY RequestType DEF Asking
<1>2. /\ RowsOK' /\ Tree' /\ OneLiveTokenPerSession' /\ row'[req[r].refresh] = "revoked"
      /\ \A x \in Tokens : row[x] # "absent" => row'[x] # "absent"
      /\ \A x \in Tokens : row[x] = "revoked" => row'[x] = "revoked"
  BY <1>1, RevokeRows, RowsType DEF SessionsInv
<1>3. TypeOK'
  BY <1>2 DEF RowsOK, SessionsInv, TypeOK, Goto, Answers, clock, request
<1>4. Grows /\ LoggingOut(r)'
  BY <1>1, <1>2 DEF Grows, LoggingOut, Authorized, clock, request
<1>5. \A q \in Requests : Local(q)'
  BY <1>1, <1>4, Moves DEF request
<1>6. \A x \in held' : row'[x] # "absent"
  BY <1>2 DEF SessionsInv, TypeOK
<1>7. QED
  BY <1>2, <1>3, <1>5, <1>6 DEF SessionsInv

\* The passing of time.
LEMMA TimeStep ==
  ASSUME SessionsInv, NEW t \in Tokens, Lapse(t) \/ Expire(t)
  PROVE  SessionsInv'
<1>1. TypeOK'
  BY DEF SessionsInv, TypeOK, Lapse, Expire, rows, request
<1>2. Grows
  BY DEF SessionsInv, Grows, Authorized, Lapse, Expire, rows
<1>3. \A q \in Requests : Local(q)'
  BY <1>2, Stays DEF SessionsInv, Lapse, Expire, request
<1>4. Tree' /\ OneLiveTokenPerSession' /\ \A x \in held' : row'[x] # "absent"
  BY DEF SessionsInv, Tree, OneLiveTokenPerSession, Lapse, Expire, rows
<1>5. QED
  BY <1>1, <1>3, <1>4 DEF SessionsInv
\* What a request does next.
LEMMA ServeStep ==
  ASSUME SessionsInv, NEW r \in Requests, Serve(r)
  PROVE  SessionsInv'
<1> USE RequestType DEF Active, Answers
<1>1. tier \in [Users -> Nat] /\ read \in [Requests -> Nat] /\ faults \in 0..MaxFaults
  BY DEF SessionsInv, TypeOK
<1>2. ASSUME SetTier(r) PROVE SessionsInv'
  <2>1. tier' \in [Users -> Nat]
    BY <1>1, <1>2 DEF SetTier, Asking
  <2>2. req[r].op # "logout"
    BY <1>2 DEF SetTier, Asking
  <2>3. QED
    BY <1>1, <1>2, <2>1, <2>2, ReadStep DEF SetTier, request
<1>3. ASSUME GetTier(r) PROVE SessionsInv'
  <2>1. req[r].op # "logout" /\ CurrentTier(r) \in Nat
    BY <1>1, <1>3 DEF GetTier, Asking, CurrentTier
  <2>2. read' \in [Requests -> Nat]
    BY <1>1, <1>3, <2>1 DEF GetTier
  <2>3. req[r].op # "refresh" => req[r].op \in {"issue", "upgrade"}
    BY <1>3, <2>1 DEF GetTier, Ops
  <2>4. QED
    BY <1>1, <1>3, <2>1, <2>2, <2>3, ReadStep DEF GetTier
<1>4. ASSUME NEW t \in Tokens, CreateRefreshToken(r, t) PROVE SessionsInv'
  BY <1>1, <1>4, InsertStep DEF CreateRefreshToken
<1>5. ASSUME NEW t \in Tokens, Rotate(r, t) PROVE SessionsInv'
  BY <1>1, <1>5, InsertStep DEF Rotate
<1>6. ASSUME LookupRefresh(r) PROVE SessionsInv'
  BY <1>1, <1>6, ReadStep DEF LookupRefresh, request
<1>7. ASSUME RotateRejected(r) PROVE SessionsInv'
  BY <1>1, <1>7, ReadStep DEF RotateRejected, request
<1>8. ASSUME Authorize(r) PROVE SessionsInv'
  BY <1>1, <1>8, ReadStep DEF Authorize, request
<1>9. ASSUME LookupLogout(r) PROVE SessionsInv'
  BY <1>1, <1>9, ReadStep DEF LookupLogout, request
<1>10. ASSUME Blacklist(r) PROVE SessionsInv'
  <2>1. CASE req[r].access \in lapsed
    BY <1>1, <1>10, <2>1, ReadStep DEF Blacklist, request
  <2>2. CASE req[r].access \notin lapsed
    BY <1>1, <1>10, <2>2, BlacklistStep DEF Blacklist
  <2>3. QED
    BY <2>1, <2>2
<1>11. ASSUME Revoke(r) PROVE SessionsInv'
  BY <1>1, <1>11, RevokeStep DEF Revoke
<1>12. QED
  BY <1>2, <1>3, <1>4, <1>5, <1>6, <1>7, <1>8, <1>9, <1>10, <1>11 DEF Serve

\* How a request that fails is answered.
LEMMA FailureAnswers ==
  ASSUME NEW r \in Requests
  PROVE  /\ Failure(r) \in {"500", "401", "503"}
         /\ pc[r] = "blacklist" /\ req[r].op = "logout" => Failure(r) = "503"
         /\ pc[r] = "revoke" /\ req[r].op = "logout" => Failure(r) = "401"
BY DEF Failure

\* Calls that fail, before or after they take effect.
LEMMA FailStep ==
  ASSUME SessionsInv, NEW r \in Requests, CallFails(r) \/ AnswerLost(r)
  PROVE  SessionsInv'
<1>1. /\ tier \in [Users -> Nat] /\ read \in [Requests -> Nat]
      /\ faults' \in 0..MaxFaults
  BY Constants DEF SessionsInv, TypeOK, CallFails, AnswerLost, Fault
<1>2. PICK label : /\ Goto(r, label) /\ label \in {"500", "401", "503", "lost"}
                   /\ AnswerLost(r) => label = Failure(r)
  BY FailureAnswers DEF CallFails, AnswerLost
<1>3. pc[r] # "new"
  BY DEF CallFails, AnswerLost, Active
<1>4. ASSUME CallFails(r) PROVE SessionsInv'
  BY <1>1, <1>2, <1>3, <1>4, ReadStep DEF CallFails, request, Answers
<1>5. ASSUME AnswerLost(r) PROVE SessionsInv'
  <2>1. UNCHANGED <<clock, held, request>>
    BY <1>5 DEF AnswerLost
  <2>2. CASE /\ pc[r] = "upgrade"
             /\ tier' = [tier EXCEPT ![req[r].user] = @ + 1]
             /\ UNCHANGED <<rows, blacklisted>>
    <3>1. req[r].user \in Users
      BY <2>2, RequestType DEF Asking
    <3>2. tier' \in [Users -> Nat]
      BY <1>1, <2>2, <3>1
    <3>3. QED
      BY <1>1, <1>2, <1>3, <2>1, <2>2, <3>2, ReadStep DEF request, Answers
  <2>3. CASE /\ \/ pc[r] = "store" /\ \E t \in Tokens : Insert(r, t, None)
                \/ /\ pc[r] = "rotate" /\ Rotatable(req[r].refresh)
                   /\ \E t \in Tokens : Insert(r, t, req[r].refresh)
             /\ UNCHANGED <<tier, blacklisted>>
    BY <1>1, <1>2, <2>1, <2>3, InsertStep DEF Answers
  <2>4. CASE /\ pc[r] = "blacklist" /\ req[r].access \notin lapsed
             /\ blacklisted' = blacklisted \cup {req[r].access}
             /\ UNCHANGED <<rows, tier>>
    <3>1. label = "503"
      BY <1>2, <1>5, <2>4, RequestType, FailureAnswers DEF Asking
    <3>2. QED
      BY <1>1, <1>2, <2>1, <2>4, <3>1, BlacklistStep
  <2>5. CASE /\ pc[r] = "revoke"
             /\ row' = [row EXCEPT ![req[r].refresh] = "revoked"]
             /\ UNCHANGED <<user, parent, session, claim, tier, blacklisted>>
    <3>1. label = "401"
      BY <1>2, <1>5, <2>5, RequestType, FailureAnswers DEF Asking
    <3>2. QED
      BY <1>1, <1>2, <2>1, <2>5, <3>1, RevokeStep
  <2>6. QED
    BY <1>5, <2>2, <2>3, <2>4, <2>5 DEF AnswerLost
<1>6. QED
  BY <1>4, <1>5

\* SessionsInv is inductive.
LEMMA Invariance == Spec => []SessionsInv
<1>1. Init => SessionsInv
  BY Constants DEF Init, SessionsInv, TypeOK, Tree, OneLiveTokenPerSession, Local
<1>2. SessionsInv /\ [Next]_vars => SessionsInv'
  <2>1. SUFFICES ASSUME SessionsInv, [Next]_vars PROVE SessionsInv'
    OBVIOUS
  <2>2. ASSUME NEW r \in Requests, Come(r) \/ Serve(r) \/ CallFails(r) \/ AnswerLost(r)
        PROVE  SessionsInv'
    BY <2>1, <2>2, ComeStep, ServeStep, FailStep
  <2>3. ASSUME NEW t \in Tokens, Lapse(t) \/ Expire(t) PROVE SessionsInv'
    BY <2>1, <2>3, TimeStep
  <2>4. CASE UNCHANGED vars
    <3>1. TypeOK' /\ Tree' /\ OneLiveTokenPerSession' /\ (\A t \in held' : row'[t] # "absent") /\ Grows
      BY <2>1, <2>4 DEF SessionsInv, TypeOK, Tree, OneLiveTokenPerSession, Grows, Authorized, vars,
         rows, clock, request
    <3>2. \A r \in Requests : Local(r)'
      BY <2>1, <2>4, <3>1, Stays DEF SessionsInv, vars, request
    <3>3. QED
      BY <3>1, <3>2 DEF SessionsInv
  <2>5. QED
    BY <2>1, <2>2, <2>3, <2>4 DEF Next
<1>3. QED
  BY <1>1, <1>2, PTL DEF Spec

\* Every variable has its type.
THEOREM TypeCorrect == Spec => []TypeOK
<1>1. SessionsInv => TypeOK
  BY DEF SessionsInv
<1>2. QED
  BY <1>1, Invariance, PTL

\* Rotation keeps a session a single line: at most one of its refresh tokens can be used,
\* and each is rotated once at most.
THEOREM RotationKeepsOneLine == Spec => []OneLiveTokenPerSession
<1>1. SessionsInv => OneLiveTokenPerSession
  BY DEF SessionsInv
<1>2. QED
  BY <1>1, Invariance, PTL

\* After a 204 the refresh token stays revoked and the access token is refused.
THEOREM LogoutHolds == Spec => []LogoutRevokesBoth
<1>1. SessionsInv => LogoutRevokesBoth
  BY DEF SessionsInv, Local, LoggingOut, LogoutRevokesBoth
<1>2. QED
  BY <1>1, Invariance, PTL
-----------------------------------------------------------------------------
(* The tier a pair claims.  A request reads the tier once it has come in,   *)
(* and tiers only grow; whose tier it reads does not change in between.    *)

\* The tier a request that issues a pair will read, or has read, is one since it came in.
TierAhead(r) ==
  /\ pc[r] \in Active /\ req[r].op # "logout" => since[r] <= tier[Subject(r)]
  /\ pc[r] \in {"store", "rotate"} => since[r] <= read[r]

TierInv == \A r \in Requests : TierAhead(r)

\* Tiers only grow, and a pair keeps its user.
Keeps ==
  /\ \A u \in Users : tier[u] <= tier'[u]
  /\ \A t \in Tokens : row[t] # "absent" => user'[t] = user[t]

\* Every step keeps them.
LEMMA KeepsStep ==
  ASSUME SessionsInv, [Next]_vars
  PROVE  Keeps
<1> USE DEF Keeps
<1>1. /\ tier \in [Users -> Nat]
      /\ user \in [Tokens -> Users \cup {None}]
  BY DEF SessionsInv, TypeOK
<1>2. \A u \in Users : tier[u] <= tier[u]
  BY <1>1
<1>3. ASSUME UNCHANGED <<tier, user>> PROVE Keeps
  BY <1>2, <1>3
<1>4. ASSUME NEW r \in Requests, pc[r] = "upgrade", UNCHANGED user,
             tier' = [tier EXCEPT ![req[r].user] = @ + 1]
      PROVE  Keeps
  <2>1. req[r].user \in Users
    BY <1>4, RequestType DEF Asking
  <2>2. QED
    BY <1>1, <1>4, <2>1
<1>5. ASSUME NEW r \in Requests, NEW t \in Tokens, NEW from, Insert(r, t, from), UNCHANGED tier
      PROVE  Keeps
  BY <1>1, <1>2, <1>5 DEF Insert
<1>6. ASSUME NEW r \in Requests, Come(r) PROVE UNCHANGED <<tier, user>>
  BY <1>6 DEF Come, Login, Upgrade, Refresh, Logout, Receive, rows
<1>7. ASSUME NEW r \in Requests, Serve(r) PROVE Keeps
  BY <1>3, <1>4, <1>5, <1>7 DEF Serve, SetTier, GetTier, CreateRefreshToken, Rotate, LookupRefresh,
     RotateRejected, Authorize, LookupLogout, Blacklist, Revoke, rows
<1>8. ASSUME NEW r \in Requests, CallFails(r) \/ AnswerLost(r) PROVE Keeps
  BY <1>3, <1>4, <1>5, <1>8 DEF CallFails, AnswerLost, rows
<1>9. QED
  BY <1>3, <1>6, <1>7, <1>8 DEF Next, Lapse, Expire, vars, rows

\* A request of which only the answer to its last call, or nothing, is new.
LEMMA AheadStays ==
  ASSUME SessionsInv, SessionsInv', Keeps, NEW r \in Requests, TierAhead(r),
         req'[r] = req[r], since'[r] = since[r], read'[r] = read[r],
         pc'[r] \in Active => pc[r] \in Active,
         pc'[r] \in {"store", "rotate"} => pc[r] = pc'[r]
  PROVE  TierAhead(r)'
<1>1. SUFFICES ASSUME pc'[r] \in Active, req[r].op # "logout"
               PROVE  since[r] <= tier'[Subject(r)']
  <2>1. pc'[r] \in {"store", "rotate"} => since'[r] <= read'[r]
    BY DEF TierAhead
  <2>2. pc'[r] \in Active /\ req'[r].op # "logout" => since'[r] <= tier'[Subject(r)']
    BY <1>1
  <2>3. QED
    BY <2>1, <2>2 DEF TierAhead
<1>2. pc[r] \in Active /\ pc[r] # "new"
  BY <1>1 DEF Active
<1>3. Asking(r) /\ Subject(r) \in Users
  BY <1>1, <1>2, RequestType
<1>4. Subject(r)' = Subject(r)
  <2>1. CASE req[r].op = "refresh"
    BY <1>3, <2>1 DEF Asking, Subject, Keeps
  <2>2. CASE req[r].op # "refresh"
    BY <2>2 DEF Subject
  <2>3. QED
    BY <2>1, <2>2
<1>5. since[r] <= tier[Subject(r)] /\ tier[Subject(r)] <= tier'[Subject(r)]
  BY <1>1, <1>2, <1>3 DEF TierAhead, Keeps
<1>6. since[r] \in Nat /\ tier[Subject(r)] \in Nat /\ tier'[Subject(r)] \in Nat
  <2>1. since \in [Requests -> Nat] /\ tier \in [Users -> Nat] /\ tier' \in [Users -> Nat]
    BY DEF SessionsInv, TypeOK
  <2>2. QED
    BY <1>3, <2>1
<1>7. QED
  BY <1>4, <1>5, <1>6
\* A request that comes in.
LEMMA AheadComes ==
  ASSUME SessionsInv, NEW r \in Requests, Come(r)
  PROVE  TierAhead(r)'
<1>1. /\ tier \in [Users -> Nat] /\ since \in [Requests -> Nat]
      /\ req \in [Requests -> Request \cup {None}] /\ pc \in [Requests -> {"new"} \cup Active \cup Answers]
  BY DEF SessionsInv, TypeOK
<1>2. ASSUME NEW q, NEW u \in Users, NEW label \in {"tier", "upgrade", "lookup", "authorize"},
             Receive(r, q, u, label), q.op # "logout" => Subject(r)' = u
      PROVE  TierAhead(r)'
  <2>1. req'[r] = q /\ since'[r] = tier[u] /\ pc'[r] = label /\ UNCHANGED tier
    BY <1>1, <1>2 DEF Receive, Goto
  <2>2. tier[u] \in Nat
    BY <1>1
  <2>3. QED
    BY <1>2, <2>1, <2>2 DEF TierAhead
<1>3. ASSUME NEW u \in Users, NEW op \in {"issue", "upgrade"},
             NEW label \in {"tier", "upgrade"}, Receive(r, Asks(op, u, None, None), u, label)
      PROVE  TierAhead(r)'
  <2>1. Subject(r)' = u
    BY <1>1, <1>3 DEF Receive, Asks, Subject
  <2>2. QED
    BY <1>2, <1>3, <2>1
<1>4. ASSUME NEW t \in Tokens, Refresh(r, t) PROVE TierAhead(r)'
  <2>1. user[t] \in Users
    BY <1>4 DEF Refresh, SessionsInv, Tree
  <2>2. Subject(r)' = user[t]
    BY <1>1, <1>4 DEF Refresh, Receive, Asks, Subject, rows
  <2>3. QED
    BY <1>2, <1>4, <2>1, <2>2 DEF Refresh
<1>5. ASSUME NEW t \in Tokens, NEW a \in Tokens, Logout(r, a, t) PROVE TierAhead(r)'
  <2>1. user[a] \in Users
    BY <1>5 DEF Logout, SessionsInv, Tree
  <2>2. Asks("logout", user[a], t, a).op = "logout"
    BY DEF Asks
  <2>3. QED
    BY <1>2, <1>5, <2>1, <2>2 DEF Logout
<1>6. QED
  BY <1>3, <1>4, <1>5 DEF Come, Login, Upgrade

\* GetTier reads a tier the request came in with, or a later one.
LEMMA AheadReads ==
  ASSUME SessionsInv, SessionsInv', NEW r \in Requests, TierAhead(r), GetTier(r)
  PROVE  TierAhead(r)'
<1>1. pc[r] \in Active /\ pc[r] # "new"
  BY DEF GetTier, Active
<1>2. Asking(r) /\ req[r].op # "logout" /\ Subject(r) \in Users
  BY <1>1, RequestType DEF GetTier, Asking
<1>3. since[r] <= CurrentTier(r)
  BY <1>1, <1>2 DEF TierAhead, CurrentTier
<1>4. read'[r] = CurrentTier(r) /\ Subject(r)' = Subject(r) /\ since'[r] = since[r] /\ UNCHANGED tier
  BY DEF GetTier, SessionsInv, TypeOK, Subject, rows
<1>5. QED
  BY <1>3, <1>4 DEF TierAhead, CurrentTier

\* The other steps of a request read no tier.
LEMMA AheadServes ==
  ASSUME SessionsInv, SessionsInv', Keeps, NEW r \in Requests, TierAhead(r),
         Serve(r) \/ CallFails(r) \/ AnswerLost(r)
  PROVE  TierAhead(r)'
<1>1. pc \in [Requests -> {"new"} \cup Active \cup Answers]
  BY DEF SessionsInv, TypeOK
<1>2. ASSUME UNCHANGED request, NEW label \in {"tier", "blacklist", "revoke", "lookup"} \cup Answers,
             Goto(r, label), pc[r] \in Active
      PROVE  TierAhead(r)'
  <2>1. pc'[r] = label
    BY <1>1, <1>2 DEF Goto
  <2>2. label \notin {"store", "rotate"}
    BY DEF Answers
  <2>3. QED
    BY <1>2, <2>1, <2>2, AheadStays DEF request
<1>3. Failure(r) \in Answers
  BY FailureAnswers DEF Answers
<1>4. ASSUME CallFails(r) \/ AnswerLost(r) PROVE TierAhead(r)'
  BY <1>2, <1>3, <1>4 DEF CallFails, AnswerLost, Active, Answers
<1>5. ASSUME SetTier(r) \/ (\E t \in Tokens : CreateRefreshToken(r, t) \/ Rotate(r, t)) \/ LookupRefresh(r)
             \/ RotateRejected(r)
      PROVE  TierAhead(r)'
  BY <1>2, <1>5 DEF SetTier, CreateRefreshToken, Rotate, LookupRefresh, RotateRejected, Active, Answers
<1>6. ASSUME Authorize(r) \/ LookupLogout(r) \/ Blacklist(r) \/ Revoke(r)
      PROVE  TierAhead(r)'
  BY <1>2, <1>6 DEF Authorize, LookupLogout, Blacklist, Revoke, Active, Answers
<1>7. QED
  BY <1>4, <1>5, <1>6, AheadReads DEF Serve

\* A step is one request's own: the others stay where they are.
LEMMA OtherRequests ==
  ASSUME SessionsInv, NEW q \in Requests, Come(q) \/ Serve(q) \/ CallFails(q) \/ AnswerLost(q),
         NEW r \in Requests, r # q
  PROVE  req'[r] = req[r] /\ since'[r] = since[r] /\ read'[r] = read[r] /\ pc'[r] = pc[r]
<1> USE DEF SessionsInv, TypeOK, Goto, request
<1>1. CASE Come(q)
  BY <1>1 DEF Come, Login, Upgrade, Refresh, Logout, Receive
<1>2. CASE Serve(q)
  BY <1>2 DEF Serve, SetTier, GetTier, CreateRefreshToken, Rotate, LookupRefresh,
     RotateRejected, Authorize, LookupLogout, Blacklist, Revoke
<1>3. CASE CallFails(q) \/ AnswerLost(q)
  BY <1>3 DEF CallFails, AnswerLost
<1>4. QED
  BY <1>1, <1>2, <1>3

\* TierInv is inductive.
LEMMA TierInductive ==
  ASSUME SessionsInv, SessionsInv', TierInv, [Next]_vars
  PROVE  TierInv'
<1>1. Keeps
  BY KeepsStep
<1>2. SUFFICES ASSUME NEW r \in Requests PROVE TierAhead(r)'
  BY DEF TierInv
<1>3. TierAhead(r)
  BY DEF TierInv
<1>4. CASE req'[r] = req[r] /\ since'[r] = since[r] /\ read'[r] = read[r] /\ pc'[r] = pc[r]
  BY <1>1, <1>3, <1>4, AheadStays
<1>5. CASE Come(r) \/ Serve(r) \/ CallFails(r) \/ AnswerLost(r)
  BY <1>1, <1>3, <1>5, AheadComes, AheadServes
<1>6. CASE (\E t \in Tokens : Lapse(t) \/ Expire(t)) \/ UNCHANGED vars
  BY <1>4, <1>6 DEF Lapse, Expire, vars, request
<1>7. QED
  BY <1>4, <1>5, <1>6, OtherRequests DEF Next

\* A request is answered with a pair by the insert of that pair.
LEMMA AnswerStep ==
  ASSUME SessionsInv, [Next]_vars, NEW r \in Requests, pc[r] # "200", pc'[r] = "200",
         NEW t \in held' \ held
  PROVE  t \in Tokens /\ claim'[t] = read[r] /\ pc[r] \in {"store", "rotate"}
<1> USE DEF SessionsInv, TypeOK, Goto
<1>1. ASSUME Come(r) \/ CallFails(r) \/ AnswerLost(r) PROVE FALSE
  BY <1>1, FailureAnswers DEF Come, Login, Upgrade, Refresh, Logout, Receive, CallFails, AnswerLost
<1>2. ASSUME NEW x \in Tokens, CreateRefreshToken(r, x) \/ Rotate(r, x)
      PROVE  x = t /\ claim'[x] = read[r] /\ pc[r] \in {"store", "rotate"}
  BY <1>2 DEF CreateRefreshToken, Rotate, Insert
<1>3. ASSUME Serve(r) PROVE \E x \in Tokens : CreateRefreshToken(r, x) \/ Rotate(r, x)
  BY <1>3 DEF Serve, SetTier, GetTier, LookupRefresh, RotateRejected, Authorize, LookupLogout,
     Blacklist, Revoke
<1>4. ~(UNCHANGED pc)
  OBVIOUS
<1>5. QED
  BY <1>1, <1>2, <1>3, <1>4, OtherRequests DEF Next, Lapse, Expire, vars

\* A pair a client is given claims a tier no older than the one in force when it asked.
THEOREM IssuedWithCurrentTier == Spec => IssuedTierIsCurrent
<1> DEFINE Current == \A r \in Requests : \A t \in held' \ held :
                        pc[r] # "200" /\ pc'[r] = "200" => claim'[t] >= since[r]
<1>1. Init => TierInv
  BY DEF Init, TierInv, TierAhead, Active
<1>2. SessionsInv /\ SessionsInv' /\ TierInv /\ [Next]_vars => TierInv'
  BY TierInductive
<1>3. SessionsInv /\ TierInv /\ [Next]_vars => Current
  <2>1. SUFFICES ASSUME SessionsInv, TierInv, [Next]_vars, NEW r \in Requests, NEW t \in held' \ held,
                        pc[r] # "200", pc'[r] = "200"
                 PROVE  claim'[t] >= since[r]
    OBVIOUS
  <2>2. claim'[t] = read[r] /\ pc[r] \in {"store", "rotate"}
    BY <2>1, AnswerStep
  <2>3. since[r] <= read[r] /\ since[r] \in Nat /\ read[r] \in Nat
    BY <2>1, <2>2 DEF TierInv, TierAhead, SessionsInv, TypeOK
  <2>4. QED
    BY <2>2, <2>3
<1>4. QED
  BY <1>1, <1>2, <1>3, Invariance, PTL DEF Spec, IssuedTierIsCurrent
-----------------------------------------------------------------------------
(* A session that has ended.                                               *)

Ended(s) == row[s] # "absent" /\ \A t \in Tokens : session[t] = s => row[t] = "revoked"

\* A logout revokes the one row it was given (service.go:194-222).  Where that row is live when
\* the UPDATE meets it, the session has ended with it: none of its refresh tokens can be used,
\* and no refresh that is under way brings one back.  (Where a refresh has rotated it in between,
\* the successor is live after the 204.)
LogoutEndsSession ==
  [][/\ \A s \in Tokens : Ended(s) => Ended(s)'
     /\ \A r \in Requests : LET t == req[r].refresh IN
          pc[r] = "revoke" /\ pc'[r] = "204" /\ row[t] = "active" => Ended(session[t])']_vars

\* What a step does to the rows: nothing, an INSERT, which revokes a live row or begins a
\* session, or the UPDATE of a logout.
LEMMA RowsStep ==
  ASSUME SessionsInv, [Next]_vars
  PROVE  \/ UNCHANGED <<row, session>>
         \/ \E r \in Requests, t \in Tokens, from \in Tokens \cup {None} :
              Insert(r, t, from) /\ (from # None => row[from] = "active")
         \/ \E r \in Requests : row' = [row EXCEPT ![req[r].refresh] = "revoked"] /\ session' = session
<1> USE DEF rows
<1>1. ASSUME NEW r \in Requests, NEW t \in Tokens, CreateRefreshToken(r, t) \/ Rotate(r, t)
      PROVE  \E from \in Tokens \cup {None} : Insert(r, t, from) /\ (from # None => row[from] = "active")
  <2>1. CASE CreateRefreshToken(r, t)
    BY <2>1 DEF CreateRefreshToken
  <2>2. CASE Rotate(r, t)
    <3>1. req[r].refresh \in Tokens
      BY <2>2, RequestType DEF Rotate, Asking
    <3>2. QED
      BY <2>2, <3>1 DEF Rotate, Rotatable
  <2>3. QED
    BY <1>1, <2>1, <2>2
<1>2. ASSUME NEW r \in Requests, AnswerLost(r)
      PROVE  \/ UNCHANGED <<row, session>>
             \/ \E t \in Tokens, from \in Tokens \cup {None} :
                  Insert(r, t, from) /\ (from # None => row[from] = "active")
             \/ row' = [row EXCEPT ![req[r].refresh] = "revoked"] /\ session' = session
  <2>1. CASE pc[r] = "store" /\ \E t \in Tokens : Insert(r, t, None)
    BY <2>1
  <2>2. CASE /\ pc[r] = "rotate" /\ Rotatable(req[r].refresh)
             /\ \E t \in Tokens : Insert(r, t, req[r].refresh)
    <3>1. req[r].refresh \in Tokens
      BY <2>2, RequestType DEF Asking
    <3>2. QED
      BY <2>2, <3>1 DEF Rotatable
  <2>3. QED
    BY <1>2, <2>1, <2>2 DEF AnswerLost
<1>3. QED
  BY <1>1, <1>2 DEF Next, Come, Login, Upgrade, Refresh, Logout, Receive, Serve, SetTier, GetTier,
     LookupRefresh, RotateRejected, Authorize, LookupLogout, Blacklist, Revoke, CallFails, Lapse,
     Expire, vars

\* No step brings an ended session back.
LEMMA EndedStays ==
  ASSUME SessionsInv, [Next]_vars, NEW s \in Tokens, Ended(s)
  PROVE  Ended(s)'
<1>1. row \in [Tokens -> {"absent", "active", "revoked"}] /\ session \in [Tokens -> Tokens \cup {None}]
  BY DEF SessionsInv, TypeOK
<1>2. CASE UNCHANGED <<row, session>>
  BY <1>2 DEF Ended
<1>3. ASSUME NEW r \in Requests, NEW t \in Tokens, NEW from \in Tokens \cup {None},
             Insert(r, t, from), from # None => row[from] = "active"
      PROVE  Ended(s)'
  <2>1. \A x \in Tokens \ {t} : session'[x] = session[x] /\ row'[x] \in {row[x], "revoked"}
    BY <1>1, <1>3 DEF Insert
  <2>2. row[t] = "absent" /\ s # t
    BY <1>3 DEF Insert, Ended
  <2>3. session'[t] = IF from = None THEN t ELSE session[from]
    BY <1>1, <1>3 DEF Insert
  <2>4. session'[t] # s
    BY <1>1, <1>3, <2>2, <2>3 DEF Ended
  <2>5. QED
    BY <1>1, <2>1, <2>2, <2>4 DEF Ended
<1>4. ASSUME NEW r \in Requests, row' = [row EXCEPT ![req[r].refresh] = "revoked"], session' = session
      PROVE  Ended(s)'
  BY <1>1, <1>4 DEF Ended
<1>5. QED
  BY <1>2, <1>3, <1>4, RowsStep

\* The UPDATE of a logout, on a live row.
LEMMA LogoutEnds ==
  ASSUME SessionsInv, [Next]_vars, NEW r \in Requests,
         pc[r] = "revoke", pc'[r] = "204", row[req[r].refresh] = "active"
  PROVE  Ended(session[req[r].refresh])'
<1> DEFINE t == req[r].refresh
<1>1. Asking(r) /\ t \in Tokens /\ req[r].op = "logout"
  BY RequestType DEF Asking
<1>2. Revoke(r)
  <2>1. pc \in [Requests -> {"new"} \cup Active \cup Answers]
    BY DEF SessionsInv, TypeOK
  <2>2. ASSUME NEW q \in Requests, NEW label, Goto(q, label), label # "204"
        PROVE  FALSE
    BY <2>1, <2>2 DEF Goto
  <2>3. \A q \in Requests : ~Come(q)
    BY <2>2 DEF Come, Login, Upgrade, Refresh, Logout, Receive
  <2>4. \A q \in Requests : ~CallFails(q) /\ ~AnswerLost(q)
    <3>1. ASSUME NEW q \in Requests, CallFails(q) \/ AnswerLost(q) PROVE FALSE
      <4>1. Failure(q) \in {"500", "401", "503"}
        BY FailureAnswers
      <4>2. QED
        BY <2>2, <3>1, <4>1 DEF CallFails, AnswerLost
    <3>2. QED
      BY <3>1
  <2>5. ASSUME NEW q \in Requests, Serve(q) PROVE Revoke(q)
    BY <2>2, <2>5 DEF Serve, SetTier, GetTier, CreateRefreshToken, LookupRefresh, Rotate, RotateRejected,
       Authorize, LookupLogout, Blacklist
  <2>6. \A x \in Tokens : ~Lapse(x) /\ ~Expire(x)
    BY DEF Lapse, Expire
  <2>7. PICK q \in Requests : Revoke(q)
    BY <2>3, <2>4, <2>5, <2>6 DEF Next, vars
  <2>8. q = r
    BY <2>1, <2>7 DEF Revoke, Goto
  <2>9. QED
    BY <2>7, <2>8
<1>3. row' = [row EXCEPT ![t] = "revoked"] /\ session' = session
  BY <1>2 DEF Revoke
<1>4. /\ row \in [Tokens -> {"absent", "active", "revoked"}]
      /\ session[t] \in Tokens /\ row[session[t]] # "absent"
  BY <1>1, Constants DEF SessionsInv, TypeOK, Tree
<1>5. ASSUME NEW x \in Tokens, session[x] = session[t] PROVE row'[x] = "revoked"
  <2>1. row[x] # "absent"
    BY <1>4, <1>5, Constants DEF SessionsInv, Tree
  <2>2. row[x] = "active" => x = t
    BY <1>1, <1>5 DEF SessionsInv, OneLiveTokenPerSession
  <2>3. QED
    BY <1>1, <1>3, <1>4, <2>1, <2>2
<1>6. row'[session[t]] # "absent" /\ session'[t] = session[t]
  BY <1>1, <1>3, <1>4
<1>7. Ended(session[t])' <=> row'[session'[t]] # "absent"
                             /\ \A x \in Tokens : session'[x] = session'[t] => row'[x] = "revoked"
  BY <1>1, <1>2 DEF Ended, Revoke, request
<1>8. QED
  BY <1>3, <1>5, <1>6, <1>7

\* A logout that meets a live refresh token ends its session, for good.
THEOREM LogoutIsFinal == Spec => LogoutEndsSession
<1>1. SessionsInv /\ [Next]_vars =>
        [/\ \A s \in Tokens : Ended(s) => Ended(s)'
         /\ \A r \in Requests : LET t == req[r].refresh IN
              pc[r] = "revoke" /\ pc'[r] = "204" /\ row[t] = "active" => Ended(session[t])']_vars
  BY EndedStays, LogoutEnds
<1>2. QED
  BY <1>1, Invariance, PTL DEF Spec, LogoutEndsSession
=============================================================================
