--------------------------- MODULE Accounts_proofs ---------------------------
(***************************************************************************)
(* Theorems about Accounts, for any addresses, Google users, states,       *)
(* requests and faults, and their proofs.                                  *)
(***************************************************************************)
EXTENDS Accounts, TLAPS

Ops == {"register", "login", "callback", "get", "patch", "like"}

\* What the proofs need of the constants.
LEMMA Constants ==
  /\ Requests \in Nat /\ MaxFaults \in Nat
  /\ Subjects \cap Request = {}
  /\ None \notin Emails /\ None \notin Subjects /\ None \notin States /\ None \notin Request
BY AccountsAssumption

\* The fields of what a request asks for.
LEMMA AskedType ==
  ASSUME NEW q \in Asked
  PROVE  /\ q.op \in Ops
         /\ q.email \in Emails
         /\ q.op = "login" => q.by \in Request \cup {None}
         /\ q.op = "callback" => q.by \in Subjects \cup {None} /\ q.state \in States
BY DEF Asked, Ask, Ops

-----------------------------------------------------------------------------
(* The inductive invariant.                                                *)

\* What a request is at belongs to what it asks for.
Placed(r) ==
  /\ pc[r] # "new" => req[r] \in Asked
  /\ pc[r] \in {"register", "create", "announce", "201"} => req[r].op = "register"
  /\ pc[r] = "login" => req[r].op = "login"
  /\ pc[r] \in {"callback", "exchange", "subject", "email", "link", "initialize"} =>
       req[r].op = "callback"
  /\ \/ pc[r] \in {"subject", "email", "link", "initialize"}
     \/ pc[r] \in {"409", "500"} /\ req[r].op = "callback"
     => Subject(r) \in Subjects
  /\ pc[r] = "issue" => req[r].op \in {"login", "callback"}

\* What it has found or created is still there.
Backed(r) ==
  /\ pc[r] \in {"announce", "201"} => account[Email(r)] = r
  /\ pc[r] = "201" => r \in announced \/ faults > 0
  /\ pc[r] = "initialize" => linked[Subject(r)] # None
  /\ pc[r] = "issue" /\ req[r].op = "login" =>
       req[r].by # None /\ account[Email(r)] = req[r].by
  /\ pc[r] = "issue" /\ req[r].op = "callback" =>
       Subject(r) \in Subjects /\ linked[Subject(r)] # None
  /\ pc[r] \in {"again", "read"} => Email(r) \in profile \cap prefs
  /\ pc[r] = "update" => Email(r) \in profile
  /\ pc[r] \in {"409", "500"} =>
       \/ req[r].op = "register" /\ Taken(Email(r))
       \/ req[r].op = "callback" /\ Clashes(r)

\* The state of a request that has passed is gone.
Used(r) ==
  r \in passed => /\ pc[r] \notin {"new", "callback"}
                  /\ req[r].op = "callback"
                  /\ states[req[r].state] = "gone"

\* A pair is the owner's.
Owned(r) ==
  issued[r] # None =>
    /\ pc[r] # "new"
    /\ issued[r] \in Emails
    /\ req[r].by # None
    /\ account[issued[r]] = req[r].by

Local(r) == Placed(r) /\ Backed(r) /\ Used(r) /\ Owned(r)

AccountsInv ==
  /\ TypeOK
  /\ profile \subseteq prefs
  /\ StateUsedOnce
  /\ \A r \in Request : Local(r)

\* What no step takes back.
Grows ==
  /\ \A e \in Emails : account[e] # None => account'[e] = account[e]
  /\ \A g \in Subjects : linked[g] # None => linked'[g] = linked[g]
  /\ profile \subseteq profile' /\ prefs \subseteq prefs'
  /\ \A s \in States : states[s] = "gone" => states'[s] = "gone"
  /\ announced \subseteq announced'
  /\ faults > 0 => faults' > 0

\* A step of one request leaves the others where they are.
Alone(r) ==
  \A q \in Request \ {r} :
    /\ pc'[q] = pc[q] /\ req'[q] = req[q] /\ issued'[q] = issued[q]
    /\ q \in passed' <=> q \in passed

-----------------------------------------------------------------------------
(* Requests that a step leaves alone.                                      *)

LEMMA Stays ==
  ASSUME TypeOK, Grows, NEW q \in Request, Local(q),
         pc'[q] = pc[q], req'[q] = req[q], issued'[q] = issued[q],
         q \in passed' <=> q \in passed
  PROVE  Local(q)'
<1>1. Placed(q)'
  BY DEF Local, Placed, Subject
<1>2. pc[q] # "new" => /\ Email(q) \in Emails
                       /\ req[q].op = "callback" =>
                            Subject(q) \in Subjects \cup {None} /\ req[q].state \in States
  BY AskedType DEF Local, Placed, Email, Subject
<1>3. Backed(q)'
  <2>1. Email(q)' = Email(q) /\ Subject(q)' = Subject(q) /\ q # None
    BY Constants DEF Email, Subject
  <2>2. \A e \in Emails : Taken(e) => Taken(e)'
    BY DEF Grows, Taken
  <2>3. Subject(q) \in Subjects /\ Email(q) \in Emails /\ Clashes(q) => Clashes(q)'
    BY <2>1, <2>2 DEF Grows, Clashes
  <2>4. pc[q] \in {"announce", "201", "issue", "initialize"} => Backed(q)'
    BY <1>2, <2>1, Constants DEF Local, Placed, Backed, Grows
  <2>5. pc[q] \in {"again", "read", "update"} => Backed(q)'
    BY <1>2, <2>1 DEF Local, Placed, Backed, Grows
  <2>6. pc[q] \in {"409", "500"} => Backed(q)'
    BY <1>2, <2>1, <2>2, <2>3, Zenon DEF Local, Placed, Backed
  <2>7. QED
    BY <2>4, <2>5, <2>6 DEF Backed
<1>4. Used(q)'
  BY <1>2 DEF Local, Used, Grows
<1>5. Owned(q)'
  BY Constants DEF Local, Owned, Grows
<1>6. QED
  BY <1>1, <1>3, <1>4, <1>5 DEF Local

-----------------------------------------------------------------------------
(* The request of a step.                                                  *)

LEMMA RequestType ==
  ASSUME NEW r \in Request, Placed(r), pc[r] # "new"
  PROVE  /\ req[r] \in Asked /\ Email(r) \in Emails /\ r # None
         /\ req[r].op = "login" => req[r].by \in Request \cup {None}
         /\ req[r].op = "callback" => Subject(r) \in Subjects \cup {None} /\ req[r].state \in States
BY AskedType, Constants DEF Placed, Email, Subject

\* A request that goes on and changes nothing else.
LEMMA Goes ==
  ASSUME TypeOK, NEW r \in Request, NEW label \in Running \cup Answers, Goto(r, label),
         UNCHANGED <<users, me, redis, announced, req, issued>>, faults' \in 0..MaxFaults,
         faults > 0 => faults' > 0
  PROVE  TypeOK' /\ Grows /\ Alone(r) /\ pc'[r] = label
<1>1. TypeOK'
  BY DEF TypeOK, Goto, users, me, redis
<1>2. Grows /\ Alone(r) /\ pc'[r] = label
  BY DEF TypeOK, Grows, Alone, Goto, users, me, redis
<1>3. QED
  BY <1>1, <1>2

Good(r) == TypeOK' /\ Grows /\ Alone(r) /\ Local(r)' /\ (profile \subseteq prefs)'

\* Receiving a request.
LEMMA ReceiveStep ==
  ASSUME AccountsInv, NEW r \in Request, Receive(r)
  PROVE  Good(r)
<1>1. PICK q \in Asked : req' = [req EXCEPT ![r] = q] /\ pc' = [pc EXCEPT ![r] = q.op]
  BY DEF Receive, Goto
<1>2. q.op \in Ops
  BY <1>1, AskedType
<1>3. TypeOK'
  BY <1>1, <1>2 DEF AccountsInv, TypeOK, Receive, users, me, redis, Ops, Running
<1>4. Grows /\ Alone(r) /\ (profile \subseteq prefs)'
  BY <1>1 DEF AccountsInv, TypeOK, Receive, users, me, redis, Grows, Alone
<1>5. pc'[r] = q.op /\ req'[r] = q /\ pc[r] = "new"
  BY <1>1 DEF AccountsInv, TypeOK, Receive
<1>6. Local(r)'
  BY <1>1, <1>2, <1>5 DEF AccountsInv, Local, Placed, Backed, Used, Owned, Receive, users, me, redis, Ops
<1>7. QED
  BY <1>3, <1>4, <1>6 DEF Good

\* A step that looks something up and goes on: what is left to show is where it goes.
LEMMA Lookup ==
  ASSUME AccountsInv, NEW r \in Request, pc[r] # "new",
         NEW label \in (Running \cup Answers) \ {"callback"}, Goto(r, label),
         UNCHANGED <<users, me, redis, announced, req, issued>>, faults' \in 0..MaxFaults,
         faults > 0 => faults' > 0,
         pc'[r] = label /\ Email(r)' = Email(r) /\ Subject(r)' = Subject(r)
           => Placed(r)' /\ Backed(r)'
  PROVE  Good(r)
<1>1. TypeOK' /\ Grows /\ Alone(r) /\ pc'[r] = label
  BY Goes DEF AccountsInv
<1>2. Placed(r)' /\ Backed(r)'
  BY <1>1 DEF Email, Subject
<1>3. label # "new"
  BY DEF Running, Answers
<1>4. Used(r)' /\ Owned(r)'
  BY <1>1, <1>3 DEF AccountsInv, Local, Used, Owned, users, redis
<1>5. QED
  BY <1>1, <1>2, <1>4 DEF Good, AccountsInv, Local, me

\* Lookups of the accounts, and Google.
LEMMA LookupStep ==
  ASSUME AccountsInv, NEW r \in Request,
         \/ LookupRegister(r) \/ Login(r) \/ LookupSubject(r) \/ LookupEmail(r) \/ Exchange(r)
  PROVE  Good(r)
<1>1. /\ Placed(r) /\ Backed(r) /\ faults \in 0..MaxFaults
      /\ pc[r] # "new" => Subject(r) \in Subjects \cup {None} \/ req[r].op # "callback"
  BY RequestType DEF AccountsInv, Local, TypeOK
<1>2. ASSUME NEW label \in {"409", "create"}, LookupRegister(r), Goto(r, label),
             label = "409" => Taken(Email(r))
      PROVE  Good(r)
  <2>1. pc'[r] = label /\ Email(r)' = Email(r) /\ Subject(r)' = Subject(r) => Placed(r)' /\ Backed(r)'
    BY <1>1, <1>2 DEF LookupRegister, Placed, Backed, users, Taken
  <2>2. QED
    BY <1>1, <1>2, <2>1, Lookup DEF LookupRegister, Running, Answers
<1>3. ASSUME NEW label \in {"issue", "401"}, Login(r), Goto(r, label),
             label = "issue" => Taken(Email(r)) /\ account[Email(r)] = req[r].by
      PROVE  Good(r)
  <2>1. pc'[r] = label /\ Email(r)' = Email(r) /\ Subject(r)' = Subject(r) => Placed(r)' /\ Backed(r)'
    BY <1>1, <1>3 DEF Login, Placed, Backed, users, Taken, Email
  <2>2. QED
    BY <1>1, <1>3, <2>1, Lookup DEF Login, Running, Answers
<1>4. ASSUME NEW label \in {"issue", "email"}, LookupSubject(r), Goto(r, label),
             label = "issue" => linked[Subject(r)] # None
      PROVE  Good(r)
  <2>1. pc'[r] = label /\ Email(r)' = Email(r) /\ Subject(r)' = Subject(r) => Placed(r)' /\ Backed(r)'
    BY <1>1, <1>4 DEF LookupSubject, Placed, Backed, users, Subject
  <2>2. QED
    BY <1>1, <1>4, <2>1, Lookup DEF LookupSubject, Running, Answers
<1>5. ASSUME NEW label \in {"409", "link"}, LookupEmail(r), Goto(r, label),
             label = "409" => Taken(Email(r))
      PROVE  Good(r)
  <2>1. pc'[r] = label /\ Email(r)' = Email(r) /\ Subject(r)' = Subject(r) => Placed(r)' /\ Backed(r)'
    BY <1>1, <1>5 DEF LookupEmail, Placed, Backed, users, Taken, Clashes
  <2>2. QED
    BY <1>1, <1>5, <2>1, Lookup DEF LookupEmail, Running, Answers
<1>6. ASSUME NEW label \in {"502", "403", "subject"}, Exchange(r), Goto(r, label),
             label = "subject" => Subject(r) # None
      PROVE  Good(r)
  <2>1. pc'[r] = label /\ Email(r)' = Email(r) /\ Subject(r)' = Subject(r) => Placed(r)' /\ Backed(r)'
    BY <1>1, <1>6 DEF Exchange, Placed, Backed, users
  <2>2. QED
    BY <1>1, <1>6, <2>1, Lookup DEF Exchange, Running, Answers
<1>7. QED
  BY <1>2, <1>3, <1>4, <1>5, <1>6 DEF LookupRegister, Login, LookupSubject, LookupEmail, Exchange

\* Reads of a profile and its update, where the rows are there, and failures.
LEMMA ReadStep ==
  ASSUME AccountsInv, NEW r \in Request,
         \/ GetMe(r) \/ PatchMe(r) \/ ReadAgain(r) \/ Update(r) \/ ReadPrefs(r) \/ CallFails(r)
  PROVE  Good(r)
<1>1. Placed(r) /\ Backed(r) /\ faults \in 0..MaxFaults /\ profile \subseteq prefs
  BY DEF AccountsInv, Local, TypeOK
<1>2. ASSUME NEW label \in {"200", "ensure"}, GetMe(r), Goto(r, label)
      PROVE  Good(r)
  <2>1. pc'[r] = label /\ Email(r)' = Email(r) /\ Subject(r)' = Subject(r) => Placed(r)' /\ Backed(r)'
    BY <1>1, <1>2 DEF GetMe, Placed, Backed, me
  <2>2. QED
    BY <1>1, <1>2, <2>1, Lookup DEF GetMe, Running, Answers
<1>3. ASSUME NEW label \in {"update", "ensure"}, PatchMe(r), Goto(r, label),
             label = "update" => Email(r) \in profile
      PROVE  Good(r)
  <2>1. pc'[r] = label /\ Email(r)' = Email(r) /\ Subject(r)' = Subject(r) => Placed(r)' /\ Backed(r)'
    BY <1>1, <1>3 DEF PatchMe, Placed, Backed, me
  <2>2. QED
    BY <1>1, <1>3, <2>1, Lookup DEF PatchMe, Running, Answers
<1>4. CASE ReadAgain(r)
  <2>1. Goto(r, "200")
    BY <1>1, <1>4 DEF ReadAgain, Backed
  <2>2. pc'[r] = "200" /\ Email(r)' = Email(r) /\ Subject(r)' = Subject(r) => Placed(r)' /\ Backed(r)'
    BY <1>1, <1>4 DEF ReadAgain, Placed, Backed, me
  <2>3. QED
    BY <1>1, <1>4, <2>1, <2>2, Lookup DEF ReadAgain, Running, Answers
<1>5. CASE Update(r)
  <2>1. Goto(r, "read")
    BY <1>1, <1>5 DEF Update, Backed
  <2>2. pc'[r] = "read" /\ Email(r)' = Email(r) /\ Subject(r)' = Subject(r) => Placed(r)' /\ Backed(r)'
    BY <1>1, <1>5 DEF Update, Placed, Backed, me
  <2>3. QED
    BY <1>1, <1>5, <2>1, <2>2, Lookup DEF Update, Running, Answers
<1>6. CASE ReadPrefs(r)
  <2>1. Goto(r, "200")
    BY <1>1, <1>6 DEF ReadPrefs, Backed
  <2>2. pc'[r] = "200" /\ Email(r)' = Email(r) /\ Subject(r)' = Subject(r) => Placed(r)' /\ Backed(r)'
    BY <1>1, <1>6 DEF ReadPrefs, Placed, Backed, me
  <2>3. QED
    BY <1>1, <1>6, <2>1, <2>2, Lookup DEF ReadPrefs, Running, Answers
<1>7. CASE CallFails(r)
  <2>1. pc'[r] = "failed" /\ Email(r)' = Email(r) /\ Subject(r)' = Subject(r) => Placed(r)' /\ Backed(r)'
    BY <1>1, <1>7 DEF CallFails, Placed, Backed, Running
  <2>2. faults' \in 0..MaxFaults /\ faults' > 0 /\ pc[r] # "new"
    BY <1>1, <1>7, Constants DEF CallFails, Fault, Running
  <2>3. QED
    BY <1>7, <2>1, <2>2, Lookup DEF CallFails, Answers
<1>8. QED
  BY <1>2, <1>3, <1>4, <1>5, <1>6, <1>7 DEF GetMe, PatchMe

-----------------------------------------------------------------------------
(* Steps that write.                                                       *)

\* What a step that changes the position of one request alone does to the others.
LEMMA GotoAlone ==
  ASSUME TypeOK, NEW r \in Request, NEW label, Goto(r, label), UNCHANGED <<req, issued, passed>>
  PROVE  Alone(r) /\ pc'[r] = label /\ req'[r] = req[r] /\ issued'[r] = issued[r]
BY DEF TypeOK, Goto, Alone

\* CreateUser of a registration, whether its answer arrives or not.
LEMMA LocalInsertedStep ==
  ASSUME AccountsInv, NEW r \in Request, NEW label \in {"announce", "failed"},
         LocalInserted(r), Goto(r, label), faults' \in 0..MaxFaults, faults > 0 => faults' > 0,
         UNCHANGED <<me, redis, announced, req, issued>>
  PROVE  Good(r)
<1>1. Placed(r) /\ pc[r] = "create" /\ account[Email(r)] = None /\ UNCHANGED linked
  BY DEF AccountsInv, Local, LocalInserted, Taken
<1>2. Email(r) \in Emails /\ r \notin Subjects /\ r # None
  BY <1>1, RequestType, Constants
<1>3. account' = [account EXCEPT ![Email(r)] = r]
  BY DEF LocalInserted
<1>4. account' \in [Emails -> Request \cup Subjects \cup {None}]
  BY <1>2, <1>3 DEF AccountsInv, TypeOK
<1>5. \A e \in Emails, g \in Subjects : account'[e] = g <=> linked'[g] = e
  BY <1>1, <1>2, <1>3, Constants DEF AccountsInv, TypeOK
<1>6. TypeOK'
  BY <1>1, <1>4, <1>5 DEF AccountsInv, TypeOK, Goto, me, redis, Running, Answers
<1>7. Grows
  BY <1>1, <1>2, <1>3 DEF AccountsInv, TypeOK, Grows, me, redis
<1>8. Alone(r) /\ pc'[r] = label /\ req'[r] = req[r] /\ issued'[r] = issued[r]
  BY GotoAlone DEF AccountsInv, redis
<1>9. account'[Email(r)] = r /\ Email(r)' = Email(r)
  BY <1>2, <1>3, <1>8 DEF AccountsInv, TypeOK, Email
<1>10. Placed(r)' /\ Backed(r)'
  BY <1>1, <1>8, <1>9 DEF Placed, Backed
<1>11. Used(r)'
  BY <1>1, <1>8 DEF AccountsInv, Local, Used, redis
<1>12. Owned(r)'
  BY <1>7, <1>8, Constants DEF AccountsInv, Local, Owned, Grows
<1>13. QED
  BY <1>6, <1>7, <1>8, <1>10, <1>11, <1>12 DEF Good, AccountsInv, Local, me

\* CreateUser of a callback, likewise.
LEMMA LinkedInsertedStep ==
  ASSUME AccountsInv, NEW r \in Request, NEW label \in {"initialize", "failed"},
         LinkedInserted(r), Goto(r, label), faults' \in 0..MaxFaults, faults > 0 => faults' > 0,
         UNCHANGED <<me, redis, announced, req, issued>>
  PROVE  Good(r)
<1>1. /\ Placed(r) /\ pc[r] = "link"
      /\ account[Email(r)] = None /\ linked[Subject(r)] = None
  BY DEF AccountsInv, Local, LinkedInserted, Taken, Clashes
<1>2. /\ Email(r) \in Emails /\ Subject(r) \in Subjects
      /\ Email(r) # None /\ Subject(r) # None
  BY <1>1, RequestType, Constants DEF Placed
<1>3. /\ account' = [account EXCEPT ![Email(r)] = Subject(r)]
      /\ linked' = [linked EXCEPT ![Subject(r)] = Email(r)]
  BY DEF LinkedInserted
<1>4. /\ account' \in [Emails -> Request \cup Subjects \cup {None}]
      /\ linked' \in [Subjects -> Emails \cup {None}]
  BY <1>2, <1>3 DEF AccountsInv, TypeOK
<1>5. ASSUME NEW e \in Emails, NEW g \in Subjects PROVE account'[e] = g <=> linked'[g] = e
  <2>1. account[e] = g <=> linked[g] = e
    BY DEF AccountsInv, TypeOK
  <2>2. account[Email(r)] # g /\ linked[Subject(r)] # e
    BY <1>1, Constants
  <2>3. account'[e] = (IF e = Email(r) THEN Subject(r) ELSE account[e])
    BY <1>3 DEF AccountsInv, TypeOK
  <2>4. linked'[g] = (IF g = Subject(r) THEN Email(r) ELSE linked[g])
    BY <1>3 DEF AccountsInv, TypeOK
  <2>5. QED
    BY <2>1, <2>2, <2>3, <2>4
<1>6. TypeOK'
  BY <1>4, <1>5 DEF AccountsInv, TypeOK, Goto, me, redis, Running, Answers
<1>7. Grows
  BY <1>1, <1>2, <1>3 DEF AccountsInv, TypeOK, Grows, me, redis
<1>8. Alone(r) /\ pc'[r] = label /\ req'[r] = req[r] /\ issued'[r] = issued[r]
  BY GotoAlone DEF AccountsInv, redis
<1>9. linked'[Subject(r)] # None /\ Subject(r)' = Subject(r)
  BY <1>2, <1>3, <1>8 DEF AccountsInv, TypeOK, Subject
<1>10. Placed(r)' /\ Backed(r)'
  BY <1>1, <1>8, <1>9 DEF Placed, Backed
<1>11. Used(r)'
  BY <1>1, <1>8 DEF AccountsInv, Local, Used, redis
<1>12. Owned(r)'
  BY <1>7, <1>8, Constants DEF AccountsInv, Local, Owned, Grows
<1>13. QED
  BY <1>6, <1>7, <1>8, <1>10, <1>11, <1>12 DEF Good, AccountsInv, Local, me

\* EnsureExists and a like: rows are only added, and preferences with every profile.
LEMMA RowsStep ==
  ASSUME AccountsInv, NEW r \in Request, pc[r] \in {"initialize", "ensure", "like"},
         NEW label \in {"issue", "again", "update", "200", "failed"}, Goto(r, label),
         profile' \in SUBSET Emails, prefs' \in SUBSET Emails,
         profile \subseteq profile', prefs \subseteq prefs', profile' \subseteq prefs',
         label = "issue" => pc[r] = "initialize",
         label \in {"again", "update"} => Email(r) \in profile',
         faults' \in 0..MaxFaults, faults > 0 => faults' > 0,
         UNCHANGED <<users, redis, announced, req, issued>>
  PROVE  Good(r)
<1>1. Alone(r) /\ pc'[r] = label /\ req'[r] = req[r] /\ issued'[r] = issued[r]
  BY GotoAlone DEF AccountsInv, redis
<1>2. TypeOK'
  BY DEF AccountsInv, TypeOK, Goto, users, redis, Running, Answers
<1>3. Grows
  BY DEF AccountsInv, TypeOK, Grows, users, redis
<1>4. Placed(r)' /\ Backed(r)'
  BY <1>1 DEF AccountsInv, Local, Placed, Backed, Email, Subject, users
<1>5. Used(r)' /\ Owned(r)'
  BY <1>1 DEF AccountsInv, Local, Used, Owned, users, redis
<1>6. QED
  BY <1>1, <1>2, <1>3, <1>4, <1>5 DEF Good, AccountsInv, Local

LEMMA AnnounceStep ==
  ASSUME AccountsInv, NEW r \in Request, Announce(r)
  PROVE  Good(r)
<1>1. /\ Placed(r) /\ Backed(r) /\ pc[r] = "announce" /\ Goto(r, "201")
      /\ UNCHANGED <<users, me, redis, req, issued>>
  BY DEF AccountsInv, Local, Announce
<1>2. announced \subseteq announced' /\ announced' \subseteq Request
      /\ faults' \in 0..MaxFaults /\ (faults > 0 => faults' > 0)
      /\ (r \in announced' \/ faults' > 0)
  BY Constants DEF Announce, Fault, AccountsInv, TypeOK
<1>3. Alone(r) /\ pc'[r] = "201" /\ req'[r] = req[r] /\ issued'[r] = issued[r]
  BY <1>1, GotoAlone DEF AccountsInv, redis
<1>4. TypeOK'
  BY <1>1, <1>2 DEF AccountsInv, TypeOK, Goto, users, me, redis, Answers
<1>5. Grows
  BY <1>1, <1>2 DEF AccountsInv, TypeOK, Grows, users, me, redis
<1>6. Placed(r)' /\ Backed(r)'
  BY <1>1, <1>2, <1>3 DEF Placed, Backed, Email, Subject, users
<1>7. Used(r)' /\ Owned(r)'
  BY <1>1, <1>3 DEF AccountsInv, Local, Used, Owned, users, redis
<1>8. QED
  BY <1>1, <1>3, <1>4, <1>5, <1>6, <1>7 DEF Good, AccountsInv, Local, me

\* GETDEL, whether its answer arrives or not: nobody has passed with this state, and
\* nobody will after it.
LEMMA ConsumeStep ==
  ASSUME AccountsInv, NEW r \in Request, Consume(r) \/ ConsumeLost(r)
  PROVE  Good(r) /\ StateUsedOnce'
<1> DEFINE gone == [states EXCEPT ![req[r].state] = "gone"]
<1>1. Placed(r) /\ pc[r] = "callback" /\ r \notin passed
  BY DEF AccountsInv, Local, Used, Consume, ConsumeLost
<1>2. req[r].state \in States /\ req[r].op = "callback"
  BY <1>1, RequestType DEF Placed
<1>3. PICK label \in {"exchange", "400", "failed"} :
        /\ Goto(r, label)
        /\ \/ label = "400" /\ UNCHANGED redis
           \/ /\ label # "400" /\ states[req[r].state] = "live" /\ states' = gone
              /\ passed' = IF label = "exchange" THEN passed \cup {r} ELSE passed
  BY DEF Consume, ConsumeLost, redis
<1>4. faults' \in 0..MaxFaults /\ (faults > 0 => faults' > 0)
      /\ UNCHANGED <<users, me, announced, req, issued>>
  BY Constants DEF Consume, ConsumeLost, Fault, AccountsInv, TypeOK
<1>5. Alone(r) /\ pc'[r] = label
  BY <1>3, <1>4 DEF AccountsInv, TypeOK, Goto, Alone, redis
<1>6. TypeOK'
  BY <1>2, <1>3, <1>4 DEF AccountsInv, TypeOK, Goto, users, me, redis, Running, Answers
<1>7. Grows
  BY <1>2, <1>3, <1>4 DEF AccountsInv, TypeOK, Grows, users, me, redis
<1>8. Placed(r)' /\ Backed(r)' /\ Owned(r)'
  BY <1>1, <1>3, <1>4, <1>5 DEF AccountsInv, Local, Placed, Backed, Owned, Subject, users
<1>9. Used(r)'
  BY <1>1, <1>2, <1>3, <1>4, <1>5 DEF Used, AccountsInv, TypeOK, redis
<1>10. StateUsedOnce'
  <2>1. SUFFICES ASSUME NEW p \in passed', NEW q \in passed', req[q].state = req[p].state
                 PROVE  p = q
    BY <1>4 DEF StateUsedOnce
  <2>2. \A x \in passed : x \in Request /\ states[req[x].state] = "gone"
    BY DEF AccountsInv, Local, Used, TypeOK
  <2>3. CASE p \in passed /\ q \in passed
    BY <2>1, <2>3 DEF AccountsInv, StateUsedOnce
  <2>4. CASE p \notin passed \/ q \notin passed
    BY <1>3, <2>1, <2>2, <2>4 DEF redis
  <2>5. QED
    BY <2>3, <2>4
<1>11. QED
  BY <1>4, <1>5, <1>6, <1>7, <1>8, <1>9, <1>10 DEF Good, AccountsInv, Local, me

\* A pair is issued for the account whose password was given, or that is linked.
LEMMA IssueStep ==
  ASSUME AccountsInv, NEW r \in Request, Issue(r)
  PROVE  Good(r)
<1>1. Placed(r) /\ Backed(r) /\ pc[r] = "issue" /\ Goto(r, "200")
  BY DEF AccountsInv, Local, Issue
<1>2. UNCHANGED <<users, me, redis, announced, req, faults>>
  BY DEF Issue
<1>3. PICK e : /\ issued' = [issued EXCEPT ![r] = e]
               /\ e = IF req[r].op = "login" THEN Email(r) ELSE linked[Subject(r)]
  BY DEF Issue
<1>4. e \in Emails /\ req[r].by # None /\ account[e] = req[r].by
  <2>1. CASE req[r].op = "login"
    BY <1>1, <1>3, <2>1, RequestType DEF Backed
  <2>2. CASE req[r].op = "callback"
    <3>1. Subject(r) \in Subjects /\ linked[Subject(r)] # None
      BY <1>1, <2>2 DEF Backed
    <3>2. linked[Subject(r)] \in Emails /\ e = linked[Subject(r)]
      BY <1>3, <2>2, <3>1 DEF AccountsInv, TypeOK
    <3>3. account[e] = Subject(r)
      BY <3>1, <3>2 DEF AccountsInv, TypeOK
    <3>4. QED
      BY <3>1, <3>2, <3>3, Constants DEF Subject
  <2>3. QED
    BY <1>1, <2>1, <2>2 DEF Placed
<1>5. pc'[r] = "200" /\ issued'[r] = e /\ Alone(r)
  BY <1>1, <1>2, <1>3 DEF AccountsInv, TypeOK, Goto, Alone, redis
<1>6. TypeOK'
  BY <1>1, <1>2, <1>3, <1>4 DEF AccountsInv, TypeOK, Goto, users, me, redis, Answers
<1>7. Grows
  BY <1>2 DEF AccountsInv, TypeOK, Grows, users, me, redis
<1>8. Placed(r)' /\ Backed(r)' /\ Used(r)'
  BY <1>1, <1>2, <1>5 DEF AccountsInv, Local, Placed, Backed, Used, redis
<1>9. Owned(r)'
  BY <1>2, <1>4, <1>5 DEF Owned, users
<1>10. QED
  BY <1>2, <1>5, <1>6, <1>7, <1>8, <1>9 DEF Good, AccountsInv, Local, me

-----------------------------------------------------------------------------
(* The theorems.                                                           *)

\* A request's step is one of those above.
LEMMA RequestStep ==
  ASSUME AccountsInv, NEW r \in Request,
         Receive(r) \/ Serve(r) \/ ConsumeLost(r) \/ CallFails(r) \/ WriteLost(r)
  PROVE  Good(r) /\ StateUsedOnce'
<1>1. faults \in 0..MaxFaults /\ profile \subseteq prefs /\ profile \in SUBSET Emails
      /\ prefs \in SUBSET Emails
  BY DEF AccountsInv, TypeOK
<1>2. pc[r] # "new" => Email(r) \in Emails
  BY RequestType DEF AccountsInv, Local
<1>3. Fault => faults' \in 0..MaxFaults /\ faults' > 0
  BY <1>1, Constants DEF Fault
<1>4. ASSUME CreateLocal(r) PROVE Good(r)
  <2>1. CASE LocalInserted(r) /\ Goto(r, "announce")
    BY <1>1, <1>4, <2>1, LocalInsertedStep DEF CreateLocal
  <2>2. CASE pc[r] = "create" /\ Taken(Email(r)) /\ Goto(r, "500") /\ UNCHANGED users
    <3>1. pc'[r] = "500" /\ Email(r)' = Email(r) /\ Subject(r)' = Subject(r)
            => Placed(r)' /\ Backed(r)'
      BY <1>4, <2>2 DEF CreateLocal, AccountsInv, Local, Placed, Backed, users, Taken
    <3>2. QED
      BY <1>1, <1>4, <2>2, <3>1, Lookup DEF CreateLocal, Answers
  <2>3. QED
    BY <1>4, <2>1, <2>2 DEF CreateLocal
<1>5. ASSUME CreateLinked(r) PROVE Good(r)
  <2>1. CASE LinkedInserted(r) /\ Goto(r, "initialize")
    BY <1>1, <1>5, <2>1, LinkedInsertedStep DEF CreateLinked
  <2>2. CASE pc[r] = "link" /\ Clashes(r) /\ Goto(r, "500") /\ UNCHANGED users
    <3>1. pc'[r] = "500" /\ Email(r)' = Email(r) /\ Subject(r)' = Subject(r)
            => Placed(r)' /\ Backed(r)'
      BY <1>5, <2>2 DEF CreateLinked, AccountsInv, Local, Placed, Backed, users, Taken, Clashes
    <3>2. QED
      BY <1>1, <1>5, <2>2, <3>1, Lookup DEF CreateLinked, Answers
  <2>3. QED
    BY <1>5, <2>1, <2>2 DEF CreateLinked
<1>6. ASSUME Initialize(r) PROVE Good(r)
  BY <1>1, <1>2, <1>6, RowsStep DEF Initialize, Ensured
<1>7. ASSUME EnsureExists(r) PROVE Good(r)
  BY <1>1, <1>2, <1>7, RowsStep DEF EnsureExists, Ensured
<1>8. ASSUME Like(r) PROVE Good(r)
  BY <1>1, <1>2, <1>8, RowsStep DEF Like
<1>9. ASSUME WriteLost(r) PROVE Good(r)
  <2>1. CASE LocalInserted(r) /\ UNCHANGED me
    BY <1>1, <1>3, <1>9, <2>1, LocalInsertedStep DEF WriteLost
  <2>2. CASE LinkedInserted(r) /\ UNCHANGED me
    BY <1>1, <1>3, <1>9, <2>2, LinkedInsertedStep DEF WriteLost
  <2>3. CASE pc[r] \in {"initialize", "ensure"} /\ Ensured(r) /\ UNCHANGED users
    BY <1>1, <1>2, <1>3, <1>9, <2>3, RowsStep DEF WriteLost, Ensured
  <2>4. QED
    BY <1>9, <2>1, <2>2, <2>3 DEF WriteLost
<1>10. Consume(r) \/ ConsumeLost(r) \/ Good(r)
  BY <1>4, <1>5, <1>6, <1>7, <1>8, <1>9, ReceiveStep, LookupStep, ReadStep, AnnounceStep,
     IssueStep DEF Serve
<1>11. CASE Consume(r) \/ ConsumeLost(r)
  BY <1>11, ConsumeStep
<1>12. CASE ~(Consume(r) \/ ConsumeLost(r))
  <2>1. passed' = passed
    BY <1>12 DEF Receive, Serve, CallFails, WriteLost, LookupRegister, CreateLocal, Announce, Login,
       Exchange, LookupSubject, LookupEmail, CreateLinked, Initialize, Issue, GetMe, PatchMe,
       EnsureExists, ReadAgain, Update, ReadPrefs, Like, redis
  <2>2. Receive(r) \/ req' = req
    BY <1>12 DEF Serve, CallFails, WriteLost, LookupRegister, CreateLocal, Announce, Login,
       Exchange, LookupSubject, LookupEmail, CreateLinked, Initialize, Issue, GetMe, PatchMe,
       EnsureExists, ReadAgain, Update, ReadPrefs, Like
  <2>3. \A q \in passed : req'[q] = req[q]
    BY <1>10, <1>12, <2>2 DEF Good, Alone, AccountsInv, Local, Used, TypeOK, Receive
  <2>4. QED
    BY <1>10, <1>12, <2>1, <2>3 DEF AccountsInv, StateUsedOnce
<1>13. QED
  BY <1>11, <1>12

\* Beginning a login and the expiry of a state.
LEMMA StateStep ==
  ASSUME AccountsInv, NEW s \in States, Begin(s) \/ Expire(s)
  PROVE  AccountsInv'
<1>1. /\ UNCHANGED <<users, me, passed, announced, req, issued, pc, faults>>
      /\ states[s] # "gone"
      /\ \/ states' = [states EXCEPT ![s] = "live"]
         \/ states' = [states EXCEPT ![s] = "gone"]
  BY DEF Begin, Expire
<1>2. TypeOK'
  BY <1>1 DEF AccountsInv, TypeOK, users, me
<1>3. Grows
  BY <1>1 DEF AccountsInv, TypeOK, Grows, users, me
<1>4. ASSUME NEW q \in Request PROVE Local(q)'
  BY <1>1, <1>3, Stays DEF AccountsInv
<1>5. StateUsedOnce'
  BY <1>1 DEF AccountsInv, StateUsedOnce
<1>6. QED
  BY <1>1, <1>2, <1>4, <1>5 DEF AccountsInv, me

\* AccountsInv is inductive.
LEMMA Invariance == Spec => []AccountsInv
<1>1. Init => AccountsInv
  BY Constants DEF Init, AccountsInv, TypeOK, StateUsedOnce, Local, Placed, Backed, Used, Owned
<1>2. AccountsInv /\ [Next]_vars => AccountsInv'
  <2>1. SUFFICES ASSUME AccountsInv, [Next]_vars PROVE AccountsInv'
    OBVIOUS
  <2>2. ASSUME NEW r \in Request,
               Receive(r) \/ Serve(r) \/ ConsumeLost(r) \/ CallFails(r) \/ WriteLost(r)
        PROVE  AccountsInv'
    <3>1. Good(r) /\ StateUsedOnce'
      BY <2>1, <2>2, RequestStep
    <3>2. ASSUME NEW q \in Request PROVE Local(q)'
      <4>1. CASE q = r
        BY <3>1, <4>1 DEF Good
      <4>2. CASE q # r
        BY <2>1, <3>1, <4>2, Stays DEF Good, Alone, AccountsInv
      <4>3. QED
        BY <4>1, <4>2
    <3>3. QED
      BY <3>1, <3>2 DEF Good, AccountsInv
  <2>3. ASSUME NEW s \in States, Begin(s) \/ Expire(s) PROVE AccountsInv'
    BY <2>1, <2>3, StateStep
  <2>4. CASE UNCHANGED vars
    <3>1. TypeOK' /\ Grows /\ StateUsedOnce' /\ (profile \subseteq prefs)'
      BY <2>1, <2>4 DEF AccountsInv, TypeOK, Grows, StateUsedOnce, vars, users, me, redis
    <3>2. ASSUME NEW q \in Request PROVE Local(q)'
      BY <2>1, <2>4, <3>1, Stays DEF AccountsInv, vars, redis
    <3>3. QED
      BY <3>1, <3>2 DEF AccountsInv
  <2>5. QED
    BY <2>1, <2>2, <2>3, <2>4 DEF Next
<1>3. QED
  BY <1>1, <1>2, PTL DEF Spec

\* Every variable has its type, and a Google account and its link are there together:
\* users and oauth_accounts are written in one transaction.
THEOREM TypeCorrect == Spec => []TypeOK
<1>1. AccountsInv => TypeOK
  BY DEF AccountsInv
<1>2. QED
  BY <1>1, Invariance, PTL

\* A token pair is issued to who chose the account's password, or to the Google user it was
\* created for: nothing that is found between two statements lets a callback take an account
\* over.
THEOREM PairsGoToOwners == Spec => []IssuedToOwner
<1>1. AccountsInv => IssuedToOwner
  BY DEF AccountsInv, Local, Owned, IssuedToOwner
<1>2. QED
  BY <1>1, Invariance, PTL

\* A registration that is answered 201 holds, and its event is enqueued unless that failed.
THEOREM RegistrationsHold == Spec => []RegistrationHolds
<1>1. AccountsInv => RegistrationHolds
  BY DEF AccountsInv, Local, Backed, RegistrationHolds
<1>2. QED
  BY <1>1, Invariance, PTL

\* Of the callbacks that carry a state one at most gets through.
THEOREM StatesUsedOnce == Spec => []StateUsedOnce
<1>1. AccountsInv => StateUsedOnce
  BY DEF AccountsInv
<1>2. QED
  BY <1>1, Invariance, PTL

\* A 409 or the 500 of a unique key only meets a taken address or a linked Google user.
THEOREM RefusalsHaveReason == Spec => []RefusedOnlyWhenTaken
<1>1. AccountsInv => RefusedOnlyWhenTaken
  BY DEF AccountsInv, Local, Backed, RefusedOnlyWhenTaken
<1>2. QED
  BY <1>1, Invariance, PTL
=============================================================================
