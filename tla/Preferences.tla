----------------------------- MODULE Preferences -----------------------------
(***************************************************************************)
(* Likes, follows and onboarding of one user of music-identity-gatekeeper  *)
(* (internal/preference/repository.go).  What is liked or followed is      *)
(* written twice: as a row of liked_songs or followed_artists and as an    *)
(* entry of an array in the user's row of preferences.  Songs and artists  *)
(* are treated alike: an item is one or the other.                         *)
(*                                                                         *)
(* Each request is one PostgreSQL transaction under READ COMMITTED, and    *)
(* one statement of it is one step.  A statement sees what is committed    *)
(* and what its own transaction wrote; a row that was written, or selected *)
(* FOR UPDATE, is locked until the transaction ends.                       *)
(***************************************************************************)
EXTENDS Naturals, Sequences

CONSTANTS
  Items,      \* songs and artists
  Requests,   \* requests of the user's clients
  Lists,      \* the lists of artists an onboarding may carry
  Faulty,     \* bound: requests that may lose a statement, their client or the process
  None

VARIABLES
  likes,   \* committed rows of liked_songs and followed_artists
  prefs,   \* the committed row of preferences
  locks,   \* the transaction that has written an item's row
  holder,  \* the transaction that has locked or written the row of preferences
  draft,   \* what it has made of that row
  req,     \* what a request asks for
  at,      \* the index of the item it is at
  pc       \* the statement it is at, or its answer

locked == <<locks, holder, draft>>
vars   == <<likes, prefs, locked, req, at, pc>>

\* A row of preferences: seeds is the onboarding that set onboarded_at and the seeds.
PrefsRow == [exists : BOOLEAN, listed : SUBSET Items, seeds : Requests \cup {None}]
NoRow    == [exists |-> FALSE, listed |-> {}, seeds |-> None]

Asked == [op : {"add", "remove"}, items : {<<x>> : x \in Items}]
           \cup [op : {"onboard"}, items : Lists]

ASSUME PreferencesAssumption ==
  /\ Lists \subseteq Seq(Items)
  /\ None \notin Requests \cup Asked
  /\ Faulty \subseteq Requests

InTx    == {"ensure", "check", "seed", "row", "list", "commit"}
Answers == {"200", "404", "409", "500", "lost"}

Init ==
  /\ likes \in SUBSET Items
  /\ prefs \in {p \in PrefsRow : p.listed = likes /\ p.seeds = None /\ (~p.exists => likes = {})}
  /\ locks = [x \in Items |-> None]
  /\ holder = None
  /\ draft = NoRow
  /\ req = [r \in Requests |-> None]
  /\ at = [r \in Requests |-> 1]
  /\ pc = [r \in Requests |-> "new"]

Op(r)    == req[r].op
Item(r)  == req[r].items[at[r]]
Mine(r)  == {x \in Items : locks[x] = r}
View(r)  == IF holder = r THEN draft ELSE prefs

Goto(r, label) == pc' = [pc EXCEPT ![r] = label]

-----------------------------------------------------------------------------
(* Locks.                                                                  *)

Other(r, owner) == IF owner = r THEN None ELSE owner

\* The transaction that the next statement of r has to wait for.
Blocker(r) ==
  CASE pc[r] = "ensure" /\ ~View(r).exists -> Other(r, holder)
    [] pc[r] \in {"check", "seed"} -> Other(r, holder)
    [] pc[r] = "row" /\ (Op(r) # "remove" \/ Item(r) \in likes) -> Other(r, locks[Item(r)])
    [] pc[r] = "list" /\ (Op(r) = "remove" \/ Item(r) \notin View(r).listed) -> Other(r, holder)
    [] OTHER -> None

Ready(r, label) == pc[r] = label /\ Blocker(r) = None

\* The transaction writes, or locks, the row of preferences.
WriteRow(r, row) == holder' = r /\ draft' = row /\ UNCHANGED locks

Release(r) ==
  /\ locks' = [x \in Items |-> Other(r, locks[x])]
  /\ holder' = Other(r, holder)
  /\ draft' = IF holder = r THEN NoRow ELSE draft

\* The deferred Rollback.
Rollback(r, answer) ==
  /\ Release(r)
  /\ Goto(r, answer)
  /\ UNCHANGED <<likes, prefs, req, at>>

\* Transactions that wait for each other in a circle.
Deadlock(C) ==
  /\ C # {}
  /\ \A r \in C : pc[r] \in InTx /\ Blocker(r) \in C
  /\ \A r \in C : \E q \in C : Blocker(q) = r

-----------------------------------------------------------------------------
(* LikeSong and FollowArtist, UnlikeSong and UnfollowArtist, and           *)
(* CompleteOnboarding.                                                     *)

Begin(r) ==
  /\ pc[r] = "new"
  /\ req' \in {[req EXCEPT ![r] = q] : q \in Asked}
  /\ Goto(r, IF req'[r].op = "remove" THEN "row" ELSE "ensure")
  /\ UNCHANGED <<likes, prefs, locked, at>>

AfterEnsure(r) == Goto(r, IF Op(r) = "onboard" THEN "check" ELSE "row")

\* Mutant: no ensurePreferencesRow.
MutantNoEnsure(r) ==
  /\ Ready(r, "ensure")
  /\ AfterEnsure(r)
  /\ UNCHANGED <<likes, prefs, locked, req, at>>

\* Mutant: ON CONFLICT DO UPDATE SET updated_at, which locks the row.
MutantEnsureLocks(r) ==
  /\ pc[r] = "ensure" /\ Other(r, holder) = None
  /\ WriteRow(r, [View(r) EXCEPT !.exists = TRUE])
  /\ AfterEnsure(r)
  /\ UNCHANGED <<likes, prefs, req, at>>

\* ensurePreferencesRow: ON CONFLICT DO NOTHING takes no lock on a row that is there.
Ensure(r) ==
  /\ Ready(r, "ensure")
  /\ \/ View(r).exists /\ UNCHANGED locked
     \/ ~View(r).exists /\ WriteRow(r, [NoRow EXCEPT !.exists = TRUE])
  /\ AfterEnsure(r)
  /\ UNCHANGED <<likes, prefs, req, at>>

\* Mutant: SELECT onboarded_at without FOR UPDATE.
MutantCheckUnlocked(r) ==
  /\ pc[r] = "check" /\ View(r).seeds = None
  /\ Goto(r, "seed")
  /\ UNCHANGED <<likes, prefs, locked, req, at>>

\* SELECT onboarded_at ... FOR UPDATE.
Check(r) ==
  /\ Ready(r, "check") /\ View(r).seeds = None
  /\ WriteRow(r, View(r))
  /\ Goto(r, "seed")
  /\ UNCHANGED <<likes, prefs, req, at>>

\* Mutant: the transaction is not rolled back.
MutantConflictKeepsLock(r) ==
  /\ Ready(r, "check") /\ View(r).seeds # None
  /\ WriteRow(r, View(r))
  /\ Goto(r, "409")
  /\ UNCHANGED <<likes, prefs, req, at>>

\* ErrOnboardingAlreadyCompleted.
AlreadyOnboarded(r) ==
  /\ Ready(r, "check") /\ View(r).seeds # None
  /\ Rollback(r, "409")

\* The UPDATE that sets the seeds and onboarded_at.
Seed(r) ==
  /\ Ready(r, "seed")
  /\ WriteRow(r, [View(r) EXCEPT !.seeds = r])
  /\ Goto(r, IF req[r].items = <<>> THEN "commit" ELSE "row")
  /\ UNCHANGED <<likes, prefs, req, at>>

\* INSERT ... ON CONFLICT DO NOTHING: a row that is there is not locked.
InsertRow(r) ==
  /\ Ready(r, "row") /\ Op(r) # "remove"
  /\ locks' = IF Item(r) \in likes THEN locks ELSE [locks EXCEPT ![Item(r)] = r]
  /\ Goto(r, "list")
  /\ UNCHANGED <<likes, prefs, holder, draft, req, at>>

DeleteRow(r) ==
  /\ Ready(r, "row") /\ Op(r) = "remove" /\ Item(r) \in likes
  /\ locks' = [locks EXCEPT ![Item(r)] = r]
  /\ Goto(r, "list")
  /\ UNCHANGED <<likes, prefs, holder, draft, req, at>>

\* ErrLikeNotFound, ErrFollowNotFound: no row was deleted.
NotFound(r) ==
  /\ Ready(r, "row") /\ Op(r) = "remove" /\ Item(r) \notin likes
  /\ Rollback(r, "404")

\* On with the next artist of an onboarding, or to the COMMIT.
Advance(r) ==
  IF at[r] = Len(req[r].items)
  THEN Goto(r, "commit") /\ UNCHANGED at
  ELSE Goto(r, "row") /\ at' = [at EXCEPT ![r] = @ + 1]

\* array_append, where the array does not hold the item.
AppendItem(r) ==
  /\ Ready(r, "list") /\ Op(r) # "remove"
  /\ IF View(r).exists /\ Item(r) \notin View(r).listed
     THEN WriteRow(r, [View(r) EXCEPT !.listed = @ \cup {Item(r)}])
     ELSE UNCHANGED locked
  /\ Advance(r)
  /\ UNCHANGED <<likes, prefs, req>>

\* array_remove.
RemoveItem(r) ==
  /\ Ready(r, "list") /\ Op(r) = "remove"
  /\ WriteRow(r, [View(r) EXCEPT !.listed = @ \ {Item(r)}])
  /\ Advance(r)
  /\ UNCHANGED <<likes, prefs, req>>

\* COMMIT makes the transaction's rows and its version of the preferences visible.
Committed(r) ==
  /\ pc[r] = "commit"
  /\ likes' = IF Op(r) = "remove" THEN likes \ Mine(r) ELSE likes \cup Mine(r)
  /\ prefs' = View(r)
  /\ Release(r)
  /\ UNCHANGED <<req, at>>

Commit(r) == Committed(r) /\ Goto(r, "200")

\* The COMMIT takes effect and its answer is lost.
CommitLost(r) == r \in Faulty /\ Committed(r) /\ Goto(r, "500")

\* A statement fails, or the client or the process is gone.
StatementFails(r) ==
  /\ r \in Faulty /\ pc[r] \in InTx
  /\ \E answer \in {"500", "lost"} : Rollback(r, answer)

\* GET or PATCH /me creates the row of preferences where there is none.
EnsureExists ==
  /\ ~prefs.exists /\ holder = None
  /\ prefs' = [NoRow EXCEPT !.exists = TRUE]
  /\ UNCHANGED <<likes, locked, req, at, pc>>

\* After deadlock_timeout PostgreSQL aborts one transaction of the circle.
DeadlockVictim(r) ==
  /\ \E C \in SUBSET Requests : r \in C /\ Deadlock(C)
  /\ Rollback(r, "500")

-----------------------------------------------------------------------------
Step(r) ==
  \/ Ensure(r) \/ Check(r) \/ AlreadyOnboarded(r) \/ Seed(r)
  \/ InsertRow(r) \/ DeleteRow(r) \/ NotFound(r)
  \/ AppendItem(r) \/ RemoveItem(r) \/ Commit(r)
  \/ DeadlockVictim(r)

Next ==
  \/ \E r \in Requests : Begin(r) \/ Step(r) \/ CommitLost(r) \/ StatementFails(r)
  \/ EnsureExists

Spec == Init /\ [][Next]_vars

\* Statements end unless they wait for a lock, and PostgreSQL looks for deadlocks.
FairSpec == Spec /\ \A r \in Requests : WF_vars(Step(r))

-----------------------------------------------------------------------------
(* Properties.                                                             *)

TypeOK ==
  /\ likes \subseteq Items
  /\ prefs \in PrefsRow /\ draft \in PrefsRow
  /\ locks \in [Items -> Requests \cup {None}]
  /\ holder \in Requests \cup {None}
  /\ req \in [Requests -> Asked \cup {None}]
  /\ at \in [Requests -> Nat]
  /\ \A r \in Requests : at[r] \in 1..(IF req[r] = None THEN 1 ELSE Len(req[r].items) + 1)
  /\ pc \in [Requests -> {"new"} \cup InTx \cup Answers]
  /\ \A r \in Requests : pc[r] \notin InTx => Mine(r) = {} /\ holder # r

\* What ensurePreferencesRow is for (repository.go:105-111): whichever request comes first,
\* whatever fails, an item that has a row is listed in the array.
LikedIsListed == likes \subseteq prefs.listed /\ (likes # {} => prefs.exists)

\* repository.go:390-393, two onboardings "serialize here": the seeds of the one that got
\* through are never replaced, and no other is told that it succeeded.
OnboardedOnce ==
  [][/\ prefs.seeds # None => prefs'.seeds = prefs.seeds
     /\ \A r \in Requests :
          pc[r] # "200" /\ pc'[r] = "200" /\ Op(r) = "onboard" => prefs'.seeds = r]_vars

\* Rows are locked in the order item, preferences: likes, follows and their opposites never
\* wait for each other in a circle.  Only an onboarding, which locks the preferences first,
\* can make one (repository.go:122-201, 284-427).
DeadlockNeedsOnboarding ==
  \A C \in SUBSET Requests : Deadlock(C) => \E r \in C : Op(r) = "onboard"

\* No request waits forever for another's lock: each is answered.
EveryRequestAnswered ==
  \A r \in Requests : pc[r] \in InTx ~> pc[r] \in Answers

\* repository_test.go:211, "UnlikeSong_RemovesFromBothStores", and repository.go:105-111:
\* the two stores are not left out of sync: between requests the array lists what has a row.
StoresInSync ==
  (\A r \in Requests : pc[r] \notin InTx) => prefs.listed = likes
=============================================================================
