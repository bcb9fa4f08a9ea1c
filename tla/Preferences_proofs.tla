-------------------------- MODULE Preferences_proofs --------------------------
(***************************************************************************)
(* Theorems about Preferences, for any items, requests, lists of artists   *)
(* and faults, and their proofs.                                           *)
(***************************************************************************)
EXTENDS Preferences, TLAPS

LEMMA Constants == Lists \subseteq Seq(Items) /\ None \notin Requests /\ None \notin Asked
BY PreferencesAssumption

\* The fields of what a request asks for; only an onboarding has more than one item.
LEMMA AskedType ==
  ASSUME NEW q \in Asked
  PROVE  /\ q.op \in {"add", "remove", "onboard"}
         /\ q.items \in Seq(Items) /\ Len(q.items) \in Nat /\ DOMAIN q.items = 1..Len(q.items)
         /\ \A i \in 1..Len(q.items) : q.items[i] \in Items
         /\ q.op # "onboard" => Len(q.items) = 1
<1>1. CASE q \in [op : {"onboard"}, items : Lists]
  BY <1>1, Constants
<1>2. CASE q \in [op : {"add", "remove"}, items : {<<x>> : x \in Items}]
  <2>1. PICK x \in Items : q.items = <<x>> /\ q.op \in {"add", "remove"}
    BY <1>2
  <2>2. QED
    BY <2>1
<1>3. QED
  BY <1>1, <1>2 DEF Asked

-----------------------------------------------------------------------------
(* The inductive invariant.                                                *)

\* Where a request is, by what it asks for.
Placed(r) ==
  /\ pc[r] = "new" => req[r] = None
  /\ pc[r] # "new" => req[r] \in Asked
  /\ pc[r] \in {"row", "list"} => at[r] <= Len(req[r].items)
  /\ pc[r] \in {"ensure", "check", "seed"} => at[r] = 1
  /\ pc[r] \in {"check", "seed"} => Op(r) = "onboard"
  /\ pc[r] = "ensure" => Op(r) # "remove"

\* What its transaction sees and has locked.
Sees(r) ==
  /\ pc[r] \in {"check", "seed", "list", "commit"} => View(r).exists
  /\ pc[r] = "row" /\ Op(r) # "remove" => View(r).exists
  /\ pc[r] \in {"ensure", "check", "seed"} => Mine(r) = {}
  /\ pc[r] \in InTx /\ Op(r) # "onboard" /\ Mine(r) # {} => pc[r] \in {"list", "commit"}
  /\ pc[r] = "list" /\ Op(r) = "remove" => Item(r) \in Mine(r)
  /\ pc[r] \in InTx /\ Op(r) # "remove" =>
       \A x \in Mine(r) : x \in View(r).listed \/ (pc[r] = "list" /\ x = Item(r))
  /\ pc[r] \in {"seed", "row", "list", "commit"} /\ Op(r) = "onboard" =>
       holder = r /\ draft.seeds = IF pc[r] = "seed" THEN None ELSE r

Local(r) == Placed(r) /\ Sees(r)

\* What the holder has made of the row of preferences.
Draft ==
  holder # None =>
    /\ draft.exists
    /\ \A x \in prefs.listed :
         x \in draft.listed \/ (Op(holder) = "remove" /\ locks[x] = holder)
    /\ Op(holder) # "onboard" => pc[holder] = "commit" \/ ~prefs.exists
    /\ \/ draft.seeds = prefs.seeds
       \/ prefs.seeds = None /\ draft.seeds = holder /\ Op(holder) = "onboard"

\* Where there is no row there is nothing in it.
NoRowYet == ~prefs.exists => prefs.listed = {} /\ prefs.seeds = None

PrefsInv ==
  /\ TypeOK
  /\ LikedIsListed
  /\ NoRowYet
  /\ Draft
  /\ \A r \in Requests : Local(r)

-----------------------------------------------------------------------------
(* Locks, and requests that a step leaves alone.                           *)

\* What a statement that does not wait may write.
LEMMA Free ==
  ASSUME NEW r \in Requests, Blocker(r) = None
  PROVE  /\ pc[r] = "ensure" /\ ~View(r).exists => holder \in {None, r}
         /\ pc[r] \in {"check", "seed"} => holder \in {None, r}
         /\ pc[r] = "row" /\ (Op(r) # "remove" \/ Item(r) \in likes) => locks[Item(r)] \in {None, r}
         /\ pc[r] = "list" /\ (Op(r) = "remove" \/ Item(r) \notin View(r).listed) => holder \in {None, r}
BY DEF Blocker, Other

LEMMA Stays ==
  ASSUME NEW q \in Requests, Local(q),
         pc'[q] = pc[q], at'[q] = at[q], req'[q] = req[q],
         \A x \in Items : locks'[x] = q <=> locks[x] = q,
         holder' = q <=> holder = q, holder = q => draft' = draft,
         View(q).exists => View(q)'.exists,
         \A x \in Mine(q) : x \in View(q).listed => x \in View(q)'.listed
  PROVE  Local(q)'
<1>1. Mine(q)' = Mine(q) /\ Op(q)' = Op(q) /\ Item(q)' = Item(q)
  BY DEF Mine, Op, Item
<1>2. Placed(q)'
  BY <1>1 DEF Local, Placed
<1>3. Sees(q)'
  BY <1>1 DEF Local, Sees
<1>4. QED
  BY <1>2, <1>3 DEF Local

\* Types, by parts.
RowsOK ==
  /\ likes \subseteq Items
  /\ prefs \in PrefsRow /\ draft \in PrefsRow
  /\ locks \in [Items -> Requests \cup {None}]
  /\ holder \in Requests \cup {None}

AtOK(r) == at[r] \in 1..(IF req[r] = None THEN 1 ELSE Len(req[r].items) + 1)

RequestsOK ==
  /\ req \in [Requests -> Asked \cup {None}] /\ at \in [Requests -> Nat]
  /\ \A r \in Requests : AtOK(r)
  /\ pc \in [Requests -> {"new"} \cup InTx \cup Answers]

\* What a request that is not in its transaction has not locked.
Unlocked(r) == pc[r] \notin InTx => Mine(r) = {} /\ holder # r

LEMMA TypeParts == TypeOK <=> RowsOK /\ RequestsOK /\ \A r \in Requests : Unlocked(r)
BY DEF TypeOK, RowsOK, RequestsOK, AtOK, Unlocked

-----------------------------------------------------------------------------
(* Statements within a transaction.                                        *)

\* A statement of r takes locks that are free, and writes the row of preferences only as
\* its holder.
LEMMA StatementStep ==
  ASSUME PrefsInv, NEW r \in Requests, NEW label \in InTx, Goto(r, label),
         UNCHANGED <<likes, prefs>>,
         req' \in [Requests -> Asked \cup {None}], at' \in [Requests -> Nat], AtOK(r)',
         \A q \in Requests \ {r} : req'[q] = req[q] /\ at'[q] = at[q],
         locks' = locks \/ \E x \in Items : locks[x] \in {None, r} /\ locks' = [locks EXCEPT ![x] = r],
         UNCHANGED <<holder, draft>> \/ (holder \in {None, r} /\ holder' = r /\ draft' \in PrefsRow),
         Draft', Local(r)'
  PROVE  PrefsInv'
<1>1. RowsOK /\ RequestsOK /\ \A q \in Requests : Unlocked(q) /\ Local(q)
  BY TypeParts DEF PrefsInv
<1>2. pc' = [pc EXCEPT ![r] = label] /\ pc'[r] = label /\ \A q \in Requests \ {r} : pc'[q] = pc[q]
  BY <1>1 DEF Goto, RequestsOK
<1>3. RowsOK' /\ \A q \in Requests \ {r}, x \in Items : locks'[x] = q <=> locks[x] = q
  BY <1>1, Constants DEF RowsOK
<1>4. \A q \in Requests \ {r} : (holder' = q <=> holder = q) /\ (holder = q => draft' = draft)
  BY Constants
<1>5. RequestsOK'
  <2>1. \A q \in Requests : AtOK(q)'
    BY <1>1 DEF RequestsOK, AtOK
  <2>2. QED
    BY <1>1, <1>2, <2>1 DEF RequestsOK
<1>6. \A q \in Requests : Unlocked(q)'
  <2>1. Unlocked(r)'
    BY <1>2 DEF Unlocked
  <2>2. \A q \in Requests \ {r} : Unlocked(q)'
    BY <1>1, <1>2, <1>3, <1>4 DEF Unlocked, Mine
  <2>3. QED
    BY <2>1, <2>2
<1>7. \A q \in Requests \ {r} : Local(q)'
  <2>1. \A q \in Requests \ {r} : View(q)' = View(q)
    BY <1>4 DEF View
  <2>2. QED
    BY <1>1, <1>2, <1>3, <1>4, <2>1, Stays
<1>8. LikedIsListed' /\ NoRowYet'
  BY DEF PrefsInv, LikedIsListed, NoRowYet
<1>9. TypeOK'
  BY <1>3, <1>5, <1>6 DEF TypeOK, RowsOK, RequestsOK, AtOK, Unlocked
<1>10. QED
  BY <1>7, <1>8, <1>9 DEF PrefsInv

\* What is known of the request of a statement.
LEMMA Before ==
  ASSUME PrefsInv, NEW r \in Requests
  PROVE  /\ RowsOK /\ RequestsOK /\ Unlocked(r) /\ Placed(r) /\ Sees(r) /\ r # None
         /\ at \in [Requests -> Nat] /\ AtOK(r) /\ prefs \in PrefsRow /\ draft \in PrefsRow
         /\ View(r) \in PrefsRow
BY TypeParts, Constants DEF PrefsInv, Local, RequestsOK, RowsOK, View

\* ... of one that runs.
LEMMA Running ==
  ASSUME PrefsInv, NEW r \in Requests, pc[r] \in InTx
  PROVE  /\ req[r] \in Asked /\ req[r] # None
         /\ Op(r) \in {"add", "remove", "onboard"}
         /\ Len(req[r].items) \in Nat /\ at[r] \in 1..(Len(req[r].items) + 1)
         /\ Op(r) # "onboard" => Len(req[r].items) = 1
         /\ pc[r] \in {"row", "list"} => Item(r) \in Items
<1>1. req[r] \in Asked /\ at[r] \in Nat /\ AtOK(r)
  BY Before DEF Placed, InTx
<1>2. req[r] # None
  BY <1>1, Constants
<1>3. /\ Op(r) \in {"add", "remove", "onboard"}
      /\ Len(req[r].items) \in Nat /\ (Op(r) # "onboard" => Len(req[r].items) = 1)
      /\ \A i \in 1..Len(req[r].items) : req[r].items[i] \in Items
  BY <1>1, AskedType DEF Op
<1>4. at[r] \in 1..(Len(req[r].items) + 1)
  BY <1>1, <1>2 DEF AtOK
<1>5. pc[r] \in {"row", "list"} => Item(r) \in Items
  BY <1>3, <1>4, Before DEF Placed, Item
<1>6. QED
  BY <1>1, <1>2, <1>3, <1>4, <1>5

LEMMA BeginStep ==
  ASSUME PrefsInv, NEW r \in Requests, Begin(r)
  PROVE  PrefsInv'
<1>1. PICK q \in Asked :
        /\ req' = [req EXCEPT ![r] = q] /\ pc[r] = "new"
        /\ Goto(r, IF q.op = "remove" THEN "row" ELSE "ensure")
        /\ UNCHANGED <<likes, prefs, locks, holder, draft, at>>
  <2>1. PICK q \in Asked : req' = [req EXCEPT ![r] = q]
    BY DEF Begin
  <2>2. req'[r] = q
    BY <2>1, Before DEF RequestsOK
  <2>3. QED
    BY <2>1, <2>2 DEF Begin, locked
<1>2. /\ req'[r] = q /\ req[r] = None /\ at[r] = 1 /\ Mine(r) = {} /\ holder # r
      /\ q.op \in {"add", "remove", "onboard"} /\ Len(q.items) \in Nat
      /\ q.op # "onboard" => Len(q.items) = 1
  <2>1. req[r] = None
    BY <1>1, Before DEF Placed
  <2>2. at[r] = 1
    BY <2>1, Before DEF AtOK
  <2>3. req'[r] = q
    BY <1>1, Before DEF RequestsOK
  <2>4. QED
    BY <1>1, <2>1, <2>2, <2>3, AskedType, Before DEF Unlocked, InTx
<1>3. PICK label \in {"row", "ensure"} : Goto(r, label) /\ (label = "row" <=> q.op = "remove")
  BY <1>1
<1>4. pc'[r] = label
  BY <1>3, Before DEF RequestsOK, Goto
<1>5. Mine(r)' = {} /\ Op(r)' = q.op /\ at'[r] = 1 /\ holder' # r
  BY <1>1, <1>2 DEF Mine, Op
<1>6. Local(r)'
  <2>1. Placed(r)'
    <3>1. pc'[r] # "new" /\ req'[r] \in Asked /\ at'[r] = 1 /\ Op(r)' = q.op /\ pc'[r] \in {"row", "ensure"}
      BY <1>2, <1>3, <1>4, <1>5
    <3>2. pc'[r] = "row" => at'[r] <= Len(req'[r].items)
      <4>1. req'[r] = q /\ (q.op = "remove" => Len(q.items) = 1)
        BY <1>2
      <4>2. SUFFICES ASSUME q.op = "remove" PROVE at'[r] <= Len(req'[r].items)
        BY <1>3, <1>4
      <4>3. at'[r] = 1 /\ Len(req'[r].items) = 1
        BY <3>1, <4>1, <4>2
      <4>4. QED
        BY <4>3
    <3>3. pc'[r] = "ensure" => Op(r)' # "remove"
      BY <1>3, <1>4, <3>1
    <3>4. QED
      BY <3>1, <3>2, <3>3 DEF Placed
  <2>2. Sees(r)'
    BY <1>3, <1>4, <1>5 DEF Sees
  <2>3. QED
    BY <2>1, <2>2 DEF Local
<1>7. Draft'
  <2>1. holder # None => Op(holder)' = Op(holder) /\ pc'[holder] = pc[holder]
    <3>1. holder \in Requests \cup {None} /\ holder # r
      BY <1>2, Before DEF RowsOK
    <3>2. QED
      BY <1>1, <1>3, <3>1, Before DEF Op, RequestsOK, Goto
  <2>2. QED
    BY <1>1, <2>1 DEF PrefsInv, Draft, Op
<1>8. AtOK(r)'
  BY <1>2, <1>5, Constants DEF AtOK
<1>9. QED
  BY <1>1, <1>3, <1>6, <1>7, <1>8, Before, StatementStep DEF InTx, RequestsOK

\* The draft, after a step of its holder or of another request.
LEMMA DraftStays ==
  ASSUME PrefsInv, NEW r \in Requests, NEW label, Goto(r, label),
         UNCHANGED <<prefs, holder, req>>,
         holder # None => draft' = draft /\ \A x \in Items : locks[x] = holder => locks'[x] = holder,
         holder = r /\ Op(r) # "onboard" /\ prefs.exists => label = "commit"
  PROVE  Draft'
<1>1. SUFFICES ASSUME holder # None PROVE Draft'
  BY DEF Draft
<1>2. holder \in Requests /\ holder' = holder /\ Op(holder)' = Op(holder) /\ draft' = draft
  BY <1>1, TypeParts DEF PrefsInv, RowsOK, Op
<1>3. \A x \in prefs.listed : x \in Items
  BY TypeParts DEF PrefsInv, RowsOK, PrefsRow
<1>4. pc'[holder] = IF holder = r THEN label ELSE pc[holder]
  BY <1>2, TypeParts DEF PrefsInv, RequestsOK, Goto
<1>5. QED
  BY <1>1, <1>2, <1>3, <1>4 DEF PrefsInv, Draft

\* A write of the row of preferences by r, whose draft it is from then on.
LEMMA DraftWritten ==
  ASSUME PrefsInv, NEW r \in Requests, pc[r] \in InTx, NEW label, Goto(r, label), holder \in {None, r},
         NEW row \in PrefsRow, holder' = r, draft' = row, UNCHANGED <<prefs, locks, req>>,
         row.exists,
         \A x \in View(r).listed : x \in row.listed \/ (Op(r) = "remove" /\ locks[x] = r),
         row.seeds = View(r).seeds
           \/ (Op(r) = "onboard" /\ row.seeds = r /\ View(r).seeds = None),
         Op(r) # "onboard" /\ prefs.exists => label = "commit"
  PROVE  Draft'
<1>1. Op(r)' = Op(r) /\ pc'[r] = label /\ r # None
  BY Constants, TypeParts DEF PrefsInv, RequestsOK, Goto, Op
<1>2. \A x \in prefs.listed : x \in row.listed \/ (Op(r) = "remove" /\ locks[x] = r)
  BY <1>1 DEF PrefsInv, Draft, View
<1>3. \/ row.seeds = prefs.seeds
      \/ prefs.seeds = None /\ row.seeds = r /\ Op(r) = "onboard"
  <2>1. CASE holder = r
    BY <1>1, <2>1 DEF PrefsInv, Draft, View
  <2>2. CASE holder # r
    BY <2>2 DEF View
  <2>3. QED
    BY <2>1, <2>2
<1>4. QED
  BY <1>1, <1>2, <1>3 DEF Draft

-----------------------------------------------------------------------------
(* One lemma per statement.                                                *)

\* Only a transaction at its COMMIT, or the one that creates the row, holds the row of
\* preferences for a like, a follow or one of their opposites.
LEMMA HolderAtCommit ==
  ASSUME PrefsInv, NEW r \in Requests, holder = r, Op(r) # "onboard", prefs.exists
  PROVE  pc[r] = "commit"
BY Constants DEF PrefsInv, Draft

\* What a statement that goes on to label leaves alone.
LEMMA Moved ==
  ASSUME PrefsInv, NEW r \in Requests, NEW label, Goto(r, label), UNCHANGED req
  PROVE  pc'[r] = label /\ Op(r)' = Op(r) /\ req'[r] = req[r]
BY Before DEF RequestsOK, Goto, Op

LEMMA EnsureStep ==
  ASSUME PrefsInv, NEW r \in Requests, Ensure(r)
  PROVE  PrefsInv'
<1>1. pc[r] = "ensure" /\ pc[r] \in InTx /\ UNCHANGED <<likes, prefs, req, at, locks>>
  BY DEF Ensure, Ready, InTx, WriteRow, locked
<1>2. PICK label \in {"check", "row"} : Goto(r, label) /\ (label = "check" <=> Op(r) = "onboard")
  BY DEF Ensure, AfterEnsure
<1>3. pc'[r] = label /\ Op(r)' = Op(r) /\ Mine(r)' = {} /\ req'[r] = req[r] /\ at'[r] = 1
  BY <1>1, <1>2, Moved, Before DEF Sees, Mine, Placed
<1>4. /\ req[r] \in Asked /\ Op(r) # "remove"
      /\ Op(r) # "onboard" => Len(req[r].items) = 1
  BY <1>1, Running, Before DEF Placed
<1>5. CASE View(r).exists /\ UNCHANGED locked
  <2>1. UNCHANGED <<holder, draft>> /\ View(r)'.exists
    BY <1>1, <1>5 DEF locked, View
  <2>2. Draft'
    BY <1>1, <1>2, <2>1, DraftStays, HolderAtCommit
  <2>3. Placed(r)'
    BY <1>1, <1>2, <1>3, <1>4 DEF Placed, Op
  <2>4. Sees(r)'
    BY <1>2, <1>3, <2>1 DEF Sees
  <2>5. AtOK(r)'
    BY <1>1, Before DEF AtOK
  <2>6. QED
    BY <1>1, <1>2, <2>1, <2>2, <2>3, <2>4, <2>5, Before, StatementStep DEF InTx, RequestsOK, Local
<1>6. CASE ~View(r).exists /\ WriteRow(r, [NoRow EXCEPT !.exists = TRUE])
  <2>1. /\ holder' = r /\ draft' = [exists |-> TRUE, listed |-> {}, seeds |-> None]
        /\ holder = None
    <3>1. holder \in {None, r}
      BY <1>1, <1>6, Free DEF Ensure, Ready
    <3>2. holder # r
      BY <1>6, Constants DEF PrefsInv, Draft, View
    <3>3. QED
      BY <1>6, <3>1, <3>2 DEF WriteRow, NoRow
  <2>2. View(r)'.exists /\ draft' \in PrefsRow
    BY <2>1 DEF View, PrefsRow
  <2>3. View(r) = prefs /\ prefs.listed = {} /\ prefs.seeds = None /\ ~prefs.exists
    BY <1>6, <2>1, Constants DEF PrefsInv, NoRowYet, View
  <2>4. Draft'
    BY <1>1, <1>2, <2>1, <2>2, <2>3, DraftWritten
  <2>5. Placed(r)'
    BY <1>1, <1>2, <1>3, <1>4 DEF Placed, Op
  <2>6. Sees(r)'
    BY <1>2, <1>3, <2>2 DEF Sees
  <2>7. AtOK(r)'
    BY <1>1, Before DEF AtOK
  <2>8. QED
    BY <1>1, <1>2, <2>1, <2>2, <2>4, <2>5, <2>6, <2>7, Before, StatementStep DEF InTx, RequestsOK, Local
<1>7. QED
  BY <1>5, <1>6 DEF Ensure

LEMMA CheckStep ==
  ASSUME PrefsInv, NEW r \in Requests, Check(r)
  PROVE  PrefsInv'
<1>1. /\ pc[r] = "check" /\ pc[r] \in InTx /\ UNCHANGED <<likes, prefs, req, at, locks>>
      /\ holder' = r /\ draft' = View(r) /\ Goto(r, "seed") /\ View(r).seeds = None
  BY DEF Check, Ready, InTx, WriteRow
<1>2. holder \in {None, r}
  BY <1>1, Free DEF Check, Ready
<1>3. /\ pc'[r] = "seed" /\ Op(r)' = Op(r) /\ Op(r) = "onboard" /\ Mine(r)' = {}
      /\ req'[r] = req[r] /\ at'[r] = 1 /\ View(r).exists
  BY <1>1, Moved, Before DEF Sees, Mine, Placed
<1>4. View(r)' = View(r)
  BY <1>1 DEF View
<1>5. Placed(r)' /\ AtOK(r)'
  BY <1>1, <1>3, Running, Before DEF Placed, AtOK
<1>6. Sees(r)'
  BY <1>1, <1>3, <1>4 DEF Sees
<1>7. Draft'
  BY <1>1, <1>2, <1>3, Before, DraftWritten
<1>8. QED
  BY <1>1, <1>2, <1>5, <1>6, <1>7, Before, StatementStep DEF InTx, RequestsOK, Local

LEMMA SeedStep ==
  ASSUME PrefsInv, NEW r \in Requests, Seed(r)
  PROVE  PrefsInv'
<1>1. /\ pc[r] = "seed" /\ pc[r] \in InTx /\ UNCHANGED <<likes, prefs, req, at, locks>>
      /\ holder' = r /\ draft' = [View(r) EXCEPT !.seeds = r]
  BY DEF Seed, Ready, InTx, WriteRow
<1>2. PICK label \in {"commit", "row"} : Goto(r, label) /\ (label = "commit" <=> req[r].items = <<>>)
  BY DEF Seed
<1>3. /\ pc'[r] = label /\ Op(r)' = Op(r) /\ Op(r) = "onboard" /\ Mine(r)' = {}
      /\ req'[r] = req[r] /\ at'[r] = 1 /\ View(r).exists
      /\ holder = r /\ View(r).seeds = None
  BY <1>1, <1>2, Moved, Before DEF Sees, Mine, Placed, View
<1>4. View(r)' = draft' /\ draft' \in PrefsRow /\ draft'.exists /\ draft'.seeds = r /\ draft'.listed = View(r).listed
  BY <1>1, <1>3, Before DEF View, PrefsRow
<1>5. label = "row" => 1 <= Len(req[r].items)
  <2>1. req[r].items \in Seq(Items)
    BY <1>1, Running, AskedType
  <2>2. QED
    BY <1>2, <2>1
<1>6. Placed(r)' /\ AtOK(r)'
  BY <1>1, <1>2, <1>3, <1>5, Running, Before DEF Placed, AtOK
<1>7. Sees(r)'
  BY <1>1, <1>2, <1>3, <1>4 DEF Sees
<1>8. Draft'
  BY <1>1, <1>2, <1>3, <1>4, Before, DraftWritten
<1>9. QED
  BY <1>1, <1>2, <1>3, <1>4, <1>6, <1>7, <1>8, Before, StatementStep DEF InTx, RequestsOK, Local

LEMMA InsertRowStep ==
  ASSUME PrefsInv, NEW r \in Requests, InsertRow(r)
  PROVE  PrefsInv'
<1>1. /\ pc[r] = "row" /\ pc[r] \in InTx /\ UNCHANGED <<likes, prefs, req, at, holder, draft>>
      /\ Op(r) # "remove" /\ Goto(r, "list")
      /\ locks' = IF Item(r) \in likes THEN locks ELSE [locks EXCEPT ![Item(r)] = r]
  BY DEF InsertRow, Ready, InTx
<1>2. Item(r) \in Items /\ locks[Item(r)] \in {None, r} /\ locks \in [Items -> Requests \cup {None}]
  BY <1>1, Running, Free, Before DEF InsertRow, Ready, RowsOK
<1>3. /\ pc'[r] = "list" /\ Op(r)' = Op(r) /\ req'[r] = req[r] /\ at'[r] = at[r]
      /\ Item(r)' = Item(r) /\ View(r)' = View(r) /\ View(r).exists
  BY <1>1, Moved, Before DEF Sees, Item, View
<1>4. Mine(r)' \subseteq Mine(r) \cup {Item(r)}
  BY <1>1, <1>2 DEF Mine
<1>5. Placed(r)' /\ AtOK(r)'
  BY <1>1, <1>3, Before DEF Placed, AtOK, Op, InTx
<1>6. Sees(r)'
  <2>1. Op(r) # "remove" /\ (\A x \in Mine(r) : x \in View(r).listed)
    BY <1>1, Before DEF Sees
  <2>2. Op(r) = "onboard" => holder = r /\ draft.seeds = r
    BY <1>1, Before DEF Sees
  <2>3. QED
    BY <1>1, <1>3, <1>4, <2>1, <2>2 DEF Sees
<1>7. Draft'
  <2>1. holder # None => \A x \in Items : locks[x] = holder => locks'[x] = holder
    BY <1>1, <1>2
  <2>2. QED
    BY <1>1, <2>1, DraftStays, HolderAtCommit
<1>8. QED
  BY <1>1, <1>2, <1>5, <1>6, <1>7, Before, StatementStep DEF InTx, RequestsOK, Local

LEMMA DeleteRowStep ==
  ASSUME PrefsInv, NEW r \in Requests, DeleteRow(r)
  PROVE  PrefsInv'
<1>1. /\ pc[r] = "row" /\ pc[r] \in InTx /\ UNCHANGED <<likes, prefs, req, at, holder, draft>>
      /\ Op(r) = "remove" /\ Item(r) \in likes /\ Goto(r, "list")
      /\ locks' = [locks EXCEPT ![Item(r)] = r]
  BY DEF DeleteRow, Ready, InTx
<1>2. Item(r) \in Items /\ locks[Item(r)] \in {None, r} /\ locks \in [Items -> Requests \cup {None}]
  BY <1>1, Running, Free, Before DEF DeleteRow, Ready, RowsOK
<1>3. /\ pc'[r] = "list" /\ Op(r)' = Op(r) /\ req'[r] = req[r] /\ at'[r] = at[r]
      /\ Item(r)' = Item(r) /\ View(r)' = View(r)
  BY <1>1, Moved DEF Item, View
<1>4. Item(r) \in Mine(r)' /\ View(r).exists
  <2>1. Item(r) \in Mine(r)'
    BY <1>1, <1>2 DEF Mine
  <2>2. View(r).exists
    BY <1>1, Constants DEF PrefsInv, LikedIsListed, Draft, View
  <2>3. QED
    BY <2>1, <2>2
<1>5. Placed(r)' /\ AtOK(r)'
  BY <1>1, <1>3, Before DEF Placed, AtOK, Op, InTx
<1>6. Sees(r)'
  BY <1>1, <1>3, <1>4 DEF Sees
<1>7. Draft'
  <2>1. holder # None => \A x \in Items : locks[x] = holder => locks'[x] = holder
    BY <1>1, <1>2
  <2>2. QED
    BY <1>1, <2>1, DraftStays, HolderAtCommit
<1>8. QED
  BY <1>1, <1>2, <1>5, <1>6, <1>7, Before, StatementStep DEF InTx, RequestsOK, Local

\* On with the next item, or to the COMMIT; a like or a follow has one item.
LEMMA Advanced ==
  ASSUME PrefsInv, NEW r \in Requests, pc[r] = "list", Advance(r), UNCHANGED req
  PROVE  \E label \in {"commit", "row"} :
           /\ Goto(r, label) /\ pc'[r] = label /\ (Op(r) # "onboard" => label = "commit")
           /\ Op(r)' = Op(r) /\ req'[r] = req[r] /\ at' \in [Requests -> Nat]
           /\ Placed(r)' /\ AtOK(r)' /\ \A q \in Requests \ {r} : at'[q] = at[q]
<1>1. /\ at \in [Requests -> Nat] /\ at[r] >= 1 /\ at[r] <= Len(req[r].items)
      /\ Len(req[r].items) \in Nat /\ req[r] # None /\ req[r] \in Asked
      /\ Op(r) # "onboard" => Len(req[r].items) = 1
  BY Running, Before DEF Placed, InTx
<1>2. CASE at[r] = Len(req[r].items)
  <2>1. Goto(r, "commit") /\ UNCHANGED at
    BY <1>2 DEF Advance
  <2>2. pc'[r] = "commit" /\ Op(r)' = Op(r) /\ req'[r] = req[r]
    BY <2>1, Moved
  <2>3. Placed(r)'
    BY <1>1, <2>1, <2>2 DEF Placed
  <2>4. AtOK(r)'
    BY <2>1, Before DEF AtOK
  <2>5. QED
    BY <1>1, <2>1, <2>2, <2>3, <2>4
<1>3. CASE at[r] # Len(req[r].items)
  <2>1. Goto(r, "row") /\ at' = [at EXCEPT ![r] = @ + 1]
    BY <1>3 DEF Advance
  <2>2. pc'[r] = "row" /\ Op(r)' = Op(r) /\ req'[r] = req[r]
    BY <2>1, Moved
  <2>3. at'[r] = at[r] + 1 /\ at' \in [Requests -> Nat] /\ \A q \in Requests \ {r} : at'[q] = at[q]
    BY <1>1, <2>1
  <2>4. Placed(r)'
    BY <1>1, <1>3, <2>2, <2>3 DEF Placed
  <2>5. AtOK(r)'
    BY <1>1, <1>3, <2>2, <2>3 DEF AtOK
  <2>6. Op(r) = "onboard"
    <3>1. SUFFICES ASSUME Op(r) # "onboard" PROVE FALSE
      OBVIOUS
    <3>2. at[r] \in Nat /\ at[r] >= 1 /\ at[r] <= 1
      BY <1>1, <3>1
    <3>3. at[r] = 1 /\ Len(req[r].items) = 1
      BY <1>1, <3>1, <3>2
    <3>4. QED
      BY <1>3, <3>3
  <2>7. QED
    BY <2>1, <2>2, <2>3, <2>4, <2>5, <2>6
<1>4. QED
  BY <1>2, <1>3

LEMMA AppendItemStep ==
  ASSUME PrefsInv, NEW r \in Requests, AppendItem(r)
  PROVE  PrefsInv'
<1>1. /\ pc[r] = "list" /\ pc[r] \in InTx /\ UNCHANGED <<likes, prefs, req, locks>>
      /\ Op(r) # "remove" /\ Advance(r)
  BY DEF AppendItem, Ready, InTx, WriteRow, locked
<1>2. PICK label \in {"commit", "row"} :
        /\ Goto(r, label) /\ pc'[r] = label /\ (Op(r) # "onboard" => label = "commit")
        /\ Op(r)' = Op(r) /\ req'[r] = req[r] /\ at' \in [Requests -> Nat]
        /\ Placed(r)' /\ AtOK(r)' /\ \A q \in Requests \ {r} : at'[q] = at[q]
  BY <1>1, Advanced
<1>3. /\ View(r).exists /\ Mine(r)' = Mine(r)
      /\ \A x \in Mine(r) : x \in View(r).listed \/ x = Item(r)
      /\ Op(r) = "onboard" => holder = r /\ draft.seeds = r
  BY <1>1, Before DEF Sees, Mine
<1>4. \/ Item(r) \in View(r).listed /\ UNCHANGED <<holder, draft>>
      \/ /\ Item(r) \notin View(r).listed
         /\ holder' = r /\ draft' = [View(r) EXCEPT !.listed = @ \cup {Item(r)}]
  BY <1>3 DEF AppendItem, WriteRow, locked
<1>5. SUFFICES ASSUME Draft',
                      UNCHANGED <<holder, draft>> \/ (holder \in {None, r} /\ holder' = r /\ draft' \in PrefsRow),
                      View(r)'.exists, \A x \in Mine(r) : x \in View(r)'.listed,
                      Op(r) = "onboard" => holder' = r /\ draft'.seeds = r
               PROVE  PrefsInv'
  <2>1. CASE Item(r) \in View(r).listed /\ UNCHANGED <<holder, draft>>
    <3>1. View(r)' = View(r)
      BY <1>1, <2>1 DEF View
    <3>2. Draft'
      BY <1>1, <1>2, <2>1, DraftStays, HolderAtCommit
    <3>3. QED
      BY <1>3, <1>5, <2>1, <3>1, <3>2
  <2>2. CASE /\ Item(r) \notin View(r).listed
             /\ holder' = r /\ draft' = [View(r) EXCEPT !.listed = @ \cup {Item(r)}]
    <3>1. holder \in {None, r} /\ Item(r) \in Items
      BY <1>1, <2>2, Free, Running DEF AppendItem, Ready
    <3>2. /\ draft' \in PrefsRow /\ draft'.exists /\ draft'.seeds = View(r).seeds
          /\ draft'.listed = View(r).listed \cup {Item(r)}
      BY <1>3, <2>2, <3>1, Before DEF PrefsRow
    <3>3. View(r)' = draft'
      BY <2>2 DEF View
    <3>4. Draft'
      BY <1>1, <1>2, <2>2, <3>1, <3>2, DraftWritten
    <3>5. Op(r) = "onboard" => holder' = r /\ draft'.seeds = r
      BY <1>3, <2>2, <3>2 DEF View
    <3>6. QED
      BY <1>3, <1>5, <2>2, <3>1, <3>2, <3>3, <3>4, <3>5
  <2>3. QED
    BY <1>4, <2>1, <2>2
<1>6. Sees(r)'
  BY <1>1, <1>2, <1>3, <1>5 DEF Sees
<1>7. QED
  BY <1>1, <1>2, <1>5, <1>6, Before, StatementStep DEF InTx, RequestsOK, Local

LEMMA RemoveItemStep ==
  ASSUME PrefsInv, NEW r \in Requests, RemoveItem(r)
  PROVE  PrefsInv'
<1>1. /\ pc[r] = "list" /\ pc[r] \in InTx /\ UNCHANGED <<likes, prefs, req, locks>>
      /\ Op(r) = "remove" /\ Advance(r)
      /\ holder' = r /\ draft' = [View(r) EXCEPT !.listed = @ \ {Item(r)}]
  BY DEF RemoveItem, Ready, InTx, WriteRow
<1>2. PICK label \in {"commit", "row"} :
        /\ Goto(r, label) /\ pc'[r] = label /\ (Op(r) # "onboard" => label = "commit")
        /\ Op(r)' = Op(r) /\ req'[r] = req[r] /\ at' \in [Requests -> Nat]
        /\ Placed(r)' /\ AtOK(r)' /\ \A q \in Requests \ {r} : at'[q] = at[q]
  BY <1>1, Advanced
<1>3. View(r).exists /\ locks[Item(r)] = r /\ holder \in {None, r}
  BY <1>1, Free, Before DEF Sees, Mine, RemoveItem, Ready
<1>4. /\ draft' \in PrefsRow /\ draft'.exists /\ draft'.seeds = View(r).seeds
      /\ draft'.listed = View(r).listed \ {Item(r)}
  BY <1>1, <1>3, Before DEF PrefsRow
<1>5. Sees(r)'
  BY <1>1, <1>2, <1>4 DEF Sees, View
<1>6. Draft'
  <2>1. \A x \in View(r).listed : x \in draft'.listed \/ (Op(r) = "remove" /\ locks[x] = r)
    BY <1>1, <1>3, <1>4
  <2>2. Op(r) # "onboard" /\ Goto(r, "commit")
    BY <1>1, <1>2
  <2>3. draft'.seeds = View(r).seeds /\ UNCHANGED <<prefs, locks, req>> /\ holder' = r
    BY <1>1, <1>4
  <2>4. QED
    BY <1>1, <1>3, <1>4, <2>1, <2>2, <2>3, DraftWritten
<1>7. QED
  BY <1>1, <1>2, <1>3, <1>4, <1>5, <1>6, Before, StatementStep DEF InTx, RequestsOK, Local

-----------------------------------------------------------------------------
(* The end of a transaction.                                               *)

\* The locks of r are gone, and those of the others stay.
LEMMA EndStep ==
  ASSUME PrefsInv, NEW r \in Requests, NEW answer \in Answers, Goto(r, answer), pc[r] # "new",
         Release(r), UNCHANGED <<req, at>>,
         likes' \subseteq Items, prefs' \in PrefsRow, LikedIsListed', NoRowYet',
         holder \notin {None, r} => prefs' = prefs,
         prefs.exists => prefs'.exists,
         \A x \in Items : x \in prefs.listed /\ locks[x] # r => x \in prefs'.listed
  PROVE  PrefsInv'
<1>1. RowsOK /\ RequestsOK /\ r # None /\ \A q \in Requests : Unlocked(q) /\ Local(q)
  BY TypeParts, Constants DEF PrefsInv
<1>2. pc' = [pc EXCEPT ![r] = answer] /\ pc'[r] = answer /\ \A q \in Requests \ {r} : pc'[q] = pc[q]
  BY <1>1 DEF Goto, RequestsOK
<1>3. /\ locks' \in [Items -> Requests \cup {None}]
      /\ \A x \in Items : locks'[x] # r /\ (locks[x] # r => locks'[x] = locks[x])
      /\ \A x \in Items : locks[x] = r => locks'[x] = None
      /\ holder' \in Requests \cup {None} /\ holder' # r
      /\ holder # r => holder' = holder /\ draft' = draft
      /\ holder = r => holder' = None /\ draft' \in PrefsRow
  BY <1>1 DEF Release, Other, RowsOK, NoRow, PrefsRow
<1>4. \A q \in Requests \ {r} : /\ \A x \in Items : locks'[x] = q <=> locks[x] = q
                                /\ holder' = q <=> holder = q
                                /\ holder = q => draft' = draft
  BY <1>1, <1>3, Constants
<1>5. RowsOK'
  BY <1>1, <1>3 DEF RowsOK
<1>6. RequestsOK'
  BY <1>1, <1>2 DEF RequestsOK, AtOK
<1>7. \A q \in Requests : Unlocked(q)'
  <2>1. Unlocked(r)'
    BY <1>3 DEF Unlocked, Mine
  <2>2. \A q \in Requests \ {r} : Unlocked(q)'
    BY <1>1, <1>2, <1>4 DEF Unlocked, Mine
  <2>3. QED
    BY <2>1, <2>2
<1>8. Local(r)'
  <2>1. pc'[r] \notin InTx /\ pc'[r] # "new"
    BY <1>2 DEF InTx, Answers
  <2>2. req'[r] \in Asked
    BY <1>1 DEF Local, Placed
  <2>3. Placed(r)'
    BY <2>1, <2>2 DEF Placed, InTx
  <2>4. Sees(r)'
    BY <2>1 DEF Sees, InTx
  <2>5. QED
    BY <2>3, <2>4 DEF Local
<1>9. ASSUME NEW q \in Requests \ {r} PROVE Local(q)'
  <2>1. View(q).exists => View(q)'.exists
    BY <1>4 DEF View
  <2>2. \A x \in Mine(q) : x \in View(q).listed => x \in View(q)'.listed
    BY <1>4 DEF View, Mine
  <2>3. QED
    BY <1>1, <1>2, <1>4, <2>1, <2>2, Stays
<1>10. Draft'
  <2>1. SUFFICES ASSUME holder' # None PROVE Draft'
    BY DEF Draft
  <2>2. /\ holder' = holder /\ draft' = draft /\ prefs' = prefs /\ holder # r
        /\ holder \in Requests /\ Op(holder)' = Op(holder) /\ pc'[holder] = pc[holder]
    BY <1>1, <1>2, <1>3, <2>1 DEF RowsOK, Op
  <2>3. \A x \in Items : locks[x] = holder => locks'[x] = holder
    BY <1>3, <2>2
  <2>4. prefs.listed \subseteq Items
    BY <1>1 DEF RowsOK, PrefsRow
  <2>5. QED
    BY <2>1, <2>2, <2>3, <2>4 DEF PrefsInv, Draft
<1>11. TypeOK'
  BY <1>5, <1>6, <1>7 DEF TypeOK, RowsOK, RequestsOK, AtOK, Unlocked
<1>12. QED
  BY <1>8, <1>9, <1>10, <1>11 DEF PrefsInv

LEMMA RollbackStep ==
  ASSUME PrefsInv, NEW r \in Requests, NEW answer \in Answers, Rollback(r, answer), pc[r] \in InTx
  PROVE  PrefsInv'
<1>1. /\ Goto(r, answer) /\ Release(r) /\ UNCHANGED <<likes, prefs, req, at>> /\ pc[r] # "new"
  BY DEF Rollback, InTx
<1>2. likes \subseteq Items /\ prefs \in PrefsRow
  BY Before DEF RowsOK
<1>3. LikedIsListed' /\ NoRowYet'
  BY <1>1 DEF PrefsInv, LikedIsListed, NoRowYet
<1>4. QED
  BY <1>1, <1>2, <1>3, EndStep

LEMMA CommittedStep ==
  ASSUME PrefsInv, NEW r \in Requests, NEW answer \in Answers, Committed(r), Goto(r, answer)
  PROVE  PrefsInv'
<1>1. /\ pc[r] = "commit" /\ pc[r] # "new" /\ pc[r] \in InTx
      /\ likes' = IF Op(r) = "remove" THEN likes \ Mine(r) ELSE likes \cup Mine(r)
      /\ prefs' = View(r) /\ Release(r) /\ UNCHANGED <<req, at>>
  BY DEF Committed, InTx
<1>2. /\ likes \subseteq Items /\ prefs \in PrefsRow /\ View(r) \in PrefsRow /\ r # None
      /\ View(r).exists /\ (Op(r) # "remove" => \A x \in Mine(r) : x \in View(r).listed)
  BY <1>1, Before DEF RowsOK, Sees
<1>3. \A x \in prefs.listed : x \in View(r).listed \/ (Op(r) = "remove" /\ locks[x] = r)
  BY <1>2 DEF PrefsInv, Draft, View
<1>4. likes' \subseteq Items /\ prefs' \in PrefsRow
  BY <1>1, <1>2 DEF Mine
<1>5. LikedIsListed' /\ NoRowYet'
  <2>1. likes \subseteq prefs.listed
    BY DEF PrefsInv, LikedIsListed
  <2>2. likes' \subseteq View(r).listed
    BY <1>1, <1>2, <1>3, <2>1 DEF Mine
  <2>3. QED
    BY <1>1, <1>2, <2>2 DEF LikedIsListed, NoRowYet
<1>6. holder \notin {None, r} => prefs' = prefs
  BY <1>1 DEF View
<1>7. QED
  BY <1>1, <1>2, <1>3, <1>4, <1>5, <1>6, EndStep

LEMMA EnsureExistsStep ==
  ASSUME PrefsInv, EnsureExists
  PROVE  PrefsInv'
<1>1. /\ ~prefs.exists /\ holder = None /\ prefs' = [exists |-> TRUE, listed |-> {}, seeds |-> None]
      /\ UNCHANGED <<likes, locks, holder, draft, req, at, pc>>
  BY DEF EnsureExists, NoRow, locked
<1>2. prefs' \in PrefsRow /\ prefs.listed = {} /\ likes = {}
  BY <1>1 DEF PrefsInv, NoRowYet, LikedIsListed, PrefsRow
<1>3. TypeOK'
  <2>1. \A r \in Requests : AtOK(r)' /\ Unlocked(r)'
    BY <1>1, TypeParts DEF PrefsInv, RequestsOK, AtOK, Unlocked, Mine
  <2>2. RowsOK' /\ RequestsOK'
    BY <1>1, <1>2, <2>1, TypeParts DEF PrefsInv, RowsOK, RequestsOK
  <2>3. QED
    BY <2>1, <2>2 DEF TypeOK, RowsOK, RequestsOK, AtOK, Unlocked
<1>4. LikedIsListed' /\ NoRowYet' /\ Draft'
  BY <1>1, <1>2 DEF LikedIsListed, NoRowYet, Draft
<1>5. ASSUME NEW q \in Requests PROVE Local(q)'
  <2>1. holder # q /\ View(q) = prefs /\ View(q)' = prefs'
    BY <1>1, Constants DEF View
  <2>2. QED
    BY <1>1, <1>2, <2>1, Stays DEF PrefsInv
<1>6. QED
  BY <1>3, <1>4, <1>5 DEF PrefsInv

-----------------------------------------------------------------------------
(* The invariant.                                                          *)

LEMMA InvInit == Init => PrefsInv
<1> SUFFICES ASSUME Init PROVE PrefsInv
  OBVIOUS
<1>1. /\ likes \subseteq Items /\ prefs \in PrefsRow /\ prefs.listed = likes /\ prefs.seeds = None
      /\ ~prefs.exists => likes = {}
      /\ locks = [x \in Items |-> None] /\ holder = None /\ draft = NoRow
      /\ req = [r \in Requests |-> None] /\ at = [r \in Requests |-> 1]
      /\ pc = [r \in Requests |-> "new"]
  BY DEF Init
<1>2. \A r \in Requests : Mine(r) = {} /\ holder # r /\ pc[r] = "new" /\ req[r] = None /\ at[r] = 1
  BY <1>1, Constants DEF Mine
<1>3. TypeOK
  <2>1. RowsOK
    BY <1>1 DEF RowsOK, NoRow, PrefsRow
  <2>2. RequestsOK
    BY <1>1 DEF RequestsOK, AtOK
  <2>3. \A r \in Requests : Unlocked(r)
    BY <1>2 DEF Unlocked
  <2>4. QED
    BY <2>1, <2>2, <2>3, TypeParts
<1>4. LikedIsListed /\ NoRowYet /\ Draft
  BY <1>1 DEF LikedIsListed, NoRowYet, Draft
<1>5. \A r \in Requests : Local(r)
  BY <1>2 DEF Local, Placed, Sees, InTx
<1>6. QED
  BY <1>3, <1>4, <1>5 DEF PrefsInv

LEMMA InvNext == PrefsInv /\ [Next]_vars => PrefsInv'
<1> SUFFICES ASSUME PrefsInv, [Next]_vars PROVE PrefsInv'
  OBVIOUS
<1>1. ASSUME NEW r \in Requests, Begin(r) PROVE PrefsInv'
  BY <1>1, BeginStep
<1>2. ASSUME NEW r \in Requests, Step(r) PROVE PrefsInv'
  <2>1. CASE Ensure(r)
    BY <2>1, EnsureStep
  <2>2. CASE Check(r)
    BY <2>2, CheckStep
  <2>3. CASE AlreadyOnboarded(r)
    BY <2>3, RollbackStep DEF AlreadyOnboarded, Ready, InTx, Answers
  <2>4. CASE Seed(r)
    BY <2>4, SeedStep
  <2>5. CASE InsertRow(r)
    BY <2>5, InsertRowStep
  <2>6. CASE DeleteRow(r)
    BY <2>6, DeleteRowStep
  <2>7. CASE NotFound(r)
    BY <2>7, RollbackStep DEF NotFound, Ready, InTx, Answers
  <2>8. CASE AppendItem(r)
    BY <2>8, AppendItemStep
  <2>9. CASE RemoveItem(r)
    BY <2>9, RemoveItemStep
  <2>10. CASE Commit(r)
    BY <2>10, CommittedStep DEF Commit, Answers
  <2>11. CASE DeadlockVictim(r)
    BY <2>11, RollbackStep DEF DeadlockVictim, Deadlock, Answers
  <2>12. QED
    BY <1>2, <2>1, <2>2, <2>3, <2>4, <2>5, <2>6, <2>7, <2>8, <2>9, <2>10, <2>11 DEF Step
<1>3. ASSUME NEW r \in Requests, CommitLost(r) PROVE PrefsInv'
  BY <1>3, CommittedStep DEF CommitLost, Answers
<1>4. ASSUME NEW r \in Requests, StatementFails(r) PROVE PrefsInv'
  BY <1>4, RollbackStep DEF StatementFails, Answers
<1>5. CASE EnsureExists
  BY <1>5, EnsureExistsStep
<1>6. CASE UNCHANGED vars
  BY <1>6 DEF vars, locked, PrefsInv, TypeOK, LikedIsListed, NoRowYet, Draft, Local, Placed, Sees,
              Mine, Op, Item, View
<1>7. QED
  BY <1>1, <1>2, <1>3, <1>4, <1>5, <1>6 DEF Next

LEMMA Invariance == Spec => []PrefsInv
<1>1. QED
  BY InvInit, InvNext, PTL DEF Spec

-----------------------------------------------------------------------------
(* What no step does to the seeds.                                         *)

Onboarded ==
  /\ prefs.seeds # None => prefs'.seeds = prefs.seeds
  /\ \A r \in Requests :
       pc[r] # "200" /\ pc'[r] = "200" /\ Op(r) = "onboard" => prefs'.seeds = r

LEMMA CommitKeepsSeeds ==
  ASSUME PrefsInv, NEW r \in Requests, NEW answer, Committed(r), Goto(r, answer)
  PROVE  Onboarded
<1>1. pc[r] = "commit" /\ prefs' = View(r) /\ \A q \in Requests \ {r} : pc'[q] = pc[q]
  BY Before DEF Committed, Goto, RequestsOK
<1>2. prefs.seeds # None => View(r).seeds = prefs.seeds
  BY Constants DEF PrefsInv, Draft, View
<1>3. Op(r) = "onboard" => View(r).seeds = r
  BY <1>1, Before DEF Sees, View
<1>4. QED
  BY <1>1, <1>2, <1>3 DEF Onboarded

LEMMA OthersKeepSeeds ==
  ASSUME PrefsInv, NEW r \in Requests, UNCHANGED prefs, NEW label, Goto(r, label), label # "200"
  PROVE  Onboarded
BY Before DEF Onboarded, Goto, RequestsOK

LEMMA SeedsStep == PrefsInv /\ [Next]_vars => Onboarded
<1> SUFFICES ASSUME PrefsInv, [Next]_vars PROVE Onboarded
  OBVIOUS
<1>1. ASSUME NEW r \in Requests, Begin(r) PROVE Onboarded
  BY <1>1, OthersKeepSeeds DEF Begin
<1>2. ASSUME NEW r \in Requests, Step(r) PROVE Onboarded
  <2>1. CASE Ensure(r)
    BY <2>1, OthersKeepSeeds DEF Ensure, AfterEnsure
  <2>2. CASE Check(r) \/ Seed(r)
    BY <2>2, OthersKeepSeeds DEF Check, Seed
  <2>3. CASE AlreadyOnboarded(r) \/ NotFound(r) \/ DeadlockVictim(r)
    BY <2>3, OthersKeepSeeds DEF AlreadyOnboarded, NotFound, DeadlockVictim, Rollback
  <2>4. CASE InsertRow(r) \/ DeleteRow(r)
    BY <2>4, OthersKeepSeeds DEF InsertRow, DeleteRow
  <2>5. CASE AppendItem(r) \/ RemoveItem(r)
    <3>1. UNCHANGED prefs /\ (Goto(r, "commit") \/ Goto(r, "row"))
      BY <2>5 DEF AppendItem, RemoveItem, Advance
    <3>2. QED
      BY <3>1, OthersKeepSeeds
  <2>6. CASE Commit(r)
    BY <2>6, CommitKeepsSeeds DEF Commit
  <2>7. QED
    BY <1>2, <2>1, <2>2, <2>3, <2>4, <2>5, <2>6 DEF Step
<1>3. ASSUME NEW r \in Requests, CommitLost(r) PROVE Onboarded
  BY <1>3, CommitKeepsSeeds DEF CommitLost
<1>4. ASSUME NEW r \in Requests, StatementFails(r) PROVE Onboarded
  BY <1>4, OthersKeepSeeds DEF StatementFails, Rollback
<1>5. CASE EnsureExists
  BY <1>5 DEF EnsureExists, PrefsInv, NoRowYet, Onboarded
<1>6. CASE UNCHANGED vars
  BY <1>6 DEF vars, Onboarded
<1>7. QED
  BY <1>1, <1>2, <1>3, <1>4, <1>5, <1>6 DEF Next

-----------------------------------------------------------------------------
(* Circles of waiting transactions.                                        *)

\* The two kinds of waiting without an onboarding: for an item's row, whose owner is past
\* it, and for the row of preferences.
LEMMA Waiting ==
  ASSUME PrefsInv, NEW C \in SUBSET Requests, Deadlock(C), \A r \in C : Op(r) # "onboard",
         NEW r \in C
  PROVE  \/ /\ pc[r] = "row"
            /\ Blocker(r) \in C /\ Blocker(r) # r
            /\ pc[Blocker(r)] = "list" /\ View(Blocker(r)).exists
         \/ pc[r] \in {"ensure", "list"} /\ holder \in C /\ holder # r
<1>1. /\ pc[r] \in InTx /\ Blocker(r) \in C /\ Blocker(r) # None /\ r \in Requests
      /\ Blocker(r) \in Requests
  BY Constants DEF Deadlock
<1>2. pc[r] \in {"ensure", "row", "list"}
  BY <1>1, Before DEF Placed, InTx, Blocker
<1>3. CASE pc[r] \in {"ensure", "list"}
  BY <1>1, <1>3 DEF Blocker, Other
<1>4. CASE pc[r] = "row"
  <2> DEFINE g == Blocker(r)
  <2>1. g = locks[Item(r)] /\ g # r
    BY <1>1, <1>4 DEF Blocker, Other
  <2>2. Mine(g) # {}
    BY <1>1, <1>4, <2>1, Running DEF Mine
  <2>3. pc[g] \in InTx /\ Op(g) # "onboard" /\ Blocker(g) \in C /\ Blocker(g) # None
    BY <1>1, Constants DEF Deadlock
  <2>4. pc[g] \in {"list", "commit"}
    BY <1>1, <2>2, <2>3, Before DEF Sees
  <2>5. pc[g] # "commit"
    BY <2>3 DEF Blocker
  <2>6. View(g).exists
    BY <1>1, <2>4, Before DEF Sees
  <2>7. QED
    BY <1>1, <1>4, <2>1, <2>4, <2>5, <2>6
<1>5. QED
  BY <1>2, <1>3, <1>4

LEMMA CirclesNeedOnboarding == PrefsInv => DeadlockNeedsOnboarding
<1> SUFFICES ASSUME PrefsInv,
                    NEW C \in SUBSET Requests, Deadlock(C), \A r \in C : Op(r) # "onboard"
             PROVE  FALSE
  BY DEF DeadlockNeedsOnboarding
<1>1. PICK r \in C : TRUE
  BY DEF Deadlock
<1>2. holder \in C
  <2>1. CASE pc[r] = "row"
    <3>1. Blocker(r) \in C /\ pc[Blocker(r)] = "list"
      BY <1>1, <2>1, Waiting
    <3>2. QED
      BY <3>1, Waiting
  <2>2. CASE pc[r] # "row"
    BY <1>1, <2>2, Waiting
  <2>3. QED
    BY <2>1, <2>2
<1>3. pc[holder] = "row" /\ Blocker(holder) # holder /\ Blocker(holder) \in C /\ View(Blocker(holder)).exists
  BY <1>2, Waiting
<1>4. prefs.exists
  BY <1>3 DEF View
<1>5. pc[holder] = "commit"
  BY <1>2, <1>4, HolderAtCommit
<1>6. QED
  BY <1>3, <1>5

-----------------------------------------------------------------------------
(* Theorems.                                                               *)

\* The variables keep their types; a request that is not in its transaction has nothing
\* locked.
THEOREM TypeCorrect == Spec => []TypeOK
<1>1. PrefsInv => TypeOK
  BY DEF PrefsInv
<1>2. QED
  BY <1>1, Invariance, PTL

\* ensurePreferencesRow does what it is for (repository.go:105-111): in whatever order
\* requests run and fail, an item that has a row is listed in the array.
THEOREM LikesAreListed == Spec => []LikedIsListed
<1>1. PrefsInv => LikedIsListed
  BY DEF PrefsInv
<1>2. QED
  BY <1>1, Invariance, PTL

\* Onboardings serialise (repository.go:390-393): the seeds of the one that got through are
\* never replaced, and no other is told that it succeeded.
THEOREM OnboardingHolds == Spec => OnboardedOnce
<1>1. PrefsInv /\ [Next]_vars =>
        [/\ prefs.seeds # None => prefs'.seeds = prefs.seeds
         /\ \A r \in Requests :
              pc[r] # "200" /\ pc'[r] = "200" /\ Op(r) = "onboard" => prefs'.seeds = r]_vars
  BY SeedsStep DEF Onboarded
<1>2. QED
  BY <1>1, Invariance, PTL DEF Spec, OnboardedOnce

\* Likes, follows and their opposites, which lock an item's row before that of the
\* preferences, never wait for each other in a circle (repository.go:122-201, 284-427).
THEOREM CirclesAreOnboardings == Spec => []DeadlockNeedsOnboarding
<1>1. QED
  BY CirclesNeedOnboarding, Invariance, PTL
-----------------------------------------------------------------------------
(* Where the stores get out of sync.                                       *)

Names(r, x) == \E i \in DOMAIN req[r].items : req[r].items[i] = x

\* StoresInSync is violated.  What the code does keep: an entry loses its row, or is added
\* without one, in one way only, at the COMMIT of a like, a follow or an onboarding whose
\* INSERT has skipped a row that was there, as it locks nothing (repository.go:138-161).
StaleNeedsSkip ==
  [][\A x \in Items : x \in prefs'.listed \ likes' /\ x \notin prefs.listed \ likes =>
       \E r \in Requests : pc[r] = "commit" /\ Op(r) # "remove" /\ Names(r, x) /\ locks[x] # r]_vars

\* The holder of the row of preferences has added what its request names.
DraftNames ==
  holder # None =>
    \A x \in Items : x \in draft.listed \ prefs.listed => Op(holder) # "remove" /\ Names(holder, x)

\* An unlike has deleted the row of its item only, and then the entry.
Removes(r) ==
  pc[r] \in {"list", "commit"} /\ Op(r) = "remove" =>
    /\ Mine(r) \subseteq {Item(r)}
    /\ pc[r] = "commit" => holder = r /\ Item(r) \notin draft.listed

WritesInv == DraftNames /\ \A r \in Requests : Removes(r)

\* What a transaction that ends, and a statement that runs, leave to the others.
LEMMA OthersKeep ==
  ASSUME PrefsInv, NEW r \in Requests,
         Begin(r) \/ Step(r) \/ CommitLost(r) \/ StatementFails(r),
         NEW q \in Requests \ {r}
  PROVE  /\ pc'[q] = pc[q] /\ at'[q] = at[q] /\ req'[q] = req[q]
         /\ Mine(q)' = Mine(q)
         /\ holder' = q <=> holder = q
         /\ holder = q => draft' = draft /\ prefs' = prefs
<1>1. RowsOK /\ RequestsOK /\ r # None /\ q # None /\ q # r
  BY Before, Constants
<1>2. SUFFICES ASSUME NEW label, Goto(r, label),
                      req'[q] = req[q], at'[q] = at[q],
                      \A x \in Items : locks'[x] = q <=> locks[x] = q,
                      holder' = q <=> holder = q,
                      holder = q => draft' = draft /\ prefs' = prefs
               PROVE  /\ pc'[q] = pc[q] /\ at'[q] = at[q] /\ req'[q] = req[q]
                      /\ Mine(q)' = Mine(q)
                      /\ holder' = q <=> holder = q
                      /\ holder = q => draft' = draft /\ prefs' = prefs
  <2> DEFINE Kept == /\ \E label : Goto(r, label)
                     /\ req'[q] = req[q] /\ at'[q] = at[q]
                     /\ \A x \in Items : locks'[x] = q <=> locks[x] = q
                     /\ holder' = q <=> holder = q
                     /\ holder = q => draft' = draft /\ prefs' = prefs
  <2>1. SUFFICES Kept
    BY <1>2
  <2>2. CASE Begin(r)
    BY <1>1, <2>2 DEF Begin, locked, RequestsOK
  <2>3. CASE Ensure(r) \/ Check(r) \/ Seed(r)
    <3>1. UNCHANGED <<prefs, req, at, locks>> /\ \E label : Goto(r, label)
      BY <2>3 DEF Ensure, AfterEnsure, Check, Seed, WriteRow, locked
    <3>2. UNCHANGED <<holder, draft>> \/ (holder' = r /\ holder \in {None, r})
      BY <2>3, Free DEF Ensure, Check, Seed, Ready, WriteRow, locked
    <3>3. QED
      BY <1>1, <3>1, <3>2
  <2>4. CASE InsertRow(r) \/ DeleteRow(r)
    <3>1. /\ UNCHANGED <<prefs, req, at, holder, draft>> /\ Goto(r, "list")
          /\ pc[r] = "row" /\ pc[r] \in InTx
      BY <2>4 DEF InsertRow, DeleteRow, Ready, InTx
    <3>2. Item(r) \in Items /\ locks[Item(r)] \in {None, r}
      BY <2>4, <3>1, Running, Free DEF InsertRow, DeleteRow, Ready
    <3>3. locks' = locks \/ locks' = [locks EXCEPT ![Item(r)] = r]
      BY <2>4 DEF InsertRow, DeleteRow
    <3>4. \A x \in Items : locks'[x] = q <=> locks[x] = q
      BY <1>1, <3>2, <3>3 DEF RowsOK
    <3>5. QED
      BY <3>1, <3>4
  <2>5. CASE AppendItem(r) \/ RemoveItem(r)
    <3>1. UNCHANGED <<prefs, req, locks>> /\ pc[r] = "list" /\ Advance(r)
      BY <2>5 DEF AppendItem, RemoveItem, Ready, WriteRow, locked
    <3>2. at'[q] = at[q] /\ \E label : Goto(r, label)
      BY <1>1, <3>1 DEF Advance, RequestsOK
    <3>3. UNCHANGED <<holder, draft>> \/ (holder' = r /\ holder \in {None, r})
      BY <2>5, Free DEF AppendItem, RemoveItem, Ready, WriteRow, locked
    <3>4. QED
      BY <1>1, <3>1, <3>2, <3>3
  <2>6. ASSUME Release(r), UNCHANGED <<req, at>>, \E label : Goto(r, label), holder # r => prefs' = prefs
        PROVE  Kept
    BY <1>1, <2>6 DEF Release, Other, RowsOK
  <2>7. CASE AlreadyOnboarded(r) \/ NotFound(r) \/ DeadlockVictim(r) \/ StatementFails(r)
    BY <2>6, <2>7 DEF AlreadyOnboarded, NotFound, DeadlockVictim, StatementFails, Rollback
  <2>8. CASE Commit(r) \/ CommitLost(r)
    BY <2>6, <2>8 DEF Commit, CommitLost, Committed, View
  <2>9. QED
    BY <2>2, <2>3, <2>4, <2>5, <2>7, <2>8 DEF Step
<1>3. QED
  BY <1>1, <1>2 DEF Goto, RequestsOK, Mine

\* What the stepping request must see to for itself: as the holder, that what it added is
\* what it names; as an unlike, what it has deleted.
LEMMA WritesStep ==
  ASSUME PrefsInv, WritesInv, NEW r \in Requests,
         Begin(r) \/ Step(r) \/ CommitLost(r) \/ StatementFails(r),
         holder' = r => \A x \in Items : x \in draft'.listed \ prefs'.listed =>
                          Op(r)' # "remove" /\ Names(r, x)',
         Removes(r)'
  PROVE  WritesInv'
<1>1. ASSUME NEW q \in Requests \ {r} PROVE Removes(q)'
  BY <1>1, OthersKeep DEF WritesInv, Removes, Op, Item
<1>2. DraftNames'
  <2>1. holder' \in Requests \cup {None}
    <3>1. PrefsInv'
      BY InvNext DEF Next
    <3>2. QED
      BY <3>1 DEF PrefsInv, TypeOK
  <2>2. SUFFICES ASSUME holder' # None, holder' # r PROVE DraftNames'
    BY DEF DraftNames, Op, Names
  <2>3. holder' \in Requests \ {r} /\ holder' = holder /\ draft' = draft /\ prefs' = prefs
        /\ req'[holder] = req[holder]
    BY <2>1, <2>2, OthersKeep
  <2>4. QED
    BY <2>2, <2>3 DEF WritesInv, DraftNames, Op, Names
<1>3. QED
  BY <1>1, <1>2 DEF WritesInv

LEMMA WritesNext == PrefsInv /\ WritesInv /\ [Next]_vars => WritesInv'
<1> SUFFICES ASSUME PrefsInv, WritesInv, [Next]_vars PROVE WritesInv'
  OBVIOUS
<1>1. ASSUME NEW r \in Requests, Begin(r) PROVE WritesInv'
  <2>1. holder' # r /\ pc'[r] \notin {"list", "commit"}
    BY <1>1, Before DEF Begin, locked, Unlocked, InTx, Goto, RequestsOK
  <2>2. QED
    BY <1>1, <2>1, WritesStep DEF Removes
<1>2. ASSUME NEW r \in Requests, Ensure(r) \/ Check(r) \/ Seed(r) PROVE WritesInv'
  <2>1. /\ pc[r] \in {"ensure", "check", "seed"} /\ pc[r] \in InTx /\ UNCHANGED <<prefs, req>>
        /\ UNCHANGED <<holder, draft>> \/ (holder' = r /\ draft'.listed \subseteq View(r).listed)
    BY <1>2, Before DEF Ensure, Check, Seed, Ready, InTx, WriteRow, locked, NoRow, PrefsRow
  <2>2. pc'[r] \in {"list", "commit"} => Op(r) = "onboard"
    BY <1>2, Before DEF Ensure, AfterEnsure, Check, Seed, Ready, Goto, RequestsOK, Placed
  <2>3. Op(r)' = Op(r) /\ \A x : Names(r, x)' <=> Names(r, x)
    BY <2>1 DEF Op, Names
  <2>4. holder' = r => \A x \in Items : x \in draft'.listed \ prefs'.listed =>
                         Op(r)' # "remove" /\ Names(r, x)'
    BY <2>1, <2>3, Constants DEF WritesInv, DraftNames, View
  <2>5. Removes(r)'
    BY <2>2, <2>3 DEF Removes
  <2>6. QED
    BY <1>2, <2>4, <2>5, WritesStep DEF Step
<1>3. ASSUME NEW r \in Requests, InsertRow(r) \/ DeleteRow(r) PROVE WritesInv'
  <2>1. /\ pc[r] = "row" /\ pc[r] \in InTx /\ UNCHANGED <<prefs, req, at, holder, draft>>
        /\ pc'[r] = "list"
    BY <1>3, Before DEF InsertRow, DeleteRow, Ready, InTx, Goto, RequestsOK
  <2>2. Op(r)' = Op(r) /\ Item(r)' = Item(r) /\ \A x : Names(r, x)' <=> Names(r, x)
    BY <2>1 DEF Op, Item, Names
  <2>3. holder' = r => \A x \in Items : x \in draft'.listed \ prefs'.listed =>
                         Op(r)' # "remove" /\ Names(r, x)'
    BY <2>1, <2>2, Constants DEF WritesInv, DraftNames
  <2>4. Removes(r)'
    <3>1. SUFFICES ASSUME Op(r) = "remove" PROVE Mine(r)' \subseteq {Item(r)}
      BY <2>1, <2>2 DEF Removes
    <3>2. Mine(r) = {} /\ locks' = [locks EXCEPT ![Item(r)] = r]
      BY <1>3, <2>1, <3>1, Before DEF Sees, InsertRow, DeleteRow
    <3>3. QED
      BY <3>2, Before DEF Mine, RowsOK
  <2>5. QED
    BY <1>3, <2>3, <2>4, WritesStep DEF Step
<1>4. ASSUME NEW r \in Requests, AppendItem(r) PROVE WritesInv'
  <2>1. /\ pc[r] = "list" /\ pc[r] \in InTx /\ UNCHANGED <<prefs, req>> /\ Op(r) # "remove"
        /\ \/ UNCHANGED <<holder, draft>>
           \/ holder' = r /\ draft'.listed = View(r).listed \cup {Item(r)}
    BY <1>4, Before DEF AppendItem, Ready, InTx, WriteRow, locked, PrefsRow
  <2>2. Op(r)' = Op(r) /\ (\A x : Names(r, x)' <=> Names(r, x)) /\ Names(r, Item(r))
    <3>1. at[r] \in 1..Len(req[r].items) /\ DOMAIN req[r].items = 1..Len(req[r].items)
      BY <2>1, Running, AskedType, Before DEF Placed
    <3>2. QED
      BY <2>1, <3>1 DEF Op, Names, Item
  <2>3. holder' = r => \A x \in Items : x \in draft'.listed \ prefs'.listed =>
                         Op(r)' # "remove" /\ Names(r, x)'
    BY <2>1, <2>2, Constants DEF WritesInv, DraftNames, View
  <2>4. Removes(r)'
    BY <2>1, <2>2 DEF Removes
  <2>5. QED
    BY <1>4, <2>3, <2>4, WritesStep DEF Step
<1>5. ASSUME NEW r \in Requests, RemoveItem(r) PROVE WritesInv'
  <2>1. /\ pc[r] = "list" /\ pc[r] \in InTx /\ UNCHANGED <<prefs, req, locks>> /\ Op(r) = "remove"
        /\ holder' = r /\ draft'.listed = View(r).listed \ {Item(r)} /\ Advance(r)
    BY <1>5, Before DEF RemoveItem, Ready, InTx, WriteRow, PrefsRow
  <2>2. at[r] = Len(req[r].items)
    <3>1. Len(req[r].items) = 1 /\ at[r] \in 1..(Len(req[r].items) + 1)
      BY <2>1, Running
    <3>2. at[r] <= Len(req[r].items)
      BY <2>1, Before DEF Placed
    <3>3. QED
      BY <3>1, <3>2
  <2>3. Op(r)' = Op(r) /\ Item(r)' = Item(r) /\ Mine(r)' = Mine(r) /\ \A x : Names(r, x)' <=> Names(r, x)
    BY <2>1, <2>2 DEF Op, Item, Mine, Names, Advance
  <2>4. \A x \in Items : x \in draft'.listed \ prefs'.listed => Op(r)' # "remove" /\ Names(r, x)'
    BY <2>1, <2>3, Constants DEF WritesInv, DraftNames, View
  <2>5. Removes(r)'
    BY <2>1, <2>3 DEF WritesInv, Removes
  <2>6. QED
    BY <1>5, <2>4, <2>5, WritesStep DEF Step
<1>6. ASSUME NEW r \in Requests,
             \/ AlreadyOnboarded(r) \/ NotFound(r) \/ DeadlockVictim(r) \/ StatementFails(r)
             \/ Commit(r) \/ CommitLost(r)
      PROVE  WritesInv'
  <2>1. Release(r) /\ \E answer \in Answers : Goto(r, answer)
    BY <1>6 DEF AlreadyOnboarded, NotFound, DeadlockVictim, StatementFails, Rollback, Commit, CommitLost,
       Committed, Answers
  <2>2. holder' # r
    BY <2>1, Before DEF Release, Other
  <2>3. Removes(r)'
    BY <2>1, Before DEF Goto, RequestsOK, Answers, Removes
  <2>4. QED
    BY <1>6, <2>2, <2>3, WritesStep DEF Step
<1>7. CASE EnsureExists
  <2>1. holder' = None /\ UNCHANGED <<locks, holder, draft, req, at, pc>>
    BY <1>7 DEF EnsureExists, locked
  <2>2. QED
    BY <2>1 DEF WritesInv, DraftNames, Removes, Op, Item, Mine
<1>8. CASE UNCHANGED vars
  BY <1>8 DEF vars, locked, WritesInv, DraftNames, Removes, Op, Item, Mine, Names
<1>9. QED
  BY <1>1, <1>2, <1>3, <1>4, <1>5, <1>6, <1>7, <1>8 DEF Next, Step

\* The stores part only at a COMMIT, and at which.
LEMMA StaleStep ==
  ASSUME PrefsInv, WritesInv, [Next]_vars,
         NEW x \in Items, x \in prefs'.listed \ likes', x \notin prefs.listed \ likes
  PROVE  \E r \in Requests : pc[r] = "commit" /\ Op(r) # "remove" /\ Names(r, x) /\ locks[x] # r
<1>1. ~(UNCHANGED <<likes, prefs>>)
  OBVIOUS
<1>2. ~EnsureExists
  BY DEF EnsureExists, NoRow
<1>3. PICK r \in Requests : Committed(r)
  BY <1>1, <1>2 DEF Next, Step, Begin, Ensure, Check, AlreadyOnboarded, Seed, InsertRow, DeleteRow,
     NotFound, AppendItem, RemoveItem, Commit, CommitLost, StatementFails, DeadlockVictim, Rollback, vars
<1>4. /\ pc[r] = "commit" /\ prefs' = View(r) /\ x \in View(r).listed
      /\ likes' = IF Op(r) = "remove" THEN likes \ Mine(r) ELSE likes \cup Mine(r)
  BY <1>3 DEF Committed
<1>5. CASE Op(r) = "remove"
  <2>1. holder = r /\ Mine(r) \subseteq {Item(r)} /\ Item(r) \notin draft.listed
    BY <1>4, <1>5 DEF WritesInv, Removes
  <2>2. x \in draft.listed /\ x \notin Mine(r)
    BY <1>4, <2>1 DEF View
  <2>3. x \in prefs.listed
    BY <1>5, <2>1, <2>2, Constants DEF WritesInv, DraftNames
  <2>4. QED
    BY <1>4, <1>5, <2>2, <2>3
<1>6. CASE Op(r) # "remove"
  <2>1. x \notin likes /\ x \notin Mine(r) /\ x \notin prefs.listed
    BY <1>4, <1>6
  <2>2. holder = r /\ x \in draft.listed
    BY <1>4, <2>1 DEF View
  <2>3. Names(r, x)
    BY <2>1, <2>2, Constants DEF WritesInv, DraftNames
  <2>4. QED
    BY <1>4, <1>6, <2>1, <2>3 DEF Mine
<1>7. QED
  BY <1>5, <1>6

\* An entry without a row comes from the COMMIT of a like, a follow or an onboarding that names
\* the item and has inserted no row: it has skipped one that is gone by then.  Nothing else does it.
THEOREM OutOfSyncNeedsSkip == Spec => StaleNeedsSkip
<1>1. Init => WritesInv
  BY DEF Init, WritesInv, DraftNames, Removes
<1>2. PrefsInv /\ WritesInv /\ [Next]_vars =>
        [\A x \in Items : x \in prefs'.listed \ likes' /\ x \notin prefs.listed \ likes =>
           \E r \in Requests : pc[r] = "commit" /\ Op(r) # "remove" /\ Names(r, x) /\ locks[x] # r]_vars
  BY StaleStep
<1>3. QED
  BY <1>1, <1>2, WritesNext, Invariance, PTL DEF Spec, StaleNeedsSkip
=============================================================================
