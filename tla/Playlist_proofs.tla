--------------------------- MODULE Playlist_proofs ---------------------------
(***************************************************************************)
(* Theorems about Playlist, for any songs, requests, beginnings and        *)
(* faults, and their proofs.                                               *)
(***************************************************************************)
EXTENDS Playlist, TLAPS

LEMMA Constants ==
  /\ None \notin Nat /\ None \notin Songs /\ None \notin Asked
  /\ MaxFaults \in Nat /\ MaxStart \in Nat /\ Requests \in Nat
BY PlaylistAssumption

-----------------------------------------------------------------------------
(* The inductive invariant.                                                *)

\* FOR UPDATE: one AddSong at a time.
OneLocks == \A q, r \in Request : pc[q] \in Locking /\ pc[r] \in Locking => q = r

\* An AddSong in its transaction has a playlist, a song that is not in it unless nothing is
\* to be inserted, and, once it has drawn one, a position behind every other.
Adding(r) ==
  /\ pc[r] \in Locking => playlist = "live"
  /\ pc[r] \in {"max", "insert"} \/ (pc[r] = "commit" /\ next[r] # None) =>
       position[req[r].song] = None
  /\ pc[r] \in {"insert", "commit"} /\ next[r] # None =>
       \A s \in Row : position[s] < next[r]

\* What a request has and where it is.
Placed(r) ==
  /\ pc[r] \in {"add", "remove"} \cup Locking => req[r].song \in Songs
  /\ next[r] # None => pc[r] \in {"insert", "commit", "emit"}
  /\ pc[r] = "insert" => next[r] # None
  /\ pc[r] # "500"

PlaylistInv == TypeOK /\ OneLocks /\ \A r \in Request : Placed(r) /\ Adding(r)

\* What a step may do to the songs: take some away, or append one.
Shrinks == \A s \in Songs : position'[s] \in {position[s], None}

Appends ==
  \E s \in Songs, n \in Nat :
    /\ position' = [position EXCEPT ![s] = n]
    /\ position[s] = None
    /\ \A t \in Row : position[t] < n

\* A step of r leaves the other requests where they are, and an AddSong its playlist.
Alone(r) ==
  \A q \in Request \ {r} :
    /\ pc'[q] = pc[q] /\ req'[q] = req[q] /\ next'[q] = next[q]
    /\ pc[q] \in Locking => playlist' = playlist /\ Shrinks

Good(r) ==
  /\ TypeOK'
  /\ Shrinks \/ Appends
  /\ Alone(r)
  /\ pc'[r] \in Locking => pc[r] \in Locking \/ ~Locked(r)
  /\ Placed(r)' /\ Adding(r)'

-----------------------------------------------------------------------------
(* The other requests.                                                     *)

LEMMA Others ==
  ASSUME PlaylistInv, NEW r \in Request, Good(r)
  PROVE  PlaylistInv'
<1>1. \A q \in Request \ {r} : pc'[q] = pc[q] /\ req'[q] = req[q] /\ next'[q] = next[q]
  BY DEF Good, Alone
<1>2. OneLocks'
  BY <1>1 DEF PlaylistInv, OneLocks, Good, Locked
<1>3. ASSUME NEW q \in Request \ {r} PROVE Placed(q)' /\ Adding(q)'
  <2>1. Placed(q)'
    BY <1>1 DEF PlaylistInv, Placed
  <2>2. CASE pc[q] \in Locking
    <3>1. playlist' = playlist /\ Shrinks
      BY <2>2 DEF Good, Alone
    <3>2. req[q].song \in Songs
      BY <2>2 DEF PlaylistInv, Placed
    <3>3. \A s \in Row' : s \in Row /\ position'[s] = position[s]
      BY <3>1 DEF Shrinks, Row
    <3>4. position[req[q].song] = None => position'[req[q].song] = None
      BY <3>1, <3>2 DEF Shrinks
    <3>5. Adding(q) /\ pc'[q] = pc[q] /\ req'[q] = req[q] /\ next'[q] = next[q]
      BY <1>1 DEF PlaylistInv
    <3>6. QED
      BY <2>1, <3>1, <3>3, <3>4, <3>5 DEF Adding
  <2>3. CASE pc[q] \notin Locking
    <3>1. pc'[q] \notin Locking
      BY <1>1, <2>3
    <3>2. QED
      BY <2>1, <3>1 DEF Adding, Locking
  <2>4. QED
    BY <2>2, <2>3
<1>4. QED
  BY <1>2, <1>3 DEF PlaylistInv, Good

-----------------------------------------------------------------------------
(* Going on, and answering.                                                *)

\* The tables and the counts after a step.
StoreOK ==
  /\ playlist \in {"none", "live", "deleted"}
  /\ position \in [Songs -> Nat \cup {None}]
  /\ events \subseteq Request
  /\ faults \in 0..MaxFaults
  /\ playlist = "live" \/ Row = {}

LEMMA Goes ==
  ASSUME TypeOK, NEW r \in Request, pc[r] \in Running, NEW label \in Running, Goto(r, label),
         StoreOK'
  PROVE  /\ TypeOK'
         /\ pc'[r] = label /\ req'[r] = req[r] /\ next'[r] = next[r]
         /\ \A q \in Request \ {r} : pc'[q] = pc[q] /\ req'[q] = req[q] /\ next'[q] = next[q]
BY DEF TypeOK, StoreOK, Goto

LEMMA Answered ==
  ASSUME TypeOK, NEW r \in Request, NEW code \in Answers, Answer(r, code), StoreOK'
  PROVE  /\ TypeOK'
         /\ pc'[r] = code /\ req'[r] = None /\ next'[r] = None
         /\ \A q \in Request \ {r} : pc'[q] = pc[q] /\ req'[q] = req[q] /\ next'[q] = next[q]
BY DEF TypeOK, StoreOK, Answer, Answers, Running, Locking

\* A request that is answered, whatever its step has done to the songs.
LEMMA AnswerStep ==
  ASSUME PlaylistInv, NEW r \in Request, NEW code \in Answers \ {"500"}, Answer(r, code), StoreOK',
         Shrinks \/ Appends,
         \A q \in Request \ {r} : pc[q] \in Locking => playlist' = playlist /\ Shrinks
  PROVE  Good(r)
<1>1. /\ TypeOK' /\ pc'[r] = code /\ req'[r] = None /\ next'[r] = None
      /\ \A q \in Request \ {r} : pc'[q] = pc[q] /\ req'[q] = req[q] /\ next'[q] = next[q]
  BY Answered DEF PlaylistInv
<1>2. Placed(r)' /\ Adding(r)' /\ pc'[r] \notin Locking
  BY <1>1 DEF Placed, Adding, Answers, Locking
<1>3. QED
  BY <1>1, <1>2 DEF Good, Alone

\* One that goes on outside the transaction of AddSong.
LEMMA GotoStep ==
  ASSUME PlaylistInv, NEW r \in Request, pc[r] \in Running, NEW label \in {"songs", "emit"},
         Goto(r, label), StoreOK', Shrinks \/ Appends,
         label = "songs" => next[r] = None,
         \A q \in Request \ {r} : pc[q] \in Locking => playlist' = playlist /\ Shrinks
  PROVE  Good(r)
<1>1. /\ TypeOK' /\ pc'[r] = label /\ req'[r] = req[r] /\ next'[r] = next[r]
      /\ \A q \in Request \ {r} : pc'[q] = pc[q] /\ req'[q] = req[q] /\ next'[q] = next[q]
  BY Goes DEF PlaylistInv, Running
<1>2. Placed(r)' /\ Adding(r)' /\ pc'[r] \notin Locking
  BY <1>1 DEF Placed, Adding, Locking
<1>3. QED
  BY <1>1, <1>2 DEF Good, Alone

\* One that goes on within it.
LEMMA LockStep ==
  ASSUME PlaylistInv, NEW r \in Request, pc[r] \in {"add", "already", "insert"},
         NEW label \in {"already", "max", "commit"}, Goto(r, label),
         UNCHANGED <<playlist, position, events, faults>>,
         pc[r] = "add" => ~Locked(r), playlist = "live",
         label = "max" => position[req[r].song] = None,
         pc[r] = "insert" => label = "commit"
  PROVE  Good(r)
<1>1. StoreOK' /\ Shrinks
  BY DEF PlaylistInv, TypeOK, StoreOK, Row, Shrinks
<1>2. /\ TypeOK' /\ pc'[r] = label /\ req'[r] = req[r] /\ next'[r] = next[r]
      /\ \A q \in Request \ {r} : pc'[q] = pc[q] /\ req'[q] = req[q] /\ next'[q] = next[q]
  BY <1>1, Goes DEF PlaylistInv, Running, Locking
<1>3. Placed(r) /\ Adding(r)
  BY DEF PlaylistInv
<1>4. Placed(r)' /\ Adding(r)'
  <2>1. Placed(r)'
    BY <1>2, <1>3 DEF Placed, Locking
  <2>2. Row' = Row /\ position' = position /\ playlist' = playlist
    BY DEF Row
  <2>3. next[r] # None =>
          pc[r] = "insert" /\ position[req[r].song] = None /\ \A s \in Row : position[s] < next[r]
    BY <1>3 DEF Placed, Adding
  <2>4. label = "max" => position[req[r].song] = None
    OBVIOUS
  <2>5. Adding(r)'
    BY <1>2, <2>2, <2>3, <2>4 DEF Adding
  <2>6. QED
    BY <2>1, <2>5
<1>5. QED
  BY <1>1, <1>2, <1>4 DEF Good, Alone, Locking
-----------------------------------------------------------------------------
(* The steps of a request.                                                 *)

\* Types, as every step below finds them.
LEMMA Before ==
  ASSUME PlaylistInv, NEW r \in Request
  PROVE  /\ StoreOK /\ Placed(r) /\ Adding(r)
         /\ pc[r] \in Running => req[r] \in Asked
         /\ Fault => faults' \in 0..MaxFaults
         /\ pc[r] \in Locking => \A q \in Request \ {r} : pc[q] \notin Locking
BY Constants DEF PlaylistInv, OneLocks, TypeOK, StoreOK, Fault

\* Where the songs and the playlist stay, nothing is disturbed.
LEMMA Same ==
  ASSUME StoreOK, UNCHANGED <<playlist, position>>, events' \subseteq Request, faults' \in 0..MaxFaults
  PROVE  StoreOK' /\ Shrinks
BY DEF StoreOK, Shrinks, Row

\* What its operation says of the song of a request.
LEMMA SongOf ==
  ASSUME NEW q \in Asked
  PROVE  q.op \in {"add", "remove"} => q.song \in Songs
BY DEF Asked

LEMMA ReceiveStep ==
  ASSUME PlaylistInv, NEW r \in Request, Receive(r)
  PROVE  Good(r)
<1>1. PICK q \in Asked : req' = [req EXCEPT ![r] = q] /\ pc' = [pc EXCEPT ![r] = q.op]
  BY DEF Receive
<1>2. q.op \in {"create", "patch", "delete", "get", "add", "remove"} /\ q # None
  BY Constants DEF Asked
<1>3. pc[r] = "new" /\ UNCHANGED <<playlist, position, next, events, faults>>
  BY DEF Receive
<1>4. /\ pc'[r] = q.op /\ req'[r] = q
      /\ \A x \in Request \ {r} : pc'[x] = pc[x] /\ req'[x] = req[x] /\ next'[x] = next[x]
  BY <1>1, <1>3 DEF PlaylistInv, TypeOK
<1>5. TypeOK'
  <2>1. req' \in [Request -> Asked \cup {None}] /\ pc' \in [Request -> {"new"} \cup Running \cup Answers]
    BY <1>1, <1>2 DEF PlaylistInv, TypeOK, Running
  <2>2. \A x \in Request : (pc'[x] \in Running) = (req'[x] # None)
    BY <1>2, <1>4 DEF PlaylistInv, TypeOK, Running
  <2>3. QED
    BY <1>3, <2>1, <2>2 DEF PlaylistInv, TypeOK, Row
<1>6. Shrinks
  BY <1>3 DEF Shrinks
<1>7. Placed(r)' /\ Adding(r)' /\ pc'[r] \notin Locking
  BY <1>2, <1>3, <1>4, SongOf, Before DEF Placed, Adding, Locking
<1>8. QED
  BY <1>3, <1>4, <1>5, <1>6, <1>7 DEF Good, Alone

\* The statements outside AddSong.
LEMMA StatementStep ==
  ASSUME PlaylistInv, NEW r \in Request,
         \/ Create(r) \/ Patch(r) \/ Delete(r) \/ RemoveSong(r) \/ GetByID(r) \/ ListSongs(r)
  PROVE  Good(r)
<1>1. StoreOK /\ Placed(r) /\ faults \in 0..MaxFaults
  BY Before DEF StoreOK
<1>2. ASSUME NEW code \in {"200", "404"}, Answer(r, code),
             UNCHANGED <<playlist, position, events, faults>>
      PROVE  Good(r)
  <2>1. StoreOK' /\ Shrinks
    BY <1>1, <1>2, Same DEF StoreOK
  <2>2. QED
    BY <1>2, <2>1, AnswerStep DEF Answers
<1>3. pc[r] \in {"create", "patch", "delete", "remove", "get"} => pc[r] \in Running /\ next[r] = None
  BY <1>1 DEF Placed, Running
<1>4. CASE Create(r)
  <2>1. playlist' = "live" /\ UNCHANGED <<position, events, faults>> /\ Goto(r, "emit") /\ pc[r] = "create"
    BY <1>4 DEF Create
  <2>2. StoreOK' /\ Shrinks
    BY <1>1, <2>1 DEF StoreOK, Shrinks
  <2>3. \A q \in Request \ {r} : pc[q] \in Locking => playlist' = playlist
    BY <2>1 DEF PlaylistInv, Adding
  <2>4. QED
    BY <1>3, <2>1, <2>2, <2>3, GotoStep
<1>5. CASE Patch(r)
  <2>1. ASSUME pc[r] = "patch", Goto(r, "emit"), UNCHANGED <<playlist, position, events, faults>>
        PROVE  Good(r)
    <3>1. StoreOK' /\ Shrinks
      BY <1>1, <2>1, Same DEF StoreOK
    <3>2. QED
      BY <1>3, <2>1, <3>1, GotoStep
  <2>2. QED
    BY <1>2, <1>5, <2>1 DEF Patch
<1>6. CASE Delete(r)
  <2>1. ASSUME pc[r] = "delete", ~Locked(r), playlist' = "deleted",
               position' = [s \in Songs |-> None], Goto(r, "emit"), UNCHANGED <<events, faults>>
        PROVE  Good(r)
    <3>1. StoreOK' /\ Shrinks
      BY <1>1, <2>1 DEF StoreOK, Shrinks, Row
    <3>2. \A q \in Request \ {r} : pc[q] \notin Locking
      BY <2>1 DEF Locked
    <3>3. QED
      BY <1>3, <2>1, <3>1, <3>2, GotoStep
  <2>2. QED
    BY <1>2, <1>6, <2>1 DEF Delete
<1>7. CASE RemoveSong(r)
  <2>1. ASSUME pc[r] = "remove", position' = [position EXCEPT ![req[r].song] = None], Goto(r, "emit"),
               UNCHANGED <<playlist, events, faults>>
        PROVE  Good(r)
    <3>1. position' \in [Songs -> Nat \cup {None}] /\ Shrinks
      BY <1>1, <2>1 DEF StoreOK, Shrinks
    <3>2. StoreOK'
      BY <1>1, <2>1, <3>1 DEF StoreOK, Shrinks, Row
    <3>3. QED
      BY <1>3, <2>1, <3>1, <3>2, GotoStep
  <2>2. QED
    BY <1>2, <1>7, <2>1 DEF RemoveSong
<1>8. CASE GetByID(r)
  <2>1. ASSUME pc[r] = "get", Goto(r, "songs"), UNCHANGED <<playlist, position, events, faults>>
        PROVE  Good(r)
    <3>1. StoreOK' /\ Shrinks
      BY <1>1, <2>1, Same DEF StoreOK
    <3>2. QED
      BY <1>3, <2>1, <3>1, GotoStep
  <2>2. QED
    BY <1>2, <1>8, <2>1 DEF GetByID
<1>9. CASE ListSongs(r)
  BY <1>2, <1>9 DEF ListSongs
<1>10. QED
  BY <1>4, <1>5, <1>6, <1>7, <1>8, <1>9

\* The statements of AddSong up to its INSERT.
LEMMA AddStep ==
  ASSUME PlaylistInv, NEW r \in Request, LockPlaylist(r) \/ Already(r) \/ Max(r) \/ Insert(r)
  PROVE  Good(r)
<1>1. StoreOK /\ Placed(r) /\ Adding(r) /\ TypeOK
  BY Before DEF PlaylistInv
<1>2. CASE LockPlaylist(r)
  <2>1. CASE ~Found(r)
    <3>1. StoreOK' /\ Shrinks
      BY <1>1, <1>2, Same DEF StoreOK, LockPlaylist
    <3>2. QED
      BY <1>2, <2>1, <3>1, AnswerStep DEF LockPlaylist, Answers
  <2>2. CASE Found(r)
    BY <1>2, <2>2, LockStep DEF LockPlaylist, Found
  <2>3. QED
    BY <2>1, <2>2
<1>3. CASE Already(r)
  <2>1. playlist = "live" /\ req[r].song \in Songs
    BY <1>1, <1>3 DEF Already, Placed, Adding, Locking
  <2>2. QED
    BY <1>3, <2>1, LockStep DEF Already, Row
<1>4. CASE Max(r)
  <2>1. PICK n \in NextPosition : next' = [next EXCEPT ![r] = n]
    BY <1>4 DEF Max
  <2>2. pc[r] = "max" /\ pc' = [pc EXCEPT ![r] = "insert"] /\ UNCHANGED <<playlist, position, events, req, faults>>
    BY <1>4 DEF Max
  <2>3. n \in Nat /\ \A s \in Row : position[s] < n
    <3>1. \A s \in Row : s \in Songs /\ position[s] \in Nat
      BY <1>1 DEF TypeOK, Row
    <3>2. CASE Row = {}
      BY <3>2 DEF NextPosition
    <3>3. CASE Row # {}
      <4>1. PICK t \in Row : n = position[t] + 1 /\ \A s \in Row : position[s] <= position[t]
        BY <3>3 DEF NextPosition, Last
      <4>2. QED
        BY <3>1, <4>1
    <3>4. QED
      BY <3>2, <3>3
  <2>4. /\ pc'[r] = "insert" /\ next'[r] = n /\ req'[r] = req[r]
        /\ \A q \in Request \ {r} : pc'[q] = pc[q] /\ req'[q] = req[q] /\ next'[q] = next[q]
    BY <1>1, <2>1, <2>2 DEF TypeOK
  <2>5. TypeOK'
    <3>1. next' \in [Request -> Nat \cup {None}] /\ pc' \in [Request -> {"new"} \cup Running \cup Answers]
      BY <1>1, <2>1, <2>2, <2>3 DEF TypeOK, Running, Locking
    <3>2. \A q \in Request : (pc'[q] \in Running) = (req'[q] # None)
      BY <1>1, <2>2, <2>4 DEF TypeOK, Running, Locking
    <3>3. QED
      BY <1>1, <2>2, <3>1, <3>2 DEF TypeOK, Row
  <2>6. Placed(r)'
    BY <1>1, <2>2, <2>3, <2>4, Constants DEF Placed, Locking
  <2>7. Adding(r)'
    <3>1. Row' = Row
      BY <2>2 DEF Row
    <3>2. pc[r] = "max" /\ pc[r] \in Locking /\ Adding(r)
      BY <1>1, <2>2 DEF Locking
    <3>3. playlist = "live" /\ position[req[r].song] = None
      BY <3>2 DEF Adding
    <3>4. QED
      BY <2>2, <2>3, <2>4, <3>1, <3>3 DEF Adding
  <2>8. QED
    BY <2>2, <2>4, <2>5, <2>6, <2>7 DEF Good, Alone, Shrinks, Locking
<1>5. CASE Insert(r)
  <2>1. pc[r] = "insert" /\ next[r] # None /\ playlist = "live" /\ req[r].song \in Songs
        /\ position[req[r].song] = None /\ \A s \in Row : position[s] < next[r]
    BY <1>1, <1>5 DEF Insert, Placed, Adding, Locking
  <2>2. \A s \in Row : ~Collides(req[r].song, next[r], s, position[s])
    <3>1. \A s \in Row : position[s] \in Nat /\ position[s] # None
      BY <1>1 DEF TypeOK, Row
    <3>2. next[r] \in Nat
      BY <1>1, <2>1 DEF TypeOK
    <3>3. \A s \in Row : position[s] # next[r]
      BY <2>1, <3>1, <3>2
    <3>4. QED
      BY <2>1, <3>1, <3>3 DEF Collides
  <2>3. Goto(r, "commit") /\ UNCHANGED <<playlist, position, events, faults>>
    BY <1>5, <2>1, <2>2 DEF Insert
  <2>4. QED
    BY <2>1, <2>3, LockStep
<1>6. QED
  BY <1>2, <1>3, <1>4, <1>5

\* COMMIT, whether its answer arrives or not.
LEMMA CommitStep ==
  ASSUME PlaylistInv, NEW r \in Request, Commit(r) \/ CommitLost(r)
  PROVE  Good(r)
<1>1. /\ StoreOK /\ Placed(r) /\ Adding(r) /\ TypeOK /\ pc[r] = "commit"
      /\ \A q \in Request \ {r} : pc[q] \notin Locking
  BY Before DEF PlaylistInv, Commit, CommitLost, Committed, Locking
<1>2. playlist = "live" /\ req[r].song \in Songs /\ UNCHANGED <<playlist, events>>
  BY <1>1 DEF Placed, Adding, Locking, Commit, CommitLost, Committed
<1>3. position' \in [Songs -> Nat \cup {None}] /\ (Shrinks \/ Appends)
  <2>1. CASE next[r] = None
    BY <1>1, <2>1 DEF Commit, CommitLost, Committed, StoreOK, Shrinks
  <2>2. CASE next[r] # None
    <3>1. next[r] \in Nat /\ position[req[r].song] = None /\ \A s \in Row : position[s] < next[r]
      BY <1>1, <2>2 DEF TypeOK, Adding
    <3>2. position' = [position EXCEPT ![req[r].song] = next[r]]
      BY <2>2 DEF Commit, CommitLost, Committed
    <3>3. QED
      BY <1>1, <1>2, <3>1, <3>2 DEF StoreOK, Appends
  <2>3. QED
    BY <2>1, <2>2
<1>4. faults' \in 0..MaxFaults
  BY <1>1, Before DEF Commit, CommitLost, NoFault, StoreOK
<1>5. StoreOK'
  BY <1>1, <1>2, <1>3, <1>4 DEF StoreOK
<1>6. CASE Commit(r)
  BY <1>1, <1>3, <1>5, <1>6, GotoStep DEF Commit, Running, Locking
<1>7. CASE CommitLost(r)
  BY <1>1, <1>3, <1>5, <1>7, AnswerStep DEF CommitLost, Answers
<1>8. QED
  BY <1>6, <1>7

\* The event and the answer, and a statement that fails.
LEMMA AnsweredStep ==
  ASSUME PlaylistInv, NEW r \in Request, Emit(r) \/ StatementFails(r)
  PROVE  Good(r)
<1>1. UNCHANGED <<playlist, position>> /\ events' \subseteq Request /\ faults' \in 0..MaxFaults /\ StoreOK
  BY Before DEF Emit, StatementFails, NoFault, StoreOK
<1>2. StoreOK' /\ Shrinks
  BY <1>1, Same
<1>3. PICK code \in {"200", "201", "lost"} : Answer(r, code)
  BY DEF Emit, StatementFails, Success
<1>4. QED
  BY <1>1, <1>2, <1>3, AnswerStep DEF Answers

\* A request's step is one of those above.
LEMMA RequestStep ==
  ASSUME PlaylistInv, NEW r \in Request,
         Receive(r) \/ Serve(r) \/ StatementFails(r) \/ CommitLost(r)
  PROVE  Good(r) /\ PlaylistInv'
<1>1. Good(r)
  BY ReceiveStep, StatementStep, AddStep, CommitStep, AnsweredStep DEF Serve
<1>2. QED
  BY <1>1, Others

-----------------------------------------------------------------------------
(* The theorems.                                                           *)

\* PlaylistInv is inductive.
LEMMA Invariance == Spec => []PlaylistInv
<1>1. Init => PlaylistInv
  <2>1. SUFFICES ASSUME Init PROVE PlaylistInv
    OBVIOUS
  <2>2. TypeOK
    BY <2>1, Constants DEF Init, TypeOK, Running, Locking, Row
  <2>3. OneLocks /\ \A r \in Request : Placed(r) /\ Adding(r)
    BY <2>1 DEF Init, OneLocks, Placed, Adding, Locking
  <2>4. QED
    BY <2>2, <2>3 DEF PlaylistInv
<1>2. PlaylistInv /\ [Next]_vars => PlaylistInv'
  <2>1. SUFFICES ASSUME PlaylistInv, [Next]_vars PROVE PlaylistInv'
    OBVIOUS
  <2>2. CASE Next
    BY <2>1, <2>2, RequestStep DEF Next
  <2>3. CASE UNCHANGED vars
    BY <2>1, <2>3 DEF PlaylistInv, TypeOK, OneLocks, Placed, Adding, Row, vars
  <2>4. QED
    BY <2>1, <2>2, <2>3
<1>3. QED
  BY <1>1, <1>2, PTL DEF Spec

\* Every variable has its type: a playlist that is not there has no songs, and a request
\* asks for something as long as it runs.
THEOREM TypeCorrect == Spec => []TypeOK
<1>1. PlaylistInv => TypeOK
  BY DEF PlaylistInv
<1>2. QED
  BY <1>1, Invariance, PTL

\* No two AddSongs are in their transactions at once, and no request is answered by a 500:
\* the position drawn is behind every song until COMMIT, whatever is removed meanwhile.
THEOREM AdditionsNeverCollide == Spec => [](OneLocks /\ \A r \in Request : pc[r] # "500")
<1>1. PlaylistInv => OneLocks /\ \A r \in Request : pc[r] # "500"
  BY DEF PlaylistInv, Placed
<1>2. QED
  BY <1>1, Invariance, PTL

\* A song that stays keeps its place, and one that is added comes after every other.
THEOREM PlacesAreKept == Spec => OrderIsStable
<1> DEFINE Stable ==
      \A s, t \in Songs : position'[s] # None /\ position'[t] # None =>
        /\ position[s] # None => position'[s] = position[s]
        /\ position[s] = None /\ s # t => position'[t] < position'[s]
<1>1. PlaylistInv /\ [Next]_vars => [Stable]_vars
  <2>1. SUFFICES ASSUME PlaylistInv, Next PROVE Stable
    OBVIOUS
  <2>2. Shrinks \/ Appends
    BY <2>1, RequestStep DEF Next, Good
  <2>3. CASE Shrinks
    BY <2>3 DEF Shrinks
  <2>4. CASE Appends
    BY <2>1, <2>4 DEF Appends, PlaylistInv, TypeOK, Row
  <2>5. QED
    BY <2>2, <2>3, <2>4
<1>2. QED
  BY <1>1, Invariance, PTL DEF Spec, OrderIsStable
=============================================================================
