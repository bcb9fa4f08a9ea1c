------------------------------ MODULE Playlist ------------------------------
(***************************************************************************)
(* One playlist of music-identity-gatekeeper and the requests about it     *)
(* (internal/playlist/handler.go, service.go, repository.go; migrations    *)
(* 000008 and 000009).                                                     *)
(*                                                                         *)
(* One PostgreSQL statement is one step, and a transaction of a single     *)
(* statement too.  Only AddSong has more than one: it holds the lock of    *)
(* the playlist's row from its first statement to its COMMIT, and the row  *)
(* it inserts is visible from then on.  After the database has committed a *)
(* change, the service enqueues an event; then the request is answered.    *)
(***************************************************************************)
EXTENDS Naturals, FiniteSets

CONSTANTS
  Songs,
  Requests,   \* bound: how many requests come in
  MaxFaults,  \* bound: failed statements, disconnects and crashes
  MaxStart,   \* bound: the largest position at the beginning
  None

VARIABLES
  playlist,   \* the row of playlists: "none" before it is created, "live" or "deleted"
  position,   \* playlist_songs: the position of a song, None where it has no row
  next,       \* the position an AddSong has drawn, None until then
  events,     \* the requests whose event was enqueued
  req,        \* what a running request asks for
  pc,         \* the statement it is at, or its answer
  faults      \* faults so far

vars == <<playlist, position, next, events, req, pc, faults>>

\* Requests are numbered as they come in.
Request == 1..Requests

Asked == [op : {"create", "patch", "delete", "get"}, owner : BOOLEAN, song : {None}]
           \cup [op : {"add", "remove"}, owner : BOOLEAN, song : Songs]

ASSUME PlaylistAssumption ==
  /\ Requests \in Nat /\ MaxFaults \in Nat /\ MaxStart \in Nat
  /\ None \notin Nat \cup Songs \cup Asked

Row     == {s \in Songs : position[s] # None}
Locking == {"already", "max", "insert", "commit"}
Running == {"create", "patch", "delete", "get", "songs", "add", "remove", "emit"} \cup Locking
Answers == {"200", "201", "404", "500", "lost"}

Init ==
  /\ playlist \in {"none", "live"}
  /\ position \in [Songs -> 0..MaxStart \cup {None}]
  /\ \A s, t \in Row : position[s] = position[t] => s = t
  /\ playlist = "none" => Row = {}
  /\ next = [r \in Request |-> None]
  /\ events = {}
  /\ req = [r \in Request |-> None]
  /\ pc = [r \in Request |-> "new"]
  /\ faults = 0

Goto(r, label) == pc' = [pc EXCEPT ![r] = label] /\ UNCHANGED <<next, req>>

Answer(r, code) ==
  /\ pc' = [pc EXCEPT ![r] = code]
  /\ req' = [req EXCEPT ![r] = None]
  /\ next' = [next EXCEPT ![r] = None]

Fault   == faults < MaxFaults /\ faults' = faults + 1
NoFault == UNCHANGED faults

\* The row of playlists as WHERE id = $1 AND user_id = $2 finds it.
Found(r) == playlist = "live" /\ req[r].owner

\* Another AddSong holds the lock of the row of playlists.
Locked(r) == \E q \in Request \ {r} : pc[q] \in Locking

-----------------------------------------------------------------------------
(* The handlers.  A request whose path or body is invalid is answered 400   *)
(* before it gets here.                                                    *)

\* This playlist is created once: another POST creates another one.
Receive(r) ==
  /\ pc[r] = "new" /\ \A q \in 1..(r - 1) : pc[q] # "new"
  /\ \E q \in Asked :
       /\ q.op = "create" => playlist = "none" /\ q.owner /\ \A x \in Request : req[x] # q
       /\ q.op # "create" => playlist # "none"
       /\ req' = [req EXCEPT ![r] = q]
       /\ pc' = [pc EXCEPT ![r] = q.op]
  /\ UNCHANGED <<playlist, position, next, events, faults>>

-----------------------------------------------------------------------------
(* Single statements.                                                      *)

Create(r) ==
  /\ pc[r] = "create"
  /\ playlist' = "live"
  /\ Goto(r, "emit")
  /\ UNCHANGED <<position, events, faults>>

\* The UPDATE of name, description and is_public; no row: ErrPlaylistNotFound.
Patch(r) ==
  /\ pc[r] = "patch"
  /\ \/ Found(r) /\ ~Locked(r) /\ Goto(r, "emit")
     \/ ~Found(r) /\ Answer(r, "404")
  /\ UNCHANGED <<playlist, position, events, faults>>

\* Mutant: no ON DELETE CASCADE.
MutantNoCascade(r) ==
  /\ pc[r] = "delete" /\ Found(r) /\ ~Locked(r)
  /\ playlist' = "deleted"
  /\ Goto(r, "emit")
  /\ UNCHANGED <<position, events, faults>>

\* The DELETE, which cascades to playlist_songs; no row: ErrPlaylistNotFound.
Delete(r) ==
  /\ pc[r] = "delete"
  /\ \/ /\ Found(r) /\ ~Locked(r)
        /\ playlist' = "deleted"
        /\ position' = [s \in Songs |-> None]
        /\ Goto(r, "emit")
     \/ ~Found(r) /\ Answer(r, "404") /\ UNCHANGED <<playlist, position>>
  /\ UNCHANGED <<events, faults>>

\* Mutant: positions are resequenced.
MutantResequence(r) ==
  /\ pc[r] = "remove" /\ Found(r) /\ req[r].song \in Row
  /\ position' = [s \in Songs |-> IF s = req[r].song \/ s \notin Row THEN None
                                  ELSE Cardinality({t \in Row : position[t] < position[s]})]
  /\ Goto(r, "emit")
  /\ UNCHANGED <<playlist, events, faults>>

\* The DELETE takes no lock on the playlist and leaves a gap; no row: ErrSongNotInPlaylist.
RemoveSong(r) ==
  /\ pc[r] = "remove"
  /\ \/ /\ Found(r) /\ req[r].song \in Row
        /\ position' = [position EXCEPT ![req[r].song] = None]
        /\ Goto(r, "emit")
     \/ ~(Found(r) /\ req[r].song \in Row) /\ Answer(r, "404") /\ UNCHANGED position
  /\ UNCHANGED <<playlist, events, faults>>

\* GET reads the playlist, and then its songs as they are by then: of a playlist deleted
\* in between it shows none.
GetByID(r) ==
  /\ pc[r] = "get"
  /\ \/ Found(r) /\ Goto(r, "songs")
     \/ ~Found(r) /\ Answer(r, "404")
  /\ UNCHANGED <<playlist, position, events, faults>>

ListSongs(r) ==
  /\ pc[r] = "songs"
  /\ Answer(r, "200")
  /\ UNCHANGED <<playlist, position, events, faults>>

-----------------------------------------------------------------------------
(* The transaction of AddSong.                                             *)

\* Mutant: SELECT EXISTS without FOR UPDATE.
MutantLockPlaylist(r) ==
  /\ pc[r] = "add"
  /\ IF Found(r) THEN Goto(r, "already") ELSE Answer(r, "404")
  /\ UNCHANGED <<playlist, position, events, faults>>

\* SELECT EXISTS(... FOR UPDATE); no row: ErrPlaylistNotFound.
LockPlaylist(r) ==
  /\ pc[r] = "add"
  /\ \/ Found(r) /\ ~Locked(r) /\ Goto(r, "already")
     \/ ~Found(r) /\ Answer(r, "404")
  /\ UNCHANGED <<playlist, position, events, faults>>

\* SELECT EXISTS of the song: where it is there already, nothing is inserted.
Already(r) ==
  /\ pc[r] = "already"
  /\ Goto(r, IF req[r].song \in Row THEN "commit" ELSE "max")
  /\ UNCHANGED <<playlist, position, events, faults>>

\* Mutant: COUNT(*) instead of MAX(position) + 1.
MutantNextPosition == {Cardinality(Row)}

Last == {s \in Row : \A t \in Row : position[t] <= position[s]}

\* COALESCE(MAX(position), -1) + 1, as the set of that number.
NextPosition == IF Row = {} THEN {0} ELSE {position[s] + 1 : s \in Last}

Max(r) ==
  /\ pc[r] = "max"
  /\ \E n \in NextPosition : next' = [next EXCEPT ![r] = n]
  /\ pc' = [pc EXCEPT ![r] = "insert"]
  /\ UNCHANGED <<playlist, position, events, req, faults>>

\* The two unique indexes of playlist_songs.
Collides(s, n, t, m) == s = t \/ n = m

\* The INSERT waits for a transaction that has inserted a row with which it collides; it
\* violates a unique index where such a row is committed, and the foreign key where the
\* playlist is gone.
Insert(r) ==
  /\ pc[r] = "insert"
  /\ \A q \in Request : pc[q] = "commit" /\ next[q] # None =>
       ~Collides(req[r].song, next[r], req[q].song, next[q])
  /\ IF \/ playlist # "live"
        \/ \E s \in Row : Collides(req[r].song, next[r], s, position[s])
     THEN Answer(r, "500") ELSE Goto(r, "commit")
  /\ UNCHANGED <<playlist, position, events, faults>>

Committed(r) ==
  /\ pc[r] = "commit"
  /\ position' = IF next[r] = None THEN position ELSE [position EXCEPT ![req[r].song] = next[r]]
  /\ UNCHANGED <<playlist, events>>

Commit(r) == Committed(r) /\ Goto(r, "emit") /\ NoFault

-----------------------------------------------------------------------------
(* The event and the answer.                                               *)

Success(r) == IF req[r].op = "create" THEN "201" ELSE "200"

\* emitPlaylistUpdated: an error is logged, and the request is answered all the same.
Emit(r) ==
  /\ pc[r] = "emit"
  /\ \/ events' = events \cup {r} /\ NoFault
     \/ UNCHANGED events /\ Fault
  /\ Answer(r, Success(r))
  /\ UNCHANGED <<playlist, position>>

-----------------------------------------------------------------------------
(* Failures.                                                               *)

\* A statement fails and its transaction is rolled back, or the client or the process is gone.
StatementFails(r) ==
  /\ pc[r] \in Running
  /\ Answer(r, "lost") /\ Fault
  /\ UNCHANGED <<playlist, position, events>>

\* The COMMIT of AddSong takes effect and its answer is lost.
CommitLost(r) == Committed(r) /\ Answer(r, "lost") /\ Fault

-----------------------------------------------------------------------------
Serve(r) ==
  \/ Create(r) \/ Patch(r) \/ Delete(r) \/ RemoveSong(r) \/ GetByID(r) \/ ListSongs(r)
  \/ LockPlaylist(r) \/ Already(r) \/ Max(r) \/ Insert(r) \/ Commit(r)
  \/ Emit(r)

Next == \E r \in Request : Receive(r) \/ Serve(r) \/ StatementFails(r) \/ CommitLost(r)

Spec == Init /\ [][Next]_vars

\* A statement ends unless it waits for a lock.
FairSpec == Spec /\ \A r \in Request : WF_vars(Serve(r))

-----------------------------------------------------------------------------
(* Properties.                                                             *)

TypeOK ==
  /\ playlist \in {"none", "live", "deleted"}
  /\ position \in [Songs -> Nat \cup {None}]
  /\ next \in [Request -> Nat \cup {None}]
  /\ events \subseteq Request
  /\ req \in [Request -> Asked \cup {None}]
  /\ pc \in [Request -> {"new"} \cup Running \cup Answers]
  /\ faults \in 0..MaxFaults
  /\ playlist = "live" \/ Row = {}
  /\ \A r \in Request : (pc[r] \in Running) = (req[r] # None)

\* AddSong's "next position" cannot collide (repository.go:223-228), and "gaps are harmless"
\* (repository.go:307-308): whatever runs at the same time, a song that stays keeps its
\* place, and a song that is added comes after every other.
OrderIsStable ==
  [][\A s, t \in Songs : position'[s] # None /\ position'[t] # None =>
       /\ position[s] # None => position'[s] = position[s]
       /\ position[s] = None /\ s # t => position'[t] < position'[s]]_vars

\* repository_test.go:239, "ConcurrentDuplicatesLeaveOneRow": no race makes a request fail.
\* Each is answered, and never by a 500 that no fault explains.
EveryRequestAnswered ==
  \A r \in Request : pc[r] \in Running ~> pc[r] \in Answers \ {"500"}
=============================================================================
