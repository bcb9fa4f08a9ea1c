------------------------------- MODULE Listing -------------------------------
(***************************************************************************)
(* Listing by pages, beside writers: the events of a playback session      *)
(* (music-playback-service/internal/playback: repository.go, service.go,   *)
(* cursor.go), oldest first, and the songs a user likes                    *)
(* (music-identity-gatekeeper/internal/preference: the same files), latest *)
(* first.  Both are ordered by a time and an id, and a page ends with a    *)
(* cursor that holds both of its last item.                                *)
(*                                                                         *)
(* One client walks over one list from its first page to its last.  A page *)
(* of songs is one query.  A page of events is two, an overview of the     *)
(* whole session and the page, in a transaction that reads one snapshot.   *)
(* Events are only ever added; a song may be unliked, and liked again.     *)
(***************************************************************************)
EXTENDS Integers, Sequences, FiniteSets, SequencesExt, FiniteSetsExt

CONSTANTS
  Ids,           \* ids of events or songs; in the order of their numbers, and drawn at random
  MaxClock,      \* bound: the latest time, and so the number of insertions
  MaxAsked,      \* bound: the largest limit that a client asks for
  DefaultLimit,
  MaxLimit,
  Low, Width,    \* the times that fit a cursor are Low..(Low + Width - 1)
  None

Times  == 0..MaxClock
Row    == [at : Times, in : Times]
Key    == [at : Nat, id : Ids]
NoRows == [i \in Ids |-> None]

ASSUME ListingAssumption ==
  /\ Ids \subseteq Nat /\ None \notin Row \cup Key
  /\ MaxClock \in Nat /\ MaxAsked \in Nat
  /\ DefaultLimit \in Nat \ {0} /\ MaxLimit \in Nat \ {0} /\ DefaultLimit <= MaxLimit
  /\ Low \in Nat /\ Width \in Nat \ {0}
  /\ Low <= MaxClock /\ MaxClock < Low + Width

VARIABLES
  list,      \* which one it is: "session" or "likes"
  row,       \* its rows: [at, in], occurred_at and ingested_at, or created_at twice
  clock,     \* the time, which is later after every insertion
  pc,        \* the client: "idle", "page", "done" or "404"
  snap,      \* the snapshot of its transaction
  counted,   \* the events that the overview has counted
  cursor,    \* the cursor it holds
  page,      \* the ids of its last page
  listed,    \* what it was shown, in that order
  first,     \* history: what was there when it fetched its first page
  removed    \* history: what was unliked since

walk == <<pc, snap, counted, cursor, page, listed, first>>
vars == <<list, row, clock, walk, removed>>

Init ==
  /\ list \in {"session", "likes"}
  /\ row = NoRows /\ clock = Low
  /\ pc = "idle" /\ snap = NoRows /\ counted = {} /\ cursor = None /\ page = {}
  /\ listed = <<>> /\ first = {} /\ removed = {}

Present(rows) == {i \in Ids : rows[i] # None}
KeyOf(rows, i) == [at |-> rows[i].at, id |-> i]

-----------------------------------------------------------------------------
(* Writers.                                                                *)

\* An event may tell of any time, and be stamped before others that are committed already:
\* ingested_at is NOW(), when its transaction began.  created_at of a like is NOW(), too.
\* The time of the server fits a cursor.
Insert(i) ==
  /\ row[i] = None /\ clock < MaxClock
  /\ \E at \in Times, in \in Low..clock :
       /\ list = "likes" => at = in
       /\ row' = [row EXCEPT ![i] = [at |-> at, in |-> in]]
  /\ clock' = clock + 1
  /\ UNCHANGED <<list, walk, removed>>

\* UnlikeSong; playback_events is append-only.
Unlike(i) ==
  /\ list = "likes" /\ row[i] # None
  /\ row' = [row EXCEPT ![i] = None]
  /\ removed' = IF listed = <<>> THEN {} ELSE removed \cup {i}
  /\ UNCHANGED <<list, clock, walk>>

-----------------------------------------------------------------------------
(* The quality of events: detectOutOfOrder.                                *)

\* The events of one occurred_at.
Group(rows, at) == {i \in Present(rows) : rows[i].at = at}

\* The high-water mark when the group of time at is reached: the largest ingested_at of the
\* groups before it, and 0, the zero time, before the first.
HighWaterMark(rows, at) ==
  LET mark[t \in 0..at] ==
        IF t = 0 THEN 0 ELSE Max({mark[t - 1]} \cup {rows[i].in : i \in Group(rows, t - 1)})
  IN mark[at]

\* Mutant: the mark advances inside a group, in the order of the ids.
MutantFlagged(rows) ==
  {i \in Present(rows) :
     \E j \in Present(rows) :
       /\ rows[j].at < rows[i].at \/ (rows[j].at = rows[i].at /\ j < i)
       /\ rows[i].in < rows[j].in}

Flagged(rows) == {i \in Present(rows) : rows[i].in < HighWaterMark(rows, rows[i].at)}

-----------------------------------------------------------------------------
(* A page.                                                                 *)

\* The order of the list, of rows and of cursors alike.
Ascends(k, l)  == k.at < l.at \/ (k.at = l.at /\ k.id < l.id)
Precedes(k, l) == IF list = "session" THEN Ascends(k, l) ELSE Ascends(l, k)

\* Mutant: no maximum.
MutantClamped(asked) == IF asked = 0 THEN DefaultLimit ELSE asked

\* A limit that is absent or not positive is the default, and one too large the maximum.
Clamped(asked) ==
  IF asked = 0 THEN DefaultLimit ELSE IF asked > MaxLimit THEN MaxLimit ELSE asked

\* Mutant: one row past the page is fetched, and the cursor taken from it.
MutantLastOf(keys, limit) == keys[limit + 1]

LastOf(keys, limit) == keys[limit]

\* EncodeCursor and DecodeCursor: UnixNano wraps around where the nanoseconds do not fit
\* an int64.
ThroughCursor(key) == [key EXCEPT !.at = Low + ((@ - Low) % Width)]

\* ORDER BY: the keys of a finite set, each once, in the order of the list.
InOrder(S) ==
  CHOOSE s \in [1..Cardinality(S) -> S] :
    \A m, n \in 1..Cardinality(S) : m < n => Precedes(s[m], s[n])

\* The query of the page: what is past the cursor, one row more than the limit.
Fetched(rows, limit) ==
  LET past == {k \in {KeyOf(rows, i) : i \in Present(rows)} : cursor = None \/ Precedes(cursor, k)}
      keys == InOrder(past)
  IN SubSeq(keys, 1, Min({limit + 1, Len(keys)}))

\* Where there is no row past the limit, there is no next cursor, and the client stops.
Show(rows, asked) ==
  LET limit == Clamped(asked)
      keys  == Fetched(rows, limit)
      shown == SubSeq(keys, 1, Min({limit, Len(keys)}))
      more  == Len(keys) > limit
  IN /\ cursor' = IF more THEN ThroughCursor(LastOf(keys, limit)) ELSE None
     /\ pc' = IF more THEN "idle" ELSE "done"
     /\ page' = {k.id : k \in ToSet(shown)}
     /\ listed' = listed \o shown
     /\ first' = IF listed = <<>> THEN Present(rows) ELSE first

\* GetSessionEvents: the overview; a session without events is not found.
Overview ==
  /\ list = "session" /\ pc = "idle"
  /\ pc' = IF Present(row) = {} THEN "404" ELSE "page"
  /\ snap' = row
  /\ counted' = Present(row)
  /\ UNCHANGED <<list, row, clock, cursor, page, listed, first, removed>>

\* Mutant: READ COMMITTED, where each query has a snapshot of its own.
MutantPageOfEvents(asked) ==
  /\ pc = "page"
  /\ Show(row, asked)
  /\ snap' = NoRows
  /\ UNCHANGED <<list, row, clock, counted, removed>>

PageOfEvents(asked) ==
  /\ pc = "page"
  /\ Show(snap, asked)
  /\ snap' = NoRows
  /\ UNCHANGED <<list, row, clock, counted, removed>>

\* ListLikedSongs; a user who likes nothing gets an empty page.
PageOfSongs(asked) ==
  /\ list = "likes" /\ pc = "idle"
  /\ Show(row, asked)
  /\ UNCHANGED <<list, row, clock, snap, counted, removed>>

-----------------------------------------------------------------------------
Next ==
  \/ \E i \in Ids : Insert(i) \/ Unlike(i)
  \/ Overview
  \/ \E asked \in 0..MaxAsked : PageOfEvents(asked) \/ PageOfSongs(asked)

Spec == Init /\ [][Next]_vars

-----------------------------------------------------------------------------
(* Properties.                                                             *)

TypeOK ==
  /\ list \in {"session", "likes"}
  /\ row \in [Ids -> Row \cup {None}] /\ snap \in [Ids -> Row \cup {None}]
  /\ clock \in Times
  /\ pc \in {"idle", "page", "done", "404"}
  /\ cursor \in Key \cup {None}
  /\ counted \cup page \cup first \cup removed \subseteq Ids
  /\ listed \in Seq(Key)
  /\ Cardinality(page) <= MaxLimit

\* Whatever is written between the pages, what is shown is in order, and shows nothing twice
\* and leaves nothing out that was there from the first page on (Sprint1_TODOS.md:228; the
\* tests have a stable list).  A song unliked in between may be left out, or come again.  An
\* event whose time does not fit a cursor may make it skip others.
ListedOnceInOrder ==
  (\A i \in Present(row) : row[i].at >= Low) =>
    /\ \A m, n \in 1..Len(listed) : m < n =>
         Precedes(listed[m], listed[n]) /\ (listed[m].id = listed[n].id => listed[m].id \in removed)
    /\ pc = "done" => first \ removed \subseteq {k.id : k \in ToSet(listed)}

\* repository.go:150-163: an event is flagged just when one that, by its own time, happened
\* before it arrived after it; events of the same time are peers, whatever their ids.
FlagsAreRelative ==
  list = "session" =>
    Flagged(row) = {i \in Present(row) :
                      \E j \in Present(row) : row[j].at < row[i].at /\ row[i].in < row[j].in}

\* repository.go:204-209: the summary and the flags are of the whole session, and so of every
\* event on the page beside them, though others arrive in between; the only page of a
\* session shows what the summary counts.
SummaryCoversPage ==
  list = "session" /\ pc \in {"idle", "done"} =>
    /\ page \subseteq counted
    /\ pc = "done" /\ Len(listed) = Cardinality(page) => page = counted
=============================================================================
