------------------------ MODULE EventConsumer_proofs ------------------------
(***************************************************************************)
(* Theorems about EventConsumer, for any number of workers, partitions,    *)
(* messages and faults, and their proofs.                                  *)
(***************************************************************************)
EXTENDS EventConsumer, TLAPS

\* What the proofs need of the constants, the shape of messages aside.
LEMMA Constants ==
  /\ \A p \in Partitions : Len(Log[p]) \in Nat
  /\ None \notin Workers
  /\ MaxFaults \in Nat
BY LogAssumption

\* The event of a message is an event id.
LEMMA EventType ==
  ASSUME NEW p \in Partitions, NEW n \in 1..Len(Log[p])
  PROVE  EventAt(p, n) \in Events
<1>1. Log[p] \in Seq(Message)
  BY LogAssumption
<1>2. Log[p][n] \in Message
  BY <1>1
<1>3. QED
  BY <1>2 DEF EventAt, Message

\* A worker between Fetch and the end of process has a message, hence an event.
LEMMA EventOfType ==
  ASSUME WorkersOK, NEW w \in Workers, pc[w] \notin Ended \cup {"fetch"}
  PROVE  /\ at[w].part \in Partitions
         /\ at[w].n \in 1..Len(Log[at[w].part])
         /\ at[w].n \in Nat
         /\ EventOf(w) \in Events
BY EventType DEF WorkersOK, EventOf

\* Ending a worker keeps the types of what it leaves behind.
LEMMA ReturnType ==
  ASSUME WorkersOK, NEW w \in Workers, NEW result \in Ended, Return(w, result)
  PROVE  WorkersOK'
BY DEF WorkersOK, Return, Goto, PCs, Holding, Ended

\* Run ends in one of the ended states, however Fetch failed.
LEMMA FetchErrorType == FetchError \subseteq Ended
BY DEF FetchError, Ended

\* Every variable keeps its type (the message a worker is at exists in the log).
THEOREM TypeCorrect == Spec => []TypeOK
<1>1. Init => OffsetsOK /\ WorkersOK /\ RecordsOK
  BY Constants DEF Init, OffsetsOK, WorkersOK, RecordsOK, PCs, Holding, Ended
<1>2. Init => FlagsOK
  BY DEF Init, FlagsOK
<1>3. TypeOK /\ [Next]_vars => FlagsOK'
  <2>1. ASSUME UNCHANGED group, TypeOK PROVE FlagsOK'
    BY <2>1 DEF TypeOK, FlagsOK, group
  <2>2. ASSUME TypeOK, NEW w \in Workers, Collect(w) PROVE FlagsOK'
    BY <2>2, Zenon DEF TypeOK, FlagsOK, Collect
  <2>3. ASSUME TypeOK, Shutdown \/ DrainDeadline \/ Exit \/ Crash \/ Start PROVE FlagsOK'
    BY <2>3, Zenon DEF TypeOK, FlagsOK, Shutdown, DrainDeadline, Exit, Crash, Start
  <2>4. ASSUME NEW w \in Workers, Advance(w) PROVE UNCHANGED group
    BY <2>4, Zenon DEF Advance, Fetch, FetchStopped, ClaimUpsert, ClaimSelect, Poll, PollCancelled,
       HandleSucceeds, Release, Complete, Commit
  <2>5. QED
    BY <2>1, <2>2, <2>3, <2>4, Zenon DEF Next, vars, Assign, Revoke, ExpireLease, FetchFails, HandleFails,
       CallFails
<1>4. TypeOK /\ [Next]_vars => OffsetsOK' /\ WorkersOK' /\ RecordsOK'
  <2> SUFFICES ASSUME OffsetsOK, WorkersOK, RecordsOK, [Next]_vars
               PROVE  OffsetsOK' /\ WorkersOK' /\ RecordsOK'
    BY DEF TypeOK
  <2> USE Constants DEF PCs, Holding, Ended, kafka, group, worker, ghost, Goto
  <2>1. ASSUME NEW p \in Partitions, NEW w \in Workers, Assign(p, w) PROVE OffsetsOK' /\ WorkersOK' /\ RecordsOK'
    BY <2>1 DEF OffsetsOK, WorkersOK, RecordsOK, Assign, Fault
  <2>2. ASSUME NEW p \in Partitions, Revoke(p) PROVE OffsetsOK' /\ WorkersOK' /\ RecordsOK'
    BY <2>2 DEF OffsetsOK, WorkersOK, RecordsOK, Revoke, Fault
  <2>3. ASSUME NEW e \in Events, ExpireLease(e) PROVE OffsetsOK' /\ WorkersOK' /\ RecordsOK'
    BY <2>3 DEF OffsetsOK, WorkersOK, RecordsOK, ExpireLease, Fault
  <2>4. ASSUME NEW w \in Workers, NEW p \in Partitions, Fetch(w, p) PROVE OffsetsOK' /\ WorkersOK' /\ RecordsOK'
    <3>1. position[p] + 1 \in 1..Len(Log[p]) /\ position[p] \in Nat
      BY <2>4 DEF OffsetsOK, Fetch, Pending
    <3>2. OffsetsOK' /\ RecordsOK'
      BY <2>4, <3>1 DEF OffsetsOK, RecordsOK, Fetch
    <3>3. CASE Decodes(Log[p][position[p] + 1])
      <4>1. /\ at' = [at EXCEPT ![w] = [part |-> p, n |-> position[p] + 1]]
            /\ pc' = [pc EXCEPT ![w] = "claim"]
            /\ UNCHANGED <<owner, holders>>
        BY <2>4, <3>3 DEF Fetch
      <4>2. [part |-> p, n |-> position[p] + 1] \in [part : Partitions, n : Nat]
        BY <3>1
      <4>3. WorkersOK'
        BY <3>1, <4>1, <4>2 DEF WorkersOK
      <4>4. QED
        BY <3>2, <4>3
    <3>4. CASE ~Decodes(Log[p][position[p] + 1])
      BY <2>4, <3>2, <3>4, FetchErrorType, ReturnType DEF Fetch
    <3>5. QED
      BY <3>3, <3>4
  <2>5. ASSUME NEW w \in Workers, FetchStopped(w) PROVE OffsetsOK' /\ WorkersOK' /\ RecordsOK'
    <3>1. WorkersOK'
      BY <2>5, FetchErrorType, ReturnType DEF FetchStopped
    <3>2. QED
      BY <2>5, <3>1 DEF OffsetsOK, RecordsOK, FetchStopped, Fault
  <2>6. ASSUME NEW w \in Workers, FetchFails(w) PROVE OffsetsOK' /\ WorkersOK' /\ RecordsOK'
    <3>1. WorkersOK'
      BY <2>6, FetchErrorType, ReturnType DEF FetchFails
    <3>2. QED
      BY <2>6, <3>1 DEF OffsetsOK, RecordsOK, FetchFails, Fault
  <2>7. ASSUME NEW w \in Workers, Poll(w) PROVE OffsetsOK' /\ WorkersOK' /\ RecordsOK'
    BY <2>7 DEF OffsetsOK, WorkersOK, RecordsOK, Poll, Fault
  <2>8. ASSUME NEW w \in Workers, HandleFails(w) PROVE OffsetsOK' /\ WorkersOK' /\ RecordsOK'
    BY <2>8 DEF OffsetsOK, WorkersOK, RecordsOK, HandleFails, Fault
  <2>9. ASSUME NEW w \in Workers, Collect(w) PROVE OffsetsOK' /\ WorkersOK' /\ RecordsOK'
    BY <2>9 DEF OffsetsOK, WorkersOK, RecordsOK, Collect, Fault
  <2>10. ASSUME NEW w \in Workers, PollCancelled(w) PROVE OffsetsOK' /\ WorkersOK' /\ RecordsOK'
    <3>1. WorkersOK'
      BY <2>10, ReturnType DEF PollCancelled
    <3>2. QED
      BY <2>10, <3>1 DEF OffsetsOK, RecordsOK, PollCancelled
  <2>11. ASSUME NEW w \in Workers, ClaimSelect(w) PROVE OffsetsOK' /\ WorkersOK' /\ RecordsOK'
    <3>1. CASE claims[EventOf(w)] # "none"
      BY <2>11, <3>1, EventOfType DEF OffsetsOK, WorkersOK, RecordsOK, ClaimSelect
    <3>2. CASE claims[EventOf(w)] = "none"
      <4>1. WorkersOK'
        BY <2>11, <3>2, ReturnType DEF ClaimSelect
      <4>2. QED
        BY <2>11, <4>1 DEF OffsetsOK, RecordsOK, ClaimSelect
    <3>3. QED
      BY <3>1, <3>2
  <2>12. ASSUME NEW w \in Workers, ClaimUpsert(w) PROVE OffsetsOK' /\ WorkersOK' /\ RecordsOK'
    <3>1. EventOf(w) \in Events /\ at[w].part \in Partitions /\ at[w].n \in 1..Len(Log[at[w].part])
      BY <2>12, EventOfType DEF ClaimUpsert
    <3>2. OffsetsOK' /\ RecordsOK'
      BY <2>12, <3>1 DEF OffsetsOK, RecordsOK, ClaimUpsert
    <3>3. WorkersOK'
      <4>1. /\ pc' = [pc EXCEPT ![w] = "handle"] \/ pc' = [pc EXCEPT ![w] = "select"]
            /\ pc[w] = "claim" /\ UNCHANGED <<at, owner>>
        BY <2>12 DEF ClaimUpsert
      <4>2. holders' \in [Events -> SUBSET Workers]
        BY <2>12, <3>1 DEF ClaimUpsert, WorkersOK
      <4>3. QED
        BY <4>1, <4>2 DEF WorkersOK
    <3>4. QED
      BY <3>2, <3>3
  <2>13. ASSUME NEW w \in Workers, HandleSucceeds(w) PROVE OffsetsOK' /\ WorkersOK' /\ RecordsOK'
    <3>1. EventOf(w) \in Events /\ at[w].part \in Partitions /\ at[w].n \in 1..Len(Log[at[w].part])
      BY <2>13, EventOfType DEF HandleSucceeds
    <3>2. OffsetsOK' /\ RecordsOK'
      BY <2>13, <3>1 DEF OffsetsOK, RecordsOK, HandleSucceeds
    <3>3. WorkersOK'
      BY <2>13, <3>1 DEF HandleSucceeds, WorkersOK
    <3>4. QED
      BY <3>2, <3>3
  <2>14. ASSUME NEW w \in Workers, Release(w) PROVE OffsetsOK' /\ WorkersOK' /\ RecordsOK'
    <3>1. EventOf(w) \in Events /\ at[w].part \in Partitions /\ at[w].n \in 1..Len(Log[at[w].part])
      BY <2>14, EventOfType DEF Release
    <3>2. OffsetsOK' /\ RecordsOK'
      BY <2>14, <3>1 DEF OffsetsOK, RecordsOK, Release, Fault
    <3>3. WorkersOK'
      BY <2>14, ReturnType DEF Release
    <3>4. QED
      BY <3>2, <3>3
  <2>15. ASSUME NEW w \in Workers, Complete(w) PROVE OffsetsOK' /\ WorkersOK' /\ RecordsOK'
    <3>1. EventOf(w) \in Events /\ at[w].part \in Partitions /\ at[w].n \in 1..Len(Log[at[w].part])
      BY <2>15, EventOfType DEF Complete
    <3>2. OffsetsOK' /\ RecordsOK'
      BY <2>15, <3>1 DEF OffsetsOK, RecordsOK, Complete, Marked
    <3>3. WorkersOK'
      BY <2>15, <3>1 DEF Complete, WorkersOK
    <3>4. QED
      BY <3>2, <3>3
  <2>16. ASSUME NEW w \in Workers, Commit(w) PROVE OffsetsOK' /\ WorkersOK' /\ RecordsOK'
    <3>1. EventOf(w) \in Events /\ at[w].part \in Partitions /\ at[w].n \in 1..Len(Log[at[w].part])
      BY <2>16, EventOfType DEF Commit
    <3>2. OffsetsOK' /\ RecordsOK'
      BY <2>16, <3>1 DEF OffsetsOK, RecordsOK, Commit, CommittedAt
    <3>3. WorkersOK'
      BY <2>16, <3>1 DEF Commit, WorkersOK
    <3>4. QED
      BY <3>2, <3>3
  <2>17. ASSUME NEW w \in Workers, CallFails(w) PROVE OffsetsOK' /\ WorkersOK' /\ RecordsOK'
    <3>1. EventOf(w) \in Events /\ at[w].part \in Partitions /\ at[w].n \in 1..Len(Log[at[w].part])
      BY <2>17, EventOfType DEF CallFails
    <3>2. OffsetsOK' /\ RecordsOK'
      <4>1. claims' \in [Events -> {"none", "processing", "expired", "processed"}]
        BY <2>17, <3>1 DEF RecordsOK, CallFails, Marked
      <4>2. committed' = committed \/ committed' = [committed EXCEPT ![at[w].part] = at[w].n]
        BY <2>17 DEF CallFails, CommittedAt
      <4>3. UNCHANGED position
        BY <2>17 DEF CallFails
      <4>4. ASSUME committed' = committed PROVE OffsetsOK'
        BY <4>3, <4>4 DEF OffsetsOK
      <4>5. ASSUME committed' = [committed EXCEPT ![at[w].part] = at[w].n] PROVE OffsetsOK'
        BY <3>1, <4>3, <4>5 DEF OffsetsOK
      <4>6. OffsetsOK'
        BY <4>2, <4>4, <4>5
      <4>7. QED
        BY <2>17, <4>1, <4>6 DEF RecordsOK, CallFails, Fault
    <3>3. WorkersOK'
      BY <2>17, ReturnType DEF CallFails
    <3>4. QED
      BY <3>2, <3>3
  <2>18. CASE Shutdown
    BY <2>18 DEF OffsetsOK, WorkersOK, RecordsOK, Shutdown, Fault
  <2>19. CASE DrainDeadline
    BY <2>19 DEF OffsetsOK, WorkersOK, RecordsOK, DrainDeadline, Fault
  <2>20. CASE Exit
    BY <2>20 DEF OffsetsOK, WorkersOK, RecordsOK, Exit, Fault
  <2>21. CASE Crash
    BY <2>21 DEF OffsetsOK, WorkersOK, RecordsOK, Crash, Fault
  <2>22. CASE Start
    BY <2>22 DEF OffsetsOK, WorkersOK, RecordsOK, Start, Fault
  <2>23. CASE UNCHANGED vars
    BY <2>23 DEF OffsetsOK, WorkersOK, RecordsOK, vars
  <2>24. QED
    BY <2>1, <2>2, <2>3, <2>4, <2>5, <2>6, <2>7, <2>8, <2>9, <2>10, <2>11, <2>12, <2>13, <2>14, <2>15, <2>16, <2>17, <2>18, <2>19, <2>20, <2>21, <2>22, <2>23 DEF Next, Advance
<1>5. QED
  BY <1>1, <1>2, <1>3, <1>4, PTL DEF Spec, TypeOK

-----------------------------------------------------------------------------
(* At-least-once delivery.  CommittedIsHandled alone is not inductive: that *)
(* committing is safe rests on what a worker carries having everything      *)
(* below it handled, and that on what its reader has returned before.       *)

InFlight(w) == pc[w] \notin Ended \cup {"fetch"}

\* Everything below the message a worker carries has been handled.
CarriedSettled == \A w \in Workers : InFlight(w) => Settled(at[w].part, at[w].n - 1)

\* A message about to be marked or committed has been handled.
EndingHandled == \A w \in Workers : pc[w] \in {"complete", "commit"} => EventOf(w) \in handled

\* A claim is marked processed only for a handled event.
MarkedHandled == \A e \in Events : claims[e] = "processed" => e \in handled

\* What the reader of an assigned partition has returned is handled or in its worker's hands.
ReturnedSettled ==
  \A p \in Partitions : owner[p] # None =>
    /\ pc[owner[p]] \notin Ended
    /\ \A i \in 1..position[p] :
         \/ EventAt(p, i) \in handled
         \/ InFlight(owner[p]) /\ at[owner[p]].part = p /\ at[owner[p]].n = i

\* A process that is not running has no live worker.
StoppedIsGone == process # "running" => \A w \in Workers : pc[w] = "gone"

DeliveryInv ==
  /\ CommittedIsHandled
  /\ CarriedSettled
  /\ EndingHandled
  /\ MarkedHandled
  /\ ReturnedSettled
  /\ StoppedIsGone

\* The handled events only grow.
LEMMA HandledGrows ==
  ASSUME [Next]_vars
  PROVE  handled \subseteq handled'
BY DEF Next, vars, ghost, Assign, Revoke, ExpireLease, Advance, Fetch, FetchStopped, ClaimUpsert,
   ClaimSelect, Poll, PollCancelled, HandleSucceeds, Release, Complete, Commit, FetchFails,
   HandleFails, CallFails, Collect, Shutdown, DrainDeadline, Exit, Crash, Start

\* A step leaves a worker where it is unless it is its own step, a crash or a start.
LEMMA OwnStep ==
  ASSUME WorkersOK, [Next]_vars, NEW w \in Workers
  PROVE  \/ pc'[w] = pc[w] /\ at'[w] = at[w]
         \/ Advance(w) \/ FetchFails(w) \/ HandleFails(w) \/ CallFails(w) \/ Collect(w)
         \/ Crash \/ Start
<1> USE DEF WorkersOK, worker, Goto
<1>1. ASSUME NEW v \in Workers, v # w, Advance(v) PROVE pc'[w] = pc[w] /\ at'[w] = at[w]
  BY <1>1 DEF Advance, Fetch, FetchStopped, ClaimUpsert, ClaimSelect, Poll, PollCancelled,
     HandleSucceeds, Release, Complete, Commit, Return
<1>2. ASSUME NEW v \in Workers, v # w, FetchFails(v) \/ HandleFails(v) \/ CallFails(v) \/ Collect(v)
      PROVE  pc'[w] = pc[w] /\ at'[w] = at[w]
  BY <1>2 DEF FetchFails, HandleFails, CallFails, Collect, Return
<1>3. QED
  BY <1>1, <1>2 DEF Next, vars, Assign, Revoke, ExpireLease, Shutdown, DrainDeadline, Exit

\* A worker gets its message from Fetch and keeps it as long as it is in flight.
LEMMA MessageStep ==
  ASSUME WorkersOK, [Next]_vars, NEW w \in Workers, InFlight(w)'
  PROVE  \/ InFlight(w) /\ at'[w] = at[w]
         \/ \E p \in Partitions : Fetch(w, p) /\ at'[w] = [part |-> p, n |-> position[p] + 1]
<1> USE DEF WorkersOK, InFlight, Ended, worker, Goto
<1>1. ASSUME NEW p \in Partitions, Fetch(w, p)
      PROVE  at'[w] = [part |-> p, n |-> position[p] + 1]
  BY <1>1 DEF Fetch, Return, FetchError
<1>2. CASE FetchStopped(w) \/ FetchFails(w)
  BY <1>2 DEF FetchStopped, FetchFails, Return, FetchError
<1>3. CASE PollCancelled(w) \/ Release(w) \/ CallFails(w) \/ Collect(w) \/ Crash \/ Start
  BY <1>3 DEF PollCancelled, Release, CallFails, Collect, Crash, Start, Return
<1>4. CASE ClaimUpsert(w) \/ Poll(w) \/ HandleSucceeds(w) \/ HandleFails(w) \/ Complete(w)
  BY <1>4 DEF ClaimUpsert, Poll, HandleSucceeds, HandleFails, Complete
<1>5. CASE ClaimSelect(w) \/ Commit(w)
  BY <1>5 DEF ClaimSelect, Commit, Return
<1>6. QED
  BY <1>1, <1>2, <1>3, <1>4, <1>5, OwnStep DEF Advance

\* A worker reaches the end of process only with its event handled or found processed.
LEMMA EndingStep ==
  ASSUME WorkersOK, [Next]_vars, NEW w \in Workers, pc'[w] \in {"complete", "commit"}
  PROVE  \/ pc[w] \in {"complete", "commit"}
         \/ EventOf(w) \in handled'
         \/ pc[w] = "select" /\ claims[EventOf(w)] = "processed"
<1> USE DEF WorkersOK, Ended, worker, Goto
<1>1. CASE (\E p \in Partitions : Fetch(w, p)) \/ FetchStopped(w) \/ FetchFails(w)
  BY <1>1 DEF Fetch, FetchStopped, FetchFails, Return, FetchError
<1>2. CASE PollCancelled(w) \/ Release(w) \/ CallFails(w) \/ Collect(w) \/ Crash \/ Start
  BY <1>2 DEF PollCancelled, Release, CallFails, Collect, Crash, Start, Return
<1>3. CASE ClaimUpsert(w) \/ Poll(w) \/ HandleSucceeds(w) \/ HandleFails(w) \/ Complete(w)
  BY <1>3 DEF ClaimUpsert, Poll, HandleSucceeds, HandleFails, Complete
<1>4. CASE ClaimSelect(w) \/ Commit(w)
  BY <1>4 DEF ClaimSelect, Commit, Return
<1>5. QED
  BY <1>1, <1>2, <1>3, <1>4, OwnStep DEF Advance

\* How an assigned partition came to its reader and its position.
LEMMA OwnerStep ==
  ASSUME WorkersOK, OffsetsOK, [Next]_vars, NEW p \in Partitions, owner'[p] # None
  PROVE  \/ \E w \in Workers : Assign(p, w)
         \/ owner'[p] = owner[p] /\ \E w \in Workers : Fetch(w, p)
         \/ owner'[p] = owner[p] /\ position'[p] = position[p]
<1> USE DEF WorkersOK, OffsetsOK, kafka, Goto
<1>1. ASSUME NEW q \in Partitions, NEW w \in Workers, Assign(q, w), q # p
      PROVE  owner'[p] = owner[p] /\ position'[p] = position[p]
  BY <1>1 DEF Assign
<1>2. ASSUME NEW q \in Partitions, Revoke(q)
      PROVE  owner'[p] = owner[p] /\ position'[p] = position[p]
  BY <1>2 DEF Revoke
<1>3. ASSUME NEW w \in Workers, NEW q \in Partitions, Fetch(w, q)
      PROVE  owner'[p] = owner[p] /\ (q # p => position'[p] = position[p])
  BY <1>3 DEF Fetch, Return
<1>4. ASSUME NEW w \in Workers,
             \/ FetchStopped(w) \/ FetchFails(w) \/ PollCancelled(w) \/ Release(w) \/ CallFails(w)
             \/ ClaimSelect(w)
      PROVE  owner'[p] = owner[p] /\ position'[p] = position[p]
  BY <1>4 DEF FetchStopped, FetchFails, PollCancelled, Release, CallFails, ClaimSelect, Return
<1>5. ASSUME NEW w \in Workers,
             \/ ClaimUpsert(w) \/ Poll(w) \/ HandleSucceeds(w) \/ HandleFails(w) \/ Complete(w)
             \/ Commit(w) \/ Collect(w)
      PROVE  owner'[p] = owner[p] /\ position'[p] = position[p]
  BY <1>5 DEF ClaimUpsert, Poll, HandleSucceeds, HandleFails, Complete, Commit, Collect
<1>6. CASE Shutdown \/ DrainDeadline \/ Exit \/ Crash \/ Start
  BY <1>6 DEF Shutdown, DrainDeadline, Exit, Crash, Start
<1>7. CASE (\E e \in Events : ExpireLease(e)) \/ UNCHANGED vars
  BY <1>7 DEF ExpireLease, vars
<1>8. QED
  BY <1>1, <1>2, <1>3, <1>4, <1>5, <1>6, <1>7 DEF Next, Advance

\* A live worker whose reader keeps a partition is still alive, and still carries its
\* message unless it has just committed it.
LEMMA CarrierStep ==
  ASSUME WorkersOK, StoppedIsGone, [Next]_vars, NEW w \in Workers, pc[w] \notin Ended,
         NEW p \in Partitions, owner'[p] = w
  PROVE  /\ pc'[w] \notin Ended
         /\ InFlight(w) => pc[w] = "commit" \/ (InFlight(w)' /\ at'[w] = at[w])
<1> USE Constants DEF WorkersOK, InFlight, Ended, worker, Goto, StoppedIsGone
<1>1. CASE (\E q \in Partitions : Fetch(w, q)) \/ FetchStopped(w) \/ FetchFails(w)
  BY <1>1 DEF Fetch, FetchStopped, FetchFails, Return, FetchError
<1>2. CASE PollCancelled(w) \/ Release(w) \/ CallFails(w) \/ Collect(w) \/ Crash \/ Start
  BY <1>2 DEF PollCancelled, Release, CallFails, Collect, Crash, Start, Return
<1>3. CASE ClaimUpsert(w) \/ Poll(w) \/ HandleSucceeds(w) \/ HandleFails(w) \/ Complete(w)
  BY <1>3 DEF ClaimUpsert, Poll, HandleSucceeds, HandleFails, Complete
<1>4. CASE ClaimSelect(w) \/ Commit(w)
  BY <1>4 DEF ClaimSelect, Commit, Return
<1>5. QED
  BY <1>1, <1>2, <1>3, <1>4, OwnStep DEF Advance

\* A process that is not running has no live worker and no assigned partition: inductive.
LEMMA StoppedInductive ==
  ASSUME TypeOK, StoppedIsGone, [Next]_vars
  PROVE  StoppedIsGone'
BY DEF StoppedIsGone, TypeOK, Alive, WorkersOK, kafka, group, worker, ghost, Goto, Next, vars,
   Assign, Revoke, ExpireLease, Advance, Fetch, FetchStopped, ClaimUpsert, ClaimSelect, Poll,
   PollCancelled, HandleSucceeds, Release, Complete, Commit, FetchFails, HandleFails, CallFails,
   Collect, Shutdown, DrainDeadline, Exit, Crash, Start

\* DeliveryInv is inductive: offsets and read positions never pass an unhandled message.
LEMMA DeliveryInductive ==
  ASSUME TypeOK, TypeOK', DeliveryInv, [Next]_vars
  PROVE  DeliveryInv'
<1> USE DEF kafka, group, worker, ghost, Goto, TypeOK
<1>1. handled \subseteq handled'
  BY HandledGrows
<1>2. CommittedIsHandled'
  <2>1. ASSUME NEW p \in Partitions, committed'[p] = committed[p] PROVE Settled(p, committed[p])'
    BY <1>1, <2>1 DEF DeliveryInv, CommittedIsHandled, Settled, EventAt
  <2>2. ASSUME NEW w \in Workers, pc[w] = "commit", committed' = CommittedAt(w), NEW p \in Partitions
        PROVE  Settled(p, committed[p])'
    <3>1. at[w].part \in Partitions /\ at[w].n \in Nat
      BY <2>2, EventOfType DEF Ended
    <3>2. Settled(at[w].part, at[w].n)
      BY <2>2, <3>1 DEF DeliveryInv, CarriedSettled, EndingHandled, InFlight, Settled, EventOf, Ended
    <3>3. CASE p = at[w].part
      BY <1>1, <2>2, <3>1, <3>2, <3>3 DEF CommittedAt, OffsetsOK, Settled, EventAt
    <3>4. CASE p # at[w].part
      BY <2>1, <2>2, <3>1, <3>4 DEF CommittedAt, OffsetsOK
    <3>5. QED
      BY <3>3, <3>4
  <2>3. \/ UNCHANGED committed
        \/ \E w \in Workers : pc[w] = "commit" /\ committed' = CommittedAt(w)
    BY DEF Next, vars, Assign, Revoke, ExpireLease, Advance, Fetch, FetchStopped, ClaimUpsert,
       ClaimSelect, Poll, PollCancelled, HandleSucceeds, Release, Complete, Commit, FetchFails,
       HandleFails, CallFails, Collect, Shutdown, DrainDeadline, Exit, Crash, Start
  <2>4. QED
    BY <2>1, <2>2, <2>3 DEF CommittedIsHandled
<1>3. CarriedSettled'
  <2>1. SUFFICES ASSUME NEW w \in Workers, InFlight(w)' PROVE Settled(at[w].part, at[w].n - 1)'
    BY DEF CarriedSettled
  <2>2. \/ InFlight(w) /\ at'[w] = at[w]
        \/ \E p \in Partitions : Fetch(w, p) /\ at'[w] = [part |-> p, n |-> position[p] + 1]
    BY <2>1, MessageStep
  <2>3. CASE InFlight(w) /\ at'[w] = at[w]
    BY <1>1, <2>3 DEF DeliveryInv, CarriedSettled, Settled, EventAt
  <2>4. ASSUME NEW p \in Partitions, Fetch(w, p), at'[w] = [part |-> p, n |-> position[p] + 1]
        PROVE  Settled(at[w].part, at[w].n - 1)'
    <3>1. position[p] \in Nat /\ owner[p] = w /\ pc[w] = "fetch" /\ w # None
      BY <2>4, Constants DEF Fetch, OffsetsOK
    <3>2. Settled(p, position[p])
      BY <3>1 DEF DeliveryInv, ReturnedSettled, InFlight, Settled
    <3>3. QED
      BY <1>1, <2>4, <3>1, <3>2 DEF Settled, EventAt
  <2>5. QED
    BY <2>2, <2>3, <2>4
<1>4. EndingHandled'
  <2>1. SUFFICES ASSUME NEW w \in Workers, pc'[w] \in {"complete", "commit"} PROVE EventOf(w)' \in handled'
    BY DEF EndingHandled
  <2>2. \/ pc[w] \in {"complete", "commit"}
        \/ EventOf(w) \in handled'
        \/ pc[w] = "select" /\ claims[EventOf(w)] = "processed"
    BY <2>1, EndingStep
  <2>3. at'[w] = at[w] /\ EventOf(w)' = EventOf(w)
    BY <2>1, MessageStep DEF EventOf, EventAt, InFlight, Ended, Fetch, Return, FetchError, WorkersOK
  <2>4. pc[w] = "select" => EventOf(w) \in Events
    BY EventOfType DEF Ended
  <2>5. QED
    BY <1>1, <2>2, <2>3, <2>4 DEF DeliveryInv, EndingHandled, MarkedHandled
<1>5. MarkedHandled'
  <2>1. SUFFICES ASSUME NEW e \in Events, claims'[e] = "processed" PROVE e \in handled'
    BY DEF MarkedHandled
  <2>2. \/ claims[e] = "processed"
        \/ \E w \in Workers : pc[w] = "complete" /\ EventOf(w) = e
    BY <2>1 DEF RecordsOK, Marked, Next, vars, Return, Assign, Revoke, ExpireLease, Advance, Fetch, FetchStopped, ClaimUpsert,
       ClaimSelect, Poll, PollCancelled, HandleSucceeds, Release, Complete, Commit, FetchFails,
       HandleFails, CallFails, Collect, Shutdown, DrainDeadline, Exit, Crash, Start
  <2>3. QED
    BY <1>1, <2>2 DEF DeliveryInv, EndingHandled, MarkedHandled
<1>6. StoppedIsGone'
  BY StoppedInductive DEF DeliveryInv
<1>7. ReturnedSettled'
  <2>1. SUFFICES ASSUME NEW p \in Partitions, owner'[p] # None
                 PROVE  /\ pc'[owner'[p]] \notin Ended
                        /\ \A i \in 1..position'[p] :
                             \/ EventAt(p, i) \in handled'
                             \/ /\ pc'[owner'[p]] \notin Ended \cup {"fetch"}
                                /\ at'[owner'[p]].part = p /\ at'[owner'[p]].n = i
    BY Zenon DEF ReturnedSettled, EventAt, InFlight
  <2>2. ASSUME NEW w \in Workers, Assign(p, w)
        PROVE  /\ owner'[p] = w /\ pc'[w] \notin Ended
               /\ \A i \in 1..position'[p] : EventAt(p, i) \in handled'
    BY <1>1, <2>2 DEF Assign, Alive, WorkersOK, OffsetsOK, DeliveryInv, CommittedIsHandled, Settled
  <2>3. ASSUME NEW w \in Workers, Fetch(w, p), owner'[p] = owner[p]
        PROVE  /\ owner'[p] = w /\ pc'[w] \notin Ended
               /\ \A i \in 1..position'[p] :
                    \/ EventAt(p, i) \in handled'
                    \/ InFlight(w)' /\ at'[w].part = p /\ at'[w].n = i
    <3>1. /\ owner[p] = w /\ w # None /\ pc[w] = "fetch"
          /\ position[p] \in Nat /\ position'[p] = position[p] + 1
      BY <2>3, Constants DEF Fetch, OffsetsOK
    <3>2. \A i \in 1..position[p] : EventAt(p, i) \in handled
      BY <3>1 DEF DeliveryInv, ReturnedSettled, InFlight
    <3>3. pc'[w] = "claim" /\ at'[w] = [part |-> p, n |-> position[p] + 1]
      BY <2>3, <3>1, Constants DEF Fetch, Return, WorkersOK
    <3>4. QED
      BY <1>1, <2>3, <3>1, <3>2, <3>3 DEF InFlight, Ended
  <2>4. ASSUME owner'[p] = owner[p], position'[p] = position[p]
        PROVE  /\ pc'[owner[p]] \notin Ended
               /\ \A i \in 1..position[p] :
                    \/ EventAt(p, i) \in handled'
                    \/ /\ pc'[owner[p]] \notin Ended \cup {"fetch"}
                       /\ at'[owner[p]].part = p /\ at'[owner[p]].n = i
    <3>1. PICK w \in Workers : w = owner[p]
      BY <2>1, <2>4 DEF WorkersOK
    <3>2. pc[w] \notin Ended
      BY <2>1, <2>4, <3>1 DEF DeliveryInv, ReturnedSettled
    <3>3. /\ pc'[w] \notin Ended
          /\ InFlight(w) => pc[w] = "commit" \/ (InFlight(w)' /\ at'[w] = at[w])
      BY <2>4, <3>1, <3>2, CarrierStep DEF DeliveryInv
    <3>4. ASSUME NEW i \in 1..position[p]
          PROVE  \/ EventAt(p, i) \in handled'
                 \/ InFlight(w)' /\ at'[w].part = p /\ at'[w].n = i
      <4>1. CASE EventAt(p, i) \in handled
        BY <1>1, <4>1
      <4>2. CASE InFlight(w) /\ at[w].part = p /\ at[w].n = i
        BY <1>1, <3>3, <4>2 DEF DeliveryInv, EndingHandled, EventOf
      <4>3. QED
        BY <2>1, <2>4, <3>1, <4>1, <4>2 DEF DeliveryInv, ReturnedSettled
    <3>5. QED
      BY <3>1, <3>3, <3>4 DEF InFlight
  <2>5. QED
    BY <2>1, <2>2, <2>3, <2>4, OwnerStep DEF InFlight
<1>8. QED
  BY <1>2, <1>3, <1>4, <1>5, <1>6, <1>7 DEF DeliveryInv

\* At-least-once: whatever the interleaving of workers, rebalances, lease takeovers, failed
\* calls and crashes, no offset is committed past a message nobody handled.
THEOREM CommittedOnlyAfterHandling == Spec => []CommittedIsHandled
<1>1. Init => DeliveryInv
  BY Constants DEF Init, DeliveryInv, CommittedIsHandled, CarriedSettled, EndingHandled, MarkedHandled,
     ReturnedSettled, StoppedIsGone, Settled, InFlight
<1>2. TypeOK /\ TypeOK' /\ DeliveryInv /\ [Next]_vars => DeliveryInv'
  BY DeliveryInductive
<1>3. DeliveryInv => CommittedIsHandled
  BY DEF DeliveryInv
<1>4. QED
  BY <1>1, <1>2, <1>3, TypeCorrect, PTL DEF Spec

\* The only steps that change what EventDelivery sees.
LEMMA VisibleStep ==
  ASSUME [Next]_vars
  PROVE  \/ UNCHANGED <<handled, committed>>
         \/ \E w \in Workers : HandleSucceeds(w)
         \/ \E w \in Workers : pc[w] = "commit" /\ committed' = CommittedAt(w) /\ UNCHANGED handled
BY DEF Next, vars, kafka, ghost, Assign, Revoke, ExpireLease, Advance, Fetch, FetchStopped,
   ClaimUpsert, ClaimSelect, Poll, PollCancelled, Release, Complete, Commit, FetchFails, HandleFails,
   CallFails, Collect, Shutdown, DrainDeadline, Exit, Crash, Start

\* The consumer group implements EventDelivery: handling a message is an abstract
\* HandleEvent, storing an offset an abstract CommitOffset, the rest stutters.
THEOREM ConsumerImplementsDelivery == Spec => ImplementsDelivery
<1>1. Init => Delivery!Init
  BY DEF Init, Delivery!Init
<1>2. TypeOK /\ DeliveryInv /\ [Next]_vars => [Delivery!Next]_Delivery!vars
  <2> SUFFICES ASSUME TypeOK, DeliveryInv, [Next]_vars PROVE [Delivery!Next]_Delivery!vars
    OBVIOUS
  <2>1. ASSUME NEW w \in Workers, HandleSucceeds(w) PROVE Delivery!Next
    <3>1. EventOf(w) \in Events
      BY <2>1, EventOfType DEF TypeOK, HandleSucceeds, Ended
    <3>2. Delivery!HandleEvent(EventOf(w))
      BY <2>1 DEF HandleSucceeds, kafka, Delivery!HandleEvent
    <3>3. QED
      BY <3>1, <3>2 DEF Delivery!Next
  <2>2. ASSUME NEW w \in Workers, pc[w] = "commit", committed' = CommittedAt(w), UNCHANGED handled
        PROVE  Delivery!Next
    <3>1. at[w].part \in Partitions /\ at[w].n \in 1..Len(Log[at[w].part]) /\ at[w].n \in Nat
      BY <2>2, EventOfType DEF TypeOK, Ended
    <3>2. Delivery!Settled(at[w].part, at[w].n)
      BY <2>2, <3>1
      DEF DeliveryInv, CarriedSettled, EndingHandled, InFlight, Settled, EventOf, EventAt, Ended,
          Delivery!Settled
    <3>3. Delivery!CommitOffset(at[w].part, at[w].n)
      BY <2>2, <3>2 DEF CommittedAt, Delivery!CommitOffset
    <3>4. QED
      BY <3>1, <3>3 DEF Delivery!Next
  <2>3. QED
    BY <2>1, <2>2, VisibleStep DEF Delivery!vars
<1>3. Init => DeliveryInv
  BY Constants DEF Init, DeliveryInv, CommittedIsHandled, CarriedSettled, EndingHandled, MarkedHandled,
     ReturnedSettled, StoppedIsGone, Settled, InFlight
<1>4. TypeOK /\ TypeOK' /\ DeliveryInv /\ [Next]_vars => DeliveryInv'
  BY DeliveryInductive
<1>5. QED
  BY <1>1, <1>2, <1>3, <1>4, TypeCorrect, PTL DEF Spec, ImplementsDelivery, Delivery!Spec

-----------------------------------------------------------------------------
(* Claims.                                                                 *)

\* A row only leaves the processing state by a step that finds it there.
LEMMA ClaimStep ==
  ASSUME RecordsOK, [Next]_vars, NEW e \in Events, claims[e] = "processed"
  PROVE  claims'[e] = "processed"
<1> USE DEF RecordsOK
<1>1. ASSUME NEW w \in Workers, Advance(w) \/ CallFails(w) PROVE claims'[e] = "processed"
  BY <1>1 DEF Advance, Fetch, FetchStopped, ClaimUpsert, ClaimSelect, Poll, PollCancelled,
     HandleSucceeds, Release, Complete, Commit, CallFails, Claimable, Marked, InProcessing
<1>2. QED
  BY <1>1 DEF Next, vars, Assign, Revoke, ExpireLease, FetchFails, HandleFails, Collect, Shutdown,
     DrainDeadline, Exit, Crash, Start

\* A worker starts handling only by taking a claim that was free or expired.
LEMMA HandleStep ==
  ASSUME WorkersOK, [Next]_vars, NEW w \in Workers, pc'[w] = "handle"
  PROVE  pc[w] = "handle" \/ (ClaimUpsert(w) /\ Claimable(EventOf(w)) /\ at'[w] = at[w])
<1> USE DEF WorkersOK, Ended, worker, Goto
<1>1. CASE (\E p \in Partitions : Fetch(w, p)) \/ FetchStopped(w) \/ FetchFails(w)
  BY <1>1 DEF Fetch, FetchStopped, FetchFails, Return, FetchError
<1>2. CASE PollCancelled(w) \/ Release(w) \/ CallFails(w) \/ Collect(w) \/ Crash \/ Start
  BY <1>2 DEF PollCancelled, Release, CallFails, Collect, Crash, Start, Return
<1>3. CASE ClaimUpsert(w) \/ Poll(w) \/ HandleSucceeds(w) \/ HandleFails(w) \/ Complete(w)
  BY <1>3 DEF ClaimUpsert, Poll, HandleSucceeds, HandleFails, Complete
<1>4. CASE ClaimSelect(w) \/ Commit(w)
  BY <1>4 DEF ClaimSelect, Commit, Return
<1>5. QED
  BY <1>1, <1>2, <1>3, <1>4, OwnStep DEF Advance

\* A processed event is never claimed, released or handled again.
THEOREM ProcessedStaysProcessed == Spec => ProcessedIsFinal
<1> DEFINE Final == \A e \in Events : claims[e] = "processed" =>
      /\ claims'[e] = "processed"
      /\ \A w \in Workers : pc'[w] = "handle" /\ EventOf(w)' = e => pc[w] = "handle"
<1>1. TypeOK /\ [Next]_vars => Final
  <2> SUFFICES ASSUME TypeOK, [Next]_vars, NEW e \in Events, claims[e] = "processed"
               PROVE  /\ claims'[e] = "processed"
                      /\ \A w \in Workers : pc'[w] = "handle" /\ EventOf(w)' = e => pc[w] = "handle"
    OBVIOUS
  <2>1. claims'[e] = "processed"
    BY ClaimStep DEF TypeOK
  <2>2. ASSUME NEW w \in Workers, pc'[w] = "handle", EventOf(w)' = e PROVE pc[w] = "handle"
    <3>1. at'[w] = at[w] => EventOf(w)' = EventOf(w)
      BY DEF EventOf, EventAt
    <3>2. QED
      BY <2>2, <3>1, HandleStep DEF TypeOK, Claimable
  <2>3. QED
    BY <2>1, <2>2
<1>2. QED
  BY <1>1, TypeCorrect, PTL DEF Spec, ProcessedIsFinal

-----------------------------------------------------------------------------
(* Exclusive handling, of the events whose lease no worker has outlived.    *)

\* A worker in the handler section holds its event's claim.
HandlersHold ==
  \A w \in Workers : pc[w] \in Holding /\ EventOf(w) \notin outlived => w \in holders[EventOf(w)]

\* A holder is in the handler section for that event.
HoldersHandle == \A e \in Events : \A w \in holders[e] : pc[w] \in Holding /\ EventOf(w) = e

\* It is the only one, and its claim is live.
OneHolder ==
  \A e \in Events \ outlived : \A w \in holders[e] :
    claims[e] = "processing" /\ holders[e] = {w}

ClaimInv == HandlersHold /\ HoldersHandle /\ OneHolder /\ StoppedIsGone

\* An event stays outlived until the process starts again, when no worker holds a claim.
LEMMA OutlivedStep ==
  ASSUME [Next]_vars, NEW e \in Events, e \notin outlived'
  PROVE  e \notin outlived \/ Start
BY DEF Next, vars, ghost, Assign, Revoke, ExpireLease, Advance, Fetch, FetchStopped, ClaimUpsert,
   ClaimSelect, Poll, PollCancelled, HandleSucceeds, Release, Complete, Commit, FetchFails,
   HandleFails, CallFails, Collect, Shutdown, DrainDeadline, Exit, Crash

\* How the holders of an event change.
LEMMA HoldersStep ==
  ASSUME WorkersOK, [Next]_vars, NEW e \in Events
  PROVE  \/ holders'[e] = holders[e]
         \/ \E w \in Workers :
              /\ ClaimUpsert(w) /\ Claimable(EventOf(w)) /\ EventOf(w) = e
              /\ holders'[e] = holders[e] \cup {w}
         \/ \E w \in Workers : pc'[w] \notin Holding /\ holders'[e] = holders[e] \ {w}
         \/ holders'[e] = {} /\ (ExpireLease(e) \/ Crash)
<1> USE DEF WorkersOK, ghost, Goto
<1>1. ASSUME NEW w \in Workers, NEW result \in Ended, Return(w, result)
      PROVE  pc'[w] \notin Holding /\ holders'[e] = holders[e] \ {w}
  BY <1>1 DEF Return, Ended, Holding
<1>2. ASSUME NEW w \in Workers, (\E p \in Partitions : Fetch(w, p)) \/ FetchStopped(w) \/ FetchFails(w)
      PROVE  holders'[e] = holders[e] \/ \E result \in Ended : Return(w, result)
  BY <1>2, FetchErrorType DEF Fetch, FetchStopped, FetchFails
<1>3. ASSUME NEW w \in Workers, ClaimSelect(w) \/ PollCancelled(w) \/ Release(w) \/ CallFails(w)
      PROVE  holders'[e] = holders[e] \/ \E result \in Ended : Return(w, result)
  BY <1>3 DEF ClaimSelect, PollCancelled, Release, CallFails, Ended
<1>4. ASSUME NEW w \in Workers, Poll(w) \/ HandleSucceeds(w) \/ HandleFails(w) \/ Commit(w) \/ Collect(w)
      PROVE  holders'[e] = holders[e]
  BY <1>4 DEF Poll, HandleSucceeds, HandleFails, Commit, Collect
<1>5. ASSUME NEW w \in Workers, Complete(w)
      PROVE  \/ holders'[e] = holders[e]
             \/ pc'[w] \notin Holding /\ holders'[e] = holders[e] \ {w}
  <2>1. pc'[w] \notin Holding
    BY <1>5 DEF Complete, Holding
  <2>2. holders' = [holders EXCEPT ![EventOf(w)] = @ \ {w}]
    BY <1>5 DEF Complete
  <2>3. QED
    BY <2>1, <2>2
<1>6. ASSUME NEW w \in Workers, ClaimUpsert(w)
      PROVE  \/ holders'[e] = holders[e]
             \/ /\ ClaimUpsert(w) /\ Claimable(EventOf(w)) /\ EventOf(w) = e
                /\ holders'[e] = holders[e] \cup {w}
  BY <1>6 DEF ClaimUpsert
<1>7. ASSUME NEW x \in Events, ExpireLease(x)
      PROVE  holders'[e] = holders[e] \/ (holders'[e] = {} /\ ExpireLease(e))
  BY <1>7 DEF ExpireLease
<1>8. CASE Shutdown \/ DrainDeadline \/ Exit \/ Start \/ UNCHANGED vars
  BY <1>8 DEF Shutdown, DrainDeadline, Exit, Start, vars
<1>9. CASE Crash
  BY <1>9 DEF Crash
<1>10. ASSUME NEW p \in Partitions, (\E w \in Workers : Assign(p, w)) \/ Revoke(p)
       PROVE  holders'[e] = holders[e]
  BY <1>10 DEF Assign, Revoke
<1>11. QED
  BY <1>1, <1>2, <1>3, <1>4, <1>5, <1>6, <1>7, <1>8, <1>9, <1>10 DEF Next, Advance

\* How a live claim ends: its lease runs out, or a worker that then lets go of it ends it.
LEMMA LiveClaimStep ==
  ASSUME RecordsOK, WorkersOK, [Next]_vars, NEW e \in Events, claims[e] = "processing"
  PROVE  \/ claims'[e] = "processing"
         \/ ExpireLease(e)
         \/ \E w \in Workers : pc[w] \in Holding /\ EventOf(w) = e /\ w \notin holders'[e]
<1> USE DEF RecordsOK, WorkersOK, Holding
<1>1. ASSUME NEW w \in Workers, Release(w) \/ CallFails(w) \/ Complete(w)
      PROVE  \/ claims'[e] = "processing"
             \/ pc[w] \in Holding /\ EventOf(w) = e /\ w \notin holders'[e]
  BY <1>1 DEF Release, CallFails, Complete, Return, Marked, Claimable
<1>2. ASSUME NEW w \in Workers, ClaimUpsert(w) PROVE claims'[e] = "processing"
  BY <1>2 DEF ClaimUpsert
<1>3. ASSUME NEW x \in Events, ExpireLease(x) PROVE claims'[e] = "processing" \/ ExpireLease(e)
  BY <1>3 DEF ExpireLease
<1>4. QED
  BY <1>1, <1>2, <1>3 DEF Next, vars, Advance, Assign, Revoke, Fetch, FetchStopped, ClaimSelect, Poll,
     PollCancelled, HandleSucceeds, Commit, FetchFails, HandleFails, Collect, Shutdown, DrainDeadline,
     Exit, Crash, Start

\* A worker is in the handler section because it was, or because it has just claimed.
LEMMA HoldingStep ==
  ASSUME WorkersOK, [Next]_vars, NEW w \in Workers, pc'[w] \in Holding
  PROVE  /\ at'[w] = at[w] /\ pc'[w] # "fetch"
         /\ pc[w] \in Holding \/ (ClaimUpsert(w) /\ w \in holders'[EventOf(w)])
<1> USE DEF WorkersOK, Ended, Holding, worker, Goto
<1>1. CASE (\E p \in Partitions : Fetch(w, p)) \/ FetchStopped(w) \/ FetchFails(w)
  BY <1>1 DEF Fetch, FetchStopped, FetchFails, Return, FetchError
<1>2. CASE PollCancelled(w) \/ Release(w) \/ CallFails(w) \/ Collect(w) \/ Crash \/ Start
  BY <1>2 DEF PollCancelled, Release, CallFails, Collect, Crash, Start, Return
<1>3. CASE Poll(w) \/ HandleSucceeds(w) \/ HandleFails(w) \/ Complete(w)
  BY <1>3 DEF Poll, HandleSucceeds, HandleFails, Complete
<1>4. CASE ClaimSelect(w) \/ Commit(w)
  BY <1>4 DEF ClaimSelect, Commit, Return
<1>5. CASE ClaimUpsert(w)
  <2>1. EventOf(w) \in Events
    BY <1>5, EventOfType DEF ClaimUpsert
  <2>2. QED
    BY <1>5, <2>1 DEF ClaimUpsert
<1>6. QED
  BY <1>1, <1>2, <1>3, <1>4, <1>5, OwnStep DEF Advance

\* A worker that stays a holder stays in the handler section.
LEMMA KeepsHolding ==
  ASSUME WorkersOK, StoppedIsGone, [Next]_vars, NEW e \in Events, NEW w \in Workers,
         pc[w] \in Holding, EventOf(w) = e, w \in holders'[e]
  PROVE  pc'[w] \in Holding
<1> USE DEF WorkersOK, Holding, Goto
<1>1. CASE Release(w) \/ CallFails(w) \/ Complete(w)
  BY <1>1 DEF Release, CallFails, Complete, Return
<1>2. CASE HandleSucceeds(w) \/ HandleFails(w)
  BY <1>2 DEF HandleSucceeds, HandleFails
<1>3. CASE Crash \/ Start
  BY <1>3 DEF Crash, Start, StoppedIsGone
<1>4. QED
  BY <1>1, <1>2, <1>3, OwnStep DEF Advance, Fetch, FetchStopped, ClaimUpsert, ClaimSelect, Poll,
     PollCancelled, Commit, FetchFails, Collect

\* ClaimInv is inductive.
LEMMA ClaimInductive ==
  ASSUME TypeOK, TypeOK', ClaimInv, [Next]_vars
  PROVE  ClaimInv'
<1> USE DEF TypeOK, ClaimInv
<1>1. StoppedIsGone'
  BY StoppedInductive
<1>2. ASSUME NEW w \in Workers, at'[w] = at[w] PROVE EventOf(w)' = EventOf(w)
  BY <1>2 DEF EventOf, EventAt
\* An event with a holder that a lease runs out on is outlived.
<1>3. ASSUME NEW e \in Events, ExpireLease(e), e \notin outlived' PROVE holders[e] = {}
  BY <1>3 DEF ExpireLease
\* No worker is in the handler section when the process starts.
<1>4. ASSUME Start, NEW w \in Workers PROVE pc[w] \notin Holding /\ pc'[w] \notin Holding
  BY <1>4 DEF Start, StoppedIsGone, Holding, WorkersOK
<1>5. HandlersHold'
  <2>1. SUFFICES ASSUME NEW w \in Workers, pc'[w] \in Holding, EventOf(w) \notin outlived'
                 PROVE  w \in holders'[EventOf(w)]
    BY <1>2, HoldingStep DEF HandlersHold
  <2>2. CASE pc[w] \in Holding
    <3>1. EventOf(w) \in Events
      BY <2>2, EventOfType DEF Holding, Ended
    <3>2. EventOf(w) \notin outlived
      BY <1>4, <2>1, <3>1, OutlivedStep
    <3>3. w \in holders[EventOf(w)]
      BY <2>2, <3>2 DEF HandlersHold
    <3>4. ~Crash
      BY <2>1 DEF Crash, Holding
    <3>5. QED
      BY <1>3, <2>1, <3>1, <3>3, <3>4, HoldersStep
  <2>3. QED
    BY <2>1, <2>2, HoldingStep
\* A worker that stays a holder.
<1>6. ASSUME NEW e \in Events, NEW w \in Workers, w \in holders'[e], w \in holders[e]
      PROVE  pc'[w] \in Holding /\ EventOf(w)' = e
  <2>1. pc[w] \in Holding /\ EventOf(w) = e
    BY <1>6 DEF HoldersHandle
  <2>2. pc'[w] \in Holding
    BY <1>6, <2>1, KeepsHolding
  <2>3. QED
    BY <1>2, <2>1, <2>2, HoldingStep
\* A worker that becomes a holder.
<1>7. ASSUME NEW e \in Events, NEW w \in Workers, ClaimUpsert(w), Claimable(EventOf(w)), EventOf(w) = e
      PROVE  pc'[w] \in Holding /\ EventOf(w)' = e /\ claims'[e] = "processing"
  <2>1. pc'[w] = "handle" /\ at'[w] = at[w] /\ claims'[e] = "processing"
    BY <1>7 DEF ClaimUpsert, Goto, WorkersOK, RecordsOK
  <2>2. QED
    BY <1>2, <1>7, <2>1 DEF Holding
<1>8. HoldersHandle'
  <2>1. SUFFICES ASSUME NEW e \in Events, NEW w \in Workers, w \in holders'[e]
                 PROVE  pc'[w] \in Holding /\ EventOf(w)' = e
    BY DEF HoldersHandle, WorkersOK
  <2>2. CASE w \in holders[e]
    BY <1>6, <2>1, <2>2
  <2>3. CASE w \notin holders[e]
    BY <1>7, <2>1, <2>3, HoldersStep
  <2>4. QED
    BY <2>2, <2>3
<1>9. OneHolder'
  <2>1. SUFFICES ASSUME NEW e \in Events, e \notin outlived', NEW w \in Workers, w \in holders'[e]
                 PROVE  claims'[e] = "processing" /\ holders'[e] = {w}
    BY DEF OneHolder, WorkersOK
  <2>2. ~Start
    BY <1>4, <1>8, <2>1 DEF HoldersHandle
  <2>3. e \notin outlived
    BY <2>1, <2>2, OutlivedStep
  <2>4. CASE holders'[e] \subseteq holders[e]
    <3>1. claims[e] = "processing" /\ holders[e] = {w}
      BY <2>1, <2>3, <2>4 DEF OneHolder
    <3>2. claims'[e] = "processing"
      <4>1. ASSUME NEW v \in Workers, pc[v] \in Holding, EventOf(v) = e, v \notin holders'[e]
            PROVE  FALSE
        BY <2>1, <2>3, <3>1, <4>1 DEF HandlersHold
      <4>2. QED
        BY <1>3, <2>1, <3>1, <4>1, LiveClaimStep
    <3>3. QED
      BY <2>1, <2>4, <3>1, <3>2
  <2>5. CASE \E v \in Workers : /\ ClaimUpsert(v) /\ Claimable(EventOf(v)) /\ EventOf(v) = e
                               /\ holders'[e] = holders[e] \cup {v}
    <3>1. PICK v \in Workers : /\ ClaimUpsert(v) /\ Claimable(EventOf(v)) /\ EventOf(v) = e
                               /\ holders'[e] = holders[e] \cup {v}
      BY <2>5
    <3>2. holders[e] = {}
      BY <2>3, <3>1 DEF OneHolder, Claimable, WorkersOK
    <3>3. QED
      BY <1>7, <2>1, <3>1, <3>2
  <2>6. QED
    BY <2>1, <2>4, <2>5, HoldersStep
<1>10. QED
  BY <1>1, <1>5, <1>8, <1>9

\* At most one worker is ever inside the handler section for an event, unless a worker has
\* held it longer than its lease.
THEOREM OneHandlerPerEvent == Spec => []ExclusiveWithinLease
<1>1. Init => ClaimInv
  BY DEF Init, ClaimInv, HandlersHold, HoldersHandle, OneHolder, StoppedIsGone, Holding
<1>2. TypeOK /\ TypeOK' /\ ClaimInv /\ [Next]_vars => ClaimInv'
  BY ClaimInductive
<1>3. TypeOK /\ ClaimInv => ExclusiveWithinLease
  <2> SUFFICES ASSUME TypeOK, ClaimInv, NEW w \in Workers, NEW v \in Workers,
                      pc[w] \in Holding, pc[v] \in Holding, EventOf(w) = EventOf(v),
                      EventOf(w) \notin outlived
               PROVE  w = v
    BY DEF ExclusiveWithinLease
  <2>1. EventOf(w) \in Events
    BY EventOfType DEF TypeOK, Holding, Ended
  <2>2. w \in holders[EventOf(w)] /\ v \in holders[EventOf(w)]
    BY DEF ClaimInv, HandlersHold
  <2>3. QED
    BY <2>1, <2>2 DEF ClaimInv, OneHolder
<1>4. QED
  BY <1>1, <1>2, <1>3, TypeCorrect, PTL DEF Spec
-----------------------------------------------------------------------------
(* A clean exit.  That no claim is left open at the exit rests on every    *)
(* claim being in the hands of a worker as long as no worker has failed.   *)

\* A worker between its claim and the commit of its message.
Open(w) == pc[w] \in Holding \cup {"commit"}

NobodyFailed == ~firstErr /\ \A w \in Workers : pc[w] # "failed"

\* Every event claimed and not yet committed is in the hands of a worker.
OpenIsHeld ==
  process = "running" /\ NobodyFailed =>
    \A e \in taken : \E w \in Workers : Open(w) /\ EventOf(w) = e

OpenInv == OpenIsHeld /\ CleanExitLeavesNothingOpen

\* A worker goes on with the message it has claimed until it commits it, fails or crashes.
LEMMA OpenStep ==
  ASSUME WorkersOK, [Next]_vars, process = "running", NEW w \in Workers, Open(w)
  PROVE  \/ Open(w)' /\ at'[w] = at[w]
         \/ pc'[w] = "failed"
         \/ Commit(w)
         \/ Crash
<1> USE DEF WorkersOK, Open, Holding, worker, Goto
<1>1. CASE Release(w) \/ CallFails(w)
  BY <1>1 DEF Release, CallFails, Return
<1>2. CASE HandleSucceeds(w) \/ HandleFails(w) \/ Complete(w)
  BY <1>2 DEF HandleSucceeds, HandleFails, Complete
<1>3. CASE Collect(w) \/ Start
  BY <1>3 DEF Collect, Start
<1>4. QED
  BY <1>1, <1>2, <1>3, OwnStep DEF Advance, Fetch, FetchStopped, ClaimUpsert, ClaimSelect, Poll,
     PollCancelled, FetchFails

\* An event is claimed by a worker that then has it in hand; a start forgets the claims.
LEMMA TakenStep ==
  ASSUME WorkersOK, [Next]_vars, NEW e, e \in taken'
  PROVE  /\ e \in taken \/ \E w \in Workers : Open(w)' /\ at'[w] = at[w] /\ EventOf(w) = e
         /\ ~Start
         /\ \A w \in Workers : Commit(w) => e # EventOf(w)
<1> USE DEF WorkersOK, ghost, Goto
<1>1. ASSUME NEW w \in Workers, ClaimUpsert(w)
      PROVE  e \in taken \/ (Open(w)' /\ at'[w] = at[w] /\ EventOf(w) = e)
  BY <1>1 DEF ClaimUpsert, Open, Holding
<1>2. ASSUME NEW w \in Workers, Commit(w) PROVE e \in taken /\ e # EventOf(w)
  BY <1>2 DEF Commit
<1>3. ~Start
  BY DEF Start
<1>4. QED
  BY <1>1, <1>2, <1>3 DEF Next, vars, Assign, Revoke, ExpireLease, Advance, Fetch, FetchStopped,
     ClaimSelect, Poll, PollCancelled, HandleSucceeds, Release, Complete, FetchFails, HandleFails,
     CallFails, Collect, Shutdown, DrainDeadline, Exit, Crash

\* The group remembers a failure for as long as the process runs.
LEMMA FailureStep ==
  ASSUME TypeOK, [Next]_vars, process = "running", process' = "running", NobodyFailed'
  PROVE  NobodyFailed
<1> USE DEF TypeOK, FlagsOK, WorkersOK, NobodyFailed, group, worker, Goto
<1>1. ~Start
  BY DEF Start
<1>2. firstErr => firstErr'
  <2>1. ASSUME NEW w \in Workers, Collect(w) PROVE firstErr => firstErr'
    BY <2>1, Zenon DEF Collect
  <2>2. QED
    BY <1>1, <2>1, Zenon DEF Next, vars, Assign, Revoke, ExpireLease, Advance, Fetch, FetchStopped,
       ClaimUpsert, ClaimSelect, Poll, PollCancelled, HandleSucceeds, Release, Complete, Commit,
       FetchFails, HandleFails, CallFails, Shutdown, DrainDeadline, Exit, Crash
<1>3. ASSUME NEW w \in Workers, pc[w] = "failed" PROVE pc'[w] = "failed" \/ firstErr'
  <2>1. ASSUME Collect(w) PROVE firstErr'
    BY <1>3, <2>1, Zenon DEF Collect
  <2>2. ~Crash
    BY DEF Crash
  <2>3. QED
    BY <1>1, <1>3, <2>1, <2>2, OwnStep DEF Advance, Fetch, FetchStopped, ClaimUpsert, ClaimSelect,
       Poll, PollCancelled, HandleSucceeds, Release, Complete, Commit, FetchFails, HandleFails,
       CallFails, Alive, Ended
<1>4. QED
  BY <1>2, <1>3

\* The process ends by an exit, when its workers are gone, or by a crash.
LEMMA EndStep ==
  ASSUME [Next]_vars, process' = "clean"
  PROVE  /\ UNCHANGED taken
         /\ process = "clean" \/ (process = "running" /\ ~firstErr /\ \A w \in Workers : pc[w] = "gone")
<1>1. ASSUME Exit PROVE /\ UNCHANGED taken
                       /\ process = "running" /\ ~firstErr /\ \A w \in Workers : pc[w] = "gone"
  BY <1>1 DEF Exit, ghost
<1>2. ASSUME NEW w \in Workers, Advance(w) \/ FetchFails(w) \/ HandleFails(w) \/ CallFails(w) \/ Collect(w)
      PROVE  process = "running" /\ UNCHANGED process
  BY <1>2, Zenon DEF Advance, Fetch, FetchStopped, ClaimUpsert, ClaimSelect, Poll, PollCancelled,
     HandleSucceeds, Release, Complete, Commit, FetchFails, HandleFails, CallFails, Collect, Alive,
     group
<1>3. QED
  BY <1>1, <1>2 DEF Next, vars, ghost, group, Assign, Revoke, ExpireLease, Shutdown,
     DrainDeadline, Crash, Start

\* OpenInv is inductive.
LEMMA OpenInductive ==
  ASSUME TypeOK, OpenInv, [Next]_vars
  PROVE  OpenInv'
<1> USE DEF OpenInv
<1>1. ASSUME NEW w \in Workers, at'[w] = at[w] PROVE EventOf(w)' = EventOf(w)
  BY <1>1 DEF EventOf, EventAt
<1>2. OpenIsHeld'
  <2>1. SUFFICES ASSUME process' = "running", NobodyFailed', NEW e \in taken'
                 PROVE  \E w \in Workers : Open(w)' /\ EventOf(w)' = e
    BY DEF OpenIsHeld
  <2>2. CASE e \notin taken
    BY <1>1, <2>2, TakenStep DEF TypeOK
  <2>3. CASE e \in taken
    <3>1. ~Start /\ \A w \in Workers : Commit(w) => e # EventOf(w)
      BY TakenStep DEF TypeOK
    <3>2. process = "running"
      BY <2>1, <3>1, Zenon DEF Next, vars, group, Assign, Revoke, ExpireLease, Advance, Fetch, FetchStopped,
         ClaimUpsert, ClaimSelect, Poll, PollCancelled, HandleSucceeds, Release, Complete, Commit,
         FetchFails, HandleFails, CallFails, Collect, Shutdown, DrainDeadline, Exit, Crash, Alive
    <3>3. NobodyFailed
      BY <2>1, <3>2, FailureStep
    <3>4. PICK w \in Workers : Open(w) /\ EventOf(w) = e
      BY <2>3, <3>2, <3>3 DEF OpenIsHeld
    <3>5. ~Crash /\ pc'[w] # "failed"
      BY <2>1 DEF Crash, NobodyFailed
    <3>6. Open(w)' /\ at'[w] = at[w]
      BY <3>1, <3>2, <3>4, <3>5, OpenStep DEF TypeOK
    <3>7. QED
      BY <1>1, <3>4, <3>6
  <2>4. QED
    BY <2>2, <2>3
<1>3. CleanExitLeavesNothingOpen'
  <2>1. SUFFICES ASSUME process' = "clean" PROVE taken' = {}
    BY DEF CleanExitLeavesNothingOpen
  <2>2. CASE process = "clean"
    BY <2>1, <2>2, EndStep DEF CleanExitLeavesNothingOpen
  <2>3. CASE process = "running" /\ ~firstErr /\ \A w \in Workers : pc[w] = "gone"
    BY <2>1, <2>3, EndStep DEF OpenIsHeld, NobodyFailed, Open, Holding
  <2>4. QED
    BY <2>1, <2>2, <2>3, EndStep
<1>4. QED
  BY <1>2, <1>3

\* A process that exits without an error has committed every message it claimed.
THEOREM CleanExit == Spec => []CleanExitLeavesNothingOpen
<1>1. Init => OpenInv
  BY DEF Init, OpenInv, OpenIsHeld, CleanExitLeavesNothingOpen
<1>2. TypeOK /\ OpenInv /\ [Next]_vars => OpenInv'
  BY OpenInductive
<1>3. QED
  BY <1>1, <1>2, TypeCorrect, PTL DEF Spec, OpenInv
=============================================================================
