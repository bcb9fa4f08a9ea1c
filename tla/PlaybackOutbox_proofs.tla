------------------------ MODULE PlaybackOutbox_proofs ------------------------
(***************************************************************************)
(* Theorems about PlaybackOutbox, for any events, requests, batches and    *)
(* faults, and their proofs.                                               *)
(***************************************************************************)
EXTENDS PlaybackOutbox, TLAPS

\* What the proofs need of the constants.
LEMMA Constants ==
  /\ \A r \in Requests : Body[r] \in Seq(Events) /\ Len(Body[r]) \in Nat
  /\ MaxAttempts \in Nat \ {0}
  /\ MaxFaults \in Nat
BY OutboxAssumption

\* A request in store is at one of its events.
LEMMA CurrentType ==
  ASSUME RequestsOK, NEW r \in Requests, pc[r] \in InStore
  PROVE  /\ Len(answers[r]) \in Nat
         /\ Len(answers[r]) + 1 \in 1..Len(Body[r])
         /\ Current(r) \in Events
<1>1. answers[r] \in Seq({"accepted", "duplicate"}) /\ Len(answers[r]) < Len(Body[r])
  BY DEF RequestsOK
<1>2. Body[r] \in Seq(Events) /\ Len(Body[r]) \in Nat
  BY Constants
<1>3. Len(answers[r]) \in Nat /\ Len(answers[r]) + 1 \in 1..Len(Body[r])
  BY <1>1, <1>2
<1>4. QED
  BY <1>2, <1>3 DEF Current

\* Sending a request somewhere keeps the types, if it is sent into store with an event left.
LEMMA GotoType ==
  ASSUME RequestsOK, NEW r \in Requests, NEW label \in InStore \cup Answered, Goto(r, label),
         label \in InStore => Len(answers[r]) < Len(Body[r]),
         UNCHANGED <<answers, cancelled>>
  PROVE  RequestsOK'
BY DEF RequestsOK, Goto, InStore, Direct, Answered

\* So does a result: the request goes on while it has events left.
LEMMA ResultType ==
  ASSUME RequestsOK, NEW r \in Requests, pc[r] \in InStore,
         NEW status \in {"accepted", "duplicate"}, Result(r, status), UNCHANGED cancelled
  PROVE  /\ RequestsOK'
         /\ answers' = [answers EXCEPT ![r] = Append(@, status)]
         /\ Len(answers'[r]) = Len(answers[r]) + 1
         /\ \A i \in 1..Len(answers[r]) : answers'[r][i] = answers[r][i]
         /\ answers'[r][Len(answers[r]) + 1] = status
         /\ \/ pc' = [pc EXCEPT ![r] = "202"] /\ Len(answers'[r]) = Len(Body[r])
            \/ pc' = [pc EXCEPT ![r] = "insert"] /\ Len(answers'[r]) < Len(Body[r])
<1>1. answers[r] \in Seq({"accepted", "duplicate"}) /\ Len(answers[r]) \in Nat /\ Len(Body[r]) \in Nat
      /\ Len(answers[r]) < Len(Body[r])
  BY Constants DEF RequestsOK
<1>2. answers' = [answers EXCEPT ![r] = Append(@, status)]
  BY DEF Result
<1>3. answers'[r] = Append(answers[r], status)
  BY <1>2 DEF RequestsOK
<1>4. /\ Len(answers'[r]) = Len(answers[r]) + 1
      /\ \A i \in 1..Len(answers[r]) : answers'[r][i] = answers[r][i]
      /\ answers'[r][Len(answers[r]) + 1] = status
      /\ answers'[r] \in Seq({"accepted", "duplicate"})
  BY <1>1, <1>3
<1>5. \/ pc' = [pc EXCEPT ![r] = "202"] /\ Len(answers'[r]) = Len(Body[r])
      \/ pc' = [pc EXCEPT ![r] = "insert"] /\ Len(answers'[r]) < Len(Body[r])
  <2>1. Goto(r, IF Len(answers'[r]) = Len(Body[r]) THEN "202" ELSE "insert")
    BY Zenon DEF Result
  <2>2. Len(answers'[r]) = Len(Body[r]) \/ Len(answers'[r]) < Len(Body[r])
    BY <1>1, <1>4
  <2>3. CASE Len(answers'[r]) = Len(Body[r])
    BY <2>1, <2>3, Zenon DEF Goto
  <2>4. CASE Len(answers'[r]) # Len(Body[r])
    BY <2>1, <2>2, <2>4, Zenon DEF Goto
  <2>5. QED
    BY <2>3, <2>4
<1>6. answers' \in [Requests -> Seq({"accepted", "duplicate"})]
  BY <1>2, <1>3, <1>4 DEF RequestsOK
<1>7. \A s \in Requests :
        /\ Len(answers'[s]) <= Len(Body[s])
        /\ pc'[s] = "new" => answers'[s] = <<>>
        /\ pc'[s] \in InStore => Len(answers'[s]) < Len(Body[s])
  <2> SUFFICES ASSUME NEW s \in Requests
               PROVE  /\ Len(answers'[s]) <= Len(Body[s])
                      /\ pc'[s] = "new" => answers'[s] = <<>>
                      /\ pc'[s] \in InStore => Len(answers'[s]) < Len(Body[s])
    OBVIOUS
  <2>1. CASE s = r
    BY <2>1, <1>1, <1>4, <1>5 DEF RequestsOK, InStore, Direct
  <2>2. CASE s # r
    BY <2>2, <1>2, <1>5 DEF RequestsOK
  <2>3. QED
    BY <2>1, <2>2
<1>8. pc' \in [Requests -> {"new"} \cup InStore \cup Answered]
  BY <1>5 DEF RequestsOK, InStore, Answered
<1>9. QED
  BY <1>2, <1>4, <1>5, <1>6, <1>7, <1>8 DEF RequestsOK

\* Counting a failure keeps the type of the counts.
LEMMA CountedType ==
  ASSUME OutboxOK, NEW e \in Events
  PROVE  /\ Counted(e) \in [Events -> Nat]
         /\ Marked(e) \subseteq Events
BY DEF OutboxOK, Counted, Marked

\* A store of the current event keeps the type of the ledger.
LEMMA AppendType ==
  ASSUME OutboxOK, NEW e \in Events
  PROVE  Append(ledger, e) \in Seq(Events)
BY DEF OutboxOK

\* What is stored are events.
LEMMA StoredType ==
  ASSUME OutboxOK
  PROVE  Stored \subseteq Events
BY DEF OutboxOK, Stored

\* Every variable keeps its type; a request in store has an event left to store.
THEOREM TypeCorrect == Spec => []TypeOK
<1>1. Init => TypeOK
  BY Constants DEF Init, TypeOK, OutboxOK, RequestsOK, ProcessOK, InStore, Direct
<1>2. TypeOK /\ [Next]_vars => TypeOK'
  <2> SUFFICES ASSUME OutboxOK, RequestsOK, ProcessOK, [Next]_vars
               PROVE  OutboxOK' /\ RequestsOK' /\ ProcessOK'
    BY DEF TypeOK
  <2> USE Constants DEF outbox, kafka, client, sweep
  <2>1. ASSUME NEW r \in Requests, Receive(r) PROVE OutboxOK' /\ RequestsOK' /\ ProcessOK'
    <3>1. answers[r] = <<>> /\ Len(Body[r]) \in Nat /\ (Body[r] # <<>> => Len(Body[r]) > 0)
      BY <2>1 DEF RequestsOK, Receive
    <3>2. PICK label \in {"400", "insert"} :
            Goto(r, label) /\ (label = "insert" => Len(answers[r]) < Len(Body[r]))
      BY <2>1, <3>1 DEF Receive
    <3>3. RequestsOK'
      BY <2>1, <3>2, GotoType DEF Receive, InStore, Direct, Answered
    <3>4. QED
      BY <2>1, <3>3 DEF OutboxOK, ProcessOK, Receive
  <2>2. ASSUME NEW r \in Requests, Insert(r) PROVE OutboxOK' /\ RequestsOK' /\ ProcessOK'
    <3>1. pc[r] \in InStore /\ Len(answers[r]) < Len(Body[r]) /\ Current(r) \in Events
      BY <2>2, CurrentType DEF Insert, Serving, RequestsOK, InStore
    <3>2. RequestsOK'
      <4>1. CASE Goto(r, "publish") /\ UNCHANGED answers
        BY <2>2, <3>1, <4>1, GotoType DEF Insert, InStore, Direct
      <4>2. CASE Result(r, "duplicate")
        BY <2>2, <3>1, <4>2, ResultType DEF Insert
      <4>3. QED
        BY <2>2, <4>1, <4>2 DEF Insert
    <3>3. ledger' \in Seq(Events)
      BY <2>2, <3>1, AppendType DEF Insert, OutboxOK
    <3>4. QED
      BY <2>2, <3>2, <3>3 DEF Insert, OutboxOK, ProcessOK
  <2>3. ASSUME NEW r \in Requests, InsertTooLarge(r) PROVE OutboxOK' /\ RequestsOK' /\ ProcessOK'
    <3>1. RequestsOK'
      BY <2>3, GotoType DEF InsertTooLarge, InStore, Direct, Answered
    <3>2. QED
      BY <2>3, <3>1 DEF InsertTooLarge, OutboxOK, ProcessOK
  <2>4. ASSUME NEW r \in Requests, InsertFails(r) PROVE OutboxOK' /\ RequestsOK' /\ ProcessOK'
    <3>1. RequestsOK'
      BY <2>4, GotoType DEF InsertFails, InStore, Direct, Answered
    <3>2. Current(r) \in Events
      BY <2>4, CurrentType DEF InsertFails, Serving, InStore
    <3>3. ledger' \in Seq(Events)
      BY <2>4, <3>2, AppendType DEF InsertFails, OutboxOK
    <3>4. faults' \in 0..MaxFaults
      BY <2>4 DEF InsertFails, ProcessOK, Fault, NoFault
    <3>5. QED
      BY <2>4, <3>1, <3>3, <3>4 DEF InsertFails, OutboxOK, ProcessOK
  <2>5. ASSUME NEW r \in Requests, DirectPublish(r) PROVE OutboxOK' /\ RequestsOK' /\ ProcessOK'
    <3>1. pc[r] \in InStore /\ Len(answers[r]) < Len(Body[r]) /\ Current(r) \in Events
      BY <2>5, CurrentType DEF DirectPublish, Serving, RequestsOK, InStore, Direct
    <3>2. PICK label \in {"mark", "record"} : Goto(r, label)
      BY <2>5 DEF DirectPublish
    <3>3. RequestsOK'
      BY <2>5, <3>1, <3>2, GotoType DEF DirectPublish, InStore, Direct
    <3>4. faults' \in 0..MaxFaults
      BY <2>5 DEF DirectPublish, ProcessOK, Fails, Fault, NoFault
    <3>5. delivered' \subseteq Events
      BY <2>5, <3>1 DEF DirectPublish, OutboxOK
    <3>6. QED
      BY <2>5, <3>3, <3>4, <3>5 DEF DirectPublish, OutboxOK, ProcessOK
  <2>6. ASSUME NEW r \in Requests, DirectRecord(r) \/ DirectMark(r) PROVE OutboxOK' /\ RequestsOK' /\ ProcessOK'
    <3>1. pc[r] \in InStore /\ Current(r) \in Events
      BY <2>6, CurrentType DEF DirectRecord, DirectMark, Serving, InStore, Direct
    <3>2. RequestsOK'
      BY <2>6, <3>1, ResultType DEF DirectRecord, DirectMark
    <3>3. faults' \in 0..MaxFaults
      BY <2>6 DEF DirectRecord, DirectMark, ProcessOK, Fault, NoFault
    <3>4. attempts' \in [Events -> Nat] /\ published' \subseteq Events
      BY <2>6, <3>1, CountedType DEF DirectRecord, DirectMark, OutboxOK
    <3>5. QED
      BY <2>6, <3>2, <3>3, <3>4 DEF DirectRecord, DirectMark, OutboxOK, ProcessOK
  <2>7. ASSUME NEW r \in Requests, Cancel(r) PROVE OutboxOK' /\ RequestsOK' /\ ProcessOK'
    BY <2>7 DEF OutboxOK, RequestsOK, ProcessOK, Cancel, Fault
  <2>8. ASSUME RelayFetch PROVE OutboxOK' /\ RequestsOK' /\ ProcessOK'
    <3>1. Fetched \subseteq Events
      BY StoredType DEF Fetched, Due
    <3>2. QED
      BY <2>8, <3>1 DEF OutboxOK, RequestsOK, ProcessOK, RelayFetch, Direct
  <2>9. ASSUME NEW e \in Events, RelayPublish(e) PROVE OutboxOK' /\ RequestsOK' /\ ProcessOK'
    <3>1. OutboxOK' /\ RequestsOK'
      BY <2>9 DEF OutboxOK, RequestsOK, RelayPublish
    <3>2. faults' \in 0..MaxFaults /\ relay' \in Direct
      BY <2>9 DEF RelayPublish, ProcessOK, Fails, Fault, NoFault, Direct
    <3>3. QED
      BY <2>9, <3>1, <3>2 DEF ProcessOK, RelayPublish
  <2>10. ASSUME NEW e \in Events, RelayRecord(e) \/ RelayMark(e) PROVE OutboxOK' /\ RequestsOK' /\ ProcessOK'
    <3>1. RequestsOK'
      BY <2>10 DEF RequestsOK, RelayRecord, RelayMark
    <3>2. attempts' \in [Events -> Nat] /\ published' \subseteq Events
      BY <2>10, CountedType DEF RelayRecord, RelayMark, OutboxOK
    <3>3. faults' \in 0..MaxFaults
      BY <2>10 DEF RelayRecord, RelayMark, ProcessOK, Fault, NoFault
    <3>4. batch' \subseteq Events /\ relay' \in {"idle"} \cup Direct
      BY <2>10 DEF RelayRecord, RelayMark, ProcessOK, Continue, Abort, Direct
    <3>5. QED
      BY <2>10, <3>1, <3>2, <3>3, <3>4 DEF RelayRecord, RelayMark, OutboxOK, ProcessOK
  <2>11. ASSUME Outage \/ Recover \/ Shutdown \/ Start PROVE OutboxOK' /\ RequestsOK' /\ ProcessOK'
    <3>1. OutboxOK' /\ RequestsOK'
      BY <2>11 DEF OutboxOK, RequestsOK, Outage, Recover, Shutdown, Start
    <3>2. ProcessOK'
      BY <2>11 DEF ProcessOK, Outage, Recover, Shutdown, Start, Fault
    <3>3. QED
      BY <3>1, <3>2
  <2>12. ASSUME Exit \/ Crash PROVE OutboxOK' /\ RequestsOK' /\ ProcessOK'
    <3>1. Halt
      BY <2>12 DEF Exit, Crash
    <3>2. OutboxOK' /\ RequestsOK'
      BY <3>1 DEF Halt, OutboxOK, RequestsOK, InStore, Direct, Answered
    <3>3. ProcessOK'
      BY <2>12, <3>1 DEF ProcessOK, Halt, Exit, Crash, Fault, NoFault
    <3>4. QED
      BY <3>2, <3>3
  <2>13. CASE UNCHANGED vars
    BY <2>13 DEF vars, OutboxOK, RequestsOK, ProcessOK
  <2>14. QED
    BY <2>1, <2>2, <2>3, <2>4, <2>5, <2>6, <2>7, <2>8, <2>9, <2>10, <2>11, <2>12, <2>13
       DEF Next, RelayStep
<1>3. QED
  BY <1>1, <1>2, PTL DEF Spec

-----------------------------------------------------------------------------
(* What a step does to the ledger and to the requests.                     *)

\* An event is stored when the ledger gets its row.
LEMMA AppendStored ==
  ASSUME OutboxOK, NEW e \in Events, ledger' = Append(ledger, e)
  PROVE  /\ Stored' = Stored \cup {e}
         /\ Len(ledger) \in Nat
         /\ DOMAIN ledger = 1..Len(ledger) /\ DOMAIN ledger' = 1..(Len(ledger) + 1)
         /\ \A i \in 1..Len(ledger) : ledger'[i] = ledger[i]
         /\ ledger'[Len(ledger) + 1] = e
<1>1. ledger \in Seq(Events)
  BY DEF OutboxOK
<1>2. /\ Len(ledger) \in Nat
      /\ DOMAIN ledger = 1..Len(ledger) /\ DOMAIN ledger' = 1..(Len(ledger) + 1)
      /\ \A i \in 1..Len(ledger) : ledger'[i] = ledger[i]
      /\ ledger'[Len(ledger) + 1] = e
  BY <1>1
<1>3. Stored' = {ledger'[i] : i \in DOMAIN ledger'}
  BY DEF Stored
<1>4. Stored' \subseteq Stored \cup {e}
  <2> SUFFICES ASSUME NEW i \in 1..(Len(ledger) + 1) PROVE ledger'[i] \in Stored \cup {e}
    BY <1>2, <1>3
  <2>1. i \in 1..Len(ledger) \/ i = Len(ledger) + 1
    BY <1>2
  <2>2. QED
    BY <2>1, <1>2 DEF Stored
<1>5. Stored \cup {e} \subseteq Stored'
  <2>1. \A i \in 1..Len(ledger) : i \in 1..(Len(ledger) + 1)
    BY <1>2
  <2>2. Len(ledger) + 1 \in 1..(Len(ledger) + 1)
    BY <1>2
  <2>3. QED
    BY <2>1, <2>2, <1>2, <1>3 DEF Stored
<1>6. QED
  BY <1>2, <1>4, <1>5

\* The ledger is append only, and an event is appended only once.
LEMMA LedgerStep ==
  ASSUME TypeOK, [Next]_vars
  PROVE  ledger' = ledger \/ \E e \in Events \ Stored : ledger' = Append(ledger, e)
<1>1. ASSUME NEW r \in Requests, Insert(r) \/ InsertFails(r)
      PROVE  ledger' = ledger \/ \E e \in Events \ Stored : ledger' = Append(ledger, e)
  <2>1. Current(r) \in Events
    BY <1>1, CurrentType DEF TypeOK, Insert, InsertFails, Serving, InStore
  <2>2. QED
    BY <1>1, <2>1 DEF Insert, InsertFails, New
<1>2. QED
  BY <1>1 DEF Next, vars, outbox, RelayStep, RelayFetch, RelayPublish, RelayRecord, RelayMark,
     Receive, InsertTooLarge, DirectPublish, DirectRecord, DirectMark, Cancel,
     Outage, Recover, Shutdown, Exit, Crash, Start, Halt

\* No row is ever deleted: what is stored stays stored.
LEMMA StoredGrows ==
  ASSUME TypeOK, [Next]_vars
  PROVE  Stored \subseteq Stored'
<1>1. CASE ledger' = ledger
  BY <1>1 DEF Stored
<1>2. ASSUME NEW e \in Events, ledger' = Append(ledger, e) PROVE Stored \subseteq Stored'
  BY <1>2, AppendStored DEF TypeOK
<1>3. QED
  BY <1>1, <1>2, LedgerStep

\* A request's transaction has stored its event.
Accepts(r) ==
  /\ pc[r] = "insert" /\ New(Current(r))
  /\ ledger' = Append(ledger, Current(r))
  /\ Goto(r, "publish")
  /\ UNCHANGED <<answers, cancelled, batch, attempts>>

\* A request has got a result for its event.
Gets(r, status) ==
  /\ Result(r, status)
  /\ \/ status = "duplicate" /\ pc[r] = "insert" /\ Current(r) \in Stored
     \/ status = "accepted" /\ pc[r] \in Direct
  /\ UNCHANGED <<ledger, cancelled>>

\* Nothing of the two: no result, no new direct publish.
Waits ==
  /\ UNCHANGED answers
  /\ \A r \in Requests :
       /\ pc'[r] \in Direct => pc[r] \in Direct
       /\ pc'[r] \in {"publish", "record"} => pc[r] \in {"publish", "record"}
       /\ pc'[r] = "insert" => pc[r] \in {"insert", "new"}
       /\ pc'[r] = "202" => pc[r] = "202"

\* An insert accepts a new event or finds a duplicate.
LEMMA InsertCases ==
  ASSUME NEW r \in Requests, Insert(r)
  PROVE  Accepts(r) \/ Gets(r, "duplicate")
BY DEF Insert, Accepts, Gets, New, Serving, sweep

\* Both statements after a direct publish end in the result accepted.
LEMMA DirectCases ==
  ASSUME NEW r \in Requests, DirectRecord(r) \/ DirectMark(r)
  PROVE  Gets(r, "accepted")
BY DEF DirectRecord, DirectMark, Gets, Serving, Direct

\* Every step is one of the three for the requests.
LEMMA RequestCases ==
  ASSUME TypeOK, [Next]_vars
  PROVE  \/ Waits
         \/ \E r \in Requests : Accepts(r)
         \/ \E r \in Requests, status \in {"accepted", "duplicate"} : Gets(r, status)
<1> USE DEF client, outbox, sweep
<1>1. ASSUME NEW r \in Requests, NEW label, UNCHANGED answers, Goto(r, label),
             label \in Direct => pc[r] = "publish",
             label = "insert" => pc[r] = "new", label # "202"
      PROVE  Waits
  BY <1>1 DEF Waits, Goto, Direct, TypeOK, RequestsOK
<1>2. ASSUME UNCHANGED <<pc, answers>> PROVE Waits
  BY <1>2 DEF Waits, TypeOK, RequestsOK
<1>3. ASSUME NEW r \in Requests, Insert(r)
      PROVE  Accepts(r) \/ Gets(r, "duplicate")
  BY <1>3, InsertCases
<1>4. ASSUME NEW r \in Requests, Receive(r) PROVE Waits
  <2>1. PICK label \in {"400", "insert"} : Goto(r, label)
    BY <1>4 DEF Receive
  <2>2. QED
    BY <1>1, <1>4, <2>1 DEF Receive, Direct
<1>5. ASSUME NEW r \in Requests, InsertTooLarge(r) \/ InsertFails(r) PROVE Waits
  <2>1. PICK label \in {"400", "500"} : Goto(r, label)
    BY <1>5 DEF InsertTooLarge, InsertFails
  <2>2. QED
    BY <1>1, <1>5, <2>1 DEF InsertTooLarge, InsertFails, Direct
<1>6. ASSUME NEW r \in Requests, DirectPublish(r) PROVE Waits
  <2>1. PICK label \in {"mark", "record"} : Goto(r, label)
    BY <1>6 DEF DirectPublish
  <2>2. QED
    BY <1>1, <1>6, <2>1 DEF DirectPublish, Direct, Serving
<1>7. ASSUME NEW r \in Requests, DirectRecord(r) \/ DirectMark(r) PROVE Gets(r, "accepted")
  BY <1>7, DirectCases
<1>8. ASSUME Exit \/ Crash PROVE Waits
  <2>1. Halt
    BY <1>8 DEF Exit, Crash
  <2>2. QED
    BY <2>1 DEF Halt, Waits, InStore, Direct, TypeOK, RequestsOK
<1>9. CASE UNCHANGED <<pc, answers>>
  BY <1>2, <1>9
<1>10. QED
  BY <1>3, <1>4, <1>5, <1>6, <1>7, <1>8, <1>9 DEF Next, vars, RelayStep, RelayFetch, RelayPublish,
     RelayRecord, RelayMark, Cancel, Outage, Recover, Shutdown, Start

-----------------------------------------------------------------------------
(* Answers are backed by rows, and an event is accepted once.              *)

\* The i-th event of r was accepted, or its transaction has just stored it.
Claims(r, i) ==
  \/ i \in 1..Len(answers[r]) /\ answers[r][i] = "accepted"
  \/ pc[r] \in Direct /\ i = Len(answers[r]) + 1

OneRow           == \A i, j \in DOMAIN ledger : ledger[i] = ledger[j] => i = j
ResultsStored    == \A r \in Requests : \A i \in 1..Len(answers[r]) : Body[r][i] \in Stored
PublishingStored == \A r \in Requests : pc[r] \in Direct => Current(r) \in Stored
AllAnswered      == \A r \in Requests : pc[r] = "202" => Len(answers[r]) = Len(Body[r])
OneAcceptor      ==
  \A r, s \in Requests : \A i, j \in Nat :
    Claims(r, i) /\ Claims(s, j) /\ Body[r][i] = Body[s][j] => r = s /\ i = j

StoreInv == OneRow /\ ResultsStored /\ PublishingStored /\ AllAnswered /\ OneAcceptor

\* Whoever claims an event finds it stored.
LEMMA ClaimStored ==
  ASSUME ResultsStored, PublishingStored, NEW r \in Requests, NEW i \in Nat, Claims(r, i)
  PROVE  Body[r][i] \in Stored
BY DEF ResultsStored, PublishingStored, Claims, Current

\* A result is the current event's, the others stay; it is no new claim.
LEMMA GetsStep ==
  ASSUME TypeOK, NEW r \in Requests, NEW status \in {"accepted", "duplicate"}, Gets(r, status)
  PROVE  /\ pc[r] \in InStore
         /\ RequestsOK'
         /\ \A s \in Requests : s # r => pc'[s] = pc[s] /\ answers'[s] = answers[s]
         /\ Len(answers[r]) \in Nat /\ Len(answers'[r]) = Len(answers[r]) + 1
         /\ \A i \in 1..Len(answers[r]) : answers'[r][i] = answers[r][i]
         /\ answers'[r][Len(answers[r]) + 1] = status
         /\ \/ pc'[r] = "202" /\ Len(answers'[r]) = Len(Body[r])
            \/ pc'[r] = "insert"
<1>1. pc[r] \in InStore
  BY DEF Gets, InStore
<1>2. Result(r, status) /\ UNCHANGED cancelled
  BY DEF Gets
<1>3. RequestsOK /\ Len(answers[r]) \in Nat
  BY CurrentType, <1>1 DEF TypeOK
<1>4. /\ RequestsOK'
      /\ answers' = [answers EXCEPT ![r] = Append(@, status)]
      /\ Len(answers'[r]) = Len(answers[r]) + 1
      /\ \A i \in 1..Len(answers[r]) : answers'[r][i] = answers[r][i]
      /\ answers'[r][Len(answers[r]) + 1] = status
      /\ \/ pc' = [pc EXCEPT ![r] = "202"] /\ Len(answers'[r]) = Len(Body[r])
         \/ pc' = [pc EXCEPT ![r] = "insert"] /\ Len(answers'[r]) < Len(Body[r])
  BY <1>1, <1>2, <1>3, ResultType
<1>5. \A s \in Requests : s # r => pc'[s] = pc[s] /\ answers'[s] = answers[s]
  BY <1>3, <1>4 DEF RequestsOK
<1>6. \/ pc'[r] = "202" /\ Len(answers'[r]) = Len(Body[r])
      \/ pc'[r] = "insert"
  BY <1>3, <1>4 DEF RequestsOK
<1>7. QED
  BY <1>1, <1>3, <1>4, <1>5, <1>6

\* An acceptance makes one claim, on an event that had no row.
LEMMA AcceptsStep ==
  ASSUME TypeOK, NEW r \in Requests, Accepts(r)
  PROVE  /\ Current(r) \in Events \ Stored
         /\ Current(r) = Body[r][Len(answers[r]) + 1]
         /\ Len(answers[r]) \in Nat
         /\ Stored' = Stored \cup {Current(r)}
         /\ pc'[r] = "publish" /\ answers' = answers
         /\ \A s \in Requests : s # r => pc'[s] = pc[s]
<1>1. pc[r] \in InStore /\ RequestsOK /\ OutboxOK
  BY DEF Accepts, InStore, TypeOK
<1>2. Current(r) \in Events /\ Len(answers[r]) \in Nat
  BY <1>1, CurrentType
<1>3. Stored' = Stored \cup {Current(r)}
  BY <1>1, <1>2, AppendStored DEF Accepts
<1>4. QED
  BY <1>1, <1>2, <1>3 DEF Accepts, New, Goto, RequestsOK, Current

\* No step but an acceptance makes a claim.
LEMMA ClaimStep ==
  ASSUME TypeOK, [Next]_vars, NEW r \in Requests, NEW i \in Nat, Claims(r, i)'
  PROVE  Claims(r, i) \/ (Accepts(r) /\ i = Len(answers[r]) + 1)
<1>1. CASE Waits
  BY <1>1 DEF Waits, Claims
<1>2. ASSUME NEW s \in Requests, Accepts(s)
      PROVE  Claims(r, i) \/ (Accepts(r) /\ i = Len(answers[r]) + 1)
  <2>1. CASE r = s
    BY <1>2, <2>1, AcceptsStep DEF Claims
  <2>2. CASE r # s
    BY <1>2, <2>2, AcceptsStep DEF Claims
  <2>3. QED
    BY <2>1, <2>2
<1>3. ASSUME NEW s \in Requests, NEW status \in {"accepted", "duplicate"}, Gets(s, status)
      PROVE  Claims(r, i)
  <2>1. CASE r = s
    <3>1. /\ Len(answers[r]) \in Nat /\ Len(answers'[r]) = Len(answers[r]) + 1
          /\ \A k \in 1..Len(answers[r]) : answers'[r][k] = answers[r][k]
          /\ answers'[r][Len(answers[r]) + 1] = status
          /\ pc'[r] \notin Direct
      BY <1>3, <2>1, GetsStep DEF Direct
    <3>2. i \in 1..(Len(answers[r]) + 1) /\ answers'[r][i] = "accepted"
      BY <3>1 DEF Claims
    <3>3. CASE i = Len(answers[r]) + 1
      BY <1>3, <2>1, <3>1, <3>2, <3>3 DEF Gets, Claims
    <3>4. CASE i # Len(answers[r]) + 1
      BY <3>1, <3>2, <3>4 DEF Claims
    <3>5. QED
      BY <3>3, <3>4
  <2>2. CASE r # s
    BY <1>3, <2>2, GetsStep DEF Claims
  <2>3. QED
    BY <2>1, <2>2
<1>4. QED
  BY <1>1, <1>2, <1>3, RequestCases

\* The invariant of the store is kept: by an acceptance, which appends and claims the same
\* event, and by the other steps, which leave the ledger or make no claim.
LEMMA StoreInductive ==
  ASSUME TypeOK, StoreInv, [Next]_vars
  PROVE  StoreInv'
<1>1. OneRow'
  <2>1. CASE ledger' = ledger
    BY <2>1 DEF StoreInv, OneRow
  <2>2. ASSUME NEW e \in Events \ Stored, ledger' = Append(ledger, e) PROVE OneRow'
    <3>1. /\ Len(ledger) \in Nat
          /\ DOMAIN ledger = 1..Len(ledger) /\ DOMAIN ledger' = 1..(Len(ledger) + 1)
          /\ \A i \in 1..Len(ledger) : ledger'[i] = ledger[i]
          /\ ledger'[Len(ledger) + 1] = e
      BY <2>2, AppendStored DEF TypeOK
    <3>2. \A i \in 1..Len(ledger) : ledger[i] # e
      BY <2>2, <3>1 DEF Stored
    <3>3. \A i \in 1..(Len(ledger) + 1) : i \in 1..Len(ledger) \/ i = Len(ledger) + 1
      BY <3>1
    <3>4. QED
      BY <3>1, <3>2, <3>3 DEF StoreInv, OneRow
  <2>3. QED
    BY <2>1, <2>2, LedgerStep
<1>2. ResultsStored' /\ PublishingStored' /\ AllAnswered'
  <2>1. Stored \subseteq Stored'
    BY StoredGrows
  <2>2. CASE Waits
    BY <2>1, <2>2 DEF Waits, StoreInv, ResultsStored, PublishingStored, AllAnswered, Current
  <2>3. ASSUME NEW r \in Requests, Accepts(r) PROVE ResultsStored' /\ PublishingStored' /\ AllAnswered'
    <3>1. /\ Current(r) \in Stored' /\ pc'[r] = "publish" /\ answers' = answers
          /\ \A s \in Requests : s # r => pc'[s] = pc[s]
      BY <2>3, AcceptsStep
    <3>2. \A s \in Requests : Current(s)' = Current(s)
      BY <3>1 DEF Current
    <3>3. QED
      BY <2>1, <3>1, <3>2 DEF StoreInv, ResultsStored, PublishingStored, AllAnswered
  <2>4. ASSUME NEW r \in Requests, NEW status \in {"accepted", "duplicate"}, Gets(r, status)
        PROVE  ResultsStored' /\ PublishingStored' /\ AllAnswered'
    <3>1. Body[r][Len(answers[r]) + 1] \in Stored
      BY <2>4 DEF Gets, StoreInv, PublishingStored, Current
    <3>2. /\ Len(answers[r]) \in Nat /\ Len(answers'[r]) = Len(answers[r]) + 1
          /\ \/ pc'[r] = "202" /\ Len(answers'[r]) = Len(Body[r])
             \/ pc'[r] = "insert"
          /\ \A s \in Requests : s # r => pc'[s] = pc[s] /\ answers'[s] = answers[s]
      BY <2>4, GetsStep
    <3>3. \A i \in 1..(Len(answers[r]) + 1) : i \in 1..Len(answers[r]) \/ i = Len(answers[r]) + 1
      BY <3>2
    <3>4. ResultsStored'
      <4> SUFFICES ASSUME NEW s \in Requests, NEW i \in 1..Len(answers'[s]) PROVE Body[s][i] \in Stored'
        BY DEF ResultsStored
      <4>1. CASE s = r
        BY <2>1, <3>1, <3>2, <3>3, <4>1 DEF StoreInv, ResultsStored
      <4>2. CASE s # r
        BY <2>1, <3>2, <4>2 DEF StoreInv, ResultsStored
      <4>3. QED
        BY <4>1, <4>2
    <3>5. PublishingStored'
      BY <2>1, <3>2 DEF StoreInv, PublishingStored, Current, Direct
    <3>6. AllAnswered'
      BY <3>2 DEF StoreInv, AllAnswered
    <3>7. QED
      BY <3>4, <3>5, <3>6
  <2>5. QED
    BY <2>2, <2>3, <2>4, RequestCases
<1>3. OneAcceptor'
  <2> SUFFICES ASSUME NEW r \in Requests, NEW s \in Requests, NEW i \in Nat, NEW j \in Nat,
                      Claims(r, i)', Claims(s, j)', Body[r][i] = Body[s][j]
               PROVE  r = s /\ i = j
    BY DEF OneAcceptor
  <2>1. CASE Claims(r, i) /\ Claims(s, j)
    BY <2>1 DEF StoreInv, OneAcceptor
  <2>2. CASE Accepts(r) /\ i = Len(answers[r]) + 1 /\ Claims(s, j)
    BY <2>2, AcceptsStep, ClaimStored DEF StoreInv
  <2>3. CASE Accepts(s) /\ j = Len(answers[s]) + 1 /\ Claims(r, i)
    BY <2>3, AcceptsStep, ClaimStored DEF StoreInv
  <2>4. CASE Accepts(r) /\ i = Len(answers[r]) + 1 /\ Accepts(s) /\ j = Len(answers[s]) + 1
    <3>1. pc[r] = "insert" /\ pc'[r] = "publish"
      BY <2>4, AcceptsStep DEF Accepts
    <3>2. r # s => pc'[r] = pc[r]
      BY <2>4, AcceptsStep
    <3>3. QED
      BY <2>4, <3>1, <3>2
  <2>5. QED
    BY <2>1, <2>2, <2>3, <2>4, ClaimStep
<1>4. QED
  BY <1>1, <1>2, <1>3 DEF StoreInv

\* The ledger and the claims on it agree in every reachable state.
LEMMA StoreInvHolds == Spec => []StoreInv
<1>1. Init => StoreInv
  BY DEF Init, StoreInv, OneRow, ResultsStored, PublishingStored, AllAnswered, OneAcceptor, Claims,
     Stored, Direct
<1>2. TypeOK /\ StoreInv /\ [Next]_vars => StoreInv'
  BY StoreInductive
<1>3. QED
  BY <1>1, <1>2, TypeCorrect, PTL DEF Spec

\* A result is a promise: whatever crashed, failed or was retried, every event that a request
\* was given a result for is stored, and a 202 has a result for each of its events.
THEOREM ResultsAreBacked == Spec => []AnsweredIsStored
<1>1. TypeOK /\ StoreInv => AnsweredIsStored
  BY DEF TypeOK, RequestsOK, StoreInv, ResultsStored, AllAnswered, AnsweredIsStored
<1>2. QED
  BY <1>1, TypeCorrect, StoreInvHolds, PTL

\* Among all the requests that name an event, racing or retrying, at most one is told
\* that it was accepted, and the event has one row.
THEOREM AcceptedAtMostOnce == Spec => []AcceptedOnce
<1>1. TypeOK /\ StoreInv => AcceptedOnce
  <2> SUFFICES ASSUME TypeOK, StoreInv PROVE AcceptedOnce
    OBVIOUS
  <2>1. \A r \in Requests : Len(answers[r]) \in Nat /\ DOMAIN answers[r] = 1..Len(answers[r])
    BY DEF TypeOK, RequestsOK
  <2>2. \A r \in Requests : \A i \in DOMAIN answers[r] :
          i \in Nat /\ (answers[r][i] = "accepted" => Claims(r, i))
    BY <2>1 DEF Claims
  <2>3. QED
    BY <2>2 DEF StoreInv, OneRow, OneAcceptor, AcceptedOnce
<1>2. QED
  BY <1>1, TypeCorrect, StoreInvHolds, PTL

\* A request answered 400 has stored none of its events, save for the overgrown event that
\* only the database finds too large.
THEOREM RejectionIsAtomic == Spec => []RejectedStoresNothing
<1>1. Init => RejectedStoresNothing
  BY DEF Init, RejectedStoresNothing
<1>2. TypeOK /\ RejectedStoresNothing /\ [Next]_vars => RejectedStoresNothing'
  <2> SUFFICES ASSUME TypeOK, RejectedStoresNothing, [Next]_vars,
                      NEW r \in Requests, pc'[r] = "400", answers'[r] # <<>>
               PROVE  Current(r)' \in Overgrown
    BY DEF RejectedStoresNothing
  <2>1. pc[r] = "400" /\ answers'[r] = answers[r] => Current(r)' \in Overgrown
    BY DEF RejectedStoresNothing, Current
  <2>2. ASSUME NEW s \in Requests, Receive(s) PROVE Current(r)' \in Overgrown
    BY <2>1, <2>2 DEF Receive, Goto, TypeOK, RequestsOK
  <2>3. ASSUME NEW s \in Requests, InsertTooLarge(s) PROVE Current(r)' \in Overgrown
    BY <2>1, <2>3 DEF InsertTooLarge, Goto, TypeOK, RequestsOK, Current
  <2>4. ASSUME NEW s \in Requests, Accepts(s) PROVE Current(r)' \in Overgrown
    BY <2>1, <2>4, AcceptsStep
  <2>5. ASSUME NEW s \in Requests, NEW status \in {"accepted", "duplicate"}, Gets(s, status)
        PROVE  Current(r)' \in Overgrown
    BY <2>1, <2>5, GetsStep
  <2>6. ASSUME NEW s \in Requests, InsertFails(s) \/ DirectPublish(s) PROVE Current(r)' \in Overgrown
    BY <2>1, <2>6 DEF InsertFails, DirectPublish, Goto, TypeOK, RequestsOK
  <2>7. ASSUME Exit \/ Crash PROVE Current(r)' \in Overgrown
    <3>1. Halt
      BY <2>7 DEF Exit, Crash
    <3>2. QED
      BY <2>1, <3>1 DEF Halt, TypeOK, RequestsOK
  <2>8. CASE UNCHANGED <<pc, answers>>
    BY <2>1, <2>8
  <2>9. QED
    BY <2>2, <2>3, <2>4, <2>5, <2>6, <2>7, <2>8, InsertCases, DirectCases DEF Next, vars, client, RelayStep,
       RelayFetch, RelayPublish, RelayRecord, RelayMark, Cancel, Outage, Recover, Shutdown, Start
<1>3. QED
  BY <1>1, <1>2, TypeCorrect, PTL DEF Spec

\* A published row is never touched again: both statements are guarded by published_at.
THEOREM PublishedStaysPublished == Spec => PublishedIsFinal
<1>1. TypeOK /\ [Next]_vars =>
        [\A e \in published : e \in published' /\ attempts'[e] = attempts[e]]_vars
  <2> SUFFICES ASSUME TypeOK, Next, NEW e \in published
               PROVE  e \in published' /\ attempts'[e] = attempts[e]
    OBVIOUS
  <2>1. \A d \in Events : Counted(d)[e] = attempts[e] /\ e \in Marked(d)
    BY DEF TypeOK, OutboxOK, Counted, Marked
  <2>2. ASSUME UNCHANGED <<attempts, published>> PROVE e \in published' /\ attempts'[e] = attempts[e]
    BY <2>2
  <2>3. ASSUME NEW r \in Requests, DirectRecord(r) \/ DirectMark(r)
        PROVE  e \in published' /\ attempts'[e] = attempts[e]
    <3>1. Current(r) \in Events
      BY <2>3, CurrentType DEF TypeOK, DirectRecord, DirectMark, Serving, InStore, Direct
    <3>2. QED
      BY <2>1, <2>3, <3>1 DEF DirectRecord, DirectMark
  <2>4. ASSUME NEW d \in Events, RelayRecord(d) \/ RelayMark(d)
        PROVE  e \in published' /\ attempts'[e] = attempts[e]
    BY <2>1, <2>4 DEF RelayRecord, RelayMark
  <2>5. QED
    BY <2>2, <2>3, <2>4 DEF Next, outbox, RelayStep, RelayFetch, RelayPublish, Receive, Insert,
       InsertTooLarge, InsertFails, DirectPublish, Cancel, Outage, Recover, Shutdown, Exit, Crash,
       Start, Halt
<1>2. QED
  BY <1>1, TypeCorrect, PTL DEF Spec, PublishedIsFinal

-----------------------------------------------------------------------------
(* The bound on attempts.                                                  *)

\* A direct publish of e may still count a failure.
Counting(e) == \E r \in Requests : pc[r] \in {"publish", "record"} /\ Current(r) = e

\* The relay fetches a row only below its bound, so it and the one direct publish may add
\* one attempt each: as long as either may, its attempt is not there yet.
AttemptsInv ==
  /\ batch \subseteq Stored
  /\ \A e \in Events :
       /\ e \notin Stored => attempts[e] = 0
       /\ attempts[e] <= MaxAttempts + 1
       /\ Counting(e) \/ e \in batch => attempts[e] <= MaxAttempts
       /\ Counting(e) /\ e \in batch => attempts[e] < MaxAttempts

\* Who counts a failure of its own has the one claim on the event.
LEMMA CountingIsClaim ==
  ASSUME TypeOK, NEW r \in Requests, pc[r] \in {"publish", "record"}
  PROVE  /\ Len(answers[r]) + 1 \in Nat
         /\ Claims(r, Len(answers[r]) + 1)
         /\ Body[r][Len(answers[r]) + 1] = Current(r)
BY DEF TypeOK, RequestsOK, Claims, Current, Direct

\* A step makes no direct publish but that of an event it has just stored.
LEMMA CountingStep ==
  ASSUME TypeOK, [Next]_vars, NEW e \in Events, Counting(e)'
  PROVE  \/ Counting(e)
         \/ e \notin Stored /\ UNCHANGED <<attempts, batch>>
<1>1. PICK r \in Requests : pc'[r] \in {"publish", "record"} /\ Current(r)' = e
  BY DEF Counting
<1>2. CASE Waits
  BY <1>1, <1>2 DEF Waits, Counting, Current
<1>3. ASSUME NEW s \in Requests, Accepts(s)
      PROVE  Counting(e) \/ (e \notin Stored /\ UNCHANGED <<attempts, batch>>)
  <2>1. Current(r)' = Current(r)
    BY <1>3, AcceptsStep DEF Current
  <2>2. QED
    BY <1>1, <1>3, <2>1, AcceptsStep DEF Counting, Accepts
<1>4. ASSUME NEW s \in Requests, NEW status \in {"accepted", "duplicate"}, Gets(s, status)
      PROVE  Counting(e)
  BY <1>1, <1>4, GetsStep DEF Counting, Current
<1>5. QED
  BY <1>2, <1>3, <1>4, RequestCases

\* The bound: by what each action does to the attempts, the batch and the direct publishes.
LEMMA AttemptsInductive ==
  ASSUME TypeOK, StoreInv, AttemptsInv, [Next]_vars
  PROVE  AttemptsInv'
<1> USE Constants
<1>1. Stored \subseteq Stored' /\ Stored \subseteq Events
  BY StoredGrows, StoredType DEF TypeOK
<1>2. attempts \in [Events -> Nat]
  BY DEF TypeOK, OutboxOK
\* It is enough that the batch does not grow and the attempts stay.
<1>3. ASSUME UNCHANGED attempts, batch' \subseteq batch PROVE AttemptsInv'
  <2> SUFFICES ASSUME NEW e \in Events
               PROVE  /\ e \notin Stored' => attempts'[e] = 0
                      /\ attempts'[e] <= MaxAttempts + 1
                      /\ Counting(e)' \/ e \in batch' => attempts'[e] <= MaxAttempts
                      /\ Counting(e)' /\ e \in batch' => attempts'[e] < MaxAttempts
    BY <1>1, <1>3 DEF AttemptsInv
  <2>1. CASE Counting(e)' => Counting(e)
    BY <1>1, <1>2, <1>3, <2>1 DEF AttemptsInv
  <2>2. CASE e \notin Stored
    BY <1>1, <1>2, <1>3, <2>2 DEF AttemptsInv
  <2>3. QED
    BY <2>1, <2>2, CountingStep
<1>4. ASSUME RelayFetch PROVE AttemptsInv'
  <2>1. \A e \in Fetched : e \in Stored /\ attempts[e] < MaxAttempts
    BY DEF Fetched, Due
  <2>2. attempts' = attempts /\ batch' = Fetched
    BY <1>4 DEF RelayFetch, outbox
  <2>3. \A e \in Events : Counting(e)' => Counting(e)
    BY <1>4 DEF RelayFetch, client, Counting, Current
  <2>4. Stored' = Stored
    BY <1>4 DEF RelayFetch, outbox, Stored
  <2>5. QED
    BY <1>1, <1>2, <2>1, <2>2, <2>3, <2>4 DEF AttemptsInv
<1>5. ASSUME NEW d \in Events, RelayRecord(d) PROVE AttemptsInv'
  <2>1. \A e \in Events : Counting(e)' => Counting(e)
    BY <1>5 DEF RelayRecord, client, Counting, Current
  <2>2. d \in batch /\ d \notin batch' /\ batch' \subseteq batch
    BY <1>5 DEF RelayRecord, Relaying, Continue, Abort
  <2>3. \A e \in Events : attempts'[e] = attempts[e] \/ (e = d /\ attempts'[e] = attempts[e] + 1)
    BY <1>2, <1>5 DEF RelayRecord, Counted
  <2>4. Stored' = Stored
    BY <1>5 DEF RelayRecord, Stored
  <2>5. QED
    BY <1>2, <2>1, <2>2, <2>3, <2>4 DEF AttemptsInv
<1>6. ASSUME NEW r \in Requests, DirectRecord(r) PROVE AttemptsInv'
  <2> DEFINE d == Current(r)
  <2>1. d \in Events /\ pc[r] = "record"
    BY <1>6, CurrentType DEF TypeOK, DirectRecord, Serving, InStore, Direct
  <2>2. /\ \A s \in Requests : s # r => pc'[s] = pc[s] /\ answers'[s] = answers[s]
        /\ pc'[r] \in {"202", "insert"}
    BY <1>6, DirectCases, GetsStep
  <2>3. \A e \in Events : Counting(e)' => Counting(e) /\ e # d
    <3> SUFFICES ASSUME NEW s \in Requests, pc'[s] \in {"publish", "record"}
                 PROVE  Counting(Current(s)') /\ Current(s)' # d
      BY DEF Counting
    <3>1. s # r /\ pc[s] \in {"publish", "record"} /\ Current(s)' = Current(s)
      BY <2>2 DEF Current
    <3>2. Current(s) # Current(r)
      BY <2>1, <3>1, CountingIsClaim DEF StoreInv, OneAcceptor
    <3>3. QED
      BY <3>1, <3>2 DEF Counting
  <2>4. Counting(d)
    BY <2>1 DEF Counting
  <2>5. \A e \in Events : attempts'[e] = attempts[e] \/ (e = d /\ attempts'[e] = attempts[e] + 1)
    BY <1>2, <1>6 DEF DirectRecord, Counted
  <2>6. Stored' = Stored /\ batch' = batch /\ d \in Stored
    BY <1>6, <2>1 DEF DirectRecord, sweep, Stored, StoreInv, PublishingStored, Direct
  <2>7. QED
    BY <1>2, <2>1, <2>3, <2>4, <2>5, <2>6 DEF AttemptsInv
<1>7. ASSUME Exit \/ Crash PROVE AttemptsInv'
  BY <1>3, <1>7 DEF Exit, Crash, Halt, outbox
<1>8. ASSUME NEW e \in Events, RelayPublish(e) \/ RelayMark(e) PROVE AttemptsInv'
  BY <1>3, <1>8 DEF RelayPublish, RelayMark, outbox, Continue, Abort
<1>9. CASE UNCHANGED <<attempts, batch>>
  BY <1>3, <1>9
<1>10. QED
  BY <1>4, <1>5, <1>6, <1>7, <1>8, <1>9 DEF Next, vars, outbox, sweep, RelayStep, Receive, Insert,
     InsertTooLarge, InsertFails, DirectPublish, DirectMark, Cancel, Outage, Recover, Shutdown, Start

\* No more failures are ever recorded of an event than the relay's MaxAttempts and the one of
\* the direct publish that may race the last of them.
THEOREM AttemptsAreBounded == Spec => []AttemptsBounded
<1>1. Init => AttemptsInv
  BY Constants DEF Init, AttemptsInv, Counting, Stored
<1>2. TypeOK /\ StoreInv /\ AttemptsInv /\ [Next]_vars => AttemptsInv'
  BY AttemptsInductive
<1>3. AttemptsInv => AttemptsBounded
  BY DEF AttemptsInv, AttemptsBounded
<1>4. QED
  BY <1>1, <1>2, <1>3, TypeCorrect, StoreInvHolds, PTL DEF Spec

-----------------------------------------------------------------------------
(* Direct publishing and the relay implement OutboxDelivery.               *)

\* A mark follows a delivery: for the request at mark, and for the event that the relay is at.
MarkFollows ==
  /\ batch \subseteq Stored
  /\ \A r \in Requests : pc[r] = "mark" => Current(r) \in delivered
  /\ relay = "mark" => \A e \in batch : (\A d \in batch : ~Older(d, e)) => e \in delivered

\* The ledger orders what it holds, so the relay is at one event at a time.
LEMMA OneOldest ==
  ASSUME batch \subseteq Stored, NEW d \in batch, NEW e \in batch,
         \A c \in batch : ~Older(c, d), \A c \in batch : ~Older(c, e), OutboxOK
  PROVE  d = e
<1>1. PICK i \in DOMAIN ledger : ledger[i] = d
  BY DEF Stored
<1>2. PICK j \in DOMAIN ledger : ledger[j] = e
  BY DEF Stored
<1>3. i \in Nat /\ j \in Nat
  BY DEF OutboxOK
<1>4. ~(i < j) /\ ~(j < i)
  BY <1>1, <1>2 DEF Older
<1>5. QED
  BY <1>1, <1>2, <1>3, <1>4

\* What is older stays older when the ledger grows.
LEMMA OlderStays ==
  ASSUME TypeOK, [Next]_vars, NEW d, NEW e, Older(d, e)
  PROVE  Older(d, e)'
<1>1. CASE ledger' = ledger
  BY <1>1 DEF Older
<1>2. ASSUME NEW c \in Events, ledger' = Append(ledger, c) PROVE Older(d, e)'
  <2>1. /\ Len(ledger) \in Nat
        /\ DOMAIN ledger = 1..Len(ledger) /\ DOMAIN ledger' = 1..(Len(ledger) + 1)
        /\ \A i \in 1..Len(ledger) : ledger'[i] = ledger[i]
    BY <1>2, AppendStored DEF TypeOK
  <2>2. QED
    BY <2>1 DEF Older
<1>3. QED
  BY <1>1, <1>2, LedgerStep

\* What is about to be marked has been delivered: only a publish moves a request, or the
\* relay, to its mark.
LEMMA MarkInductive ==
  ASSUME TypeOK, StoreInv, MarkFollows, [Next]_vars
  PROVE  MarkFollows'
<1>1. Stored \subseteq Stored'
  BY StoredGrows
<1>2. batch' \subseteq Stored'
  BY <1>1 DEF MarkFollows, Next, vars, sweep, RelayStep, RelayFetch, Fetched, Due, RelayPublish,
     RelayRecord, RelayMark, Continue, Abort, Receive, Insert, InsertTooLarge, InsertFails,
     DirectPublish, DirectRecord, DirectMark, Cancel, Outage, Recover, Shutdown, Exit, Crash,
     Start, Halt
<1>3. delivered \subseteq delivered'
  BY DEF Next, vars, kafka, RelayStep, RelayFetch, RelayPublish, RelayRecord, RelayMark, Receive,
     Insert, InsertTooLarge, InsertFails, DirectPublish, DirectRecord, DirectMark, Cancel, Outage,
     Recover, Shutdown, Exit, Crash, Start, Halt
<1>4. \A r \in Requests : pc'[r] = "mark" => Current(r)' \in delivered'
  <2> SUFFICES ASSUME NEW r \in Requests, pc'[r] = "mark" PROVE Current(r)' \in delivered'
    OBVIOUS
  <2>1. CASE pc[r] = "mark" /\ answers'[r] = answers[r]
    BY <1>3, <2>1 DEF MarkFollows, Current
  <2>2. ASSUME NEW s \in Requests, DirectPublish(s) PROVE Current(r)' \in delivered'
    <3>1. CASE r = s
      BY <2>2, <3>1 DEF DirectPublish, Goto, Current, TypeOK, RequestsOK
    <3>2. CASE r # s
      BY <2>1, <2>2, <3>2 DEF DirectPublish, Goto, TypeOK, RequestsOK
    <3>3. QED
      BY <3>1, <3>2
  <2>3. ASSUME NEW s \in Requests, Accepts(s) PROVE Current(r)' \in delivered'
    BY <2>1, <2>3, AcceptsStep
  <2>4. ASSUME NEW s \in Requests, NEW status \in {"accepted", "duplicate"}, Gets(s, status)
        PROVE  Current(r)' \in delivered'
    BY <2>1, <2>4, GetsStep
  <2>5. ASSUME NEW s \in Requests, Receive(s) \/ InsertTooLarge(s) \/ InsertFails(s)
        PROVE  Current(r)' \in delivered'
    BY <2>1, <2>5 DEF Receive, InsertTooLarge, InsertFails, Goto, TypeOK, RequestsOK
  <2>6. ASSUME Exit \/ Crash PROVE Current(r)' \in delivered'
    <3>1. Halt
      BY <2>6 DEF Exit, Crash
    <3>2. QED
      BY <2>1, <3>1 DEF Halt, TypeOK, RequestsOK
  <2>7. CASE UNCHANGED <<pc, answers>>
    BY <2>1, <2>7
  <2>8. QED
    BY <2>2, <2>3, <2>4, <2>5, <2>6, <2>7, InsertCases, DirectCases DEF Next, vars, client, RelayStep,
       RelayFetch, RelayPublish, RelayRecord, RelayMark, Cancel, Outage, Recover, Shutdown, Start
<1>5. ASSUME relay' = "mark", NEW e \in batch', \A d \in batch' : ~Older(d, e)'
      PROVE  e \in delivered'
  <2>1. ASSUME NEW c \in Events, RelayPublish(c) PROVE e \in delivered'
    <3>1. /\ c \in batch /\ \A d \in batch : ~Older(d, c)
          /\ batch' = batch /\ ledger' = ledger
          /\ delivered' = delivered \cup {c}
      BY <1>5, <2>1 DEF RelayPublish, Relaying, outbox
    <3>2. \A d \in batch : ~Older(d, e)
      BY <1>5, <3>1 DEF Older
    <3>3. e = c
      BY <1>5, <3>1, <3>2, OneOldest DEF MarkFollows, TypeOK
    <3>4. QED
      BY <3>1, <3>3
  <2>2. CASE relay = "mark" /\ batch' = batch
    BY <1>3, <1>5, <2>2, OlderStays DEF MarkFollows
  <2>3. ASSUME RelayFetch \/ Exit \/ Crash \/ \E d \in Events : RelayRecord(d) \/ RelayMark(d)
        PROVE  relay' # "mark"
    BY <2>3 DEF RelayFetch, Exit, Crash, Halt, RelayRecord, RelayMark, Continue, Abort
  <2>4. CASE UNCHANGED sweep
    BY <1>5, <2>2, <2>4 DEF sweep
  <2>5. QED
    BY <1>5, <2>1, <2>3, <2>4 DEF Next, vars, RelayStep, Receive, Insert, InsertTooLarge, InsertFails,
       DirectPublish, DirectRecord, DirectMark, Cancel, Outage, Recover, Shutdown, Start
<1>6. QED
  BY <1>2, <1>4, <1>5 DEF MarkFollows

\* An event reaches Kafka only after it was stored, and is marked only after it has reached
\* Kafka: every step is a step of OutboxDelivery, or one that it does not see.
THEOREM OutboxImplementsDelivery == Spec => ImplementsDelivery
<1>1. Init => MarkFollows /\ Delivery!Init
  BY DEF Init, MarkFollows, Stored, Delivery!Init
<1>2. TypeOK /\ StoreInv /\ MarkFollows /\ [Next]_vars => MarkFollows'
  BY MarkInductive
<1>3. TypeOK /\ StoreInv /\ MarkFollows /\ [Next]_vars => [Delivery!Next]_(Delivery!vars)
  <2> SUFFICES ASSUME TypeOK, StoreInv, MarkFollows, [Next]_vars
               PROVE  [Delivery!Next]_(Delivery!vars)
    OBVIOUS
  <2> USE DEF Delivery!Next, Delivery!vars, Delivery!Accept, Delivery!Deliver, Delivery!Settle
  \* The three visible changes, each on its own.
  <2>1. ASSUME UNCHANGED <<delivered, published>> PROVE [Delivery!Next]_(Delivery!vars)
    <3>1. CASE ledger' = ledger
      BY <2>1, <3>1 DEF Stored
    <3>2. ASSUME NEW e \in Events, ledger' = Append(ledger, e) PROVE Delivery!Accept(e)
      BY <2>1, <3>2, AppendStored DEF TypeOK
    <3>3. QED
      BY <3>1, <3>2, LedgerStep
  <2>2. ASSUME NEW e \in Stored, delivered' \in {delivered, delivered \cup {e}},
               UNCHANGED <<ledger, published>>
        PROVE  [Delivery!Next]_(Delivery!vars)
    BY <2>2, StoredType DEF Stored, TypeOK
  <2>3. ASSUME NEW e \in delivered, published' \in {published, Marked(e)},
               UNCHANGED <<ledger, delivered>>
        PROVE  [Delivery!Next]_(Delivery!vars)
    BY <2>3 DEF Stored, Marked, TypeOK, OutboxOK
  <2>4. ASSUME NEW r \in Requests, DirectPublish(r) PROVE [Delivery!Next]_(Delivery!vars)
    <3>1. Current(r) \in Stored
      BY <2>4 DEF DirectPublish, Serving, StoreInv, PublishingStored, Direct
    <3>2. QED
      BY <2>2, <2>4, <3>1 DEF DirectPublish, outbox
  <2>5. ASSUME NEW e \in Events, RelayPublish(e) PROVE [Delivery!Next]_(Delivery!vars)
    <3>1. e \in Stored
      BY <2>5 DEF RelayPublish, Relaying, MarkFollows
    <3>2. QED
      BY <2>2, <2>5, <3>1 DEF RelayPublish, outbox
  <2>6. ASSUME NEW r \in Requests, DirectMark(r) PROVE [Delivery!Next]_(Delivery!vars)
    <3>1. Current(r) \in delivered
      BY <2>6 DEF DirectMark, Serving, MarkFollows
    <3>2. QED
      BY <2>3, <2>6, <3>1 DEF DirectMark, kafka
  <2>7. ASSUME NEW e \in Events, RelayMark(e) PROVE [Delivery!Next]_(Delivery!vars)
    <3>1. e \in delivered
      BY <2>7 DEF RelayMark, Relaying, MarkFollows
    <3>2. QED
      BY <2>3, <2>7, <3>1 DEF RelayMark, kafka
  <2>8. CASE UNCHANGED <<delivered, published>>
    BY <2>1, <2>8
  <2>9. QED
    BY <2>4, <2>5, <2>6, <2>7, <2>8 DEF Next, vars, outbox, kafka, RelayStep, RelayFetch, RelayRecord,
       Receive, Insert, InsertTooLarge, InsertFails, DirectRecord, Cancel, Outage, Recover, Shutdown,
       Exit, Crash, Start, Halt
<1>4. QED
  BY <1>1, <1>2, <1>3, TypeCorrect, StoreInvHolds, PTL DEF Spec, ImplementsDelivery, Delivery!Spec
=============================================================================
