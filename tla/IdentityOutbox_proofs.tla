------------------------ MODULE IdentityOutbox_proofs ------------------------
(***************************************************************************)
(* Theorems about IdentityOutbox, for any mutations, batch size, number of *)
(* attempts and faults, and their proofs.                                  *)
(***************************************************************************)
EXTENDS IdentityOutbox, FiniteSetTheorems, WellFoundedInduction, TLAPS

LEMMA Constants ==
  /\ BatchSize \in Nat \ {0} /\ MaxAttempts \in Nat \ {0} /\ MaxFaults \in Nat
BY IdentityAssumption

-----------------------------------------------------------------------------
(* The table's order.                                                      *)

\* A mutation is enqueued once.
Distinct == \A i, j \in DOMAIN rows : rows[i] = rows[j] => i = j

\* The event of the batch that the relay is at.
First(e) == e \in batch /\ \A d \in batch : ~Older(d, e)

\* A new row comes last.
LEMMA Appended ==
  ASSUME rows \in Seq(Events), NEW e \in Events, rows' = Append(rows, e)
  PROVE  /\ rows' \in Seq(Events)
         /\ Rows' = Rows \cup {e}
         /\ \A c, d : Older(c, d) => Older(c, d)'
         /\ Distinct /\ e \notin Rows => Distinct'
<1>1. /\ Len(rows) \in Nat /\ rows' \in Seq(Events)
      /\ DOMAIN rows = 1..Len(rows) /\ DOMAIN rows' = 1..(Len(rows) + 1)
      /\ \A i \in 1..Len(rows) : rows'[i] = rows[i]
      /\ rows'[Len(rows) + 1] = e
  OBVIOUS
<1>2. Rows' = Rows \cup {e}
  <2>1. \A d \in Rows' : d \in Rows \cup {e}
    BY <1>1 DEF Rows
  <2>2. \A d \in Rows : d \in Rows'
    BY <1>1 DEF Rows
  <2>3. e \in Rows'
    BY <1>1 DEF Rows
  <2>4. QED
    BY <2>1, <2>2, <2>3
<1>3. \A c, d : Older(c, d) => Older(c, d)'
  BY <1>1 DEF Older
<1>4. Distinct /\ e \notin Rows => Distinct'
  BY <1>1 DEF Distinct, Rows
<1>5. QED
  BY <1>1, <1>2, <1>3, <1>4

\* The relay is at one event at a time.
LEMMA OneFirst ==
  ASSUME rows \in Seq(Events), batch \subseteq Rows, NEW d, NEW e, First(d), First(e)
  PROVE  d = e
<1>1. PICK i \in DOMAIN rows : rows[i] = d
  BY DEF Rows, First
<1>2. PICK j \in DOMAIN rows : rows[j] = e
  BY DEF Rows, First
<1>3. i \in Nat /\ j \in Nat
  OBVIOUS
<1>4. ~(i < j) /\ ~(j < i)
  BY <1>1, <1>2 DEF Older, First
<1>5. QED
  BY <1>1, <1>2, <1>3, <1>4

\* A batch is not empty where a row is pending: the oldest of them is in it.
LEMMA FetchedSome ==
  ASSUME rows \in Seq(Events), Distinct, Pending # {}
  PROVE  Fetched # {}
<1> DEFINE T == {i \in DOMAIN rows : status[rows[i]] = "pending"}
<1>1. T \subseteq Nat /\ T # {}
  BY DEF Pending, Rows
<1>2. PICK i \in T : \A j \in T : ~(<<j, i>> \in OpToRel(<, Nat))
  BY <1>1, WFMin, NatLessThanWellFounded, Zenon
<1>3. \A j \in T : ~(j < i)
  BY <1>1, <1>2, Zenon DEF OpToRel
<1>4. rows[i] \in Pending
  BY DEF Pending, Rows
<1>5. \A d \in Pending : ~Older(d, rows[i])
  BY <1>3 DEF Pending, Older, Distinct
<1>6. Cardinality({d \in Pending : Older(d, rows[i])}) = 0
  <2>1. {d \in Pending : Older(d, rows[i])} = {}
    BY <1>5
  <2>2. QED
    BY <2>1, FS_EmptySet
<1>7. rows[i] \in Fetched
  BY <1>4, <1>6, Constants DEF Fetched
<1>8. QED
  BY <1>7
-----------------------------------------------------------------------------
(* Types, and what a request has done.                                     *)

\* A request's mutation has committed, its row is there once it was enqueued, not before.
Placed(e) ==
  /\ e \in Rows => e \in mutated /\ pc[e] \notin {"new", "enqueue"}
  /\ pc[e] # "new" => e \in mutated
  /\ pc[e] \in {"publish", "increment", "mark"} => e \in Rows

TypeInv == TypeOK /\ Distinct /\ \A e \in Events : Placed(e)

\* The failures of an event stay a count.
LEMMA FailedType ==
  ASSUME TypeOK, NEW e \in Events, Failed(e)
  PROVE  failures' \in [Events -> Nat]
BY Constants DEF TypeOK, Failed

\* A fault, or none.
LEMMA FaultType ==
  ASSUME TypeOK
  PROVE  /\ Fault => faults' \in 0..MaxFaults
         /\ NoFault => faults' \in 0..MaxFaults
BY Constants DEF TypeOK, Fault, NoFault

\* What a batch's rest is.
LEMMA ContinueType ==
  ASSUME TypeOK, NEW e \in Events, e \in batch, Continue(e)
  PROVE  /\ batch' \subseteq batch /\ relay' \in {"fetch"} \cup Relaying
         /\ batch' = {} <=> relay' = "fetch"
         /\ seen' \in [Events -> Nat] /\ expired' \in BOOLEAN
         /\ \A d \in batch' : seen'[d] = seen[d]
<1>1. batch' = batch \ {e} /\ seen' = [seen EXCEPT ![e] = 0] /\ expired' = (expired /\ batch' # {})
      /\ relay' = (IF batch' = {} THEN "fetch" ELSE "publish")
  BY DEF Continue
<1>2. expired' \in BOOLEAN
  BY <1>1, Zenon DEF TypeOK
<1>3. QED
  BY <1>1, <1>2 DEF TypeOK, Relaying

\* A step of the request of e, on its way after its mutation.
LEMMA RequestType ==
  ASSUME TypeInv, NEW e \in Events, RequestStep(e) \/ EnqueueFails(e)
  PROVE  TypeInv'
<1> USE FaultType, Constants DEF TypeInv, table, kafka, client, sweep, Emitting
<1>1. e \in mutated /\ pc[e] # "new"
  BY DEF RequestStep, EnqueueFails, Enqueue, Publish, Increment, Mark, At, Placed
<1>2. ASSUME NEW label \in {"publish", "increment", "mark", "done"}, Goto(e, label), rows' = rows,
             pc[e] \in {"publish", "increment", "mark"} \/ (pc[e] = "enqueue" /\ label = "done"),
             status' \in [Events -> {"none", "pending", "published", "failed"}],
             attempts' \in [Events -> Nat], delivered' \subseteq Events, failures' \in [Events -> Nat],
             UNCHANGED <<broker, mutated, cancelled, sweep, process>>, faults' \in 0..MaxFaults
      PROVE  TypeInv'
  <2>1. Rows' = Rows /\ Distinct'
    BY <1>2 DEF Rows, Distinct
  <2>2. pc' = [pc EXCEPT ![e] = label]
    BY <1>2 DEF Goto
  <2>3. TypeOK'
    BY <1>2, <2>1, <2>2 DEF TypeOK
  <2>4. \A d \in Events : Placed(d)'
    BY <1>1, <1>2, <2>1, <2>2 DEF Placed, TypeOK
  <2>5. QED
    BY <2>1, <2>3, <2>4
<1>3. ASSUME NEW label \in {"publish", "done"}, Goto(e, label), pc[e] = "enqueue", Inserted(e),
             UNCHANGED <<attempts, kafka, mutated, cancelled, sweep, process, failures>>,
             faults' \in 0..MaxFaults
      PROVE  TypeInv'
  <2>1. e \notin Rows /\ rows' = Append(rows, e) /\ rows \in Seq(Events)
    BY <1>3 DEF Placed, Inserted, TypeOK
  <2>2. rows' \in Seq(Events) /\ Rows' = Rows \cup {e} /\ Distinct'
    BY <2>1, Appended
  <2>3. pc' = [pc EXCEPT ![e] = label]
    BY <1>3 DEF Goto
  <2>4. status' \in [Events -> {"none", "pending", "published", "failed"}]
    BY <1>3 DEF Inserted, TypeOK
  <2>5. TypeOK'
    BY <1>3, <2>2, <2>3, <2>4 DEF TypeOK
  <2>6. \A d \in Events : Placed(d)'
    BY <1>1, <1>3, <2>2, <2>3 DEF Placed, TypeOK
  <2>7. QED
    BY <2>2, <2>5, <2>6
<1>4. CASE Enqueue(e)
  BY <1>3, <1>4 DEF Enqueue, At, TypeOK
<1>5. CASE EnqueueFails(e)
  <2>1. faults' \in 0..MaxFaults
    BY <1>5 DEF EnqueueFails, Fails
  <2>2. CASE UNCHANGED <<rows, status>>
    BY <1>2, <1>5, <2>1, <2>2 DEF EnqueueFails, At, TypeOK
  <2>3. CASE Inserted(e)
    BY <1>3, <1>5, <2>1, <2>3 DEF EnqueueFails, At
  <2>4. QED
    BY <1>5, <2>2, <2>3 DEF EnqueueFails
<1>6. CASE Publish(e)
  <2>1. failures' \in [Events -> Nat] /\ delivered' \subseteq Events
    BY <1>6, FailedType DEF Publish, TypeOK
  <2>2. faults' \in 0..MaxFaults
    BY <1>6 DEF Publish, Fails, TypeOK
  <2>3. QED
    BY <1>2, <1>6, <2>1, <2>2 DEF Publish, At, TypeOK
<1>7. CASE Increment(e)
  <2>1. attempts' \in [Events -> Nat]
    BY <1>7 DEF Increment, IncrementAttempts, TypeOK
  <2>2. faults' \in 0..MaxFaults
    BY <1>7 DEF Increment, Fails
  <2>3. QED
    BY <1>2, <1>7, <2>1, <2>2 DEF Increment, At, TypeOK
<1>8. CASE Mark(e)
  <2>1. status' \in [Events -> {"none", "pending", "published", "failed"}]
    BY <1>8 DEF Mark, MarkPublished, TypeOK
  <2>2. faults' \in 0..MaxFaults
    BY <1>8 DEF Mark, Fails
  <2>3. QED
    BY <1>2, <1>8, <2>1, <2>2 DEF Mark, At, TypeOK
<1>9. QED
  BY <1>4, <1>5, <1>6, <1>7, <1>8 DEF RequestStep

\* A step of the relay.
LEMMA RelayType ==
  ASSUME TypeInv, RelayStep \/ BatchDeadline
  PROVE  TypeInv'
<1> USE FaultType, Constants DEF TypeInv, table, kafka, client, sweep
<1>1. rows' = rows /\ UNCHANGED client /\ UNCHANGED process
  BY DEF RelayStep, RelayFetch, RelayPublish, RelayFail, RelayMark, BatchDeadline
<1>2. Rows' = Rows /\ Distinct' /\ \A e \in Events : Placed(e)'
  BY <1>1 DEF Rows, Distinct, Placed
<1>3. CASE RelayFetch
  <2>1. batch' # {} /\ batch' \subseteq Rows
    BY <1>3, FetchedSome DEF RelayFetch, TypeOK, Fetched, Pending
  <2>2. seen' \in [Events -> Nat]
    BY <1>3 DEF RelayFetch, TypeOK
  <2>3. QED
    BY <1>2, <1>3, <2>1, <2>2 DEF RelayFetch, TypeOK, Relaying
<1>4. ASSUME NEW e \in Events, RelayPublish(e) PROVE TypeInv'
  <2>1. failures' \in [Events -> Nat] /\ delivered' \subseteq Events
    BY <1>4, FailedType DEF RelayPublish, TypeOK
  <2>2. faults' \in 0..MaxFaults
    BY <1>4 DEF RelayPublish, Fails, TypeOK
  <2>3. QED
    BY <1>2, <1>4, <2>1, <2>2 DEF RelayPublish, AtEvent, TypeOK, Relaying
<1>5. ASSUME NEW e \in Events, RelayFail(e) \/ RelayMark(e) PROVE TypeInv'
  <2>1. e \in batch /\ Continue(e)
    BY <1>5 DEF RelayFail, RelayMark, AtEvent
  <2>2. status' \in [Events -> {"none", "pending", "published", "failed"}] /\ attempts' \in [Events -> Nat]
    <3>1. \/ UNCHANGED <<status, attempts>>
          \/ UNCHANGED attempts /\ \E x \in {"published", "failed"} : status' = [status EXCEPT ![e] = x]
          \/ UNCHANGED status /\ attempts' = [attempts EXCEPT ![e] = @ + 1]
      BY <1>5 DEF RelayFail, RelayMark, MarkFailed, MarkPublished, IncrementAttempts
    <3>2. /\ status \in [Events -> {"none", "pending", "published", "failed"}]
          /\ attempts \in [Events -> Nat]
      BY DEF TypeOK
    <3>3. attempts' \in [Events -> Nat]
      BY <3>1, <3>2
    <3>4. status' \in [Events -> {"none", "pending", "published", "failed"}]
      BY <3>1, <3>2
    <3>5. QED
      BY <3>3, <3>4
  <2>3. faults' \in 0..MaxFaults
    BY <1>5 DEF RelayFail, RelayMark, Fails
  <2>4. QED
    BY <1>2, <1>5, <2>1, <2>2, <2>3, ContinueType DEF RelayFail, RelayMark, TypeOK
<1>6. CASE BatchDeadline
  BY <1>2, <1>6 DEF BatchDeadline, Fails, TypeOK
<1>7. QED
  BY <1>3, <1>4, <1>5, <1>6 DEF RelayStep

\* Every other step.
LEMMA OtherType ==
  ASSUME TypeInv,
         \/ \E e \in Events : Mutate(e) \/ Cancel(e)
         \/ Outage \/ Recover \/ Shutdown \/ Exit \/ Crash \/ Start
  PROVE  TypeInv'
<1> USE FaultType, Constants DEF TypeInv, table, kafka, client, sweep
<1>1. rows' = rows
  BY DEF Mutate, Cancel, Outage, Recover, Shutdown, Exit, Crash, Start, Halt
<1>2. Rows' = Rows /\ Distinct'
  BY <1>1 DEF Rows, Distinct
<1>3. ASSUME NEW e \in Events, Mutate(e) PROVE TypeInv'
  <2>1. TypeOK'
    BY <1>2, <1>3 DEF Mutate, Goto, TypeOK, Emitting
  <2>2. \A d \in Events : Placed(d)'
    BY <1>2, <1>3 DEF Mutate, Goto, Placed, TypeOK
  <2>3. QED
    BY <1>2, <2>1, <2>2
<1>4. ASSUME NEW e \in Events, Cancel(e) PROVE TypeInv'
  BY <1>2, <1>4 DEF Cancel, TypeOK, Placed
<1>5. CASE Outage \/ Recover \/ Shutdown \/ Start
  BY <1>2, <1>5 DEF Outage, Recover, Shutdown, Start, TypeOK, Placed
<1>6. CASE Exit \/ Crash
  <2>1. Halt /\ faults' \in 0..MaxFaults
    BY <1>6 DEF Exit, Crash
  <2>2. pc' = [e \in Events |-> IF pc[e] \in Emitting THEN "done" ELSE pc[e]]
    BY <2>1 DEF Halt
  <2>3. TypeOK'
    BY <1>2, <2>1, <2>2 DEF Halt, TypeOK
  <2>4. \A e \in Events : Placed(e)'
    BY <1>2, <2>1, <2>2 DEF Halt, Placed, TypeOK, Emitting
  <2>5. QED
    BY <1>2, <2>3, <2>4
<1>7. QED
  BY <1>3, <1>4, <1>5, <1>6

LEMMA TypeInvariance == Spec => []TypeInv
<1>1. Init => TypeInv
  <2>1. SUFFICES ASSUME Init PROVE TypeInv
    OBVIOUS
  <2>2. Rows = {}
    BY <2>1 DEF Init, Rows
  <2>3. TypeOK
    <3>1. rows \in Seq(Events)
      BY <2>1 DEF Init
    <3>2. /\ status \in [Events -> {"none", "pending", "published", "failed"}]
          /\ attempts \in [Events -> Nat] /\ seen \in [Events -> Nat] /\ failures \in [Events -> Nat]
          /\ pc \in [Events -> {"new", "done"} \cup Emitting]
      BY <2>1 DEF Init
    <3>3. faults \in 0..MaxFaults
      BY <2>1, Constants DEF Init
    <3>4. QED
      BY <2>1, <2>2, <3>1, <3>2, <3>3 DEF Init, TypeOK
  <2>4. Distinct /\ \A e \in Events : Placed(e)
    BY <2>1, <2>2 DEF Init, Distinct, Placed
  <2>5. QED
    BY <2>3, <2>4 DEF TypeInv
<1>2. TypeInv /\ [Next]_vars => TypeInv'
  <2>1. SUFFICES ASSUME TypeInv, [Next]_vars PROVE TypeInv'
    OBVIOUS
  <2>2. CASE Next
    BY <2>1, <2>2, RequestType, RelayType, OtherType DEF Next
  <2>3. CASE UNCHANGED vars
    BY <2>1, <2>3 DEF TypeInv, TypeOK, Distinct, Placed, Rows, vars, table, kafka, client, sweep
  <2>4. QED
    BY <2>1, <2>2, <2>3
<1>3. QED
  BY <1>1, <1>2, PTL DEF Spec

\* Every variable has its type; a batch holds rows, and the relay is at one of them or fetches.
THEOREM TypeCorrect == Spec => []TypeOK
<1>1. TypeInv => TypeOK
  BY DEF TypeInv
<1>2. QED
  BY <1>1, TypeInvariance, PTL

-----------------------------------------------------------------------------
(* What is marked has been delivered.                                      *)

DeliveryInv ==
  /\ delivered \subseteq Rows
  /\ \A e \in Events : status[e] = "published" \/ pc[e] = "mark" => e \in delivered
  /\ relay = "mark" => \A e : First(e) => e \in delivered

\* Rows only join, and where the batch stays nothing comes to its front.
LEMMA RowsGrow ==
  ASSUME TypeInv, [Next]_vars
  PROVE  /\ Rows \subseteq Rows'
         /\ batch' = batch => \A e : First(e)' => First(e)
<1>1. CASE rows' = rows
  BY <1>1 DEF Rows, First, Older
<1>2. ASSUME NEW c \in Events, rows' = Append(rows, c)
      PROVE  Rows \subseteq Rows' /\ \A d, e : Older(d, e) => Older(d, e)'
  BY <1>2, Appended DEF TypeInv, TypeOK
<1>3. rows' = rows \/ \E c \in Events : rows' = Append(rows, c)
  BY DEF Next, RequestStep, RelayStep, Mutate, Enqueue, EnqueueFails, Inserted, Publish, Increment, Mark,
     Cancel, RelayFetch, RelayPublish, RelayFail, RelayMark, BatchDeadline, Outage, Recover, Shutdown,
     Exit, Crash, Halt, Start, vars, table
<1>4. QED
  BY <1>1, <1>2, <1>3 DEF First

LEMMA DeliveryStep ==
  ASSUME TypeInv, DeliveryInv, [Next]_vars
  PROVE  DeliveryInv'
<1> USE RowsGrow DEF table, kafka, client, sweep
<1>1. /\ status \in [Events -> {"none", "pending", "published", "failed"}]
      /\ pc \in [Events -> {"new", "done"} \cup Emitting]
      /\ batch \subseteq Rows /\ rows \in Seq(Events)
  BY DEF TypeInv, TypeOK
<1>2. ASSUME UNCHANGED <<status, delivered, relay, batch>>,
             \A e \in Events : pc'[e] = "mark" => pc[e] = "mark"
      PROVE  DeliveryInv'
  BY <1>2 DEF DeliveryInv
<1>3. ASSUME NEW e \in Events, RequestStep(e) \/ EnqueueFails(e) PROVE DeliveryInv'
  <2>1. UNCHANGED <<relay, batch>>
    BY <1>3 DEF RequestStep, EnqueueFails, Enqueue, Publish, Increment, Mark
  <2>2. CASE Enqueue(e) \/ EnqueueFails(e)
    <3>1. delivered' = delivered
          /\ \A d \in Events : (pc'[d] = "mark" => pc[d] = "mark")
                               /\ (status'[d] = "published" => status[d] = "published")
      BY <1>1, <2>2 DEF Enqueue, EnqueueFails, Inserted, Goto
    <3>2. QED
      BY <2>1, <3>1 DEF DeliveryInv
  <2>3. CASE Publish(e)
    <3>1. e \in Rows
      BY <2>3 DEF Publish, At, TypeInv, Placed
    <3>2. /\ delivered \subseteq delivered' /\ delivered' \subseteq delivered \cup {e}
          /\ status' = status
          /\ \A d \in Events : pc'[d] = "mark" => pc[d] = "mark" \/ d \in delivered'
      BY <1>1, <2>3 DEF Publish, Goto
    <3>3. QED
      BY <2>1, <3>1, <3>2 DEF DeliveryInv
  <2>4. CASE Increment(e)
    BY <1>1, <1>2, <2>1, <2>4 DEF Increment, Goto
  <2>5. CASE Mark(e)
    <3>1. e \in delivered /\ delivered' = delivered
      BY <2>5 DEF Mark, At, DeliveryInv
    <3>2. \A d \in Events : /\ pc'[d] = "mark" => pc[d] = "mark"
                            /\ status'[d] = "published" => status[d] = "published" \/ d = e
      BY <1>1, <2>5 DEF Mark, MarkPublished, Goto
    <3>3. QED
      BY <2>1, <3>1, <3>2 DEF DeliveryInv
  <2>6. QED
    BY <1>3, <2>2, <2>3, <2>4, <2>5 DEF RequestStep
<1>4. CASE RelayFetch
  BY <1>4 DEF RelayFetch, DeliveryInv
<1>5. ASSUME NEW e \in Events, RelayPublish(e) PROVE DeliveryInv'
  <2>1. First(e) /\ batch' = batch /\ UNCHANGED <<status, pc>>
    BY <1>5 DEF RelayPublish, AtEvent, First
  <2>2. /\ delivered \subseteq delivered' /\ delivered' \subseteq delivered \cup {e}
        /\ relay' = "mark" => e \in delivered'
    BY <1>5 DEF RelayPublish
  <2>3. \A d : First(d)' => d = e
    BY <1>1, <2>1, OneFirst
  <2>4. QED
    BY <1>1, <2>1, <2>2, <2>3 DEF DeliveryInv, First
<1>6. ASSUME NEW e \in Events, RelayFail(e) \/ RelayMark(e) PROVE DeliveryInv'
  <2>1. delivered' = delivered /\ pc' = pc /\ relay' # "mark"
    BY <1>6 DEF RelayFail, RelayMark, Continue
  <2>2. \A d \in Events : status'[d] = "published" => status[d] = "published" \/ d \in delivered
    <3>1. CASE RelayFail(e)
      BY <1>1, <3>1 DEF RelayFail, MarkFailed
    <3>2. CASE RelayMark(e)
      <4>1. e \in delivered
        BY <3>2 DEF RelayMark, AtEvent, DeliveryInv, First
      <4>2. QED
        BY <1>1, <3>2, <4>1 DEF RelayMark, MarkPublished
    <3>3. QED
      BY <1>6, <3>1, <3>2
  <2>3. QED
    BY <2>1, <2>2 DEF DeliveryInv
<1>7. ASSUME NEW e \in Events, Mutate(e) \/ Cancel(e) PROVE DeliveryInv'
  BY <1>1, <1>2, <1>7 DEF Mutate, Cancel, Goto
<1>8. CASE BatchDeadline \/ Outage \/ Recover \/ Shutdown \/ Start \/ UNCHANGED vars
  BY <1>2, <1>8 DEF BatchDeadline, Outage, Recover, Shutdown, Start, vars
<1>9. CASE Exit \/ Crash
  <2>1. UNCHANGED <<status, delivered>> /\ relay' = "fetch"
        /\ \A e \in Events : pc'[e] = "mark" => pc[e] = "mark"
    BY <1>9 DEF Exit, Crash, Halt, Emitting
  <2>2. QED
    BY <2>1 DEF DeliveryInv
<1>10. QED
  BY <1>3, <1>4, <1>5, <1>6, <1>7, <1>8, <1>9 DEF Next, RelayStep

\* Enqueue, publish, mark: what is on a topic has a row of a committed mutation, and a row
\* marked published is on its topic, whichever of the request and the relay has marked it.
THEOREM MarkedRowsAreDelivered == Spec => []MarkedIsDelivered
<1>1. Init => DeliveryInv
  BY DEF Init, DeliveryInv
<1>2. TypeInv /\ DeliveryInv /\ [Next]_vars => DeliveryInv'
  BY DeliveryStep
<1>3. TypeInv /\ DeliveryInv => MarkedIsDelivered
  <2>1. SUFFICES ASSUME TypeInv, DeliveryInv PROVE MarkedIsDelivered
    OBVIOUS
  <2>2. Rows \subseteq Events
    <3>1. rows \in Seq(Events) /\ DOMAIN rows = 1..Len(rows)
      BY <2>1 DEF TypeInv, TypeOK
    <3>2. QED
      BY <3>1 DEF Rows
  <2>3. Rows \subseteq mutated
    BY <2>1, <2>2 DEF TypeInv, Placed
  <2>4. \A e \in Rows : status[e] = "published" => e \in delivered
    BY <2>1, <2>2 DEF DeliveryInv
  <2>5. QED
    BY <2>1, <2>3, <2>4 DEF DeliveryInv, MarkedIsDelivered
<1>4. QED
  BY <1>1, <1>2, <1>3, TypeInvariance, PTL DEF Spec

-----------------------------------------------------------------------------
(* What is given up has failed often enough.                               *)

\* Failed publishes of e that a request, and the relay, have still to count.
AskedToCount(e) == IF pc[e] = "increment" THEN 1 ELSE 0
RelayToCount(e) == IF relay = "fail" /\ First(e) THEN 1 ELSE 0

\* The column counts failed publishes only, and the relay's copy is never ahead of it.
Accounted(e) ==
  /\ \/ failures[e] >= MaxAttempts
     \/ attempts[e] + AskedToCount(e) + RelayToCount(e) <= failures[e]
  /\ e \in batch => seen[e] <= attempts[e]
  /\ status[e] = "failed" => failures[e] >= MaxAttempts

CountInv == \A e \in Events : Accounted(e)

\* Nothing new to count, in the column or by the relay.
LEMMA CountStays ==
  ASSUME TypeInv, TypeInv', NEW e \in Events, Accounted(e),
         attempts'[e] = attempts[e], failures'[e] = failures[e],
         pc'[e] = "increment" => pc[e] = "increment",
         relay' = "fail" /\ First(e)' => relay = "fail" /\ First(e),
         e \in batch' => (e \in batch /\ seen'[e] = seen[e]) \/ seen'[e] <= attempts[e],
         status'[e] = "failed" => status[e] = "failed"
  PROVE  Accounted(e)'
<1>1. /\ attempts[e] \in Nat /\ failures[e] \in Nat /\ MaxAttempts \in Nat
      /\ seen[e] \in Nat
  BY Constants DEF TypeInv, TypeOK
<1>2. AskedToCount(e)' <= AskedToCount(e) /\ RelayToCount(e)' <= RelayToCount(e)
      /\ AskedToCount(e) \in 0..1 /\ RelayToCount(e) \in 0..1
      /\ AskedToCount(e)' \in 0..1 /\ RelayToCount(e)' \in 0..1
  BY DEF AskedToCount, RelayToCount
<1>3. QED
  BY <1>1, <1>2 DEF Accounted

\* One more failure of e, which the request or the relay is now to count.
LEMMA OneMoreFailure ==
  ASSUME TypeInv, TypeInv', NEW e \in Events, Accounted(e), Failed(e),
         attempts'[e] = attempts[e], status'[e] = status[e],
         AskedToCount(e)' + RelayToCount(e)' <= AskedToCount(e) + RelayToCount(e) + 1,
         e \in batch' => e \in batch /\ seen'[e] = seen[e]
  PROVE  Accounted(e)'
<1>1. /\ attempts[e] \in Nat /\ failures[e] \in Nat /\ MaxAttempts \in Nat
      /\ seen[e] \in Nat
      /\ AskedToCount(e) \in 0..1 /\ RelayToCount(e) \in 0..1
      /\ AskedToCount(e)' \in 0..1 /\ RelayToCount(e)' \in 0..1
  BY Constants DEF TypeInv, TypeOK, AskedToCount, RelayToCount
<1>2. failures'[e] = IF failures[e] < MaxAttempts THEN failures[e] + 1 ELSE failures[e]
  BY DEF Failed, TypeInv, TypeOK
<1>3. QED
  BY <1>1, <1>2 DEF Accounted

\* A failure is counted.
LEMMA OneMoreAttempt ==
  ASSUME TypeInv, TypeInv', NEW e \in Events, Accounted(e),
         attempts'[e] = attempts[e] + 1, status'[e] = status[e], failures'[e] = failures[e],
         AskedToCount(e)' + RelayToCount(e)' + 1 <= AskedToCount(e) + RelayToCount(e),
         e \in batch' => e \in batch /\ seen'[e] = seen[e]
  PROVE  Accounted(e)'
<1>1. /\ attempts[e] \in Nat /\ failures[e] \in Nat /\ MaxAttempts \in Nat
      /\ seen[e] \in Nat
      /\ AskedToCount(e) \in 0..1 /\ RelayToCount(e) \in 0..1
      /\ AskedToCount(e)' \in 0..1 /\ RelayToCount(e)' \in 0..1
  BY Constants DEF TypeInv, TypeOK, AskedToCount, RelayToCount
<1>2. QED
  BY <1>1 DEF Accounted

LEMMA CountStep ==
  ASSUME TypeInv, TypeInv', CountInv, [Next]_vars, NEW e \in Events
  PROVE  Accounted(e)'
<1> USE RowsGrow DEF table, kafka, client, sweep
<1>1. /\ Accounted(e)
      /\ status \in [Events -> {"none", "pending", "published", "failed"}]
      /\ pc \in [Events -> {"new", "done"} \cup Emitting]
      /\ attempts \in [Events -> Nat] /\ seen \in [Events -> Nat] /\ failures \in [Events -> Nat]
      /\ batch \subseteq Rows /\ rows \in Seq(Events)
  BY DEF TypeInv, TypeOK, CountInv
<1>2. ASSUME UNCHANGED <<attempts, failures, relay, batch, seen>>,
             pc'[e] = "increment" => pc[e] = "increment",
             status'[e] = "failed" => status[e] = "failed"
      PROVE  Accounted(e)'
  BY <1>1, <1>2, CountStays
<1>3. ASSUME NEW d \in Events, RequestStep(d) \/ EnqueueFails(d) PROVE Accounted(e)'
  <2>1. UNCHANGED <<relay, batch, seen>>
    BY <1>3 DEF RequestStep, EnqueueFails, Enqueue, Publish, Increment, Mark
  <2>2. RelayToCount(e)' <= RelayToCount(e) /\ RelayToCount(e) \in 0..1 /\ RelayToCount(e)' \in 0..1
    BY <2>1 DEF RelayToCount
  <2>3. CASE Enqueue(d) \/ EnqueueFails(d) \/ Mark(d)
    BY <1>1, <1>2, <2>1, <2>3 DEF Enqueue, EnqueueFails, Mark, MarkPublished, Inserted, Goto
  <2>4. CASE Publish(d)
    <3>1. CASE d = e /\ Failed(e)
      <4>1. AskedToCount(e) = 0 /\ AskedToCount(e)' \in 0..1 /\ attempts' = attempts /\ status' = status
        BY <2>4, <3>1 DEF Publish, At, AskedToCount
      <4>2. QED
        BY <1>1, <2>1, <2>2, <3>1, <4>1, OneMoreFailure
    <3>2. CASE ~(d = e /\ Failed(e))
      <4>1. failures'[e] = failures[e] /\ (pc'[e] = "increment" => pc[e] = "increment")
            /\ attempts' = attempts /\ status' = status
        BY <1>1, <2>4, <3>2 DEF Publish, Goto, Failed
      <4>2. QED
        BY <1>1, <2>1, <4>1, CountStays
    <3>3. QED
      BY <3>1, <3>2
  <2>5. CASE Increment(d)
    <3>1. /\ pc[d] = "increment" /\ pc' = [pc EXCEPT ![d] = "done"]
          /\ status' = status /\ failures' = failures
          /\ attempts' = attempts \/ attempts' = [attempts EXCEPT ![d] = @ + 1]
      BY <2>5 DEF Increment, At, Goto, IncrementAttempts
    <3>2. CASE d = e /\ attempts'[e] = attempts[e] + 1
      <4>1. AskedToCount(e) = 1 /\ AskedToCount(e)' = 0
        BY <1>1, <3>1, <3>2 DEF AskedToCount
      <4>2. QED
        BY <1>1, <2>1, <2>2, <3>1, <3>2, <4>1, OneMoreAttempt
    <3>3. CASE attempts'[e] = attempts[e]
      BY <1>1, <2>1, <3>1, <3>3, CountStays
    <3>4. QED
      BY <1>1, <3>1, <3>2, <3>3
  <2>6. QED
    BY <1>3, <2>3, <2>4, <2>5 DEF RequestStep
<1>4. CASE RelayFetch
  <2>1. UNCHANGED <<pc, attempts, status, failures>> /\ relay' = "publish"
        /\ (e \in batch' => seen'[e] = attempts[e])
    BY <1>4 DEF RelayFetch
  <2>2. QED
    BY <1>1, <2>1, CountStays
<1>5. ASSUME NEW d \in Events, RelayPublish(d) PROVE Accounted(e)'
  <2>1. First(d) /\ relay = "publish" /\ UNCHANGED <<batch, seen, status, attempts, pc>>
    BY <1>5 DEF RelayPublish, AtEvent, First
  <2>2. First(e)' => e = d
    BY <1>1, <2>1, OneFirst
  <2>3. CASE e = d /\ relay' = "fail"
    <3>1. Failed(e)
      BY <1>5, <2>3 DEF RelayPublish
    <3>2. RelayToCount(e) = 0 /\ RelayToCount(e)' \in 0..1
          /\ AskedToCount(e)' = AskedToCount(e) /\ AskedToCount(e) \in 0..1
      BY <2>1 DEF RelayToCount, AskedToCount
    <3>3. QED
      BY <1>1, <2>1, <3>1, <3>2, OneMoreFailure
  <2>4. CASE ~(e = d /\ relay' = "fail")
    <3>1. failures'[e] = failures[e]
      BY <1>1, <1>5, <2>4 DEF RelayPublish, Failed
    <3>2. QED
      BY <1>1, <2>1, <2>2, <2>4, <3>1, CountStays
  <2>5. QED
    BY <2>3, <2>4
<1>6. ASSUME NEW d \in Events, RelayMark(d) PROVE Accounted(e)'
  <2>1. UNCHANGED <<attempts, failures, pc>> /\ Continue(d)
        /\ (status'[e] = "failed" => status[e] = "failed")
    BY <1>1, <1>6 DEF RelayMark, MarkPublished
  <2>2. relay' # "fail" /\ (e \in batch' => e \in batch /\ seen'[e] = seen[e])
    BY <1>1, <2>1 DEF Continue
  <2>3. QED
    BY <1>1, <2>1, <2>2, CountStays
<1>7. ASSUME NEW d \in Events, RelayFail(d) PROVE Accounted(e)'
  <2>1. First(d) /\ relay = "fail" /\ Continue(d) /\ UNCHANGED <<pc, failures>>
    BY <1>7 DEF RelayFail, AtEvent, First
  <2>2. relay' # "fail" /\ (e \in batch' => e \in batch /\ seen'[e] = seen[e])
    BY <1>1, <2>1 DEF Continue
  <2>3. /\ RelayToCount(e)' = 0 /\ (d = e => RelayToCount(e) = 1)
        /\ AskedToCount(e)' = AskedToCount(e) /\ AskedToCount(e) \in 0..1
    BY <2>1, <2>2 DEF RelayToCount, AskedToCount
  <2>4. \/ LastAttempt(d) /\ status' = MarkFailed(d) /\ UNCHANGED attempts
        \/ attempts' = IncrementAttempts(d) /\ UNCHANGED status
        \/ UNCHANGED <<status, attempts>>
    BY <1>7 DEF RelayFail
  <2>5. CASE d = e /\ LastAttempt(d) /\ status' = MarkFailed(d) /\ UNCHANGED attempts
    <3>1. seen[e] <= attempts[e] /\ seen[e] + 1 >= MaxAttempts
      BY <1>1, <2>1, <2>5 DEF LastAttempt, Accounted, First
    <3>2. failures[e] >= MaxAttempts
      BY <1>1, <2>3, <2>5, <3>1, Constants DEF Accounted
    <3>3. QED
      BY <1>1, <2>1, <2>2, <2>5, <3>1, <3>2 DEF Accounted
  <2>6. CASE d = e /\ attempts' = IncrementAttempts(d) /\ UNCHANGED status
    <3>1. attempts'[e] = attempts[e] + 1
      BY <1>1, <2>6 DEF IncrementAttempts
    <3>2. AskedToCount(e)' + RelayToCount(e)' + 1 <= AskedToCount(e) + RelayToCount(e)
      BY <2>3, <2>6
    <3>3. status'[e] = status[e] /\ failures'[e] = failures[e]
      BY <2>1, <2>6
    <3>4. QED
      BY <1>1, <2>2, <3>1, <3>2, <3>3, OneMoreAttempt
  <2>7. CASE UNCHANGED <<status, attempts>> \/ d # e
    <3>1. attempts'[e] = attempts[e] /\ status'[e] = status[e]
      BY <1>1, <2>4, <2>7 DEF MarkFailed, IncrementAttempts
    <3>2. QED
      BY <1>1, <2>1, <2>2, <3>1, CountStays
  <2>8. QED
    BY <2>4, <2>5, <2>6, <2>7
<1>8. ASSUME NEW d \in Events, Mutate(d) \/ Cancel(d) PROVE Accounted(e)'
  BY <1>1, <1>2, <1>8 DEF Mutate, Cancel, Goto
<1>9. CASE BatchDeadline \/ Outage \/ Recover \/ Shutdown \/ Start \/ UNCHANGED vars
  BY <1>2, <1>9 DEF BatchDeadline, Outage, Recover, Shutdown, Start, vars
<1>10. CASE Exit \/ Crash
  <2>1. UNCHANGED <<attempts, status, failures>> /\ relay' = "fetch" /\ batch' = {}
        /\ (pc'[e] = "increment" => pc[e] = "increment")
    BY <1>10 DEF Exit, Crash, Halt, Emitting
  <2>2. QED
    BY <1>1, <2>1, CountStays
<1>11. QED
  BY <1>3, <1>4, <1>5, <1>6, <1>7, <1>8, <1>9, <1>10 DEF Next, RelayStep

\* No row is given up before MaxAttempts publishes of it have failed: the relay decides on a
\* copy of the count that can only be behind, and the count only on failures.
THEOREM GivenUpRowsHaveFailed == Spec => []GivenUpAfterAllAttempts
<1>1. Init => CountInv
  <2>1. SUFFICES ASSUME Init, NEW e \in Events PROVE Accounted(e)
    BY DEF CountInv
  <2>2. AskedToCount(e) = 0 /\ RelayToCount(e) = 0
    BY <2>1 DEF Init, AskedToCount, RelayToCount
  <2>3. QED
    BY <2>1, <2>2 DEF Init, Accounted
<1>2. TypeInv /\ TypeInv' /\ CountInv /\ [Next]_vars => CountInv'
  BY CountStep DEF CountInv
<1>3. CountInv => GivenUpAfterAllAttempts
  BY DEF CountInv, Accounted, GivenUpAfterAllAttempts
<1>4. QED
  BY <1>1, <1>2, <1>3, TypeInvariance, PTL DEF Spec
-----------------------------------------------------------------------------
(* A settled row.                                                          *)

Settled == {"published", "failed"}

\* The relay and the request may each have the last word on a row, as no statement looks at
\* the status (outbox.go:112-130): a row settled is never retried all the same, and where the
\* second overwrites the first, the event is on its topic.
SettledIsFinal ==
  [][\A e \in Events : status[e] \in Settled =>
       status'[e] \in Settled /\ (status'[e] # status[e] => e \in delivered')]_vars

\* A row has a status, and nothing else has.
StatusInv == \A e \in Events : status[e] # "none" <=> e \in Rows

\* What a step does to the status: an INSERT of a row that is not there yet, or a mark on one
\* that is.
LEMMA StatusStep ==
  ASSUME TypeInv, [Next]_vars
  PROVE  \/ UNCHANGED <<rows, status>>
         \/ \E e \in Events : e \notin Rows /\ Inserted(e)
         \/ \E e \in Events : e \in Rows /\ rows' = rows
                              /\ (status' = MarkPublished(e) \/ status' = MarkFailed(e))
<1> USE DEF table
<1>1. ASSUME NEW e \in Events, Enqueue(e) \/ EnqueueFails(e)
      PROVE  UNCHANGED <<rows, status>> \/ (e \notin Rows /\ Inserted(e))
  BY <1>1 DEF Enqueue, EnqueueFails, At, TypeInv, Placed
<1>2. ASSUME NEW e \in Events, Mark(e)
      PROVE  UNCHANGED <<rows, status>> \/ (e \in Rows /\ rows' = rows /\ status' = MarkPublished(e))
  BY <1>2 DEF Mark, At, TypeInv, Placed
<1>3. ASSUME NEW e \in Events, RelayFail(e) \/ RelayMark(e)
      PROVE  \/ UNCHANGED <<rows, status>>
             \/ e \in Rows /\ rows' = rows /\ (status' = MarkPublished(e) \/ status' = MarkFailed(e))
  BY <1>3 DEF RelayFail, RelayMark, AtEvent, TypeInv, TypeOK
<1>4. QED
  BY <1>1, <1>2, <1>3 DEF Next, RequestStep, RelayStep, Mutate, Publish, Increment, Cancel, RelayFetch,
     RelayPublish, BatchDeadline, Outage, Recover, Shutdown, Exit, Crash, Halt, Start, vars

\* No row is retried once it is settled.
THEOREM SettledStaysSettled == Spec => SettledIsFinal
<1>1. Init => StatusInv
  BY DEF Init, StatusInv, Rows
<1>2. ASSUME TypeInv, StatusInv, [Next]_vars
      PROVE  StatusInv' /\ \A e \in Events : status[e] \in Settled => status'[e] \in Settled
  <2>1. status \in [Events -> {"none", "pending", "published", "failed"}] /\ rows \in Seq(Events)
    BY <1>2 DEF TypeInv, TypeOK
  <2>2. CASE UNCHANGED <<rows, status>>
    BY <1>2, <2>2 DEF StatusInv, Rows
  <2>3. ASSUME NEW e \in Events, e \notin Rows, Inserted(e)
        PROVE  StatusInv' /\ \A d \in Events : status[d] \in Settled => status'[d] \in Settled
    <3>1. Rows' = Rows \cup {e}
      BY <2>1, <2>3, Appended DEF Inserted
    <3>2. \A d \in Events : status'[d] = IF d = e THEN "pending" ELSE status[d]
      BY <2>1, <2>3 DEF Inserted
    <3>3. status[e] = "none"
      BY <1>2, <2>3 DEF StatusInv
    <3>4. QED
      BY <1>2, <3>1, <3>2, <3>3 DEF StatusInv, Settled
  <2>4. ASSUME NEW e \in Events, e \in Rows, rows' = rows,
               status' = MarkPublished(e) \/ status' = MarkFailed(e)
        PROVE  StatusInv' /\ \A d \in Events : status[d] \in Settled => status'[d] \in Settled
    BY <1>2, <2>1, <2>4 DEF StatusInv, Settled, MarkPublished, MarkFailed, Rows
  <2>5. QED
    BY <1>2, <2>2, <2>3, <2>4, StatusStep
<1>3. ASSUME TypeInv, TypeInv', StatusInv, DeliveryInv, [Next]_vars
      PROVE  [\A e \in Events : status[e] \in Settled =>
                status'[e] \in Settled /\ (status'[e] # status[e] => e \in delivered')]_vars
  <2>1. DeliveryInv'
    BY <1>3, DeliveryStep
  <2>2. \A e \in Events : status[e] \in Settled => status'[e] \in Settled
    BY <1>2, <1>3
  <2>3. delivered \subseteq delivered'
    BY <1>3 DEF Next, RequestStep, RelayStep, Mutate, Enqueue, EnqueueFails, Publish, Increment, Mark,
       Cancel, RelayFetch, RelayPublish, RelayFail, RelayMark, BatchDeadline, Outage, Recover, Shutdown,
       Exit, Crash, Halt, Start, vars, kafka
  <2>4. \A e \in Events : status[e] = "published" \/ status'[e] = "published" => e \in delivered'
    BY <1>3, <2>1, <2>3 DEF DeliveryInv
  <2>5. QED
    BY <2>2, <2>4 DEF Settled
<1>4. Init => DeliveryInv
  BY DEF Init, DeliveryInv
<1>5. TypeInv /\ DeliveryInv /\ [Next]_vars => DeliveryInv'
  BY DeliveryStep
<1>6. TypeInv /\ StatusInv /\ [Next]_vars => StatusInv'
  BY <1>2
<1>7. TypeInv /\ TypeInv' /\ StatusInv /\ DeliveryInv /\ [Next]_vars =>
        [\A e \in Events : status[e] \in Settled =>
           status'[e] \in Settled /\ (status'[e] # status[e] => e \in delivered')]_vars
  BY <1>3
<1>8. QED
  BY <1>1, <1>4, <1>5, <1>6, <1>7, TypeInvariance, PTL DEF Spec, SettledIsFinal

-----------------------------------------------------------------------------
(* A mutation without its event.                                           *)

\* EveryMutationEnqueued is violated, as the row is no part of the mutation's transaction.
\* What the code does keep: where no call fails, no client leaves and nothing stops, every
\* mutation has its row, or a request that is about to insert it.
LostOnlyByFault ==
  faults = 0 => \A e \in mutated : e \in Rows \/ pc[e] = "enqueue"

\* Nobody has left and nothing has stopped, either.
Faultless == faults = 0 => cancelled = {} /\ process = "up"

\* A mutation loses its event only where a fault has come in between.
THEOREM LostEventsNeedFaults == Spec => []LostOnlyByFault
<1>1. Init => Faultless /\ LostOnlyByFault
  BY DEF Init, Faultless, LostOnlyByFault
<1>2. ASSUME TypeInv, Faultless, LostOnlyByFault, [Next]_vars
      PROVE  Faultless' /\ LostOnlyByFault'
  <2>1. faults \in Nat /\ rows \in Seq(Events) /\ mutated \subseteq Events
        /\ pc \in [Events -> {"new", "done"} \cup Emitting]
    BY <1>2 DEF TypeInv, TypeOK
  <2>2. Rows \subseteq Rows'
    BY <1>2, RowsGrow
  <2>3. CASE Fault
    BY <2>1, <2>3 DEF Fault, Faultless, LostOnlyByFault
  <2>4. CASE faults' # 0
    BY <2>4 DEF Faultless, LostOnlyByFault
  <2>5. CASE ~Fault /\ faults' = 0
    <3>1. faults = 0 /\ cancelled = {} /\ process = "up"
      BY <1>2, <2>1, <2>5 DEF Faultless, Next, RequestStep, RelayStep, Mutate, Enqueue, EnqueueFails,
         Publish, Increment, Mark, Cancel, RelayFetch, RelayPublish, RelayFail, RelayMark, BatchDeadline,
         Outage, Recover, Shutdown, Exit, Crash, Start, Fails, NoFault, vars
    <3>2. Faultless'
      BY <1>2, <2>5, <3>1 DEF Faultless, Next, RequestStep, RelayStep, Mutate, Enqueue, EnqueueFails,
         Publish, Increment, Mark, Cancel, RelayFetch, RelayPublish, RelayFail, RelayMark, BatchDeadline,
         Outage, Recover, Shutdown, Exit, Crash, Start, vars, client
    <3>3. ASSUME NEW e \in Events, Mutate(e) PROVE LostOnlyByFault'
      BY <1>2, <2>1, <2>2, <3>1, <3>3 DEF LostOnlyByFault, Mutate, Goto
    <3>4. ASSUME NEW e \in Events, Enqueue(e) PROVE LostOnlyByFault'
      <4>1. Rows' = Rows \cup {e}
        BY <2>1, <3>4, Appended DEF Enqueue, Inserted
      <4>2. QED
        BY <1>2, <2>1, <3>1, <3>4, <4>1 DEF LostOnlyByFault, Enqueue, Goto
    <3>5. ASSUME NEW e \in Events PROVE ~EnqueueFails(e)
      BY <2>5, <3>1 DEF EnqueueFails, Fails
    <3>6. ASSUME mutated' = mutated, \A e \in Events : pc[e] = "enqueue" => pc'[e] = "enqueue"
          PROVE  LostOnlyByFault'
      BY <1>2, <2>1, <2>2, <3>1, <3>6 DEF LostOnlyByFault
    <3>7. ASSUME NEW e \in Events, Publish(e) \/ Increment(e) \/ Mark(e) PROVE LostOnlyByFault'
      BY <2>1, <3>6, <3>7 DEF Publish, Increment, Mark, At, Goto
    <3>8. ~Exit /\ ~Crash
      BY <2>5, <3>1 DEF Exit, Crash
    <3>9. QED
      BY <1>2, <3>2, <3>3, <3>4, <3>5, <3>6, <3>7, <3>8 DEF Next, RequestStep, RelayStep, Cancel,
         RelayFetch, RelayPublish, RelayFail, RelayMark, BatchDeadline, Outage, Recover, Shutdown, Start,
         vars, client
  <2>6. QED
    BY <2>3, <2>4, <2>5
<1>3. TypeInv /\ Faultless /\ LostOnlyByFault /\ [Next]_vars => Faultless' /\ LostOnlyByFault'
  BY <1>2
<1>4. QED
  BY <1>1, <1>3, TypeInvariance, PTL DEF Spec
=============================================================================
