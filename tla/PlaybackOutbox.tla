---------------------------- MODULE PlaybackOutbox ----------------------------
(***************************************************************************)
(* Telemetry ingestion of music-playback-service: HTTP requests store      *)
(* events together with their outbox rows, publish them to Kafka directly, *)
(* and a relay publishes what is left (internal/playback/service.go and    *)
(* repository.go, internal/event/delivery.go and outbox.go).               *)
(*                                                                         *)
(* The database transaction of one event, one SQL statement on the outbox  *)
(* or one broker call is one step.  An event is one (user_id,              *)
(* client_event_id); a request that names it again is a client's retry.    *)
(* KAFKA_BROKERS is set and the relay enabled.  last_error is left out:    *)
(* it is written with attempts, cleared with published_at, and never read. *)
(***************************************************************************)
EXTENDS Naturals, Sequences, FiniteSets

CONSTANTS
  Events,       \* client events
  Requests,     \* HTTP requests
  Body,         \* Body[r]: the events of request r, in order (one for the single endpoint)
  Malformed,    \* events that ValidateIngest rejects
  Overgrown,    \* events whose context is over the limit only once stored as jsonb
  BatchSize,    \* the relay's LIMIT (50)
  MaxAttempts,  \* the relay's bound on attempts (5)
  MaxFaults     \* bound: failed calls, disconnects, outages, stops and crashes

ASSUME OutboxAssumption ==
  /\ Body \in [Requests -> Seq(Events)]
  /\ Malformed \subseteq Events
  /\ Overgrown \subseteq Events
  /\ BatchSize \in Nat \ {0}
  /\ MaxAttempts \in Nat \ {0}
  /\ MaxFaults \in Nat

VARIABLES
  ledger,     \* playback_events, each with its row of outbox_events, by created_at
  attempts,   \* outbox_events.attempts
  published,  \* events whose outbox row has published_at
  delivered,  \* events that are on the topic
  broker,     \* "up" or "down"
  pc,         \* where a request is, or how it was answered
  answers,    \* the results of a request's events so far
  cancelled,  \* requests whose client is gone: their context is cancelled
  relay,      \* the relay is between sweeps ("idle"), or at a call for an event
  batch,      \* the events its sweep fetched and has not dealt with
  process,    \* "up", "stopping" (serve's shutdown) or "down"
  faults      \* faults so far

outbox == <<ledger, attempts, published>>
kafka  == <<delivered, broker>>
client == <<pc, answers>>
sweep  == <<relay, batch>>
vars   == <<outbox, kafka, client, cancelled, sweep, process, faults>>

Answered == {"202", "400", "500", "lost"}
Direct   == {"publish", "record", "mark"}
InStore  == {"insert"} \cup Direct

\* The event a request is at.
Current(r) == Body[r][Len(answers[r]) + 1]
Stored     == {ledger[i] : i \in DOMAIN ledger}

Fault   == faults < MaxFaults /\ faults' = faults + 1
NoFault == UNCHANGED faults

\* A call fails: because of something already modelled, or as one more fault.
Fails(known) == IF known THEN NoFault ELSE Fault

Init ==
  /\ ledger = <<>>
  /\ attempts = [e \in Events |-> 0]
  /\ published = {}
  /\ delivered = {}
  /\ broker = "up"
  /\ pc = [r \in Requests |-> "new"]
  /\ answers = [r \in Requests |-> <<>>]
  /\ cancelled = {}
  /\ relay = "idle"
  /\ batch = {}
  /\ process = "up"
  /\ faults = 0

-----------------------------------------------------------------------------
(* The statements on the outbox: both are guarded by published_at IS NULL. *)

\* Mutant: RecordFailure stores the error and forgets the count.
MutantNotCounted(e) == attempts

\* RecordFailure.
Counted(e) == IF e \in published THEN attempts ELSE [attempts EXCEPT ![e] = @ + 1]

\* MarkPublished.
Marked(e) == published \cup {e}

-----------------------------------------------------------------------------
(* Requests: IngestSingle and IngestBatch, store, Direct.Publish.          *)

Goto(r, label) == pc' = [pc EXCEPT ![r] = label]

\* Mutant: the end of the batch is looked for before the result is appended.
MutantLateEnd(r, status) ==
  /\ answers' = [answers EXCEPT ![r] = Append(@, status)]
  /\ Goto(r, IF Len(answers[r]) = Len(Body[r]) THEN "202" ELSE "insert")

\* store returns the event's result; the request goes on to its next event.
Result(r, status) ==
  /\ answers' = [answers EXCEPT ![r] = Append(@, status)]
  /\ Goto(r, IF Len(answers'[r]) = Len(Body[r]) THEN "202" ELSE "insert")

\* ValidateIngest or ValidateBatch: every event is checked before any is stored.
Receive(r) ==
  /\ process = "up" /\ pc[r] = "new"
  /\ Goto(r, IF Body[r] = <<>> \/ \E i \in DOMAIN Body[r] : Body[r][i] \in Malformed
             THEN "400" ELSE "insert")
  /\ UNCHANGED <<outbox, kafka, answers, cancelled, sweep, process, faults>>

Serving(r, label) == process # "down" /\ pc[r] = label

\* Mutant: the insert has no ON CONFLICT and the table no unique key.
MutantAlwaysNew(e) == TRUE

\* ON CONFLICT (user_id, client_event_id) DO NOTHING.
New(e) == e \notin Stored

\* Insert: the event and its outbox row in one transaction.  A concurrent retry waits on
\* the unique key, so the transactions of one event are one after the other.
Insert(r) ==
  /\ Serving(r, "insert") /\ r \notin cancelled /\ Current(r) \notin Overgrown
  /\ \/ /\ New(Current(r))
        /\ ledger' = Append(ledger, Current(r))
        /\ Goto(r, "publish")
        /\ UNCHANGED answers
     \/ /\ ~New(Current(r))
        /\ Result(r, "duplicate")
        /\ UNCHANGED ledger
  /\ UNCHANGED <<attempts, published, kafka, cancelled, sweep, process, faults>>

\* The check on the stored context fails: ErrContextTooLarge is answered like a
\* validation error, with the request's earlier events stored.
InsertTooLarge(r) ==
  /\ Serving(r, "insert") /\ r \notin cancelled /\ Current(r) \in Overgrown
  /\ Goto(r, "400")
  /\ UNCHANGED <<outbox, kafka, answers, cancelled, sweep, process, faults>>

\* Mutant: a commit error is swallowed and answered as a duplicate.
MutantErrorIsDuplicate(r) ==
  /\ Serving(r, "insert")
  /\ Fault
  /\ Result(r, "duplicate")
  /\ UNCHANGED <<outbox, kafka, cancelled, sweep, process>>

\* Mutant: mapContextCheckViolation takes every database error for the failed check.
MutantErrorIsTooLarge(r) ==
  /\ Serving(r, "insert")
  /\ Fault
  /\ Goto(r, "400")
  /\ UNCHANGED <<outbox, kafka, answers, cancelled, sweep, process>>

\* The transaction fails, or its context is cancelled; the COMMIT of a new event may have
\* taken effect all the same.
InsertFails(r) ==
  /\ Serving(r, "insert")
  /\ \/ r \in cancelled /\ NoFault /\ UNCHANGED ledger
     \/ Fault /\ UNCHANGED ledger
     \/ Fault /\ Current(r) \notin Overgrown \cup Stored /\ ledger' = Append(ledger, Current(r))
  /\ Goto(r, "500")
  /\ UNCHANGED <<attempts, published, kafka, answers, cancelled, sweep, process>>

\* Mutant: Direct.Publish goes on after a failed publish.
MutantPublishUnchecked(r) ==
  /\ Serving(r, "publish")
  /\ \/ broker = "up" /\ delivered' = delivered \cup {Current(r)}
     \/ broker = "down" /\ UNCHANGED delivered
  /\ Goto(r, "mark")
  /\ UNCHANGED <<outbox, broker, answers, cancelled, sweep, process, faults>>

\* Direct.Publish with the request's context.  A publish that fails may have been written.
DirectPublish(r) ==
  /\ Serving(r, "publish")
  /\ \/ /\ broker = "up"
        /\ delivered' = delivered \cup {Current(r)}
        /\ Goto(r, "mark")
        /\ NoFault
     \/ /\ Fails(broker = "down" \/ r \in cancelled)
        /\ delivered' \in {delivered, delivered \cup {Current(r)}}
        /\ Goto(r, "record")
  /\ UNCHANGED <<outbox, broker, answers, cancelled, sweep, process>>

\* Direct.Publish ignores the error of either statement.
DirectRecord(r) ==
  /\ Serving(r, "record")
  /\ \/ r \notin cancelled /\ NoFault /\ attempts' = Counted(Current(r))
     \/ r \in cancelled /\ NoFault /\ UNCHANGED attempts
     \/ Fault /\ attempts' \in {attempts, Counted(Current(r))}
  /\ Result(r, "accepted")
  /\ UNCHANGED <<ledger, published, kafka, cancelled, sweep, process>>

DirectMark(r) ==
  /\ Serving(r, "mark")
  /\ \/ r \notin cancelled /\ NoFault /\ published' = Marked(Current(r))
     \/ r \in cancelled /\ NoFault /\ UNCHANGED published
     \/ Fault /\ published' \in {published, Marked(Current(r))}
  /\ Result(r, "accepted")
  /\ UNCHANGED <<ledger, attempts, kafka, cancelled, sweep, process>>

\* The client disconnects.
Cancel(r) ==
  /\ pc[r] \in InStore /\ r \notin cancelled
  /\ Fault
  /\ cancelled' = cancelled \cup {r}
  /\ UNCHANGED <<outbox, kafka, client, sweep, process>>

-----------------------------------------------------------------------------
(* The relay: RunOnce, with the context that SIGTERM cancels.              *)

Older(d, e) == \E i, j \in DOMAIN ledger : i < j /\ ledger[i] = d /\ ledger[j] = e

\* Mutant: FetchPending does not bound the attempts.
MutantUnbounded == Stored \ published

\* FetchPending's WHERE.
Due == {e \in Stored \ published : attempts[e] < MaxAttempts}

\* The first BatchSize of them by created_at.
Fetched == {e \in Due : Cardinality({d \in Due : Older(d, e)}) < BatchSize}

RelayFetch ==
  /\ process = "up" /\ relay = "idle" /\ Due # {}
  /\ batch' = Fetched
  /\ relay' = "publish"
  /\ UNCHANGED <<outbox, kafka, client, cancelled, process, faults>>

\* The relay is at call label for the oldest event of its batch.
Relaying(e, label) ==
  /\ process # "down" /\ relay = label /\ e \in batch
  /\ \A d \in batch : ~Older(d, e)

RelayPublish(e) ==
  /\ Relaying(e, "publish")
  /\ \/ /\ broker = "up"
        /\ delivered' = delivered \cup {e}
        /\ relay' = "mark"
        /\ NoFault
     \/ /\ Fails(broker = "down" \/ process = "stopping")
        /\ delivered' \in {delivered, delivered \cup {e}}
        /\ relay' = "record"
  /\ UNCHANGED <<outbox, broker, client, cancelled, batch, process>>

\* The loop goes on with the next message.
Continue(e) ==
  /\ batch' = batch \ {e}
  /\ relay' = IF batch' = {} THEN "idle" ELSE "publish"

\* RunOnce returns the error of the statement; the rest of the batch waits for the next tick.
Abort == batch' = {} /\ relay' = "idle"

RelayRecord(e) ==
  /\ Relaying(e, "record")
  /\ \/ process = "up" /\ NoFault /\ attempts' = Counted(e) /\ Continue(e)
     \/ process = "stopping" /\ NoFault /\ UNCHANGED attempts /\ Abort
     \/ Fault /\ attempts' \in {attempts, Counted(e)} /\ Abort
  /\ UNCHANGED <<ledger, published, kafka, client, cancelled, process>>

RelayMark(e) ==
  /\ Relaying(e, "mark")
  /\ \/ process = "up" /\ NoFault /\ published' = Marked(e) /\ Continue(e)
     \/ process = "stopping" /\ NoFault /\ UNCHANGED published /\ Abort
     \/ Fault /\ published' \in {published, Marked(e)} /\ Abort
  /\ UNCHANGED <<ledger, attempts, kafka, client, cancelled, process>>

-----------------------------------------------------------------------------
(* The broker and the process.                                             *)

Outage ==
  /\ broker = "up"
  /\ Fault
  /\ broker' = "down"
  /\ UNCHANGED <<outbox, delivered, client, cancelled, sweep, process>>

Recover ==
  /\ broker = "down"
  /\ broker' = "up"
  /\ UNCHANGED <<outbox, delivered, client, cancelled, sweep, process, faults>>

\* SIGTERM: no new requests, and the relay's context is cancelled.
Shutdown ==
  /\ process = "up"
  /\ Fault
  /\ process' = "stopping"
  /\ UNCHANGED <<outbox, kafka, client, cancelled, sweep>>

\* The process is gone, and with it the requests and the sweep under way.
Halt ==
  /\ process' = "down"
  /\ pc' = [r \in Requests |-> IF pc[r] \in InStore THEN "lost" ELSE pc[r]]
  /\ relay' = "idle"
  /\ batch' = {}
  /\ UNCHANGED <<outbox, kafka, answers, cancelled>>

\* server.Shutdown waits for requests, 10 s at most; nobody waits for the relay.
Exit == process = "stopping" /\ Halt /\ NoFault

Crash == process # "down" /\ Fault /\ Halt

Start ==
  /\ process = "down"
  /\ process' = "up"
  /\ UNCHANGED <<outbox, kafka, client, cancelled, sweep, faults>>

-----------------------------------------------------------------------------
RelayStep == RelayFetch \/ \E e \in Events : RelayPublish(e) \/ RelayRecord(e) \/ RelayMark(e)

Next ==
  \/ \E r \in Requests :
       \/ Receive(r) \/ Insert(r) \/ InsertTooLarge(r) \/ InsertFails(r)
       \/ DirectPublish(r) \/ DirectRecord(r) \/ DirectMark(r)
       \/ Cancel(r)
  \/ RelayStep
  \/ Outage \/ Recover \/ Shutdown \/ Exit \/ Crash \/ Start

Spec == Init /\ [][Next]_vars

\* The relay's ticker keeps ticking, a stopping process ends, and whoever operates the
\* service starts it again.  Nothing is assumed of the broker.
Fairness == WF_vars(RelayStep) /\ WF_vars(Exit) /\ WF_vars(Start)

FairSpec == Spec /\ Fairness

-----------------------------------------------------------------------------
(* Properties.                                                             *)

OutboxOK ==
  /\ ledger \in Seq(Events)
  /\ attempts \in [Events -> Nat]
  /\ published \subseteq Events
  /\ delivered \subseteq Events

RequestsOK ==
  /\ pc \in [Requests -> {"new"} \cup InStore \cup Answered]
  /\ answers \in [Requests -> Seq({"accepted", "duplicate"})]
  /\ \A r \in Requests :
       /\ Len(answers[r]) <= Len(Body[r])
       /\ pc[r] = "new" => answers[r] = <<>>
       /\ pc[r] \in InStore => Len(answers[r]) < Len(Body[r])
  /\ cancelled \subseteq Requests

ProcessOK ==
  /\ relay \in {"idle"} \cup Direct
  /\ batch \subseteq Events
  /\ broker \in {"up", "down"}
  /\ process \in {"up", "stopping", "down"}
  /\ faults \in 0..MaxFaults

TypeOK == OutboxOK /\ RequestsOK /\ ProcessOK

\* A result is a promise: whatever crashed, failed or was retried, every event a request
\* was given a result for is stored, and a 202 has a result for each of its events
\* (service.go:118-171, 229-247).
AnsweredIsStored ==
  \A r \in Requests :
    /\ \A i \in DOMAIN answers[r] : Body[r][i] \in Stored
    /\ pc[r] = "202" => Len(answers[r]) = Len(Body[r])

\* Sprint3_Tracker.md:115, "Duplicate acceptance creates neither a second ledger row nor a
\* second outbox event": an event has one row, and among all the requests that name it,
\* racing or retrying, at most one is told "accepted".
AcceptedOnce ==
  /\ \A i, j \in DOMAIN ledger : ledger[i] = ledger[j] => i = j
  /\ \A r, s \in Requests : \A i \in DOMAIN answers[r], j \in DOMAIN answers[s] :
       /\ answers[r][i] = "accepted" /\ answers[s][j] = "accepted"
       /\ Body[r][i] = Body[s][j]
       => r = s /\ i = j

\* Sprint3_Tracker.md:110, "Malformed requests fail atomically": a request answered 400
\* has stored none of its events, whatever failed.  The one exception is the one the code
\* names (service.go:150-157): an event that only the database finds too large.
RejectedStoresNothing ==
  \A r \in Requests : pc[r] = "400" /\ answers[r] # <<>> => Current(r) \in Overgrown

\* Direct publishing and the relay together implement OutboxDelivery.
Delivery == INSTANCE OutboxDelivery WITH accepted <- Stored, settled <- published
ImplementsDelivery == Delivery!Spec

\* A published row is never touched again: a direct publisher and a relay that deal with
\* one event, one of them failing, cannot take the mark back or count a failure against it
\* (outbox.go:25-41, the CHECK outbox_events_publish_state).
PublishedIsFinal ==
  [][\A e \in published : e \in published' /\ attempts'[e] = attempts[e]]_vars

\* The relay is bounded: no more failures are ever recorded of an event than its
\* MaxAttempts sweeps and the one direct attempt that may race the last of them.
AttemptsBounded == \A e \in Events : attempts[e] <= MaxAttempts + 1

Exhausted(e) == attempts[e] >= MaxAttempts

\* No event is starved: in a broker outage of any length the sweeps get past the events
\* that fail, and each stored one ends published or with its attempts used up.
EveryRowSettles ==
  \A e \in Events : e \in Stored ~> e \in published \/ Exhausted(e)
=============================================================================
