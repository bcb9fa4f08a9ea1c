---------------------------- MODULE IdentityOutbox ----------------------------
(***************************************************************************)
(* Event publication of music-identity-gatekeeper: a request that has      *)
(* committed its mutation enqueues an event and publishes it once, and a   *)
(* relay retries what stays pending (internal/event/emitter.go, outbox.go, *)
(* relay.go; called from auth, preference and playlist services).          *)
(*                                                                         *)
(* The mutation's transaction, one SQL statement on kafka_integration or   *)
(* one broker call is one step.  KAFKA_BROKERS is set (with none, Noop-    *)
(* Publisher reports every event published) and the relay enabled.         *)
(***************************************************************************)
EXTENDS Naturals, Sequences, FiniteSets

CONSTANTS
  Events,       \* mutations, each with the one event it emits
  BatchSize,    \* the relay's batch size (50)
  MaxAttempts,  \* the relay's maxAttempts (5)
  MaxFaults     \* bound: failed calls, disconnects, outages, stops and crashes

ASSUME IdentityAssumption ==
  /\ BatchSize \in Nat \ {0}
  /\ MaxAttempts \in Nat \ {0}
  /\ MaxFaults \in Nat

VARIABLES
  mutated,    \* mutations whose transaction has committed
  rows,       \* kafka_integration by created_at
  status,     \* "none", "pending", "published" or "failed"
  attempts,   \* the column attempts
  delivered,  \* events that are on their topic
  broker,     \* "up" or "down"
  pc,         \* where the request of a mutation is
  cancelled,  \* requests whose client is gone: their context is cancelled
  relay,      \* where the relay's loop is
  batch,      \* the events it fetched and has not dealt with
  seen,       \* their attempts as fetched
  expired,    \* the batch's 10 s context has expired
  process,    \* "up", "stopping" (stopCh is closed) or "down"
  faults,     \* faults so far
  failures    \* history: publishes of an event that failed, up to MaxAttempts

table  == <<rows, status, attempts>>
kafka  == <<delivered, broker>>
client == <<mutated, pc, cancelled>>
sweep  == <<relay, batch, seen, expired>>
vars   == <<table, kafka, client, sweep, process, faults, failures>>

Emitting == {"enqueue", "publish", "increment", "mark"}
Relaying == {"publish", "fail", "mark"}

Rows == {rows[i] : i \in DOMAIN rows}

Fault   == faults < MaxFaults /\ faults' = faults + 1
NoFault == UNCHANGED faults

\* A call fails: because of something already modelled, or as one more fault.
Fails(known) == IF known THEN NoFault ELSE Fault

Init ==
  /\ mutated = {}
  /\ rows = <<>>
  /\ status = [e \in Events |-> "none"]
  /\ attempts = [e \in Events |-> 0]
  /\ delivered = {}
  /\ broker = "up"
  /\ pc = [e \in Events |-> "new"]
  /\ cancelled = {}
  /\ relay = "fetch"
  /\ batch = {}
  /\ seen = [e \in Events |-> 0]
  /\ expired = FALSE
  /\ process = "up"
  /\ faults = 0
  /\ failures = [e \in Events |-> 0]

-----------------------------------------------------------------------------
(* The statements on kafka_integration: none looks at the row's status.    *)

MarkPublished(e)     == [status EXCEPT ![e] = "published"]
MarkFailed(e)        == [status EXCEPT ![e] = "failed"]
IncrementAttempts(e) == [attempts EXCEPT ![e] = @ + 1]

\* A publish of e has failed; the history counts to MaxAttempts.
Failed(e) == failures' = [failures EXCEPT ![e] = IF @ < MaxAttempts THEN @ + 1 ELSE @]

-----------------------------------------------------------------------------
(* A request: the mutation, then Emit* and enqueueAndPublish.              *)

Goto(e, label) == pc' = [pc EXCEPT ![e] = label]
At(e, label)   == process # "down" /\ pc[e] = label

\* The repository's transaction commits; the event is no part of it (tx is nil).
Mutate(e) ==
  /\ process = "up" /\ pc[e] = "new"
  /\ mutated' = mutated \cup {e}
  /\ Goto(e, "enqueue")
  /\ UNCHANGED <<table, kafka, cancelled, sweep, process, faults, failures>>

Inserted(e) ==
  /\ rows' = Append(rows, e)
  /\ status' = [status EXCEPT ![e] = "pending"]

Enqueue(e) ==
  /\ At(e, "enqueue") /\ e \notin cancelled
  /\ Inserted(e)
  /\ Goto(e, "publish")
  /\ UNCHANGED <<attempts, kafka, mutated, cancelled, sweep, process, faults, failures>>

\* The error is logged and the request succeeds; the row may be there all the same.
EnqueueFails(e) ==
  /\ At(e, "enqueue")
  /\ \/ Fails(e \in cancelled) /\ UNCHANGED <<rows, status>>
     \/ e \notin cancelled /\ Fault /\ Inserted(e)
  /\ Goto(e, "done")
  /\ UNCHANGED <<attempts, kafka, mutated, cancelled, sweep, process, failures>>

\* Mutant: a failed direct publish is marked like a successful one.
MutantMarkAnyway(e) ==
  /\ At(e, "publish")
  /\ \/ broker = "up" /\ delivered' = delivered \cup {e}
     \/ broker = "down" /\ UNCHANGED delivered
  /\ Goto(e, "mark")
  /\ UNCHANGED <<table, broker, mutated, cancelled, sweep, process, faults, failures>>

\* The one publish from the request's thread.  One that fails may have been written.
Publish(e) ==
  /\ At(e, "publish")
  /\ \/ /\ broker = "up"
        /\ delivered' = delivered \cup {e}
        /\ Goto(e, "mark")
        /\ UNCHANGED <<faults, failures>>
     \/ /\ Fails(broker = "down" \/ e \in cancelled)
        /\ delivered' \in {delivered, delivered \cup {e}}
        /\ Failed(e)
        /\ Goto(e, "increment")
  /\ UNCHANGED <<table, broker, mutated, cancelled, sweep, process>>

\* The errors of both statements are logged (one that took effect is like none).
Increment(e) ==
  /\ At(e, "increment")
  /\ \/ e \notin cancelled /\ NoFault /\ attempts' = IncrementAttempts(e)
     \/ Fails(e \in cancelled) /\ UNCHANGED attempts
  /\ Goto(e, "done")
  /\ UNCHANGED <<rows, status, kafka, mutated, cancelled, sweep, process, failures>>

Mark(e) ==
  /\ At(e, "mark")
  /\ \/ e \notin cancelled /\ NoFault /\ status' = MarkPublished(e)
     \/ Fails(e \in cancelled) /\ UNCHANGED status
  /\ Goto(e, "done")
  /\ UNCHANGED <<rows, attempts, kafka, mutated, cancelled, sweep, process, failures>>

\* The client disconnects.
Cancel(e) ==
  /\ pc[e] \in Emitting /\ e \notin cancelled
  /\ Fault
  /\ cancelled' = cancelled \cup {e}
  /\ UNCHANGED <<table, kafka, mutated, pc, sweep, process, failures>>

-----------------------------------------------------------------------------
(* The relay: loop.                                                        *)

Older(d, e) == \E i, j \in DOMAIN rows : i < j /\ rows[i] = d /\ rows[j] = e

\* Mutant: only rows whose direct publish is known to have failed are retried.
MutantOnlyFailed == {e \in Rows : status[e] = "pending" /\ attempts[e] > 0}

\* FetchPending's WHERE.
Pending == {e \in Rows : status[e] = "pending"}

\* The first BatchSize of them by created_at.
Fetched == {e \in Pending : Cardinality({d \in Pending : Older(d, e)}) < BatchSize}

\* (Where there is none, or the fetch fails, the loop waits and nothing changes.)
RelayFetch ==
  /\ process = "up" /\ relay = "fetch" /\ Pending # {}
  /\ batch' = Fetched
  /\ seen' = [e \in Events |-> IF e \in batch' THEN attempts[e] ELSE 0]
  /\ expired' = FALSE
  /\ relay' = "publish"
  /\ UNCHANGED <<table, kafka, client, process, faults, failures>>

\* The relay is at call label for the oldest event of its batch.
AtEvent(e, label) ==
  /\ process # "down" /\ relay = label /\ e \in batch
  /\ \A d \in batch : ~Older(d, e)

\* stopCh is looked at before every publish.
RelayPublish(e) ==
  /\ AtEvent(e, "publish") /\ process = "up"
  /\ \/ /\ broker = "up" /\ ~expired
        /\ delivered' = delivered \cup {e}
        /\ relay' = "mark"
        /\ UNCHANGED <<faults, failures>>
     \/ /\ Fails(broker = "down" \/ expired)
        /\ delivered' \in {delivered, delivered \cup {e}}
        /\ Failed(e)
        /\ relay' = "fail"
  /\ UNCHANGED <<table, broker, client, batch, seen, expired, process>>

\* Mutant: the loop does not see that its batch is done.
MutantLoopOn(e) ==
  /\ batch' = batch \ {e}
  /\ seen' = [seen EXCEPT ![e] = 0]
  /\ relay' = "publish"
  /\ UNCHANGED expired

\* On with the next event; after the last one the loop fetches again without waiting.
Continue(e) ==
  /\ batch' = batch \ {e}
  /\ seen' = [seen EXCEPT ![e] = 0]
  /\ expired' = (expired /\ batch' # {})
  /\ relay' = IF batch' = {} THEN "fetch" ELSE "publish"

\* Mutant: the bound is off by one.
MutantOneLess(e) == seen[e] + 2 >= MaxAttempts

\* e.Attempts + 1 >= maxAttempts, on the attempts as fetched.
LastAttempt(e) == seen[e] + 1 >= MaxAttempts

\* MarkFailed or IncrementAttempts, whose errors are ignored.
RelayFail(e) ==
  /\ AtEvent(e, "fail")
  /\ \/ ~expired /\ NoFault /\ LastAttempt(e) /\ status' = MarkFailed(e) /\ UNCHANGED attempts
     \/ ~expired /\ NoFault /\ ~LastAttempt(e) /\ attempts' = IncrementAttempts(e) /\ UNCHANGED status
     \/ Fails(expired) /\ UNCHANGED <<status, attempts>>
  /\ Continue(e)
  /\ UNCHANGED <<rows, kafka, client, process, failures>>

\* An error of MarkPublished is logged: the row stays as it is.
RelayMark(e) ==
  /\ AtEvent(e, "mark")
  /\ \/ ~expired /\ NoFault /\ status' = MarkPublished(e)
     \/ Fails(expired) /\ UNCHANGED status
  /\ Continue(e)
  /\ UNCHANGED <<rows, attempts, kafka, client, process, failures>>

\* The batch's 10 s run out: publishes hang while the broker is down.
BatchDeadline ==
  /\ relay \in Relaying /\ ~expired
  /\ Fails(broker = "down")
  /\ expired' = TRUE
  /\ UNCHANGED <<table, kafka, client, relay, batch, seen, process, failures>>

-----------------------------------------------------------------------------
(* The broker and the process.                                             *)

Outage ==
  /\ broker = "up"
  /\ Fault
  /\ broker' = "down"
  /\ UNCHANGED <<table, delivered, client, sweep, process, failures>>

Recover ==
  /\ broker = "down"
  /\ broker' = "up"
  /\ UNCHANGED <<table, delivered, client, sweep, process, faults, failures>>

\* SIGTERM: serve has drained the requests and Relay.Shutdown closes stopCh.
Shutdown ==
  /\ process = "up" /\ \A e \in Events : pc[e] \notin Emitting
  /\ Fault
  /\ process' = "stopping"
  /\ UNCHANGED <<table, kafka, client, sweep, failures>>

\* The process is gone, and with it the requests and the batch under way.
Halt ==
  /\ process' = "down"
  /\ pc' = [e \in Events |-> IF pc[e] \in Emitting THEN "done" ELSE pc[e]]
  /\ relay' = "fetch"
  /\ batch' = {}
  /\ seen' = [e \in Events |-> 0]
  /\ expired' = FALSE
  /\ UNCHANGED <<table, kafka, mutated, cancelled, failures>>

\* Shutdown waits for the loop to see stopCh, 10 s at most.
Exit == process = "stopping" /\ Halt /\ NoFault

\* A crash, or the hard exit of main when serve could not drain the requests.
Crash == process # "down" /\ Fault /\ Halt

Start ==
  /\ process = "down"
  /\ process' = "up"
  /\ UNCHANGED <<table, kafka, client, sweep, faults, failures>>

-----------------------------------------------------------------------------
RelayStep == RelayFetch \/ \E e \in Events : RelayPublish(e) \/ RelayFail(e) \/ RelayMark(e)

RequestStep(e) == Enqueue(e) \/ Publish(e) \/ Increment(e) \/ Mark(e)

Next ==
  \/ \E e \in Events : Mutate(e) \/ RequestStep(e) \/ EnqueueFails(e) \/ Cancel(e)
  \/ RelayStep \/ BatchDeadline
  \/ Outage \/ Recover \/ Shutdown \/ Exit \/ Crash \/ Start

Spec == Init /\ [][Next]_vars

\* Requests and the relay go on, a stopping process ends, whoever operates the service
\* starts it again, and broker outages end.
Fairness ==
  /\ \A e \in Events : WF_vars(RequestStep(e))
  /\ WF_vars(RelayStep)
  /\ WF_vars(Exit)
  /\ WF_vars(Start)
  /\ WF_vars(Recover)

FairSpec == Spec /\ Fairness

-----------------------------------------------------------------------------
(* Properties.                                                             *)

TypeOK ==
  /\ mutated \subseteq Events
  /\ rows \in Seq(Events)
  /\ status \in [Events -> {"none", "pending", "published", "failed"}]
  /\ attempts \in [Events -> Nat]
  /\ delivered \subseteq Events
  /\ broker \in {"up", "down"}
  /\ pc \in [Events -> {"new", "done"} \cup Emitting]
  /\ cancelled \subseteq Events
  /\ relay \in {"fetch"} \cup Relaying
  /\ batch \subseteq Rows /\ (batch = {} <=> relay = "fetch")
  /\ seen \in [Events -> Nat]
  /\ expired \in BOOLEAN
  /\ process \in {"up", "stopping", "down"}
  /\ faults \in 0..MaxFaults
  /\ failures \in [Events -> Nat]

\* Enqueue, publish, mark, in this order, from two threads: what is on a topic has a row
\* of a committed mutation, and a row marked published is on its topic (README.md:233-235).
MarkedIsDelivered ==
  /\ delivered \subseteq Rows /\ Rows \subseteq mutated
  /\ \A e \in Rows : status[e] = "published" => e \in delivered

\* The relay decides on a stale count of attempts while the direct publish adds to it: no
\* row is given up before MaxAttempts publishes of it have failed (relay.go:111-116,
\* emitter.go:50-55).
GivenUpAfterAllAttempts ==
  \A e \in Events : status[e] = "failed" => failures[e] >= MaxAttempts

\* Every row is dealt with: a crash between enqueue and publish, a lost mark or an outage
\* that ends leave none pending forever (README.md:235).
EveryRowSettles ==
  \A e \in Events : status[e] = "pending" ~> status[e] \in {"published", "failed"}

\* README.md:233, "The event is always enqueued into the kafka_integration table first":
\* a mutation that has committed gets its row.
EveryMutationEnqueued == \A e \in Events : e \in mutated ~> e \in Rows
=============================================================================
