---------------------------- MODULE EventConsumer ----------------------------
(***************************************************************************)
(* The consumer group of music-event-streaming-service: N workers, each    *)
(* with a Kafka reader of its own, share a table of claims                 *)
(* (processed_events) and commit an offset only after the message was      *)
(* handled (internal/consumer/consumer.go, internal/idempotency/store.go). *)
(*                                                                         *)
(* One SQL statement, one broker call or one channel operation of RunGroup *)
(* is one step.  External, and modelled from how the service uses it:      *)
(* Kafka's group protocol (Assign, Revoke) and the passing of time         *)
(* (ExpireLease, DrainDeadline).                                           *)
(***************************************************************************)
EXTENDS Naturals, Sequences

CONSTANTS
  Workers,         \* CONSUMER_CONCURRENCY workers of one process
  Partitions,      \* the partitions of the subscribed topics
  Events,          \* event ids
  Log,             \* Log[p]: the messages of partition p, oldest first
  HandlerMayFail,  \* may Handler.Handle return an error?
  MaxFaults,       \* bound: failures, rebalances, shutdowns and crashes in a behaviour
  None             \* no worker, no message

\* A message is what Decoder.EventID sees of it: an id and the encoding of the payload.
Message == [id : Events, wire : {"protobuf", "protojson"}]

ASSUME LogAssumption ==
  /\ Log \in [Partitions -> Seq(Message)]
  /\ None \notin Workers
  /\ HandlerMayFail \in BOOLEAN
  /\ MaxFaults \in Nat

VARIABLES
  owner,           \* the worker whose reader is assigned a partition
  position,        \* messages of the partition its reader has returned or skipped
  committed,       \* the group's committed offset
  claims,          \* processed_events: the state of the row of an event
  pc, at,          \* the point of Run/process a worker is at, and its message
  stopFetching,    \* fetchCtx is cancelled
  stopProcessing,  \* processCtx is cancelled
  drain,           \* RunGroup's drain timer: "unset", "armed", "fired"
  firstErr,        \* RunGroup saw a worker fail
  process,         \* "running", or how it last ended: "clean", "failed", "crashed"
  faults,          \* faults so far
  holders,         \* history: workers on an event whose own lease has not run out
  outlived,        \* history: events a worker has held longer than its lease since the start
  handled,         \* history: events for which Handle returned nil
  taken            \* history: events this process has claimed and not yet committed

kafka  == <<owner, position, committed>>
group  == <<stopFetching, stopProcessing, drain, firstErr, process>>
worker == <<pc, at>>
ghost  == <<holders, outlived, handled, taken>>
vars   == <<kafka, claims, worker, group, faults, ghost>>

Ended   == {"failed", "finished", "gone"}
Holding == {"handle", "complete", "release"}
PCs     == {"fetch", "claim", "select", "busy", "commit"} \cup Holding \cup Ended

\* The message worker w is at and its event.  Log[p][n] has Kafka offset n - 1.
EventAt(p, n) == Log[p][n].id
EventOf(w)    == EventAt(at[w].part, at[w].n)
Pending(p)    == position[p] < Len(Log[p])

\* Decoder.EventID: proto.Unmarshal, a non-empty id and schema version 1.
Decodes(m) == m.wire = "protobuf"

Alive(w) == process = "running" /\ pc[w] \notin Ended
Fault    == faults < MaxFaults /\ faults' = faults + 1

Init ==
  /\ owner = [p \in Partitions |-> None]
  /\ position = [p \in Partitions |-> 0]
  /\ committed = [p \in Partitions |-> 0]
  /\ claims = [e \in Events |-> "none"]
  /\ pc = [w \in Workers |-> "fetch"]
  /\ at = [w \in Workers |-> None]
  /\ stopFetching = FALSE
  /\ stopProcessing = FALSE
  /\ drain = "unset"
  /\ firstErr = FALSE
  /\ process = "running"
  /\ faults = 0
  /\ holders = [e \in Events |-> {}]
  /\ outlived = {}
  /\ handled = {}
  /\ taken = {}

-----------------------------------------------------------------------------
(* The broker: group membership and assignment.                            *)

\* A generation starts: the reader resumes from the committed offset.
Assign(p, w) ==
  /\ owner[p] = None
  /\ Alive(w)
  /\ owner' = [owner EXCEPT ![p] = w]
  /\ position' = [position EXCEPT ![p] = committed[p]]
  /\ UNCHANGED <<committed, claims, worker, group, faults, ghost>>

\* A rebalance takes the partition from a reader whose worker goes on with its message.
Revoke(p) ==
  /\ owner[p] # None
  /\ Fault
  /\ owner' = [owner EXCEPT ![p] = None]
  /\ UNCHANGED <<position, committed, claims, worker, group, ghost>>

\* NOW() passes lease_until: the claim was abandoned, or its message outlives the lease.
ExpireLease(e) ==
  /\ claims[e] = "processing"
  /\ claims' = [claims EXCEPT ![e] = "expired"]
  /\ holders' = [holders EXCEPT ![e] = {}]
  /\ outlived' = IF holders[e] = {} THEN outlived ELSE outlived \cup {e}
  /\ UNCHANGED <<kafka, worker, group, faults, handled, taken>>

-----------------------------------------------------------------------------
(* A worker: Consumer.Run, process and waitForClaim.                       *)

Goto(w, label) == pc' = [pc EXCEPT ![w] = label]

\* Run returns: the deferred reader.Close leaves the group, the result is queued.
Return(w, result) ==
  /\ Goto(w, result)
  /\ at' = [at EXCEPT ![w] = None]
  /\ owner' = [p \in Partitions |-> IF owner[p] = w THEN None ELSE owner[p]]
  /\ holders' = [e \in Events |-> holders[e] \ {w}]

\* How Run ends when Fetch returns an error: nil once fetchCtx is cancelled,
\* unless closing the reader fails.
FetchError == IF stopFetching THEN {"finished", "failed"} ELSE {"failed"}

\* FetchMessage may still return a message it has buffered after fetchCtx is cancelled.
Fetch(w, p) ==
  /\ Alive(w) /\ pc[w] = "fetch" /\ owner[p] = w /\ Pending(p)
  /\ position' = [position EXCEPT ![p] = @ + 1]
  /\ \/ /\ Decodes(Log[p][position[p] + 1])
        /\ Goto(w, "claim")
        /\ at' = [at EXCEPT ![w] = [part |-> p, n |-> position[p] + 1]]
        /\ UNCHANGED <<owner, holders>>
     \/ /\ ~Decodes(Log[p][position[p] + 1])
        /\ \E result \in FetchError : Return(w, result)
  /\ UNCHANGED <<committed, claims, group, faults, handled, taken, outlived>>

\* Mutant: the fetch loop is not given the context RunGroup cancels.
MutantFetchIgnoresStop(w) ==
  /\ Alive(w) /\ pc[w] = "fetch" /\ stopFetching /\ process # "running"
  /\ \E result \in FetchError : Return(w, result)
  /\ UNCHANGED <<position, committed, claims, group, faults, handled, taken, outlived>>

FetchStopped(w) ==
  /\ Alive(w) /\ pc[w] = "fetch" /\ stopFetching
  /\ \E result \in FetchError : Return(w, result)
  /\ UNCHANGED <<position, committed, claims, group, faults, handled, taken, outlived>>

FetchFails(w) ==
  /\ Alive(w) /\ pc[w] = "fetch"
  /\ Fault
  /\ \E result \in FetchError : Return(w, result)
  /\ UNCHANGED <<position, committed, claims, group, handled, taken, outlived>>

\* Mutants: Claim's WHERE loses the state test, the lease test, or the whole takeover.
MutantReclaimsProcessed(e) == claims[e] # "processing"
MutantIgnoresLease(e) == claims[e] # "processed"
MutantNoTakeover(e) == claims[e] = "none"

\* The upsert of Claim takes a row that is absent or whose lease has expired.
Claimable(e) == claims[e] \in {"none", "expired"}

ClaimUpsert(w) ==
  /\ Alive(w) /\ pc[w] = "claim"
  /\ \/ /\ Claimable(EventOf(w))
        /\ claims' = [claims EXCEPT ![EventOf(w)] = "processing"]
        /\ holders' = [holders EXCEPT ![EventOf(w)] = @ \cup {w}]
        /\ taken' = taken \cup {EventOf(w)}
        /\ Goto(w, "handle")
     \/ /\ ~Claimable(EventOf(w))
        /\ Goto(w, "select")
        /\ UNCHANGED <<claims, holders, taken>>
  /\ UNCHANGED <<kafka, at, group, faults, handled, outlived>>

\* Mutant: a duplicate takes a busy claim for a processed one.
MutantBusyIsProcessed(w) ==
  /\ Alive(w) /\ pc[w] = "select"
  /\ Goto(w, "commit")
  /\ UNCHANGED <<kafka, claims, at, group, faults, ghost>>

\* The second statement of Claim.  No row (it was released in between) is an error.
ClaimSelect(w) ==
  /\ Alive(w) /\ pc[w] = "select"
  /\ \/ /\ claims[EventOf(w)] # "none"
        /\ Goto(w, IF claims[EventOf(w)] = "processed" THEN "commit" ELSE "busy")
        /\ UNCHANGED <<at, owner, holders>>
     \/ /\ claims[EventOf(w)] = "none"
        /\ Return(w, "failed")
  /\ UNCHANGED <<position, committed, claims, group, faults, handled, taken, outlived>>

\* The 50 ms poll of waitForClaim.
Poll(w) ==
  /\ Alive(w) /\ pc[w] = "busy" /\ ~stopProcessing
  /\ Goto(w, "claim")
  /\ UNCHANGED <<kafka, claims, at, group, faults, ghost>>

PollCancelled(w) ==
  /\ Alive(w) /\ pc[w] = "busy" /\ stopProcessing
  /\ Return(w, "failed")
  /\ UNCHANGED <<position, committed, claims, group, faults, handled, taken, outlived>>

HandleSucceeds(w) ==
  /\ Alive(w) /\ pc[w] = "handle"
  /\ handled' = handled \cup {EventOf(w)}
  /\ Goto(w, "complete")
  /\ UNCHANGED <<kafka, claims, at, group, faults, holders, taken, outlived>>

HandleFails(w) ==
  /\ Alive(w) /\ pc[w] = "handle"
  /\ HandlerMayFail /\ Fault
  /\ Goto(w, "release")
  /\ UNCHANGED <<kafka, claims, at, group, ghost>>

InProcessing(e) == claims[e] \in {"processing", "expired"}

\* Release deletes whatever claim is in processing, its own or not; its error is ignored.
Release(w) ==
  /\ Alive(w) /\ pc[w] = "release"
  /\ \/ /\ InProcessing(EventOf(w))
        /\ claims' = [claims EXCEPT ![EventOf(w)] = "none"]
        /\ UNCHANGED faults
     \/ /\ ~InProcessing(EventOf(w))
        /\ UNCHANGED <<claims, faults>>
     \/ /\ Fault
        /\ UNCHANGED claims
  /\ Return(w, "failed")
  /\ UNCHANGED <<position, committed, group, handled, taken, outlived>>

\* Complete marks whatever claim is in processing; that it marked none is not noticed.
Marked(e) == IF InProcessing(e) THEN [claims EXCEPT ![e] = "processed"] ELSE claims

Complete(w) ==
  /\ Alive(w) /\ pc[w] = "complete"
  /\ claims' = Marked(EventOf(w))
  /\ holders' = [holders EXCEPT ![EventOf(w)] = @ \ {w}]
  /\ Goto(w, "commit")
  /\ UNCHANGED <<kafka, at, group, faults, handled, taken, outlived>>

\* Mutant: the stored offset is one too far.
MutantCommitPastNext(w) == [committed EXCEPT ![at[w].part] = at[w].n + 1]

\* CommitMessages stores offset + 1, even for a partition the reader no longer owns.
CommittedAt(w) == [committed EXCEPT ![at[w].part] = at[w].n]

Commit(w) ==
  /\ Alive(w) /\ pc[w] = "commit"
  /\ committed' = CommittedAt(w)
  /\ Goto(w, "fetch")
  /\ at' = [at EXCEPT ![w] = None]
  /\ taken' = taken \ {EventOf(w)}
  /\ UNCHANGED <<owner, position, claims, group, faults, holders, handled, outlived>>

\* A call fails, or its context is cancelled, before or after it took effect: process
\* returns its error.
CallFails(w) ==
  /\ Alive(w)
  /\ Fault \/ (stopProcessing /\ UNCHANGED faults)
  /\ \/ /\ pc[w] = "claim"
        /\ claims' \in {claims} \cup
             {[claims EXCEPT ![e] = "processing"] : e \in {x \in {EventOf(w)} : Claimable(x)}}
        /\ UNCHANGED committed
     \/ pc[w] = "select" /\ UNCHANGED <<claims, committed>>
     \/ pc[w] = "complete" /\ claims' \in {claims, Marked(EventOf(w))} /\ UNCHANGED committed
     \/ pc[w] = "commit" /\ committed' \in {committed, CommittedAt(w)} /\ UNCHANGED claims
  /\ Return(w, "failed")
  /\ UNCHANGED <<position, group, handled, taken, outlived>>

-----------------------------------------------------------------------------
(* RunGroup and main.                                                      *)

\* Mutant: RunGroup stops the others but forgets the error.
MutantErrorForgotten(w) ==
  /\ process = "running" /\ pc[w] \in {"failed", "finished"}
  /\ Goto(w, "gone")
  /\ stopFetching' = (stopFetching \/ pc[w] = "failed")
  /\ stopProcessing' = (stopProcessing \/ pc[w] = "failed")
  /\ UNCHANGED <<kafka, claims, at, drain, firstErr, process, faults, ghost>>

\* RunGroup receives a worker's result; the first error stops the whole group.
Collect(w) ==
  /\ process = "running" /\ pc[w] \in {"failed", "finished"}
  /\ Goto(w, "gone")
  /\ firstErr' = (firstErr \/ pc[w] = "failed")
  /\ stopFetching' = (stopFetching \/ firstErr')
  /\ stopProcessing' = (stopProcessing \/ firstErr')
  /\ UNCHANGED <<kafka, claims, at, drain, process, faults, ghost>>

\* SIGTERM, or main's stop() after the HTTP server failed.
Shutdown ==
  /\ process = "running" /\ drain = "unset"
  /\ Fault
  /\ stopFetching' = TRUE
  /\ drain' = "armed"
  /\ UNCHANGED <<kafka, claims, worker, stopProcessing, firstErr, process, ghost>>

DrainDeadline ==
  /\ process = "running" /\ drain = "armed"
  /\ stopProcessing' = TRUE
  /\ drain' = "fired"
  /\ UNCHANGED <<kafka, claims, worker, stopFetching, firstErr, process, faults, ghost>>

Exit ==
  /\ process = "running" /\ \A w \in Workers : pc[w] = "gone"
  /\ process' = IF firstErr THEN "failed" ELSE "clean"
  /\ UNCHANGED <<kafka, claims, worker, stopFetching, stopProcessing, drain, firstErr,
                 faults, ghost>>

Crash ==
  /\ process = "running"
  /\ Fault
  /\ process' = "crashed"
  /\ pc' = [w \in Workers |-> "gone"]
  /\ at' = [w \in Workers |-> None]
  /\ owner' = [p \in Partitions |-> None]
  /\ holders' = [e \in Events |-> {}]
  /\ UNCHANGED <<position, committed, claims, stopFetching, stopProcessing, drain, firstErr,
                 handled, taken, outlived>>

Start ==
  /\ process # "running"
  /\ process' = "running"
  /\ pc' = [w \in Workers |-> "fetch"]
  /\ stopFetching' = FALSE
  /\ stopProcessing' = FALSE
  /\ drain' = "unset"
  /\ firstErr' = FALSE
  /\ taken' = {}
  /\ outlived' = {}
  /\ UNCHANGED <<kafka, claims, at, faults, holders, handled>>

-----------------------------------------------------------------------------
Advance(w) ==
  \/ \E p \in Partitions : Fetch(w, p)
  \/ FetchStopped(w)
  \/ ClaimUpsert(w)
  \/ ClaimSelect(w)
  \/ Poll(w)
  \/ PollCancelled(w)
  \/ HandleSucceeds(w)
  \/ Release(w)
  \/ Complete(w)
  \/ Commit(w)

Next ==
  \/ \E p \in Partitions : (\E w \in Workers : Assign(p, w)) \/ Revoke(p)
  \/ \E e \in Events : ExpireLease(e)
  \/ \E w \in Workers : Advance(w) \/ FetchFails(w) \/ HandleFails(w) \/ CallFails(w) \/ Collect(w)
  \/ Shutdown \/ DrainDeadline \/ Exit \/ Crash \/ Start

Spec == Init /\ [][Next]_vars

\* Goroutines run, handlers return, readers are given partitions, time passes, and
\* whoever operates the service starts it again.
Fairness ==
  /\ \A w \in Workers : WF_vars(Advance(w)) /\ WF_vars(Collect(w))
  /\ \A p \in Partitions : WF_vars(\E w \in Workers : Assign(p, w))
  /\ \A e \in Events : WF_vars(ExpireLease(e))
  /\ WF_vars(DrainDeadline)
  /\ WF_vars(Exit)
  /\ WF_vars(Start)

FairSpec == Spec /\ Fairness

-----------------------------------------------------------------------------
(* Properties.                                                             *)

FlagsOK == stopFetching \in BOOLEAN /\ stopProcessing \in BOOLEAN /\ firstErr \in BOOLEAN

OffsetsOK ==
  /\ position \in [Partitions -> Nat]
  /\ committed \in [Partitions -> Nat]
  /\ \A p \in Partitions : position[p] <= Len(Log[p]) /\ committed[p] <= Len(Log[p])

WorkersOK ==
  /\ owner \in [Partitions -> Workers \cup {None}]
  /\ pc \in [Workers -> PCs]
  /\ at \in [Workers -> [part : Partitions, n : Nat] \cup {None}]
  /\ \A w \in Workers : pc[w] \notin Ended \cup {"fetch"} =>
       /\ at[w] \in [part : Partitions, n : Nat]
       /\ at[w].n \in 1..Len(Log[at[w].part])
  /\ holders \in [Events -> SUBSET Workers]

RecordsOK ==
  /\ claims \in [Events -> {"none", "processing", "expired", "processed"}]
  /\ handled \subseteq Events
  /\ taken \subseteq Events
  /\ outlived \subseteq Events
  /\ drain \in {"unset", "armed", "fired"}
  /\ process \in {"running", "clean", "failed", "crashed"}
  /\ faults \in 0..MaxFaults

TypeOK == FlagsOK /\ OffsetsOK /\ WorkersOK /\ RecordsOK

\* All of the first n messages of p have been handled.
Settled(p, n) == \A i \in 1..n : EventAt(p, i) \in handled

\* At-least-once: no offset is committed past a message nobody handled, whatever
\* rebalances, lease takeovers, failures and restarts came before (consumer.go:116-138).
CommittedIsHandled == \A p \in Partitions : Settled(p, committed[p])

\* The group implements the abstract at-least-once delivery of EventDelivery: the same
\* handled events and committed offsets, every other step a stutter.
Delivery == INSTANCE EventDelivery
ImplementsDelivery == Delivery!Spec

\* A claim marked processed stays so, and nobody starts handling its event again
\* (store.go:28-29, 54, 62: every later statement is guarded by state = 'processing').
ProcessedIsFinal ==
  [][\A e \in Events : claims[e] = "processed" =>
       /\ claims'[e] = "processed"
       /\ \A w \in Workers : pc'[w] = "handle" /\ EventOf(w)' = e => pc[w] = "handle"]_vars

\* Two workers are never inside the handler section for one event, unless one of them has
\* held it longer than its lease: not after a crash, a rebalance or a release either
\* (store.go:21-48).
ExclusiveWithinLease ==
  \A w, v \in Workers :
    /\ pc[w] \in Holding /\ pc[v] \in Holding
    /\ EventOf(w) = EventOf(v) /\ EventOf(w) \notin outlived
    => w = v

\* README.md:9, "Successful work is committed before exit": a process that exits without
\* an error has committed every message it ever claimed, however SIGTERM, the drain
\* deadline and the workers' last messages interleaved (consumer.go:78-114).
CleanExitLeavesNothingOpen == process = "clean" => taken = {}

\* Every message is eventually handled, after any finite number of faults.
EveryEventHandled ==
  \A p \in Partitions : \A i \in DOMAIN Log[p] : <>(EventAt(p, i) \in handled)

\* SIGTERM is eventually followed by the end of the process: the drain deadline frees
\* even a worker that polls for a claim nobody will ever complete.
ShutdownCompletes == drain = "armed" ~> process # "running"

\* README.md:7, "A concurrent duplicate waits for the active claim": two workers whose
\* leases both still run are never inside the handler section for one event.
ActiveClaimIsExclusive ==
  \A e \in Events : \A w, v \in holders[e] : w = v
=============================================================================
