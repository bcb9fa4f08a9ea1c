# Verification of music-recommender-system

TLA+ models of the stateful parts of the four Go services in `src/`, checked with TLC on
small instances, with proofs for TLAPS. Line numbers are those of the commit in `src/`.

## 1. Inventory

| Service | Component | State | Operations |
|---|---|---|---|
| event streaming | consumer group (`internal/consumer`) | per worker: Kafka reader, message in hand; `fetchCtx`, `processCtx`, drain timer, first error | fetch, process, wait for a claim, commit; SIGTERM, drain deadline |
| | idempotency store (`internal/idempotency`) | `processed_events(event_id, handler_name, state, lease_until)` | Claim (two statements), Complete, Release |
| | decoder (`internal/contracts`) | none | EventID |
| playback | ingestion (`internal/playback`) | `playback_events`, append only, unique on `(user_id, client_event_id)` | single and batch ingest |
| | outbox, direct publisher, relay (`internal/event`) | `outbox_events(published_at, attempts)` | Direct.Publish, Relay.RunOnce, Relay.Run |
| | session history | none (reads) | GetSessionEvents, cursor, detectOutOfOrder |
| identity | emitter, outbox, relay (`internal/event`) | `kafka_integration(status, attempts)`; the loop's batch and its context | Emit*, FetchPending, MarkPublished, MarkFailed, IncrementAttempts, Start, Shutdown |
| | tokens (`internal/token`, `refresh`, `revocation`, `auth`) | `refresh_tokens`, blacklisted jtis in Redis | issue, refresh with rotation, logout, authenticate |
| | tier (`internal/profile`) | `listener_profiles.subscription_tier` | GetTier, Upgrade |
| | preferences (`internal/preference`) | `liked_songs`, `followed_artists`, and the same items as arrays in `preferences` | like, unlike, follow, unfollow, onboarding, listings |
| | registration, OAuth, profile | `users`, `oauth_accounts`, `listener_profiles`, OAuth states in Redis | Register, callback, GET and PATCH /me |
| | playlists | `playlists`, `playlist_songs(position)` | create, patch, delete, add and remove song |
| catalog | skeleton | none | health, admin check |

How they interact: the playback service and the gatekeeper write Kafka topics, each
through an outbox table of its own that two threads (the request's and a relay's) work
on; the streaming service's workers read the topics and share a table of claims. Inside
the gatekeeper, requests share PostgreSQL rows and Redis keys. There are no in-memory
locks: what serialises anything is a statement's WHERE clause, a unique key, a row lock or
a channel.

What is hard: duplicates and redelivery by design; a lease that runs out under a live
worker; two publishers of one row with unguarded or half-guarded statements; commits whose
answer is lost; contexts cancelled between two statements; crashes between any two calls;
relays that give up; transactions that lock rows in different orders. PROJECT.json lists
each hazard at its line.

What makes each component correct:

* consumer group: at-least-once (no offset past an unhandled message), one active handler
  per event within the lease, processed is final, a clean exit leaves nothing open, every
  message is handled in the end, SIGTERM ends the process;
* playback: an answer is backed by rows, an event is accepted once, publication follows
  acceptance and the mark follows publication, attempts are bounded, every row settles;
* identity events: the mark follows delivery, a row gets all its attempts, every row settles,
  every mutation gets its event;
* sessions: a session has one usable refresh token, logout revokes both tokens for good,
  tiers are current;
* accounts: tokens go to who owns the account, an answered registration holds, a state is
  used once, nobody is refused without a reason;
* preferences: row and array agree, onboarding happens once, requests end;
* playlists: songs keep their order, nothing outlives its playlist, requests end;
* listings: every row that stays is shown once, in order; flags and summary are of the
  session as it was when the page was read.

## 2. Modules

| Module | Models | Composition |
|---|---|---|
| `EventDelivery` | what the streaming service promises: handle, then commit | abstract |
| `EventConsumer` | consumer group and claims | refines `EventDelivery` |
| `EventConsumer_proofs` | its theorems | extends `EventConsumer` |
| `OutboxDelivery` | what a transactional outbox promises: accept, deliver, settle | abstract |
| `PlaybackOutbox` | ingestion, outbox, direct publisher and relay | refines `OutboxDelivery` |
| `PlaybackOutbox_proofs` | its theorems | extends `PlaybackOutbox` |
| `IdentityOutbox` | emitter, outbox and relay of the gatekeeper | |
| `IdentityOutbox_proofs` | its theorems | extends `IdentityOutbox` |
| `Sessions` | token pairs, rotation, logout, tiers | |
| `Sessions_proofs` | its theorems | extends `Sessions` |
| `Preferences` | likes, follows and onboarding of one user | |
| `Preferences_proofs` | its theorems | extends `Preferences` |
| `Playlist` | one playlist, its songs, and the requests about it | |
| `Playlist_proofs` | its theorems | extends `Playlist` |
| `Accounts` | registration, login, OAuth, the rows behind /me | |
| `Accounts_proofs` | its theorems | extends `Accounts` |
| `Listing` | a walk by pages over a session's events or a user's likes | |
| `Listing_proofs` | its theorems | extends `Listing` |
| `MC*` | constants and symmetry sets of the runs | extend their component |

One SQL statement (or one transaction, where nothing inside it can be observed), one
broker call or one channel operation is one step; everything between two such steps is
local to a goroutine. Where a transaction is several steps (`Preferences`) its row locks
are modelled.

### EventConsumer

`pc[w]` is where worker `w` is in `Run` and `process` (consumer.go:58-138): `fetch`,
`claim` and `select` (the two statements of `Claim`), `busy` (the 50 ms poll), `handle`,
`complete`, `release`, `commit`, or ended. `owner`, `position` and `committed` are the
broker's view: a partition's reader, the next message it returns, and the group's offset.
`claims[e]` is the row of `processed_events`: `expired` is a `processing` row past
`lease_until`. `Collect`, `Shutdown` and `DrainDeadline` are the three cases of the select
in `RunGroup`. `Exit` records whether it returned an error; the process then ends and
`Start` is a new one. A rebalance (`Revoke`) takes a partition from a worker that goes on
with its message, and its commit is still accepted: kafka-go commits whatever offset it is
given. A failed call (`CallFails`) may have taken effect. `holders`, `outlived`, `handled`
and `taken` are history variables, which no guard reads: `outlived` holds the events that
some worker of this process has held past their five minutes' lease.

### PlaybackOutbox

An event is one `(user_id, client_event_id)`; `Body[r]` is what request `r` names, so the
same event in two requests, or twice in one, is a client's retry. `ledger` is
`playback_events` together with `outbox_events`: `Insert` writes both in one transaction
(repository.go:64-139). Its order is the order of the transactions, which is taken for
the order by `created_at`. A request goes through `insert`, `publish`, then `record` or
`mark` (delivery.go:17-23) for each of its events; the relay goes through the same calls
for its batch (delivery.go:41-58). Statements carry the guard `published_at IS NULL`
(`Counted`, `Marked`). `Overgrown` events are those whose context is over the limit only
as `jsonb` (service.go:150-157).

### IdentityOutbox

The same shape without the guards: no statement on `kafka_integration` looks at the
status, the relay decides on the attempts it fetched (`seen`), each batch has a context of
10 s (`expired`), and the loop waits only after an empty batch. `Mutate` is the commit of
whatever the request changed; `Enqueue` comes after it, outside its transaction
(auth/service.go:107, preference/service.go, playlist/service.go:50). An error of a
statement that took effect is not distinguished from success where the code only logs it.

### Sessions

A token pair is one element of `Tokens`: its refresh token's row and its access token's
jti. `Receive` is any client presenting any pair it was ever handed, used or not, to any
endpoint; the steps after it are the statements of the service. `Lapse` and `Expire` are
the 15 minutes of an access token, with which its blacklist entry ends, and the 30 days of
a refresh token. A tier is the number of upgrades, so that "no older than" can be said.

### Preferences

One user, READ COMMITTED. A statement sees committed data and its own transaction's
writes; `Blocker` is what it has to wait for: an upsert that finds a conflicting row in
progress, a DELETE or an UPDATE that finds a locked row, a SELECT ... FOR UPDATE. An
`INSERT ... ON CONFLICT DO NOTHING` that finds a committed row locks nothing and goes on.
`Deadlock` is a circle of waits and `DeadlockVictim` PostgreSQL's way out of it. A song
and an artist are both an item: like and follow are the same statements on other tables;
an onboarding does the follow's statements for each of its artists.

### Playlist

One playlist with its `playlist_songs`, and a few requests of its owner or of somebody else.
Every operation but AddSong is one statement. AddSong's four (`LockPlaylist`, `Already`,
`Max`, `Insert`) and its COMMIT are steps of their own: from the first on it holds the lock
of the playlist's row (`Locked`), for which Patch, Delete and other AddSongs wait, and
RemoveSong and GET do not. What it inserts is committed, and visible, at the end. `Collides`
are the two unique indexes of `playlist_songs`; `Insert` also fails on the foreign key. A
playlist begins with any positions, because removals leave gaps. `Emit` is
`emitPlaylistUpdated`, between the commit and the answer.

### Accounts

An account is named by its address (addresses are unique and accounts are never deleted).
`account` is the row of `users`: the registration that chose its password, or the Google user
it was created for; `linked` is `oauth_accounts`, `profile` and `prefs` the two rows that
EnsureExists creates. A callback goes through the statements of `Service.Callback`: consume
the state, ask Google (external: it may refuse, or not vouch for the address), look up the
Google user, look up the address, insert both rows, EnsureExists, issue. Google may know a
user by another address at the next callback, which is why `LookupSubject` does not look at
it. GET and PATCH /me are their reads and writes one by one, since they meet rows that another
request is about to create. `GetListenerProfile` of the gRPC server is GetMe. A write may take
effect and its answer be lost (`WriteLost`, `ConsumeLost`).

### Listing

A client walks from the first page to the last, changing the limit as it likes, while other
requests insert and, for likes, delete. An event has two times, `at` (occurred_at, which the
client says) and `in` (ingested_at); a like has one. The two endpoints share the module since
they share the idiom: fetch limit + 1 rows past the cursor, trim, and encode the last row
shown. `Overview` and `PageOfEvents` are the two queries of one REPEATABLE READ transaction,
the second on the snapshot of the first. `ThroughCursor` is what EncodeCursor and DecodeCursor
do to a time: nanoseconds in an int64, so that times outside of a window of `Width` come back
as others. `InOrder` is the ORDER BY of the query. `HighWaterMark` is the loop of detectOutOfOrder as a recursive function over times.

## 3. Runs

Every run has `CHECK_DEADLOCK FALSE`: the input (messages, requests, events) is finite,
and when it is used up the services wait for more.

| Run | Shows | Bounds |
|---|---|---|
| EventConsumer | at-least-once, clean exit, one handler per event within the lease, processed is final, refinement; every message handled, SIGTERM ends the process | 2 workers, one partition a, a, b; 3 faults. The safety properties are proved for any number of workers |
| EventConsumerStaleRelease | a duplicate does not always wait | 3 workers, one message, 3 faults |
| EventConsumerIdentity | an identity message stops the group for good | no faults at all |
| PlaybackOutbox | answers backed by rows, accepted once, refinement, attempts bounded, every row settles | 3 batches over a, b, a malformed and an overgrown event; relay batch of 1, 2 attempts, 2 faults |
| IdentityOutbox | mark after delivery, all attempts before giving up, every row settles | 2 events, batch of 2, 2 attempts, 2 faults |
| IdentityOutboxLostEvent | an event lost before it is enqueued | one event, the shipped 5 attempts, 1 fault |
| Sessions | one live token per session, rotated once, tier current, logout final | 2 users, 3 pairs, 3 requests, 2 faults |
| Preferences | liked is listed, onboarded once, who can deadlock, every request answered | 2 items, 3 requests, one of which may fail at any statement |
| PreferencesSync | row and array part | 1 item, 2 requests |
| Playlist | order is stable, no row without its playlist, every request answered and never by a 500 without a fault | 2 songs, positions up to 1 at first, 3 requests: two that race and one that has made a gap, or deletes; 1 fault |
| Accounts | tokens to the owner, registrations hold, states used once, no refusal without a reason | 2 addresses, 2 Google users, 2 states, 3 requests, 1 fault |
| Listing | shown once and in order, flags as defined, summary covers the page | 3 rows inserted at up to 4 instants, pages of 1 or 2 with limits 0 to 3 asked for; one time that does not fit a cursor |

The bound that matters everywhere is `MaxFaults`, the failures, disconnects, outages, stops
and crashes of a behaviour taken together: the races found here need one to three. (In
`Preferences` a request that fails is over, so `Faulty` names the requests that may.)
`Events`, `Workers`, `Requests` are as small as two actors on the same object and one
bystander allow. Symmetry is used for tokens and requests
(`Sessions`) and for addresses, Google users and states (`Accounts`), in runs without liveness
properties only. A run that expects a violation states what a document, comment or test of
the repository says; PROJECT.json quotes it under `findings`.

Fairness:

* `EventConsumer`: the goroutines and the RunGroup loop run, the broker assigns free
  partitions, leases and the drain timer run out, the operator restarts the process. A
  handler that hangs for ever is not in the model (it has the deadline of `processCtx`).
  Faults are finite and never fair.
* `PlaybackOutbox`: only the relay, the end of a stopping process and the restart. Nothing
  of the broker: a row settles during an outage because its attempts are used up.
* `IdentityOutbox`: the same with requests and the end of outages.
* `Preferences`: each statement that need not wait is executed, and circles are broken.
* `Playlist`: a statement that need not wait for a lock is executed. `Commit` is never
  blocked, so no lock is held forever.
* `Sessions`, `Accounts` and `Listing` have no liveness property: nothing in them waits.

What the models show and no run states as a property:

* `Claim` can end a worker without any failed call: the claim that its upsert found busy is
  released before its SELECT, which returns `pgx.ErrNoRows` (store.go:38-43). `RunGroup` then
  stops every worker, where src/music-event-streaming-service/README.md:7 says that a
  concurrent duplicate waits.
* `Complete` does not look at the number of rows it updated (store.go:50-57): after a stale
  owner's `Release` a worker commits its offset with no processed row, and a later duplicate
  is handled again.
* In the playback service an outage of five relay ticks uses up a row's attempts
  (internal/event/outbox.go:43-51), and it is not published after the recovery.
* A batch whose later event only the database finds too large is answered 400 with its earlier
  events stored (service.go:150-157 names this case; `RejectedStoresNothing` excepts it).
* In the gatekeeper the same holds for good: after `maxAttempts` the relay marks a row failed
  (relay.go:114-115), where cmd/server/main.go:102 says that "the relay fallback will retry once
  Kafka is reachable".
* Two callbacks of one new Google user at once: the second misses `GetUser`, and then finds in
  `GetByEmail` the account that the first has just created. It is answered 409 with
  `ErrEmailConflict`, "email belongs to another authentication provider" (oauth/service.go:19,
  93-96), though the account is its own; or, a step later, 500. A new attempt succeeds.
* The loser of a race for an address is answered 500 by the unique key and not 409, because
  CreateUser's error is not told apart (auth/service.go:94-102).
* detectOutOfOrder's comment says that a flagged row "arrived after an event that, per its own
  timestamp, hadn't happened yet" (repository.go:151-153). What the code and its tests flag is
  a row that arrived *before* one that, by its own time, had happened earlier: of a pair out of
  order the event that occurred later and arrived earlier. `FlagsAreRelative` states that.
* The validator has no lower bound for occurred_at. A time before 1678 does not fit UnixNano
  (cursor.go:22), and a walk whose cursor holds one goes on somewhere else: `ListedOnceInOrder`
  excepts sessions with such an event.
* A GET of a playlist reads the playlist and then its songs; a Delete in between makes it answer
  200 with no songs. Overlapping requests may enqueue their events in either order.
* PATCH /me of a user who has a profile and no preferences would answer 500 after its UPDATE
  has committed (profile/service.go:150-162). Only TierService.Upgrade makes such a user, and no
  route calls it (cmd/server/main.go:87).
* A song unliked and liked again during a walk may be listed twice, at both its times.
* The gatekeeper's relay does not wait after a batch that failed (relay.go:76-131): the five
  attempts of a row can be used up within one wake-up.

The first two need a `Handler` that can return an error after its lease or its claim; the
shipped one (handler/validation.go) does not.

## 4. Proofs

`EventConsumer_proofs` proves, for every set of workers, partitions and events, every log
and every bound:

* `TypeCorrect`: `TypeOK`, one step of the proof per action.
* `CommittedOnlyAfterHandling`: `CommittedIsHandled` is not inductive. That a commit is
  safe rests on everything below the message in hand being handled (`CarriedSettled`),
  on a message reaching `complete` or `commit` only when handled (`EndingHandled`), which
  for duplicates rests on marks being made for handled events only (`MarkedHandled`), and
  on what an assigned reader has returned being handled or in its worker's hands
  (`ReturnedSettled`). Their conjunction with `StoppedIsGone` is `DeliveryInv`.
* `ConsumerImplementsDelivery`: the refinement, from the same invariant; `VisibleStep`
  says which steps the abstract state sees.
* `ProcessedStaysProcessed`: the action property, by cases on who writes a claim.
* `OneHandlerPerEvent`: `ClaimInv` ties the handler section to the history variables. For an
  event that nobody has outlived, who is in the handler section is a holder and the claim is
  live (`HandlersHold`), holders are in it (`HoldersHandle`), and there is one (`OneHolder`).
* `CleanExit`: `CleanExitLeavesNothingOpen`. As long as nobody has failed and the process
  runs, every event claimed and not yet committed is in the hands of a worker between its
  claim and its commit (`OpenIsHeld`); an exit without an error needs every worker gone and
  none failed, so that nothing is left open. `OpenStep` is where the code could go wrong:
  a worker puts a claimed message down only by committing it, failing or crashing.

Assumed: `LogAssumption` only (the log is a function to sequences of messages, `None` is no
worker, flags are Boolean, the bound is a natural number).

`PlaybackOutbox_proofs` proves, for every set of requests and events, every batch a request
may name, every batch size and number of attempts, and every bound on faults:

* `TypeCorrect`: `TypeOK`. That a result has a place among its request's events rests on the
  part `RequestsOK`, in which a request in store has an event left.
* `ResultsAreBacked`, `AcceptedAtMostOnce`, `RejectionIsAtomic`: a request *claims* an event
  when it has been told `accepted` or is between storing and marking it. The inductive
  invariant `StoreInv` says that the ledger holds no event twice, that results and claims are
  backed by the ledger, and that no event is claimed twice, neither by two requests nor by one
  request in two places. `RequestCases` divides the steps into those that accept, those that
  give a result and the rest, so that the argument is made three times and not once per action.
* `AttemptsAreBounded`: `AttemptsInv`. There is one direct publish of an event, because it
  follows the one claim; nothing is counted before the row exists; an event in the relay's
  batch, or with a direct publish under way, has at most `MaxAttempts` attempts, and fewer
  while both are still to count. `AttemptsBounded` alone is not inductive: it does not say
  who may still count.
* `PublishedStaysPublished`: the action property, from the guards `published_at IS NULL`.
* `OutboxImplementsDelivery`: the refinement. `MarkFollows` says that what is about to be
  marked has been delivered, for a request and for the relay; the relay marks the oldest
  event of its batch, of which there is one (`OneOldest`) and which stays the oldest
  (`OlderStays`).

Assumed: `OutboxAssumption` only (requests name sequences of events, and the bounds are
natural numbers).

`IdentityOutbox_proofs` proves, for every set of events, every batch size, number of attempts
and bound on faults:

* `TypeCorrect`: `TypeOK`. That the relay, when it is at a row, is at one that its batch holds
  rests on the ledger holding no event twice (`Distinct`) and on a batch being non-empty
  where a row is pending: the oldest pending row is in it (a least index exists, by induction
  over the naturals), for which the batch size must not be 0.
* `MarkedRowsAreDelivered`: `MarkedIsDelivered`. `DeliveryInv` adds that a request or a relay
  about to mark has delivered; none of the statements looks at the status, so the order
  of the calls is all there is.
* `GivenUpRowsHaveFailed`: `GivenUpAfterAllAttempts`. The relay decides on the attempts it
  fetched. `CountInv` adds up, for each event, the column and the failures that the request
  and the relay have still to count: together they are no more than the publishes that
  failed, and the fetched copy is no more than the column.
* `SettledStaysSettled` (`SettledIsFinal`): no step makes a published or failed row pending
  again. MarkPublished and MarkFailed can overwrite each other, since neither looks at the
  status; where they do, the event is on its topic.
* `LostEventsNeedFaults` (`LostOnlyByFault`): what remains of `EveryMutationEnqueued`, which is
  violated. As long as no call fails, no client leaves and nothing stops, a committed mutation
  has its row or a request at the INSERT.

Assumed: `IdentityAssumption` (batch size and attempts are positive: NewRelay's 50 and
5, which main.go leaves as they are).

`Sessions_proofs` proves, for any users, token pairs, requests and faults, `TypeCorrect`,
`RotationKeepsOneLine` (`OneLiveTokenPerSession`) and `LogoutHolds` (`LogoutRevokesBoth`).
`SessionsInv` says that what was rotated is revoked and that the pair a session began with is
there (`Tree`), so that a rotation, whose UPDATE requires the row to be active, replaces the
one live row of its session; and that a logout past its blacklisting has an access token
which no request is authorised with, and past its UPDATE a revoked row (`LoggingOut`). `Grows`
is what no step takes back: rows, revocations and refusals. `IssuedWithCurrentTier` is the
action property `IssuedTierIsCurrent`: no pair claims a tier lower than its user had when the
request came in. The
user is looked up, the tier read and the pair written in three calls; `TierInv` says so of
the tier that a request has read or is still to read, because tiers only grow and a pair keeps
its user (`Keeps`). `LogoutIsFinal` (`LogoutEndsSession`): a logout whose UPDATE meets a live
row ends the session, as there was no other live row and every rotation needs one; a session
that has ended stays so. Where a refresh has rotated the row first, the successor outlives the
logout: the theorem says that there is no third case. Assumed: `SessionsAssumption`.

`Preferences_proofs` proves, for any items, requests, lists of artists and faulty requests:

* `TypeCorrect` and `LikesAreListed` (`LikedIsListed`). The invariant `PrefsInv` compares the
  committed row with the draft of the transaction that holds it (`Draft`): what is listed
  stays listed there, unless the holder has locked the item's row to remove it. `Sees` says
  what each transaction has made of its own view; what it has locked is listed in it, but for
  the item it is at.
* `OnboardingHolds` (`OnboardedOnce`): an onboarding past `Check` is the holder, and its draft
  has its own seeds over committed ones that are empty.
* `CirclesAreOnboardings` (`DeadlockNeedsOnboarding`): in a circle without an onboarding the
  owner of an item's row waits for the row of preferences. Its holder is then at its COMMIT,
  and waits for nothing, or has just created the row; but then no transaction that could own
  an item's row has a row of preferences to see.
* `OutOfSyncNeedsSkip` (`StaleNeedsSkip`): what remains of `StoresInSync`, which is violated. An
  entry is left without a row only at the COMMIT of a like, a follow or an onboarding that
  names the item and has inserted no row. `WritesInv` adds to `PrefsInv` what a draft has more
  than the committed row (items its request names) and less (the one item of an unlike).

Assumed: `PreferencesAssumption` (lists are sequences of items; `None` is neither a request
nor what one asks for).

`Playlist_proofs` proves, for any songs, positions, number of requests and faults,
`TypeCorrect`, `PlacesAreKept` (`OrderIsStable`) and `AdditionsNeverCollide`: at most one
AddSong is in its transaction (`OneLocks`), so that the position it has drawn is behind every
song until its COMMIT (`Adding`), and no INSERT meets a unique index or a missing playlist: the
safety half of `EveryRequestAnswered`, whose answers exclude that 500. Assumed:
`PlaylistAssumption`.

`Accounts_proofs` proves, for any addresses, Google users, states, number of requests and
faults, `TypeCorrect`, `PairsGoToOwners` (`IssuedToOwner`), `RegistrationsHold`
(`RegistrationHolds`), `StatesUsedOnce` (`StateUsedOnce`) and `RefusalsHaveReason`
(`RefusedOnlyWhenTaken`). `AccountsInv` says of each request that what it has looked up or
created is still there (`Backed`), which holds because nothing in the code takes an account, a
link, a profile or preferences away (`Grows`), and that the state of a request which has passed
is gone (`Used`). Assumed: `AccountsAssumption`.

`Listing_proofs` proves, for any ids, times, limits asked for and insertions and removals in
between, `TypeCorrect`, `PagesInOrder` (`ListedOnceInOrder`), `FlagsAreExact`
(`FlagsAreRelative`) and `SummaryIsOfThePage` (`SummaryCoversPage`).

* `ListedOnceInOrder` says nothing of what lies between two pages, and is not inductive.
  `ListingInv` says where the walk stands (`WalkOK`): the cursor is the last key listed;
  what has been listed is in order; what was there at the first page, and was not removed, is
  listed or past the cursor. `ListedOK` adds that a row listed is as it was shown or has been
  removed since, so that two keys of one id mean a removal, and `SnapOK` that the page of a
  transaction is taken from rows that are there still. `WalkOK` is asked only while every
  time fits a cursor (`InWindow`), as the property is; that a cursor is then read back as it
  was written is arithmetic on `Low` and `Width`.
* The operators: the page is cut from `InOrder`, of which `Ordered` says that it has the keys
  once each and in order: a finite set has an enumeration by the number of keys before each,
  and so the CHOOSE has a value. `HighWater` says that the loop over times computes the
  latest arrival of the events that happened before: a time where it did not, the least one,
  would contradict the loop's step.

Assumed: `ListingAssumption` (the default limit is positive and not above the largest, as in both
handlers; the times that the server stamps fit a cursor, and so do all later than `Low`). The ids need not be finitely many: that finitely many rows are there is part of the
invariant.

Checked by TLC only: the liveness properties (`EveryEventHandled`, `ShutdownCompletes`,
`EveryRowSettles` of both outboxes, `EveryRequestAnswered` of `Preferences` and `Playlist`),
because the prover has neither fairness nor ENABLED. Every other property of a run that passes
is proved. The runs that expect a violation are counterexamples; `SettledIsFinal`,
`LostOnlyByFault`, `LogoutEndsSession` and `StaleNeedsSkip` are stated in the proof modules, beside
their proofs, and no run checks them.

## 5. Not modelled

The catalog service (no state), logging, metrics, health checks, configuration,
authentication middleware of the playback service, token signing, password hashing, validators
beyond accept or reject, generated code, the list of a user's playlists (one query), a late
flag and a completion percentage (functions of one event), and the order of events per user,
which the services do not promise. `DeleteExpired` and `DeleteByUser` of the refresh tokens
have no caller. Kafka, PostgreSQL and Google are modelled from how they are used: a call fails
or succeeds, statements are atomic.

## 6. Plan

Done, in this order: `EventConsumer` with `EventDelivery` and its proofs; `PlaybackOutbox` with
`OutboxDelivery` and its proofs; `IdentityOutbox`; `Sessions`; `Preferences`; `Playlist`;
`Accounts`; `Listing`; the proofs of all of these.

Left: `Pipeline`,
`OutboxDelivery` composed with `EventDelivery` (what is accepted is handled), which both
services' formats rule out today for identity topics (`EventConsumerIdentity`).
