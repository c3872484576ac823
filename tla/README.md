# Clearpath: TLA+ models, checks and proofs

Clearpath is a demonstration of a restaurant-menu platform: merchants edit menu
items, the edits travel through Kafka to an availability service, a storefront
composes both into one cached menu, and a worker pool polls external
point-of-sale systems. This directory models the program's own core logic in
TLA+, model-checks it with TLC and proves the main safety properties with TLAPS.

Paths below are relative to the repository. Line numbers of every modelled
definition are in `PROJECT.json` under `map`.

## 1. The system

| Part | State it keeps | Operations | Talks to |
|---|---|---|---|
| **menu-service** repository (`ItemRepository.kt`, `ItemRoutes.kt`) | Postgres tables `venues`, `items`, `outbox` | create, update, delete of an item (optimistic locking), create of a venue, lists | clients over HTTP; the relay through `outbox` |
| **menu-service** relay (`OutboxRelay.kt`) | `claimed_at`, `published_at` of `outbox` rows | claim the oldest row, publish it, mark it; every few hundred ms | topic `menu.events` |
| **availability-service** consumer (`MenuEventConsumer.kt`, `IdempotencyStore.kt`, `RedisAvailabilityStore.kt`, `MongoAuditStore.kt`) | committed offset (Kafka), `processed_events` (Postgres), one state per item (Redis), audit documents (Mongo) | poll, handle, commit; compensation of a failed handling | `menu.events` |
| **availability-service** routes (`AvailabilityRoutes.kt`, `ChaosRoutes.kt`) | `ChaosState` in memory | manual override; pause, unreachable Redis, replay of the last event | the same stores, concurrently with the consumer |
| **storefront-api** (`MenuCompositionService.kt`, `MenuCacheStore.kt`, `BackendClients.kt`) | a Redis cache with a TTL, a map of deferreds in flight | `getMenu`: cache, single flight, two upstream calls | menu-service, availability-service |
| **pos-ingest** pool (`internal/worker/pool.go`, `cmd/server/main.go`, `internal/api/handlers.go`) | semaphore, WaitGroup, `sync_runs` (Postgres) | poll every venue on a ticker, retry one on request, shut down | POS systems, topics `pos.sync`, `pos.sync.dlq` |
| **pos-ingest** helpers (`retry.go`, `flat.go`, `nested.go`, `limiter.go`, `producer.go`) | attempts, token bucket, buffered partitions | backoff, price parsing, rate limit, publishing | |
| **trace-collector** (`SpanConsumer.kt`, `SpanStore.kt`, `SpanBroadcaster.kt`, `KafkaLagService.kt`) | spans (Mongo), a bounded broadcast buffer, cached lag | consume, insert, broadcast, look a trace up, measure lag | every service, through topic `system.trace`; browsers, over SSE |
| **tracing-core** (`Tracer.kt`, `Http.kt`) | the current span of a coroutine | open and close spans | all Kotlin services |
| **merchant-web** menu editor (`MenuEditor.tsx`, `PriceCell.tsx`, `ConflictBanner.tsx`, `api/queries/menu.ts`) | the items of a venue in the query cache, open inputs, conflicts | inline price edits, reorders as several PUTs with compensation, rollback, "use latest values" | menu-service |
| **merchant-web** board and chaos panel (`AvailabilityBoard.tsx`, `AvailabilityCell.tsx`, `api/queries/availability.ts`, `ChaosPanel.tsx`) | a polled list of states, open popovers, the verdict on a replay | optimistic PUTs, rollback and refetch; pause, break, replay | availability-service |
| **merchant-web** span stream, diagram and tour (`traceStream.tsx`, `FlowDiagram.tsx`, `flowGraph.ts`, `GuidedTour.tsx`, `tourProgress.ts`, `api/client.ts`, `correlationTracking.ts`) | a ring buffer of spans, what was drawn, publishes waiting for their consume, the id of the last write (session storage) | buffer, pulse, pair, poll a trace, tick steps | trace-collector |
| **merchant-web** venues (`venueSelection.ts`, `api/queries/venues.ts`, `App.tsx`, `VenueSetupCard.tsx`) | the venue list in the cache, the choice in local storage, the route | create a venue with its sample menu, switch, follow links, reload | menu-service |

What is hard in it, and what makes each part correct:

* **Repository.** Concurrent transactions on one row; the version written comes
  from a SELECT made before the conditional UPDATE; `deleted_at` is not checked
  again; Exposed repeats a transaction whose commit may have taken effect; outbox
  ids are drawn before commit. Correct: items and outbox never diverge, no update
  is lost, replies tell the truth, events follow versions.
* **Relay.** No lock is held during the publish, a claim has a lease shorter
  than a publish may last, sends time out ambiguously, processes crash. Correct:
  nothing is marked that was not sent, everything is sent in the end, two
  instances meet only past a lease, and it is known when order breaks.
* **Consumer.** Three stores and an offset that cannot be written atomically;
  redelivery, eviction, crashes, replays and overrides at the same time.
  Correct: at most once applied, nothing passed over, order kept - with the
  exceptions the code really has.
* **Storefront.** Requests race each other, expiry and a failing leader.
  Correct: one fetch at a time, no waiter left behind, no answer that goes back
  in time.
* **Pool.** A semaphore shared by two kinds of polls, a WaitGroup that counts
  only one of them, a shutdown that cancels contexts under them. Correct: no
  leaked slot, rows and topics that agree, no run left running.
* **Menu editor.** A PUT carries the whole row out of a cache that holds
  optimistic rows, rolled-back lists and late GETs; a reorder is several PUTs of
  which some fail; mutations outlive the screen. Correct: a version stands for a
  row, a failed reorder is put back, an edit touches what it says.
* **Board and chaos panel.** Polls, PUTs, rollbacks and a switch of the venue
  cross; the verdict on a replay compares two reads of that cache. Correct: a
  board at rest shows an answer of the server, and gets back to it.
* **Span stream, diagram and tour.** Spans come in any order, twice, late or not
  at all, through a buffer that drops the oldest; the write they belong to is
  known only when its answer arrives. Correct: each span pulses once, a gap is
  one of a publish to its consume, a tick was earned and stays.
* **Venues.** The list, the remembered choice, the build's default and the route
  are four answers to which venue is meant; a creation is several POSTs beside
  refetches. Correct: what was created is there, links lead to real venues.

## 2. Modules

| Module | Models | EXTENDS / INSTANCE |
|---|---|---|
| `Outbox` | the outbox table | |
| `MenuRepository` | the repository's transactions step by step | `Outbox` |
| `OutboxRelay` | any number of relay instances and their topic | `Outbox` |
| `MenuEvents` | abstract: what menu-service promises on its topic | |
| `MenuService` | repository and relay over one outbox; implements `MenuEvents` | `MenuRepository`, `OutboxRelay`, `MenuEvents` |
| `MenuEventConsumer` | consumer loop, handler, replay, override, chaos panel | |
| `MenuEventConsumerProofs` | its invariants, proved | `MenuEventConsumer` |
| `WritePath` | menu-service and the consumer over one topic | `MenuService`, `MenuEventConsumer` |
| `MenuServiceProofs` | the repository, the relay, both together, and the write path, proved | `WritePath`, `MenuEventConsumerProofs` |
| `MenuComposition` | `getMenu` and its single flight | |
| `MenuCompositionProofs` | its invariants, proved | `MenuComposition` |
| `WorkerPool` | ticker loop, polls, retries, shutdown | |
| `WorkerPoolProofs` | its invariants, proved | `WorkerPool` |
| `MenuEditor` | merchant-web's editor, its query and mutations, menu-service and other editors | |
| `MenuEditorProofs` | its invariants and action properties, proved | `MenuEditor` |
| `AvailabilityBoard` | the board, the venue switcher and the chaos panel, availability-service and Redis | |
| `AvailabilityBoardProofs` | its invariants and the panel's verdict, proved | `AvailabilityBoard` |
| `FlowGraph` | the diagram's edges, the mapper from spans to hops, the spans the services report | |
| `SpanFeed` | a span's way from its service to a pulse: trace-collector, ring buffer, diagram | `FlowGraph` |
| `GuidedTour` | the last write, its polled trace, the steps `edit` and `propagate` | `SpanFeed` |
| `GuidedTourProofs` | mapper and graph, feed and tour, proved | `GuidedTour` |
| `VenueSetup` | the venue list, the choice, the route, the creation of a venue | |
| `VenueSetupProofs` | its invariants, proved | `VenueSetup` |
| `MC*` | constants and symmetry for TLC | the module they are named after |

A definition commented *Variant* is the plausible bug a property was tried
against (a dropped guard, a swapped order); nothing in a specification uses it.

### How state and actions correspond to the code

**MenuRepository.** `items[i]` is a row's status and version, `outbox` the set
of committed rows, `nextOutboxId` the `bigserial`. A request is a transaction
`t` with a `pc`: `Begin` (the route), `SelectExisting` (the first SELECT),
`ConditionalUpdate` (UPDATE ... WHERE version, and the outbox insert),
`CurrentItemResponse` (the SELECT of a 409), `Commit`, `Respond`. `Rollback` is
any failed statement or commit, after which Exposed 0.55 repeats the block or
the request fails; `CommitUnacknowledged` is the commit whose answer is lost.
Postgres is external: a row written and not committed is locked (`Locked`), and
`VisibleVersion` and `UnchangedSinceSnapshot` give the two isolation levels.
Names, prices and descriptions are left out, no condition reads them.

**OutboxRelay.** A row's `claim` is `claimed_at`: null, within the lease, or
older. `LockNextRow` and `CommitClaim` are the first transaction (SELECT ... FOR
UPDATE SKIP LOCKED, then the stamp), `SendAcked` the blocking send,
`MarkPublished` the second transaction. `SendTimesOut` publishes and throws,
`Abort` is every other failure and a crash, and neither releases the claim.
`LeaseOverrun` is a lease that ends under a running publish. Two history
variables: `overrun` has the rows of such leases, `givenUp` those that were
claimed and then not sent. The module says what the relay does to an outbox;
where its rows come from is `MenuService`, in which requests commit them.

**MenuEventConsumer.** `handler` has two places, because the loop and a replay
request run `handleEvent` concurrently: `mark`, `put`, `audit` and, after an
exception, `undo`. `position` is what the client fetches next, `committed` what
Kafka remembers; `Crash` and `Rejoin` start again from `committed`. Each fault
kind is one call that can fail: `ack` is the idempotency insert that commits and
is not answered; a SET, an insert of the audit document or a commit of the offset
that throws may have taken effect too. The history variables `thrown` and
`interrupted` hold the events whose handling threw, and those marked by a handling
that was cut off; `overwritten` the items whose state a replay or an override has
put; `unanswered` counts the audit documents whose insert threw all the same. What comes to
be the topic is any of `Scripts`, one record at a time (`Produce`); what the service
does itself is `AvailabilityNext`.

**WritePath.** A step is one of `ServiceNext` or one of `AvailabilityNext`; the two
share the variable `topic` and nothing else. The relay's sends take the place of
`Produce`, so the topics are those that menu-service makes and no longer a constant.

**MenuComposition.** `deferred` and `inFlight` are the `CompletableDeferred` and
the map. A response is the pair of versions it was made from, which is all the
properties tell apart. `Lookup`, `Join` (`putIfAbsent`), `Recheck`,
`FetchItems`, `FetchAvailability`, `CachePut`, `CompleteDeferred` and `Leave`
(the finally block) follow `getMenu`; each call may throw, and `CachePut` may
throw after Redis took the value. `served` and `floor` are history.

**WorkerPool.** `loop` is `Run` and `pollAll`, `main` is the signal handling,
and each `worker` a goroutine in `pollVenue`, of the ticker or of a retry
request. `Cancelled(w)` is its context: the loop's, or the request's. Select
statements whose cases are ready together are disjuncts. `late` has the runs whose
publish used up `finalizeCtx`, the five seconds it shares with the last write of
the row. `unrecorded` is history: runs with a store write that failed, or took
effect and reported failure, as any lost answer of Postgres does.

**The browser's modules** share a vocabulary. A query has data (`cache`,
`list`), an error flag (`failed`) and at most one GET under way (`fetch`), which
is answered in one step (`FetchAnswered`, where the server is read) and lands in
another (`FetchLands`). TanStack Query and React Router are libraries: their
rules are taken from how the code uses them and are marked external in the map.
Those rules are: a mount shares a GET under way, `cancelQueries` drops it,
`invalidateQueries` cancels it and starts another if the query is observed - unless
there is no data yet, then the first GET is shared -, `setQueryData` clears the
error and does not stop a GET, a failed GET keeps the data, mutations and GETs
survive the unmount of their component, callbacks given to `mutate` do not, and a
mutation has the callbacks of the latest render of the component that observes it.
A query that nothing on screen observes is dropped after five minutes. That is an
action of `GuidedTour`, where a tick hangs on it; for a list it only means that the
next visit starts with none, as a first visit does, and it is left out. JavaScript runs to completion, so what lies between two
awaits is one action.

**MenuEditor.** `mutation[m]` is a run of `useUpdateItem` or `useReorderItems`:
`calls` are its PUTs, `undo` the compensating ones, `previous` the snapshot of
`onMutate`. `Mutate` is a click with its `onMutate` (only `cancelQueries` is
awaited in it); `ServePut` and `ServeUndo` are menu-service's handling, with a
lost request or answer; `UpdateSucceeds`, `UpdateFails`, `ReorderSucceeds`,
`Compensate` and `ReorderFails` are what follows `allSettled`. `OtherEdit` is
another editor's PUT or DELETE. List, items and GET are those of one venue; `place`
says where the editor is mounted: there, at another venue, or nowhere. `Open` and
`Leave` mount and unmount it, `Switch` is the venue switcher, under which it stays
mounted. `mutation[m].home` says whether the callbacks of a mutation mean this
venue's list by then; if not, its rollback, its answer and its refetch go elsewhere.
`MutateElsewhere` and `EndElsewhere` are the converse, a mutation of another venue
that ends when this one is rendered and puts a list without any of its items there.
Two history variables: `overlapped`, two mutations were pending together, which only
leaving the editor and coming back allows; `strayed`, a rollback has missed this
list, and no GET has replaced it since.

**AvailabilityBoard.** One venue (`Home`) has items, switching to another one
keeps the board mounted. `popovers` are the cells whose popover is open: a press of
the mouse closes the others, the keyboard does not. All cells share one hook, which
follows the PUT it was last given (`Followed`); that one disables the triggers and
is handed new callbacks by a switch. `Poll` is the refetch interval; `Settle` is `onError`
and `onSettled` with the venue that the callbacks have by then
(`mutation[m].venue`). `FireDuplicateDelivery`, `ReplayAnswered` and the refetch
inside it are the panel's handler up to its verdict (`replay`). `Consume` and
`OtherPut` change Redis from outside, for the items in `Contended`. `asOf` (how
many writes a list has seen), `writes`, `mustSee` and `leftOpen` (a button was
pressed with a second popover open) are history.

**FlowGraph, SpanFeed, GuidedTour.** `Reported` are the spans the services
open, one set per service, read off their tracing calls; `FLOW_EDGES` the diagram's table, `HopsOf` the
mapper. In the feed a span waits in `topic`, is stored, broadcast or lost, kept
by the ring buffer and processed by the diagram's effect, which finds the new
ones behind `last`. `Serve` and `RecordWrite` are the two ends of a write:
`apiRequest` sets `lastWrite` when an answer arrives. `PollTrace` is the query
of the last write's trace, `CollectTrace` the query cache that drops it; `Reload` empties all but session storage; `Expire` is
the pairing TTL. `drawn`, `pairs`, `twice` and `reloads` are history.

**VenueSetup.** `Create`, `ServeVenue`, `ServeItem`, `PostFails` and `Finish` are
`useCreateDemoVenue` POST by POST; `Pick` the switcher, `Follow` a link of
the navigation, `GoBack` history or a bookmark, `Reload` reads the local storage
again. `Header` and `Target` are `resolveVenueId` and what the links make of it.
`Stale` is a venue id remembered from a database that was reset. `Fetch` and
`Share` are the two things an `Invalidate` can do. `by`, `crossed` and `missed` are
history: what led to the route, whether an old GET of the items landed after the
seed, and the venues that a shared first GET of the list does not have.

The `...TypeOK` definitions say what values each variable takes. `RepositoryTypeOK`
is in a run; the others document the modules and are proved, or parts of the proved
invariants, where there is a proof.

## 3. What is checked

Runs that pass (states are those of the listed bounds):

| Run | Question | Bounds |
|---|---|---|
| `repository` | Do items and outbox agree, is no update lost, do ids follow versions, does a delete stay last, are replies honest? | 3 requests at once on 1 item, versions to 2, 4 outbox ids, READ COMMITTED |
| `service` | Is nothing marked that was not sent, do two instances meet only past an overrun lease, does the service implement `MenuEvents`, does every write arrive? | 1 request at a time on 1 item, versions to 1, 2 outbox ids, 2 relay instances, 2 faults, REPEATABLE READ; 112,000 states |
| `write_path` | In which order do events appear, and does the availability of an item follow its row? | 1 request at a time on 1 item, versions to 2, 3 outbox ids, 1 relay, 1 fault of it, 1 crash of the consumer, REPEATABLE READ; 2.4 million states |
| `consumer_safety` | At most once, nothing unexplained lost, order kept by the loop, the newest version shown at rest, every record processed or known to have thrown? | 3 records of 1 item, the last one the repetition of the first, any 2 faults of 8 kinds, 1 replay, overrides, chaos panel; 1.4 million states |
| `composition` | Single flight, led waiters, no older answer, every request answered? | 3 requests, 1 venue, 1 upstream change of either service, unbounded expiry, failures, restarts |
| `pool_safety` | Do rows and topics agree, are interrupted runs finished? | 3 goroutines, 1 slot, 2 venues, 1 attempt, 1 retry request, failures of store and Kafka, a shutdown that may run out of time; 4.5 million states |
| `pool_live` | Do all polls and the shutdown end? | 2 goroutines, 1 slot, 1 venue, 2 attempts, 2 rounds of the ticker, 1 retry request whose client may go; 41,000 states |
| `menu_editor` | Does a version stand for a row, is a failed reorder put back, does a PUT change only its field? | 2 items, 2 prices, 2 mutations, 1 write by another editor, 2 visits to this venue, others before the last; 2.6 million states |
| `availability_board` | Is a board at rest an answer of the server, is there one PUT at a time, has a "changed" verdict a cause, does the board converge? | 2 items, one of them written by others too, 2 venues, 2 states, 2 PUTs, 2 other acts; 1.4 million states |
| `guided_tour` | Does each span pulse once, are gaps paired, ticks earned, kept and found again? | a price edit and an item sold out, buffer of 2, 1 act (move, reload, replay or repeated record), collections of the trace; 379,000 states |
| `venue_setup` | Is what was created there, do links lead to venues, do header and screen agree? | no venue at first and a stale remembered one, 2 ids to give out, 2 creations of 1 item each, unbounded moves and reloads; 990,000 states |

Why the bounds are enough. *Repository*: each conflict is between two
transactions on one row; the third is one that begins or ends in between, and
two versions let a create, an update and a delete follow each other. The proofs
remove the bounds. *Service*: two instances and two faults allow a row to be
sent, lose its mark, be reclaimed by the other instance and fail again, beside a
second row that requests commit meanwhile; that requests cross each other is
`repository`'s matter. *Write path*: three versions are a create, an update and a
delete, of which the relay repeats one behind the next, and the consumer restarts
anywhere between them; what else its calls can do wrong is `consumer_safety`'s
matter. *Consumer*: any two faults
together reach every pair of the compensation's failure modes, and the repetition of
an old event behind a newer one is what a relay's retry gives. *Composition*: a
leader, a waiter and a latecomer; one change gives two ages of data. *Pool*: one
slot makes every acquisition contended; the worker set has to hold
`MaxConcurrency` polls and every request that queues, so a smaller set cuts
behaviours off but adds none; what ends a run is the same behind one attempt and
behind several, and these, with the backoff between them and the client that goes,
are in `pool_live`. *Editor*: a reorder
of two items is two PUTs, one of which can fail, and two mutations with a visit
between them are the least that can overlap; a third row adds no kind of
conflict; a visit elsewhere and back is enough for a rollback to miss the list and
for another venue's to hit it. *Board*: two PUTs, or one beside a menu event and a replay, give every
pair of writers around one poll; two cells are what two popovers need, and one item
for the other writers is enough, since only the age of a list is compared.
*Tour*: the buffer holds two of four spans, so it is full and overflows; two
writes make a last one and another. *Venues*: two creations can cross in the
list; a menu that is there and not whole is one with none of its items here, and
with two items the same run has 3.2 million states, takes three times as long and
passes as well; ids are interchangeable, so symmetry is sound, and the
run has invariants only.

Deadlock is not checked in runs whose bounds let the system stop (no request or
row left, a pool that has exited, a browser in which all bounded acts are
spent); that nobody waits for ever is stated by the liveness properties instead.
`venue_setup` checks it.

Every property was also run against a variant of the code it must catch;
`PROJECT.json` lists the pairs under `mutants`.

### Fairness

* Service: a relay instance keeps taking steps (the poll loop catches every exception)
  and time passes, so leases expire. Faults are finitely many; without that
  nothing could be promised.
* Consumer: the coroutine of the loop goes on. No fairness for producing records,
  crashing, pausing, overriding or the handler of a replay. A failed
  `commitSync` ends the loop's coroutine for good: `EveryRecordProcessed` speaks
  of behaviours in which the loop is not ended that way.
* Composition: a coroutine goes on, and each call it makes has a timeout, after
  which it throws. Nothing forces caches to expire or requests to come.
* Pool: goroutines run and every call returns (weak fairness): HTTP calls, publishes
  and the last write have timeouts; the INSERT of a run has none of its own, it
  returns because Postgres answers or the connection breaks. A blocked
  channel send is served in FIFO order by the Go runtime, and a select chooses
  at random among ready cases, so taking a slot is strongly fair.
* Board: the refetch interval fires and answers are handled (weak fairness),
  which assumes a window that keeps the focus; a GET is answered again and again
  rather than failing for ever (strong fairness, since a failure disables it); a
  PUT ends in an answer or an error. Nothing forces clicks, events or faults.
  `BoardConverges` only speaks of behaviours in which the venue stays selected
  and Redis stays reachable in the end.
* Tour: the poll of the trace goes on while the tour is on screen;
  `refetchIntervalInBackground` is set there, so the focus does not matter. No
  fairness for spans to arrive.
* Repository, write path, editor and venues: none, they have safety properties only.

### Where the code does not do what it says

One run finds a violation of a statement of the repository:

* `consumer_lost` - a batch with a failed record is not committed, but the
  consumer is not moved back either. The next clean batch commits past the
  failed record, which is never redelivered, against the comment at
  `MenuEventConsumer.kt:84-87`. Only a restart before that commit redelivers it.

In the services' models there are further disagreements, each of which a passing
property names as an exception:

* The event id is committed before the Redis and Mongo writes and only an
  exception undoes it; a crash in between leaves the event processed with no
  state ever written, which `MenuEventConsumer.kt:147-150` means to rule out
  (`ProcessedMeansApplied`, events in `interrupted`).
* An idempotency insert that is committed but not answered is repeated and taken
  for a duplicate (`IdempotencyStore.kt:36-41` says it would be redelivered;
  the same property). In both cases `NewestIsShown` says that the loss is that
  event's: later ones of the item are applied and shown.
* An audit insert that takes effect and throws (`MongoAuditStore.kt:24`, no unique
  index on the event id) is followed by the unmark
  (`MenuEventConsumer.kt:151-163`), and the event's next handling adds a second
  document (`AppliedAtMostOnce` counts documents whose insert was answered).
* A duplicate-delivery request that overtakes the loop is accepted
  (`MenuEventConsumer.kt:103-107` says never; `LoopKeepsOrder` is about the loop).
* `PUT .../availability` reads the version and writes the state in two calls, so
  it can put back the version from before an event that was applied in between
  (`AvailabilityRoutes.kt:52-60`). Nothing decides anything by that version.
* A signal during the INSERT of a run may leave the row at `running` although the
  shutdown waited for everything (`pool.go:37-39`; `InterruptedRunsFinish`, runs
  in `unrecorded`). So may any lost answer of Postgres to that INSERT.
* A Kafka that does not answer uses up the five seconds that publish and last write
  share (`pool.go:206`), and the row stays at `running` with a healthy Postgres,
  which `pool.go:199-205` means to rule out (the same property, runs in `late`).

And in the browser's:

* A PUT of a reorder that was served and whose answer is lost counts as failed
  and is not compensated: the order stays half changed
  (`api/queries/menu.ts:69-71` says every row that succeeded is put back;
  `FailedReorderIsUndone` is about answered PUTs).
* A venue switched under a pending PUT makes its rollback and its refetch go to
  the other venue's list (`api/queries/availability.ts:71-75`); the first venue
  shows the optimistic row until its next poll (`QuietBoardIsAnAnswer` asks for
  what settled on screen, `BoardConverges` for the end).
* The menu editor does the same (`api/queries/menu.ts:53-61` and `:156-163`), and does
  not poll: the first venue's list keeps the optimistic row under the server's
  version until its next GET, and a PUT of the whole row in between would carry it
  on (`SameVersionSameRow` and `UntouchedFieldsKept` except lists that are
  `strayed`); the other venue's list is replaced by this one's until it is fetched.
* With the keyboard the popovers of two cells can be open
  (`AvailabilityCell.tsx:18`, `Popover.tsx:51-60`), and the second one's buttons work
  while the first one's PUT is pending: two PUTs run side by side
  (`OneWriteAtATime` names this way, and no other).
* The trace of the last write is dropped five minutes after the tour left the screen
  (`api/queries/traces.ts:35-48` sets no `gcTime`); if its spans have left the buffer
  by then, its ticks are gone on return until the poll has it again (`TicksStay`;
  `TicksComeBack` for the return).
* A creation that ends while the first GET of the venue list is still on its way
  shares that GET (`api/queries/venues.ts:77`; the form is shown while the list loads,
  `VenueSetupCard.tsx:30`), and if it was answered before, the list lacks the new
  venue until it is fetched again (`CreatedIsThere`, venues in `missed`).
* `flowGraph.ts:169-171` says that storefront-api sends no CORS headers; it installs
  CORS (`Application.kt:70-81` of storefront-api). The mapper credits its requests to another
  client either way, and no call of merchant-web goes there.
* The panel calls a refused replay a change of state when a poll, an event or an
  optimistic row lies between its two looks, and unchanged when the refetch
  failed (`ChaosPanel.tsx:80-85`); `ChangedVerdictHasCause` lists the causes.
* A diagram that is mounted with a full buffer pulses all of it, which the legend
  calls "a real span just arrived" (`FlowDiagram.tsx:207`).
* A record whose insert fails is skipped and not read again, although
  `SpanConsumer.kt:50` logs that the next poll will retry it.
* A creation of which some POST fails leaves a venue with part of its menu that
  is not in the list before the next GET, and retrying makes another
  (`api/queries/venues.ts:58-81`).

## 4. What is proved

Eight modules hold proofs. TLAPS checks them for every value of the constants
that satisfies the named assumptions, so for any number of items, requests, relay
instances, records, venues, mutations, faults and so on. They have one shape: the
wanted property is not inductive, a conjunction of named parts is; one lemma per
action, or group of actions that touch the same state, shows that it is kept, and
the theorems follow from it.

* **`MenuServiceProofs`, the repository** - `TypeCorrect`, `OutboxIsFaithful`
  (`OutboxMatchesItems`), `EventsAreOrdered` (`IdsFollowVersions`), `NoLostUpdate`
  (`RepliesAreHonest`) and `HistoryIsLinear` (`ItemHistoryProperty`), under both
  isolation levels and from the assumption `ObservedVersions`: a client only sends
  versions a response has shown it. The assumption is needed. With a guessed
  version, under READ COMMITTED, the UPDATE can match a version that another
  transaction has just committed while the version written is computed from the
  older SELECT, and two events get the same version. `RepositoryInv` adds what each
  transaction in flight knows of its row (`RequestInv`, `SelectedInv`,
  `ConflictInv`), that an uncommitted write is the next one of its row and alone on
  it (`WrittenInv`, `LockInv`), that its event comes after all committed ones
  (`OutboxIdInv`), and that the tables agree (`TableInv`). `LockInv` is what carries
  it: the row lock makes the version read, which no lock protected, current again
  at the UPDATE.
* **The relay** - `NothingIsSkipped` (`PublishedWasSent`) and `LeaseSeparates`
  (`OneClaimant`), for any number of instances and faults, while requests commit
  rows; the repository is needed for one thing, that a new row has a new id.
  `ClaimedInv` says that what an instance works on is a row, `AckedInv` that it only
  goes on to the mark when the topic has its event, `HeldInv` that a row being
  published keeps its claim until its lease is overrun.
* **Both together** - `WritesBecomeEvents`: `MenuService` implements `MenuEvents`
  (`ImplementsMenuEvents`), a commit being a write, the acknowledged or timed-out
  send of a row a publish and everything else a stutter. The abstract guard asks for an event that belongs to
  the history of its item, which is `ServiceInv`: every row a relay can hold is one
  of `RepositoryInv`. `EventsFollowVersions` (`PublishedInOrder`) holds for one
  instance (`OneRelay`; the deployment has one) and needs `OrderInv`: the row being
  worked on was the lowest claimable one when it was locked, and stays so because
  the ids of an item's later rows are larger although ids are drawn before the
  commit. A row that is passed by carries a claim, and unless it was sent the claim
  is one that was given up.
* **The write path** - `MenuReachesAvailability` (`AvailabilityFollowsMenu`), for one
  instance again and any number of items, requests, events, faults on either side,
  replays and overrides. `PathInv` puts the invariants of both services side by side
  and adds that ids stay within those the consumer's proofs are told of
  (`IdBoundInv`) and that the event of a row's present version is a delete exactly
  when the row is deleted (`DeletedInv`). The consumer's proofs are taken over whole,
  by instantiation: a step of menu-service is to the consumer a record produced or a
  stutter (`ServiceStepSeen`), and its invariant (`RestInv`) is kept by both. What
  those proofs had to assume of a topic, `InOrder`, follows here from what the relay
  does (`TopicInOrder`); and every version of a row is in the topic, the newest last
  or repeated (`NewestEvent`), so what is shown at rest is the row.
* **`MenuEventConsumerProofs`** - `AppliedOnce` (`AppliedAtMostOnce`),
  `MarkedMeansApplied` (`ProcessedMeansApplied`) and `PassesOverOnlyThrown`
  (`PassedOverOnlyIfThrown`), for any topics and any number of faults, replays and
  overrides. `MarkInv` and `ExclusiveInv` say that behind a mark without its
  audit document stands exactly one handling, so the delete that compensates a
  failure never takes away the mark of another one - documents whose insert threw
  not counted, since their handling goes on to that delete; `SettledInv` says that the
  loop leaves only events behind that were processed or have thrown.
  `TheLoopNeverGoesBack` (`LoopKeepsOrder`) and `RestIsNewest` (`NewestIsShown`) speak
  of the items whose events come in order in the topic, or late as the repetition of
  an earlier one (`InOrder`; the event of a row that the relay gave up and that was
  overtaken is neither, and then a late event does take the item back).
  `BegunInv` carries the first: everything in Redis, in an override or replay under
  way and in `ChaosState.lastEvent` comes from a record the loop has come to, and it
  comes to one only when it is done with those before. "Done" has to leave out the
  event between its mark and its put, which makes it monotone. `ShownInv` is the
  second (`RestInvariance`, for all three together): an applied event is shown, or one of its item that is not older. At rest
  `SettledInv` makes every event of the item an applied one, and what is shown is
  then the newest.
* **`MenuCompositionProofs`** - `NoStampede` (`SingleFlight`) and
  `NobodyIsStranded` (`WaitersAreLed`). `FlightInv` and `LeaderInv` tie the map
  to the leaders in both directions, `CacheInv` says that nobody fetches what is
  cached (the reason for the second look-up behind `putIfAbsent`).
  `StorefrontNeverGoesBack` (`NeverOlder`) needs `AgeInv`: what the cache holds and
  what a leader can still give covers everything given for that venue
  (`ForwardInv`), since no one else fills the cache while a leader is in the map
  (`AgreeInv`).
* **`WorkerPoolProofs`** - `PoolIsTyped`, which includes that no slot is given back
  that was not taken and that the WaitGroup stays above zero, `OutcomesAreTrue`
  (`OutcomesMatchTopics`) and `ShutdownFinishesRuns` (`InterruptedRunsFinish`), for
  any number of goroutines, venues, slots and attempts. `SlotInv` and `WaitInv` are
  the counts: slots taken are the polls at work and the one the loop carries, the
  WaitGroup counts the ticker's polls only. `OwnerInv`, `TopicInv` and `OpenInv` tie
  an open run to the one poll that owns it, to a failed store write or to a publish
  that left no time for it, and `ShutdownInv` gives the order: HTTP
  requests end before the wait, polls before the exit.
* **`MenuEditorProofs`** - `VersionIsTheRow` (`SameVersionSameRow`),
  `ReordersAreUndone` (`FailedReorderIsUndone`) and `PutsChangeOneField`
  (`UntouchedFieldsKept`), for any number of items, mutations and other editors.
  The argument is one notion, `Genuine`: a copy of a row that has the server's
  version is the server's row, and none is ahead of it. Answers (`AnswersInv`), the
  snapshot to go back to (`PreviousInv`) and the cache (`CacheInv`) hold genuine
  rows only, but for the optimistic row of a PUT that has not succeeded;
  `PendingInv` says that a PUT is the snapshot's row with one field changed, and
  `UndoInv` follows a compensation row by row. All of it needs the exceptions of two
  mutations side by side (`overlapped`) and of a list that a rollback has missed
  (`strayed`), which the properties name. A venue switch costs no other: an answer
  that goes elsewhere leaves a row of an older version here, a list that comes from
  elsewhere has none of the items, and a GET heals both.
* **`AvailabilityBoardProofs`** - `NoTwoWrites` (`OneWriteAtATime`), `RestIsRecent`
  (`QuietBoardIsAnAnswer`) and `VerdictsHaveACause` (`ChangedVerdictHasCause`).
  `RecentInv` says that what the cache misses is on its way or will be asked for
  when a PUT settles, `PopoverInv` that popovers are open on a board that shows rows
  only, `WriteInv` that, unless a button was pressed with a second popover open, the
  board's hook follows every PUT of the board and none is pending under an open
  popover (nothing disables its buttons), and `SameAgeInv` that two lists that have
  seen the same number of writes are the same list; the verdict follows from it.
* **`GuidedTourProofs`** - first `EveryHopIsDrawn`, `HopsRideForwards`,
  `LabelsAreOfOneHop` and `EveryEdgeHasASpan` about the constant tables of
  `FlowGraph`: the mapper's hops and the diagram's edges, kept by hand in different
  files, fit each other and the spans that the services report. Then
  `SpansAreDrawnOnce` (`DrawnOncePerArrival`), `TicksAreEarned` (`StepsAreEarned`)
  and `TicksAreKept` (`TicksStay`, with its four causes), for any writes, reports, buffer size and number
  of acts. `Sound` says that every span that waits, is stored, buffered or in a
  polled trace is one that some service reported of a write it was sent, and that
  the last write was answered. `Tracked` says that, while no record was read twice,
  the buffer has no span twice and the pulsed ones are those up to `last` - none of
  them, once `last` has fallen out. That last case carries the proof: the effect
  then takes the whole buffer for new, and rightly. `GapsHaveAPublish`
  (`GapsArePaired`) and `TourIsTyped` (`TourTypeOK`) are about the loop over the new
  spans, which `MemoryAfter` models as a recursive function: `RememberKeepsPairs` is
  one turn of it, `LoopKeepsPairs` the loop by induction on the number of spans it
  has gone through. The induction is a least counterexample (`LeastElement`, from
  the well-foundedness of the naturals), and `RecursionExists` shows that the
  recursion defines a function. `BroadcastKeepsBound` is the buffer that drops its
  oldest span and never outgrows its size.
* **`VenueSetupProofs`** - `CreationsAreThere` (`CreatedIsThere`), `NoDeadLinks`
  (`LinksLeadSomewhere`) and `HeaderIsTheScreen` (`HeaderAgreesWithScreen`).
  `ServedInv` says that the page knows venues of menu-service only, `ListInv` and
  `MenuInv` that an older answer under way is replaced by a later one when a
  creation ends, unless it is the first of the list (`missed`), and `ChoiceInv` that a chosen route names the choice.

What the assumptions on constants ask for, beyond the types and signs of bounds:
the markers of the browser's modules (`None`, `Loading`, `Gone`) are none of the
values they stand beside, as `null` and `undefined` are none of the rows;
`Worker` is finite, as goroutines are. Two hypotheses are added by the theorems that
need them and explained above: `ObservedVersions` and `OneRelay`. The runs
`repository`, `service` and `write_path` have the first as a constant, and
`write_path` has one relay.

Every safety invariant and action property of the runs is stated by a theorem.
Only model-checked are the liveness properties (`EveryWritePublished`,
`EveryRecordProcessed`, `EveryRequestEnds`, `EveryPollEnds`, `ShutdownEnds`,
`BoardConverges`, `TicksComeBack`): the prover has no fairness and no ENABLED.

## 5. Not modelled, and why

* trace-collector's Kafka lag: two reads at different times and a clamped
  difference, which only a display uses. Its poll loop's offsets are left out too:
  `SpanFeed` has a record stored, skipped or read twice.
* tracing-core, but for the spans the services report (`FlowGraph`, `SpanFeed`):
  contexts, parents and metrics change no business state.
* merchant-web's screens for sync runs, health and traces show what one query
  returns. One text there is not what the code does: runs are said to be polled
  and to appear on their own (`SyncStatus.tsx:35`, `:75`), but `useSyncRuns` sets no
  refetch interval. Geometry, animation and wording of all screens are left out,
  and so is the text of a price draft.
* The tour's steps `venue`, `trace` and `chaos` read one flag each. The fallback of
  `RequireVenue` is never rendered: no route leads to it without a venue.
* `AvailabilityBoard` says that it defaults to in stock (`AvailabilityBoard.tsx:38-40`)
  and shows "unknown"; what a cell reads is wording.
* Several tabs of one browser: local storage is read at load only.
* A POST that is served twice: the browser does not repeat one.
* The length of backoffs, token-bucket timing, price parsing and the producer's
  partition hand-over in pos-ingest: planned as algorithms.
* Unknown providers (`providers[venue.Provider]` missing) and `POS_MAX_RETRIES`
  below 1: configuration errors; the pool assumes at least one attempt.
* A JVM `Error` in a storefront leader would free the map entry and not its
  waiters; the model has exceptions only.
* More than one storefront or consumer process: the deployment runs one of each
  (`replicas: 1`).

## 6. Plan

Done: repository, relay and consumer, their compositions and the refinement;
storefront and pool; the browser's editor, board, chaos panel, span stream,
diagram, tour and venues; the proofs of section 4, which cover every safety
property of the runs that pass.

Next, in this order:

1. *Storefront end*: `WritePath` with `MenuComposition` behind it, so that a cached
   menu is one that the two services have had.
2. *Algorithms*: backoff with its 64-bit shift, price parsing of both providers
   against a reference definition, the producer's hand-over.
3. *Kafka lag* and the tour's remaining steps.
