# A verification project for difunde-colombia

TLA+ models of the parts of *difunde-colombia* whose correctness depends on the
order of events: the Go server (`internal/server`, `internal/store`,
`internal/push`) and the pages that talk to it (`web/*.js`). TLC checks each model
on small instances; TLAPS proves the theorems listed below for every value of the
constants. `PROJECT.json` holds, for every definition, the source lines it
translates; this file explains how they fit.

## 1. The system

One Go process (`cmd/server`) serves a PWA and a JSON API on top of a
PostgreSQL/PostGIS database. Redeployments may run two processes for a moment.
Importers (`cmd/server import*`) are separate processes on the same database.
Visitors' browsers are part of the system: they hold copies, queues and
subscriptions, and they decide what a request carries.

| Component | State | Operations | Interacts with |
|---|---|---|---|
| Response cache (`server/cache.go`, `serveCachedJSON`) | a map key → body with an expiry, under a RWMutex | `get`, `set` with eviction, `clear` | every GET handler fills it, every writing handler clears it, importers cannot |
| Humanitarian resources (`handleReport`, `handleUpdateResource*`, `handleModerateResource`, `handleAdmin*Resource`, `PGStore`, `map.js`, `admin.js`) | tables `resources`, `resource_validations`; each browser's and each panel's copy | report, owner edit, vote, counter update, moderate, admin create and edit, list | cache (clears it), rate limiter |
| Seismic alerts (`sismoPollLoop`, `notifySismos`, `push.go`, `handlePush*`, `initSismoAlerts`) | tables `sismo_events`, `push_subscriptions`; the loop's `first`; goroutines; each browser's endpoint | poll, insert, announce, send, delete; subscribe, unsubscribe | the SGC service, the push service, VAPID keys |
| Measurement delivery (`app.js`, `handleObserve`, `handleUpdate`, `handleSync`) | IndexedDB store `pending`, requests in flight, table `observations` | measure, post, queue, sync, answer | validation, rate limiter, cache |
| Limits, client address and fingerprints (`Server.allow`, `clientip/ip.go`, `middleware.go`, `cache.go`) | two maps with windows and limits | find the address, count the device, count the request | all POST handlers |
| VAPID keys (`push.go LoadKeys`) | two rows of `app_settings` | load or generate | seismic alerts |
| Migrations (`db/migrate.go`) | table `schema_migrations` and the schema | apply | every start of a server or importer |
| Importers (`internal/importer`) | official tables, tables of the coverage synthesis and its meta row | truncate and reload, upsert | migrations, readers of coverage |
| Measurements and their history (`ValidatePayload`, `UpdateObservation`, `ObservationHistory`, `admin.js`) | table `observations`; the panel's page | insert, late answer, read page by page | measurement delivery |
| Aggregation and classification (`state/classify.go`, `observe/stats.go`, `/cells`) | none of its own | medians, state, confidence | table `observations` |
| ASN and operators (`asn/resolver.go`, `observe/operator.go`) | sorted ranges and a map, read at start | load, lookup, normalise a name | `handleObserve` |
| Earthquake proxy (`handleSismosProxy`) | one body with its key and expiry | fetch page by page, serve | the SGC service |
| Official coverage (`coverage/catalog.go`, `/coverage*`) | catalogue read at start, official tables | filter, look up, overlays | response cache, importers, map |
| Lists and counts of resources (`handleResources`, `ResourceCounts`) | none of its own | list, count | table `resources` |
| The two stores (`store/mem.go`, `store/pg.go`) | the same tables, in memory and in the database | every call of the interface `Store`, of which the writing ones are modelled | the handlers' tests run on one, the service on the other |
| Map (`map.js`) | layers, what was asked and what is loaded, timers, an abort controller | move, filter, select, refresh, answers | `/cells`, `/coverage/overlays` |
| Service worker (`sw.js`) | versioned caches | install, activate, fetch | deploys |
| Configuration, scrapers, layout of the pages | none, or read once | rendering, batch input and output | – |

### What is hard here

* **No lock or transaction spans a handler.** A cache fill reads the store and
  installs the body later; `UpdateResourceDetails` is a SELECT and an UPDATE; an
  owner's edit reads, merges and writes back; `updateQueued` and `syncPending` use
  several IndexedDB transactions. Everything in between interleaves.
* **Clients send absolute values from copies of any age** (vote counts, the
  panel's form).
* **Several processes share one database**: two servers poll the same catalogue
  during a deploy, importers write under a running server.
* **Answers are lost and requests arrive late**: a POST that timed out in the page
  may be stored all the same; a push that timed out may have been delivered.
* **Time is read before a lock is taken**, and locks are not held during a fetch:
  goroutines act on a clock, or install an answer, older than what came since.
* **Pages are read with an offset** from a table that grows, newest first.
* **Steps fail half way**: an insert loop, a seeding cycle, a vote that is recorded
  and not counted, a batch with an invalid item.

The list of hazards, each at its line and with the properties about it, is in
`PROJECT.json` under `hazards`.

### What makes each component correct

* *Cache*: bounded; never older than a key's TTL; a writer reads its own write, but
  for the one race the code leaves open (a fill across a `clear`), which expiry heals.
* *Resources*: votes raise a count by no more than the people who voted; nothing an owner writes is
  public before an admin acts again; a report keeps its owner.
* *Alerts*: an event is announced at most once and reaches a subscription at most
  once, across servers and restarts; an active subscription stays stored; the loop
  and its notifiers make progress.
* *Delivery*: a measurement promised to the visitor is not lost; one confirmed with
  an id is not stored twice; the queue empties.
* *Limits*: a visitor is refused only for his own requests of the last window, and a burst
  passes less than twice the limit; a new device is turned away only by a real crowd.
* *VAPID keys, migrations*: a crash between two statements, or two processes that
  migrate at once, leave a schema that the next start completes; no server serves
  before it is complete; all browsers, for ever, get one public key; what visitors
  wrote is not truncated.
* *Importers*: the tables hold one load; the Report that the operator reads, and the
  meta row that `/coverage/status` shows, are true of them.
* *Classification*: one measurement, however bad, does not condemn a zone.
* *Operators*: an answer comes from the nearest range that holds the address; the operator
  stored with a measurement can be explained by what the network and the visitor said.
* *History*: who pages to the end has seen all that matched all along.
* *Proxy, coverage, counts*: an answer is one to the question that was asked, and complete
  where the code's limits allow.
* *Stores*: the calls that write return the same on both and leave the same rows, but for four
  differences.
* *Map*: what is shown is what the visitor's last action asked for.

## 2. The modules

| Module | Models | Kind |
|---|---|---|
| `ResponseCache` | the cache and `serveCachedJSON` around it | component |
| `Resources` | the resource handlers, their store and their clients | component |
| `AlertLedger` | what the alerts promise | abstract specification |
| `SismoPush` | poll loop, notifiers, push service, browsers | component, implements `AlertLedger` |
| `OfflineQueue` | measurement pages, queue, batches, handlers | component |
| `Startup` | how a process starts: migrations, then the VAPID keys | component |
| `Deployment` | the importers, on the database that `Startup` prepares | composition, extends `Startup` |
| `RequestGate` | `Server.allow`: address, devices, rate limit | component |
| `Operators` | `NormalizeOperator` | operators |
| `OperatorLookup` | the table of ranges and that of operators | component, uses `Operators` |
| `Observations` | measurements, late answers, the panel's history | component, uses `Operators` |
| `CellState` | what the map says of a cell | component |
| `SismoProxy` | `handleSismosProxy` and the catalogue it reads | component |
| `CoverageQueries` | `/coverage`, `/coverage/overlays`, the catalogue | component |
| `ResourceCounts` | list and counts while reports are moderated | component |
| `Stores` | the writing calls of `MemStore` and `PGStore`, one by one | component |
| `MapPage` | cells and layer of coverage of `map.js` | component |
| `MCServer` | the last nine, side by side | instance |
| `MC…` | instances for TLC: constants, symmetry | |
| `ResponseCacheProofs`, `ResourcesProofs`, `SismoPushProofs`, `OfflineQueueProofs`, `StartupProofs`, `DeploymentProofs`, `RequestGateProofs`, `MapPageProofs` | theorems | proofs |

A comment that begins with "Mutant:" marks an operator that breaks the definition after
it the way a plausible mistake would; each property is known to fail with one of them.

### ResponseCache

A body is the version of the store it was rendered from. `Lookup` is the locked part of
`get()`, `CheckExpiry` the test after the unlock, `Compute` and `Build` the callback and
`cacheEntry`, `Install` is `set()` with its eviction, `Finish` the answer. `Write` and
`Invalidate` are a handler's commit and its `invalidateCaches()`; `ExternalWrite` is an
importer. Time is relative: an entry carries its remaining life and `Tick` takes one
unit from each, so no clock needs a bound. `age`, `raced`, `since` and `acked` are history
variables. The eviction takes *every* entry when nothing has expired, as the
code does. Abstracted: key strings, ETags, the response bytes.

### Resources

`res` is the table, `votes` the unique index on (resource, fingerprint), `hd` the requests
with more than one store call, `seen` and `panel` what browsers and panels hold.
One action per store call: `EditRead`/`EditWrite`, `VoteInsert` (or `HelpStart` for a counter
that is not a vote), `DetailsSelect`/`DetailsUpdate`, and the failures of each. The server checks no
value of a counter: a vote is made by the page (`PageVotes`), which sends its copy plus one, or by another
client (`ClientVotes`), which sends any value; `HelpStart` is anybody's; a report may come with any count. What
was ever claimed outright for a row, by its creation or by such a client, is in the history variable
`claimed`; the rows of migration 0006 start with claims of their own (`SeedTables`). That the page
remembers its vote in `localStorage` is not relied upon: a private window does not. The store is
`PGStore`; module `Stores` compares it with `MemStore`. What a resource
says is kept twice, in the row (`name`) and in the details document (`desc`), because
different statements write them. Of the four counters the model keeps one that
is a vote and one that is not. Abstracted: field validation, proof of work, rate
limits, geometry.

### SismoPush and AlertLedger

`poll` is each server's loop with its `first`, `jobs` the `notifySismos` goroutines, `client`
what each browser knows of its endpoint, `posts` and `unposts` requests on their way.
Inserts are one statement at a time; `InsertFails` forgets what the earlier ones inserted, as
`pollSismosOnce` does. `Start` and `Stop` make restarts and crashes. A browser that subscribes
anew has a new endpoint. `AlertLedger` says what an event can come to: unknown, recorded, then
announced or silent for ever, and delivered at most once per subscription; `SismoPush`
implements it under the mapping `Fate`. Abstracted: texts, times; a magnitude is either
strong or not. With `PUSH_ENABLED=false` nothing of this runs.

### OfflineQueue

A page load makes one measurement. `flight` and `updates` are requests that no handler has
taken; a page may have given them up. `queue` is IndexedDB: each transaction is a step, and
`UpdateRead`/`UpdatePut`, `SyncRead`/`SyncDelete` are the pairs of transactions of `updateQueued`
and `syncPending`. `verdict` is what `ValidatePayload` says of a payload: `Measure` builds
one that is accepted or one that is refused (accuracy above 10 km, clock ahead), `CatchUp` ends the
refusal of an early one, `Expire` makes a measurement older than thirty days. `HandleObserve` takes the
first kind only (the 400 is among `ObserveFails`); `HandleSync` leaves out what is refused, for any reason,
and inserts the rest together. `skipped` is history.

### Startup and Deployment

`proc` says where each process is: `read` to `register` are `Migrator.Apply`, `getpub` to `setpriv`
the calls of `LoadKeys`, then a server is `up` and an importer goes on with its `import`. There
is one action per call to the database. `ReadVersions` has both outcomes of the SELECT, since the
code takes an error for an empty answer. A migration is a sequence of statements of which
the model keeps what matters to the table `resources`: a `seed` inserts rows, a `wipe` truncates (0006),
a `reference` creates the table whose foreign key makes that TRUNCATE fail from then on (0008); the
statements of a file are steps of their own, as the code wraps them in no transaction. `Exit` is
an error, a signal or a crash, before or after the effect of the statement at hand. `Init` is a
database of any earlier release. `interrupted` and `served` are history variables; rows are
counted up to two. Servers start one after another, since `docker-compose.yml` runs one (an older
one may still serve); an importer may migrate meanwhile, as its first lines tell the operator to start
it in the running container.

`Deployment` adds `imp`, the place of each importer in its files and batches. `LoadBatch` is one
INSERT or COPY, `BatchFails` one that fails, with its rows stored or not; a file of OpenCellID then
goes on with its next batch, others end with their error in the Report. `TruncateSynthesis`, `LoadPart`
and `PutMeta` are `ImportSynthesis`. Abstracted: what rows say, parsing, which files `classify` knows,
keys given in the environment (nothing is stored then) and `PUSH_ENABLED=false`. Left out:
`load-mapping`, a loop of independent upserts.

### RequestGate

`gate` holds the request of each goroutine. `Arrive` computes `ClientIP` from what the visitor's network
and the trusted proxies may write (`Envelopes`); it and `ReadClock` read the clock, and `Track` and the
three outcomes of `rateLimiter.allow` take their mutex in later steps: the time they count with may be
old by then. `admitted` and
`recorded` are history. A browser keeps its cookie during a behaviour. `rateLimiter.cleanup`
(middleware.go:214-223) is called by nobody, so the model has no such step, and the maps grow.

### Operators and OperatorLookup

A name is the set of the words the code looks for in it. `OperatorLookup` reads both files row by row,
sorts with any order of equal starts (`sort.Slice` is not stable), and searches as `sort.Search` does.

### Observations

`table` is fed by one measurement, by a batch, and by late answers (`UpdateObservation`'s COALESCE);
`scan` is an administrator who pages through the history with a filter. Time stands still at `Now`,
and `Payloads` has times on both sides of what `ValidatePayload` accepts.

### CellState

Measurements enter one cell; `ShowCell` is `Cells` and `Classify` for it. The database's median of an
even number is the mean of two, so the model keeps the double and multiplies the thresholds. Numbers
and sums are sizes of sets (`Copies` has one pair for each measurement, `Hundredths` one for each
hundredth of its success), which TLC evaluates and the provers can reason about; a fold is neither
shorter nor provable.

### SismoProxy

`caller` is a goroutine between `Ask` (the mutex and the slot), its fetches page by page outside the
mutex, and the second taking of the mutex; `catalogue` grows at any time. What a fetch has is a set
of findings, an event with the page it was on: an event that slides while the pages are read is found
twice, and takes two places of the cut. `FirstOf` is any list the sort, which is not stable, may leave
after the cut. Distances are places within a radius, and a radius prints, in the key, without decimals.

### CoverageQueries, ResourceCounts

`CoverageQueries` keeps letter case, since the cache key drops it and the query does not; `official`
and `catalog` are any part of what an import and the start could load, and a list of rows is the set
of their places in the table. `ResourceCounts` has the two
queries of the counts as two steps, with reports and moderation in between.

### Stores

`mem` and `pg` are the two stores, and every action makes one call that writes of both; `results` is what
they returned. Subscriptions, which no caller wants in an order, are a device for each endpoint. `StoresAgree`
says that the two returned the same and hold the same rows, and names four differences. The calls that
read are not modelled, so it says nothing of what they make of those rows; section 6 lists where they differ.

### MapPage

`cells` has the answer shown and the requests on their way, numbered; `overlay` the layer, the request
whose controller is current and those that were aborted, whose answers may still come. One
action per listener, timer and answer. The catalogue of providers is there, and each provider has
one technology and one tile template (one has a second from zoom 12). Sites and
resources load as cells do.

## 3. The runs

| Run | Instance | What it shows |
|---|---|---|
| `cache` | two readers, one writer, importer; two keys, room for one; TTLs 0 and 1; two writes | size bound, staleness only by the fill/clear race, read-your-writes but for it, hits within the TTL, eventual freshness |
| `resources` | one resource, reported or seeded with five confirmations; owner, two visitors, a client that claims three, two requests, one panel | votes add no more than one per fingerprint to what was claimed, review after every owner edit, the owner is for life |
| `resources_anonymous` | two contents, one visitor, two requests | finding: a counter update changes the description |
| `sismo_servers` | two servers, two events, one endpoint, one announcement per poll | at most once, active subscriptions stay, implements `AlertLedger` |
| `sismo_live` | one server, two events (one strong), one endpoint | events get recorded, notifiers end |
| `sismo_seed` | one server | finding: a failed first cycle, then a burst |
| `queue_safety` | two pages, one payload that may be refused, two overlapping batches | promised measurements are kept unless a batch leaves them out, confirmed ones stored once |
| `queue_live` | two pages, one batch at a time, storage may fail | the queue empties |
| `queue_long` | two items, batches of at most one | finding: a long queue is stuck |
| `queue_answer` | two pages, one batch | finding: the visitor's answer is lost |
| `deployment` | two servers, an importer, three starts; four migrations (one of them a wipe and a seed); two files of two batches, one of them lenient; a synthesis of two parts | order and completeness of migrations, doubled seeds only after an interruption, reports survive, one key pair, one load per table, true Report, true meta row |
| `server` | one of nine parts per behaviour: three browsers behind two addresses, two goroutines, limit 2 and one device; 2-bit addresses and two ranges; pages of one row and batches of two; six samples; two proxy callers, three pages of one event, a list of two; two rows of coverage; three reports; three calls of the stores; three views, two filters, one tile provider | the invariants of those nine modules |

**Why the bounds are enough.** Every race in this code is between two requests, two servers
or two transactions, over one row or key; the instances give each side one actor
more than the race needs where that is affordable. One cache slot for two keys
makes every fill an eviction. `MaxNotify = 1` with two events makes truncation
happen (the code's 5 with six). `MaxSyncItems = 2` with two pages is a full batch, 1 one
that is too long. One of two measurements may be refused: what a batch leaves out and what it stores then
stand side by side. A claim of three, above what two votes give, and a seed of five make the claims count. `MaxHelps` lets one
request for the counter that is no vote write the whole document back from an old copy. `MaxVersion` and `MaxId` bound histories: two writes
give a stale body, an acknowledged one and a fresh one. Counts of rows saturate at two,
which already means "more than once". Three starts (`MaxStarts`) are a server that is
interrupted, its successor, and an importer that migrates or loads beside either; the four
migrations are the ones that touch `resources` in ways that differ. Symmetry is used only for safety.

**Run `server`.** Its parts share no state, so their interleavings mean nothing: `part` chooses one at the
start and the others stand still, and the states add up instead of multiplying. Each part has
the smallest instance in which its exceptions happen: a limit of 2, since with 1 no window holds two
admissions; 2-bit addresses, where ranges can nest, touch and miss the ends; a second page of
every paged reading; six samples, the threshold of high confidence with `MinSamples = 3`; three acts on the
map, which are a request, another, and a return to the first; three events and three pages of one at the
proxy, so that an event slides over two page boundaries and, found twice, makes the cut at two bite. The time and jitter thresholds are
scaled down, their order is the code's.

**Deadlock.** The cache run checks it. The others may stop: a visitor need not do
anything more once every page is closed or every id is used, and after `MaxStarts` runs nobody
starts a process.

**Fairness.** Weak fairness of a goroutine's own steps: Go runs what is runnable. In the
cache time passes; nobody has to send a request, and nobody has to write.
In `SismoPush` a running loop and its notifiers move on (`time.After`, loops
over finite lists, sends with a timeout), and the catalogue and each insert succeed again
and again if tried again and again: strong fairness, since a database or a service that is
down for ever gives no progress. In `OfflineQueue` the network keeps coming back, some batch is
answered while its page lives, and that page lives to delete what it sent. No
fairness is put on visitors, restarts or failures.

## 4. What is proved

* `ResponseCacheProofs`: the type invariant; `SizeBound` (a finite map that makes room before
  it inserts; needs `MaxEntries > 0` for the last resort of emptying the map);
  `StaleOnlyByRace` and `ReadYourWrites`, from `VersionInv`: whatever is held anywhere, by the
  map or by a reader, is at least as new as every acknowledged write or is marked as raced
  (the invariants alone say nothing of a fill in progress, so they are not inductive);
  `HitsAreYoung`, from `AgeInv`: age and remaining life add up to the TTL.
* `ResourcesProofs`: the type invariant; `NeverOvercounted`, from `CountInv`: every copy of
  a count, in a row, a request, a browser or a panel, is within the limit of its resource, and
  limits only grow, since a vote is recorded before it is counted; a new vote raises the limit by
  one because the pair (resource, fingerprint) is new. The limit is what was claimed outright plus the votes;
  the server (server.go:1346-1390) bounds no claim, and the theorem does not say that it does. `ReviewRequired` and `OwnerForLife`, the
  latter from `IdsInOrder`: rows are only ever added at the next id, so no step writes a row
  that is there but the statements that keep its owner.
* `SismoPushProofs`: the type invariant; `AtMostOnce` and the refinement of `AlertLedger`, from
  `EventsOwned`: an event on a server's or a notifier's list has been inserted by it and by no
  other, since the INSERT answers "new" once; so one notifier alone can announce it, and the
  endpoints on that notifier's list have not had it. `ActiveStaysStored`, from `DeletionsLate`: a
  deletion that is on its way, be it an unsubscription or a 410 answer, names an endpoint
  that its browser has left for good.
* `OfflineQueueProofs`: the type invariant; `RegisteredOnce`, from `OneWay`: a measurement that
  its page posts or has registered was never queued, hence is in no copy of the queue and no
  batch; `NeverLost`, from `DeletesAreSafe`: every copy of the queue has payloads under their own
  keys, and a batch that was answered lists only what is stored or was left out because validation
  refused it, so deleting by its keys loses nothing else. The last theorem assumes that IndexedDB works and that no two measurements are
  of the same second; without either it is false, as section 5 says.
* `StartupProofs`: the type invariant; `RegisteredInOrder` and `ServesCompleteSchema`, from `SchemaInv`:
  whatever other runs do, the migrations before the one a run is at, and all it read, are
  registered, and the statements it is past have taken effect (the properties say nothing of a run
  in the middle of a migration). `KeysStable`, from `KeyInv`: one server at most is in `LoadKeys`, what it
  has read or made agrees with the table, and nobody serves before the private key, the second one,
  is stored. `ReportsSurvive`, from `ReportInv`: where there are reports all is registered, so the
  referencing table exists and a late TRUNCATE fails. `SeededTwiceOnlyIfInterrupted`, from `CopiesInv`,
  which accounts for each copy of a row by a registration, an interruption or a run about to register;
  of two such runs one at most can register.
* `DeploymentProofs`: the importers' steps are steps of `Startup` (`DeploymentIsStartup`), hence all
  of the above holds with them; `OneLoad` and `MetaIsComplete`, from `LoadInv`: one importer is alive, its
  run is the one that emptied its tables, and the parts of the synthesis before its place are all there
  is; `ReportTrue`, from `ReportedInv`: every batch behind the place of a job is stored, or belongs to
  a file with an error or to one that reports none.

* `RequestGateProofs`, of the limits: `RefusedMeansBusy` and `DevicesRefusedByCrowd`, from `GateInv`: the
  address that is counted is the visitor's own whatever stood in the headers (`ClientIPIsAddress`); what a
  window has counted are the last admissions of its party, none older than the window; what the tracker
  remembers of a device was recorded for it. A refusal says nothing of a window before it, so
  the properties alone are not inductive. `WindowBound`, from `WindowInv`, which keeps for each party what
  its current window has to do with all its admissions: those of the window are the last ones, those on
  time before it are older than its start, fewer than the limit of them within a window's length, and the bound
  holds without the current window. The last part is what makes the first interval that straddles an end
  no worse than twice the limit less one.
* `RequestGateProofs`, of the history: `ScanComplete` and `OperatorIsExplained`, from `ObservationInv`. Its part
  `UnseenComeLater` counts: a row that has matched all along and has not been shown has at least as many
  matching rows before it as the offset of the next page. An insertion can only raise that number; a
  page of `PageLimit` rows shows every row with fewer before it.
* `RequestGateProofs`, of the address table: `LookupIsReference`, from `LookupInv`: the table is a
  rearrangement of the file in the order of the addresses (`TableSorted`, which any sort
  establishes, stable or not), and the mapping of a system is that of its last row.
* `RequestGateProofs`, of a cell: `OneMeasurementCannotCondemn`, from the lemmas that the k-th smallest value exists
  (`NthExists`), that one measurement beyond a limit never takes a median of three or more beyond it
  (`MedianWithin`), and that good measurements bring a hundred hundredths each (`SuccessOfGood`). The proof
  showed a condition that runs had met by chance: `ProbableAffectMinSamples` must be 3 or more. With 2, which
  `STATE_PROBABLE_AFFECT_MIN_SAMPLES` and `STATE_MIN_SAMPLES` may say, the median of two values is their
  mean and one outlier condemns the zone; the defaults are 5 and 3.
* `MapPageProofs`: `MapFollowsVisitor`, from `MapInv`, which says of the last request, whether it is under
  way or shown, what the property says of the answer shown: it has the page's filter and covers the
  view unless the map has moved; a current request for images is for this view and this selection.
  `CoverageAnswersRequest`, from `CoverageInv`: every entry of the cache holds what the query gave a request
  that has this key, its filler (the property is about the last answer, not about entries). `CountsAddUp`,
  from `CountsInv`: the two queries are off by no more than the writes since, and the kinds add up because
  each approved resource has one (`TotalOfKinds`, a bijection between resources and pairs of kind and number).
* `ResourcesProofs`, of the two stores: `StoresAgree`, from `StoresInv`, the types of both stores and the relation
  between them table by table, writing call by writing call.
* `SismoPushProofs`, of the proxy: `ProxyAnswers`, from `ProxyInv`: an event the catalogue had when a fetch began
  has been found or is still before the page to be read, since new events push the old ones to later
  pages; a kept body is one of its key, expires within TTL of its storing and holds what its own fetch had to find.

The proofs assume otherwise only the `ASSUME`s of the component modules: bounds are naturals, absent
values are outside their sets, the sets of browsers and events are finite, servers and importers are
different processes, some migration creates the table that references `resources`, the thresholds of a cell
stand in the relation of the defaults, and the lower case of a text is empty only if the text is.

Every safety property that the passing runs check is a theorem. Only model-checked: liveness
(`EventuallyFresh`, `QueueDrains`, `EventuallyRecorded`, `NotifiersEnd`), since fairness is beyond the prover. The
type invariant of `Startup` is proved and not in a run. The four findings are TLC counterexamples.

## 5. Findings

1. **`resources_anonymous`** – `PGStore.UpdateResourceDetails` takes an error of its SELECT for an
   empty document, and runs SELECT and UPDATE without a transaction: a vote, which needs no owner
   token, removes the description or brings an edited one back. README.md:144-145 says that
   editing takes the owner's key.
2. **`sismo_seed`** – `sismoPollLoop` sets `first = false` after a failed cycle too: the second cycle
   announces the history that the first was to store in silence (server.go:1876-1877).
3. **`queue_long`** – `syncPending` sends the whole queue; `handleSync` refuses more than
   `MAX_SYNC_ITEMS`; nothing splits it, so it is never delivered (CHECKLIST.md:100).
4. **`queue_answer`** – the answer about calls, given while a batch is on its way, is dropped by the
   deletion by key or finds nothing to update; the page says it was registered (app.js:318).

The code does or lets happen what follows, and no run states it as a finding: the
properties name it as an exception or leave it out:

* A measurement that `ValidatePayload` refuses other than for its age (accuracy above 10 km, validate.go:87;
  a clock more than 5 minutes ahead, validate.go:161) is answered 400, and the page says "Se guardará para
  reintentar" (app.js:297-299); or it was taken without network, and the page says that it will be sent. The
  next batch leaves it out and is answered 204 (server.go:368-371), and the page deletes it (app.js:239-242): the
  promise is broken, and nobody is told. It is the exception that `NeverLost` names.
* A measurement is lost when IndexedDB refuses it (the error is swallowed); two pages that measure in
  the same second are not told apart (`updateQueued`). `NeverLost` assumes neither happens.
* The server bounds no counter: one request to `/resources/update-details`, or a report, makes any count of
  confirmations. `NeverOvercounted` speaks of what votes add to such claims. The rows of migration 0006 have
  5 to 42 confirmations without a vote.
* The operator that a client names in its measurement overrules one that the network's ASN gave
  (server.go:429-431). validate.go:26 calls that word corroboration only, validate.go:74-75 says that the
  operator is never taken from the client, README.md:160-161 and CHECKLIST.md:83 say that it corrects doubtful
  assignments. `OperatorIsExplained` follows the code. No page of `web/` sends the word with a
  measurement; what is said later (`UpdateObservation`) does only fill an unknown operator.
* An admin approves an id and not the text that was read. Two servers that start at the same moment on
  a new database may store half a key pair each; one starts at a time here. A seed is
  inserted twice if a process ended between it and its registration.
* A burst may straddle the end of a window (`WindowBound` is twice the limit less one). A limit of 0 still
  lets one request through, and `Retry-After` is 60 whatever is left of the window.
* A row that stops matching while the panel pages through a filter pulls another over the page
  boundary. `admin.js` shows answers in the order they come.
* Ranges that nest hide what the outer one has after the inner one. A row with too few columns stops the
  start with a panic (resolver.go:96).
* The coverage cache answers a request with rows for another spelling of the operator or the technology
  (the key forgets the case); the database cuts at 5000 rows before the operator is compared, and the
  list of resources at 500 before the approved are kept.
* The proxy's slot may go back to an older body, for another key or the same; more than ten pages of
  events are cut.
* `MemStore` keeps a vote for a resource that is not there, does not fill the operator from a late
  answer, keeps a city's point, and drops the device of a renewed subscription. So no
  test has seen what `PGStore` does there, nor where they read differently (section 6). `mem.go:15-16` says it also serves without
  PostgreSQL; `main.go` never makes one.
* On the map, coming back to a layer or a view that is still shown, while another request is under way,
  neither aborts nor repeats anything: the images of the request come and replace the layer that is
  selected. Of two answers for cells the last to come is shown, whichever was asked last.

## 6. What is not modelled, and why

* *Service worker.* `/` serves the map (server.go:1575-1585) and `index.html` has no route, so `app.js` and its queue run
  in pages that load `app.js`; the map's own measuring card has no queue and shows an error. What
  the worker keeps under `/` is thus the map, without `map.js` (its third line says that it keeps the probe and not
  the map): its caches decide nothing that a model could state beyond the browser's own rules.
* *Official coverage*: `/coverage/point`, `/coverage/synthesis`, `/coverage/providers` and the sites return stored rows
  as they are. The rounding of a rectangle in a cache key is left out, and so are texts that contain a
  town's name.
* *Map*: rendering, the measuring card, sites and resources lists, and the panel's forms beyond the
  edits of `Resources`. *The reading calls of the two stores* are not compared. They differ: `Cells` has the
  mean and the first operator in `MemStore` (mem.go:280-307), the median and the mode in `PGStore`
  (pg.go:329-335); `Resources` has no order and no limit of 500 (mem.go:336-352, pg.go:429-430); the total of a history
  page past the end is 0 only in `PGStore` (mem.go:140-160, pg.go:172-219); an operator nobody knows filters
  `Coverage` differently (mem.go:484-491, pg.go:607); `SitesByCell` is empty in `MemStore` (mem.go:326-332). The
  modules that read (`CellState`, `Observations`, `ResourceCounts`, `CoverageQueries`) model `PGStore`.
* *Importers*: what a row says, and `load-mapping`, a loop of independent upserts.
* *Configuration* is read once: its values are the modules' constants. *Scrapers and offline synthesis* are batch
  programs run by hand. *H3 cells and gzip* are library code. The numeric ranges of validation are
  single comparisons.

Further work would join `MapPage` to `ResponseCache`, so that a late answer may also be a stale one, and
prove the safety part of each liveness property: that a queue which is not empty can be sent, that a
notifier's list only shrinks.
