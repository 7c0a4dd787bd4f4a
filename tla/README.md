# BuildOpt in TLA+

A verification project for the BuildOpt backend: the edge gateway
(`src/buildopt-edge/`) that reads a building's automation system and stores what
it cannot upload, and the cloud backend (`src/app/`) that ingests telemetry and
derives mappings, faults, recommendations and savings from it.

`PROJECT.json` lists the components, the TLC runs, the mutants that show each
property can fail, the map from definitions to source lines, the findings, the
hazards and the theorems. This file explains them.

To check a run: `tlc -workers 2 -config MCReplay.cfg MCStoreForward`. To check a
proof: `tlapm EdgeQueueProofs.tla`.

The project has two halves. The first is the path of a reading and of a
configuration: gateway, queue, network, ingest, mapping, publishing. Its modules are
composed, because its parts talk to each other through shared state. The second is
the services around it: fault detection, recommendations, savings, the fleet's
health, live data, commissioning, the older agent, building accounts. They take
readings and requests as inputs and share no state; `CloudServices` puts them beside
each other.

## 1. The system

| Component | State it keeps | Operations | Interacts with |
|---|---|---|---|
| Edge queue (`buildopt-edge/app/storage/local_queue.py`) | SQLite table of readings with attempts and next retry; `critical_overflow` in memory | enqueue (insert or refresh, commit, trim), dequeue_batch, ack, bump_attempts, reopen | edge loop |
| Edge loop (`buildopt-edge/app/main.py`) | the mapping in memory, the batch of a cycle, the list being replayed | poll, upload, enqueue on refusal, replay, sleep; exceptions leave the cycle | connector, uploader, queue |
| Edge uploader (`telemetry/uploader.py`, `validator.py`) | counters, active config version | upload_batch, fetch_collection_config, sync_discovery, heartbeat | cloud API over HTTPS |
| Edge config cache (`collection_config_cache.py`) | one JSON file, last known good mapping | load, validate, save atomically | uploader, loop |
| Cloud ingest (`app/api/telemetry.py`, `telemetry_pipeline.py`) | none of its own between requests | process_batch: validate, dedupe, registry, current state, event record, time series, answer | store, Influx |
| Telemetry store (`telemetry_store.py`, `supabase_telemetry_store.py`) | tables for gateways, points, current state, events, audit, config versions, faults, recommendations, savings, tokens | one method per call; a SQLite transaction or a PostgREST request each | all cloud services |
| Influx client (`influx_client.py`) | series | write_point overwrites the same series and timestamp; queries | ingest, poll jobs |
| Semantic mapping and collection config (`semantic_mapping_service.py`, `collection_config_service.py`) | point metadata, audit log, config versions DRAFT / ACTIVE / SUPERSEDED | approve, reject, edit, revert, publish, get_active | store, gateway API |
| Gateway registry, tokens, heartbeats (`gateway_token_store.py`, `ingest_auth.py`, `edge_heartbeat_store.py`, `api/gateways.py`) | tables of gateways and tokens; the last report of each gateway in memory | issue, expire, revoke, scope check with registration, record_gateway, list_gateways | edge loop, ingest |
| Freshness and data quality (`freshness_engine.py`, `data_quality.py`, `data_health_engine.py`) | the freshness stored with each point | stamped at ingest, assessed on demand | store, API |
| Fault evaluation (`semantic_readings_service.py`, `fdd_rule_framework.py`, `fdd_input_validator.py`, `data_quality_engine.py`) | none | readings by meaning, score, readiness, rules | store, FDD job |
| Faults, recommendations, savings (`fdd_fault_store.py`, `recommendations_store.py`, `savings_engine.py`, `savings_mv_engine.py`) | rows with a status, audit rows | upsert, transition, verify, recompute | store, scheduler, API |
| Alerts and jobs (`live_cache.py`, `pipeline.py`, `main.py`) | alert and result lists in memory | poll job, FDD job, bootstrap task | Influx, store, rows of faults |
| Live data (`live_data_service.py`, `demo_mode.py`, `refrigeration_poll.py`) | snapshots in memory, the time series, refrigeration connections | ingest, poll, read, simulate | Influx, building systems |
| Metasys commissioning (`connection_store.py`, `bms_auto_connect.py`, `metasys_auto_mapper.py`, `metasys_object_store.py`, `api/jci.py`) | credentials in memory and in a table, a file of object overrides | save, auto-connect, auto-map, map by hand, start-up | Metasys |
| Older agent (`src/edge/agent.py`) | table of pending snapshots with attempts | read, push, flush | `POST /ingest/live`, heartbeats |
| Buildings and accounts (`api/buildings.py`, `building_store.py`, `account_service.py`, `deps/guards.py`) | two tables, a copy of each in memory | create, test connection, profile, live data | Supabase, building systems |

What is hard here: a connection that loses, delays or repeats calls between two
processes that may both crash; readings that are refused for ever; a bounded
queue that overflows in the middle of a batch; a list that is read before an
await and used after it; store calls that raise after they took effect, with no
transaction around them; publishing a configuration in four requests, and a file, a process and a
registry that each remember it; jobs that interleave at awaits over a copied list;
lifecycles that several endpoints change by different rules, over stores that keep
different parts of a row; reports about a gateway that arrive late, twice or from an
old queue; discoveries that finish after what they were started for has changed;
buildings found in a table or in memory, whichever answers.

What makes each component correct:

* the queue forgets nothing silently and stays bounded; ingest applies a reading
  once, records it only after it was applied and answers only for what is recorded;
  the whole path delivers what was stored, and recovers after an outage;
* a gateway collects what an engineer approved, keeps what it collects by over
  restarts, never goes back to an older version and comes to run by the active one;
* rules are evaluated on the inputs of one equipment; what is listed has its rows, once,
  and stays listed while its condition stays; the audit trail tells a fault's status;
* nothing is implemented on an approval that was taken back, and no amount is shown
  that was not measured;
* a gateway is listed where it is registered, and not as running once it is down; a
  building of good health was heard of; outside demo mode nothing simulated enters what
  live accounts are shown;
* a mapping by hand outlives every discovery; the older agent's table stays short and
  its newest snapshot is shown in the end; an account sees its own buildings only, and by
  `GET /live` only once they were reached.

## 2. The modules

| Module | Models |
|---|---|
| `LocalQueue` | class `LocalQueue`: one action per method, each with its commit and trailing trim, and its properties |
| `EdgeQueue` | the queue under every order of calls |
| `Readings` | the constant both ends share |
| `CloudIngest` | the ingest handler, one action per store call |
| `StoreForward` | edge loop, queue, connection and ingest handler composed: `Queue == INSTANCE EdgeQueue`, `Cloud == INSTANCE CloudIngest` |
| `TelemetryDelivery` | the abstract specification of the whole path, one place per reading |
| `CollectionConfig` | decisions on mappings, discovery, and publishing over either store |
| `ConfigRollout` | the abstract specification of publishing and collecting: releases and gateways, no handlers or requests |
| `Collection` | extends it with the gateways: fetch, file, start, refresh, discovery report |
| `LiveAlerts` | `live_cache`'s lists under the poll job, the FDD job and the bootstrap task |
| `Faults`, `Recommendations` | rows of faults and of recommendations, with the endpoints that change them |
| `Operations` | the three composed: `Live`, `Store` and `Desk` as INSTANCEs; a cycle writes both kinds of rows on its way |
| `FddEvaluation` | from approved points to readings, readiness and reported faults |
| `Savings` | opportunities, their transitions and their measurement |
| `Fleet` | heartbeats, tokens, scope check, list of gateways |
| `PointHealth` | freshness and health of points and of a building |
| `LiveData` | snapshots and their origins |
| `Commissioning` | Metasys credentials and object mapping |
| `LegacyAgent` | `edge/agent.py` and what the cloud shows of it |
| `Buildings` | building registry, credentials, access |
| `CloudServices` | the services beside each other |
| `EdgeQueueProofs`, `CloudIngestProofs`, `StoreForwardProofs`, `CollectionConfigProofs`, `CollectionProofs`, `RolloutProofs`, `ServicesProofs`, `ServicesTypesProofs` | theorems |
| `MCEnds`, `MCStoreForward`, `MCCollection`, `MCCloudServices` | instances for TLC |

### LocalQueue, EdgeQueue

`rows` is the table, a function from AUTOINCREMENT ids to rows. `event_id` is a
hash of everything a reading is made of, so a reading stands for its own event_id
and `KeyOf` gives its dedupe key. A row keeps the `event` and `key` columns it was
inserted with; `payload` may be overwritten by a later enqueue that hits one of
the two unique indexes. `wait` counts ticks until `next_retry_at`. `attempts` stops
at `AttemptCap`, beyond which no comparison in the code can tell values apart.

`Insert` and `Refresh` contain the commit and the trim (`CommitAndTrim`), because
`enqueue` always ends in `_trim`. The two are separate SQLite transactions:
`EnqueueUntrimmed` is the enqueue whose second one never happens, because of a
crash or an exception. `trimmed`, `acked` and `untrimmed` are history variables;
no action reads them.

### CloudIngest

One worker is one server process. The handler is `async` but awaits nothing, so
batches of one process do not interleave; the Dockerfile starts one process. The
model allows any number of workers. `job[w].step` is the place in
`_process_one`; `todo` is the rest of the batch; `rows` is `influx_rows`; `taken` and
`rejected` are the response's counts. The registry lookup and upsert are one step,
since both leave the point known. `StoreRaises` covers a call that raises before or
after it took effect, as an HTTP request to PostgREST may. The call in
`validate_gateway_scope` that precedes the loop answers with an error before
anything is processed: `StoreForward!Refuse`.

### StoreForward

`pc` is the place in `run_edge`: poll, upload, enqueue, drain (before
`dequeue_batch`), replay (head of the loop), resend (in the await), sleep. The
gateway has one outstanding request, whose content follows from `pc`; `conn` says
where it is: on the wire, with a worker, answered ok or refused, or lost. `stale`
holds requests the gateway has given up on that may still arrive. Any POST may
raise at any time (`PostRaises`), and either process may crash at any time. `Collect`
reads any non-empty subset of the points; the timestamps a point may report in a
cycle are a parameter: the gateway's clock, or the source's, which may repeat an
old reading.

Every refusal (401, 403, 422, 500, 503) looks the same to the gateway.
`Unprocessable` readings are those the request schema rejects, which makes every
batch they are in a 422.

### TelemetryDelivery

A reading is unread, moving, queued, recorded or gone. Recorded is final; what is
queued leaves the queue only by being recorded or with an excuse (overflow,
superseded by a newer value of the same instant, rejected by the cloud); what is
gone is never recorded unless it is read again. `StoreForward` implements it by
`PlaceOf`.

### CollectionConfig

`meta` is what a row of `raw_points` says about its mapping, `versions` the table
`collection_config_versions` in the order of `created_at`, `task[s]` the handler a
server is running and what its local variables hold. A handler is one action per
call of the store, so any number of servers may interleave between the calls; with
one server, as the Dockerfile starts it, only crashes come between them, because
the handlers await nothing. `store` picks the backend once: SQLite publishes in one
transaction (`PublishActive`), PostgREST in four requests (`FindPrevious`,
`InsertDraft`, `Supersede`, `Activate`) with `Restore` as the except clause.
`PublishRaises`, `DecisionRaises` and `DiscoverRaises` are the exceptions; a
PostgREST request may have taken effect although it raised (`MayTakeEffect`).

A decision (`Decide`) is one of the four outcomes the endpoints compute from the
metadata they read: approve with a key, reject, revert, edit. `approved` records
every approval that was ever stored; no action reads it. Status NEW stands for
metadata without a `mapping_status`. An edit reads the point twice in a row; the
status comes from the first read and is never APPROVED, and the model reads once.
A refusal (unknown point, confidence below the threshold) changes nothing and has no
action.

### Collection

`edge[g]` holds where the process is (down, starting, sync, running), its mapping and
`_active_config_version`; `cache[g]` is `active_collection_config.json`; a version is
its index in `versions`, 0 for none. `Served` is the endpoint's answer: the active
version of exactly this gateway, else a configuration built from the approvals of
the moment, without a version, which the gateway accepts too. `Adopt` is
`fetch_collection_config` after a valid answer, with the shortcut for a version
already known. `StartFromCloud`, `StartFromCache` and `StartUnconfigured` are the
ways out of `resolve_collection_mapping`; `report[g]` is the discovery batch that
`sync_discovery` then sends, and the gateway awaits its end in phase sync.
`StartDies` is an exception before the loop, which nothing catches. `Refresh` is the
20th cycle of the loop.

The gateway's answer and its use are one step: the gateway does nothing else in
between and the cloud does not depend on it.

### ConfigRollout

Releases are a sequence; each is a draft, in force (ACTIVE) or retired (SUPERSEDED), and
scope, revision and config never change. A new release names what was approved and has a
higher revision than every release it covers. It enters force in the step that retires
those it covers, or later, if it is still the last release and nothing it covers is in
force. Releases are retired only for a draft that is to follow them. One returns only
while no later one of its scope has been retired. A gateway runs, would resume
(`keeps`) and has as `newest`: it takes up the newest release in force in its own scope,
never an older one than before; where there is none, something approved; or it stops, or
resumes. There are no servers, tasks, stores, requests, files, phases or failures:
`Collection` implements it with `runs` as the mapping in memory and `keeps` as the one in
the file. A failed publish may still leave two releases of a scope in force over
PostgREST; the newest of them counts.

### LiveAlerts, Faults, Recommendations, Operations

`pc[t]` is where a task stands: `fetching` (in the awaits of `poll_metasys_buildings`
and `poll_all_buildings`, before the list is copied), `waiting` (in `get_live_data` in
the middle of the scan, with the copy in hand), `evaluating` (inside `run_fdd_cycle`,
which awaits nothing, so no other task or handler moves: `LoopFree`). `copy[t]` is the
list the task works on, `SetAlerts` the write-back of the whole copy. The bootstrap
task runs one poll and one FDD cycle, and so can meet the scheduled ones. A condition
is a rule that evaluates to a fault on what is stored; `ConditionChanges` is the ingest
handler. `Unready` is the rule that stands for the NOT_EVALUABLE entries the poll's
detector returns when it found no fault. An alert's acknowledged flag is part of the
alert object all copies share, and is left out.

`Faults` is `FddFaultStore` over SQLite: `OnConflict` is what the upsert statement keeps,
`Merged` what the Python code computes before it. `Recommendations` has the table
`VALID_TRANSITIONS`; an engine cycle makes a new row for a fault it has already
recommended for, of which the model follows `MaxRecs`. `Operations` interleaves the rows
with the lists: `FddReports` writes both rows and both list entries, `FddRaises` is a
store call that raises before, between or after the two rows, and `Restart` loses the
lists and keeps the rows.

### FddEvaluation, Savings

`listed` is the order of `list_points` (newest first), and decides which of two points
with the same meaning `Readings` keeps. `Readiness` looks at approvals, score and values
of a rule's inputs; `Reported(only)` is the answer of a cycle (`only = None`) or of a
request for one equipment. A rule is the set of its required inputs, its arithmetic is
abstracted to inputs that agree or do not. In `Savings` the two stores differ in
`Upserted`; `Verify` and `Compute` go round the table of transitions as the endpoints
do.

### Fleet, PointHealth

`say[g]` is the heartbeat a gateway is about to send and what it does afterwards;
`late` are those it gave up after 10 s. `RowTaken` is the cloud's recording of a
replayed row; the row is acked in `AfterBeat`, once the heartbeat that `upload_batch` sends
has ended, so a gateway that dies in between replays it (`todo` counts the list in hand,
`queue` the table). A batch the cloud accepts records ONLINE
whatever the connector does, `record_gateway` binds an unknown gateway to the scope of
its first request. Ages are the classes of `list_gateways`. Readings are only counted.
`PointHealth` keeps of each point the ages of its two timestamps, capped at `MaxAge`,
and the freshness stamped when it was stored; a source's clock may run `MaxAhead`
intervals ahead.

### LiveData, Commissioning, LegacyAgent, Buildings

A snapshot in `LiveData` is where its numbers come from: the building, the constants
of `get_latest_snapshot`, or the simulator. In `Commissioning` a discovery is a task that
awaits the system and then maps and stores in one piece; which free object a name
pattern picks is left open (`Suggestions`). In `LegacyAgent` a push is up to
`INGEST_MAX_RETRIES` POSTs in one step, some of which may arrive late; the table has no
limit of its own. In `Buildings` every call of Supabase may have taken effect or not,
whatever it answered; `request[q]` is where a request stands between the calls;
`Live` and `Stream` are the two ways live data is served, the second without a look at
the row; `ContextIds` is what `get_account_context` may see when a listing fails.

### CloudServices

A behaviour follows one service, `part`, and leaves the others as they start
(`Still` fixes their initial state). Nothing is lost: the services share no variable, so
a behaviour of all of them is an interleaving of behaviours each of which is here. The
module holds the constants, one `ASSUME` for all of them, and each service's properties
restricted to its part.

## 3. The runs

| Run | Configuration | Shows | States |
|---|---|---|---|
| `ends` | 5 readings: two keys with two values each and a third key, one text value, one reading of quality INVALID; queue: `max_rows` 2, 4 insertions; handler: batches of 1 and 2 | queue: bounded, keyed, drop-oldest, nothing silently deleted, drops only the excess; handler: recorded only after applied, answered only what is recorded, no overwritten value comes back, applied once | 1,398,672 |
| `replay` | 1 point, source timestamps, 2 values, 2 rows, 2 cycles, 1 stale request | queued readings are accounted for, answers belong to their requests, the replay list stays current | 2.6 million |
| `batch` | 2 points, 2 values, 1 row, 1 stale request | refinement to `TelemetryDelivery` with overflow and failures within a batch | 750,000 |
| `recovery` | 2 rows, the older refused for ever, one row per replay | every processable queued reading leaves the queue after the outage | 55,065 |
| `collection` | 1 gateway, 1 server, 1 point, 2 keys, both stores, 3 versions, 2 decisions | active version unique (SQLite), rollbacks and revisions sound, only approvals collected, file and process agree, no way back to an older version, refinement to `ConfigRollout`, convergence | 894,068 |
| `services` | see the bounds below | the properties of the eleven services, three of them liveness | 247,763 |
| `outage`, `acked_row`, `cold_start`, `approvals`, `unready`, `invented` | small | six statements of the documentation the code does not keep (section 6) | |

Every property of a passing run has a mutant: an operator named as a slip in the
module (`KeptOldest`, `PassChecksAlways`, ...), which replaces the definition of the
code and makes TLC find the property violated.

### Bounds

In `ends` queue and handler share nothing, and one moves only while the other is as it
began: what each of them reaches is what it reaches alone.

`max_rows` of 1 or 2 is enough for the policy to choose between rows; a refused
batch of two into a table of one overflows in the middle of the batch. Four
insertions overflow a table of two twice, with acks, retries and cut-short trims
in between. Three keys, two of them with two values, give an enqueue a free key, a
queued one with the same value and one with another. One stale request is enough for a late
copy to meet its resend; two cycles are enough for a live upload to overtake a
queued reading. `BackoffSteps` and `MaxBackoff` are small enough for both caps to
be reached. The gateway's clock ticks once per cycle, at the sleep: request
timeouts and downtime do not tick, so in the code a row may be due after fewer
cycles. Apart from `recovery`, the `StoreForward` runs set the backoff to one tick,
which makes every row due in the very next cycle, the earliest the code can
manage; `ends` lets time pass at any point. Recovery needs only that delays
are bounded. In the `StoreForward` configurations all values are text
(`NonNumeric = All`), so that the time series, which `ends` checks on its
own, does not multiply the states. `MaxReadCycles` bounds the cycles that read
something; cycles that read nothing, and replay, go on for ever.

In `collection` three versions let a publish fail after a success and be repeated,
with a version to restore, and let publishes of the gateway and of the building
alternate; two decisions let an approval be withdrawn or replaced by another key
while a publish is under way. With a second point the run has too many states for
its time; what two points add, the choice between two approvals of one key, is
covered by the theorems, which know no bound. No bound ends a gateway's starts,
crashes and refreshes. `RevisionsGrow`, `RolloutSpec`, `Converges` and, over
PostgREST, `NoneReactivated`, `RestartResumes` and `NeverOlder` are about one server
process: two publishers can take the same revision, and a gateway could see a version
that is superseded and then restored. Over SQLite the last three are proved for any
number of servers.

In `services` each service has the smallest instance in which its hazard can happen:

* operations: two buildings; pairs of conditions that come and go together (a poll
  rule beside an FDD rule; one rule on two pieces of equipment; one rule and name of
  equipment in two buildings; a rule of severity info), one mishap per behaviour;
* faults: one row that two buildings' conditions share; recommendations: two rows of
  a fault; savings: energies 0 to 2, 13 or 14 days (`MIN_DAYS` is 14), both stores;
* evaluation: two points, two pieces of equipment, a rule of two inputs and one of one,
  GOOD and BAD quality (the extremes of the score);
* fleet: one gateway that may be started for another of two scopes, one token, one
  queued reading, one late heartbeat; health: two points, ages up to five intervals,
  one more than the oldest the code tells apart with a clock one interval ahead;
* live data: one building, both modes; commissioning: two servers that share an object,
  two keys, two tasks; agent: three retries, batches of three, attempts up to four,
  one crash; buildings: an account and an administrator, one building in the table,
  one to be registered, two requests at a time.

What these leave out, more gateways, buildings, conditions, keys, requests, is covered by
the theorems of `ServicesProofs` and `ServicesTypesProofs` for the safety properties.

Deadlock is checked in every run but `services`, `unready` and `invented`: the gateway's loop never
stops, but a savings opportunity ends VERIFIED or REJECTED, a token revoked.

### Fairness

`LiveSpec` adds weak fairness of the edge loop (it runs until shutdown and every
await has a timeout or ends), of taking up or refusing a request that is on the
wire (the server is up once the outage is over) and of the handler (it awaits
nothing). No fairness is assumed of any fault. `calm` marks the end of the outage;
`DrainsAfterOutage` promises nothing before.

`LiveSpecAll` (runs `collection` and `cold_start`) adds weak fairness of a gateway's
start and refresh taken together (`restart: unless-stopped` in its
docker-compose.yml starts it again, start-up awaits requests with a timeout only,
and the loop comes to its 20th cycle again and again), and of a server's taking up
and finishing requests. `CalmDown` ends faults and decisions; it is never required
to happen, and `Converges` promises nothing before. In `cold_start` the fairness is
met by a gateway that is restarted for ever.

In `services`: weak fairness of an evaluation that has begun (it holds the loop) and
strong fairness of the scheduler's start of the FDD job, which finds the loop free again
and again, for `ConditionsAreListed`; polls may hang for ever. Weak fairness of a
gateway's loop and of the passing of time for `DownIsShown`; of the cloud's taking a
row, or of its answer's coming back, nothing is assumed. So the property promises
nothing of a gateway whose building system is down while a row stays queued that the
cloud would take: each replay of it reports ONLINE, and the row is acked only after
`upload_batch`, with its heartbeat, has returned. Weak fairness of the older agent's round for `RecoversAfterOutage`,
which promises nothing unless the network stays up and the building goes on answering.

The bound of `DrainsAfterOutage` is real: a row that is refused for ever returns after at most
`max_backoff_seconds`, 120 cycles of 30 s, and each cycle replays 100 rows, so
some 12,000 rows that are refused for ever would fill every replay and starve the
rest. The run stays below: one such row, one row per replay, two ticks of backoff.
The mutant `BackoffZero` shows that without the delay a single one starves the
queue.

## 4. What is proved

For every value of the constants that satisfies `QueueAssumption`, `IngestAssumption`
or, for the path, `StoreForwardAssumption`:

* `EdgeQueueProofs`. The inductive invariant `IInv` joins the type, the depth bound,
  drop order and accounting to `WellKeyed`, which ties both unique columns and the
  payload of a row to one key; `OneRowPerReading` alone is not inductive, because a
  refresh that hits a row by event_id must be known to hit the row of the same key.
  The heart is `TrimRestoresBound`: numbering the kept rows by how many younger ones
  are kept maps them one to one into 0..max_rows-1, so the trim restores the bound
  however far cut-short trims let it be exceeded. `TrimDropsOnlyExcess` shows that a
  trim that drops anything leaves the table exactly full. From `Invariance` follow the
  types, in which no delay exceeds `max_backoff_seconds`, and the four invariants of the
  run; `DropsAreExcess` is its action property.
* `CloudIngestProofs`. `JobOK` says what a handler's place in the code implies about
  the tables whatever the other handlers do; it is stable because tables only grow.
  With the types and the three recorded-before properties it is inductive for any
  number of server processes. `NoResurrection` and `AppliedOnce` need a reading in
  hand to be unrecorded, which a second process could spoil: their theorems assume
  `Worker = {w}`, and the stronger `IInvAlone` adds `Exclusive`: a reading past the
  dedupe check is unrecorded, and gathered Influx rows are distinct and have never
  been written.
* `StoreForwardProofs`. The assumption of the path implies those of its parts
  (`ComponentsAssumed`; finitely many readings, because ids are bounded by their
  number), so every step of queue and handler is one their own proofs know
  (`QueueStepsSame`, `CloudStepsSame`), and their invariants are cited, not proved
  again. `IInv` joins these to the three safety properties and three parts more.
  `GatewayOK`: there is a request where `pc` says the loop awaits one, and `batch` and
  `replay` are empty or not as `pc` says. `RequestTracked`: a worker that has the
  gateway's request has yet to process, has recorded or has rejected every reading that is
  outstanding; a late answer to another request comes from another worker, so it cannot be
  taken for this one. `OnlyCollected`: nothing is in motion, queued or recorded that no
  poll read.
  `Flow` says what any step may do to the readings; every action is shown to respect it,
  and both `StoredIsAccountedFor` and the step simulation of `ImplementsDelivery` rest on it.
  `ResendingAppliesOnce` assumes one server process, like `AppliedOnce` of the handler.

For every value of the constants that satisfies `ConfigAssumption`:

* `CollectionConfigProofs`. `IInv` joins the types to `RegistryApproved` (an approved
  row is in the history of approvals), `VersionsSound` and, per handler,
  `TaskSound`: a config in hand was approved, a revision in hand is at most one above
  the table, and over SQLite no handler is between the requests of PostgREST. Every
  action gives one server a new task and leaves the tables sound (`Preserved`), so
  each needs only its task and its table shown sound. `OneActive` and
  `PublishedWasApproved` follow for any number of servers. `RevisionsGrow` and
  `NoneReactivated` hold of one: `IInvAlone` adds that the revision read is above those of
  its scope (`TaskAhead`) and that the version to restore is followed in its scope by
  drafts only, or by the one that was to replace it (`RestoreSafe`). Over SQLite
  `NoneReactivated` needs neither and holds of any number (`SqliteNeverReactivates`): a
  publish is one insert there (`SqliteStep`), and what makes way for it takes every older
  active version of its scope with it (`SupersededOrder`).
  `MaxBounded`, on which revisions and the choice of a version rest, is proved from
  well-foundedness of the naturals.
* `CollectionProofs`. `CloudStep`: to the cloud every step of the composition is one of
  its own or none, so `SpecAll => Spec`. `CloudGrows`: approvals and published configs are
  never taken back. From these and `ServedSound` the types, `CollectsApproved` and
  `CachedVersionIsPublished` follow for any number of gateways and servers.
  `RestartResumes` and `NeverOlder` hold of one server, with `IInvOne`, whose part about
  the gateways is `Forward`: what a gateway
  has collected by was in force in its own scope (`CollectedWasInForce`), so with
  `NoneReactivated` the newest active version of that scope is never older
  (`AdoptGoesForward`); and the one case in which memory and file name different versions,
  a gateway that was served without a version after one (`InMemoryAlone`), leaves it
  with a version that is superseded and that no publish under way would restore (`Gone`),
  so the shortcut for a known version is never taken for a file that lacks it. A step of
  the server keeps this because it takes the version to restore from the active ones
  (`HandsOn`) and brings nothing else out of retirement (`Ripens`). Over SQLite nothing
  comes out of retirement, so `Forward` is kept by any number of servers (`IInvSqlite`,
  `SqliteMovesForward`): the steps of the gateways (`GatewayStepsForward`) ask only that
  no publish is between its requests while a server answers (`NobodyPublishes`).
* `RolloutProofs`. `ImplementsRollout`: with one server process every behaviour of
  `Collection` is one of `ConfigRollout`. `IInvRollout` adds to `IInvOne` what the steps of
  a publish over PostgREST rest on (`RollsOut`): the draft it inserted is of its scope,
  nothing is active there once the others have made way, and the version it would restore
  is no draft. The steps of the cloud are told apart by what they do to the versions
  (`CloudMoves`): an append is a release that `TaskAhead` shows to be fresh, `Supersede` makes
  way for the last draft, `Activate` lets it follow, a restore is a return that `RestoreSafe`
  allows, or nothing, and all else only adds approvals. Of the gateways' steps, those that
  adopt an answer take the newest version (`ServedIsNewest`), which `RestartResumes` and
  `NeverOlder` of the next state show to be in the file and no older; a start from the file
  resumes; a process that dies or is started anew stops. With two server processes the
  refinement does not hold: two publishers can take the same revision.

For every value of the constants that satisfies `PartsAssumption` (what the service
modules assume of theirs):

* `ServicesProofs`. `PartSteps`: a behaviour never changes its part and takes the steps
  of that part's module, so each service has an invariant of its own and a theorem.
  - `RowsInv`, `DeskInv`, `MoneyInv`, `SetupInv`, `SnapshotsInv`, `EdgesInv`: the types
    with the property itself, or with a stronger form of it: APPROVED already implies
    that the approval stands; what an engineer mapped is in the overrides, where the
    defaults play no part; the scope of a report is one a gateway may have.
    `FirstDetectionStands` is the action property that upserts and transitions leave a
    row's first detection alone.
  - `OpsInv`: every list, the cached one and the copy of each task, is `Good`: no title
    twice, and rows behind each FDD entry. Rows only come, so a `Good` list stays so
    whoever holds it; extending one list by `Raised` keeps it `Good`, and any write-back
    replaces one `Good` list by another (`ListedKeeps`). This is why the interleaving of the jobs,
    which can lose alerts, can neither double them nor list what has no row.
  - `HealthInv` with `Lag`: a source timestamp is at most `MaxAhead` younger than the
    arrival; counting then needs only subsets of a finite set.
  - `ReachedInv`, `FirstInv`, `ServedInv` of the buildings: a row shown as connected, in the
    table or in memory, and a request about to record it, was reached; a building being
    created has no row yet and no other request creates it, so no owner ever changes.
    `GET /live` and the stream share the check of access (`ServingKeeps`); only the former
    needs `ReachedInv`.
  - `AgentInv` with `Tried`: a row was tried at least as often as there are rows behind
    it, and in a round once more up to the row in hand; so a row that is still there at the
    end of a round leaves room for one more, wherever crashes cut rounds short. It
    needs `MaxRetries <= Limit`, which the assumption states.
  - `RulesInv` of the evaluation: no point is listed twice. `ListFirstKeeps` shows it of
    a discovery, which moves a point to the front; then the last point listed for a
    meaning is one point, and `ReportsShown` and `ShownIsReported` prove the two
    directions of `ReportsAreExact`: what a rule reports its equipment's own approved
    points show, and what they show it reports while no two points share a meaning.
* `ServicesTypesProofs`. `PartsTyped` adds to the invariants above what they leave out
  of the types of their parts. Most steps keep types by themselves; four need more:
  a round of the older agent and the scan of a job need that what is in hand is a
  row or a condition, the fleet needs that no more is to be sent than is queued, and
  something while a row is to be acked (`EdgesTypes`), or a queue could be counted below
  zero, and a mapping by discovery needs
  that what it picks was found on the server or mapped before.
  `OperationsAreOfTheParts` is a refinement: the composition of lists, fault rows and
  recommendations is a behaviour of each of the three modules (`StepsOfOperations`: every
  step is one of theirs or none), so what is proved or checked of one alone holds in
  operation.

Only model-checked: liveness (`DrainsAfterOutage`, `Converges`,
`ConditionsAreListed`, `DownIsShown`, `RecoversAfterOutage`), which is out of the
prover's reach.

## 5. What is not modelled

* Power loss: `synchronous=NORMAL` in WAL mode may lose the last commits. A crash
  here is the death of the process.
* `next_retry_at <= now` compares ISO strings; a timestamp with zero microseconds is
  formatted without them and may compare up to a second off.
* The Influx client's batching write API writes in the background: True from
  `write_point` does not yet mean durable. It is external, and modelled as done or
  failed when the call returns.
* Heartbeats in `StoreForward`: `send_heartbeat` swallows every exception, and what it
  reports changes no state of the path. They are in `Fleet`.
* A graceful shutdown ends the loop after the sleep and closes the file; it is the
  special case of `EdgeCrash` at the end of a cycle.
* The collection mapping in `StoreForward`: a poll reads some subset of the points,
  whatever the mapping says. Two logical keys that name the same object are not
  modelled.
* The bootstrap mapping file: where it exists the gateway never asks the cloud, and
  `Collection` does not apply.
* Rows of the audit log, which nothing of the workflow reads; that a decision may be
  stored without its audit event is in the model as `DecisionRaises` in step audit.
* `list_points(limit=500)`: the registry is below the limit. Points that move between
  gateways or buildings, and registration, which is a discovery of an unknown point.
* Two publishes in the same microsecond: the order of `created_at` is that of
  insertion.
* A SQLite commit that raises and is made up for by a later one.
* Clock jumps.
* The write-back policy: it is disabled in the code, every path ends in a refusal or in
  a pending row nobody reads. The connectors (protocol I/O), the prediction and
  optimization engines (formulas without control state), the HTTP surface, reports and
  demo data.
* Of the services: the master ingest key, which passes every scope; NOT_CONFIGURED
  heartbeats and the older per-protocol heartbeat list; the acknowledged flag of
  alerts; the single checks of the rules; limits on values and flatline checks; trend
  queries; access levels and feature modules of buildings, import of points and
  control; two publishers over PostgREST.
* Other ways than `GET /live` and its stream to data of a building:
  `GET /buildings/{id}/telemetry/current` (buildings.py:318), which serves the points of
  the registry after the check of access alone, the module pages and the history.
* Of a snapshot, where each single number comes from: one that a building system answered
  with some of its values is filled up with constants too (`_fetch_live_from_metasys`),
  and counts as the building's.
* A service's inputs from another are arbitrary: that the readings of `FddEvaluation`
  are those `CloudIngest` stored is not stated, and the models need no such link.

## 6. Findings

1. **A live upload that raises loses its batch** (`outage`). `upload_batch` returns
   False only for a non-200 answer; a refused connection or a timeout raises in
   `client.post`, and `run_edge` logs it and drops the readings. The pilot checklist
   says that internet failure queues data.
2. **A reading the cloud failed to store is deleted by the gateway** (`acked_row`). A
   store exception is counted rejected in a 200 answer; the gateway takes 200 as
   delivered and acks the row.
3. **A gateway does not start from its file while the cloud is unreachable**
   (`cold_start`). The fetch raises, `resolve_collection_mapping` does not catch it and the
   process ends before `load_cached_mapping`, at every restart; only an answer other
   than 200, or an empty mapping, leads to the file. The same holds of a discovery
   report that raises after the file was used.
4. **Starting a gateway withdraws the approvals it collects by** (`approvals`). The
   discovery batch it sends carries no metadata, and the upsert overwrites the row's.
   The active version is untouched, so the gateway goes on; the next publish of the
   scope is a draft, and without an active version the endpoint serves nothing.
5. **Missing inputs are listed as an alert** (`unready`). `FaultDetector.evaluate` returns
   its NOT_EVALUABLE entries when it found no fault, and the poll makes an alert of
   every entry; `docs/fdd-rules.md` says they are not faults.
6. **Live accounts are shown constants** (`invented`). `write_point` stores every number
   in a field named `value`; `get_latest_snapshot` looks for `hvac_kw`, `cop` and the like
   among the names of fields, finds none and returns 195 kW, 14 °C, COP 3.8, for any
   building with a number in the last 15 minutes and no text beside it.
   `get_live_data` serves them to live accounts with the source `influx` when nothing is
   cached, as after a restart. `docs/DATA_PROVENANCE.md` says that every live value is
   traceable, `docs/module-data-source-matrix.md` that live data is empty where there is
   none. In demo mode a live account is shown the simulator's snapshot from the cache as
   well, as `NothingInvented` would also find; `docs/data-governance.md:96` says that
   `data_policy.py` forbids it.

`PROJECT.json` quotes the statements. `StoredIsAccountedFor` and `DeliverySpec` are
stated so that they hold of the code as it is: they count a reading only from the
moment it is committed to the queue (1) and accept a rejection as an excuse (2).
`OnlyReported` keeps the simulator out and says nothing of constants (6).

### Observed while modelling

The models do what the code does. Of these a document or a message says otherwise, and
no run claims the violation, because one step of the model shows it:

* The current state is overwritten without comparing source timestamps, so replay after a
  live upload turns it back; `docs/TELEMETRY_SCHEMA.md:65` says "always latest value per
  point", `docs/DATA_PROVENANCE.md:29` "Latest value served".
* VERIFIED savings can be reached by `/transition` from MONITORING without a measurement;
  the endpoint's own refusal (`api/savings.py:67-68`) says "VERIFIED requires MONITORING
  state with measurement data". `AmountIsMeasured` is about amounts only.

Of these no such statement was found:

* `event_id` is recorded before the time series is written.
* Cached snapshots never expire; flushed old snapshots are written to the series at the
  current time. `GET /live` refuses a building that was never connected, the stream and
  `GET /telemetry/current` do not.
* A fault's id has no building, so two buildings with equipment of one name share a row,
  and one shadows the other in the lists; an alert's title has no equipment, so a second
  equipment raises none. A suppressed or closed fault is DETECTED again. Points without
  equipment are never evaluated; a BAD reading scores exactly the minimum of 60.
* A rule is evaluated and recommended for again every minute: one new recommendation row per
  fault and cycle. The PostgREST store lacks the fault methods. `/alerts/history`
  acknowledges everything it returns.
* Every accepted batch replaces a gateway's last report by ONLINE, so a drift or a
  connector that is down is listed only until the next batch. A token of n days expires
  at a midnight. The freshness of a point is stored once and served as it was.
* The file of object overrides is written in place, and lost by a crash in the middle.
  A discovery that outlives its credentials maps objects of the old server.
* `create_building` answers with a row in memory when the insert was refused; a profile
  is written to the memory copy only where there is one; `test-connection` answers
  "connected" even if that was not stored.
* The older agent's table grows if `INGEST_MAX_RETRIES` is set above the ten rows of a
  batch.

## 7. Plan

Done: the store-and-forward path; mapping, collection config and the gateways' use
of it; the services; a theorem for every safety property of the runs. What is left:
the write-back policy, when the code enables it.
