# GSLB in TLA+

GSLB checks the health of backend servers and keeps the A records of DNS names
in step with the healthy ones. This directory holds TLA+ modules for the server
process, TLC runs on small instances, and TLAPS proofs, for all instances, of
every safety property that a passing run checks.

    tlc -workers 2 -config RecCache.cfg MCReconciler    # a run
    tlapm EngineProofs.tla                              # the proofs of a module

`PROJECT.json` lists the runs, the mutants that show each property has teeth,
the source lines behind every definition, the findings, hazards and theorems.

## 1. Inventory

| Component | State | Operations | Interacts with |
|---|---|---|---|
| DNS reconciler (`internal/dns/reconciler.go`) | `lastRecords` under a mutex, running flag, `stopCh` | `Start`, `Stop`, `ReconcileOnce` (ticker), `ReconcileConfig` (on demand) | reads the store, calls the provider, stores the outcome of a pass |
| Cloudflare provider (`internal/dns/cloudflare.go`) | none; the zone is at Cloudflare | `UpsertRecord`, `DeleteRecord`: list, then one call per record | called by any number of passes at once |
| Store (`internal/store`, `internal/db`) | SQLite tables with foreign keys and cascades | one SQL statement each, no transactions over several | all others |
| Handlers (`internal/handlers`) | none | create, update, delete of configs, backends, providers, health checks | store; those that change a backend start a `ReconcileConfig` goroutine |
| Engine (`internal/health/engine.go`) | running, context, request and result channels, workers | `Start`, `Stop`, `Submit`, `Results` | called by the scheduler |
| Scheduler (`internal/health/scheduler.go`) | running, `stopCh`, two goroutines | `Start`, `Stop`, `StartResultProcessor`, loop, `handleResult` | store, engine |
| CheckScheduler (`engine.go`) | registered requests, several engines, `stopChan`, merged channel | `Start`, `Run`, `Stop`, `Register`, `Unregister`, `Results` | engines in turn |
| StateMachine (`internal/health/state.go`) | status, two counters | `ProcessResult`, `Reset` | one per backend |
| Aggregator (`internal/health/aggregator.go`) | buckets of five minutes under a mutex | `RecordProbe`, `RecordSelection`, `flush` | fed by scheduler and reconciler, writes `health_history` |
| Selectors (`internal/lb`) | an atomic counter | `Select` | given the healthy backends |
| Login and roles (`internal/auth`, `handlers/auth.go`, `config_roles.go`) | users, roles of users and of configs, tokens | `Callback` (`SyncUser`, `syncRoles`), role handlers | store; guards the other handlers |
| Rate limiter (`handlers/routes.go`) | request times per client | `Allow`, `cleanup` | in front of the routes |
| Audit log (`handlers.go`, `store/audit.go`) | append-only table | `logAudit` at the end of each write handler | store |
| Crypto, process configuration, web client | none that changes | | store |

What makes each of them correct:

- *Reconciler and provider*: the zone converges to what the database says; a
  weighted config has one record; the cache `lastRecords`, which suppresses
  writes, is the truth about the zone; failed, crashed and overlapping passes
  are repaired.
- *Store*: referential integrity under every sequence of handlers.
- *Engine*: no result lost or duplicated except by the documented discard, the
  channel keeps to its capacity, `Stop` waits and returns, `Submit` returns.
- *Scheduler*: a backend that stays up or down is stored so; nothing is written
  for a deleted backend or after `Stop`; `Stop` returns.
- *Lives of reconciler and CheckScheduler*: what runs has its loop, `Stop` ends
  every loop and returns, each registered target is checked again and again.
- *Edits*: an update changes only the columns it was given; the audit log has a
  true line for every write of the handlers modelled there.
- *Roles*: a login whose token names roles, or an update of a configuration's
  roles, leaves exactly the roles asked for, up to what others wrote meanwhile
  and what failed and was ignored.
- *Data structures*: no probe is lost or counted twice; no client gets more
  than its limit in any window, or less; every backend gets its share; the
  status follows the hysteresis of the thresholds.

The hard parts are the passes that interleave between any two API calls, calls
that fail with or without effect, the two queries of `getHealthyBackends`,
a provider row that directs a config to another zone, restarts in the middle of
an update, and the shutdown of goroutines that wait for each other over channels. `PROJECT.json` lists them, line by line, under
"hazards".

## 2. Modules

    Store ── Reconciler ── ReconcilerProofs ── UpsertProofs
                 └─ MCReconciler
    Pool ┄┄ Engine ── Scheduler ── MCScheduler
               ├─ EngineProofs ── SchedulerProofs (with Scheduler)
               └─ MCLives ── CheckScheduler, ReconcilerLife
                                └─ LifecycleProofs
    MCData ── Access, Edits, History, RateLimiter, Selector, StateMachine ┄┄ Hysteresis
                 │      │        └─ HealthProofs (History, Selector, StateMachine)
                 │      └─ EditsProofs
                 └─ AccessProofs (Access, RateLimiter)

(`┄┄` joins a module and the abstract specification it is shown to implement.)
`MCLives` and `MCData` each run several components that share no state: a
behaviour belongs to one component, named by `part`, while the others stay in
their initial state. The state space is the sum of theirs, and fairness of a
component that does not move is vacuous.

**Store** has the tables `configs`, `backends`, `health_states` (status) and
`dns_providers` as partial functions and one operator per SQL statement.
Backends are numbered in the order of creation because `ListBackends` sorts by
`created_at DESC`, which breaks ties between weights. A statement that fails
changes nothing, so only successes are transitions.

A provider row is the zone its provider writes to, or `"unusable"` when it does
not decrypt or its factory refuses it.

**Reconciler** adds the records `dns` of all zones, `lastRecords` and the passes. A pass is a
goroutine: `"loop"` is the periodic `ReconcileOnce`, a member of `Callers` one
goroutine of `triggerReconcile`. Its program counter names the next access to
shared state:

| pc | code | action |
|---|---|---|
| `get` | `ReconcileConfig` reads the config | `GetConfig` |
| `next` | `ReconcileOnce` between two configs | `NextConfig`, `EndOfList` |
| `backends`, `states` | the two queries of `getHealthyBackends`, then selection | `ReadBackends`, `ReadStates` |
| `decide` | `needsUpdate` | `Decide` |
| `resolve` | `resolveProvider` in `updateDNS`: the zone of the config's own provider, of the default one, or none; a failing query counts as no own provider | `Resolve` |
| `list`, `prune`, `apply` | `UpsertRecord`, one API call or iteration per step | `UpsertList`, `UpsertPrune`, `UpsertApply` |
| `dlist`, `erase` | `DeleteRecord`, likewise | `DeleteList`, `DeleteErase` |
| `record` | write of `lastRecords` | `Record` |
| `finish`, `fail` | `SetConfigReconcileError` | `Finish` |

A sorted slice of addresses is a function from addresses to the number of their
occurrences: two sorted slices are equal iff these functions are. `ids` holds,
for each pass, the listed records whose id is still valid, so that a delete or
an update of a record that another pass removed fails as it does at Cloudflare.
The zones are external; they are modelled from the calls the code makes: a record is
identified by its id, and a create of an identical record is refused.
`undisturbed` is a history variable: the passes that listed a name and saw no
write of another pass to it since. Records, listings and what a pass writes
belong to a place, a zone and a name; `lastRecords` belongs to the config, as in
the code, so after a change of provider it speaks of another zone than the next
pass would write to. `Fallback` is the zone of the default provider, or
`NoProvider` when it is nil. The callback `OnBackendSelected` (nil unless an aggregator
is attached) changes nothing here; it is a `RecordSelection` of History. A
handler that reads a row to compare or to merge it and then writes it is one
step; Edits takes it apart. The reconciler is always started: `Start` and `Stop`
are in ReconcilerLife.

**Engine** is type `Engine`: an unbuffered request channel (`Handover` is the
rendezvous), workers, a bounded result channel. `Discard` is the select whose
send cannot proceed: the context is done, or the channel is full for 100 ms.
A worker is a pair of the number of the `Start` that created it and an id. A
`Start` while the `wg.Wait` of a `Stop` is about to return reuses the WaitGroup
(`AboutToReturn`), which may panic; then the process has ended (`WaitPanicked`).
With `Recording` FALSE the history of the requests is not kept, for the
composition with the scheduler, which submits a backend again and again.

**Scheduler** composes the engine with the loop and the result processor. The
loop is the engine's only submitter, the processor its only consumer. The
requests are backends. Each database access is a step; `QueryFails` is a query
that fails, because the context is done or for another reason. Counters of
consecutive results stay at `MaxCount` once there, at least the largest
threshold, so that comparisons with thresholds are exact. Configs are not
created or deleted here; their backends and health checks are. A check is a
step that finds its target up or down; a check that the engine's context
cancels fails. The caller that starts the result processor (`main`) is not in
the repository; it is taken to do so once, before it stops the scheduler.

A second `Stop` closes `stopCh` again and a `Start` may reuse the WaitGroup
(`waitOver`): both panics are `panicked`.

`Thresholds` are at least 1, as the validation of `ConfigureHealthCheckRequest`
requires.

**Pool** is what an engine promises, without workers or pcs: requests are
accepted, completed into a bounded set of results, taken, or missed, the last
only when the results are full or the pool is shut. `Engine!ImplementsPool` is
the refinement, with the requests that workers hold as the pool's.

**CheckScheduler** has engines that behave as Pool promises, with one worker
each: `busy` is what the worker is on, `out` how many results wait. `TakeBatch`
copies the map of requests in any order, `SubmitNext` hands them out in turn and
blocks while the engine whose turn it is is busy. `Stop` waits for `Run` first
and then stops one engine after the other, holding the mutex (`locked`), which is
all that keeps `Start`, `Register` and the loop's copy of the map out. A `Start`
that comes before or during the wait starts engines which that `Stop` then
stops; one that comes after it starts engines whose contexts are done, and there
the model ends (`Calls`). A forwarder ends when it has a result and `stopChan` is
closed.

**ReconcilerLife** numbers the successful calls of `Start`. Each makes a stop
channel, runs a first pass outside the lock and launches a loop, which reads
`r.stopCh` anew whenever it enters its select (`EnterSelect`): an old loop may
end up waiting on a later channel. Both loops then run, which is harmless for
`RunningHasLoop` and `StopEndsLoops`; what their passes do to each other is the
overlap of Reconciler.

**StateMachine** is `ProcessResult` with its two counters; **Hysteresis** has no
counters but the sequence of results since the last reset, and sets the status
by how that sequence ends. `ImplementsHysteresis` compares them. Thresholds of
zero and less count as one (`effective`).

**History**: recorders and `flush` read the clock before they take the mutex
(`ComputeKey`, `ReadClock`), so the clock may move in between. `lost` and
`expired` are history variables for buckets whose upsert failed and rows deleted
as old. A bucket that is still in memory when the process ends is gone;
`health_history` has no foreign key, so rows of deleted backends stay until they
are old.

**Selector**: a counter of `CounterBits` bits; each call is given the healthy
backends of the moment, out of any pool in `Pools`. The loops of the code over
the slice are recursive functions of the index (`healthy`, `current`).
`FairShare` speaks of calls in a row with the same
backends and no wrap of the counter: at the wrap the turn may be cut short.

**RateLimiter**: per-client times of granted requests, `Allow` and `cleanup`
each under the mutex. A slice of times, of which only the members count, is a set
of entries; an entry carries the number of its request, so that two requests of
one instant stay two. `granted` and `refused` are history variables.

**Access**: a login is a request that walks through `SyncUser`, `syncRoles` and
`CreateSession`, one store call per step; role handlers likewise. `given`,
`taken` and `skipped` are history fields of a request: what others wrote to the
same roles since it read them, and writes of its own that failed and were passed
over. Some behaviour that the model shows and no property forbids: a first login
interrupted between `CreateUser` and `AssignRole` leaves a user without the
default role, and the next login does not repair it; a token that names only
unknown roles removes all roles, while one that names none keeps them all
(`afterUser`); a role list that is empty in `CreateConfig` inherits the roles of
the creator. An error of `GetRoleByName` is taken for an unknown role, and the
request goes on to its answer 200 (`PassOver`). Tokens are taken as issued and may be used at
any later time.

**Edits**: the handlers of configurations (`AddConfig` is `CreateConfig`, whose
roles are in Access), backends, health checks and providers as sequences of store
calls, `verify`, `lookup` or `read`, `write`, `log`. The
tables are one partial function from keys to rows, and the SQL statements three
generic ones (`Accepted`, `Written`), with foreign keys and cascades. A request
carries `touched`, the columns that others wrote since it read the row. An error
of the lookup in `Configure...`, a provider row that cannot be decrypted
included, counts as "no row", and the insert that follows is then refused. A
weight of 0 cannot be set by `UpdateBackend`, and a change of `config_id` is not
among the listed details of the audit line.

## 3. Runs

| Run | What it shows | Bounds |
|---|---|---|
| `RecPasses` | `UndisturbedUpsertExact` and `StaysInStep` with the loop and an on-demand pass, any one failing call, lost answers | 1 config, 1 zone, 2 backends, 2 addresses, 1 caller, 1 fault |
| `RecCache` | `CacheTruth`, `Converges`, `WeightedOneRecord`, and the comment `SuppressedOnlyWhenActive`, for the loop alone, with a provider of the config's own that comes, goes and cannot be used but never writes to another zone, disabled backends, changing methods and TTLs, a failing query or listing | 1 config, 1 zone, 2 backends, 1 fault |
| `RecConfigs` | `TypeOK`, `Converges` with two names, backends moving between configs, one restart | 2 configs, 2 backends, 1 restart |
| `SchedDetect` | `DetectsRecovery`, `DetectsFailure`, `SchedTypeOK` with two backends whose results compete for the result channel, one of which goes up and down | 1 config, 2 backends (`Changing`: 1), 1 worker, capacity 1, threshold 2, counters to 2 |
| `SchedStop` | `SchedulerStopReturns`, `NoOrphanState`, `StoppedSchedulerIsQuiet` with a failing query and a cancelled context, the engine stopped before, after or not at all, the scheduler started again, backends and health checks that come and go | 1 config, 1 backend, 1 fault, 2 starts |
| `Lives` | engine: `EngineTypeOK`, `StopWaits`, `OneFate`, `DropsNeedBacklog`, `ImplementsPool`, `StopReturns`, `SubmitReturns` over a second `Start` | 2 workers per start, 2 submitters, 3 requests, capacity 1, 2 starts |
| | CheckScheduler: `QuietAfterStop`, `SchedulerStops`, `AllChecked`, with `Start` at any moment | 2 engines, 2 targets, capacity 1, no calls after a restart |
| | reconciler: `RunningHasLoop`, `StopEndsLoops` | 2 lives |
| `Data` | roles: `AccessTypeOK`, `LoginSyncsRoles`, `UpdateReplacesRoles` | 1 user, 2 roles and a name that is none, 1 configuration, 2 requests at a time, 1 failing call, any initial roles |
| | edits: `EditTypeOK`, `OnlyProvidedFields`, `TrailTrue`, `TrailComplete` | 3 configuration ids, 2 backend ids, 2 values, 2 requests at a time, 1 failing call |
| | history: `HistTypeOK`, `Conservation`, `FlushedInTime` | 1 backend, 3 buckets, 2 recorders, 2 records, 1 failing write |
| | rate limiter: `RateExact`, `Forgotten` | 2 clients, limit 2, window 2, 5 instants |
| | selectors: `FairShare` | 2 backends, weights 0 to 2, 3 bits |
| | state machine: `ImplementsHysteresis` | thresholds -1, 1, 2, 3; 6 results |

Deadlock is checked except in `SchedStop` and `SchedDetect` (a panic ends the
process, and everything may have been stopped), `Lives` and `Data` (every bounded
request may be done, and nobody has to call anything).

Two backends are enough for the tie of weights, the change from one record to
another and a backend that leaves while one stays; a fault or a restart can
happen at every step, and what a second one finds is covered by the proofs of
`UndisturbedUpsertExact` and `StaysInStep`, which assume no bound. `RecPasses` also
passes with `ClientActs = {"share_ip"}` (shared addresses) and with a restart, in
two to three times the states, and with a provider of the config's own that
writes to a second zone (`Zones = {"z", "y"}`, `ProviderInputs <- OtherZone`) and
one backend; the proofs include all three. With capacity 1 and three
requests the result channel is full in many states. Two requests at a time are
enough for every way in which one of them finds what it read out of date; what
they find at the start is any state that matters, so longer histories add only
sequences of such pairs. Two lives let an old loop wait on the channel of the
next one. In the scheduler, detection needs two backends, because results of
different backends compete for the result channel; what a deleted backend leaves
behind and the shutdown need one, since loop and processor treat backends one at a
time, and the proofs of `NoOrphanState` and `StoppedSchedulerIsQuiet` assume no
bound.

With two backends and a full channel a worker may give up the results of the same
backend each time: then its status never changes, and nothing in the code excludes
that. `DetectsRecovery` and `DetectsFailure` are therefore about a backend of
which, if results are given up for ever, results are also delivered for ever
(`GetsThrough`); without this hypothesis TLC finds them violated.

Runs that expect a violation record where the code and a text of the
repository disagree; each is a finding with the quotation:

| Run | The text says | The code does |
|---|---|---|
| `RecOverlap` | one backend in DNS at a time; `ReconcileConfig` is safe from any goroutine | two overlapping passes leave two records of a weighted config |
| `RecPartial` | a write is suppressed when the backend is already active | after a half-done upsert and a flip back it is suppressed with nothing published |
| `RecSwallow` | no healthy backend: honest NXDOMAIN | a failed delete is remembered as done |
| `RecRename` | all healthy backends are published | after a change of the DNS name nothing is published under the new one |
| `SchedFlap` | threshold_unhealthy failures mark a backend unhealthy | the first failure takes `healthy` away |

Smaller disagreements came up as well and have no run of their own:

- the second of two overlapping `Engine.Stop`s returns early, although `Stop`
  "waits for all ongoing checks" (`engine.go:63`);
- an engine that is started again says it runs but its workers leave at once; a
  `Start` while a `Stop` returns may panic (`engine.go:57` and `75`);
- stopping a scheduler that was started a second time closes a closed channel
  (`SchedStop` reaches it);
- "Close merged channel when all engines stop" (`engine.go:309`): a forwarder that
  has no result waits for one for ever, because no engine closes its channel;
- the comment in `reconcileConfig` that a weighted config sticks with its active
  backend, where the lowest weight always wins;
- "a full diff-sync of their roles" (`oidc.go:275`) "on every login"
  (`specs/SSO_SPEC.md:1153`): a token that names no role skips the sync
  (`oidc.go:296` and `324`), and the user keeps the old roles. The code printed in
  the same document (`SSO_SPEC.md:497`) has the same condition;
- "Replaces the full set" of roles (`config_roles.go`): a role whose lookup fails
  is passed over (`config_roles.go:75-78`), and the answer is 200 without it;
- "Empty means all authenticated users may access it" (`config.go:19-20`): a
  configuration created with no roles inherits those of its creator;
- "full action trail for all write operations" (`README.md:12`):
  `UpdateConfigRoles` returns after an error with some roles removed or assigned
  and no audit line (`config_roles.go:67-82`).

The passing runs exclude these situations: `CacheTruth`, `SuppressedOnlyWhenActive`
and `Converges` are checked with no overlapping passes (`Callers = {}`), no failing
write (`FaultPoints`), no renames (`ClientActs`), no shared addresses, and one zone
(`Zones`). The last excludes a real one: when the provider of a config changes to
another zone, comes, or goes in favour of the default provider, `lastRecords` still
holds the addresses of the old zone, so that `needsUpdate` (`reconciler.go:250`)
suppresses the write to the new one as long as the healthy addresses stay the same,
and the old records are never removed. With `Zones = {"z", "y"}`, `Fallback = "z"` and
`ProviderInputs <- OtherZone` TLC finds all three properties violated within about
twenty steps.

## 4. Fairness

- *Reconciler*: weak fairness of the ticker, of the loop between configs and of
  every pass. Go runs every goroutine that can run, and API calls and queries
  return (their clients have timeouts). Handlers, probes, faults and restarts
  are not fair: they happen or not.
- *ReconcilerLife*: weak fairness of the first pass and of every loop, strong
  fairness of leaving the select once the channel it waits on is closed.
- *CheckScheduler*: weak fairness of `Run`, `Stop` and workers, strong fairness
  of the stop branch of `Run`; forwarders and the readers of the merged channel
  are not fair, since nobody has to call `Results`.
- *History*: weak fairness of the flush loop (its ticker goes on) and of a
  recorder that has its key; the clock and the recorders' calls are not fair.
- *RateLimiter*: weak fairness of `cleanup`, which has a ticker.
- *Engine*: weak fairness of workers (a check has a deadline, the send of a
  result gives up after 100 ms), of submitters and of the wait in `Stop`. Nobody
  has to read results: `StopReturns` and `SubmitReturns` hold without a consumer.
- *Scheduler*: the same, weak fairness of loop and processor, and strong fairness of the stop branches of the two
  selects, because a Go select chooses at random among its ready cases: the
  stop is not passed over for ever while ticks or results are ready too.

## 5. Proofs

For every value of the constants, from the named `ASSUME`s of the modules only
(bounds are numbers, sentinels are not values, thresholds of a health check are
positive, initial tables are consistent), and from the hypotheses given below.
The inductive invariants were checked by TLC on the instances of the runs before
they were proved.

**EngineProofs.** `EngineTypeCorrect`; `StopWaitsForWorkers` (if `Stoppers` has
at most one member: the second of two overlapping Stops does not wait);
`EveryRequestHasOneFate`; `NoDropWithoutBacklog`; `EngineImplementsPool` (these
three for `Recording`, without which there is no history to speak of). A `Start`
in the moment a `Stop` returns is included; after a panic nothing moves.
`EngineTypeOK` is not inductive: a worker that is busy, or a submitter that is
waiting, holds a real request (`TypeInv`). `StopInv` adds that workers exist only
for starts that happened and that a Stop that waits left the engine not running.
`FateInv` adds that requests being submitted are fresh and differ from each
other. The backlog theorem counts: a full channel holds `Capacity` different
requests, and the worker that gives up holds another one. The refinement shows,
action by action, that a step of the engine is a step of Pool or leaves what Pool
sees alone; it needs `FateInv`, because a request that two workers held would
stay in Pool's set when one of them completes it.

**SchedulerProofs.** `SchedTypeCorrect` for scheduler and engine together: the
engine's part is the engine's own invariant, so its lemmas are used again.
`NoHealthStateWithoutBackend`: between the reads of `handleResult` and its write
the backend may be deleted, and the foreign key refuses the write.
`StopLeavesNothingRunning`: the property says nothing of a Stop that still waits,
so `QuietInv` adds that a scheduler that was started and does not run has closed
its channel and that its Stop waits or has returned. `SchedulerDrivesEngine`: each
step of the composition is, on the engine's variables, a step of the engine or a
stutter. The scheduler submits a backend again and again, which `EngineNext` does
not allow (there a request is submitted once, so that its fate can be told), so
the theorem is about `EngineMove`, which does. The lemmas for `EngineTypeOK` and
`StopWaits` are proved for `EngineMove`, and `EngineStopWaitsForScheduledChecks`
takes `StopWaits` over to the composition; `OneFate` and `DropsNeedBacklog` speak
of requests that are all different and stay with the engine on its own.

**LifecycleProofs.** `RunningReconcilerHasLoop`: `LifeInv` adds that a loop in
its select waits on a channel made for its own life or a later one, so that the
loop of the current life waits on a channel that is still open.
`NothingCheckedAfterStop`: `Stop` stops the engines in turn, and `StoppedEngines`
says that those before `stopAt` are off and idle; `Run`, which could hand them
something, has been waited for, and `Start`, which could turn them on, is kept out
by the mutex and by nothing else.

**HealthProofs.** `StateMachineImplementsHysteresis`: Hysteresis decides from the
whole log of results, the code from two counters; `SMInv` says that each counter
is the length of the run of its results at the end of the log (`Tally`).
`HistTypeCorrect` and `NoProbeLostOrInvented`: `Conservation` is a sum over five
places and every step moves a count between two of them (`TotalAdds`,
`TotalMoves`); `HistInv` adds that nothing is drained outside a flush, without
which a flush that begins could overwrite what another one holds.
`SharesFair` proves `FairShare` for every pool: `SelInv` says that the picks are
what `chosen` gives for the last values of the counter, one after the other.
`Turns` values in a row leave each remainder once (`OneTurn`), and the offsets of a
backend are an interval as long as its weight, because `upTo`, the running sum,
grows by just that (`UpToGrows`). What the two loops compute for a slice of any
length is proved by a least counterexample: the library's well-foundedness of `<`
gives a smallest index at which the loop is wrong (`LeastNumber`), and the loop
takes it from the one before (`Induction`, `Loop`). `SelectorAssumption` names one
fact of arithmetic that the provers do not know, that a power of two is positive.

**AccessProofs.** `AccessTypeCorrect`, with the foreign keys; `LoginLeavesTokenRoles`;
`UpdateLeavesRolesAskedFor`. Neither account is inductive: `AccessInv` adds that
what a request has still to add is among the roles asked for, that what a login
has still to remove is not, and that an update that is still removing has all
roles asked for still to add. `RateLimited` proves `RateExact`: `RateInv` says that
the entries of a client that are still in the window are exactly the granted
requests of that window, whatever cleanup dropped, that entries have different
numbers, and that every window, not only the current one, holds at most `Limit`.
A window that ends later than now holds no more than the current one does
(`WindowOfRecent`).

**EditsProofs.** `EditTypeCorrect`, `AuditTrailIsTrue`, `AuditTrailIsComplete` (of the
handlers in Edits) and the action property `UpdatesOnlyProvidedFields`. `EditInv` follows one request:
the row it has read agrees with the table on each column that nobody touched
since, and once it has written, its commit is there with the row it read.

**ReconcilerProofs.** `TypeCorrect`: the types and the referential integrity of
the database under all handlers, passes, faults and restarts. It is inductive.

**UpsertProofs.**

- `UndisturbedUpsertsAreExact`. `UpsertInv` says of an undisturbed pass, at each
  point between listing and record, how the zone differs from what is wanted:
  while pruning by the records still to delete, while applying by the addresses
  still to visit.
- `LoopPublishesOneWeightedRecord` proves `WeightedOneRecord` for `Callers = {}`
  (`OnlyLoop`): the loop is then never disturbed, and a weighted pass wants at
  most one address because `selectWeighted` breaks every tie (`selectWeightedOne`).
- `LoopRemembersTheZone` proves `CacheTruth` under `OnlyLoop` and `CleanUpdates`:
  no write and no listing for a deletion fails, no renames, no shared addresses,
  and no provider takes a config to another zone (`FixedZones`: the default provider
  and all usable rows that clients send for a config write to the same zone).
  These are the situations of RecOverlap, RecPartial, RecSwallow and RecRename and
  the hazards of shared addresses and of a change of zone; queries and the listing of an upsert may fail
  and the process may restart anywhere. `CacheInv` has five parts. `NamesInv`: a
  config that is deleted while the loop has it on its list may leave its name to
  a new one, and the new one is not remembered before the list is done.
  `AddressInv`: no address is wanted twice, so no create is refused. `UpdateInv`:
  the ids of the records that an update has yet to touch are current, so it does
  not stop half-way. `ZonesInv`: the loop updates a zone that the config may have.
  `ZoneTruth`: `CacheTruth`, and the same for configs that are
  deleted but still on the list.
- `LoopSuppressesOnlyWhenActive` and `LoopLeavesNXDOMAIN` follow from the same
  invariant: the two comments of `reconciler.go` that RecPartial and RecSwallow
  refute are right as long as none of the excluded events happens.
- `AgreementIsKept` proves `StaysInStep` with no condition: any number of
  overlapping passes, faults, restarts, renames, shared addresses and zones. `InStep` is
  the agreement of each config's zone with the database together with passes that have read
  nothing that changed since. `PlanInv` carries the argument: names are unique, a
  pass deletes only what it does not want and creates only what it wants; so a
  pass whose rows are current touches one name, which is that of one config, and
  neither takes away nor adds an address of it, however often, and however late
  relative to other passes, it writes.
- `CurrentPassesAgree` is how that agreement comes about, under `OnlyLoop` and
  `CleanUpdates`: a pass whose rows are still current when it is done, or when
  `needsUpdate` suppresses its write, leaves `Target` published for its config.

The two last are the safety part of `Converges`: a current pass brings about the
agreement and nothing but the database ends it. What is left to TLC is that such
a pass happens.

Only model-checked: the liveness properties (`Converges`, `StopReturns`,
`SubmitReturns`, `DetectsRecovery`, `DetectsFailure`, `SchedulerStopReturns`,
`SchedulerStops`, `AllChecked`, `StopEndsLoops`, `FlushedInTime`, `Forgotten`),
because liveness under fairness is out of the prover's reach.

## 6. Plan

Modelled is every component with state of its own, and proved is every safety
property of a passing run. Left:

1. The safety steps of the other liveness arguments: what a processor that
   receives only results of one kind has counted (`DetectsRecovery`,
   `DetectsFailure`), and who still waits for whom in a shutdown.
2. Scheduler and Reconciler composed over one database, with a status that is
   about an address, for the change of a backend's address.

## 7. Not modelled

Sockets and ICMP packets; the OIDC exchange, signatures, expiry and revocation of
tokens; AES-GCM; HTTP routing, validation and JSON; the queries that only read
(status, history, lists, the audit log's filters); the audit lines of login and
role handlers, although `UpdateConfigRoles` may write without leaving one; reading the process
configuration; the Vue client; and the mock provider (test code). `main` is not
in the repository; how it wires the parts is taken from how they are used.
