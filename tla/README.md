# Solis: a verification development

TLA+ modules for `solis`, a Go service that polls a Solis inverter over Modbus,
keeps its daily counters in SQLite, computes monthly, yearly and total values
from them, and serves everything over REST and WebSocket. Every definition is
translated from the code; `PROJECT.json` maps each one to its lines.

## 1. Inventory

| Part | State | Operations | Interacts with |
|---|---|---|---|
| `period` | none | day, month and year keys; rollover windows | used by poller, aggregation, storage |
| `poller` | seeded, open day and base per key, confirmed reset, last accepted values, pending closes, emitted days, last status | poll cycle: seed, read, force-close, attribute, write, publish | Modbus, `storage.WritePoll`/`Seed`, event bus, cache, supervisor |
| `storage` | SQLite tables, meta table with its mirror in memory, one mutex | `WritePoll`, `Seed`, `CloseState`, sums, `WriteComputed`, `CleanupAll`, `EnsureCutover`, reads | poller, aggregator, services, backfill |
| `aggregation` | none | `BuildPlan`, sums, folds, offsets | aggregator, backfill |
| `aggregator` | debounce and heartbeat timers, last net rows | a run: plan, sums level by level, one transaction, cache merge | storage, event bus, cache, supervisor |
| `cache` | live values, revision | `ReplaceDomain`, `Merge`, snapshot | poller, aggregator, hub, services |
| `eventbus` | subscribers, their queues | publish, pump, drop or coalesce, close | poller → aggregator, cache → hub, supervisor → hub |
| `health` | per service: status, generation, restart budget, latch | report, beat, restart, latch, reset | all supervised services |
| `modbus` | connection, backoff | connect, read, mark lost, reconnect | poller |
| `websocket` | clients, topics, last state sent | register, subscribe, diff, send, drop slow clients | cache, event bus, frontend |
| `app` | slots of running instances | start order, replacement, shutdown with a deadline | everything |
| `maintenance` | lock file | `backfill` | storage, aggregation |
| `database` | files and schema version | backup, migrate, prune backups | before storage opens |
| `http`, `service`, `history`, `solis`, `config`, `logging`, `util` | none of their own | request handling, tables, decoding, parsing | |
| `frontend` | WebSocket client, stores | reconnect, resubscribe, apply diffs | hub |

What makes it hard. The inverter resets its daily counters around midnight, but
not exactly at the configured rollover time, and nothing tells the program that
it happened: it has to be inferred from the values, key by key, in the order of
a Go map, over polls that fail, a database that fails, restarts inside the
rollover window and outages of days. Everything else is computed from the daily
rows while polls, midnight and retention go on. Supervisor, bus, hub and Modbus
client add concurrency proper: instances that hang and are replaced, queues that
overflow, connections that die unnoticed, and a database file several processes
upgrade, back up and rewrite.

What makes each part correct:

* rollover windows: closing and opening day are adjacent and follow the calendar;
  nothing moves back in time;
* poller: closed days are final; no day is closed early, no close is lost, no
  value is written to a day that is already closed; no day is credited with
  another day's energy; health and events speak about committed data; an outage
  never stalls the watermarks;
* aggregator and storage: a frozen period is exact, a year is folded once and
  completely, retention never costs a computed value anything, a missed event
  only delays;
* supervisor and app: never two live instances of a component, late reports and
  late stops touch nobody else, restarts are bounded, `/health` is not stale, the
  store outlives its users, everything ends up recovered or exited;
* bus and aggregator loop: closed days arrive once and in order, a polled value
  waits for a bounded time;
* cache, hub, browser: what the hub believes it sent is what the browser shows,
  and the browser converges to the cache;
* Modbus client: it is connected over an open connection again and again;
* backfill: rewritten periods are exact, the baseline counts every day once;
* database: no rewrite without a sound backup, an exact migration, completed
  whatever crashes.

## 2. Modules

| Module | Models | Role |
|---|---|---|
| `Rollover` | `period/rollover.go` | pure definitions |
| `PollStore` | `writeDaily`, `closeDay`, `maxDay` | pure definitions of the storage guards |
| `DailyLedger` | what `WritePoll` promises | abstract specification |
| `Poller` | `poller/*.go`, `poller_store.go` | the poll loop and its transaction |
| `PollerProofs` | | theorems about `Rollover`, `Poller` and `Metering` |
| `Metering` | the inverter (external) in front of `Poller` | composition |
| `Aggregator` | `aggregator`, `aggregation`, `aggregator_store.go`, `cleanup.go`, cutover | runs over `DailyLedger` |
| `SumTheorems` | | induction, and what a sum over a finite set does |
| `AggregatorProofs` | | theorems about `Aggregator` and `Backfill` |
| `Backfill` | `maintenance/backfill.go`, `storage/backfill.go` | the job over `Aggregator` |
| `EventBus` | `eventbus/eventbus.go` | subscriptions with overflow and pump, used by the next two |
| `EventBusProofs`, `AggregatorLoopProofs` | | lemmas about the bus, theorems about the loop |
| `AggregatorLoop` | `aggregator.go` (loop, timers) | composition with `EventBus` |
| `LiveView` | `cache`, `websocket`, frontend `websocket.ts`, `useRegisterStore.ts` | composition with `EventBus` |
| `LiveViewProofs` | | theorems about `LiveView` |
| `Supervisor` | `health`, `app` (components, slots, shutdown) | |
| `SupervisorProofs` | | theorems about `Supervisor` |
| `Modbus` | `modbus/modbus.go` | |
| `Upgrade` | `database`, the lock of `maintenance` | |
| `UpgradeProofs` | | theorems about `Upgrade` |
| `MCPoller`, `MCMetering`, `MCAggregator`, `MCBackfill`, `MCLiveView`, `MCUpgrade` | | instances for TLC |

`Poller` implements `DailyLedger` (proved; with the day of the first start, before
the eve of which no poll writes), and `Aggregator` is built on
`DailyLedger`: what is shown about the aggregator holds for any writer that
respects the ledger, and the poller is one.

### Rollover
Time is a number of minutes; `Date`, `windowOn`, `WindowAt` and `LastEnded` are
the functions of the same names. `Expected(t)` is the day a key must be on at
least at `t` and `Limit(t)` the furthest one it may be on. A date has 24 hours:
days of 23 or 25 hours are not covered.

### Poller
One poll cycle is a sequence of actions that follow `pollCycle`:
`BeginCycle` (the clock is captured once), `Seed` or `SeedFails`, one of
`Disconnected`, `ReadFails` and `ReadAll` (the first and the last include the
force-close), one `AttributeKey` per key in any order, `Commit` or `WriteFails`
(the transaction), one `PublishClose` per pending close, `FinishCycle` (cache
and health). The clock (`Tick`) moves at any time and may jump over windows.
`Restart` replaces the instance between cycles, as the supervisor does after
`Stop` has waited for the loop; `Crash` may happen between any two steps.
Readings are arbitrary: the safety properties hold for a lying inverter too.

`cleanupStatus` is the half of `CleanupAll` that deletes status rows by age. It
runs beside the poller and may take the last row of the register with it, while
the poller keeps the status in memory. Any status in `Lasting` may have lasted
longer than `error_retention` at any time; the history variable `statusStored`
keeps the latest status stored, deleted or not. The other half deletes only
periods that are closed and frozen, and is a step of `Aggregator`.

Values are tenths of a kWh, so that the threshold of a reset (a tenth of the
base) is a real computation. `NoVal` is "no row" or "no base"; `NoDay` the empty
key. Both are below every proper value, which is how the code's string
comparison with the empty key behaves. Left out: warnings and logs, register
decoding, live (non-daily) values, and WritePoll's rejection of foreign keys.

The initial states are those `EnsureCutover` and `initDayMarks` leave: the
watermarks of the day before yesterday, possibly v2 rows for yesterday and
today, possibly a status row of v2 (`LegacyStatus`), possibly a register added
later and without a watermark. A v2 row ahead
of `Limit` (the clock was set back over the upgrade) is not an initial state.

### Metering
An honest inverter: counters grow within a day and are reset together, once per
day, inside the window and not before local midnight. After the reset a counter
does not, within the window, exceed its whole previous day (unless that was 0).
A cycle is short against a counter's unit, so counters and clock stand still
during it. These are assumptions about the device; they are written at the top
of the module. The deletion of status rows is left out here: no row, watermark or
counter depends on a status.

### Aggregator
A run is `BeginRun` (clock and watermarks), `netDays`, `months`, `years`,
`totals` (each reads rows at its own time), and `WriteComputed` (one
transaction). Between them `StoreRow`, `StoreClose`, `Midnight` and
`cleanupPeriods` may happen; `RunFails` covers failing queries, the run's timeout, a
stop and a crash. The history variable `history` keeps what retention deletes; `skipped` remembers the net days a run froze without computing
them, those further back than `MaxNetDays`, which `NetFinal` exempts.
`DaysPerMonth` and `MonthsPerYear` give a regular calendar, so that a year can
end on a small instance. Net months, years and totals are differences of two
values of the same transaction and are left out. The sums of one level are one
step. The other watermarks (frozen, baseline) cannot move under a run because
the supervisor never runs two aggregators; that is `OneInstance` of `Supervisor`.

### Backfill
One `Backfill(n, force)` is a whole job: it holds the exclusive lock, so no
server runs, and its writes are one transaction. It may come whenever the
aggregator is between runs, any number of times. `countedFrom` remembers whether
a forced job has extended the baseline to the years before the cutover.

### EventBus, AggregatorLoop
`Publish` reaches all subscriptions in one step. The pump is modelled step by
step because `drain` sends an event before it removes it from the overflow list,
so that for a moment the event is in both. In `AggregatorLoop` time passes in
poll intervals; the loop is either in a run, which takes up to `MaxRun`
intervals, or answers events and timers before the next interval is over.
`Run` covers a failing `HasDailyData` too, which counts as a run.

### LiveView
One browser with its connection, the hub, and the two writers of the cache.
The cache write and its event are two steps, because the event is published
after the lock. A frame carries values and removed keys; equal values are equal
model values, which stands for the comparison after rounding to two decimals.
Flush timers and ping intervals are nondeterministic. `HubStop` and `HubStart`
are what the supervisor does with the hub; `Dies` is a half-open connection.
Keys the hub refuses, error and pong frames are left out: they change no state.
When the aggregator runs is left to `AggregatorLoop`; here it may run any time.

### Supervisor
A step is what the supervisor's goroutine does between two waits: one component
of a sweep, a wait for a `Stop`, the publication. `Begin` is `start`. Instances
are numbered by generation and stay in the model after their replacement, as
they may still report, start or stop. Time advances by one sweep interval;
instants are kept as ages, cut off where no comparison tells them apart. An
instance that is neither hung nor stopping beats within its grace (`OnTime`):
a supervisor that restarts a starved but sound component does nothing wrong, and
the budget makes that visible as a fault. A watched part that fails stays failed.

### Modbus
Each access to the atomic flag `connected` and to `mc`, which a mutex of its own
guards, is a step. Replies, line errors and transport errors are chosen freely.

### Upgrade
Processes take the lock, prepare the database and go on as a server or a job. A
database starts in any schema version; status rows have an instant and a layout.
A backup exists from its creation and is partial, unsound or sound; faults are
failing copies, checks, transactions and removals, and crashes at every step.
`Migrate` does not look at the version again, as the code does not, so that a
second server migrates again. An instant stands for a millisecond: the fixed layout
(`TimestampLayout`) has no finer ones, and `NormalizeStatusTimestamp` truncates what
an older layout holds. Two rows of one register within a millisecond would become
one; polls are at least a second apart (`config.go:210`).

## 3. Runs

| Run | Instance | Properties |
|---|---|---|
| `poller_two_keys` | 2 keys, readings {0, 20}, four instants over two windows | `NoLateWrite`, `NoDayClosedEarly`, `CloseNeverLost`, `EventAfterCommit`, `ClosedDaysFinal` |
| `poller_one_key` | 1 key, readings {0, 5, 20}, two statuses whose rows retention may delete, v2 rows, a first start at any instant, the key may lack a watermark | `RowImpliesClose`, `HealthyMeansStored`, `StatusInStep`, `ImplementsLedger` |
| `poller_live` | 1 key, readings {0, 20}, v2 rows, a rollover at 00:30, fairness | `IndInv`, `WatermarksCatchUp` |
| `metering` | 2 honest counters {0, 1, 20} over a rollover | `NoEnergyInvented`, `LedgerExact` |
| `aggregator` | 1 key, five days, months of two days, years of one month, one day of retention | `AggregatorTypeOK`, `FrozenExact`, `BaselineExact`, `ComputedNeverShrink` |
| `aggregator_net` | 2 keys, one possibly without a watermark | `NetFinal`, `FrozenExact` |
| `aggregator_live` | 1 key that may be new, four days, months of one day, years of two, a first start on either day of a year, jobs for up to two closed years, fairness | `FrozenExact`, `BaselineSound`, `PeriodsFreeze` |
| `aggregator_loop` | window 4, heartbeat 5 (the code's factors), runs of up to 2 intervals, a channel of 4, 2 closed days, 2 polls per interval | `LoopTypeOK`, `ClosesInOrder`, `BoundedDelay`, `HeartbeatKept` |
| `supervisor` | 2 components (a reader and a hub), a budget of 1, 2 faults, fairness | `SupervisorTypeOK`, `OneInstance`, `SlotCurrent`, `RestartedForCause`, `SilentNeverOK`, `CrashLoopBounded`, `StoreOutlivesUsers`, `Settles` |
| `live_view` | a polled key and one computed from it, queues of one element, 2 changes, 2 arrivals or departures of viewers, 1 fault, fairness | `LiveViewTypeOK`, `MirrorsLast`, `Converges` |
| `upgrade` | 2 servers, 1 job, 1 backup kept, 3 status rows in colliding layouts, 1 fault, fairness | `RewriteCovered`, `UpgradeExact`, `UpgradeCompletes` |
| `modbus` | serial line, the code's limits, fairness | `KeepsAlive` (violated) |

All but `modbus` pass. Every property of a passing run has a mutant in
`PROJECT.json`: a faulty variant of a definition, stated beside it in the module,
that makes TLC report a violation.

What the run `modbus` shows. `markLost` clears `connected` (`modbus.go:253`),
then closes the connection (256). If the reconnect loop's timer fires between the
two, `connect` opens and stores a new connection and sets `connected`; the close
then hits the new one and sets `mc` to nil. After that `connected` stays true
without a connection: a read returns `ErrNotConnected` without calling
`markLost`, the loop sees a connected client and waits, and the component beats
as Healthy, so the supervisor does nothing either. The poller reads nothing until
the process is restarted. The code says "Run keeps the single connection alive"
(`modbus.go:4`) and "IsConnected reports whether the connection is up" (187). The
window is short; closing the connection before clearing the flag, or doing both
under the mutex, would remove it.

Bounds and why they are enough. A rollover time of 23:59 gives windows that
straddle midnight with the rollover before it, the default; `poller_live` has
00:30, where the window (23:30 to 01:30) belongs to the date it ends on. The other
times of day are covered by the proofs. The instants are one per region the code distinguishes: outside a
window, in its first half, in its second half after midnight, and in the next
window, where a key that missed the first is forced on. 0 and 20 are a reset, 5
a dip; in `metering` growth from 1 to 20 hides a reset. Two keys are needed for
one key's confirmed reset to matter to another. `EmittedMemory` is 1 (8 in the
code) so that it overflows. The aggregator's days cover the cutover, the two
days before it and the close of a whole year after it. `MaxNetDays` is 3
in `aggregator`, so that a run skips days, and the code's 62 in the other runs. Keys are symmetric in the safety runs, and so are the two
statuses of `poller_one_key`; no symmetry is used for liveness. Deadlock is checked in the poller's runs; the aggregator's
runs disable it because the calendar ends and a database without daily rows
leaves the aggregator idle.

In `aggregator_live` a year is two days, so that the cutover year, the end of a
year, its fold, retention of zero days and a job over two closed years all happen.
The server starts on the first of January too, where the year the cutover closes is
not the one the baseline begins with. The loop's run uses the code's
factors; the channel is shortened from 16 to 4 so that it overflows into the list.
The supervisor's budget is 1 (3) and its graces are 1, 1 and 2 intervals; two
faults are enough for a failure and a second one of the successor, of the other
component, or of the supervisor itself, which is what the budget, the generations
and the escalation are about. Components differ only by slot and stop order, so
one of each kind is enough. In `live_view` one connection name is used again and
again; frames of an older connection die with it. The run has one value per key at a
time, at most one live connection and few viewers; `MirrorsLast` is proved for any
number of them. It says nothing of a key after its removal. Queues of one element make every
overflow happen. Two servers and a job are needed for the lock; with one backup
kept, rotation always has something to remove. Deadlock is checked except in
`live_view`, where the viewers, changes and faults are bounded and a half-open
connection may be all that is left, and in the runs of `Aggregator`.

Fairness. Poller: the loop's timer fires; seeding, the transaction and a poll do
not fail every time (strong fairness, since failures and crashes may disable
each step again and again); the steps after a commit cannot fail. A poll
"succeeds" when it reads everything or when it finds Modbus disconnected: if a
connected gateway answered every read with an exception for ever, the loop would
return before the force-close, and the watermarks would stand still until a read
succeeds or the connection drops. Aggregator: the heartbeat starts a run again
and again, and no step of it fails every time. Supervisor: its goroutine is scheduled,
tickers and timers fire, an instance that does not hang starts and beats; nothing
is assumed of faults, of a hung instance or of the end of the jobs. LiveView:
goroutines and timers go on, the poller polls, the browser never gives up
reconnecting; strong fairness is not needed because faults are bounded. Upgrade:
a process that has begun goes on, and a server that can start is started again
and again (strong, since a job may hold the lock in between). Modbus: loop and
poller go on, and the inverter is reachable infinitely often. No fairness is
stated in `AggregatorLoop`: its bounds are safety properties of ages.

## 4. Proofs

Checked by TLAPS for every value of the constants that satisfies the assumptions
of the modules: `RollTimeAssumption` (a time of day in minutes),
`PollerAssumption` (mainly: the day keys cover the days the instants lead to),
`MeteringAssumption` (a counter can read 0, and v2 left no rows of the days the
inverter is watched), `LedgerAssumption` and `AggregatorAssumption` (mainly: day
keys have no gaps, and a first start is later than the first year),
`BackfillAssumption` (a job asks for a natural number of years),
`LiveViewAssumption` (computed keys have a polled source, no value is the absent
one, a viewer can be counted), `EventBusAssumption` and `AggregatorLoopAssumption` (a run is shorter than the
debounce window, the window shorter than the heartbeat; the first holds in the
default configuration, where `app.timeout` and `poller.interval` are both 30 s, but no
validation enforces it), `SupervisorAssumption`
(mainly: the graces are ordered as in `managed.go` and the slots belong to
components) and `UpgradeAssumption` (mainly: of one instant a table has at most one
row in the fixed layout). The counters the models bound (faults, polls, closed days, changes)
are constants too, so the theorems hold for every bound.

`PollerProofs` begins with the rollover: `RolloverDays` (the expected day is within a day of the
calendar date, and inside a window it is the closing day, next to the opening
one) and `RolloverMonotone` (neither the expected day nor the limit moves back).
The argument: windows repeat every 24 hours and are two hours wide, so the last
window that ended is bracketed by the rollover times of two adjacent dates.

Then `PollerIndInv` proves `Spec => []IndInv`, and the named safety
properties follow from it. Why the strengthening is needed:

* `CycleInv`: what a cycle is about to write is the base of the key, under its
  open day; without it nothing is known about `Commit`'s arguments;
* `MemoryInv`: a fresh instance knows nothing, so `Seed` starts from the
  database alone;
* `DaysInv`: closed < open <= limit, also against the instant the cycle
  captured, because the clock runs on during a cycle;
* `FirstCloseInv`: the first close of a register without a watermark;
* `RowsInv`: no row lies ahead of the open day and none exceeds the base, so a
  restart that infers an advance from a row is right;
* `AcceptedStored`: what a cycle attributes is its reading, and after the commit
  the row holds exactly that, which is what the cache is about to show;
* `StatusInv`: the last status row, if retention has left one, is the latest one
  stored, so a fresh instance seeds from that or from nothing.

One lemma per action shows that it preserves the conjunction; the actions that
attribute one key share `VisitInv`. `PollerClosedDaysFinal` and
`PollerImplementsLedger` are step properties, as is `PollerHealthyMeansStored`, and use the invariant of the state
before; the refinement maps the ledger's `today` to `Date(now)` and everything
else to itself. A commit is one `WritePoll` of the ledger, a clock step that
changes the date its `DayPasses`, all other steps stutter. That no poll writes
before the eve of the first start (`SinceCutover`) is an invariant of its own on
top: a key is placed on a day by its watermark or by the clock, and neither goes
back behind it.

`SupervisorProofs`: `SupervisorInv` proves an inductive invariant for every
number of components, restart budget, grace and fault bound; `OneInstance`,
`SlotCurrent` and `StoreOutlivesUsers` follow. Why the strengthening is needed:

* `NewestLives`: only the newest generation is live, so `Begin` may add one only
  when the last is gone;
* `Forgotten`: a live instance whose entry was cleared had its `Stop` time out,
  and the component is then latched or the process ends, so no `Begin` follows;
* `Starting`: before `Run`'s start loop reaches a component it has no instance;
* `Sweeping`: the component being restarted is not latched, which rules out the
  case of `Forgotten`;
* `Stopping`, `Closing`: behind `stopAll` only abandoned instances are live, and
  the store closes after it and after the jobs.

There is one lemma per step of the supervisor and one for all steps of an
instance, which may only leave the live states or move between them.

A second invariant of the same module, `CauseInv`, gives `RestartedForCause`,
`SilentNeverOK`, `CrashLoopBounded` and `SupervisorTypeOK`. It accounts for time:

* `Timely`: a sound instance is within its grace, so an overdue one is hung,
  stopping or failed;
* `Made`, `Counted`, `Fresh`: an entry's report and heartbeat are those of the
  instance it names, so a failure that is seen is one that happened;
* `Covered`: the restart counter covers every restart since the last proof of
  health, the one that is going on included;
* `Passed`, `Shown`: what a sweep found sound was within its grace when the sweep
  took its "now", and a snapshot has aged no more than its own age since then.

The second part of `PollerProofs` is about `Metering`: `MeteringInvariant` proves `IndInv` together with an invariant
of the honest inverter, and `EnergyNeverInvented` and `HealthyLedgerExact` follow.
`MeteringIsPoller` says that `Metering` only restricts `Poller`. The argument:

* `Inverter`: the inverter counts the expected day, or the opening day of the
  window, and then it is past the midnight of that window, whatever the clock
  does next: a later window has a later opening day;
* `KeyBehaves`: no key is ahead of the inverter, and what it compares with is
  part of the count of its open day. A key that stays on the closing day after
  the reset is blind after midnight and held, or it has a base above 0, and then
  the counter does not exceed the count of the closing day: what it accepts there
  is too little, never too much;
* `CycleReads`: outside the windows the open day of every key is the inverter's,
  so no reading is below the base, none is discarded, and the transaction stores
  them all.

`SumTheorems` and `AggregatorProofs`: `AggregatorInvariant` proves an inductive
invariant of the run and the tables for every calendar of regular months and
years; `FrozenPeriodsExact`, `NetDaysFinal`, `BaselineIsExact` and
`ComputedValuesGrow` follow. `SumTheorems` proves of sums over finite sets of
numbers that they are additive over disjoint sets (`SumUnion`) and grow with the
set (`SumLeq`). Its induction is by a least counterexample (`NatSetInduction`),
stated of a set instead of an operator, which none of the provers could
instantiate. Why the strengthening is needed:

* `Placed`, `Closed`: a watermark stands where the cutover put it or behind what
  every register has closed, so the ledger cannot touch a frozen period;
* `Kept`: retention has deleted no row that a computed value still depends on;
* `Running`: the clock and the watermarks a run has read are behind the current
  ones at most, and a day they show as closed stays closed;
* `NetDone`, `MonthDone`, `YearDone`, `FoldDone`, `TotalDone`: what a run has
  collected is final for closed periods, and lies between what is stored and what
  the ledger holds for open ones, although polls store rows between its steps;
* `Bounded`: no stored value of an open period is above what its days hold, so
  the next run does not store less.

These parts are `CoreInv`. For a server alone, `AggregatorInv` adds that the
baseline is the sum of all rows since the cutover year and that no total exceeds
what was stored. A maintenance job makes the baseline another sum and may even
make it smaller, so for `Backfill` the module keeps `CoreInv` and replaces that
part: `BackfillInvariant` proves `BackfillInv`, from which
`BackfilledPeriodsExact` and `BaselineIsSound` follow. The argument:

* `Unpurged`: retention has deleted no row from `purgedBefore` on, so the periods
  and the baseline `checkPurged` lets through are sums of all their rows
  (`JobRows`); a frozen period ends no later than today, so its sum is final, and
  an open one is at most what the ledger holds (`JobPeriods`);
* `Settled`: the rows a baseline counts cannot change any more. Since the cutover
  year that is so because every register has closed the last folded year; for
  the years before it, which a forced job adds, because no poll writes before the
  eve of the cutover. `BaselineStep` then follows a fold for any first day. The
  exception is a cutover on the first of January, whose eve belongs to the old
  year: there the baseline is proved to be no more than the sum.

`EventBusProofs` has the lemmas about one subscription for every channel size
and every set of events: after a publication what is under way (channel, then
the overflow list without an event the pump has already sent) ends with the new
event or, for a covered update, is unchanged (`PublishInFlight`); the pump keeps
it (`PumpKeeps`), and a receiver takes its head (`ReceiveTakes`).
`AggregatorLoopProofs` builds on them: `AggregatorLoopClosesInOrder` (the closed
days under way are exactly those published and not yet received, in order),
`AggregatorLoopBoundedDelay` and `AggregatorLoopHeartbeatKept` for every window,
heartbeat and duration of a run. Their invariant ties the three clocks together:
the age of the last run bounds the debounce timer, the idle time and the
heartbeat timer add up, and a value that waits is known to a timer or its update
is in the channel.

`LiveViewProofs`: `LiveViewTypes` and `HubMirrorsBrowser`, for every number of
connections, set of keys and size of the queues. What the browser will show is a
fold over the frames on their way; `ShownLoop` unfolds it into a loop, from which
appending a frame (`ShownAppend`, the hub sends) and taking the first one
(`ShownTail`, the browser renders) follow by `NatSetInduction`. The invariant is
`MirrorsLast` with the types (`TypeInv`), which include the bus's (`Sound`): a hub
that has been replaced has no clients and no subscription, a frame that finds the
queue full costs the client together with what the hub remembers of it
(`SendIs`, `ForgetIs`), and a browser without a connection has nothing to mirror
(`NoMirror`). So what was counted as sent is never lost alone.

`UpgradeProofs`: `UpgradeInvariant` proves `CoverInv`, what each process knows of
the database and of the backups, for every number of servers, jobs, kept backups,
rows and faults; `RewritesAreCovered` (a step property) and `UpgradesAreExact`
follow. The argument for the backups:

* `Exclusive`: an active job is alone, so its backup stays the newest one
  (`JobFile`) and rotation, which keeps the newest, cannot take it;
* `Versions`: an old schema is opened by nobody, so it does not change and no
  server rotates while it is there; a server that migrates it has saved exactly
  that (`Fresh` while it verifies, then `Saved`);
* one lemma, `Bystanders`, shows for all actions that a process that does not step
  knows what it knew; each action then has a lemma about the process that steps.

For the rows, `NormalizedLoop` unfolds the fold into a loop (a solution of its
recursion exists, built up from the empty set). `MergedUpto` is the loop's
invariant: the rows ahead are untouched, those behind are not legacy, every instant
taken is there in the fixed layout, and no two rows are the same. `ExactInv` adds
that a table that is migrated again (`NormalizedAgain`) or gets one more row
(`RecordMerged`) stays merged, and that nobody gets past `checkCompatible`
with a schema it refuses.

Only model-checked: liveness (`WatermarksCatchUp`, `PeriodsFreeze`, `Settles`,
`Converges`, `UpgradeCompletes`), as fairness and `ENABLED` are out of the prover's
reach, and `KeepsAlive`, which is violated. Every safety invariant and every step
property of the passing runs is stated by a theorem.

## 5. Observations

They bound what the properties say.

* A first v3 start inside the window after midnight, with a v2 row of the
  cutover day, opens the cutover day without closing the day before. The close
  follows at the next rollover. `CloseNeverLost` and `WatermarksCatchUp` exempt
  the cutover day.
* A failed transaction leaves base and last accepted value advanced in memory:
  the next poll compares with values that were never stored. No row is wrong
  because the counters only grow, and a restart goes back to the stored row.
* A poll that is Healthy shows the rows it wrote. For a key whose value it
  discarded it still shows the last accepted value, which may be that of a failed
  transaction and in no row.
* Retention deletes status rows by age alone (`cleanup.go:141`), the last one of a
  register included. A status that outlasts `error_retention` then has no row until
  it changes or the poller restarts, which stores the unchanged status again.
  `StatusInStep` has the case. (Periods are different: what is not closed and frozen
  is kept.)
* A register without a watermark has no missed closes and holds back every
  freeze until its first close.
* `aggregation/plan.go` says of the net days skipped after a long gap that they
  will never get a net row; a day that had one from an earlier run keeps it, frozen
  with a value that may not be final. `NetFinal` exempts the skipped days.
* Totals start on 1 January of the cutover year, while years freeze relative to
  the last closed day: on 1 January these are different years.
* `eventbus.go` says of a dropped update that "an already-queued event covers the
  dropped one". That is not always so: the queue may hold only other events, or
  the overflow list an event the pump has already sent but not removed. The
  heartbeat repairs it for the aggregator (`BoundedDelay` has the case), the next
  poll for the hub.
* `LiveView` without the condition that the server has a value would not converge:
  if the last viewer of a key leaves, the cache loses the key and a viewer comes
  back, the snapshot has neither a value nor a removed key, and the browser goes
  on showing the old one, against the comment in `useRegisterStore.ts:177`.
* A copy that fails leaves its file; `ListBackups` counts it and
  `RunPeriodicBackups` rotates after a failure too, so that as many failing
  backups as are kept remove every sound one. `RewriteCovered` holds because
  migrations and jobs verify a backup of their own first.
* Two servers may hold the shared lock. With one backup kept and two concurrent
  upgrades the backup of the v2 database may be rotated away right after the
  migration.
* `v3_migration.go:90` says that of two rows of one instant "the older one is
  kept"; if the newer one is normalized already, the older is deleted. The instants
  are the same either way.
* A forced backfill soon after a cutover on the first of January counts the last
  day of the old year as it stands, although a register that has not closed it may
  still raise it. The baseline keeps that value until another job. `BaselineSound` speaks of equality except for this case, where the baseline
  may be less, never more.

## 6. Plan

Done: the models of `Rollover`, `PollStore`, `DailyLedger`, `Poller`, `Metering`,
`Aggregator`, `Backfill`, `EventBus`, `AggregatorLoop`, `LiveView`, `Supervisor`,
`Modbus` and `Upgrade`, and the proofs of their safety properties. What would come
next:

1. a clock with daylight saving in `Rollover`;
2. the handlers and services, if they ever keep state.

## 7. Not modelled

Read queries, HTTP handlers and services (stateless), register tables and
decoding, configuration, logging, rendering in the frontend; the initial
construction of the application, whose failures start nothing; the bus's unused
policy; dates of 23 or 25 hours.
