# Meerkit in TLA+

Meerkit runs *monitors* on schedules: a plugin module probes something, the
conditions of the monitor judge the result, a change of state is announced on
notification channels, and a status board shows the history and raises *trend
rules* over it.  The server is one Go process (`src/internal`) over one
database (SQLite or MySQL) with plugin processes, browser extensions and a web
interface around it.

The modules here model the parts of that server in which order matters: the
execution of monitors and everything that reads and writes the same rows
meanwhile, the life of plugins and of the browser connections they use, the
transfer of configuration, and who may use the API.  Line numbers are those of
the files under `src/`; `PROJECT.json` maps every definition to the lines it
stands for.

## The system

| Component | State it keeps | Operations | Hard behaviour |
| --- | --- | --- | --- |
| Runner (`runtime/runtime.go`) | one mutex per monitor | `Run` (API, waits), `TryRun` (scheduler, gives up), `runLocked` | a snapshot of the monitor is read, a module works for up to minutes, a transaction writes back |
| Condition engine (`core/condition.go`) | none; a baseline in the monitor's row | evaluate rules, combine them | `changed` compares with a result read before the module ran |
| Store (`store/`) | tables: monitors, records, deliveries, channels, board items, shares, system configuration, plugins, sessions, tokens | one transaction per call | handlers are sequences of calls, without a lock around them |
| Monitor and board handlers (`api/`) | none | create, PATCH, delete, clear records, run | PATCH reads a row, applies the payload, writes every column |
| Sender (`runtime/runtime.go:268-357`) | a goroutine per execution with something to send | three attempts per delivery, one last update | rows and channels disappear under it; the process stops |
| Status board (`statusboard/`) | runtime state of the trend rules, in the item's row | samples, trend rules, snapshot | windows over paged history, restarts of the evaluation |
| Scheduler (`runtime/runtime.go:359-595`) | a task per monitor, `activeRuns` | poll, launch | the list and the configuration change under a poll |
| Runtime configuration (`runtimeconfig/`) | six domains with versions, in memory and in `system_configs` | update, reset, import, subscribe | applied before it is stored; rolled back; notices coalesced |
| Cleanup worker (`runtime/cleanup.go`) | a timer | prune records and deliveries | prunes what a sender is about to settle |
| In-app centre (`notification/inapp`) | subscribers | publish, mark, delete | counts read and published by several handlers |
| Plugin manager, registry (`plugin/`, `monitor/`) | processes, active modules, execution gates | import, trust, enable, replace, disable, uninstall, supervise | no lock covers an operation; a module is replaced with calls in flight |
| Browser manager (`browser/manager.go`, the extension's `background.js`) | connections, pending commands, captures | command, chunk, event | late answers, reconnections, timeouts |
| Browser bridge (`browser/manager.go`, `sdk/browser.go`) | queues, captures of a plugin | start, stop, events | full queues, events before the answer, a stream that breaks |
| Authentication (`auth/`, `api/auth.go`, `api/tokens.go`) | key, sessions, tokens, failed logins, one pending secret | set-up, login, change of key, tokens | check, then act; renewal of a session read earlier |
| Configuration transfer (`api/config_transfer.go`) | none | export, preview, import | validated against tables that change before the transaction |

How they meet: the scheduler calls `TryRun`, the API calls `Run`; `runLocked`
looks its module up in the registry, passes the gate of a plugin, evaluates the
conditions, asks the status board to judge its items, commits everything in one
transaction and starts a sender.  Handlers, imports and the cleanup worker write
the same tables at any time.  A plugin in turn asks the host, over its bridge,
for commands and captures, which the browser manager passes to an extension.
Every request passes `requireAuth`.  Memory (mutexes, tasks, senders, processes,
connections) is lost when the process stops, tables are not; one host is active
at a time (`docs/operations/deployment.md`).

`PROJECT.json` lists every component with what is modelled of it, and under
`hazards` what is hard to test in this code, line by line.

## Modules

| Module | Models | Composes |
| --- | --- | --- |
| `AlertLedger` | what receivers are promised: a recovery answers a trigger, a trigger is repeated only where that is allowed | abstract specification, refined twice by `MonitorExecution` |
| `MonitorExecution` | runner, evaluation of the board, commit, and the handlers that write monitors, items and records | the runner with the API and the database |
| `MonitorExecutionProofs` | theorems about it | |
| `Conditions` | operators, ALL and ANY, and the results an execution reads, judges and stores | the engine with the runner and edits of the monitor |
| `NotificationDelivery` | the sender, delivery rows, channels, readers, cleanup, crash | the sender with the API and the cleanup worker |
| `NotificationDeliveryProofs` | theorems about it | |
| `StatusTrend` | samples, trend rules, paging, validation and edits of one board item | the evaluator with the runner's order of events, and the API |
| `Scheduler` | polls, tasks, slots, runs | the scheduler with the runner's lock, the API and the configuration |
| `RunnerProofs` | theorems about `Scheduler`, `StatusTrend` and `Conditions` | |
| `RuntimeConfig` | versions, apply, store, roll back, notices | the manager with its store, its handlers and its subscribers |
| `PluginLifecycle` | packages, processes, gates, registry, rows, executions | manager, registry and runner, with the handlers that write monitors |
| `PluginLifecycleProofs` | theorems about it | |
| `BrowserAgents` | connections, commands, chunks, captures | the browser manager with the extension |
| `BrowserAgentsProofs` | theorems about it | |
| `BrowserBridge` | one plugin's captures and their events | the manager's session with the client of the SDK |
| `BrowserBridgeProofs` | theorems about it | |
| `ConfigTransfer` | export, validation, preview, import in both modes | the transfer with the handlers that edit the same tables |
| `ConfigurationProofs` | theorems about `RuntimeConfig` and `ConfigTransfer` | |
| `Authentication` | key, sessions, limiter, API tokens, the token MCP creates | the service with its tables and with the handlers that use it |
| `AuthenticationProofs` | theorems about it | |
| `MC...` | instances for TLC | |

Definitions marked *Fault* in the modules are never part of a specification:
each is a variant of the definition that follows, with a plausible mistake,
kept to show that a property notices it (`mutants` in `PROJECT.json`).

Each module states, in its own invariant (`BoardInv`, `PollsInv`, `PluginsInv`
and so on), its types and what every state keeps, as a conjunction of named
parts.

### MonitorExecution

`call[c]` is a goroutine in `Run` or `TryRun`, with the local variables of
`runLocked` that outlive a database access.  Its phases:

    idle -> waiting -> locked -> executing -> evaluating -> committing -> committed -> idle
    Run     Acquire    Load      Execute      EvaluateBoard  Commit       Finish

`TryRun` goes from idle to locked.  `LoadFails`, `EvaluateBoardFails` and
`CommitFails` are the error paths.  Each database read and each transaction is
a step, so anything can happen between the reading of the monitor, the
execution of the module, the judging of the items and the commit.  The outcome
of the conditions and of each trend rule is arbitrary: the lock and the
transactions have to be right whatever they yield.

`request[q]` is a handler between its read and its write (PATCH of a monitor or
of an item, clearing of records), with what it will write.  `Restart` loses
`call`, `holder`, `request` and `sending`.

`book` and `trend` are history: what was announced about a monitor or about an
item's rule, in the terms of `AlertLedger`; `reopened` records that an operator
reset the stored state, after which a second trigger is legitimate.

### Conditions

One execution at a time of one monitor: `Load` reads the rules and the baseline,
`Execute` gets an answer and a duration and judges them, `Commit` keeps the
record, or the execution `Fails`; edits, clearing and pruning come in between.  Values are records named for
their Go kind, so that a number in a text, an integer and a float are what the
engine takes them for.  The operators are checked against each other, by the
laws the table in docs/guide/monitoring.md implies (opposites, order, bounds,
exchanged sides, unknown for what is missing), not against a second copy of
themselves; `changed` against a history of what was answered.  `Values` is what results and
rules may hold, with everything inside it (`ConditionsAssumption`).

### NotificationDelivery

`rows[d]` is the row of one event on one channel, `sender[b]` the goroutine of
one execution, `got[d]` how often the receiver got the delivery (environment;
a Webhook may have been received although the call timed out).  The phase
`lost` marks a sender that ended without its last update.

### StatusTrend

One item and the records of its monitor.  The reference definition of the rules
(`Means`, over `Evidence`) is stated separately from the code's arithmetic:
quotients are multiplied out, the slope is taken about the centre of the
window, counting is the existence of a subset, and the evidence is kept in a
history variable instead of being read back page by page.  `Configuration` is
what may be submitted, accepted or not: regular expressions that match many
texts, maxima in any order, unknown operators.

Two facts about the code worth knowing: trend rules count every level other
than success as abnormal, warnings included (`applySampleLevel`,
evaluator.go:127); and inverting an item, or moving it to another monitor, does
not restart its evaluation (`Restarts`, status_board.go:369-389).

### Scheduler

One poll (`syncAndRun`) is `Sync`, a step per monitor in any order (`Pass`,
`Consider`), `EndSync`; edits, switches of modules, runs by hand and changes of
configuration come between.  `queued` are the goroutines launched that have not
reached `TryRun`.  A cron expression is the set of its instants.

### RuntimeConfig

`request[q]` is an HTTP request from the page an administrator saw (`viewed`,
with its version) to the answer.  Its phases:

    idle -> viewed -> ready -> applying -> storing -> writing -> stored -> idle
    View    Update    Enter    Apply       Lock       Write      Commit

A refused or failed write goes to `undoing`; a change of the key goes through
`rotating`.  `mu` is the manager's lock, held from `Enter` on, and `storeMu`
the store's, held while the row of the key is read and written.  What runs
(`applied`), what memory says (`config`, `versions`) and what the table says
(`rows`, `key`) are three things; the properties relate them.  The faults:
`apply` fails half-way, the statement fails (`store`), the row is written and
cannot be read back (`answer`).  A `Restart` keeps pages that are open.
`lastKey` and `failed` are history.

### PluginLifecycle

`op[o]` is a thread in `Enable`, `Disable`, `Uninstall`, `Import`,
`TrustPublisher`, `UpdateLogConfig`, the supervisor or the start of the host;
`proc[i]` a process with its gate; `registry` the process behind each module
type.  Enabling goes

    entering -> probing -> draining -> migrating -> migrated -> replaced -> retiring -> recording -> disabled -> idle
    launch      probe      old drained  rows written  registry   old closed  row enabled  others off

and from each step that may fail to `removing`, the way back.  Taking a plugin
down (disable, uninstall, a new log configuration) goes `taking -> stopping ->
stopped`; an import starts at `installing`, and the start of the host and a new
log configuration go through their versions from `next`.
`call[c]` is an execution between `PassGate`, `Join` and `Answer`, or
a handler between reading a module's version and writing a monitor.  `Exit` is a
process that ends by itself, `Restart` the loss of all processes.  Of the
monitors of a type one is followed: a second that is created beside it is left
out, and the updates of a deleted one find no row to write.

A start (`Boot`) begins at `clearing` as one of two hosts.  A release host takes
out the rows of development versions (`ClearDevelopment`) and seeds the official
packages; a development host builds each plugin that one of `SourceTrees` holds,
disables its other versions (`SyncDevelopment`) and deletes the versions it
built before and finds no more (`DeleteStale`).  Then `Start` enables what the
rows call enabled.  A step that fails (`BootFails`) leaves the host `down` until
it is started again.  The status that tells a version an administrator disabled
is left out: a row that is off may stay off, or be enabled, when it is built
again.

### BrowserAgents

Both ends of the connections: `host[c]` is the handler of a connection, which
replaces an older one and, when it closes, takes back the map entry, the
captures, the socket and the commands one after the other; `link[c]` the two
queues of messages, which a `Cut` loses; `socket`, `run` and `sessions` the
extension, whose callbacks run whenever it likes.  `cmd[k]` is a command with
its caller, from `selectAgent` through `pending` and `write` to the answer, the
timeout or the cancellation.  The extension answers over the socket it has when
it answers.

### BrowserBridge

`call[s]` is `StartNetworkCapture` and `Stop` of the plugin, `handler[s]` the
host's goroutine for it, `toHost` and `toPlugin` the queues, `events` the
subscription that drops what it has no room for, `channel[s]` what the plugin
reads.  A channel counts how often it is closed; the property on panics speaks
of every step that closes it or sends into it.

### ConfigTransfer

A database is four sets of rows with their references.  An import reads the
tables one by one (`ReadTable`), validates, computes its summary, and commits in
one transaction that upserts and, when it replaces, clears first; `Edit` is any
statement of another handler.  Foreign bundles stand for other installations,
older exports and files edited by hand.  `Rows` are tables of rows of their kind,
`Database` those that the constraints and handlers can have left;
`TransferAssumption` says that the installation begins with one of these and that
an id `core.NewID` has still to give out is in no database and in no bundle from
elsewhere, which a UUID is for.

### Authentication

`request[r]` is a request, whose steps are its accesses to the tables, the
limiter and the pending secret:

    login:    verifying -> creating -> clearing      or failing
    session:  loading -> (refreshing | dropping) -> admitted
    token:    bearer -> touching -> welcome
    MCP:      switching -> switched -> inserting -> noting -> consuming

`ended`, `promised` and `told` are history: which sessions and tokens lost
their row, how long an admission keeps a session, and how often a secret was
answered.  `late` marks a request that came after the end of what it shows.

## What the runs check

| Run | Instance | Shows |
| --- | --- | --- |
| `races` | 1 monitor, 1 item, 2 calls, 1 request, 3 executions | `OneExecutionPerMonitor`; activity and announcement agree (`ActiveWasAnnounced`); `OnceTriggersOnce`; `LatestExecutionWins`; monitors and trend rules follow the ledger through saves, deletions and restarts |
| `returns` | 1 monitor, 1 item, 2 calls, 1 PATCH, 2 executions | the inductive invariant of the proofs, `IInv`; every `Run` and `TryRun` returns (`CallsReturn`) |
| `deliveries` | 1 sender, in-app and Webhook | `StatusIsHonest`, `SettledStays`; at most three receptions (in `DeliveriesInv`); nothing stays pending that a sender was still to settle (`PendingIsSettled`) |
| `trend_rules` | 13 configurations, 5 executions, 4 outcomes | `TrendsMeanTheirRules`; numbers are classified (`BoardInv`); `HistoryIsShown` |
| `polls` | 2 monitors, 3 instants, 2 timezones, limits 1 and 2 | slots are counted and the limit holds (`PollsInv`); launches answer occurrences (`LaunchedWhenDue`), each of them (`DueIsLaunched`) |
| `config_edits` | 2 requests, 2 domains of 2 paths, 1 bundle, 1 subscriber, 3 writes, all faults | `NoLostUpdate`; `VersionNamesData`; `ConfigInv`: the key is kept, failed writes are undone, notices reach a busy subscriber |
| `upgrades` | 2 versions of a plugin with 2 and 1 types, 2 processes, a start from packages or from the sources of either version, 1 operation beside 1 execution or edit, 1 restart, all faults | `PluginsInv`: what is served is alive, what runs serves, one version is enabled, and what starts by itself was confirmed; `MonitorsFit`; `NoCallIsCutOff`; `WaitIsNotStarved` |
| `agents` | 2 commands, 2 connections, answers of 2 chunks, a limit of 1 or 2, all faults | `NobodyWaitsInVain`; `AnswerIsWhole`; `AgentsInv`: the table of agents and of captures agree with the sockets and the extension |
| `bridge` | 1 capture, 4 events, queues of 2, all faults | `NoPanic`: no channel is closed twice or sent into when closed; `EndIsTold`; no event is skipped silently (`BridgeInv`); `StartsReturn` |
| `conditions` | 106 configurations of 1 or 2 rules, 3 answers, 2 durations | operators and their combination mean what the guide says (`ConditionsInv`); `ChangedMeansChanged` |
| `transfers` | 2 imports, 1 export, 4 foreign bundles, 1 edit, 2 databases | `ImportIsTheBundle`; nothing dangles after a replacement (`TransfersInv`); `SummaryIsTrue` |
| `access` | 2 requests, 1 session, 2 tokens, 5 ticks, limit 1 | `AuthInv`: failures stay bounded and what ended admits nobody any more; `ActiveIsKept`; `ToldOnce` |

The properties that end in `Inv` are conjunctions of named parts; each part has
a comment of its own in its module.

### Bounds

* `MaxRuns` (executions).  Three let a trigger, a stale write and the execution
  that exposes it meet, the longest chain any of the properties speaks of; two
  are enough where only the lock is contended.
* One monitor is enough for the lock and the ledger, which are per monitor; the
  proofs cover any number, and items that move between monitors.
* Pages of 2 and 3 records stand for 20 and 100, limits and windows of 2 to 6
  for 20 to 200: what matters is below, at and above a page.
* Five executions fill the largest window that fits, plus one that slides it.
* Two deliveries of one batch, on the channel that reads its own row and on one
  that does not; attempts are the real three.
* Three writes of a configuration: an edit, a change of the key or a second edit
  in between, and the write on the old page that must be refused or kept apart.
* Three instants of a schedule: one before, one at and one after an occurrence
  in each timezone, with another beyond the bound.
* Two processes and two versions: a version serves while the other starts, and a
  failed one leaves its process to be used again.  One thread works on plugins
  at a time: what two of them do to each other is listed below, and not what the
  properties of this run hold for.
* Two connections and two commands: the second connection replaces the first
  while its command waits, is cancelled or is answered in two chunks.  The limit
  of the options is read at every message and may be 1 or 2, so that commands are
  refused and the two also run beside each other: a capture and the stop that
  ends it.  Commands are interchangeable (symmetry).
* Queues of two events stand for 128, 256 and 64; four events overflow each of
  them.
* One edit and two imports beside one export: enough for an edit between any two
  reads of a request, and for an import between the validation and the commit of
  another.  Importers are interchangeable.
* Every rule of the operands, the paths and the literals that the operators
  distinguish, alone, and pairs of rules that are true, false and unknown at
  times; two records, so that the baseline is judged, stored, pruned and missing.
* Two requests against one session and two tokens.  Lifetimes of 4 and 6 ticks
  have halves that differ; a request holds its clock for one tick at most
  (`MaxStall`), against half a lifetime of two: the real distance is 15 days at
  the default, and `ActiveIsKept` needs some such distance.  `Scope` confines
  tokens and MCP to the first two ticks and to histories without a failed login,
  on which they do not depend; requests, sessions and tokens are interchangeable.

A run says `CHECK_DEADLOCK FALSE` where the bounds stop the system: events,
connections, edits or ticks are used up.

### Fairness

`MonitorExecution` assumes strong fairness of taking the mutex (`sync.Mutex`
hands over to a waiter that starves, and refuses `TryLock` meanwhile) and weak
fairness of the steps of a goroutine that can run: a module returns because its
context has a deadline.  `NotificationDelivery` assumes weak fairness of each
sender: `Send` has a timeout of 20 seconds.  `BrowserBridge` assumes weak
fairness of the host's and the plugin's goroutines that can run (`Serve`,
`Forward`, the readers, `Disconnect`, and the end of a start), and strong
fairness of `Respond`, which takes turns with events for room in the same queue.
Nothing is assumed of clients, operators, extensions, failures, crashes or
restarts.  The other properties are safety properties and need no fairness.

## What is proved

`MonitorExecutionProofs`, for any sets of monitors, items, calls and requests
and any bound, from `ConstantsAssumption` alone (`Nobody` is no call, monitors
and items are different things, the bound is a number):

| Theorem | States |
| --- | --- |
| `TypeCorrect` | `TypeOK` |
| `Invariance` | the inductive invariant `IInv` |
| `MutualExclusion` | `OneExecutionPerMonitor` |
| `StoredActivityWasAnnounced` | `ActiveWasAnnounced` |
| `LatestWins` | `LatestExecutionWins` |
| `TriggersOnce` | `OnceTriggersOnce` |
| `MonitorLedgerImplemented` | `MonitorsFollowLedger`: the refinement of `AlertLedger` |
| `TrendLedgerImplemented` | `TrendsFollowLedger`: the refinement for rules of items, without edits of items |

Mutual exclusion is not inductive by itself: whoever is inside must hold the
mutex of the monitor it works on (`LockHeld`).  The activity a monitor stores is
written from a snapshot, so the agreement with what was announced has to hold of
the snapshots of running executions too, up to a reset by an operator
(`MonitorsAgree`); the lock is what keeps a second execution from announcing in
between.  A trend rule's activity lives in three places, the table, the verdict
of an execution and a PATCH about to write (`RulesWereRaised`).  And an
execution that may still commit is numbered above what is stored
(`RecordsOrdered`).  `IInv` is the conjunction, with `TypeOK`; TLC checks it in
the run `returns` before TLAPS proves that every action preserves each part.
The action properties and the refinement of monitors follow from `IInv` step by
step.

For rules of items (`TrendsAgree`), what is stored agrees with what was announced,
and so does a verdict about to be committed (`BoardFits`): the items it judged are
its monitor's, so nobody else who could announce about them holds the mutex, and a
reset in between only allows more.  The hypothesis of `TrendLedgerImplemented`, that no request edits an
item, is needed: such a request writes back the activity it read before an
execution committed, and the next trigger is announced twice (see below).

`AuthenticationProofs`, for any finite set of requests, any sessions, tokens,
names, lifetimes, terms and any limit, from `AuthAssumption` (sessions and
tokens are different things, no token is the value for "none", times and limits
are numbers):

| Theorem | States |
| --- | --- |
| `AuthInvariance` | the inductive invariant `AuthIInv` |
| `AccessIsControlled` | `AuthInv`: types, `LimiterHolds`, `EndedIsFinal` |
| `SecretsAreToldOnce` | `ToldOnce` |
| `SessionsKeepPromises` | `ActiveIsKept` |

`EndedIsFinal` speaks of requests that were admitted; that they cannot be
follows from where a late request is: it still has to read a row
(`LateHasNotRead`), and what ended has none (`Gone`), because a session or token
is never drawn twice and the renewal is an UPDATE.  `LimiterHolds` needs to count
the logins that passed the limiter and may still fail: `Counted` bounds failures
and these together, by the cardinality of the set `InFlight`, which each step
leaves, enters or shrinks.  `Carried` says what the step of a request tells of
its other fields, which the types alone do not.

`ToldOnce` needs to follow the secret (`SecretsInv`): it is with one
request that is about to note it, or pending in the service, or told, and never in two of
these, although the request that takes what is pending need not be the one that
noted it.  `SessionsKeepPromises` assumes `Prompt`: between reading its clock
and its statement a request takes no longer than the part of the shortest
lifetime that an admission does not promise.  At the default of 30 days that is
15 days, against read and write timeouts of 30 seconds; for a lifetime of a
minute or less, which the validation accepts, the code does not ensure it.
`PromisesInv` says that no promise reaches further than half a lifetime from
now, and that who is about to renew a session has read its clock recently, so
that what it writes is not below what others were promised meanwhile.

`NotificationDeliveryProofs`, for any batches, lists of deliveries, channels and
numbers of readers and cleanups, from `QueueAssumption` (a delivery belongs to
one batch):

| Theorem | States |
| --- | --- |
| `SendInvariance` | the inductive invariant `SendInv` |
| `ReceptionsBounded` | three receptions for each time an event lists a channel |
| `ThreeReceptions` | `DeliveriesInv`, when no event lists a channel twice |
| `SettledForGood` | `SettledStays` |
| `RecordsAreTrue` | `StatusIsHonest`, when no event lists a channel twice |

A bound on receptions is not inductive while attempts go on: `Counted` bounds
them by the attempts at every place of the list that the sender has passed, and
at the one it is at.  What is recorded comes from results the sender holds in
memory, so they have to be honest too (`ResultsHonest`), and only the end of the
sender settles a row (`SettledIsOver`): the row that INSERT IGNORE puts back
after a cleanup is pending.  `EachOnce`, the hypothesis of two theorems, is not
ensured by the code (a monitor may name a channel twice, see below);
`ReceptionsBounded` says what holds without it.

`RunnerProofs` holds the theorems of three modules.  About `Scheduler`, for any
finite set of monitors and any expressions, limits and instants, from
`ScheduleAssumption`:

| Theorem | States |
| --- | --- |
| `PollsInvariance` | the inductive invariant `PollsIInv` |
| `PollsHold` | `PollsInv`: slots are goroutines |
| `TasksHoldTheNext` | a task holds the first instant after what was considered |
| `LaunchesAreDue` | `LaunchedWhenDue` |
| `DueAreLaunched` | `DueIsLaunched` |

Goroutines are counted by a fold over the monitors.  What a step at one monitor
does to such a sum needs an induction over finite sets, which is carried out
within first-order logic: the sets of which the claim holds are a set, and the
least natural number without it is refuted (`LeastNatural`, `SubsetsReached`,
`FoldExists`).  The last three theorems assume `Recurring`: every expression
occurs again.  The code accepts one that never does and makes its monitor due at
every poll (below), so there is no first instant to speak of.

About `StatusTrend`, for any configurations, outcomes, page sizes and limits and
any number of executions, from `BoardAssumption`:

| Theorem | States |
| --- | --- |
| `BoardInvariance` | the inductive invariant `BoardIInv` |
| `BoardHolds` | `BoardInv`: types, `NumbersAreClassified` |
| `BoardShowsHistory` | `HistoryIsShown`, when no limit exceeds a page |
| `TrendRulesMean` | `TrendsMeanTheirRules`, when no accepted window exceeds a page and the new record |

What is stored is not what was submitted, so `Storable` says of it that it was
accepted, that normalizing it again changes nothing, and that a number has
thresholds.  Classification then is a matter of order: maxima that increase one by
one increase overall (`MaximaIncrease`, by the least pair that does not), hence
the first threshold that fits is the tightest (`FirstIsTightest`), and the last,
without maximum, fits always.  `LimitsFitPages`, the hypothesis of
`BoardShowsHistory`, is not what the validation ensures (below).

`TrendRulesMean` is the longest argument here, in two halves.  One is about
history: `HistoryKept`, added to the invariant (`HistoryIInv`), says that the
executions since the evaluation last started are the last of the records, none
earlier, and that whatever is in flight is later than all of them.  It survives
clearing, pruning, edits and an execution that began before them; from it, what
`EvaluateExecution` lists and filters (`ListedIs`, `FreshIs`) ends with the
evidence when that is complete and is too short when it is not (`SamplesAre`).
The other half is arithmetic: the sums of the code and of `Means` are folds, so
each is shown to be the total over its places (`SumIs`), which is linear
(`TotalLinear`); counting is the existence of a subset (`SubsetOfSize`), an average
is a sum of differences (`AveragesAgree`), and the slope over 0..n-1 is the slope
about the centre, because places add up to n(n-1)/2 (`PlacesAdd`, `SlopesAgree`).
`VerdictMeans` joins them.  The hypothesis `WindowsFitPages` is needed: the
validation accepts windows up to 200, and those above 101 are never decided
(below).

About `Conditions`, for any values, answers, durations and rules, from
`ConditionsAssumption`:

| Theorem | States |
| --- | --- |
| `ConditionsInvariance` | the inductive invariant `ConditionsIInv` |
| `ConditionsHold` | `ConditionsInv`: types, `OperatorsAgree`, `CombinedAsDocumented` |
| `ChangedHolds` | `ChangedMeansChanged`, for fields that are read alike later |

`Verdicts` adds to the types that the states of an execution are those of its own
rules on its own answer.  The laws of the operators are proved of the operands
that a lookup finds; that a lookup, which descends by a fold, never leaves
`Values` is an induction along the names (`DescentDefined`).  `ChangedHolds` rests
on `BaselineIsBase`: the last good record, and the baseline an execution read
before, belong to the remembered answer, whatever was pruned, cleared or edited
between.  Its hypothesis `ReadsAlike`, that a field reads the same from the stored
record as from the fresh result, is what `duration_ms` and the composed summary do
not satisfy (below).

`ConfigurationProofs` holds the theorems of two modules.  About `RuntimeConfig`,
for any domains, data, requests, subscribers and faults, from `ConfigAssumption`:

| Theorem | States |
| --- | --- |
| `ConfigInvariance` | the inductive invariant `ConfigIInv` |
| `ConfigHolds` | `ConfigInv`: types, notices, failed writes undone, the key kept |
| `VersionsAreNames` | `VersionNamesData` |
| `NoUpdateIsLost` | `NoLostUpdate` |

`LocksHeld` says which steps hold the manager's and the store's lock.
`RequestsKnow` gives each step what it may rely on: the version an edit knows is
not above memory's, and equal versions mean equal data; under the lock, the
candidate differs from memory only in what the edit is about; and what the
statement wrote is what the transaction will return.  `RequestsApplied` follows
what runs between `apply` and its undoing, and memory may be behind the table,
but not beside it (`VersionsName`), after an answer that was lost.

About `ConfigTransfer`, for any ids, databases, bundles and numbers of imports and
edits, from `TransferAssumption`:

| Theorem | States |
| --- | --- |
| `TransferInvariance` | the inductive invariant `TransfersFit` |
| `TransfersHold` | `TransfersInv`: types, `Consistent`, `BackupIsTakenBack` |
| `ImportsStoreTheirBundle` | `ImportIsTheBundle` |
| `SummariesTell` | `SummaryIsTrue` |

That a replacement leaves nothing dangling, whatever was edited since the bundle
was validated, rests on a bundle having been accepted without a look at the
database: it resolves by itself (`BundleFits`), and what `Cleared` leaves of the
old tables is overwritten row by row, beside the built-in channel.  What an
export answers is taken back because of what its rows keep although each table was
copied at another moment (`ExportFits`): keys and tokens are distinct within one
table, no link is empty, and a table that was not asked for is empty.  A handler
that creates a row must not collide with one that an import brings while it runs:
ids still to be given out are in no table, no bundle and no copy (`NoneFresh`).
`SummaryIsTrue` compares the summary with tables that need not be the ones it was
made from, so the invariant keeps it together with what was read (`BundleFits`).
TLC checked `TransfersFit` on the instance of the run `transfers` before TLAPS
proved it.

`BrowserBridgeProofs`, for any captures, any number of events and any capacity
of the four queues, from `BridgeAssumption` (the bounds are positive):

| Theorem | States |
| --- | --- |
| `BridgeInvariance` | the inductive invariant `BridgeIInv` |
| `BridgeHolds` | `BridgeInv`: types, `NothingIsMissed`, `StopCloses` |
| `EndsAreTold` | `EndIsTold` |
| `ChannelsDoNotPanic` | `NoPanic` |

`EndIsTold` speaks of empty queues; in between, an end is in the subscription,
in the queue to the plugin or was missed (`ToldOf`), from the moment the host
registers the capture until the plugin's channel is closed.  That holds only
because the start of a capture is in one place at a time (`TokenOf`): were
there two answers, the end of a capture could be read before the second one
registers it anew.  `NothingIsMissed` begins before there is a registration:
until then what was read is what waits in `orphans` (`EarlyOf`), and the
snapshot that `registerCapture` hands over is counted until it is replayed
(`KeptOf`).  `NoPanic` follows from what a step may make of a channel
(`ChannelStep`).

`BrowserAgentsProofs`, for any commands, any number of connections and of chunks
of an answer, and any limit, from `AgentAssumption` (the bounds are positive,
`None` is no connection):

| Theorem | States |
| --- | --- |
| `AgentsInvariance` | the inductive invariant `AgentsIInv` |
| `NobodyWaits` | `NobodyWaitsInVain` |
| `AnswersAreWhole` | `AnswerIsWhole` |
| `AgentsHold` | `AgentsInv`: types, `CurrentIsOpen`, `WelcomedAlone`, `CapturesHaveTheirAgent`, `RunningIsReal` |

The argument is that a command is in one place at a time (`TokenOf`): in the
queue of a connection, with the extension, answered by one message, or over.
`ChunksOf` says of the chunks of an answer that each is sent once, in order, and
that who still waits has counted none of those under way, so that the last one is
not taken for the next of an answer that lost some.  `LinkOf` ties the two ends
together: a connection that works is the extension's current socket, and a socket
this side shut is one whose close is draining.  A caller therefore waits for
something that is still there, or for a close that is still to come (`WaitOf`).
`RealOf` follows a capture from the extension's answer to its end; what may have
ended it unknown to the host is a stop whose answer is under way, was lost with
its connection, or was given up by its caller (`Excuse`).  The connection of that
stop need not be the one the capture runs on, which the proof of `RunningIsReal`
showed and no run had reached while the limit was one command.

`PluginLifecycleProofs`, for any packages, types, signers, processes, calls,
sources, faults and restarts, from `PluginAssumption`:

| Theorem | States |
| --- | --- |
| `PluginsInvariance` | the inductive invariant `PluginsIInv` |
| `PluginsAgree` | `PluginsInv`: `ServedIsAlive`, `RunningServes`, `OneVersionEnabled`, `StartedWasConfirmed` |
| `MonitorsAreServed` | `MonitorsFit` |
| `CallsAreNotCutOff` | `NoCallIsCutOff` |
| `WaitEnds` | `WaitIsNotStarved` |

All of them assume `OneAtATime`, that one thread works on plugins, as the run
does: the manager does not enforce it, and operations that interleave can undo
each other (see below).  Executions and handlers interleave with the operation in any
number.  The properties speak of quiet states; the invariant has to say of each
of the eighteen steps of an operation what it has done so far.  `ServingOf` says
it of processes, gates and registry (before `SetProcess` the registry names the
candidate, which the manager does not hold yet, and the old process, closed, is
held by the operation alone); `RowsOf` of which versions are enabled, with the
exception of a development host that has written one and not yet disabled the
other; `VouchedOf` of who may start without being asked, including the keys that
a batch still has to start; `MonitorsOf` of monitors, and of handlers about to
write one, between `Migrate` and `Replace`.

Only model-checked: liveness (`CallsReturn`, `PendingIsSettled`, `StartsReturn`),
which is beyond the proof system under fairness.

## Known disagreements

Where the code does something else than its documentation says, or something an
operator would not expect.  The models do what the code does; where a property
holds only without one of these, its comment says so.

Executions, deliveries, schedules, configuration:

* A PATCH of a board item writes back the trend state it read before an
  execution committed: a rule can announce the same trigger twice
  (docs/guide/status-board.md:29).  `TrendsFollowLedger` is checked without PATCH of
  items.
* An execution whose condition is unknown stores the activity of its snapshot,
  and so restores one that a save had reset meanwhile.
* `Execute` looks at `accepting` and then joins the wait group (remote.go:46-51):
  a replacement may find nobody in between, and the call reaches a process that
  is being closed (docs/development/backend.md:64).  `NoCallIsCutOff` speaks of
  calls that joined in time (`late`).
* A delivery skipped on a disabled in-app channel is listed as unread.
* A monitor that names a channel twice (neither `createMonitor` nor
  `updateMonitor` removes duplicates) tries it up to six times for one event,
  where docs/guide/notifications.md:14 says three.
* A trend rule whose window is larger than a page of history plus one is never
  decided.
* An item may ask for up to 200 executions (statusboard/service.go:98-103,
  docs/reference/http-api.md:154), but a page holds at most 100 and a size beyond
  is replaced by 20 (`normalizePage`, store.go:700-708): with a limit of 101 to 200
  the board shows 20.
* A cron expression that never occurs makes its monitor due at every poll.
* An update or import whose `apply` fails half-way is not undone
  (runtimeconfig/config.go:153 and 266): logging keeps the refused settings.

Conditions:

* `changed` on `summary.duration_ms` is true at every execution after the
  baseline (condition.go:136), and `changed` on `summary.summary` compares the
  text of the module with the composed one (runtime.go:176-178,
  core/results.go:20-23).
* Operators in upper case are accepted and never match; ANY of an unknown and a
  false condition is false; the text "nan" does not equal itself.

Plugins:

* `Disable` and `Uninstall` of a version that is not the active one stop the
  process that serves, whose row stays enabled.
* The supervisor works on a copy of the table: it may enable again what was
  disabled since.  Two operations at once can leave two versions enabled
  (docs/guide/plugins.md:57), and two imports of one version can mix the row of
  one with the binary of the other.
* A development host writes a version as enabled before it disables the others:
  two are enabled if it stops in between, until the next start.
* A release host deletes what a development host installed, but the official
  version that was disabled for it stays disabled: `SeedOfficial` enables only
  what it installs.
* A version that serves and is enabled again is marked as failed when the second
  start fails, and serves on.
* When `DisableOthers` fails the new version serves unrecorded; when a restart
  for a new log configuration fails, the plugin stays stopped.
* A handler that read a module's version before a replacement leaves its monitor
  on the old version, unavailable until the next migration (`MonitorsFit` names
  the exception).
* `SeedOfficial` enables, and `Start` enables the same version again.

Browsers:

* A start of a capture that is cancelled or times out leaves the extension
  capturing without the host knowing (docs/development/browser-automation.md:242);
  so does a stop that takes longer than 10 seconds.
* A start that finishes after the session's captures were stopped leaves one
  that nobody stops.
* The late close of a replaced connection removes captures that were started on
  the new one (docs/development/browser-automation.md:72).
* A connection whose hello was read with the old pairing token survives the
  rotation, and a third connection may be welcomed while the first is closing.
* The end of a capture is lost to a plugin when its subscription of 128 is full,
  when the queue to it is, or when it arrives before the registration
  (docs/development/plugin-protocol.md:112).  A start that registers after the
  bridge is gone leaves its channel open.

Transfer of configuration:

* Deleting a channel, monitor or item does not delete what names it elsewhere:
  a full export of such an installation is refused by every import.  The same
  holds for an export during which tables were edited.
* Replacing with a bundle that has only some of the contents deletes the rows of
  the others.
* What a merge refers to is looked up before its transaction: deleted in
  between, the reference dangles.
* Merging an older backup makes revoked links active again.

Access:

* Two set-ups at once both succeed: the second key is stored, the session of the
  first stays.  Two changes verified against the same key both replace it.  A
  login verified before a change of key gets its session after it.
* A request that found a session expired may delete it just after another
  request renewed it.  `DeleteExpiredAdminSessions` is never called.
* The limiter looks and counts in two steps: eight failures may be exceeded by
  the requests under way, which is what `LimiterHolds` allows for.
* Two enablings of MCP share one pending secret: one may answer the token of the
  other, or overwrite it before anyone has seen it
  (docs/reference/http-api.md:17); an enabling that fails switches MCP off for
  the other.  Enabling by import creates no token (runtime_config.go:105).
* Deleting an MCP token and enabling MCP at once can leave MCP enabled without a
  token (docs/operations/security.md:73).
* An API token with `api:write` may change the key, given the current one,
  and log out the session of a cookie it comes with; only the token handlers ask
  for a session.

## Plan

Done, in this order: `AlertLedger`, `MonitorExecution` with its proofs,
`NotificationDelivery`, `StatusTrend`, `Scheduler`, `RuntimeConfig`,
`PluginLifecycle`, `BrowserAgents`, `BrowserBridge`, `Conditions`,
`ConfigTransfer`, `Authentication` with its proofs; then the proofs of
`NotificationDelivery`, `RuntimeConfig`, `Scheduler`, `PluginLifecycle`,
`BrowserBridge`, `BrowserAgents`, `ConfigTransfer`, `StatusTrend` and `Conditions`.

Next: `InAppCenter`, for unread counts and the order of their publication to
the hub and to the streams of the board.

## Not modelled

* HTTP, JSON, SQL, templates, log output, cryptography, archives and manifests,
  start-up configuration, the web interface, the plugins, the SDK beside its
  browser client, and Webhook and SMTP beside what a sender sees of them: I/O
  and conversion of data without shared state.
* The MCP server, which calls the same services with a token checked as in
  `Authentication`; previews, lists and searches, which only read.
* The extension's actions on a page (`actions.go`, `background.js`), which are
  commands with an answer to `BrowserAgents`.
* The order of shutdown, which is modelled as its worst case, the loss of memory
  at any point.
