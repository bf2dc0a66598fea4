# Formal models of wails-kit

TLA+ models of the Go packages of wails-kit, the TLC runs that check them on
small instances, and theorems that TLAPS proves for every instance.

## The system

wails-kit is a set of small Go modules that a Wails desktop application calls
in process. Nothing is distributed; what is hard comes from goroutines, timers,
callbacks, deadlines and files.

| part | state it keeps | operations | what is hard | what makes it correct |
|------|----------------|------------|--------------|-----------------------|
| `lifecycle` | registrations, start order, started services | `NewManager`, `Startup`, `Shutdown`, `Health` | services that fail, hang or finish after the deadline; rollback | services start after, and stop before, what they depend on; the books agree with what runs; operations end |
| `events` emitter | windows, handlers, history ring | `Emit`, `EmitTo`, `Register/UnregisterWindow`, `Replay(All)`, `On`, unsubscribe, `Close` | emitters in several goroutines; windows that join between an event's sending and its record; async handlers with bounded channels; `Close` against deliveries | the history holds the last events; a window that joins and replays misses nothing; nobody blocks; goroutines end |
| `events` middleware | debounce and batch timers, buffers | `push`, `add`, `flush`, timer callbacks | a timer that has fired and waits for the lock; emission after unlock | the last payload is emitted; each batched event is emitted once |
| `events` in-memory backend | captured records, waiting calls | `Emit`, `Clear`, `WaitFor` | an event recorded while a call registers, several waiters, timeouts | nobody waits for what is there |
| `settings` | the settings file, secrets, callbacks | `GetValues`, `SetValues`, `Save`, `Load` | failure or crash between the steps of a save; reads beside writes; callbacks under the lock | a save is seen whole or not at all; validation guards everything saved |
| `keyring` | secrets, environment fallback | `Get`, `Set`, `Delete`, `Has` | OS store beside environment | what is set is got, what is deleted is gone |
| `updates` | latest release, download path, the executable | `CheckForUpdate`, `DownloadUpdate`, `ApplyUpdate` | several goroutines; crash between two renames | only what was verified is applied; there is always an executable |
| `database` | schema version, `user_version`, backups | `New` (baseline, guard, backup, migrate, stamp) | crash between steps, downgrade | no migration runs twice or on a newer schema; pending ones are backed up |
| `llm` | conversation window, provider | `BuildMessages`, `Provider`, `Reload` | token budgets, tool pairs, masked secrets | tool pairs are not split; roles alternate |
| `diagnostics` | bundle files, crash logs | `CreateBundle`, `SubmitBundle`, `RecoverAndLog` | logs that grow, rotate and vanish while they are copied; two bundles in one second; retries, lost and late answers | what is announced is sound; success means that the server has read the bundle; goroutines end |
| `logging` | the global logger, handlers' fields | `Init`, `Get`, `WithFields`, `WithGroup`, `Handle` | `Init` between the two steps of the first `Get`; arrays shared by derived loggers | sensitive values never reach the output; a logger shows its fields |
| `errors`, `appdirs`, `shortcuts`, `settings/schema.go`, `llm/anthropic`, `llm/openai`, `llm/mock` | none that changes | constructors, paths, request translation | nothing concurrent | not modelled |

How they interact: `lifecycle`, `updates`, `database` and `diagnostics` emit
through an `events.Emitter` they are given; `settings.Service` calls its
`onChange` callbacks while it holds its mutex and keeps passwords in a
`keyring.Store`; `updates.Service` and `llm.ProviderManager` read
`settings.Service`, as `diagnostics.Service` does, which also copies the files that
`logging` writes; `settings`, `updates` and `database` find their files with
`appdirs`. Only `events` and `settings` run code of others (handlers, callbacks)
inside an operation of their own.

## Modules

| module | models | about |
|--------|--------|-------|
| `TopoSort` | `Manager.topoSort` | Kahn's algorithm, one action per loop iteration |
| `Lifecycle` | `Manager.Startup`, `rollback`, `Shutdown`, `startService`, `stopService` | EXTENDS `TopoSort`: the order it computes is the one used |
| `DependencyOrder` | what the manager promises | abstract specification that `Lifecycle` implements |
| `EventHistory` | `events/history.go` | the ring buffer, and the searches of `Replay` and `ReplayAll` |
| `BoundedLog` | what the ring promises | abstract specification that `EventHistory` implements |
| `Emitter` | `events/events.go` after the middleware | EXTENDS `EventHistory`: emitting goroutines, handlers, `Close` |
| `Windows` | the windows of `events/events.go` | EXTENDS `EventHistory`: `Emit`, `EmitTo`, windows that come and go, `Replay`, `ReplayAll` |
| `MemoryBackend` | `events/memory.go` | records, and goroutines in `WaitFor` |
| `Middleware` | the debouncer and the batcher of `events/middleware.go` | one event name; its emissions are those `Emitter` starts from |
| `Validation` | `settings/validate.go` | which forms are accepted, as operators |
| `Settings` | `settings.Service`, `Store`, `OSStore` | EXTENDS `Validation`: `SetValues`, `Save`, `GetValues` in several goroutines |
| `SavedSettings` | what a save promises | abstract specification that `Settings` implements |
| `ProviderManager` | `llm.ProviderManager` | EXTENDS `Settings`: the provider, reloaded by the settings' callback and by others |
| `Applier` | `updates/apply.go` | the files that an update touches |
| `Updates` | `updates.Service` | EXTENDS `Applier`: check, download, verify, apply, restart |
| `Database` | `database.New` | releases that open one database file in turn |
| `ContextWindow` | `ContextBuilder.BuildMessages` of `llm/context.go` | the part of a growing conversation that is sent |
| `VersionOrder` | `updates/version.go`, and the choice of a release in `updates/github.go` | the order of versions, and the loop that finds the newest |
| `Logging` | `logging/logger.go`, `logging/redact.go` | the global logger, derived loggers, redaction |
| `Bundle` | `CreateBundle` of `diagnostics/diagnostics.go`, `RecoverAndLog` of `diagnostics/panic.go` | one file, made while logs change |
| `BundleFile` | what `CreateBundle` promises of that file | abstract specification that `Bundle` implements |
| `Webhook` | `SubmitBundle` of `diagnostics/webhook.go` | EXTENDS `BundleFile`: it sends a file of which it knows only this promise |
| `LifecycleProofs` | | theorems about `TopoSort` and `Lifecycle` |
| `EventHistoryProofs` | | theorems about `EventHistory`, on which the next two rest |
| `EmitterProofs` | | theorems about `Emitter` and the batcher of `Middleware` |
| `WindowsProofs` | | theorems about `Windows` and `MemoryBackend` |
| `SettingsProofs` | | theorems about `Settings` and `ProviderManager` |
| `UpgradeProofs` | | theorems about `Updates` with `Applier`, `Database` and `VersionOrder` |
| `DiagnosticsProofs` | | theorems about `Logging`, `Webhook`, `BundleFile` and `Bundle` |
| `ContextWindowProofs` | | theorems about `ContextWindow` |
| `MCAlgorithms`, `MCLifecycle`, `MCEmitter`, `MCWindows`, `MCSettings`, `MCUpgrade`, `MCDiagnostics`, `MCLogging`, `MCContextWindow` | | instances for TLC |

Operators named as a mutant in their comment ("Mutant of ...") are the same
operation with a plausible bug. They are in no specification: they show that a
property can tell the code from a wrong one.

### TopoSort

`entries`, `inDegree`, `queue` and `order` are the variables of
`lifecycle.go:385-444`; `phase` is where the function is, or how it returned
(`missing` for `ErrMissingDep`, `cyclic` for `ErrCyclicDependency`, `built`), and
`at` is the index of the loop that runs. `dependents[name]` is not kept: it lists
the dependents of `name` in the order of their registrations, so `Relax` visits
the registrations in order and acts on those that depend on the popped name. A
name that one service gives twice to `DependsOn` is counted twice and discounted
twice at the same pop, which a set of dependencies does not tell apart.

### Lifecycle

| variable | code |
|----------|------|
| `global` | `m.timeout > 0` |
| `pc` | the loop the manager's goroutine is in, or the service call it waits for |
| `started` | `m.started` |
| `live` | the loop variable of a stop loop: how many of `started` are left |
| `call` | the pending call: `running`, or its answer waiting in the channel |
| `errors`, `result` | the collected errors, what the operation returned |
| `up` | the services that really run: the environment, which the code cannot see |
| `late` | calls the manager gave up on whose goroutines still run |
| `abandoned`, `refused` | history of calls given up on and of failed stops |
| `told` | what the last lifecycle event says of a service |

A service call may succeed, fail or never return; a call with a timeout may be
given up on at any time, also when its answer is already in the channel (the
`select` chooses), and may return later. Cancelling the parent context takes
the same branch as the deadline. Nothing is assumed of the durations.

### Emitter and EventHistory

| variable | code |
|----------|------|
| `buf`, `pos`, `count` | the fields of `history` |
| `asyncBuf`, `handlers` | the fields of `Emitter` |
| `sub`, `done`, `chan` | a handler's life, its closed `done`, its `ch` |
| `pc`, `todo` | emission (a goroutine and the number of its event) -> where it is, the handlers of its snapshot it has left |
| `loop` | where the goroutine of an asynchronous handler is |
| `recorded`, `handled`, `ended` | history of what was recorded, handled, emitted after a cancellation |

An emission takes the steps of `rawEmit` (`events.go:55`): the backend, the history, the
copy of the whole list of handlers under the lock, and then one handler of the copy
after another, those of other names being passed over. Other goroutines run between any
two of them. A handler's function may hang; with `asyncBuf > 0` it runs in the loop of
`events.go:259`, whose `select` takes an event or `done`, whichever it likes. With
`asyncBuf = 0` it runs on the emitting goroutine, without the lock (`events.go:241`),
and may emit as well: a goroutine can have several emissions under way, each inside a
handler of the one before. What is emitted there gets to the handlers behind in the
snapshot before the event that came first. The documentation promises no order, so
`HandledInOrder` asks it of asynchronous handlers only, and of all that none gets an
event twice. `Unsubscribe` and the last loop of `Close` each change the list of handlers
or read it in one critical section and then close `done` channels, which only the
handlers' own goroutines look at: one step stands for both. A payload is the emission's
name, so that order and duplicates can be seen.

### Windows

| variable | code |
|----------|------|
| `emits` | the goroutines in `Emit` or `EmitTo`: event name, window, and how far each is |
| `open` | windows that the application's backend broadcasts to |
| `windows` | `e.windows` |
| `replay`, `rest` | where a `Replay` or `ReplayAll` is, and the records it has yet to hand out |
| `joined` | history: windows that were registered when their `ReplayAll` read the history, and still are |
| `got`, `recorded`, `early` | history: what a window was given, the order of the records, what was between its sending and its record when a window came |

An event goes to the backend, and into the history after that (`events.go:56`-`58`,
`94`-`97`): two steps. `EmitTo` looks its window up in a third one before them.
`ReplayAll` looks the window up, reads the history, and hands out what it has read
record by record; `Replay` reads first and looks up after. An event that is between
its two steps when a window opens or is registered may have gone to others only
and be in no snapshot yet: `NothingMissed` excepts just these, which `early` remembers.

### MemoryBackend

`records` are the names of the captured events, `waiters` the calls in `m.waiters`,
`full` those whose channel of one holds a value, and `wait` tells where a call of
`WaitFor` is. Every operation holds the lock; `WaitFor` gives it up between its
registration and its deferred removal, where its `select` takes a value or the
timeout, whichever it likes.

### Middleware

`timers` gives every timer that `time.AfterFunc` armed its own state; `timer` is
the handle in `d.timer` or `b.timer`. A timer that expired (`fired`) is beyond
`Stop`, and its callback waits for the lock: this is where the code's behaviours
are. A critical section and the emission after it are two steps: what was cut
under the lock waits in `flying`, in no order.

### Settings and ProviderManager

| variable | code |
|----------|------|
| `file`, `tmp` | `settings.json` and `settings.json.tmp`: a function from keys to values, or none, or no JSON, or half written |
| `keyring` | the operating system's keyring, `""` for no secret |
| `mu`, `storeMu`, `managerMu` | who holds `Service.mu`, `Store.mu` for writing, `ProviderManager.mu` |
| `pc`, `form`, `todo`, `values` | where a goroutine is, the form it submits, the password keys it has yet to visit, what its `GetValues` has read |
| `provider` | `m.provider`, as the configuration it was built from |

`SetValues` holds the service's mutex from its validation to the end of its
callbacks; `Store.Save` is three steps (read and open, write, rename) under the
store's lock. `GetValues` takes no mutex of the service, reads the file under the
store's read lock in one step and then asks the keyring key by key: other
goroutines run in between. The callback reloads the provider, as
`llm/README.md:38` advises: a setter then holds the service's mutex and waits for
the manager's, while a reader holds the manager's and reads the settings. That
`GetValues` does not take the service's mutex is what keeps the two from waiting
for each other (`SetEnds`, and its mutant `LoadFileLocks`).

A password that is submitted as a value other than a string clears the secret like
`""` (`SecretOf`). The keyring's operations may fail, `Delete` unnoticed
(`service.go:157`); the
write and the rename may fail; the application may crash between any two steps,
and what is on the disk and in the keyring stays.

### Updates and Applier

| variable | code |
|----------|------|
| `latestRelease`, `downloadPath` | the fields that `Service.mu` guards |
| `pc`, `rel`, `path` | where a goroutine that checks or downloads is, and its local variables |
| `disk` | the downloads in the temporary directory |
| `exe`, `old`, `new` | the executable, `.old` beside it, the extracted binary |
| `step`, `applying` | where `Apply` and `ApplyUpdate` are |
| `before`, `stuck`, `trusted` | history: the executable when `Apply` was called, a restore that failed, what was installed at first |

What GitHub answers is any release, older ones too, as nothing in `DownloadUpdate`
or `ApplyUpdate` asks whether the release is newer. A file holds a version as a
whole; a download or a copy under way is `Torn`. Verification is a predicate on
what was downloaded: the signature is fetched anew for the same release, and
ed25519 is taken at its word. Downloads are archives that hold the binary, or
`ExtractFails`.

### Database

`schema` is the last migration whose tables are there; `rows` is what
`goose_db_version` holds. Each step of `New` is one action and `Stop`, the failure
of any step or a crash, leaves the file as the steps before left it: every
statement is a transaction of SQLite. Goose is external: it runs the first pending
migration, with its row, in one transaction, and a migration that creates what is
there fails. The backups are listed by modification time, which is what
`cleanOldBackups` sorts by; a backup of the same stamp has the same name and replaces
the one before (`Without`). `Partial` is a backup that `VACUUM INTO` has not ended.
`opening` is where `New` is; `found`, `unstamped` and `torn` are history: the file
when `New` was called, and what was left undone before.

### ContextWindow

`messages` is the conversation that the application keeps and hands to `BuildRequest`; a
message is its role, whether it has tool uses or results, and its tokens. `budget` is
what the context window leaves after the system prompt and the reply, which no call
changes; `counter` says whether there is a token counter. `used`, `next` and
`windowStart` are the variables of `computeTokenWindowStart`, one action per iteration;
`TokensFrom[k]` is what the properties compare `used` with, the tokens of the messages
from `k` on; `head` is the roles of the summary and the bridge. What is assumed of the
conversation is what the vendors' interfaces ask for: users and the model take turns,
and the results of a message's tools come in the next one.

### VersionOrder

A tag is the numbers between its dots and the identifiers of its pre-release: text
is split before the model begins, and build metadata is gone. `ParseVersion`
refuses what the code refuses. An identifier has its value, or `NaN`, and its
place in the order of strings, so that 02 and 2 are different texts and the same
number, and 1a lies between 10 and 2 as a string. A comparison by several parts in
turn is the sequence of their results, of which `FirstNonZero` takes the first that
tells the two versions apart. `releases`, `seen` and `best` are
the loop of `fetchLatestIncludingPrereleases`.

### Logging

| variable | code |
|----------|------|
| `global`, `once` | `defaultLogger`, as the kind of its handler, and where `initOnce.Do` is |
| `handler` | logger -> the handler behind it: its kind, its `attrs` as array, length and capacity, its open groups |
| `slots` | the arrays, each named for the logger whose derivation allocated it |
| `log` | the lines of `app.log`, as the fields they show |
| `inited`, `raced`, `asked`, `governed` | history: whether the last `Init` had sensitive keys and when it ran, what a logger was given, which loggers come from a `Get` after such an `Init` |

A slice is an array and a length, as in Go: `WithAttrs` appends to the parent's slice,
in place while there is capacity and in a new array of at least twice the capacity
otherwise. Two loggers derived from one parent may so write the same element; each
writes only what `redactAttr` has cleaned. `Get` tests for a logger and calls its own
`Init` in two steps: an `Init` of the application that comes between is undone, and what
was logged after it is not redacted. `NoSecretLogged` is about the loggers that are got
otherwise after an `Init` with sensitive keys, the last one there was (each has the same
keys, or none), and about the top-level fields that the handler looks at.

### Bundle and BundleFile

| variable | code |
|----------|------|
| `size` | log file -> its lines: the environment, `app.log`, one rotated file and its compressed copy, crash logs |
| `step` | where `CreateBundle` is |
| `names`, `logs`, `total`, `collect` | the manifest under way, the log files yet to be visited with the sizes they had when they were measured, `totalSize`, the collectors left |
| `zip` | the file: entries, settings, manifest, and whether the archive was closed |
| `announced`, `reopened` | history: the event, a later call that emptied the file |
| `copied`, `failed`, `grown` | history: the lines of logs in the archive, copied whole or in part; the sizes measured of those copied in part; the lines gained meanwhile by logs yet to be visited |

`writeLogs` measures all files first and copies them one by one after that, while
goroutines log, rotate, compress and delete. Rotation and compression are lumberjack's
(`logger.go:78`, external): `app.log` is renamed, its copy grows beside it under a name
of its own, and one of the two is deleted in the end. The files are visited from the
last name to the first, which `LogOrder` counts. A file that cannot be read to its end
leaves an entry and what was copied of it in the archive, none in the manifest, and
nothing in `totalSize` (`diagnostics.go:407`). A bundle's name has the time in seconds,
so that a second call in the same second empties the file of the first. `BundleFile` is
what a receiver may rely on: a file that was announced is sound, or was emptied by such
a call.

### Webhook

| variable | code |
|----------|------|
| `limit`, `badURL` | `maxRetries`, and whether `NewRequestWithContext` refuses the URL |
| `post`, `outcomes` | where the loop of `SubmitBundle` is, and what each attempt came to |
| `cancelled` | the caller's context is cancelled |
| `writers` | attempt -> the goroutine that writes its body into the pipe |
| `arrived` | the server has read the body of this attempt |
| `received` | history: whether each bundle that the server read was sound |
| `writes`, `reading`, `disturbed` | how often the file was begun, how often when this attempt opened it, and whether that spoiled a bundle that was submitted |

The server reads or not, and answers or not; the timeout may win at any time, also when
the answer is under way, and so may the caller's cancellation. What it reads is the file
that `BundleFile` describes, which may be emptied and made anew in between.

## Runs

| run | question | bounds | result |
|-----|----------|--------|--------|
| `algorithms` | is every order of services right, and every cycle found; are versions ordered, and is the newest release chosen; is the context window the longest that fits, and are tool uses never cut from their results? | all lists of up to 3 registrations over 3 names and one unregistered name, every set of dependencies; all answers of up to 3 releases, drafts or not, with 13 tags; conversations of up to 6 messages, each of 1 or 2 tokens, windows of 3 messages, budgets of 0, 2 and 4 tokens | holds |
| `lifecycle` | do services start and stop in order, do books and events agree with them, does `Shutdown` end? | a chain, a fork, a join, two independent services; timeouts on none, some, all; 2 startups | holds |
| `lifecycle_rollback` | does `Startup` end when every service has a timeout? | two services | it does not: the rollback ignores the timeouts |
| `emitter` | does the ring hold the last events, do handlers see what they should, do emissions and goroutines end; is everything given to the middleware emitted, once, in batches of the right size? | two goroutines and three emissions of a plain and a scoped name, one by the second goroutine, two by the first, the second of these perhaps inside a handler of the first, an `On` and an `OnScoped` handler, one of which may hang, a ring of 2 and channels of 0 or 2; 4 calls of `Emit`, batches of 2, one `Close` | holds |
| `windows` | does a window that joins have everything; does a `WaitFor` never sleep on what is there? | 3 calls of `Emit` or `EmitTo` over 2 names, one window that joins and leaves and one that is never registered, a history of 2; 2 calls of `WaitFor`, 3 records | holds |
| `settings` | are saves atomic, secrets off the disk, callbacks and provider up to date, and do the mutexes never wait in a circle? | two goroutines that save two of six forms, one that reloads, one crash, every failure; a file that is missing, broken or from an older schema | holds |
| `provider_secret` | does the provider get the user's key? | one save | no: the mask that stands for it |
| `upgrade` | is only what was verified installed, and is there always a whole executable; do records, stamp and backups agree with the schema? | two goroutines, three versions of which one is signed, two downloads, one restart, every failure, with a public key and without; releases with two to five migrations, six openings, one backup kept, every failure | holds |
| `diagnostics` | are sensitive fields redacted; are bundles sound and their logs within the cap; does success mean that the server has it, and does everything end? | five loggers, one a group, derived from each other, and two lines; logs of 1 line, a cap of 2, one rotation with its compression, one crash log, two collectors, two bundles; retry limits of -1, 0 (for 3) and 2, three writes of the file | holds |
| `database_downgrade` | is an older release always refused? | two openings | not when `New` stopped before the stamp |
| `context_roles` | do the summary and the bridge make roles alternate? | the conversations of `algorithms` | they do not: two turns of the user's, or two of the assistant's |
| `logging_fields` | does a logger show the fields it was derived with? | four loggers, two of them derived from one parent with room in its array | it does not: the second overwrites the field of the first |

Parts that share a run share no state: each one moves while the others are
where they began, so that the run checks each of them alone, and its states are
the sum of theirs and not the product.

Three emissions wrap a ring of two around, and fill a channel of two with an
event to spare; with two names they leave a joining window one event that was
displaced and one that it must get. Four calls make two full batches, or one cut
by a timer and one in the making while an older timer's callback waits. Two calls
of `WaitFor` for one name are what it takes for a record to find two waiters.

Three services already give every shape of dependency between two of them
(none, direct, through a third, shared), and two startups are what it takes for
a call given up on in one shutdown to return during the next startup.

Fairness: `Lifecycle!Spec` has weak fairness on `ManagerStep`, the steps of the
manager's own goroutine once an operation is called. The Go scheduler runs a
runnable goroutine, and a timer fires. Nothing is assumed of the services (they
may hang) or of the application (it need not call anything).

`Emitter!EmitterSpec` has weak fairness, for each goroutine, on the steps of its
emissions that are the emitter's own. For a handler in `Returning` it has weak fairness on
its goroutine, which takes an event and returns from the handler, and strong
fairness on `TakeDone`, because Go's `select` chooses among ready cases at random:
a goroutine whose channel keeps filling still sees `done` sooner or later. The
handlers in `Returning` return; the others owe nothing. `MiddlewareSpec` lets
timers expire and scheduled callbacks run.

`ProviderManager!ProviderSpec` has weak fairness on what a goroutine does inside
`SetValues`, `GetValues` and `reload`, and strong fairness on a callback taking
the manager's mutex: Go's `sync.Mutex` does not starve a waiter. Nothing makes the
application save or reload. `Webhook!WebhookFairness` has weak fairness on the steps
of `SubmitBundle` itself, among them its timeout and its backoff, and on the
goroutines that write the bodies; the server and the application owe nothing.
The other specifications have no liveness property and no fairness.

`EventuallyEmitted` says that what is given to the batcher, and the last event of
a burst that is debounced, is emitted at some time, not when.

Two saves at once and a reload beside them are what it takes for each pair of the
three locks to be waited for; a crash shows every state the disk can be left in,
and the next save starts from it. Two downloads are what it takes for one to end
while the other is applied, and the restart shows that what an interrupted
update left is no obstacle. The answers of three releases contain every circle of
three that an order could have. Six openings are enough for a migration that fails,
a retry, a downgrade, an upgrade and their backups in any order.

An array of two fields grows to a capacity of four for the third, so that two loggers of
a fourth field share it. Two bundles are what it takes for the second to empty the file
of the first; a cap of two is exceeded by `app.log` that grows beside a crash log, and
by the part of a log whose copy failed. Three attempts are the code's default, and the
most that `Webhook` has; a file that is written three times may be announced, submitted,
emptied and announced again during one submission.

Properties that name a call given up on (`abandoned`) or a failed stop
(`refused`) are weaker there because the code is: a timeout leaves the
goroutine of the call running (`lifecycle.go:298`, `327`), and the manager goes
on without it.

## Proofs

TLC checks the invariants on the instances above; the theorems say the same of every
value of the constants. Every safety property of every passing run is stated by a
theorem, and so are the refinements of the four abstract specifications. The argument is
always that of an inductive invariant: a conjunction of named parts that holds
initially, that each action keeps, and that implies the property. What follows says what
each one adds to the property, since that is why the property holds.

The constants are assumed to be what the modules that declare them say
(`...Assumption`), and no more: sizes and bounds are natural numbers, names are finite
in number, a value that stands for nothing is none of the others. The ones that say
something of the application are those of `Settings`: the schema has fields
(`SettingsAssumption`), a settings file that an older version left has no field that is
a password or computed now (`FilesAssumption`), and the keys that choose provider and
model are no passwords (`ModelKeysAssumption`), as in `llm/group.go`. TLC evaluates them
on every run.

### LifecycleProofs

For any finite set of names and any registrations, `SortTypeCorrect` and
`SortRespectsDependencies`. That a popped service follows its dependencies depends on the
in-degrees being right: `SortInv` says that the in-degree of a service is the number of its
dependency edges still pending (those whose dependency is not popped or,
inside the loop, is popped but not yet visited), that what waits in the queue has
none pending, waits once and was not popped, and where the loops are. The lemmas
before it count finite sets.

`SortOrdersOrFindsCycle` is the other half: nothing that could be ordered is left
over. `NoneForgotten` says that a service without pending edges is in the queue or in
the order, from the loop over the roots on. When the queue is empty, each service that is
not ordered so has a pending edge to another one, and these are the knot that
`OrderOrCycle` speaks of; when all are ordered there is no knot, as the first of its
members in the order would follow another one.

`LifecycleTypeCorrect` and, from distinct names, `LifecycleImplements` (the manager
implements `DependencyOrder`), `LifecycleStartsOnLiveDependencies`,
`LifecycleStopsAfterDependents` and `LifecycleBooksMatchServices`. `ManagerInv` says that
`started` is a prefix of `order` and that `live` counts it outside the stop loops;
`ServiceInv` relates `up`, which the code does not see, to the books: what runs is
active, or was lost to a call that failed or was given up on. The hypothesis
`[]DistinctNames` is needed: a name registered twice is queued once per
registration, and each pop takes one from the in-degree of its dependents, so that the
registrations a, a, d, c, b, where c depends on b, are started in this order.

`LifecycleEventsMatchBooks` needs no such hypothesis. `EventsInv` says which services
are announced in each loop: those listed while services start, some of them during a
rollback, at most those still active during a shutdown; and that between
operations all services are listed or none, so that a failed startup leaves nobody
announced.

### EventHistoryProofs and WindowsProofs

For every size, every set of names and every set of payloads, the ring keeps its
type (`HistoryTypeCorrect`) and implements `BoundedLog` (`HistoryImplements`). The lemmas
are about positions modulo the size: slots of different ages are different
(`RingSlot`), and a record moves every older one back by one (`RecordShifts`).

For any windows, names, sizes and number of calls, `WindowsNothingMissed`, and
`MemoryNoLostWakeup`. `RingInv` says that the ring holds the last of what was recorded,
and takes its step from `EventHistoryProofs`; `SentInv`, that what was sent but not
recorded was given to every window that was there, or is in its `early`; `JoinedInv`
then follows from what the snapshot of the ring held and what was recorded after it.

### EmitterProofs

For any goroutines, handlers, scripts and channel sizes: `EmitterTypeCorrect`, which also
says that the emitter has each handler that is not cancelled once (`Registered`);
`NothingNewIsHandled`, `EventsHandledInOrder`, `ReplayIsNewest`, and
`EmitterImplementsLog` (`BoundedLog` again, now with all that the emitter does).

The properties of the handlers rest on the channels: an event that a handler may yet be
called with is in its channel, or in a snapshot. `Got` is what it was given either way.
`Delivered` says that an emission under way has not given its event to those left of its
snapshot, and that nobody got what was not emitted; it needs that a snapshot names
nobody twice, and for the order that a goroutine has one emission under way at a time
when handlers are asynchronous (`EmissionsInPlace`). `ChannelsInOrder` says that what
waits in a channel is newer than what was handled and than what is before it, if it
comes from the same goroutine. `NoNews` says that neither a channel nor a snapshot has
an event that was emitted after the handler's cancellation. `RingHolds` says that the
ring is the end of `recorded`, from which what the two searches find follows.

For any batch size and any number of calls: `BatcherTimerCovers` and `BatcherEachOnce`.
`TimerInv` says that there is a timer exactly while events wait, and that it is armed
or its callback waits for the lock; `BufferInv`, that the buffer holds the last payloads,
and so begins where the batches end; `BatchesInv` and `OneBatchInv`, that every payload
taken from it is in exactly one batch, in flight or emitted, and that a batch is a run.
So a callback does no harm that finds the buffer empty, or a newer batch in it.

### SettingsProofs

For any schema, forms and goroutines, with failures and crashes at every step:
`SettingsTypeOK`, `SettingsNoSecretsOnDisk`, `SettingsCallbackSeesSave`,
`SettingsImplementSavedSettings` (`SavedSettings`) and `ManagerProviderCurrent`.
`LocksHeld` says that who holds which lock follows from where the goroutines are, which
makes every critical section exclusive. `SetsItsForm` says of the one `SetValues` under
way that what it is about to rename merges its form into the file as it is now, and that
the file holds its form until the callbacks have returned: this is what implements the
abstract save, and what a callback sees. `NoSecrets` speaks of the file that is being
written, too. `Current` says that a provider, or what a reader has read for one, which
is not what the settings say is going to be replaced: some `SetValues` has its callbacks
yet to call or to end.

### UpgradeProofs

For any workers, versions, downloads and restarts, `UpdatesTypeCorrect`,
`UpdatesOnlyVerifiedRuns`, `UpdatesAlwaysRecoverable` and `UpdatesApplyAllOrNothing`.
That only verified versions are installed rests on nobody writing to the file that was
verified. `FilesInv` says that each goroutine that downloads has a file of its own,
which is neither recorded nor read by `ApplyUpdate`; `SignedInv`, that what was verified
stays so or is gone; `ApplierInv`, that what `Apply` moves is whole and what it sets
aside is the executable it found.

For any releases and any baseline, `DatabaseVersionTellsSchema`,
`DatabaseDowngradeRefused`, `DatabaseStampNeverFalls` and `DatabaseBackedUp`.
`DatabaseInv` adds what the rows are while a baseline is stamped or was given up
(`BaselineInv`: those below some version of it, so that no migration can run any more),
that a database without the table is fresh or about to be baselined, and that a schema
above the stamp is either one that was not stamped or the baseline every release has.
`BackupInv` says that `New` leaves schema and stamp as it found them up to the
migrations, and that from then on there was no need of a backup or the newest one is the
database as it was found: neither the name that two backups may share nor the removal of
old ones loses it.

For any tags, pre-releases of any length among them, `VersionsAreOrdered` and
`ChosenIsNewest`. `Follows` is transitivity as the results of three comparisons show it:
with the first and the second the third is at least 0, and more if one of them is. The
results for numbers and identifiers do, and the first that is not 0 does when each part
does (`FirstsFollow`). Pre-releases of different lengths are compared place by place: a
place beyond the end of the shorter one counts as older than any identifier
(`PrereleaseByPlace`), so that three of them can be compared at the same places.
`VersionInv` then is `LatestIsNewest` with the types of the loop.

### DiagnosticsProofs

For any loggers, fields and sensitive keys, `LoggingTypeCorrect` and
`LoggingNoSecretLogged`. `HandlersInv` is the reason why shared arrays do no harm to
redaction: an array that some redacting logger can reach holds only fields that were
redacted, whoever wrote them, since a handler's kind is its parent's. `GovernedInv` says
that a logger that comes from a `Get` after an `Init` with sensitive keys redacts.

For any retry limits up to three and any number of bundles,
`WebhookSubmittedWasReceived`, `WebhookRetriesJustified` and, of `BundleFile`,
`AnnouncedBundleIsSound`. `SubmitInv` says that the file that is submitted was
announced, and `ReceivedInv` what the server can have read: something sound, unless the
file was disturbed.

For any number of crash logs, collectors and bundles and any cap, `BundleLogsWithinCap`,
`BundleImplementsBundleFile` and `BundleAnnouncedIsSound`. A log that grows before its copy
goes beyond the cap by what it gained, and one that is copied in part by no more than
what it was measured and gained. `GrowthCounted` adds up what was copied and
what the logs yet to be visited have gained (`Excess`): no more than what was measured,
`failed` included, and gained since. Only `app.log`, the log being compressed and the
newest crash log can have gained anything (`FilesGrow`), as
crash logs come in the order of their seconds (`CrashLogsInOrder`) and a rotated log
is only deleted.
`ArchiveInv` says that the archive stays open while it is made and that the manifest
lists what it holds whole; the refinement, and with it what `Webhook` assumes of the
file, follows from it.

### ContextWindowProofs

For any messages, tokens, budgets and windows, `WindowKeepsPairs` and `WindowLongest`.
`Walking` says that `used` are the tokens from `windowStart` on, `AdjustsLongest` that
the window was the longest before it was adjusted, and `Adjusted` what the adjustment
left. The lemmas say that tokens do not grow when a message is left out, so that the
walk may stop at the first message that is too much. They are inductions over the
conversation, stated without an operator as a parameter: a set of naturals with a
counterexample has a least one (`LeastNat`), and that one leads to a contradiction. In
the same way `UpgradeProofs` takes the first place where versions differ.

### Only model-checked

Liveness under fairness (`ShutdownEnds`, `EmitEnds`, `GoroutinesEnd`,
`EventuallyEmitted`, `SetEnds`, `SubmitEnds`): the prover has no rules for fairness and
`ENABLED`. That a property of a `violation` run fails is shown by a trace. That
`Validation` accepts what the code accepts has no property: `SetsItsForm` says that only
accepted forms are saved.

## Not modelled, and why

- A second `Startup` while services are started, and two operations at once:
  the manager keeps no lock and forgets the first list; the application is
  assumed not to do it.
- `Health` and `Order`: they read and change nothing.
- Windows and handlers of one emitter together: they share the history alone, which
  both modules extend. The operations of the in-memory backend that read its
  records.
- The order in which a window gets old and new events: `ReplayAll` hands out a
  snapshot while others broadcast, so that the new event may come first. Module `Windows` has
  the behaviour; nothing in the code or its documentation promises an order.
- The throttler: one comparison of two times under a lock.
- A name registered twice with the lifecycle manager: modelled, but outside of what
  the properties and the theorems are about (see Proofs).
- The delay of a debounced event. The callback of a timer that fired before `Stop`
  emits the payload of the push that tried to stop it at once, and that push's own
  timer emits it again: module `Middleware` has the behaviour, and
  `EventuallyEmitted` is about what is emitted at last.
- The system prompt's segments, the text of the summary, the table of model budgets.
- Two `CreateBundle` at once, which write one archive when they fall into one second,
  and a bundle's name a year later. What log files and crash logs say.
- Attributes inside of groups, which the redacting handler does not look at, and the
  levels, rotation (lumberjack's) and JSON of the log.
- Texts of errors, payloads of events, durations.
- A schema without fields: the settings' store then lets every key pass
  (`store.go:97`, `113`, `121`). The settings' assumption is that it has some.
- A settings callback that calls `SetValues`: it would wait for itself
  (`service.go:183`); a precondition. Compute functions, which add to what is read.
- A settings file that cannot be read for another reason than its contents. The
  code would then save the form alone (`store.go:108`).
- Two `ApplyUpdate` at once: an application applies one update at a time.
- HTTP, asset names, archives, signatures: I/O that ends in a file or an error.
- Two processes that open one database at once, `WithDB` without a path, out of
  order and non-transactional migrations: goose's matter. Old backups that cannot
  be deleted.
- `errors`, `appdirs`, `shortcuts`, the schema types and the provider adapters:
  constructors, paths and request translation without state.

## Disagreements that no run shows

- `logging/README.md:57` and `:65` say that a value becomes `[REDACTED:N chars]`;
  `redact.go:71-72` writes `[REDACTED]`, which does not tell its length.
- `diagnostics.go:393` and `diagnostics/README.md:118` promise the newest log files
  first; `diagnostics.go:396` sorts by name, so that crash logs come before `app.log`
  and all of them, old or new, may use the cap up.
- `diagnostics.go:123` calls the cap "maximum total size"; it is compared with sizes
  measured before the copies, and exceeded by what logs gain meanwhile; and a copy that
  fails leaves its part in the archive without being counted (`diagnostics.go:407-411`,
  `441`). `LogsWithinCap` says by how much.
- `diagnostics/README.md:100` says that the manifest lists all files in the bundle. A log
  whose copy fails has its entry in the archive already (`diagnostics.go:437-442`), and
  `writeLogs` does not list it (`diagnostics.go:407-409`). `ImplementsBundleFile` says what
  holds: the manifest lists exactly what the archive holds whole.
- `llm/context.go:172` and `llm/README.md:151` say that tool uses and results are never
  split. With no tokens left for messages the window is the last message alone
  (`context.go:229`), even when it holds the results of a use before it (`PairsKept` and
  `WindowIsLongest` except a budget of 0 or less).
- `logging/README.md:52` says that rotated files are not compressed by default;
  `logger.go:74` compresses them unless `Compress` says otherwise.
- `logger.go:131`: an `Init` between the two steps of the first `Get` is undone by
  `Get`'s own `Init` (`NoSecretLogged` excepts this).
- `webhook.go:92`: with a malformed URL the goroutine that writes the body waits for a
  reader forever (`SubmitEnds` excepts this).

## Plan

What further work would add most, in this order:

1. Proofs that need no fairness but say why operations end: measures that every step of
   an emission or of a submission lowers; and type theorems for `MemoryBackend`,
   `Windows` and `Webhook`, whose types are so far parts of other invariants.
2. Two `ApplyUpdate` at once (`service.go:330`), and the recorded download that the
   first one forgets (`service.go:368`).
3. A `Startup` while services are started.
