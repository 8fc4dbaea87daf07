# Verification of stint

stint is a self-hosted coding-activity server that is compatible with WakaTime.
Editors hand *heartbeats* to a command line tool (`cmd/stint`,
`internal/stintcli`), which posts them or queues them offline. A server (`cmd/server`,
`internal/api`, Postgres) stores them and answers statistics; a second process
(`server worker`, `internal/workers`, Redis and asynq) recomputes, rewrites,
imports and exports. A collector (`cmd/collect`, `internal/collector`) reads the
transcripts of AI agents and posts *usage events*. A web console shows it all.

This directory holds TLA+ models of the parts whose correctness depends on the
order of steps or on computations that must agree, TLC configurations that check
small instances, and proofs that TLAPS checks for every value of the constants.
`PROJECT.json` maps every definition to the source lines it stands for, and lists the
components, the runs, the mutants that show each property can fail, the hazards and
the theorems.

    cd tla
    tlc -workers 2 -config OfflineSerial.cfg MCReporting    # a run
    tlapm StintCliProofs.tla                                # proofs

## Inventory

What each part keeps, what makes it hard, what it must guarantee, and where it is
modelled.

| part | state | hard behaviour | what makes it correct | module |
|---|---|---|---|---|
| CLI sending and offline queue (`heartbeat_send.go`, `offline*.go`, `commands_offline.go`) | a bolt file shared by all invocations, the legacy `.wakatime.bdb` | invocations overlap between bolt transactions; lost answers; failed items; crashes | no heartbeat vanishes; each is settled in the end; a sync ends | `OfflineQueue` |
| CLI backoff and internal configuration (`backoff.go`, `config.go`) | one file of keys, rewritten as a whole for each key | overlapping read-modify-writes, truncation, crashes, a clock | posts are held back exactly as failures ask for; no other key is lost; posting is tried again | `InternalConfig` |
| CLI AI synchronisation (`ai_*.go`) | the mark up to which transcripts were read | one mark over all sources; scans overlap and stop; entries appear late | what the mark passes was counted, once | `AITranscripts` |
| Statistics cache (`router.go`, `project_stats.go`, `stats_worker.go`, `jobs/stats.go`) | rows with `is_up_to_date`, recompute tasks, uniqueness locks | a write between the read and the upsert; failures between commit and mark; retries that run out | a row that claims to be current is current; a stale row that is asked for is refreshed | `StatsCache` |
| Statistics algorithms (`internal/services`) | none | gaps, midnights, time zones, daylight saving time, external durations, rounding | what is computed in several places agrees | `CodingTime` |
| Goals (`goaleval`, `goals.go`) | goals, evaluations, the hourly task | lost or late hours, time zones that skip hours, retries, edits | every ended window is evaluated once, over all its heartbeats | `GoalSchedule`, `CodingTime` |
| Custom rules (`custom_rules*`) | rules, prepared rules in memory, a progress row | cache filled with replaced rules; rewrites, aborts and ingestion interleave; connections held across statements | Completed means rewritten; an abort sticks; rewrites do not starve each other | `CustomRules` |
| Data dumps and WakaTime imports (`dumps`, `importer`, workers) | a row with a status, a file, stored bodies | leases, retries after completion, failed enqueues, two writers of a file | Completed means done; imported heartbeats reach the statistics; nothing stays Pending | `ServerJobs` |
| OAuth tokens (`store.go`, `router.go`) | codes, tokens, applications | requests that interleave between a read and a transaction | a code gives one token; a token is replaced once; nothing outlives its application | `OAuthTokens` |
| Lookups of keys and tokens | connections of the pool | a second connection while a result is open | requests end | `ConnectionPool` |
| Rate limiting (`middleware`) | times per key, in Redis or memory | windows of different length, sweeps, evictions, fallback, overtaking | at most the limit per window; Retry-After is right; memory is bounded | `RateLimits` |
| Status-bar and leaderboard caches | values with a time to live | slow views, evictions, Redis failures | answers fit their request and are not too old | `ViewCaches` |
| Usage collector (`cmd/collect`) | a state file, a temporary file, State in memory | growing and restarted transcripts, lost answers, crashes, overlapping collectors | the state file is never ahead of the server; the last count of an event wins | `CollectorScan` |
| Collector adapters | offset, rowid, watermark, row count, time and size of each file | files that change between the look at their size and the read; ties at the watermark | no record is passed unread; none is counted twice | `AgentFiles`, `UsageEvents` |
| Usage events and cost reports (`usagestats`, `pricing`) | stored events, prices, preferences | groups, windows, zones, modes and prices taken by code of their own each | summary, blocks, statistics and rates agree | `UsageReports` |
| Pricing refresh | snapshots, prices in memory | one high-water mark over two sources; times taken before commits | prices follow the snapshots and never go back | `PricingRefresh` |
| CLI heartbeat building, commands; models, migrations, console, plugins | – | text, DDL, React | – | not modelled |

The parts interact as follows. The CLI consults its internal configuration and posts
to the ingestion handlers, which pass a rate limiter and a token lookup, apply
the custom rules, insert the heartbeats, mark the statistics stale and enqueue
recomputations. The worker runs those, rewrites heartbeats after a change of the
rules, and marks the statistics stale again. Server and worker share nothing but
Postgres and Redis, each with a pool of connections of its own. The collector
posts usage events, which the cost part of the statistics reads but which mark
nothing stale. Every statement of Postgres and every transaction of bolt is a step
of its own; between two of them anything may happen, and the models are cut there.

## Modules

Each component is a module of its own with `Init`, one action per step, `Next` and a
specification; its theorems are in `<module>Proofs`, those of `OfflineQueue` and
`AITranscripts` in `StintCliProofs`, those of `CollectorScan` and `AgentFiles` in
`CollectorProofs`, those of `OAuthTokens` and
`ViewCaches` in `ServerDataProofs`, those of `InternalConfig` and `RateLimits` in
`RequestProofs`, those of `ServerJobs` and `GoalSchedule` in `WorkerProofs`. `MCOfflineQueue`, `MCStatsCache`,
`MCCustomRules` and `MCCollectorScan` give the constants of one component to TLC.
The other `MC` modules put components that work side by side into one run:

| module | components |
|---|---|
| `MCReporting` | `OfflineQueue`, `InternalConfig`, `UsageReports`, `PricingRefresh`: what is sent, and what is reported of it |
| `MCStintCli` | `OfflineQueue`, `AITranscripts`: what an invocation of the tool does |
| `MCRequests` | `StatsCache`, `RateLimits`, `InternalConfig`: what decides whether a request is answered |
| `MCStatistics` | `StatsCache`, `CodingTime`, `ConnectionPool`: what a statistics request computes, stores and needs |
| `MCServerData` | `CustomRules`, `OAuthTokens`, `ViewCaches`: what the server keeps |
| `MCWorker` | `CustomRules`, `ServerJobs`, `GoalSchedule`: what the worker runs |
| `MCCollector` | `CollectorScan`, `AgentFiles` with `UsageEvents` |

In these modules a variable `part` is chosen in the initial state; the part that was
chosen takes its own steps and the variables of the others keep their initial
values. The components share no variable, so a product of them would reach no state of
a component that its part does not; the fairness of each component is required in the
behaviours of its part only. `HeartbeatDelivery` is abstract: heartbeats are new,
pending, done or (on a lossy path) gone, and the last two are final.

Definitions that begin with the comment "Mutant" belong to no specification: each
is a plausible bug in the definition `PROJECT.json` names for it, and the property
it is listed with finds it.

### OfflineQueue

`queue` holds both bolt files as bags of heartbeats in key order (a key that is
taken gets a suffix that sorts right behind it), `batch`, `unsent`, `requeue` and
`remaining` are the locals of `sendHeartbeats` and `syncOfflineQueue`, `accepted`
and `refused` are what the servers have answered. `QueueInBackoff`, `StartSend`, `SpillFails`,
`SendRefused`, `SendPost`, `SendFails` and `SendAppend` are `sendHeartbeats`; `StartSync`, `Dedupe`, `Count`,
`Read`, `RemoveBatch`, `Post`, `PostFails`, `AppendBatch` and `Unlink` are
`offline sync` from one bolt transaction to the next; `Reset` is `openQueueDB` on a corrupt file.
`lost` is a history of the steps that drop a heartbeat, with one of eight causes: removed unread,
deleted with the legacy file, an item failing in a direct post (which looks at the HTTP status
only), a silent loss of results, a failed append, a target that cannot be made of the
configuration (no API key, an invalid one or an invalid URL: `sendHeartbeats` returns the error
and queues nothing), a corrupt queue file that is renamed, a crash.

The code is not lossless, so two things are said of it. `Accounted`: there is no
*other* way to lose one. `NothingLost` and `ImplementsDelivery`: with one invocation at
a time and posts that fail as a whole, it implements the lossless
`HeartbeatDelivery`. The refinement mapping calls a heartbeat done when every target
has answered it or it was merged into a near duplicate, else pending while a file or an
invocation holds it. `StepLosesAtMostABatch` bounds what any step drops of the heartbeats that
were handed over before it: a batch. It excepts the two steps that drop a whole file (`unlinked`,
`corrupt`), and says nothing of heartbeats that are dropped in the step that hands them over:
an append that fails for what an invocation was just handed drops all of it.
`MergedIntoNear` says that a duplicate is deleted only for a heartbeat within its window that is
still queued then (`DeleteQueueDuplicates` does not chain).

### InternalConfig

`file` is the internal configuration with `backoff_retries`, `backoff_at`,
`heartbeats_last_sent_at` and the AI mark; times are ages, which grow with `Tick`. An
invocation reads it (`Begin`), decides (`Decide`), posts, and writes its keys one by one,
each by reading the file (`Load`), truncating it (`Truncate`) and writing all of it
(`WriteBack`). `Killed` and `WriteFails` cut a write short; `MaxMishaps` bounds these and
overlapping starts. `BackoffAsFailed` compares each decision, when it is made, with a history of the
failures (`streak`, and the time `sinceFailure` of the last one): an invocation holds its
heartbeats back if and only if the window of those failures is still open. It and
`MarkKeptUnlessTorn` say what remains right unless invocations overlap or are cut; `PostsTriedAgain` that nothing that goes wrong
holds posts back for ever.

What the model shows and no property says: from eight failures on the window (15 s
doubled eight times) exceeds the hour of `backoffMaxSeconds`, and posts are not held back at
all; retries and time are two writes, between which another invocation sees half; the
posts of `syncOfflineQueue` neither consult nor record the backoff; a crash between
truncation and write loses every key.

### AITranscripts

`entries` are what each transcript holds, in the order they appeared; `scan` is what each scan
does from the `mark` on; `sent` is what the server stores, one for each entity and time. `behind`
and `loose` are histories of the entries a mark has passed and of those that scans counted
without recording a mark. A scan has `unseen` what is written once it has read a transcript,
or with a time before its own mark: overlapping scans start from different marks, so an entry
that the present mark has not passed can be too old for a scan that is still reading, and
then that scan's mark passes it. The
mark is the newest activity of *all* sources, so an older entry that another source
shows later is passed (`MissedOnlyIfPassed`); it is cut to whole seconds, so entries of its second are counted
again (`RecountedInItsSecond`), as are those of a scan that ended before it recorded
its mark.

The limits of the code are in the model. `over` are files that a scan passes over (`Outgrow`): those
over 32 MiB, those after the 10000th of their tool, and executions of Kiro that do not parse. A
scan takes what they hold for `unseen`, so once another transcript moves the mark their entries
are `behind`, and nothing tells the user. `torn` are files that fail a whole scan (`Torn`): a
document until it parses (`Mend`), and a file of lines for good once a line is longer than the
4 MiB of the scanner's buffer. From then on no scan records a mark and no activity is counted until
the file is removed or is older than the mark, so `TranscriptsEventuallyCounted` claims nothing
while there is such a file. `ORDER BY time ASC LIMIT 5000` never reads newer rows of a
larger table, and totals (Codex, for instance) are counted as a whole each time. Left out are the
heartbeats of single files, which end after the twentieth (`ai_summary.go` 36, 65). Entries bear a
time at most `Delay` before the one they are written at, and none before `Earliest` (`Stamps`): one tick
and the third instant in the run, any numbers in the theorem about marks. `Delay` is what
puts an entry on the far side of a mark that a scan recorded before it was written.

### StatsCache

`cache` has the rows of both tables, with `data` the database rows they were
computed from instead of the numbers; `tasks` is asynq's queue by failures so far, `unique`
its uniqueness locks (only project tasks have one). A computation reads the
settings, the heartbeats and the extras in three statements and upserts in a fourth
with `is_up_to_date = true`, whatever happened meanwhile. A write commits, marks
`stats_cache`, marks `project_stats_cache`, enqueues and acknowledges, each a step.
`missed` records the writes behind a computation's back. `UpToDateUnlessMissed` is
the exact promise of this code: a row that claims to be current, and a computation under
way, can be wrong only about those and about writes that have not marked the cache or
died before they did.

Consequences that are not stated as properties: a write
that dies between its commit and its mark leaves rows stale for good; a computation that
overlaps a write can overwrite the newer result of another; a stale row of a range
outside `DefaultStatsRanges` enqueues a task that does not recompute it.

### CodingTime

`beats` and `externals` are rows that arrive in any order; every operator
translates one computation of `services`: durations, slices, days, hours, status bar,
goals, AI fields. `StatisticsAgree` relates them: breakdowns, days and hours add up to the
total, status bar and goals say the same of a day, agents' time and costs are covered,
and a late heartbeat takes at most a second from the total. `LiveGoalsAgree` is about
`GoalWindow`, the day or week of UTC over which a goal's progress is shown while it lasts
(`goals.go` 198–209). The status bar and the evaluations of goals count the user's day. So live
progress equals the status bar only where the same coding lies in both days, equals the all-time
totals of that day of UTC otherwise, and a week's is that of its days, but for what
midnights divide. `TodayAgrees` relates the status bar to the statistics and to what is recorded of a goal
for the user's day.
Its exceptions are what the code does: `daysBetween` divides hours by 24, so
a range in which daylight saving time starts omits today from its days and AI costs; a
duration that crosses midnight counts for the day it starts in; the timeline's hours are
those of UTC; the weekdays that a goal ignores are those of UTC, whatever its window; a goal with a project
filter computes gaps on the filtered sequence; all-time days omit external durations that
start on another day.

### ConnectionPool

A request is the list of uses of the pool its handler makes, each with the connections it needs
at once. A lookup of a key or a token (`store.go` 714–744, 886–942, 974–1025, 1069–1101,
1169–1233) keeps the connection of an open result while it takes a second one for
`last_used_at`, an upgraded hash or a transaction; when such lookups hold every
connection, only clients that give up resolve it. `EveryRequestEnds` states that
this is the only standstill.

### RateLimits

`kept` holds, of each key, the admitted requests whose times Redis and the memory still
have. A refusal counts from the smallest time in Redis and from the first in memory
(`Oldest`), which differ once requests overtake each other. The time of a
request is read (`Ask`) before the script or the lock (`AllowRedis`, `AllowMemory`), so
requests overtake each other. `LimitsHold` excepts what the code drops (`excused`):
`sweepExpired` cuts every key by the cutoff of the key that asks, and
`evictOldestEntry` forgets a key for another (`README.md` 255–260 and `docs/SPEC.md`
697–703 promise limits per route); a failing Redis starts a second count. That a limited request
is answered 429 and still carried out (`router.go:5158`: the JSON answer returns nil) is
why no other module uses the limiter as a guard.

### CustomRules

A heartbeat's fields are a *content*; a rule is a priority, the contents it matches
and what it makes of them. `Apply` is `ApplyPreparedCustomRules`. `cached` is the
server's prepared rules; `status` and `done` the progress row and the version of the
rules the completed rewrite had read. The rewrite is modelled statement by statement
with the connections it holds (`held`): the transaction, the query that stays open
during the scan, and the third one for the look at the progress. `Rewritten` is
the batch of the transaction in row order, including the rows pushed out by the unique
key. `late` is a history of the heartbeats last written under replaced rules.

That rewrites end depends on the pool: a rewrite keeps two connections and needs a third
for a moment, so `n` concurrent rewrites need `2n + 1`. The run has the smallest such
pool. The defaults do not satisfy this: sixteen connections (`STINT_DB_MAX_CONNS`)
and a concurrency of ten, so eight rewrites can wait for each other until their
deadline.

### CollectorScan

`lines`, `partial` and `gen` are the transcripts, which only agents change; `mem`, `size`,
`todo` and `found` a collector's `State` and scan; `disk`, `tmp` and `fd` the state file, its
temporary file, and which of them a collector's open file is at present (a rename by
another one moves it). `ledger` is `usage_events`. Files are scanned concurrently and
events posted in any order, so the model lets them come in any.

`SavedMeansStored` holds however collectors overlap and crash, but for what a watch
drops (`dropped`; finding `FailedPostRetried`). With overlapping collectors an older
count can overwrite a newer one, and both can write one temporary file, a mixture that
`LoadState` refuses: `CountsFinalUnlessOverlapped` and `StateReadableUnlessOverlapped` except
this. `Jumped` is a transcript that starts over and outgrows the old offset.

### AgentFiles and UsageEvents

One file of one agent: `records`, its unfinished last line (`tail`) or half-written document
(`torn`), what the scan remembers of it (`mark`) and what it saw before it read (`stat`).
`UsageEvents` is what each adapter makes of a record: its id, its tokens, whether cached
input is part of the input. What a scan reads is a set of pairs, a row's number with an event of
it: `DedupEvents` keeps of one id the first with the largest output, as `Dedup` does, and the
context of a Codex line is the last model and directory before it in what the scan read.

A line may be longer than `maxJSONLLineBytes` (4 MiB): it is consumed and no adapter is given it. A document
larger than `maxCollectorJSONFileBytes` (64 MiB), one that does not parse and one that cannot be opened
(`DecodeFails`) are marked as read with a count of errors, and nothing is read of them until they
change. `ScanMissesOnlyPassed` excepts these by name (`Carries`, `TooLarge`, `behind`), and
`RecordsEventuallyCounted` speaks of files within the limits. In the run a document of more than
`DocumentLimit` (two) records is too large, and the lines of `LongRequests` (one of two requests) may be too long;
the context of a Codex transcript is a short line. `ScanMissesOnlyPassed` says what the mark passes was read, unless the agent
wrote it where the mark had been already (`behind`): rows with the `time_created` of the
watermark (`opencode.go` 126–128 asks for `>`, while the comments at 126 and 170–172 speak of
ties), rows of a table that are updated in place, new rows at the top of Cursor's CSV.
`UsageCountedOnce` says that reading again counts nothing twice but what carries no id, and Codex
files that are resumed in the middle, whose context is lost.

Not stated: SQLite files are opened `immutable=1`, which ignores the WAL; an error in
the middle of Zed's rows still commits the file (`rows.Err` is not looked at); Cursor's table is read
with `LIMIT 5000` and no order; a Copilot comment promises a reading of the whole file
that the code does not have; Goose and Hermes report epochs as integers, which the server
refuses; one CSV export under two names counts twice. Requests have distinct times, and
a database has one row for each. No record states its own cost (`NoCost`): `HasUsage` looks
at it as `event.go` 66 does, but it is absent throughout.

### ServerJobs

One dump or import: its `row`, the `task` in asynq, what each `run` of it is doing, the cells of
the `file`. A run is a request that does the work itself, a task under a lease, or a
download that has to write the file again. A task that has done its work is still under its lease
until it is acknowledged (`Acknowledge`): a worker that stops there, or loses the lease, has it given
out again although the row says Completed. That is how a Completed dump becomes Failed
(`CompletedStaysUnlessRepeated`) and how its file is cut while it is offered. `disturbed`
records that the file was opened while it was being written, complete, or about to be called so
(`Claimed`); a later run that writes alone to the end makes it whole again. `JobsSound` says
that but for this the file of a completed dump is whole, that a processed import is
stored, and that statistics which claim to be up to date count it, unless it was cut between its commit
and the marking (`unmarked`): the retry inserts nothing, so it marks nothing.
`NothingHangs` includes that a row stays Pending only after a request or a last attempt was cut
short. A commit whose answer is lost is not among the failures.

Not stated: overlapping downloads each write the missing file (`router.go:4125`); a data
dump holds every heartbeat, whatever `writes_only` says (`README.md:359`).

### GoalSchedule

`clock` is the hour; an hourly task is given out, perhaps late or again, and evaluates the users
whose local hour is 0. A developer's task (`DevGoalsEvaluate`) evaluates all users, for the present or for
any hour, one that has yet to come included (`ahead`). `missed` are hours whose task did not work in that hour, `touched`
users that edited a zone or a goal; a goal may be snoozed until an hour or for good (`snooze`).
`EvaluationsSound`: one window of data, read once
for all goals of a user, covers each goal; windows do not overlap, and they have ended, or end by an hour a
developer asked for ahead of the clock. The evaluation of a snoozed goal counts nothing and has the
goal's own target, whatever it is to improve on (`goals.go` 28–40): it is stored like any other (proved).
`DaysAreEvaluated` excepts what the code loses: a task that runs in another hour finds other users
at midnight; a failure for one user cancels the others of that attempt; a zone that skips
local hour 0 (daylight saving time) never has that day evaluated. The limit of four users at a time is not
modelled.

### OAuthTokens

Handlers of the token endpoint, of revocation and of the applications interleave between
their reads and their transactions. `CodeOnce` holds because the code's `used_at` is
set by a conditional update; the refresh of a token does not look at `revoked_at` again
(`store.go:1010`), so two can give it two successors (`doubled`). `crowded` are insertions that
overlapped between the count and the trimming. `RevokedHasNoSuccessor` is the promise of a
revocation. That a deleted application leaves no code and no token behind (`NothingOfDeletedApps`) is mostly
the database's cascade; it is proved and not among the runs. The limiter guards nothing here (see `RateLimits`).

### ViewCaches

`shelf` holds the status bars and leaderboards, in memory up to `MaxEntries` or in Redis.
A request looks, computes and sets in three steps, so a slow view puts an
older value over a newer one for another time to live: `AnswersFresh` allows
for just that. Not stated: a new key evicts the entry nearest to its end, even where the key is there already; nothing removes
a leaderboard when an account is deleted; a payload computed over midnight has the range of
one day and the cached status of another. Redis' own eviction is not modelled.

### UsageReports

Events have an agent, a model, a project, tokens, a billing type and perhaps a cost; `custom`
and `prefs` are the user's prices and billing types. Summary, days, blocks, the costs baked into
statistics and the list of prices are operators of their own, as they are functions of
their own in the code. `ReportsAgree` relates them, with the exceptions the code has: the
range of a summary begins with a day of the server and is cut into days of the user
(`usage_events.go:123`); an agent with usage of unknown billing still costs under the label
"subscription" (`summary.go` 250–262); blocks depend on where the window begins; a fallback rate may be
shadowed by an alias (`pricing.go:147`); rows without usage keep their estimate, and the
dashboard's costs know no custom prices; a model without a name is not listed among those without a
price (`Unnamed`).

### PricingRefresh

Two sources, each fetched, stored and applied by any number of processes. One
high-water mark per process covers both sources, and a row takes `now()` when its transaction begins,
so a commit that comes late is passed (`Overtaken`); a failed refresh falls back to bundled prices (`pricing_snapshots.go`
76–77). `PricesNeverGoBack` is what holds in spite of it.

## Runs

| run | bounds | shows |
|---|---|---|
| `offline_serial` | one invocation, 3 heartbeats (1–2 and 2–3 near, 3 refused by servers, and in the legacy file), 2 targets, 2 transport faults, batches of 1; configuration: 1 invocation, 2 mishaps; 3 usage events; pricing: 1 task, 1 process, 2 versions, 3 stamps | nothing is lost, everything settles, merges do not chain, the queue implements lossless delivery; posts are tried again; reports agree; prices follow and never go back |
| `offline_races` | 2 invocations, 2 heartbeats that are near, 2 targets, a legacy file, one fault of any of 7 kinds, items that fail without end; 2 transcripts, 2 scans that overlap over rows of messages, 2 entries, time to 4, stamps a tick late, 1 stop | nothing is lost but for the eight named reasons, at most a batch a step; syncs end; the AI mark passes only what was counted or passed over |
| `offline_concurrent_sync` | 2 invocations, 3 heartbeats, no fault | *finding*: `RemoveQueuePrefix` removes heartbeats nobody has read |
| `offline_legacy_unlink` | 1 invocation, 1 failing item | *finding*: what is requeued into the legacy file is deleted with it |
| `stats_safety` | 1 request slot, 1 worker, 1 heartbeat, 1 setting, a range and a project, 1 fault, 2 writes, 1 retry; limits: 3 routes, 2 calls at a time, 4 in all, time to 3; configuration: 2 invocations, 1 mishap | current unless missed; limits hold, Retry-After suffices; posts held back as failures ask |
| `stats_live` | the same rows without the setting, no retry; 3 heartbeats or durations, 2 days, a zone one hour off UTC; 3 requests, 2 connections | a stale row that is asked for is refreshed; statistics agree; requests end |
| `stats_overlap` | 2 request slots, 1 worker, no fault | *finding*: the upsert hides a heartbeat that was acknowledged |
| `rules_rewrite` | 2 requests, 1 worker, 2 heartbeats that collide when renamed, 2 changes; tokens: 1 application, 1 user, 1 code, 3 tokens, keep 2, 2 handlers; views: 2, 2 entries, clock to 3 | an abort sticks; codes and tokens; answers are fresh |
| `rules_faults` | 1 heartbeat, 1 fault, 1 retry, a pool of 5; jobs: 2 runs, 2 retries, 3 faults, 2 heartbeats; goals: 2 users, 2 goals, days of 2 hours, 4 hours, 1 edit, developer's task or failure | Completed means rewritten; the cached rules; jobs are done when they say so; evaluations; every process ends |
| `rules_cache` | 1 heartbeat, no fault | *finding*: replaced rules stay cached |
| `collector_scan` | 2 overlapping collectors and 1 event, no fault; 1 collector and 2 events, once and in a watch, 1 fault; 2 lines, counts to 2, 1 restart of a transcript; 1 file of each kind, 3 records, 3 writes, documents of 2 records, one request with long lines, 1 stopped scan; a file of unknown name only where the agent writes no ids | state file behind the server, final counts, readable state, everything counted, once |
| `collector_watch` | 1 collector in a watch, 1 fault | *finding*: a failed post is not retried |

Why the bounds are enough. The races of every model are between two actors and one
object they share, so two invocations, a request and a worker, or two collectors reach
them; a third actor repeats what one of the two does. Three heartbeats are the fewest for
which a chain of duplicates differs from a pair (`offline_serial`; in `offline_races` they are two, near each other), two for which a removal of a prefix
differs from one of a set, or a rename collides. One fault can fall between any two steps;
a second one matters where the first leads to a retry, a third in `ServerJobs`, where a
lost lease, a lost file and a stop can meet. One retry is the fewest that
distinguishes a first attempt, a repeated one and one that has run out. Two changes make
rules that are older than replaced ones. In
`collector_scan` nothing fails while collectors overlap (`FaultsOfOneCollector`):
`SavedMeansStored` is proved without that bound, and the other two invariants of the scan
claim nothing once collectors have overlapped. The theorems remove the bounds for the
properties they are about. Deadlock is checked in `stats_safety` and `stats_overlap`, where clients can
always ask. It is off in the others: a bounded instance stops when its heartbeats, changes,
lines and faults are used up.

Fairness. Weak fairness of `Work`, `Progress`, `CollectorStep` and `RunStep` says that a goroutine or
process that can run its next statement does so; nothing waits on anything but a
connection of the pool. `StartSync` is fair because every successful post of an editor
syncs, and editors go on; it is in one disjunction with `Work`, as an invocation that has ended is
followed by another. In `StatsCache` the worker takes each queued task and clients
keep asking for a row (strong fairness: a slot may be taken for a while), which is all
`RefreshedWhenAsked` claims about; the uniqueness lock expires by asynq's clock. A
collector is run again by a schedule or by its watch. Faults, aborts, evictions and new
requests have no fairness.

## Proofs

TLC checks the instances above; the theorems hold for every value of the constants
that satisfies the `ASSUME`s of the models, which TLC evaluates in the runs: types of the
constants, disjoint slots, bounds that are naturals, scopes that cover what their covers
cover, and, in `InternalConfig`, constants that make failures which are not distinguished alike
(`Old`, `Many`). Three go further:
`ApplyAssumption` (what `Apply` returns is a content or a deletion: `Apply` is a recursive
function over priorities, and TLC evaluates this for the instances); `ZonesAssumption` (no zone skips a
whole local day, as Samoa's did in 2011: such a day would be a window without an hour); and the hypothesis
`Serial` of two theorems about `OfflineQueue`: one invocation at a time, posts fail as
a whole, and no sync limit while there is a legacy file. Without it `NothingLost` is false,
as the findings show.

Every proof module has the same plan: the type invariant or the typed part of the
invariant, a lemma per action or group of actions, `InvInit`, `InvNext`, and theorems that `PTL` closes. An
action property follows from the invariant and one more lemma about a single step. The type
invariants of these models are proved rather than run.

| theorem | of | argument |
|---|---|---|
| `TypeCorrect`, `ConfigTyped`, `TokensTyped`, `PricingTyped` | six models | one lemma per action; for counters of tasks and bags of keys this includes that none gets negative. `JobsTypeOK` is a part of `JobsSound` |
| `AccountedAlways` | `OfflineQueue` | `Accounted` alone is not inductive: it does not say what becomes of a batch when its last post is answered. `Inv` adds, of each batch in flight, which targets have answered for it and what of it waits to be requeued (`InFlight`) |
| `NothingLostAlways` | `OfflineQueue`, `Serial` | `SerialInv`: at each point of a sync, what the one invocation has counted and read is what the file holds, so the prefix it removes is the batch it has, and the legacy file it unlinks is empty |
| `DeliveryImplemented` | `OfflineQueue`, `Serial` | `DeliveryInv` (`SerialInv`, `Inv`, and that only heartbeats that were handed over are anywhere); each step hands new ones over, settles pending ones, or stutters under the mapping of `ImplementsDelivery` |
| `StepsLoseAtMostABatch` | `OfflineQueue` | `BatchInv`: what an invocation holds is at most a batch, through requeueing and several targets; so is what a removal by count takes |
| `MergesAreNear` | `OfflineQueue` | of duplicates, the one that is kept is found by the order of the deletion: of the heartbeats before a deleted one and near it that stay, there is one, and a deduplication leaves it in the file |
| `ConfigTyped`, `MarkKept`, `BackoffAsFailedAlways` | `InternalConfig` | `MarkInv` and `BackoffInv` relate the copy an invocation is about to write to the file and to the keys it still has to write; between the two writes of backoff keys the file is right about neither, and only the pair is |
| `LimitsAreHeld`, `RetryAfterHolds` | `RateLimits` | `LimitInv`: unless a key is excused, its requests were admitted in the order of their times and those in the window that ends at the latest time asked for are kept (`Remembered`), so the count the limiter makes is the count of the window (`KeyAdmitted`); after a refusal, either there is room or a kept request leaves the window by the time named (`RefusalEnds`), and since no more than the limit are kept, a refusal needs every one of them in the window (`AnswerWaits`) |
| `MarkTellsCountedAlways` | `AITranscripts` | `ScanInv`: each format finds what it can count from a mark on and nothing older (`ReadFits`, one lemma a format); so a scan that goes to send has in `found` whatever is not accounted for or `unseen` (`ScanCounts`), and its mark, at its newest heartbeat, passes nothing else. A stored heartbeat is behind the mark and every scan's mark, up to its second, unless its own scan has yet to record (`MarkedOff`), so a scan that runs alone finds again only what is in that second |
| `UpToDateUnlessMissedAlways` | `StatsCache` | a row gets the view of a computation, so the two are one invariant: what was read and has not been written since agrees with the tables |
| `CompletedMeansRewrittenAlways` | `CustomRules` | a version identifies rules (`Reads`), so whoever has read the present version has read the present rules. A rewrite by them sees each heartbeat as its query did, unless a write by the present rules refreshed it or one by older rules put it into `late` (`RewriteOK`); hence its commit leaves all others rewritten, and every later write keeps that (`WritesWell`). A change of the rules makes a version nobody has read, so all of it holds vacuously again |
| `CachedRulesCurrentAlways` | `CustomRules` | the same on versions: a cached version that is not the present one was outdated by a change that is still on its way to the invalidation, or the cache is marked `raced` (`CacheOK`) |
| `OnlyPutLeavesAbortedAlways` | `CustomRules` | a case for each step: those that write the status look at it in the same statement |
| `SavedMeansStoredAlways` | `CollectorScan` | a collector that is posting has in `found` what its memory is ahead of the server (`MemoryGood`), one that is saving has posted it (`PostedFirst`), and so the temporary file and the state file hold entries that are behind the server, whoever wrote them. `DedupCovers` (well-founded induction over counts, from the library) says deduplication keeps an event of each id |
| `CountsFinalAlways`, `StateReadableAlways` | `CollectorScan` | `CountsInv`: events belong to one transcript (`AtHome`) with counts that grow along it (`Growing`), and while no collectors overlap what memory calls consumed is counted or found, posting the largest count found lowers nothing, and one collector owns the temporary file (`Alone`, `Own`) |
| `ScanMissesOnlyPassedAlways` | `AgentFiles` | `FilesInv`. What is known of complete lines is not inductive: the agent may end a half-written line behind the mark, so `Known` says it of every record, the unfinished one included. A record the mark passes stays passed when the file grows; when an agent rewrites what was passed it is `behind`. That a scan stores what it reads takes `MadeIs`: what each of the 24 adapters makes of a record (`Told`: which ids, whose session, which counts), and that deduplication keeps, of the rows with one id, one with the largest output (`DedupKeeps`, by the same induction) |
| `UsageCountedOnceAlways` | `AgentFiles` | the same `FilesInv`: each stored event was made of some record (`StoredFits`), so two of one request have the same ids, session and model and differ in their counts only; rows of one file repeat a request in lines only and with no less output (`RecordsFit`). A Codex transcript begins with its context, so a model is missing only where it was read from the middle |
| `CodesGiveOneToken`, `RefreshedTokensReplacedOnce`, `DeletedAppsHaveNothing`, `TokensAllowRegistered`, `RevokedTokensEnd` | `OAuthTokens` | one invariant, `TokensInv`: a transaction that has inserted a token holds a row nobody else sees (`HandlerFits`, `NewsApart`), a code that a visible token was made from is used (`TokenFits`), a token not refreshed twice at a time is refreshed by one handler and by none once it was replaced (`RefreshedOnce`), nor once its revocation was answered (`QuietFits`) |
| `TokensAreTrimmed` | `OAuthTokens` | `KeptInv`, on top of `TokensInv`: an insertion that is still alone is the only one of its application and user (`AloneFits`), so no token joins those it counted, and its cut leaves at most `Keep` with its own (`CutFits`); the commit makes just that visible |
| `CachesAnswerFresh` | `ViewCaches` | `ViewsInv`: an entry holds a value of its own key, set within `MaxSlow` of its computation (`EntryFits`), because a view is never slower than that (`ViewFits`); a put leaves at most `MaxEntries` of its kind in memory (`PutFits`), since it evicts before it adds |
| `EvaluationsSoundAlways` | `GoalSchedule` | `GoalsInv`: an attempt has nothing of a user before it reads, and what it read is enough for each goal that was listed unless heartbeats came since, which makes them more than the number it knows (`UserFits`, `DataCovers`, `BeatsGrow`); a row has a window that ended, in a zone the user has had (`RowFits`). Windows of one zone are equal or apart (`WindowsApart`): days begin one after the other (`DaysFollow`), and weeks end at multiples of `WeekDays` (`MultiplesApart`) |
| `PricesOnlyGetNewer` | `PricingRefresh` | `InOrder`: unless refreshes of a source overlapped, tables only get newer on their way from the source through the one task that fetches it, the stored row and the row a sync has read to the processes |
| `JobsSoundAlways` | `ServerJobs` | `JobsInv`: what a run does fits its job and its origin (`RunsFit`); before its task exists the one request that creates it has the job to itself (`Beginning`); who writes a file undisturbed writes alone and has written the first cells of what it read (`FileKept`, with `PutExtends` for the next cell); an import past its commit is stored (`ImportKept`) |
| `CompletedStays` | `ServerJobs` | `DoneAtFirst`: after a first attempt that completed nobody has the task but to acknowledge it or to compute the statistics, so a failure can be recorded by a repeated one only |

Writing the invariant of `ServerJobs` showed that `disturbed` has to count a
download that opens the file between the last write of a run and its `CompleteDump`, and that
the time between the end of a task and its acknowledgement has to be a state of its own.

The proof of `AITranscripts` found its history wrong. `MissedOnlyIfPassed` held in the run and
is false for three entries and two scans that overlap over lines of JSON: an entry with a time before the mark of one of the scans, but not before the
recorded one, was not taken for passed. TLC finds that behaviour once the instance is that
large; `Unread` says now what such a scan does not see.

The proof of `AgentFiles` found that `AppendContext`, the first line of a Codex transcript, did not
respect the bound on records: for `MaxRecords = 0` the mark left its type. TLC's
instance has room for that line.

Only model-checked, and why:

- liveness (`EventuallySettled`, `PostsTriedAgain`, `CommandsComplete`, `RefreshedWhenAsked`, `EveryRequestEnds`,
  `NothingHangs`, `DaysAreEvaluated`, `EventuallyCounted`, `RecordsEventuallyCounted`,
  `EnginesFollowSnapshots`): fairness is out of the prover's reach;
- `StatisticsAgree` and `ReportsAgree`: folds and recursive functions over rows, whose results need
  induction over data.

## Not modelled

The reasons are in `PROJECT.json`, per component: parsers, text, HTTP and rendering
have no state that steps could disorder; hashes and signatures are left out; asynq,
bolt, Postgres, Redis and file systems are external and appear as the code uses them. Of
the modelled components: the JSONL variant of the offline queue; the wall
clock that a rolling window moves with; clocks of several servers and restarts of
limiters; the bodies of dumps, archives and provider files; the order of a leaderboard.
Hazards without a property are listed in `PROJECT.json` with the reason.

A session resumed by an agent copies old events into another transcript; `Home` gives
each event one transcript, so this is not in the model. A disconnected client cancels
the context of its request, so no answer is lost after which a server still writes,
other than by the fault that stands for a lost answer.

## Plan

1. Parts of `StatisticsAgree` and `ReportsAgree` that say nothing of a sum over all rows.
2. The JSONL queue in `OfflineQueue`.
3. A composition of `CustomRules` and `StatsCache`: a rewrite leaves no row current that
   it has changed.
