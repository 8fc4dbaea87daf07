----------------------------- MODULE StatsCache -----------------------------
(***************************************************************************)
(* The statistics cache of one user: the tables stats_cache (a row per      *)
(* range) and project_stats_cache (a row per project and range), the        *)
(* requests and worker jobs that fill them, and the writes to the rows the  *)
(* statistics are computed from.                                            *)
(*                                                                          *)
(* Postgres runs each statement atomically; nothing ties a computation's    *)
(* statements together, nor a write to the statements that mark the cache   *)
(* stale after it, so requests and jobs interleave between statements.      *)
(***************************************************************************)
EXTENDS Integers, Sequences, FiniteSets

CONSTANTS
    Clients,       \* request slots of the API server
    Workers,       \* task slots of the worker process
    Heartbeats,    \* rows of the table heartbeats
    Settings,      \* alternatives of the user's settings (timeout, writes_only)
    Extras,        \* rows of external_durations and ai_cost_settings
    Ranges,        \* keys of stats_cache
    ProjectKeys,   \* keys of project_stats_cache
    DefaultRanges, \* jobs.DefaultStatsRanges, a sequence of ranges
    MaxRetry,      \* asynq.MaxRetry
    FaultKinds,    \* the kinds of fault that may happen
    MaxFaults,     \* bound on the number of faults
    MaxWrites,     \* bound on the number of writes
    MaxTasks       \* bound on the number of queued tasks of one kind

Procs == Clients \cup Workers
Rows == Heartbeats \cup Settings \cup Extras
Keys == Ranges \cup ProjectKeys
Faults == {"step", "enqueue"}

ASSUME SlotsAssumption == Clients \cap Workers = {}
ASSUME KeysAssumption ==
    /\ Ranges \cap ProjectKeys = {} /\ "all" \notin ProjectKeys
    /\ DefaultRanges \in Seq(Ranges) /\ DefaultRanges # <<>>
ASSUME RowsAssumption ==
    /\ Heartbeats \cap Settings = {}
    /\ Heartbeats \cap Extras = {}
    /\ Settings \cap Extras = {}
ASSUME BoundsAssumption ==
    /\ MaxRetry \in Nat /\ MaxFaults \in Nat /\ MaxWrites \in Nat
    /\ MaxTasks \in Nat \ {0}
    /\ FaultKinds \subseteq Faults

VARIABLES
    rows,    \* the rows of Rows the database holds
    cache,   \* the cache rows
    tasks,   \* tasks[kind][r]: queued tasks of a kind that failed r times
    unique,  \* the project keys whose asynq uniqueness lock is held
    pc,      \* the statement each process runs next
    key,     \* the cache key a process works on
    view,    \* the rows a process has read, or the data it replies with
    missed,  \* history: rows written after a process had read their table
    job,     \* the task a worker runs
    change,  \* the rows a write has changed, until it has marked the cache
    notify,  \* whether a write enqueues a recompute when it has marked
    asked,   \* the heartbeats an ingestion request carries
    acked,   \* heartbeats whose ingestion was acknowledged
    faults, writes

vars == <<rows, cache, tasks, unique, pc, key, view, missed, job, change,
          notify, asked, acked, faults, writes>>
queues == <<tasks, unique>>
reading == <<key, view, missed>>
writing == <<change, notify, asked>>

Kinds == {"all"} \cup ProjectKeys
Work(kind) == IF kind = "all" THEN DefaultRanges ELSE <<kind>>
NoJob == [kind |-> "all", retried |-> 0, at |-> 1]
Jobs == [kind : Kinds, retried : 0 .. MaxRetry, at : Nat \ {0}]

\* The statements of a computation, by the table they read.
TableRead == [heartbeats |-> Heartbeats, extras |-> Extras]
Absent == [found |-> FALSE, fresh |-> FALSE, data |-> {}, missed |-> {}]
CacheRows == [found : BOOLEAN, fresh : BOOLEAN, data : SUBSET Rows,
              missed : SUBSET Rows]

Stages == {"idle", "lookup", "public", "heartbeats", "extras", "upsert",
           "refresh", "reply200", "reply202",
           "mark", "markProjects", "enqueue", "ack"}
Computing == {"lookup", "public", "heartbeats", "extras", "upsert"}

\* What a process at a stage has read.
ReadBy(stage) ==
    CASE stage = "upsert" -> Rows
      [] stage = "extras" -> Settings \cup Heartbeats
      [] stage \in {"lookup", "public", "heartbeats"} -> Settings
      [] OTHER -> {}

TypeOK ==
    /\ rows \subseteq Rows
    /\ cache \in [Keys -> CacheRows]
    /\ tasks \in [Kinds -> [0 .. MaxRetry -> Nat]]
    /\ unique \subseteq ProjectKeys
    /\ pc \in [Procs -> Stages]
    /\ key \in [Procs -> Keys]
    /\ view \in [Procs -> SUBSET Rows]
    /\ missed \in [Procs -> SUBSET Rows]
    /\ job \in [Workers -> Jobs]
    /\ change \in [Procs -> SUBSET Rows]
    /\ notify \in [Procs -> BOOLEAN]
    /\ asked \in [Procs -> SUBSET Heartbeats]
    /\ acked \subseteq Heartbeats
    /\ faults \in Nat
    /\ writes \in Nat

Init ==
    /\ rows = {}
    /\ cache = [k \in Keys |-> Absent]
    /\ tasks = [d \in Kinds |-> [r \in 0 .. MaxRetry |-> 0]]
    /\ unique = {}
    /\ pc = [p \in Procs |-> "idle"]
    /\ key = [p \in Procs |-> DefaultRanges[1]]
    /\ view = [p \in Procs |-> {}]
    /\ missed = [p \in Procs |-> {}]
    /\ job = [w \in Workers |-> NoJob]
    /\ change = [p \in Procs |-> {}]
    /\ notify = [p \in Procs |-> FALSE]
    /\ asked = [p \in Procs |-> {}]
    /\ acked = {}
    /\ faults = 0
    /\ writes = 0

Goto(p, stage) == pc' = [pc EXCEPT ![p] = stage]

\* A process is done and forgets what it has read.
Finish(p) ==
    /\ Goto(p, "idle")
    /\ key' = [key EXCEPT ![p] = DefaultRanges[1]]
    /\ view' = [view EXCEPT ![p] = {}]
    /\ missed' = [missed EXCEPT ![p] = {}]

-----------------------------------------------------------------------------
(* The task queue of asynq.                                                 *)

\* Enqueue: a task of a project is dropped while another holds its lock.
Push(kind) ==
    IF kind \in unique
    THEN UNCHANGED queues
    ELSE /\ tasks[kind][0] < MaxTasks
         /\ tasks' = [tasks EXCEPT ![kind][0] = @ + 1]
         /\ unique' = unique \cup ({kind} \cap ProjectKeys)

\* enqueueStatsRecompute and enqueueProjectStatsRecompute ignore an error.
Enqueue(kind) ==
    \/ Push(kind) /\ UNCHANGED faults
    \/ /\ "enqueue" \in FaultKinds /\ faults < MaxFaults
       /\ faults' = faults + 1
       /\ UNCHANGED queues

\* asynq.Unique(10*time.Minute) runs out.
LockExpires(k) ==
    /\ k \in unique
    /\ unique' = unique \ {k}
    /\ UNCHANGED <<rows, cache, tasks, pc, reading, job, writing, acked,
                   faults, writes>>

-----------------------------------------------------------------------------
(* Writes.  Each commits, then marks the cache stale in two statements,     *)
(* then may enqueue a recompute, then answers.                              *)

\* The rows C become changed by process p, which goes on to the given stage.
Commit(p, C, stage, tell, S) ==
    /\ writes < MaxWrites
    /\ writes' = writes + 1
    /\ rows' = (rows \ C) \cup (C \ rows)
    /\ missed' = [q \in Procs |-> missed[q] \cup (C \cap ReadBy(pc[q]))]
    /\ change' = [change EXCEPT ![p] = C]
    /\ notify' = [notify EXCEPT ![p] = tell]
    /\ asked' = [asked EXCEPT ![p] = S]
    /\ acked' = acked \ C
    /\ Goto(p, stage)
    /\ UNCHANGED <<cache, queues, key, view, job, faults>>

\* createHeartbeat and createHeartbeatsBulk: stored heartbeats mark the cache
\* stale, duplicates are acknowledged at once.
InsertHeartbeats(c, S) ==
    LET stored == S \ rows IN
    /\ pc[c] = "idle"
    /\ IF stored # {}
       THEN Commit(c, stored, "mark", TRUE, S)
       ELSE Commit(c, {}, "ack", FALSE, S)

\* deleteHeartbeatsBulk.
DeleteHeartbeats(c, S) ==
    LET deleted == S \cap rows IN
    /\ pc[c] = "idle"
    /\ Commit(c, deleted, "mark", deleted # {}, {})

\* updateCurrentUser, replaceAICosts and the operations on external durations.
ChangeInputs(c, S) ==
    /\ pc[c] = "idle"
    /\ Commit(c, S, "mark", TRUE, {})

\* HandleHeartbeatsPurgeTask: no recompute is enqueued.
Purge(w, S) ==
    /\ pc[w] = "idle"
    /\ S \subseteq rows
    /\ Commit(w, S, "mark", FALSE, {})

\* Mutant: the statement that marks the project rows is missing.
MarkedRangesOnly(table) ==
    cache' = [k \in Keys |->
                IF k \in table \cap Ranges
                THEN [cache[k] EXCEPT !.fresh = FALSE, !.missed = {}]
                ELSE cache[k]]

Marked(table) ==
    cache' = [k \in Keys |->
                IF k \in table
                THEN [cache[k] EXCEPT !.fresh = FALSE, !.missed = {}]
                ELSE cache[k]]

\* The first statement of markStatsStaleForUsers.
MarkStats(p) ==
    /\ pc[p] = "mark"
    /\ Marked(Ranges)
    /\ Goto(p, "markProjects")
    /\ UNCHANGED <<rows, queues, reading, job, writing, acked, faults, writes>>

\* Its second statement.
MarkProjects(p) ==
    /\ pc[p] = "markProjects"
    /\ Marked(ProjectKeys)
    /\ Goto(p, IF notify[p] THEN "enqueue" ELSE "ack")
    /\ change' = [change EXCEPT ![p] = {}]
    /\ UNCHANGED <<rows, queues, reading, job, notify, asked, acked, faults,
                   writes>>

EnqueueRecompute(p) ==
    /\ pc[p] = "enqueue"
    /\ Enqueue("all")
    /\ Goto(p, "ack")
    /\ UNCHANGED <<rows, cache, reading, job, writing, acked, writes>>

Acknowledge(p) ==
    /\ pc[p] = "ack"
    /\ acked' = acked \cup (asked[p] \cap rows)
    /\ asked' = [asked EXCEPT ![p] = {}]
    /\ notify' = [notify EXCEPT ![p] = FALSE]
    /\ Goto(p, "idle")
    /\ UNCHANGED <<rows, cache, queues, reading, job, change, faults, writes>>

-----------------------------------------------------------------------------
(* Computations.                                                            *)

\* A process starts with the user's settings read.
ReadSettings(p, k, stage) ==
    /\ key' = [key EXCEPT ![p] = k]
    /\ view' = [view EXCEPT ![p] = rows \cap Settings]
    /\ missed' = [missed EXCEPT ![p] = {}]
    /\ Goto(p, stage)

\* A request for the statistics of key k; public pages and share links take
\* the path of computeStatsForRange.
Request(c, k, path) ==
    /\ pc[c] = "idle"
    /\ path = "public" => k \in Ranges
    /\ ReadSettings(c, k, path)
    /\ UNCHANGED <<rows, cache, queues, job, writing, acked, faults, writes>>

Found(c) ==
    /\ cache[key[c]].fresh
    /\ view' = [view EXCEPT ![c] = cache[key[c]].data]
    /\ Goto(c, "reply200")

FoundStale(c) ==
    /\ cache[key[c]].found /\ ~cache[key[c]].fresh
    /\ view' = [view EXCEPT ![c] = cache[key[c]].data]
    /\ Goto(c, "refresh")

NotFound(c) ==
    /\ ~cache[key[c]].found
    /\ Goto(c, "heartbeats")
    /\ UNCHANGED view

\* Mutant: a stale row is served without asking for a recompute.
LookupOnly(c) ==
    /\ pc[c] = "lookup"
    /\ \/ Found(c)
       \/ /\ cache[key[c]].found /\ ~cache[key[c]].fresh
          /\ view' = [view EXCEPT ![c] = cache[key[c]].data]
          /\ Goto(c, "reply202")
       \/ NotFound(c)
    /\ UNCHANGED <<rows, cache, queues, key, missed, job, writing,
                   acked, faults, writes>>

\* statsForResponse and projectStatsResolver.ProjectStats.
Lookup(c) ==
    /\ pc[c] = "lookup"
    /\ Found(c) \/ FoundStale(c) \/ NotFound(c)
    /\ UNCHANGED <<rows, cache, queues, key, missed, job, writing,
                   acked, faults, writes>>

\* computeStatsForRange.
PublicLookup(c) ==
    /\ pc[c] = "public"
    /\ \/ Found(c)
       \/ ~cache[key[c]].fresh /\ Goto(c, "heartbeats") /\ UNCHANGED view
    /\ UNCHANGED <<rows, cache, queues, key, missed, job, writing,
                   acked, faults, writes>>

\* A stale row is served once a recompute is enqueued.
Refresh(c) ==
    /\ pc[c] = "refresh"
    /\ Enqueue(IF key[c] \in Ranges THEN "all" ELSE key[c])
    /\ Goto(c, "reply202")
    /\ UNCHANGED <<rows, cache, reading, job, writing, acked, writes>>

Reply(c) ==
    /\ pc[c] \in {"reply200", "reply202"}
    /\ Finish(c)
    /\ UNCHANGED <<rows, cache, queues, job, writing, acked, faults, writes>>

\* One of the statements that read the rows a computation needs.
ReadTable(p) ==
    /\ pc[p] \in {"heartbeats", "extras"}
    /\ view' = [view EXCEPT ![p] = @ \cup (rows \cap TableRead[pc[p]])]
    /\ Goto(p, IF pc[p] = "heartbeats" THEN "extras" ELSE "upsert")
    /\ UNCHANGED <<rows, cache, queues, key, missed, job, writing,
                   acked, faults, writes>>

\* UpsertStatsCache and UpsertProjectStatsCache.
Store(p) ==
    cache' = [cache EXCEPT ![key[p]] =
                [found |-> TRUE, fresh |-> TRUE,
                 data |-> view[p], missed |-> missed[p]]]

\* The end of computeFreshStatsForRange and ProjectStats.
UpsertForRequest(c) ==
    /\ c \in Clients /\ pc[c] = "upsert"
    /\ Store(c)
    /\ Goto(c, "reply200")
    /\ UNCHANGED <<rows, queues, reading, job, writing, acked, faults, writes>>

\* Mutant: a task may be taken twice.
TakeTaskTwice(w, kind, r) ==
    /\ pc[w] = "idle"
    /\ \E n \in 1 .. 2 : tasks' = [tasks EXCEPT ![kind][r] = @ - n]
    /\ tasks[kind][r] > 0
    /\ job' = [job EXCEPT ![w] = [kind |-> kind, retried |-> r, at |-> 1]]
    /\ ReadSettings(w, Work(kind)[1], "heartbeats")
    /\ UNCHANGED <<rows, cache, unique, writing, acked, faults, writes>>

\* HandleStatsRecomputeTask and HandleProjectStatsRecomputeTask.
TakeTask(w, kind, r) ==
    /\ pc[w] = "idle"
    /\ tasks[kind][r] > 0
    /\ tasks' = [tasks EXCEPT ![kind][r] = @ - 1]
    /\ job' = [job EXCEPT ![w] = [kind |-> kind, retried |-> r, at |-> 1]]
    /\ ReadSettings(w, Work(kind)[1], "heartbeats")
    /\ UNCHANGED <<rows, cache, unique, writing, acked, faults, writes>>

\* RecomputeRanges goes on to the next range, under the settings it has.
UpsertAndContinue(w) ==
    /\ w \in Workers /\ pc[w] = "upsert" /\ job[w].at < Len(Work(job[w].kind))
    /\ Store(w)
    /\ job' = [job EXCEPT ![w].at = @ + 1]
    /\ key' = [key EXCEPT ![w] = Work(job[w].kind)[job[w].at + 1]]
    /\ view' = [view EXCEPT ![w] = @ \cap Settings]
    /\ missed' = [missed EXCEPT ![w] = @ \cap Settings]
    /\ Goto(w, "heartbeats")
    /\ UNCHANGED <<rows, queues, writing, acked, faults, writes>>

\* The task succeeds: asynq deletes it and releases its lock.
UpsertAndFinish(w) ==
    /\ w \in Workers /\ pc[w] = "upsert" /\ job[w].at >= Len(Work(job[w].kind))
    /\ Store(w)
    /\ unique' = unique \ {job[w].kind}
    /\ job' = [job EXCEPT ![w] = NoJob]
    /\ Finish(w)
    /\ UNCHANGED <<rows, tasks, writing, acked, faults, writes>>

-----------------------------------------------------------------------------

\* The cache keys a write has yet to mark.
Unmarked(p) ==
    CASE pc[p] = "mark" -> Keys
      [] pc[p] = "markProjects" -> ProjectKeys
      [] OTHER -> {}

\* A statement fails or the process dies.  A request answers 500 or nothing.
\* A write that had committed leaves cache rows it did not mark, whose
\* history records it.
StepFails(p) ==
    /\ pc[p] # "idle"
    /\ "step" \in FaultKinds /\ faults < MaxFaults
    /\ faults' = faults + 1
    /\ cache' = [k \in Keys |->
                    IF cache[k].fresh /\ k \in Unmarked(p)
                    THEN [cache[k] EXCEPT !.missed = @ \cup change[p]]
                    ELSE cache[k]]
    /\ change' = [change EXCEPT ![p] = {}]
    /\ asked' = [asked EXCEPT ![p] = {}]
    /\ notify' = [notify EXCEPT ![p] = FALSE]
    /\ IF p \in Workers /\ pc[p] \in Computing /\ job[p].retried < MaxRetry
       THEN tasks' = [tasks EXCEPT ![job[p].kind][job[p].retried + 1] = @ + 1]
       ELSE UNCHANGED tasks
    /\ job' = [w \in Workers |-> IF w = p THEN NoJob ELSE job[w]]
    /\ Finish(p)
    /\ UNCHANGED <<rows, unique, acked, writes>>

Write(p) ==
    \/ MarkStats(p) \/ MarkProjects(p) \/ EnqueueRecompute(p) \/ Acknowledge(p)
Compute(p) ==
    \/ Lookup(p) \/ PublicLookup(p) \/ Refresh(p) \/ Reply(p)
    \/ ReadTable(p) \/ UpsertForRequest(p)
    \/ UpsertAndContinue(p) \/ UpsertAndFinish(p)
Progress(p) == Write(p) \/ Compute(p)

Start ==
    \/ \E c \in Clients, S \in (SUBSET Heartbeats) \ {{}} :
        InsertHeartbeats(c, S) \/ DeleteHeartbeats(c, S)
    \/ \E c \in Clients, r \in Settings \cup Extras : ChangeInputs(c, {r})
    \/ \E w \in Workers, S \in (SUBSET Heartbeats) \ {{}} : Purge(w, S)

Next ==
    \/ Start
    \/ \E c \in Clients, k \in Keys, path \in {"lookup", "public"} :
        Request(c, k, path)
    \/ \E p \in Procs : Progress(p) \/ StepFails(p)
    \/ \E w \in Workers, d \in Kinds, r \in 0 .. MaxRetry : TakeTask(w, d, r)
    \/ \E k \in ProjectKeys : LockExpires(k)

Spec == Init /\ [][Next]_vars

\* Every process runs to its end, the worker keeps taking tasks, and clients
\* keep asking for every key.
FairSpec ==
    /\ Spec
    /\ \A p \in Procs : WF_vars(Progress(p))
    /\ \A d \in Kinds, r \in 0 .. MaxRetry :
        SF_vars(\E w \in Workers : TakeTask(w, d, r))
    /\ \A k \in Keys : SF_vars(\E c \in Clients : Request(c, k, "lookup"))
    /\ \A k \in ProjectKeys : WF_vars(LockExpires(k))

-----------------------------------------------------------------------------
(* Properties.                                                              *)

\* A cache row that claims to be up to date (is_up_to_date) disagrees with the
\* database about a row of its inputs only if that row was written while the
\* cached data was being computed, or by a write that has yet to mark the
\* cache or died before it could: the order of commit, mark and upsert loses
\* nothing else.
CurrentUnlessMissed ==
    \A k \in Keys : cache[k].fresh =>
        \A r \in Rows :
            \/ r \in cache[k].data <=> r \in rows
            \/ r \in cache[k].missed
            \/ \E p \in Procs : k \in Unmarked(p) /\ r \in change[p]

\* The same of a computation under way: it holds rows of the tables it has
\* read only, and differs from the database only where that was written after
\* the read.
ViewsCurrentUnlessMissed ==
    \A p \in Procs : pc[p] \in Computing =>
        /\ view[p] \subseteq ReadBy(pc[p])
        /\ \A r \in ReadBy(pc[p]) :
               (r \in view[p] <=> r \in rows) \/ r \in missed[p]

\* Rows and computations under way are both right, but for writes that raced
\* them or died before they marked the cache.
UpToDateUnlessMissed == CurrentUnlessMissed /\ ViewsCurrentUnlessMissed

\* A stale row of a range the worker recomputes, or of a project, is up to
\* date again eventually if it is asked for, whatever task or enqueue failed
\* before (statsForResponse enqueues whenever it serves a stale row).
RefreshedWhenAsked ==
    \A k \in {DefaultRanges[i] : i \in DOMAIN DefaultRanges} \cup ProjectKeys :
        []<>(cache[k].found => cache[k].fresh)

\* A heartbeat whose ingestion was acknowledged is eventually missing from no
\* row that claims to be up to date, unless it is deleted.
AcknowledgedEventuallyCached ==
    \A h \in Heartbeats, k \in Keys :
        h \in acked ~> \/ h \notin acked
                      \/ ~cache[k].fresh
                      \/ h \in cache[k].data

=============================================================================
