---------------------------- MODULE CustomRules -----------------------------
(***************************************************************************)
(* The custom rules of one user: replacing and deleting them, the prepared  *)
(* rules the API server caches, their application to heartbeats that come   *)
(* in, and the retroactive rewrite of the stored heartbeats by a worker (or *)
(* inline, without a queue) with its persisted progress.                    *)
(*                                                                          *)
(* A heartbeat's fields are a content; a rule changes the contents it       *)
(* matches or deletes the heartbeat.  Each database statement is a step.    *)
(***************************************************************************)
EXTENDS Integers, FiniteSets

CONSTANTS
    Clients,    \* request slots of the API server
    Workers,    \* task slots of the worker process
    Heartbeats, \* heartbeats the user's editors send
    Contents,   \* the values of the fields the rules read and write
    Entity,     \* Entity[c]: the entity of a content
    Time,       \* Time[h]: the time of a heartbeat
    Sent,       \* Sent[h]: the content a heartbeat is sent with
    Before,     \* heartbeats that are stored before the rules are used
    Rules,      \* all rules: [priority, match, to]
    PutSets,    \* the sets of rules a client puts
    Modes,      \* "queue": Redis is configured; "inline": it is not
    PoolSize,   \* connections of the database pool of a process
    MaxRetry,   \* asynq.MaxRetry
    MaxChanges, \* bound on the number of changes to the rules
    MaxFaults   \* bound on the number of faults

Procs == Clients \cup Workers
Priorities == 1 .. 3
Deleted == "deleted"
Absent == "absent"
NoRules == [version |-> -1, gen |-> -1, rules |-> {}]

\* ApplyPreparedCustomRules: the rules in the order of their priorities, each
\* on what the ones before it made of the content.
Apply(S, content) ==
    LET after[i \in 0 .. 3] ==
            IF i = 0 THEN content
            ELSE LET matching == {r \in S : r.priority = i /\ after[i-1] \in r.match}
                 IN  IF matching = {} THEN after[i-1]
                     ELSE (CHOOSE r \in matching : TRUE).to
    IN  after[3]

ASSUME SlotsAssumption == Clients \cap Workers = {}
ASSUME ContentsAssumption ==
    /\ {Deleted, Absent} \cap Contents = {}
    /\ Sent \in [Heartbeats -> Contents] /\ Before \subseteq Heartbeats
    /\ Rules \subseteq [priority : Priorities, match : SUBSET Contents,
                        to : Contents \cup {Deleted}]
    /\ PutSets \subseteq SUBSET Rules
\* What Apply returns, by induction over the rules.
ASSUME ApplyAssumption ==
    \A S \in SUBSET Rules : \A c \in Contents :
        Apply(S, c) \in Contents \cup {Deleted}
ASSUME BoundsAssumption ==
    /\ PoolSize \in Nat \ {0} /\ MaxRetry \in Nat
    /\ MaxChanges \in Nat /\ MaxFaults \in Nat
    /\ Modes \subseteq {"queue", "inline"} /\ Modes # {}

VARIABLES
    mode,    \* whether a queue is configured
    rules,   \* [version, gen, rules]: the tables of rules and destinations
    cached,  \* the server's prepared rules of the user, or NoRules
    stored,  \* the content each heartbeat is stored with, or Absent
    status,  \* custom_rules_progress.status
    tasks,   \* tasks[r]: queued rewrites that failed r times
    pc,      \* the statement each process runs next
    seen,    \* the rules each process has read
    item,    \* the heartbeat a request carries
    snap,    \* the heartbeats a rewrite's query returns
    checks,  \* how often a rewrite has looked for an abort
    held,    \* <<process, use>>: the connections kept over statements
    retried, \* failures of the task a worker runs
    done,    \* history: version of the rules the completed rewrite used
    late,    \* history: heartbeats last written under replaced rules
    raced,   \* history: the cache was filled with replaced rules, or a change
             \* failed before it could invalidate it
    changes, faults

vars == <<mode, rules, cached, stored, status, tasks, pc, seen, item, snap,
          checks, held, retried, done, late, raced, changes, faults>>
table == <<rules, changes>>
cache == <<cached, raced>>
heartbeats == <<stored, late>>
progress == <<status, done>>
scan == <<snap, checks, held>>

\* The stages of a rewrite (ApplyCustomRulesToHeartbeats is those of Applying)
\* and of the requests.
Applying == {"list", "destinations", "begin", "query", "scan", "commit", "after"}
Rewriting == Applying \cup {"start", "process", "complete", "recompute", "fail"}
Ingesting == {"apply", "rules", "ruleDestinations", "cache",
              "bulkRules", "bulkDestinations", "insert"}
Changing == {"putList", "invalidate", "forget", "queued", "enqueue"}
Stages == {"idle"} \cup Rewriting \cup Ingesting \cup Changing
Statuses == {"None", "Queued", "Processing", "Completed", "Failed", "Aborted"}
Prepared == [version : Int, gen : Int, rules : SUBSET Rules]
Rows == [Heartbeats -> Contents \cup {Absent}]

TypeOK ==
    /\ mode \in Modes
    /\ rules \in Prepared
    /\ cached \in Prepared
    /\ stored \in Rows
    /\ status \in Statuses
    /\ tasks \in [0 .. MaxRetry -> Nat]
    /\ pc \in [Procs -> Stages]
    /\ seen \in [Procs -> Prepared]
    /\ item \in [Clients -> Heartbeats]
    /\ snap \in [Procs -> Rows]
    /\ checks \in [Procs -> Nat]
    /\ held \subseteq Procs \X {"tx", "query"}
    /\ retried \in [Workers -> 0 .. MaxRetry]
    /\ done \in Int
    /\ late \subseteq Heartbeats
    /\ raced \in BOOLEAN
    /\ changes \in Nat /\ faults \in Nat

NoRows == [h \in Heartbeats |-> Absent]

Init ==
    /\ mode \in Modes
    /\ rules = [version |-> 0, gen |-> 0, rules |-> {}]
    /\ cached = NoRules
    /\ stored = [h \in Heartbeats |-> IF h \in Before THEN Sent[h] ELSE Absent]
    /\ status = "None"
    /\ tasks = [r \in 0 .. MaxRetry |-> 0]
    /\ pc = [p \in Procs |-> "idle"]
    /\ seen = [p \in Procs |-> NoRules]
    /\ item \in [Clients -> Heartbeats]
    /\ snap = [p \in Procs |-> NoRows]
    /\ checks = [p \in Procs |-> 0]
    /\ held = {}
    /\ retried = [w \in Workers |-> 0]
    /\ done = -1
    /\ late = {}
    /\ raced = FALSE
    /\ changes = 0
    /\ faults = 0

Goto(p, stage) == pc' = [pc EXCEPT ![p] = stage]
Step(p, from, to) == pc[p] = from /\ Goto(p, to)

-----------------------------------------------------------------------------

\* Every statement needs a connection of its process's pool, unless it runs
\* in a transaction or query that keeps one.
Connection(p) ==
    LET pool == IF p \in Workers THEN Workers ELSE Clients
    IN  Cardinality({x \in held : x[1] \in pool}) < PoolSize

\* A process is done: it forgets what it read and gives back connections.
Leave(p) ==
    /\ Goto(p, "idle")
    /\ seen' = [seen EXCEPT ![p] = NoRules]
    /\ snap' = [snap EXCEPT ![p] = NoRows]
    /\ checks' = [checks EXCEPT ![p] = 0]
    /\ held' = {x \in held : x[1] # p}

\* ListCustomRules: the rules, and in a second statement their destinations.
\* A change rule that was removed in between has no destinations left, and
\* does nothing.
ListRules(p, from, to) ==
    /\ Step(p, from, to)
    /\ Connection(p)
    /\ seen' = [seen EXCEPT ![p] = rules]
    /\ UNCHANGED <<mode, table, cache, heartbeats, progress, tasks, item, scan,
                   retried, faults>>

ListDestinations(p, from, to) ==
    /\ Step(p, from, to)
    /\ Connection(p)
    /\ seen' = [seen EXCEPT ![p].rules =
                    {r \in @ : \/ r.to = Deleted
                               \/ seen[p].gen = rules.gen /\ r \in rules.rules}]
    /\ UNCHANGED <<mode, table, cache, heartbeats, progress, tasks, item, scan,
                   retried, faults>>

-----------------------------------------------------------------------------
(* Requests that change the rules or their progress.                        *)

Change(c, gen, S, stage) ==
    /\ Step(c, "idle", stage)
    /\ Connection(c)
    /\ changes < MaxChanges
    /\ changes' = changes + 1
    /\ rules' = [version |-> rules.version + 1, gen |-> gen, rules |-> S]
    /\ late' = {}
    /\ UNCHANGED <<mode, cache, stored, progress, tasks, seen, item, scan,
                   retried, faults>>

\* ReplaceCustomRules commits.
PutRules(c, S) == Change(c, rules.gen + 1, S, "putList")

\* It then lists the rules for the answer.
PutList(c) ==
    /\ Step(c, "putList", "invalidate")
    /\ Connection(c)
    /\ UNCHANGED <<mode, table, cache, heartbeats, progress, tasks, seen, item,
                   scan, retried, faults>>

\* deleteCustomRule queues no rewrite.
DeleteRule(c, r) ==
    /\ r \in rules.rules
    /\ Change(c, rules.gen, rules.rules \ {r}, "forget")

\* Mutant: a deleted rule stays in the cache.
InvalidateOnPut(c) ==
    /\ Step(c, "invalidate", "queued") \/ Step(c, "forget", "idle")
    /\ IF pc[c] = "invalidate"
       THEN cached' = NoRules /\ raced' = FALSE
       ELSE UNCHANGED cache
    /\ UNCHANGED <<mode, table, heartbeats, progress, tasks, seen, item, scan,
                   retried, faults>>

\* invalidatePreparedCustomRules.
Invalidate(c) ==
    /\ Step(c, "invalidate", "queued") \/ Step(c, "forget", "idle")
    /\ cached' = NoRules
    /\ raced' = FALSE
    /\ UNCHANGED <<mode, table, heartbeats, progress, tasks, seen, item, scan,
                   retried, faults>>

\* SetCustomRulesProgressQueued, whatever the status was.
SetQueued(c) ==
    /\ Step(c, "queued", "enqueue")
    /\ Connection(c)
    /\ status' = "Queued" /\ done' = -1
    /\ UNCHANGED <<mode, table, cache, heartbeats, tasks, seen, item, scan,
                   retried, faults>>

\* Without a queue the request rewrites the heartbeats itself.
Enqueue(c) ==
    /\ \/ /\ mode = "queue"
          /\ Step(c, "enqueue", "idle")
          /\ tasks' = [tasks EXCEPT ![0] = @ + 1]
       \/ /\ mode = "inline"
          /\ Step(c, "enqueue", "process")
          /\ UNCHANGED tasks
    /\ UNCHANGED <<mode, table, cache, heartbeats, progress, seen, item, scan,
                   retried, faults>>

\* abortCustomRulesProgress.
Abort(c) ==
    /\ pc[c] = "idle" /\ status # "Aborted"
    /\ Connection(c)
    /\ status' = "Aborted" /\ done' = -1
    /\ UNCHANGED <<mode, table, cache, heartbeats, tasks, pc, seen, item, scan,
                   retried, faults>>

-----------------------------------------------------------------------------
(* Requests that bring heartbeats.                                          *)

\* An editor sends a heartbeat until it is stored, alone or in bulk.
Receive(c, h, first) ==
    /\ Step(c, "idle", first)
    /\ stored[h] = Absent
    /\ \A d \in Clients : ~(pc[d] \in Ingesting /\ item[d] = h)
    /\ item' = [item EXCEPT ![c] = h]
    /\ UNCHANGED <<mode, table, cache, heartbeats, progress, tasks, seen, scan,
                   retried, faults>>

\* applyCustomRules takes the cached rules, if there are any.
LookupRules(c) ==
    /\ pc[c] = "apply"
    /\ IF cached = NoRules
       THEN Goto(c, "rules") /\ UNCHANGED seen
       ELSE Goto(c, "insert") /\ seen' = [seen EXCEPT ![c] = cached]
    /\ UNCHANGED <<mode, table, cache, heartbeats, progress, tasks, item, scan,
                   retried, faults>>

\* cachePreparedCustomRules.
CacheRules(c) ==
    /\ Step(c, "cache", "insert")
    /\ cached' = seen[c]
    /\ raced' = (seen[c].version # rules.version)
    /\ UNCHANGED <<mode, table, heartbeats, progress, tasks, seen, item, scan,
                   retried, faults>>

\* evictPreparedCustomRulesIfFull, for the entries of other users.
Evict ==
    /\ cached # NoRules
    /\ cached' = NoRules
    /\ raced' = FALSE
    /\ UNCHANGED <<mode, table, heartbeats, progress, tasks, pc, seen, item,
                   scan, retried, faults>>

SameKey(g, c1, h, c2) == Time[g] = Time[h] /\ Entity[c1] = Entity[c2]

\* InsertHeartbeat and InsertHeartbeats, after the rules are applied.
Insert(c) ==
    LET h == item[c]
        content == Apply(seen[c].rules, Sent[h])
        stale == seen[c].version # rules.version
    IN
    /\ pc[c] = "insert"
    /\ Connection(c)
    /\ IF \/ content = Deleted
          \/ \E g \in Heartbeats : /\ stored[g] # Absent
                                   /\ SameKey(g, stored[g], h, content)
       THEN UNCHANGED heartbeats
       ELSE /\ stored' = [stored EXCEPT ![h] = content]
            /\ late' = IF stale THEN late \cup {h} ELSE late \ {h}
    /\ Leave(c)
    /\ UNCHANGED <<mode, table, cache, progress, tasks, item, retried, faults>>

-----------------------------------------------------------------------------
(* The rewrite: HandleCustomRulesApplyTask, or the end of replaceCustomRules *)
(* without a queue.                                                          *)

TakeTask(w, r) ==
    /\ Step(w, "idle", "start")
    /\ tasks[r] > 0
    /\ tasks' = [tasks EXCEPT ![r] = @ - 1]
    /\ retried' = [retried EXCEPT ![w] = r]
    /\ UNCHANGED <<mode, table, cache, heartbeats, progress, seen, item, scan,
                   faults>>

\* shouldSkipCustomRulesApply.
CheckProgress(w) ==
    /\ pc[w] = "start"
    /\ Connection(w)
    /\ Goto(w, IF status = "Aborted" THEN "idle" ELSE "process")
    /\ UNCHANGED <<mode, table, cache, heartbeats, progress, tasks, seen, item,
                   scan, retried, faults>>

\* Mutant: the statement has no WHERE.
SetProcessingAlways(p) ==
    /\ Step(p, "process", "list")
    /\ Connection(p)
    /\ status' = "Processing" /\ done' = -1
    /\ UNCHANGED <<mode, table, cache, heartbeats, tasks, seen, item, scan,
                   retried, faults>>

\* SetCustomRulesProgressProcessing leaves an aborted progress alone; the
\* worker skips it then, an inline rewrite goes on.
SetProcessing(p) ==
    /\ pc[p] = "process"
    /\ Connection(p)
    /\ IF status = "Aborted"
       THEN /\ Goto(p, IF p \in Workers THEN "idle" ELSE "list")
            /\ UNCHANGED progress
       ELSE /\ Goto(p, "list")
            /\ status' = "Processing" /\ done' = -1
    /\ UNCHANGED <<mode, table, cache, heartbeats, tasks, seen, item, scan,
                   retried, faults>>

BeginTx(p) ==
    /\ Step(p, "begin", "query")
    /\ Connection(p)
    /\ held' = held \cup {<<p, "tx">>}
    /\ UNCHANGED <<mode, table, cache, heartbeats, progress, tasks, seen, item,
                   snap, checks, retried, faults>>

\* ForEachHeartbeatForCustomRules: one query outside the transaction, whose
\* rows are those stored at its start.
OpenQuery(p) ==
    /\ Step(p, "query", "scan")
    /\ Connection(p)
    /\ held' = held \cup {<<p, "query">>}
    /\ snap' = [snap EXCEPT ![p] = stored]
    /\ UNCHANGED <<mode, table, cache, heartbeats, progress, tasks, seen, item,
                   checks, retried, faults>>

Found(p) == {h \in Heartbeats : snap[p][h] # Absent}

\* The rows are read in hundreds (a heartbeat stands for one), each after a
\* look at the progress over a third connection.
ScanRows(p) ==
    /\ pc[p] = "scan"
    /\ checks[p] < Cardinality(Found(p))
    /\ Connection(p)
    /\ IF status = "Aborted"
       THEN IF p \in Workers
            THEN Leave(p)
            ELSE /\ Goto(p, "fail")
                 /\ held' = {x \in held : x[1] # p}
                 /\ UNCHANGED <<seen, snap, checks>>
       ELSE /\ checks' = [checks EXCEPT ![p] = @ + 1]
            /\ UNCHANGED <<pc, seen, snap, held>>
    /\ UNCHANGED <<mode, table, cache, heartbeats, progress, tasks, item,
                   retried, faults>>

EndScan(p) ==
    /\ Step(p, "scan", "commit")
    /\ checks[p] = Cardinality(Found(p))
    /\ held' = held \ {<<p, "query">>}
    /\ UNCHANGED <<mode, table, cache, heartbeats, progress, tasks, seen, item,
                   snap, checks, retried, faults>>

New(p, h) == Apply(seen[p].rules, snap[p][h])
Changed(p) == {h \in Found(p) : New(p, h) # snap[p][h]}

\* The orders the query may return the rows in: ORDER BY time.
Orders ==
    {o \in [Heartbeats -> 1 .. Cardinality(Heartbeats)] :
        \A g, h \in Heartbeats :
            /\ g # h => o[g] # o[h]
            /\ Time[g] < Time[h] => o[g] < o[h]}

\* The batch in row order: a heartbeat whose entity changes first deletes the
\* others that have its new key at that moment, whether it still exists or not.
Pushed(p, order, h) ==
    \E g \in Changed(p) \ {h} :
        /\ New(p, g) # Deleted
        /\ Entity[New(p, g)] # Entity[snap[p][g]]
        /\ LET now == IF h \in Changed(p) /\ order[h] < order[g]
                      THEN New(p, h) ELSE stored[h]
           IN  now # Deleted /\ SameKey(h, now, g, New(p, g))

Rewritten(p, order) ==
    [h \in Heartbeats |->
        IF \/ stored[h] = Absent
           \/ h \in Changed(p) /\ New(p, h) = Deleted
           \/ Pushed(p, order, h)
        THEN Absent
        ELSE IF h \in Changed(p) THEN New(p, h) ELSE stored[h]]

Unique(contents) ==
    \A g, h \in Heartbeats :
        (g # h /\ contents[g] # Absent /\ contents[h] # Absent)
            => ~SameKey(g, contents[g], h, contents[h])

\* Mutant: rows that changed since the query are left alone.
CommitUnchanged(p) ==
    /\ pc[p] = "commit"
    /\ \E order \in Orders :
        LET after == [h \in Heartbeats |->
                        IF stored[h] = snap[p][h] THEN Rewritten(p, order)[h]
                        ELSE stored[h]] IN
        /\ Unique(after)
        /\ stored' = after
        /\ late' = late \ Changed(p)
    /\ Goto(p, "after")
    /\ held' = held \ {<<p, "tx">>}
    /\ UNCHANGED <<mode, table, cache, progress, tasks, seen, item, snap,
                   checks, retried, faults>>

\* An UPDATE that violates the unique key, for a row that was stored in the
\* meantime, fails the transaction.
Commit(p) ==
    /\ pc[p] = "commit"
    /\ \E order \in Orders :
        LET after == Rewritten(p, order) IN
        IF Unique(after)
        THEN /\ Goto(p, "after")
             /\ stored' = after
             /\ late' = IF seen[p].version = rules.version
                        THEN late \ Changed(p)
                        ELSE late \cup {h \in Changed(p) : after[h] # Absent}
        ELSE Goto(p, "fail") /\ UNCHANGED heartbeats
    /\ held' = held \ {<<p, "tx">>}
    /\ UNCHANGED <<mode, table, cache, progress, tasks, seen, item, snap,
                   checks, retried, faults>>

\* upsertProjects and MarkStatsStale, outside the transaction.
After(p) ==
    /\ Step(p, "after", "complete")
    /\ Connection(p)
    /\ UNCHANGED <<mode, table, cache, heartbeats, progress, tasks, seen, item,
                   scan, retried, faults>>

\* CompleteCustomRulesProgress leaves an aborted progress alone.
Complete(p) ==
    /\ pc[p] = "complete"
    /\ Connection(p)
    /\ IF status = "Aborted"
       THEN UNCHANGED progress
       ELSE status' = "Completed" /\ done' = seen[p].version
    /\ IF p \in Workers /\ Changed(p) # {}
       THEN Goto(p, "recompute") /\ UNCHANGED <<seen, scan>>
       ELSE Leave(p)
    /\ UNCHANGED <<mode, table, cache, heartbeats, tasks, item, retried, faults>>

\* RecomputeRanges (StatsCache).
Recompute(w) ==
    /\ pc[w] = "recompute"
    /\ Connection(w)
    /\ Leave(w)
    /\ UNCHANGED <<mode, table, cache, heartbeats, progress, tasks, item,
                   retried, faults>>

\* The task of a worker returned an error: asynq queues it again.
Retry(p) ==
    IF p \in Workers /\ retried[p] < MaxRetry
    THEN tasks' = [tasks EXCEPT ![retried[p] + 1] = @ + 1]
    ELSE UNCHANGED tasks

\* FailCustomRulesProgress leaves an aborted progress alone.
Fail(p) ==
    /\ pc[p] = "fail"
    /\ Connection(p)
    /\ IF status = "Aborted"
       THEN UNCHANGED progress
       ELSE status' = "Failed" /\ done' = -1
    /\ Retry(p)
    /\ Leave(p)
    /\ UNCHANGED <<mode, table, cache, heartbeats, item, retried, faults>>

\* A statement fails, or the worker dies and its task is recovered.  The cache
\* stages of a request run no statement.
StepFails(p) ==
    /\ pc[p] \notin {"idle", "apply", "cache", "invalidate", "forget"}
    /\ faults < MaxFaults
    /\ faults' = faults + 1
    /\ \/ /\ pc[p] \in Applying
          /\ Goto(p, "fail")
          /\ held' = {x \in held : x[1] # p}
          /\ UNCHANGED <<tasks, seen, snap, checks>>
       \/ /\ p \in Workers \/ pc[p] \notin Applying
          /\ Retry(p)
          /\ Leave(p)
    /\ raced' = (raced \/ pc[p] = "putList")
    /\ UNCHANGED <<mode, table, cached, heartbeats, progress, item, retried>>

-----------------------------------------------------------------------------

RequestStep(c) ==
    \/ PutList(c) \/ Invalidate(c) \/ SetQueued(c) \/ Enqueue(c)
    \/ LookupRules(c) \/ CacheRules(c) \/ Insert(c)
    \/ ListRules(c, "rules", "ruleDestinations")
    \/ ListDestinations(c, "ruleDestinations", "cache")
    \/ ListRules(c, "bulkRules", "bulkDestinations")
    \/ ListDestinations(c, "bulkDestinations", "insert")

RewriteStep(p) ==
    \/ SetProcessing(p)
    \/ ListRules(p, "list", "destinations")
    \/ ListDestinations(p, "destinations", "begin")
    \/ BeginTx(p) \/ OpenQuery(p) \/ ScanRows(p) \/ EndScan(p)
    \/ Commit(p) \/ After(p) \/ Complete(p) \/ Fail(p)

Progress(p) ==
    \/ p \in Clients /\ RequestStep(p)
    \/ p \in Workers /\ (CheckProgress(p) \/ Recompute(p))
    \/ RewriteStep(p)

Start ==
    \/ \E c \in Clients, S \in PutSets : PutRules(c, S)
    \/ \E c \in Clients, r \in rules.rules : DeleteRule(c, r)
    \/ \E c \in Clients : Abort(c)
    \/ \E c \in Clients, h \in Heartbeats, first \in {"apply", "bulkRules"} :
        Receive(c, h, first)

Next ==
    \/ Start
    \/ Evict
    \/ \E p \in Procs : Progress(p) \/ StepFails(p)
    \/ \E w \in Workers, r \in 0 .. MaxRetry : TakeTask(w, r)

Spec == Init /\ [][Next]_vars

\* Goroutines run on, and the worker takes tasks.
FairSpec ==
    /\ Spec
    /\ \A p \in Procs : WF_vars(Progress(p))
    /\ WF_vars(\E w \in Workers, r \in 0 .. MaxRetry : TakeTask(w, r))

-----------------------------------------------------------------------------
(* Properties.                                                              *)

\* When the progress says Completed and it was a rewrite by the present rules
\* that completed, every stored heartbeat carries what these rules made of
\* some content, unless a request or rewrite that had read replaced rules
\* wrote it later.
CompletedMeansRewritten ==
    status = "Completed" /\ done = rules.version =>
        \A h \in Heartbeats \ late :
            stored[h] # Absent =>
                \E c \in Contents : stored[h] = Apply(rules.rules, c)

\* The prepared rules in the cache are the rules in the database, unless a
\* request that changed them has yet to invalidate the cache or failed before
\* it could, or the request that filled it had listed them before a change.
CachedRulesCurrent ==
    cached # NoRules /\ cached.rules # rules.rules =>
        \/ raced
        \/ \E c \in Clients : pc[c] \in {"putList", "invalidate", "forget"}

\* Without requests under way the cached rules are the rules of the database:
\* a PUT applies to new heartbeats immediately (README.md, "custom_rules").
NewHeartbeatsUseRules ==
    (\A c \in Clients : pc[c] = "idle") =>
        cached = NoRules \/ cached.rules = rules.rules

\* An aborted progress stays aborted, whatever rewrite or failure was under
\* way: only a new PUT queues again.
OnlyPutLeavesAborted ==
    [][status = "Aborted" /\ status' # "Aborted" =>
        status' = "Queued" /\ \E c \in Clients : pc[c] = "queued"]_vars

\* Every request and every task ends: they never all wait for a connection
\* that only one of them could give back.
ProcessesEnd == \A p \in Procs : []<>(pc[p] = "idle")

=============================================================================
