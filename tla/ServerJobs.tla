----------------------------- MODULE ServerJobs -----------------------------
(***************************************************************************)
(* The data dumps and the imports of the server, and the queue that runs    *)
(* them (createDataDump, downloadDataDump and importWakaTimeDump in         *)
(* internal/api/router.go, internal/dumps/dumps.go, internal/importer,      *)
(* dump_worker.go and import_worker.go in internal/workers).                *)
(*                                                                          *)
(* The handler creates the row of the job and then enqueues its task.  The  *)
(* queue gives a task to a worker under a lease and again if the worker     *)
(* fails, stops or loses the lease; a run that has lost it can write to its *)
(* file for a while, but neither to the database nor to the queue.  Without *)
(* a queue the handler does the work itself.  A behaviour has one job: a    *)
(* dump of heartbeats, a dump of daily summaries or an import.              *)
(*                                                                          *)
(* The file of a dump is a sequence of the cells a run has written, each at *)
(* its own offset; the file is cut to nothing when it is opened, and stays  *)
(* when a run ends.  Heartbeats are numbered in the order of storage.       *)
(***************************************************************************)
EXTENDS Integers, Sequences, FiniteSets

CONSTANTS
    Runs,         \* worker slots and requests at a time
    MaxJobRetry,     \* retries of a task: 3
    MaxStored,    \* bound on the heartbeats of the user
    MaxJobFaults  \* bound on failures, crashes and lost leases and files

ASSUME JobsAssumption ==
    MaxJobRetry \in Nat /\ MaxStored \in Nat /\ MaxJobFaults \in Nat

Begin == "["
Cell == "row"
End == "]"
Hole == "hole"
Missing == <<"missing">>

VARIABLES
    jobKind,       \* the kind of the job
    hasQueue,  \* whether a queue is configured
    row,       \* the state of its row: status, or "Pending" until processed_at
    task,      \* the task in the queue
    run,       \* what each run is doing
    file,      \* the file of the dump
    present,    \* number of heartbeats in the database, without the import's
    imported,  \* whether the import's heartbeats are there
    counted,   \* whether the cached statistics count them
    fresh,     \* whether the cached statistics are marked up to date
    jobFaults,
    disturbed, \* history: the file was opened while another run had a claim to it
    abandoned, \* history: an attempt that nothing follows was cut short
    unmarked   \* history: an import was cut between its commit and the marking

jobVars == <<jobKind, hasQueue, row, task, run, file, present, imported, counted, fresh,
             jobFaults, disturbed, abandoned, unmarked>>
dumpVars == <<file, disturbed>>
importVars == <<imported, counted, fresh, unmarked>>

Dump == jobKind # "import"
RunAt(at, by, leased) ==
    [at |-> at, by |-> by, leased |-> leased, snap |-> 0, next |-> 0, alone |-> FALSE]
IdleRun == RunAt("idle", "none", FALSE)
NoTask == [at |-> "none", retried |-> 0]

JobsTypeOK ==
    /\ jobKind \in {"heartbeats", "daily", "import"} /\ hasQueue \in BOOLEAN
    /\ row \in {"none", "Pending", "Completed", "Failed"}
    /\ task \in [at : {"none", "waiting", "active", "done", "archived"}, retried : 0 .. MaxJobRetry]
    /\ run \in [Runs -> [by : {"none", "task", "create", "download"},
            at : {"idle", "enqueue", "load", "open", "write", "complete", "record",
                  "insert", "stale", "mark", "recompute", "done"},
            snap : 0 .. MaxStored, next : 0 .. MaxStored + 3, leased : BOOLEAN, alone : BOOLEAN]]
    /\ Cardinality({r \in Runs : run[r].leased}) <= 1
    /\ task.at = "active" <=> \E r \in Runs : run[r].leased
    /\ file = Missing \/ file \in Seq({Begin, Cell, End, Hole})
    /\ present \in 0 .. MaxStored
    /\ {imported, counted, fresh, disturbed, abandoned, unmarked} \subseteq BOOLEAN
    /\ jobFaults \in 0 .. MaxJobFaults

JobsInit ==
    /\ jobKind \in {"heartbeats", "daily", "import"} /\ hasQueue \in BOOLEAN
    /\ row = "none" /\ task = NoTask
    /\ run = [r \in Runs |-> IdleRun]
    /\ file = Missing /\ present = 0
    /\ imported = FALSE /\ counted = FALSE /\ fresh = TRUE
    /\ jobFaults = 0
    /\ disturbed = FALSE /\ abandoned = FALSE /\ unmarked = FALSE

At(r, by, at) == run[r].at = at /\ run[r].by \in by
GoTo(r, at) == run' = [run EXCEPT ![r].at = at]

-----------------------------------------------------------------------------
(* The requests.                                                            *)

\* The row of the job is created; the enqueueing follows.
CreateJob(r) ==
    /\ row = "none" /\ run[r] = IdleRun
    /\ row' = "Pending"
    /\ run' = [run EXCEPT ![r] = RunAt("enqueue", "create", FALSE)]
    /\ UNCHANGED <<jobKind, hasQueue, task, present, jobFaults, abandoned, dumpVars, importVars>>

EnqueueJob(r) ==
    /\ At(r, {"create"}, "enqueue")
    /\ IF hasQueue
       THEN task' = [NoTask EXCEPT !.at = "waiting"] /\ run' = [run EXCEPT ![r] = IdleRun]
       ELSE GoTo(r, "load") /\ UNCHANGED task
    /\ UNCHANGED <<jobKind, hasQueue, row, present, jobFaults, abandoned, dumpVars, importVars>>

\* A download of a completed dump serves the file there is; without a file a
\* dump of heartbeats is written again, and a daily one is computed.
Download(r) ==
    /\ Dump /\ row = "Completed" /\ run[r] = IdleRun
    /\ file = Missing /\ jobKind = "heartbeats"
    /\ run' = [run EXCEPT ![r] = RunAt("open", "download", FALSE)]
    /\ UNCHANGED <<jobKind, hasQueue, row, task, present, jobFaults, abandoned, dumpVars, importVars>>

-----------------------------------------------------------------------------
(* The queue.                                                               *)

Take(r) ==
    /\ task.at = "waiting" /\ run[r] = IdleRun
    /\ task' = [task EXCEPT !.at = "active"]
    /\ run' = [run EXCEPT ![r] = RunAt("load", "task", TRUE)]
    /\ UNCHANGED <<jobKind, hasQueue, row, present, jobFaults, abandoned, dumpVars, importVars>>

Retried == IF task.retried < MaxJobRetry THEN [at |-> "waiting", retried |-> task.retried + 1]
           ELSE [task EXCEPT !.at = "archived"]

\* Nothing follows an attempt that ends here.
LastAttempt(r) == run[r].by = "create" \/ (run[r].leased /\ task.retried = MaxJobRetry)

\* The row or the file is as the run left it.
Leaves(r) ==
    /\ run' = [run EXCEPT ![r] = IdleRun]
    /\ task' = IF run[r].leased THEN Retried ELSE task
    /\ abandoned' = (abandoned \/ LastAttempt(r))
    /\ unmarked' = (unmarked \/ run[r].at = "stale")
    /\ UNCHANGED <<jobKind, hasQueue, row, present, imported, counted, fresh, dumpVars>>

\* The process of a run stops: the queue recovers the task.
CrashRun(r) ==
    /\ run[r] # IdleRun /\ jobFaults < MaxJobFaults
    /\ jobFaults' = jobFaults + 1
    /\ Leaves(r)

\* The lease of a run expires and its context with it.
LoseLease(r) ==
    /\ run[r].leased /\ jobFaults < MaxJobFaults
    /\ jobFaults' = jobFaults + 1
    /\ run' = [run EXCEPT ![r].leased = FALSE]
    /\ task' = Retried
    /\ abandoned' = (abandoned \/ LastAttempt(r))
    /\ UNCHANGED <<jobKind, hasQueue, row, present, dumpVars, importVars>>

\* The context of a run without its lease is over.
EndExpired(r) ==
    /\ run[r].by = "task" /\ ~run[r].leased
    /\ run' = [run EXCEPT ![r] = IdleRun]
    /\ unmarked' = (unmarked \/ run[r].at = "stale")
    /\ UNCHANGED <<jobKind, hasQueue, row, task, present, jobFaults, abandoned, imported, counted,
                   fresh, dumpVars>>

\* A run whose database still answers it.
Works(r, at) == run[r].at = at /\ (run[r].by = "task" => run[r].leased)

\* The work is done.
EndRun(r) ==
    /\ IF run[r].leased THEN GoTo(r, "done") ELSE run' = [run EXCEPT ![r] = IdleRun]
    /\ UNCHANGED task

\* The queue is told so: until then it gives the task out again if the worker
\* stops or loses the lease.
Acknowledge(r) ==
    /\ Works(r, "done")
    /\ run' = [run EXCEPT ![r] = IdleRun]
    /\ task' = [task EXCEPT !.at = "done"]
    /\ UNCHANGED <<jobKind, hasQueue, row, present, jobFaults, abandoned, dumpVars, importVars>>

\* Mutant: the handler of the task returns its error at once.
RecordsNever(r) == FALSE

\* Mutant: every request records its failure too.
RecordsAnyRun(r) == Dump /\ run[r].at # "record"

\* The handler of the dump task records the failure first.
Records(r) == Dump /\ run[r].by = "task" /\ run[r].at # "record"

\* A step fails: the database, the disk, the queue or the client is gone.
RunFails(r) ==
    /\ run[r].at \notin {"idle", "done"} /\ jobFaults < MaxJobFaults
    /\ jobFaults' = jobFaults + 1
    /\ IF Records(r)
       THEN GoTo(r, "record") /\ UNCHANGED <<task, abandoned, unmarked>>
       ELSE /\ run' = [run EXCEPT ![r] = IdleRun]
            /\ task' = IF run[r].leased THEN Retried ELSE task
            /\ abandoned' = (abandoned \/ (LastAttempt(r) /\
                    (run[r].by = "create" \/ ~Dump \/ run[r].at = "record")))
            /\ unmarked' = (unmarked \/ run[r].at = "stale")
    /\ UNCHANGED <<jobKind, hasQueue, row, present, imported, counted, fresh, dumpVars>>

\* FailDataDump, whatever the row says.  The error goes to the queue.
RecordFailure(r) ==
    /\ Works(r, "record")
    /\ row' = "Failed"
    /\ run' = [run EXCEPT ![r] = IdleRun]
    /\ task' = IF run[r].leased THEN Retried ELSE task
    /\ UNCHANGED <<jobKind, hasQueue, present, jobFaults, abandoned, dumpVars, importVars>>

-----------------------------------------------------------------------------
(* A dump.                                                                  *)

Load(r) ==
    /\ Works(r, "load")
    /\ GoTo(r, IF Dump THEN "open" ELSE "insert")
    /\ UNCHANGED <<jobKind, hasQueue, row, task, present, jobFaults, abandoned, dumpVars, importVars>>

Writing(r) == run[r].at = "write"

\* Somebody writes the file, or says that it is complete, or is about to.
Claimed == row = "Completed" \/ \E r \in Runs : run[r].at \in {"write", "complete"}

\* What a run writes that has read n heartbeats.
Body(n) == <<Begin>> \o [i \in 1 .. n |-> Cell] \o <<End>>
Whole(cells) == \E n \in 0 .. MaxStored : cells = Body(n)

PutCells(cells, at, new) ==
    LET last == at + Len(new) - 1 IN
    [k \in 1 .. (IF last > Len(cells) THEN last ELSE Len(cells)) |->
        IF k \in at .. last THEN new[k - at + 1] ELSE IF k <= Len(cells) THEN cells[k] ELSE Hole]

\* The file is opened and cut, and the heartbeats are read: a daily dump has
\* read them before.
OpenFile(r) ==
    /\ Works(r, "open")
    /\ file' = <<>>
    /\ run' = [q \in Runs |->
            IF q = r THEN [run[r] EXCEPT !.at = "write", !.snap = present, !.next = 1,
                                         !.alone = ~\E o \in Runs : Writing(o)]
            ELSE [run[q] EXCEPT !.alone = FALSE]]
    /\ disturbed' = (disturbed \/ Claimed)
    /\ UNCHANGED <<jobKind, hasQueue, row, task, present, jobFaults, abandoned, importVars>>

LastCell(r) == run[r].snap + 2

\* The bracket, a heartbeat or the bracket at a time, a daily dump at once; the
\* run need not have its lease.
WriteCells(r) ==
    LET n == run[r].next
        body == Body(run[r].snap)
        last == IF jobKind = "daily" THEN LastCell(r) ELSE n
    IN
    /\ Writing(r)
    /\ file' = PutCells(file, n, SubSeq(body, n, last))
    /\ run' = [run EXCEPT ![r].next = last + 1,
                          ![r].at = IF last >= LastCell(r) THEN "complete" ELSE "write"]
    /\ disturbed' = (disturbed /\ (~run[r].alone \/ last < LastCell(r)))
    /\ UNCHANGED <<jobKind, hasQueue, row, task, present, jobFaults, abandoned, importVars>>

\* CompleteDataDumpWithURL, whatever the row says; a download only serves.
CompleteDump(r) ==
    /\ Works(r, "complete")
    /\ row' = IF run[r].by = "download" THEN row ELSE "Completed"
    /\ EndRun(r)
    /\ UNCHANGED <<jobKind, hasQueue, present, jobFaults, abandoned, dumpVars, importVars>>

LoseFile ==
    /\ file # Missing /\ jobFaults < MaxJobFaults /\ ~\E r \in Runs : Writing(r)
    /\ jobFaults' = jobFaults + 1
    /\ file' = Missing
    /\ UNCHANGED <<jobKind, hasQueue, row, task, run, present, abandoned, disturbed, importVars>>

StoreHeartbeat ==
    /\ Dump /\ present < MaxStored
    /\ present' = present + 1
    /\ UNCHANGED <<jobKind, hasQueue, row, task, run, jobFaults, abandoned, dumpVars, importVars>>

-----------------------------------------------------------------------------
(* An import.                                                               *)

\* Mutant: the statistics are left as they are.
MarksNothing(inserted) == FALSE

MarksStale(inserted) == inserted

\* InsertHeartbeats commits what is new, then marks the statistics stale.
InsertImport(r) ==
    /\ Works(r, "insert")
    /\ imported' = TRUE
    /\ run' = [run EXCEPT ![r].at = IF MarksStale(~imported) THEN "stale" ELSE "mark",
                          ![r].next = IF imported THEN 0 ELSE 1]
    /\ UNCHANGED <<jobKind, hasQueue, row, task, present, jobFaults, abandoned, counted, fresh,
                   unmarked, dumpVars>>

MarkStale(r) ==
    /\ Works(r, "stale")
    /\ fresh' = FALSE
    /\ GoTo(r, "mark")
    /\ UNCHANGED <<jobKind, hasQueue, row, task, present, jobFaults, abandoned, imported, counted,
                   unmarked, dumpVars>>

\* The statistics are computed at the end if the attempt stored anything; a
\* request leaves that to a task of the statistics.
MarkProcessed(r) ==
    /\ Works(r, "mark")
    /\ row' = "Completed"
    /\ IF run[r].next = 1 /\ run[r].by = "task" THEN GoTo(r, "recompute") /\ UNCHANGED task
       ELSE EndRun(r)
    /\ UNCHANGED <<jobKind, hasQueue, present, jobFaults, abandoned, dumpVars, importVars>>

RecomputeStats(r) ==
    /\ Works(r, "recompute")
    /\ counted' = imported /\ fresh' = TRUE
    /\ EndRun(r)
    /\ UNCHANGED <<jobKind, hasQueue, row, present, jobFaults, abandoned, imported, unmarked, dumpVars>>

\* A view of statistics that are not up to date has them computed.
ViewStats ==
    /\ ~fresh
    /\ counted' = imported /\ fresh' = TRUE
    /\ UNCHANGED <<jobKind, hasQueue, row, task, run, present, jobFaults, abandoned, imported,
                   unmarked, dumpVars>>

RunStep(r) ==
    \/ EnqueueJob(r) \/ Load(r) \/ OpenFile(r) \/ WriteCells(r) \/ CompleteDump(r)
    \/ RecordFailure(r) \/ InsertImport(r) \/ MarkStale(r) \/ MarkProcessed(r) \/ RecomputeStats(r)
    \/ Acknowledge(r) \/ EndExpired(r)

JobsNext ==
    \/ \E r \in Runs :
        \/ CreateJob(r) \/ Download(r) \/ Take(r)
        \/ RunStep(r) \/ RunFails(r) \/ CrashRun(r) \/ LoseLease(r)
    \/ LoseFile \/ StoreHeartbeat \/ ViewStats

JobsSpec == JobsInit /\ [][JobsNext]_jobVars

\* The server works: a waiting task is given to a free worker, a run goes on.
JobsFairSpec ==
    JobsSpec /\ WF_jobVars(\E r \in Runs : Take(r)) /\ \A r \in Runs : WF_jobVars(RunStep(r))

-----------------------------------------------------------------------------
(* Properties.                                                              *)

\* The file of a completed dump is whole before the download is offered, unless
\* a second writer opened it when it was complete or about to be: a repeated
\* run, or a download that found no file.
\* A processed import has stored its heartbeats.
CompletedMeansDone ==
    row = "Completed" =>
        /\ Dump /\ file # Missing => Whole(file) \/ disturbed
        /\ ~Dump => imported

\* A job stays pending only if its request failed or the last attempt of its
\* task was cut short before it could record the failure.
PendingOnlyIfAbandoned == <>[](row = "Pending" => abandoned)

\* When nothing works on an import, the statistics that are marked up to date
\* count it, unless an attempt was cut between its commit and the marking: the
\* next one stores nothing, so it neither marks nor computes them.
ImportIsCounted ==
    (\A r \in Runs : run[r] = IdleRun) /\ fresh => counted = imported \/ unmarked

\* A completed dump fails only when its task has been given out again.
CompletedStaysUnlessRepeated ==
    [][row = "Completed" /\ row' # "Completed" => task.retried > 0 \/ task'.retried > 0]_jobVars

\* A job that claims to be done is done, and counted.
JobsSound == JobsTypeOK /\ CompletedMeansDone /\ ImportIsCounted
=============================================================================
