------------------------------ MODULE MCWorker ------------------------------
(* Instances for TLC of CustomRules, with steps that fail, ServerJobs and     *)
(* GoalSchedule: what the worker runs, apart from statistics.  A behaviour is *)
(* one of the part chosen in the initial state; the variables of the others   *)
(* keep their initial values.                                                *)
EXTENDS MCCustomRules, ServerJobs, GoalSchedule

CONSTANTS u1, u2, g1, g3

VARIABLE part

workerVars == <<part, vars, jobVars, scheduleVars>>

WorkerInit ==
    /\ part \in {"rules", "jobs", "goals"}
    /\ Init /\ JobsInit /\ ScheduleInit
    /\ part = "rules" \/ (mode = "queue" /\ \A c \in Clients : item[c] = h1)
    /\ part = "jobs" \/ (jobKind = "import" /\ hasQueue)

WorkerNext ==
    /\ UNCHANGED part
    /\ \/ part = "rules" /\ Next /\ UNCHANGED <<jobVars, scheduleVars>>
       \/ part = "jobs" /\ JobsNext /\ UNCHANGED <<vars, scheduleVars>>
       \/ part = "goals" /\ ScheduleNext /\ UNCHANGED <<vars, jobVars>>

\* The fairness of each part, in the behaviours of that part.
WorkerFairness ==
    /\ \A p \in Procs : WF_vars(part = "rules" /\ Progress(p))
    /\ WF_vars(part = "rules" /\ \E w \in Workers, r \in 0 .. MaxRetry : TakeTask(w, r))
    /\ WF_jobVars(part = "jobs" /\ \E r \in Runs : Take(r))
    /\ \A r \in Runs : WF_jobVars(part = "jobs" /\ RunStep(r))
    /\ WF_scheduleVars(part = "goals" /\ Tick)
    /\ \A w \in GoalWorkers :
        /\ WF_scheduleVars(part = "goals" /\ TakeGoalTask(w))
        /\ WF_scheduleVars(part = "goals" /\ AttemptStep(w))

WorkerSpec == WorkerInit /\ [][WorkerNext]_workerVars /\ WorkerFairness

\* Nothing hangs: rewrites and the requests beside them end, and no job stays
\* pending but for a request or an attempt that was cut short.
NothingHangs == ProcessesEnd /\ PendingOnlyIfAbandoned

-----------------------------------------------------------------------------
(* GoalSchedule: one user in UTC, and one whose clock skips an hour.         *)

MCOwner == [g \in Goals |-> IF g = g3 THEN u2 ELSE u1]
UTC == [t \in Hours |-> t]
Spring == [t \in Hours |-> IF t < 3 THEN t - 1 ELSE t]
MCZones == {UTC, Spring}
MCHomeZone == [u \in Users |-> IF u = u1 THEN UTC ELSE Spring]
=============================================================================
