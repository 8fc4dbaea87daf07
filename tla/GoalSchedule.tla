---------------------------- MODULE GoalSchedule ----------------------------
(***************************************************************************)
(* The hourly evaluation of goals (internal/goaleval/evaluator.go, the task *)
(* of internal/jobs/goals.go, its schedule in internal/workers/server.go,   *)
(* GoalEvaluationWindow of internal/services/goals.go and the table         *)
(* goal_evaluations).                                                       *)
(*                                                                          *)
(* A task is enqueued every hour.  It bears no time: an attempt evaluates   *)
(* the users for whom it is then the first hour of the day, each over the   *)
(* days or weeks that have ended.  The users are evaluated side by side;    *)
(* the first failure cancels them all, and the queue gives the task out     *)
(* again.  A developer's task bears a time, which may be ahead of the clock, *)
(* or takes that of its attempt, and evaluates everyone.                    *)
(*                                                                          *)
(* Time is in hours.  A zone tells the local time of each hour; one in      *)
(* which daylight saving time skips or repeats an hour is such a function   *)
(* too.  The coding time of a window is the number of its heartbeats here;  *)
(* how it is computed from them is CodingTime's subject.                    *)
(***************************************************************************)
EXTENDS Integers, FiniteSets, FiniteSetsExt

CONSTANTS
    Users, Goals, GoalWorkers,
    Owner,      \* the user of each goal
    Weekly,     \* the goals of a week; the others are of a day
    Improving,  \* the goals with improve_by_percent, of 100
    Zones,      \* the local time of each hour
    HomeZone,   \* the zone of each user at first
    DayHours, WeekDays, MaxHour,
    MaxTaskRetry, \* retries of a task: 3
    MaxBeats,   \* bound on heartbeats
    MaxUpsets   \* bound on edits of goals and zones, developers' tasks, failures and
                \* crashes, and hours that end before their task

Hours == 0 .. MaxHour

ASSUME ScheduleAssumption ==
    /\ Owner \in [Goals -> Users] /\ Weekly \subseteq Goals /\ Improving \subseteq Goals
    /\ \A z \in Zones : z \in [Hours -> Int]
    /\ HomeZone \in [Users -> Zones]
    /\ {DayHours, WeekDays} \subseteq Nat \ {0}
    /\ {MaxHour, MaxTaskRetry, MaxBeats, MaxUpsets} \subseteq Nat

\* No zone skips a whole day, as Samoa's did in 2011: that day would be a window
\* without an hour.
ASSUME ZonesAssumption ==
    \A z \in Zones : \A t \in Hours : t + 1 \in Hours => z[t + 1] <= z[t] + DayHours

VARIABLES
    clock,    \* the hour it is
    goal,     \* the state of each goal
    snooze,   \* the hour until which each goal is snoozed; after the last: for good
    zone,     \* the time zone of each user
    coded,    \* heartbeats: the user and the hour
    waiting,  \* tasks in the queue
    working,  \* the attempt of each worker
    evals,    \* goal_evaluations
    upsets,
    missed,   \* history: hours whose task did not do its work in that hour
    touched,  \* history: users that changed their zone or a goal
    ahead     \* history: hours that developers' tasks asked for before they came

scheduleVars ==
    <<clock, goal, snooze, zone, coded, waiting, working, evals, upsets, missed, touched, ahead>>

Task == [hour : Hours, now : {-1} \cup Hours, scheduled : BOOLEAN, retried : 0 .. MaxTaskRetry]
Beats == [of : Users, at : Hours]
Evaluation ==
    [goal : Goals, from : Int, to : Int, actual : Nat, target : Nat, known : Nat, snoozed : BOOLEAN]
Resting == [at |-> "resting"]
Attempt == [at : {"working"}, task : Task, now : Hours, zone : [Users -> Zones],
            step : [Users -> {"list", "read", "upsert", "done"}],
            todo : SUBSET Goals, snooze : [Goals -> Nat], data : SUBSET Beats, known : [Users -> Nat]]

ScheduleTypeOK ==
    /\ clock \in Hours
    /\ goal \in [Goals -> {"enabled", "disabled", "deleted"}] /\ snooze \in [Goals -> Nat]
    /\ zone \in [Users -> Zones]
    /\ coded \subseteq Beats /\ waiting \subseteq Task
    /\ working \in [GoalWorkers -> {Resting} \cup Attempt]
    /\ \A e \in evals : e \in Evaluation /\ goal[e.goal] # "deleted"
    /\ \A e, f \in evals : (e.goal = f.goal /\ e.from = f.from /\ e.to = f.to) => e = f
    /\ upsets \in 0 .. MaxUpsets
    /\ missed \subseteq Hours /\ touched \subseteq Users /\ ahead \subseteq Hours

ScheduleInit ==
    /\ clock = 0 /\ missed = {0} /\ touched = {} /\ ahead = {}
    /\ goal = [g \in Goals |-> "enabled"] /\ snooze = [g \in Goals |-> 0] /\ zone = HomeZone
    /\ coded = {} /\ waiting = {} /\ evals = {}
    /\ working = [w \in GoalWorkers |-> Resting]
    /\ upsets = 0

-----------------------------------------------------------------------------
(* Windows.                                                                 *)

\* The hour in which local day d of a zone begins.
DayBegins(z, d) ==
    IF d * DayHours <= z[0] THEN d * DayHours - z[0]
    ELSE Min({t \in Hours : z[t] >= d * DayHours})

Today(z, now) == z[now] \div DayHours

\* Yesterday, or last week.
GoalEvaluationWindow(g, z, now) ==
    LET today == Today(z, now)
        monday == today - (today % WeekDays)
    IN IF g \in Weekly
       THEN [from |-> DayBegins(z, monday - WeekDays), to |-> DayBegins(z, monday)]
       ELSE [from |-> DayBegins(z, today - 1), to |-> DayBegins(z, today)]

WindowBefore(w) == [from |-> w.from - (w.to - w.from), to |-> w.from]

\* Mutant: the windows alone, without what goals are to improve on.
BareDataWindow(goals, z, now) ==
    LET w(g) == GoalEvaluationWindow(g, z, now)
    IN [from |-> Min({w(g).from : g \in goals}), to |-> Max({w(g).to : g \in goals})]

\* One window for all the goals of a user.
EvaluationDataWindow(goals, z, now) ==
    LET w(g) == GoalEvaluationWindow(g, z, now)
        from(g) == IF g \in Improving THEN WindowBefore(w(g)).from ELSE w(g).from
    IN [from |-> Min({from(g) : g \in goals}), to |-> Max({w(g).to : g \in goals})]

Within(beats, w) == {b \in beats : w.from <= b.at /\ b.at < w.to}

\* A snoozed goal counts nothing, towards the target that it was given.
GoalProgress(g, beats, w, snoozed) ==
    LET previous == Cardinality(Within(beats, WindowBefore(w))) IN
    [actual |-> IF snoozed THEN 0 ELSE Cardinality(Within(beats, w)),
     target |-> IF ~snoozed /\ g \in Improving /\ previous > 0 THEN 2 * previous ELSE 1]

Of(u, beats) == {b \in beats : b.of = u}

-----------------------------------------------------------------------------
(* The scheduler and the queue.                                             *)

\* The next hour begins: the task of the last one is late, or the scheduler is
\* down, only if the bound allows it.
Tick ==
    LET task == [hour |-> clock + 1, now |-> -1, scheduled |-> TRUE, retried |-> 0]
        quiet == waiting = {} /\ \A w \in GoalWorkers : working[w] = Resting
    IN
    /\ clock < MaxHour /\ clock' = clock + 1
    /\ \/ quiet /\ waiting' = {task} /\ UNCHANGED <<missed, upsets>>
       \/ /\ upsets < MaxUpsets /\ upsets' = upsets + 1
          /\ \/ ~quiet /\ waiting' = waiting \cup {task} /\ UNCHANGED missed
             \/ missed' = missed \cup {task.hour} /\ UNCHANGED waiting
    /\ UNCHANGED <<goal, snooze, zone, coded, working, evals, touched, ahead>>

\* devGoalsEvaluate: for the time of the attempt, or for any hour.
DevGoalsEvaluate ==
    /\ upsets < MaxUpsets /\ upsets' = upsets + 1
    /\ \E now \in {-1} \cup Hours :
        /\ waiting' = waiting \cup {[hour |-> clock, now |-> now, scheduled |-> FALSE, retried |-> 0]}
        /\ ahead' = IF now > clock THEN ahead \cup {now} ELSE ahead
    /\ UNCHANGED <<clock, goal, snooze, zone, coded, working, evals, missed, touched>>

ShouldEvaluateUserForTask(task, z, now) == task.scheduled => z[now] % DayHours = 0

\* The attempt goes on, or ends when all users are done.
Proceeds(w, attempt) ==
    working' = [working EXCEPT ![w] =
        IF \A u \in Users : attempt.step[u] = "done" THEN Resting ELSE attempt]

\* An attempt begins: the time is taken and the users are listed.
TakeGoalTask(w) ==
    \E task \in waiting :
        LET now == IF task.now >= 0 THEN task.now ELSE clock IN
        /\ working[w] = Resting
        /\ waiting' = waiting \ {task}
        /\ Proceeds(w, [at |-> "working", task |-> task, now |-> now, zone |-> zone,
                step |-> [u \in Users |-> IF ShouldEvaluateUserForTask(task, zone[u], now)
                                          THEN "list" ELSE "done"],
                todo |-> {}, snooze |-> [g \in Goals |-> 0], data |-> {}, known |-> [u \in Users |-> 0]])
        /\ missed' = IF task.scheduled /\ clock # task.hour THEN missed \cup {task.hour} ELSE missed
        /\ UNCHANGED <<clock, goal, snooze, zone, coded, evals, upsets, touched, ahead>>

\* Mutant: the task is done, whatever its error.
Swallowed(task) == {}

Again(task) ==
    IF task.retried < MaxTaskRetry THEN {[task EXCEPT !.retried = @ + 1]} ELSE {}

\* The error of one user ends the attempt.
Fails(w) ==
    LET task == working[w].task IN
    /\ working' = [working EXCEPT ![w] = Resting]
    /\ waiting' = waiting \cup Again(task)
    /\ missed' = IF task.scheduled /\ task.retried = MaxTaskRetry THEN missed \cup {task.hour} ELSE missed

\* The database fails, or the worker stops and the queue recovers its task.
FailAttempt(w) ==
    /\ working[w] # Resting
    /\ upsets < MaxUpsets /\ upsets' = upsets + 1
    /\ Fails(w)
    /\ UNCHANGED <<clock, goal, snooze, zone, coded, evals, touched, ahead>>

-----------------------------------------------------------------------------
(* The evaluation of a user: the goals, the data, a row for each goal.      *)

Doing(w, u, step) == working[w] # Resting /\ working[w].step[u] = step
Todo(w, u) == {g \in working[w].todo : Owner[g] = u}

ListGoals(w, u) ==
    LET enabled == {g \in Goals : Owner[g] = u /\ goal[g] = "enabled"} IN
    /\ Doing(w, u, "list")
    /\ Proceeds(w, [working[w] EXCEPT
            !.todo = @ \cup enabled,
            !.snooze = [g \in Goals |-> IF Owner[g] = u THEN snooze[g] ELSE @[g]],
            !.step[u] = IF enabled = {} THEN "done" ELSE "read"])
    /\ UNCHANGED <<clock, goal, snooze, zone, coded, waiting, evals, upsets, missed, touched, ahead>>

ReadData(w, u) ==
    /\ Doing(w, u, "read")
    /\ working' = [working EXCEPT
            ![w].data = @ \cup Within(Of(u, coded),
                EvaluationDataWindow(Todo(w, u), working[w].zone[u], working[w].now)),
            ![w].known[u] = Cardinality(Of(u, coded)),
            ![w].step[u] = "upsert"]
    /\ UNCHANGED <<clock, goal, snooze, zone, coded, waiting, evals, upsets, missed, touched, ahead>>

Upserted(row) ==
    {e \in evals : ~(e.goal = row.goal /\ e.from = row.from /\ e.to = row.to)} \cup {row}

GoalSnoozed(until) == clock < until

\* It is the goal as it was listed whose snooze may still last.  The row of a
\* goal deleted since refers to nothing: the attempt fails.
UpsertGoalEvaluation(w, u) ==
    /\ Doing(w, u, "upsert")
    /\ \E g \in Todo(w, u) :
        LET r == working[w]
            window == GoalEvaluationWindow(g, r.zone[u], r.now)
            snoozed == GoalSnoozed(r.snooze[g])
            progress == GoalProgress(g, Of(u, r.data), window, snoozed)
        IN
        /\ IF goal[g] = "deleted" THEN Fails(w) /\ UNCHANGED evals
           ELSE /\ evals' = Upserted([goal |-> g, from |-> window.from, to |-> window.to,
                        actual |-> progress.actual, target |-> progress.target,
                        known |-> r.known[u], snoozed |-> snoozed])
                /\ Proceeds(w, [r EXCEPT !.todo = @ \ {g},
                        !.step[u] = IF Todo(w, u) = {g} THEN "done" ELSE "upsert"])
                /\ UNCHANGED <<waiting, missed>>
        /\ UNCHANGED <<clock, goal, snooze, zone, coded, upsets, touched, ahead>>

-----------------------------------------------------------------------------
(* The users.                                                               *)

\* Heartbeats may arrive late.
CodeTime(u) ==
    /\ Cardinality(coded) < MaxBeats
    /\ \E t \in 0 .. clock : coded' = coded \cup {[of |-> u, at |-> t]}
    /\ UNCHANGED <<clock, goal, snooze, zone, waiting, working, evals, upsets, missed, touched, ahead>>

\* updateGoal enables or disables it, or snoozes it for hours or for good, which
\* matters of one that is enabled; deleteGoal takes its evaluations along.
EditGoal(g) ==
    /\ upsets < MaxUpsets /\ upsets' = upsets + 1
    /\ goal[g] # "deleted"
    /\ \E state \in {"enabled", "disabled", "deleted"}, until \in {0} \cup clock + 1 .. MaxHour + 1 :
        /\ state # goal[g] \/ until # snooze[g]
        /\ state = "enabled" \/ until = 0
        /\ goal' = [goal EXCEPT ![g] = state]
        /\ snooze' = [snooze EXCEPT ![g] = until]
        /\ evals' = IF state = "deleted" THEN {e \in evals : e.goal # g} ELSE evals
    /\ touched' = touched \cup {Owner[g]}
    /\ UNCHANGED <<clock, zone, coded, waiting, working, missed, ahead>>

ChangeZone(u) ==
    /\ upsets < MaxUpsets /\ upsets' = upsets + 1
    /\ \E z \in Zones \ {zone[u]} : zone' = [zone EXCEPT ![u] = z]
    /\ touched' = touched \cup {u}
    /\ UNCHANGED <<clock, goal, snooze, coded, waiting, working, evals, missed, ahead>>

AttemptStep(w) ==
    \E u \in Users : ListGoals(w, u) \/ ReadData(w, u) \/ UpsertGoalEvaluation(w, u)

ScheduleNext ==
    \/ Tick \/ DevGoalsEvaluate
    \/ \E w \in GoalWorkers : TakeGoalTask(w) \/ AttemptStep(w) \/ FailAttempt(w)
    \/ \E u \in Users : CodeTime(u) \/ ChangeZone(u)
    \/ \E g \in Goals : EditGoal(g)

ScheduleSpec == ScheduleInit /\ [][ScheduleNext]_scheduleVars

\* Time passes; the workers take tasks and go on with them.
ScheduleFairSpec ==
    /\ ScheduleSpec
    /\ WF_scheduleVars(Tick)
    /\ \A w \in GoalWorkers : WF_scheduleVars(TakeGoalTask(w)) /\ WF_scheduleVars(AttemptStep(w))

-----------------------------------------------------------------------------
(* Properties.                                                              *)

\* An evaluation counts all the heartbeats there were when its data was read,
\* in its window and in the one it is to improve on: the one window read for
\* all the goals of a user covers each of them.  Only that of a snoozed goal
\* counts none, and only goals that their users edited are snoozed.
EvaluationsCountTheirWindow ==
    \A e \in evals :
        LET beats == Of(Owner[e.goal], coded)
            w == [from |-> e.from, to |-> e.to]
        IN /\ e.known = Cardinality(beats) =>
                  [actual |-> e.actual, target |-> e.target] = GoalProgress(e.goal, beats, w, e.snoozed)
           /\ e.snoozed => Owner[e.goal] \in touched

\* The windows of a goal do not overlap, over retries, repeated and developers'
\* tasks, unless the user changed the time zone; and they have ended, but those
\* a developer asked for ahead of the clock, which end by the hour asked for.
WindowsAreDisjoint ==
    /\ \A e \in evals : e.from < e.to /\ (e.to <= clock \/ \E h \in ahead : e.to <= h)
    /\ \A e, f \in evals : (e.goal = f.goal /\ e # f) =>
            \/ e.to <= f.from \/ f.to <= e.from
            \/ Owner[e.goal] \in touched

\* When a day of a user begins, the windows that ended are evaluated in the end,
\* unless the task of that hour was not enqueued, given up, or given out in
\* another hour; or unless the user edited the zone or a goal.
DaysAreEvaluated ==
    <>[](\A g \in Goals, h \in Hours :
        LET z == zone[Owner[g]] IN
        (h <= clock /\ h \notin missed /\ Owner[g] \notin touched /\ z[h] % DayHours = 0) =>
            \E e \in evals : e.goal = g /\ [from |-> e.from, to |-> e.to] = GoalEvaluationWindow(g, z, h))

\* Evaluations are one for each window of a goal, and of the whole of it.
EvaluationsSound == ScheduleTypeOK /\ EvaluationsCountTheirWindow /\ WindowsAreDisjoint
=============================================================================
