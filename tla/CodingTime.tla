----------------------------- MODULE CodingTime -----------------------------
(***************************************************************************)
(* The coding time that stint computes from heartbeats and external         *)
(* durations (internal/services: durations.go, stats.go, goals.go).         *)
(*                                                                          *)
(* Statistics of a range, the status bar of today, the all-time totals and  *)
(* the progress of goals each take the same rows through code of their own. *)
(* The state is what the database returns, to which late heartbeats and     *)
(* imported durations are added in any order; the properties relate what    *)
(* the different computations say of it.                                    *)
(*                                                                          *)
(* Time is in ticks, Second of which make the second that totals are kept   *)
(* in: heartbeats bear fractions of seconds.  The days of the user begin    *)
(* Zone ticks after those of UTC, and the first one is short ticks shorter  *)
(* when daylight saving time starts in it.                                  *)
(***************************************************************************)
EXTENDS Integers, Sequences, FiniteSets, SequencesExt, FiniteSetsExt

CONSTANTS
    Second, Hour, Day, \* ticks
    Timeout,           \* ticks: timeout_minutes
    Zone,              \* ticks
    Days,              \* days of a range
    Million,           \* tokens that rates are for
    MaxRows            \* bound on heartbeats and external durations

ASSUME CodingTimeAssumption ==
    /\ \A n \in {Second, Hour, Day, Timeout, Days, Million, MaxRows} : n \in Nat \ {0}
    /\ Hour % Second = 0 /\ Day % Hour = 0
    /\ Zone \in 0 .. Day - 1 /\ Zone % Second = 0

VARIABLES
    beats,     \* heartbeats, by time
    externals, \* external durations
    short      \* by how much daylight saving time shortens the first day

codingVars == <<beats, externals, short>>

\* The first tick of the user's k-th day.
DayStart(k) == Zone + k * Day - (IF k > 0 THEN short ELSE 0)

RangeStart == DayStart(0)
RangeEnd == DayStart(Days)
Instants == RangeStart .. Zone + Days * Day - 1

DayOf(t) == CHOOSE k \in 0 .. Days : DayStart(k) <= t /\ t < DayStart(k + 1)

Least(a, b) == IF a < b THEN a ELSE b
Greatest(a, b) == IF a > b THEN a ELSE b

\* Heartbeats of two projects, of a human and of two agents, whose bear tokens.
Activities == {[project |-> "p", agent |-> "none", tokens |-> 0],
               [project |-> "p", agent |-> "m", tokens |-> 1],
               [project |-> "q", agent |-> "n", tokens |-> 2]}
Agents == {"m", "n"}

HasAIFields(h) == h.of.agent \in Agents

Beat == [time : Instants, of : Activities]
External == {e \in [from : Instants, to : Instants] : e.from < e.to /\ e.from % Second = 0}

CodingTypeOK ==
    /\ beats \in Seq(Beat)
    /\ externals \subseteq External
    /\ Len(beats) + Cardinality(externals) <= MaxRows
    /\ short \in {0, Hour}
    /\ \A i \in 1 .. Len(beats) - 1 : beats[i].time <= beats[i + 1].time

-----------------------------------------------------------------------------
(* Durations.                                                               *)

\* What a heartbeat counts: the time to the next, unless it is idle.
Gap(hs, i) ==
    IF i = Len(hs) THEN 0
    ELSE LET gap == hs[i + 1].time - hs[i].time IN IF gap <= Timeout THEN gap \div Second ELSE 0

\* Heartbeats without a branch are left out of the branches; one of several
\* dependencies counts for each.
SliceNames(h, by) ==
    CASE by = "project" -> {h.of.project}
      [] by = "language" -> {IF HasAIFields(h) THEN "go" ELSE "Other"}
      [] by = "branch" -> IF h.of.project = "q" THEN {} ELSE {"main"}
      [] by = "dependencies" -> IF h.of.project = "p" THEN {"d1", "d2"} ELSE {"Unknown"}

Slices == {"project", "language", "branch", "dependencies"}
SliceNamesOf(hs, by) == UNION {SliceNames(hs[i], by) : i \in DOMAIN hs}

Row(name, time, seconds, tokens) ==
    [name |-> name, time |-> time, seconds |-> seconds, tokens |-> tokens, ai |-> tokens > 0]

\* A row that goes on where the last one ends.
Merged(row, next) ==
    [row EXCEPT !.seconds = (next.time - row.time) \div Second + next.seconds,
                !.ai = @ \/ next.ai, !.tokens = @ + next.tokens]

MergeAdjacent(rows) ==
    FoldLeft(LAMBDA out, next :
                IF out # <<>> /\ next.time <= Last(out).time + Last(out).seconds * Second
                THEN Append(Front(out), Merged(Last(out), next))
                ELSE Append(out, next),
             <<>>, rows)

RowsOf(hs, by, name) ==
    LET own == SelectSeq([i \in DOMAIN hs |-> i], LAMBDA i : name \in SliceNames(hs[i], by)) IN
    [k \in DOMAIN own |-> Row(name, hs[own[k]].time, Gap(hs, own[k]), hs[own[k]].of.tokens)]

ComputeDurations(hs, by) ==
    UNION {ToSet(MergeAdjacent(RowsOf(hs, by, name))) : name \in SliceNamesOf(hs, by)}

Seconds(rows) == MapThenSumSet(LAMBDA row : row.seconds, rows)

\* The part of an external duration in a window.  (A bound: there is one.)
ExternalDurationsInWindow(from, to) ==
    {row \in {Row("external", Greatest(e.from, from), (Least(e.to, to) - Greatest(e.from, from)) \div Second, 0) :
              e \in externals} : row.seconds > 0}

ExternalDurationsAsDurations ==
    {row \in {Row("external", e.from, (e.to - e.from) \div Second, 0) : e \in externals} : row.seconds > 0}

InWindow(from, to) ==
    LET second(h) == (h.time \div Second) * Second
    IN  SelectSeq(beats, LAMBDA h : from <= second(h) /\ second(h) < to)

-----------------------------------------------------------------------------
(* Statistics of a range, which ends with today.                            *)

\* Mutant: the end is the last second of the last day.
DaysBetweenLast(from, to) == Greatest(1, (to - Second - from) \div Day)

\* The days of last_7_days are counted; those of last_6_months, last_year and
\* of a calendar range are the hours between its ends, in days.
DaysBetween(from, to) == Greatest(1, (to - from) \div Day)
DaysIn(range) == IF range = "days" THEN Days ELSE DaysBetween(RangeStart, RangeEnd)

Durations(by) ==
    ComputeDurations(InWindow(RangeStart, RangeEnd), by)
        \cup (IF by = "dependencies" THEN {} ELSE ExternalDurationsInWindow(RangeStart, RangeEnd))

Total == Seconds(Durations("project"))

\* A duration counts for the day that it starts in.
DayTotals(range) ==
    LET rows == Durations("project")
    IN  [k \in 0 .. DaysIn(range) - 1 |-> Seconds({row \in rows : DayOf(row.time) = k})]

SumOf(f) == MapThenSumSet(LAMBDA k : f[k], DOMAIN f)

\* The user's weekday of each day.
ComputeWeekdayStats(totals) ==
    [weekday \in 0 .. 6 |->
        MapThenSumSet(LAMBDA k : totals[k], {k \in DOMAIN totals : k % 7 = weekday})]

ComputeDailyAverageTrend(totals) ==
    [k \in DOMAIN totals |-> MapThenSumSet(LAMBDA j : totals[j], {j \in DOMAIN totals : j <= k}) \div (k + 1)]

\* The seconds of [from, to) in the hour that starts at a tick.
Part(from, to, hour) ==
    IF from < hour + Hour /\ to > hour THEN (Least(to, hour + Hour) - Greatest(from, hour)) \div Second ELSE 0

\* The hours of the day are those of UTC.
ComputeHourlyTimeline ==
    LET parts(row, h) ==
            LET from == (row.time \div Second) * Second
                to == from + row.seconds * Second
                hours == {t \in 0 .. to : t % Hour = 0 /\ (t % Day) \div Hour = h}
            IN  MapThenSumSet(LAMBDA t : Part(from, to, t), hours)
        rows == Durations("project")
    IN  [h \in 0 .. Day \div Hour - 1 |-> MapThenSumSet(LAMBDA row : parts(row, h), rows)]

-----------------------------------------------------------------------------
(* AI.  A duration is one of an agent if a heartbeat merged into it is.     *)

AIRows == {row \in Durations("project") : row.ai}
AISecondsBy(keys) == [k \in Range(keys) |-> Seconds({row \in DOMAIN keys : keys[row] = k})]

AISecondsOfDays == AISecondsBy([row \in AIRows |-> DayOf(row.time)])
AISecondsOfProjects == AISecondsBy([row \in AIRows |-> row.name])

AIBeats == {i \in DOMAIN beats : HasAIFields(beats[i])}
TokensOf(those) == MapThenSumSet(LAMBDA i : beats[i].of.tokens, those)

\* Agents without a rate have a default.  Cents are rounded down.
EstimateAICostCents(agent, tokens) == (tokens * (IF agent = "m" THEN 3 ELSE 1)) \div Million

\* The cost of some heartbeats: that of each agent is rounded.
CostOf(those) ==
    MapThenSumSet(LAMBDA agent : EstimateAICostCents(agent, TokensOf({i \in those : beats[i].of.agent = agent})),
                  Agents)

ComputeAIMetrics(range) ==
    [tokens |-> TokensOf(AIBeats),
     cents |-> CostOf(AIBeats),
     days |-> [k \in 0 .. DaysIn(range) - 1 |-> CostOf({i \in AIBeats : DayOf(beats[i].time) = k})]]

ComputeProjectAIMetrics ==
    [project \in {"p", "q"} |-> CostOf({i \in AIBeats : beats[i].of.project = project})]

\* The cost of the last days before a range ends.
CostPeriod(range, days) ==
    CostOf({i \in AIBeats : /\ beats[i].time < DayStart(DaysIn(range))
                            /\ beats[i].time >= DayStart(DaysIn(range) - days)})

-----------------------------------------------------------------------------
(* The status bar.                                                          *)

ComputeStatusBarForWindow(from, to) ==
    Seconds(ComputeDurations(InWindow(from, to), "project")) + Seconds(ExternalDurationsInWindow(from, to))

-----------------------------------------------------------------------------
(* All-time totals.  Their days are those of UTC, from the first heartbeat. *)

AllTimeDurations == ComputeDurations(beats, "project") \cup ExternalDurationsAsDurations
AllTimeStart == IF beats = <<>> THEN 0 ELSE (beats[1].time \div Day) * Day
AllTimeDays ==
    IF beats = <<>> THEN 1
    ELSE DaysBetween(AllTimeStart, (Last(beats).time \div Day + 1) * Day)
AllTimeDayTotals ==
    [k \in 0 .. AllTimeDays - 1 |->
        Seconds({row \in AllTimeDurations : row.time \div Day = AllTimeStart \div Day + k})]

-----------------------------------------------------------------------------
(* Goals.                                                                   *)

\* A goal without filters and one of a project; a goal that ignores a weekday
\* of UTC, one that improves on the window before, and one to stay below.
PlainGoal == [projects |-> {}, ignore |-> {}, improve |-> -1, inverse |-> FALSE, zero |-> FALSE,
          snoozed |-> FALSE, seconds |-> 1]
ImprovingGoal == [PlainGoal EXCEPT !.improve = 50]
GoalSet == {PlainGoal, ImprovingGoal, [ImprovingGoal EXCEPT !.projects = {"p"}], [ImprovingGoal EXCEPT !.ignore = {0}],
          [PlainGoal EXCEPT !.zero = TRUE], [PlainGoal EXCEPT !.inverse = TRUE], [PlainGoal EXCEPT !.snoozed = TRUE]}

GoalHeartbeatsInWindow(goal, from, to) ==
    SelectSeq(InWindow(from, to),
              LAMBDA h : /\ h.time \div Day \notin goal.ignore
                         /\ (goal.projects # {}) => h.of.project \in goal.projects)

\* External durations have no project here, and no editor.
GoalExternalDurationsInWindow(goal, from, to) ==
    IF goal.projects # {} THEN {}
    ELSE {row \in ExternalDurationsInWindow(from, to) : row.time \div Day \notin goal.ignore}

Actual(goal, from, to) ==
    Seconds(ComputeDurations(GoalHeartbeatsInWindow(goal, from, to), "project"))
        + Seconds(GoalExternalDurationsInWindow(goal, from, to))

\* The window before has the same length, however long its days are.
GoalTarget(goal, from, to) ==
    LET previous == Actual(goal, from - (to - from), from) IN
    IF goal.improve # -1 /\ previous > 0
    THEN previous + (previous * goal.improve + 99) \div 100
    ELSE goal.seconds

ComputeGoalProgress(goal, from, to) ==
    LET actual == Actual(goal, from, to)
        target == GoalTarget(goal, from, to)
    IN  IF goal.snoozed
        THEN [actual |-> 0, target |-> goal.seconds, percent |-> 0, complete |-> FALSE,
              remaining |-> goal.seconds]
        ELSE IF goal.zero /\ actual = 0
        THEN [actual |-> actual, target |-> target, percent |-> 100, complete |-> TRUE, remaining |-> 0]
        ELSE [actual |-> actual, target |-> target,
              percent |-> IF target > 0 THEN Least(100, (actual * 100) \div target) ELSE 0,
              complete |-> IF goal.inverse THEN actual <= target ELSE actual >= target,
              remaining |-> Greatest(0, target - actual)]

\* The window of a goal's progress, when it is asked for: the day or the week of
\* UTC, unlike that of the status bar.  (A bound: day 0 is a Monday.)
GoalWindow(delta, now) ==
    LET day == now \div Day
        monday == day - (day % 7)
    IN  IF delta = "week" THEN [from |-> monday * Day, to |-> (monday + 7) * Day]
        ELSE [from |-> day * Day, to |-> (day + 1) * Day]

LiveProgress(goal, delta, now) ==
    LET window == GoalWindow(delta, now) IN ComputeGoalProgress(goal, window.from, window.to)

-----------------------------------------------------------------------------
CodingInit ==
    /\ beats = <<>> /\ externals = {}
    /\ short \in {0, Hour}

Room == Len(beats) + Cardinality(externals) < MaxRows

\* A heartbeat may be older than others, and goes after those of its time.
AddHeartbeat(h) ==
    /\ Room
    /\ LET before == SelectSeq(beats, LAMBDA g : g.time <= h.time)
           after == SelectSeq(beats, LAMBDA g : g.time > h.time)
       IN  beats' = before \o <<h>> \o after
    /\ UNCHANGED <<externals, short>>

AddExternalDuration(e) ==
    /\ Room /\ externals = {}
    /\ externals' = {e}
    /\ UNCHANGED <<beats, short>>

CodingNext ==
    \/ \E h \in Beat : h.time < RangeEnd /\ AddHeartbeat(h)
    \/ \E e \in External : e.to <= RangeEnd /\ AddExternalDuration(e)

CodingSpec == CodingInit /\ [][CodingNext]_codingVars

-----------------------------------------------------------------------------
(* Properties.                                                              *)

Pairs == {ij \in (DOMAIN beats) \X (DOMAIN beats) :
             ij[2] = ij[1] + 1 /\ beats[ij[2]].time - beats[ij[1]].time <= Timeout}
CreditOf(pairs) == MapThenSumSet(LAMBDA ij : (beats[ij[2]].time - beats[ij[1]].time) \div Second, pairs)
ExternalSeconds == MapThenSumSet(LAMBDA e : (e.to - e.from) \div Second, externals)

\* Every breakdown adds up to the time between heartbeats that are no further
\* apart than the timeout, whatever rows were merged (ComputeDurationsFromSorted,
\* mergeAdjacentDurationsFromSorted): branches leave out what has none, and
\* dependencies count the time once for each.
SlicesAgree ==
    LET pairs == Pairs
        all == CreditOf(pairs)
        ofP == CreditOf({ij \in pairs : beats[ij[1]].of.project = "p"})
    IN  /\ Total = all + ExternalSeconds
        /\ Seconds(Durations("language")) = all + ExternalSeconds
        /\ Seconds(Durations("branch")) = ofP + ExternalSeconds
        /\ Seconds(Durations("dependencies")) = all + ofP
        /\ Seconds(AllTimeDurations) = Total

\* The days of a range add up to its total, and so do the weekdays and the
\* average, except that a range of months in which a day was shortened has one
\* day too few: daysBetween divides hours by 24, so today is left out.  The
\* all-time days add up unless an external duration starts on another day.
DaysSumToTotal ==
    /\ \A range \in {"days", "months"} :
        LET totals == DayTotals(range)
            left == IF range = "months" /\ short > 0 THEN DayTotals("days")[Days - 1] ELSE 0
        IN  /\ SumOf(totals) = Total - left
            /\ SumOf(ComputeWeekdayStats(totals)) = Total - left
            /\ ComputeDailyAverageTrend(totals)[DaysIn(range) - 1] = (Total - left) \div DaysIn(range)
    /\ (\A row \in AllTimeDurations : row.time \div Day \in
            {AllTimeStart \div Day + k : k \in 0 .. AllTimeDays - 1})
        => SumOf(AllTimeDayTotals) = Total

\* The hours of the timeline add up to the total: no part of a duration is lost
\* or counted twice where it is cut (addDurationParts).
HoursSumToTotal == SumOf(ComputeHourlyTimeline) = Total

\* Two heartbeats, or an external duration, that a midnight divides.
Divided(midnight) ==
    \/ \E ij \in Pairs : beats[ij[1]].time < midnight /\ midnight <= beats[ij[2]].time
    \/ \E e \in externals : e.from < midnight /\ midnight < e.to

\* While a day lasts, the status bar of its window shows what statistics will
\* show of that day, unless coding went on over a midnight: statistics count a
\* duration for the day it begins in, the status bar loses what midnight
\* divides.  It shows no less than the statistics' row of today.  What is
\* recorded of a goal without filters for that day is what the status bar showed
\* at its end (GoalEvaluationWindow).
TodayAgrees ==
    LET rows == DayTotals("days") IN
    \A k \in 0 .. Days - 1 :
        LET bar == ComputeStatusBarForWindow(DayStart(k), DayStart(k + 1))
        IN  /\ (\A day \in {k, k + 1} : ~Divided(DayStart(day))) => bar = rows[k]
            /\ (k = Days - 1) => bar >= rows[k]
            /\ \A goal \in {PlainGoal, ImprovingGoal} :
                ComputeGoalProgress(goal, DayStart(k), DayStart(k + 1)).actual = bar

\* The same coding lies in two windows.
SameCoding(v, w) ==
    /\ InWindow(v.from, v.to) = InWindow(w.from, w.to)
    /\ ExternalDurationsInWindow(v.from, v.to) = ExternalDurationsInWindow(w.from, w.to)

\* A goal's progress counts the day of UTC (goalWindow).  It is what the all-time
\* totals have for that day, unless coding went on over a midnight of UTC.  It is
\* what the status bar shows, which counts the user's day, only when no coding
\* lies where the two days differ.  The progress of a week is no less than that
\* of its days together, and the same unless a midnight divides something.
LiveGoalsAgree ==
    LET live(delta, now) == LiveProgress(PlainGoal, delta, now).actual
        undivided(day) == ~Divided(day * Day) /\ ~Divided((day + 1) * Day)
        first == AllTimeStart \div Day
        daysOfWeek == 0 .. 6
        ofDays == MapThenSumSet(LAMBDA day : live("day", day * Day), daysOfWeek)
    IN  /\ \A k \in DOMAIN AllTimeDayTotals :
            (beats # <<>> /\ undivided(first + k)) => live("day", (first + k) * Day) = AllTimeDayTotals[k]
        /\ \A k \in 0 .. Days - 1 : \A now \in DayStart(k) .. DayStart(k + 1) - 1 :
            SameCoding(GoalWindow("day", now), [from |-> DayStart(k), to |-> DayStart(k + 1)])
                => live("day", now) = ComputeStatusBarForWindow(DayStart(k), DayStart(k + 1))
        /\ live("week", 0) >= ofDays
        /\ (\A day \in daysOfWeek : undivided(day)) => live("week", 0) = ofDays

\* A goal that is to be reached is complete exactly when nothing remains, and
\* at a hundred percent, unless it is snoozed or ignored; one that improves on
\* the day before is not complete with less than that day, half added.
GoalsConsistent ==
    \A goal \in GoalSet :
        LET from == DayStart(Days - 1)
            progress == ComputeGoalProgress(goal, from, RangeEnd)
            before == Actual(goal, from - (RangeEnd - from), from)
        IN  (~goal.inverse /\ ~goal.snoozed /\ ~(goal.zero /\ progress.actual = 0)) =>
                /\ (progress.complete) <=> (progress.remaining = 0)
                /\ (progress.complete) <=> (progress.percent = 100)
                /\ (progress.complete /\ goal.improve # -1) => 2 * progress.actual >= 3 * before

\* What agents are credited with covers the time after each of their
\* heartbeats, by day as by project, and is not more than the total.
AICovered ==
    LET own == CreditOf({ij \in Pairs : HasAIFields(beats[ij[1]])})
        byDay == SumOf(AISecondsOfDays)
        byProject == SumOf(AISecondsOfProjects)
    IN  own <= byDay /\ byDay = byProject /\ byProject <= Total

\* The breakdowns of the AI cost fall short of it by less than a cent for each
\* rounding: a range's days, its projects, and its periods, of which the longest
\* is the whole cost and the shortest that of today.  What agents have cost in a
\* shortened month lacks today, like its days.  Durations bear all the tokens.
CostsAgree ==
    LET metrics == ComputeAIMetrics("days")
        byDay == SumOf(metrics.days)
        byProject == SumOf(ComputeProjectAIMetrics)
        lacksToday == short > 0 /\ DaysIn("months") < Days
    IN  /\ byDay <= metrics.cents /\ metrics.cents <= byDay + Cardinality(AIBeats)
        /\ byProject <= metrics.cents /\ metrics.cents <= byProject + Cardinality(AIBeats)
        /\ CostPeriod("days", Days) = metrics.cents
        /\ CostPeriod("days", 1) = metrics.days[Days - 1]
        /\ lacksToday => CostPeriod("months", 1) = metrics.days[Days - 2]
        /\ MapThenSumSet(LAMBDA row : row.tokens, Durations("project")) = metrics.tokens

\* A heartbeat, however late it comes, takes at most a second from the total
\* without it, for the fractions of the gap that it divides.
LateHeartbeatsKeepTotal ==
    \A i \in DOMAIN beats :
        Seconds(ComputeDurations(RemoveAt(beats, i), "project"))
            <= Seconds(ComputeDurations(beats, "project")) + 1

\* What is computed from the same heartbeats agrees: breakdowns, days, hours,
\* status bar and goals about the time, and agents' time and costs with them.
StatisticsAgree ==
    /\ CodingTypeOK
    /\ SlicesAgree /\ DaysSumToTotal /\ HoursSumToTotal
    /\ TodayAgrees /\ LiveGoalsAgree /\ GoalsConsistent /\ LateHeartbeatsKeepTotal
    /\ AICovered /\ CostsAgree
=============================================================================
