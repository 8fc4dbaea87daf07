---- MODULE MCStatsCache ----
(* Instances of StatsCache for TLC. *)
EXTENDS StatsCache

CONSTANTS c1, c2, w1, w2, h1, h2, s1, x1, week, year, project

OneRange == <<week>>
TwoRanges == <<week, year>>

====
