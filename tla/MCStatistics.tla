---------------------------- MODULE MCStatistics ----------------------------
(* Instances for TLC of StatsCache, whose rows are refreshed when they are    *)
(* asked for, of CodingTime, by which they are computed, and of               *)
(* ConnectionPool, on which the lookups of a computation depend.  A behaviour *)
(* is one of the part chosen in the initial state; the variables of the       *)
(* others keep their initial values.                                         *)
EXTENDS MCStatsCache, CodingTime, ConnectionPool

VARIABLE part

statisticsVars == <<part, vars, codingVars, request>>

StatisticsInit ==
    /\ part \in {"cache", "coding", "pool"}
    /\ Init /\ CodingInit /\ PoolInit
    /\ part = "coding" \/ short = 0

StatisticsNext ==
    /\ UNCHANGED part
    /\ \/ part = "cache" /\ Next /\ UNCHANGED <<codingVars, request>>
       \/ part = "coding" /\ CodingNext /\ UNCHANGED <<vars, request>>
       \/ part = "pool" /\ PoolNext /\ UNCHANGED <<vars, codingVars>>

\* The fairness of each part, in the behaviours of that part.
StatisticsFairness ==
    /\ \A p \in Procs : WF_vars(part = "cache" /\ Progress(p))
    /\ \A d \in Kinds, r \in 0 .. MaxRetry :
        SF_vars(part = "cache" /\ \E w \in Workers : TakeTask(w, d, r))
    /\ \A k \in Keys : SF_vars(part = "cache" /\ \E c \in Clients : Request(c, k, "lookup"))
    /\ \A k \in ProjectKeys : WF_vars(part = "cache" /\ LockExpires(k))
    /\ \A r \in Requests :
        /\ WF_request(part = "pool" /\ Serve(r))
        /\ WF_request(part = "pool" /\ GiveUp(r))

StatisticsSpec == StatisticsInit /\ [][StatisticsNext]_statisticsVars /\ StatisticsFairness
=============================================================================
