----------------------------- MODULE MCRequests -----------------------------
(* Instances for TLC of what decides whether a request reaches its handler,   *)
(* and of the statistics it then reads: InternalConfig, by which the client   *)
(* posts or waits, RateLimits, by which the server answers or refuses, and    *)
(* StatsCache.  A behaviour is one of the part chosen in the initial state;   *)
(* the variables of the others keep their initial values.                     *)
EXTENDS MCStatsCache, RateLimits, InternalConfig

VARIABLE part

requestVars == <<part, vars, limitVars, configVars>>

RequestsInit ==
    /\ part \in {"cache", "limits", "config"}
    /\ Init /\ LimitInit /\ ConfigInit

\* The bound on requests ends a behaviour of RateLimits.
LimitsDone == clock = LastTime /\ askedSoFar = MaxCalls /\ \A c \in Calls : pending[c] = NoAsk

RequestsNext ==
    /\ UNCHANGED part
    /\ \/ part = "cache" /\ Next /\ UNCHANGED <<limitVars, configVars>>
       \/ part = "limits" /\ LimitNext /\ UNCHANGED <<vars, configVars>>
       \/ part = "limits" /\ LimitsDone /\ UNCHANGED <<vars, limitVars, configVars>>
       \/ part = "config" /\ ConfigNext /\ UNCHANGED <<vars, limitVars>>

RequestsSpec == RequestsInit /\ [][RequestsNext]_requestVars

\* One route has a longer window, as the hour of /oauth/token.
MCLimit == [k \in LimitKeys |-> IF k = "token" THEN 2 ELSE 1]
MCWindow == [k \in LimitKeys |-> IF k = "token" THEN 3 ELSE 1]
=============================================================================
