---------------------------- MODULE MCReporting -----------------------------
(* Instances for TLC of OfflineQueue, one invocation at a time, of            *)
(* InternalConfig, UsageReports and PricingRefresh: what is handed to the     *)
(* client is sent, when the internal configuration lets it, and what has been *)
(* sent is reported, at prices that are refreshed.  A behaviour is one of the *)
(* part chosen in the initial state; the variables of the others keep their   *)
(* initial values.                                                            *)
EXTENDS MCOfflineQueue, InternalConfig, UsageReports, PricingRefresh

VARIABLE part

reportingVars == <<part, vars, configVars, reportVars, pricingVars>>

ReportingInit ==
    /\ part \in {"queue", "config", "reports", "pricing"}
    /\ Init /\ ConfigInit /\ ReportsInit /\ PricingInit
    /\ part = "queue" \/ handed = {}

ReportingNext ==
    /\ UNCHANGED part
    /\ \/ part = "queue" /\ Next /\ UNCHANGED <<configVars, reportVars, pricingVars>>
       \/ part = "config" /\ ConfigNext /\ UNCHANGED <<vars, reportVars, pricingVars>>
       \/ part = "reports" /\ ReportsNext /\ UNCHANGED <<vars, configVars, pricingVars>>
       \/ part = "pricing" /\ PricingNext /\ UNCHANGED <<vars, configVars, reportVars>>

\* The fairness of each part, in the behaviours of that part.
ReportingFairness ==
    /\ \A p \in Procs : WF_vars(part = "queue" /\ (Work(p) \/ StartSync(p)))
    /\ WF_configVars(part = "config" /\ Tick)
    /\ \A i \in Invocations :
        /\ SF_configVars(part = "config" /\ Begin(i))
        /\ WF_configVars(part = "config" /\ Proceed(i))
    /\ \A p \in Engines :
        /\ WF_pricingVars(part = "pricing" /\ SyncFirst(p))
        /\ SF_pricingVars(part = "pricing" /\ SyncSecond(p))

ReportingSpec == ReportingInit /\ [][ReportingNext]_reportingVars /\ ReportingFairness

-----------------------------------------------------------------------------
(* UsageReports: a model with a dated name and a regional price, one behind  *)
(* a proxy with a fallback price, one without a price, and one without a     *)
(* name.                                                                     *)

ModelOf(base, region, dated) == [base |-> base, region |-> region, dated |-> dated]
PriceOf(input, output, cache5m, cache1h, read) ==
    [input |-> input, output |-> output, cache5m |-> cache5m, cache1h |-> cache1h, read |-> read]
UsedTokens(input, output, cache1h, read) ==
    [input |-> input, output |-> output, cache5m |-> 0, cache1h |-> cache1h, read |-> read]

Claude == ModelOf("claude", "none", FALSE)
DatedClaude == ModelOf("claude", "us", TRUE)
Proxy == ModelOf("proxy", "none", FALSE)
Unheard == ModelOf("unheard", "none", FALSE)
NoName == ModelOf("", "none", FALSE)

MCTable == Claude :> PriceOf(2, 5, 3, 0, 1)
           @@ ModelOf("claude", "us", FALSE) :> PriceOf(3, 5, 3, 0, 1)
MCFallback == Proxy :> PriceOf(1, 1, 0, 0, 0)
              @@ ModelOf("claude", "none", TRUE) :> PriceOf(7, 7, 7, 7, 7)
MCAliases == {}
MCCustomModels == {ModelOf("claude", "none", TRUE)}
MCCustomPrice == PriceOf(1, 0, 0, 0, 0)
MCUsages ==
    {[agent |-> "claude", model |-> DatedClaude, project |-> "p", billing |-> "subscription",
      provided |-> {}, tokens |-> UsedTokens(1, 0, 1, 1)],
     [agent |-> "claude", model |-> DatedClaude, project |-> "p", billing |-> "api",
      provided |-> {4}, tokens |-> UsedTokens(1, 1, 0, 0)],
     [agent |-> "codex", model |-> Unheard, project |-> "q", billing |-> "unknown",
      provided |-> {3}, tokens |-> UsedTokens(0, 1, 0, 0)],
     [agent |-> "codex", model |-> Proxy, project |-> "p", billing |-> "subscription",
      provided |-> {}, tokens |-> UsedTokens(1, 0, 0, 0)],
     [agent |-> "codex", model |-> NoName, project |-> "q", billing |-> "unknown",
      provided |-> {}, tokens |-> UsedTokens(1, 0, 0, 0)]}
===============================================================================
