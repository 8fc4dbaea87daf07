----------------------------- MODULE MCCollector -----------------------------
(* Instances for TLC of CollectorScan and of AgentFiles: how transcripts are  *)
(* scanned, posted and marked, and how each format is read.  A behaviour is   *)
(* one of the part chosen in the initial state; the variables of the other    *)
(* keep their initial values.                                                *)
EXTENDS MCCollectorScan, AgentFiles

VARIABLE part

collectorVars == <<part, vars, agentFileVars>>

MCAgents == DOMAIN Kind
MCPlaces == {[base |-> "in", known |-> TRUE], [base |-> "below", known |-> FALSE]}

CollectorInit ==
    /\ part \in {"scan", "formats"}
    /\ Init /\ AgentFilesInit
    /\ part = "scan" \/ setup = [collectors |-> Collectors, ids |-> {"m1"}, watch |-> FALSE]
    \* A bound of the instance: where the file lies only decides whether it is found.
    /\ place.known \/ ~named
    /\ part = "formats" \/ (agent = "claude" /\ place.known /\ ~named)

\* A bound of the instance: nothing fails while collectors overlap.
\* SavedMeansStoredAlways of CollectorProofs has no such bound.
FaultsOfOneCollector == setup.collectors = Collectors => faults' = 0

CollectorNext ==
    /\ UNCHANGED part
    /\ \/ part = "scan" /\ Next /\ FaultsOfOneCollector /\ UNCHANGED agentFileVars
       \/ part = "formats" /\ AgentFilesNext /\ UNCHANGED vars

\* The fairness of each part, in the behaviours of that part.
CollectorFairness ==
    /\ \A c \in Collectors : WF_vars(part = "scan" /\ CollectorStep(c))
    /\ WF_stat(part = "formats" /\ StatFile)
    /\ WF_stat(part = "formats" /\ ScanEnds)

CollectorSpec == CollectorInit /\ [][CollectorNext]_collectorVars /\ CollectorFairness
=============================================================================
