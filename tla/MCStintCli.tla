----------------------------- MODULE MCStintCli -----------------------------
(* Instances for TLC of OfflineQueue, with invocations that overlap, and of  *)
(* AITranscripts: the two things an invocation of the client does.  A        *)
(* behaviour is one of the part chosen in the initial state; the variables   *)
(* of the other keep their initial values.                                   *)
EXTENDS MCOfflineQueue, AITranscripts

VARIABLE part

cliVars == <<part, vars, scanVars>>

CliInit ==
    /\ part \in {"queue", "transcripts"}
    /\ Init /\ TranscriptsInit
    /\ part = "queue" \/ handed = {}
    /\ part = "transcripts" \/ \A x \in Transcripts : kind[x] = "lines" /\ names[x] = 1

CliNext ==
    /\ UNCHANGED part
    /\ \/ part = "queue" /\ Next /\ UNCHANGED scanVars
       \/ part = "transcripts" /\ TranscriptsNext /\ UNCHANGED vars

\* The fairness of each part, in the behaviours of that part.
CliFairness ==
    /\ \A p \in Procs : WF_vars(part = "queue" /\ (Work(p) \/ StartSync(p)))
    /\ \A s \in Scans : WF_scan(part = "transcripts" /\ (StartScan(s) \/ ScanStep(s)))

CliSpec == CliInit /\ [][CliNext]_cliVars /\ CliFairness

\* Whatever fails, an invocation that syncs the queue ends, and transcripts are
\* counted by one that reads them.
CommandsComplete == InvocationsEnd /\ TranscriptsEventuallyCounted
=============================================================================
