-------------------------- MODULE CustomRulesProofs --------------------------
(***************************************************************************)
(* Proofs about CustomRules, for every number of requests, workers,         *)
(* heartbeats and contents, every set of rules, every size of the pool, and *)
(* every bound on changes and faults.                                       *)
(***************************************************************************)
EXTENDS CustomRules, TLAPS

-----------------------------------------------------------------------------
(* Types, action by action.                                                 *)

LEMMA NoRulesType == NoRules \in Prepared /\ NoRows \in Rows
BY DEF NoRules, Prepared, NoRows, Rows

LEMMA TypeInit == Init => TypeOK
<1> SUFFICES ASSUME Init PROVE TypeOK
    OBVIOUS
<1>1. rules \in Prepared
    BY DEF Init, Prepared
<1>2. stored \in Rows
    BY ContentsAssumption DEF Init, Rows
<1>3. tasks \in [0 .. MaxRetry -> Nat] /\ retried \in [Workers -> 0 .. MaxRetry]
    BY BoundsAssumption DEF Init
<1>4. pc \in [Procs -> Stages] /\ checks \in [Procs -> Nat]
    BY DEF Init, Stages
<1>5. seen \in [Procs -> Prepared] /\ snap \in [Procs -> Rows] /\ cached \in Prepared
    BY NoRulesType DEF Init
<1>6. done \in Int /\ status \in Statuses /\ held \subseteq Procs \X {"tx", "query"}
    BY DEF Init, Statuses
<1> QED
    BY <1>1, <1>2, <1>3, <1>4, <1>5, <1>6 DEF Init, TypeOK

\* Another stage of one process.
LEMMA GotoType ==
    ASSUME TypeOK, NEW p \in Procs, NEW stage \in Stages, Goto(p, stage)
    PROVE  pc' \in [Procs -> Stages]
BY DEF Goto, TypeOK

LEMMA LeaveType ==
    ASSUME TypeOK, NEW p \in Procs, Leave(p)
    PROVE  /\ pc' \in [Procs -> Stages]
           /\ seen' \in [Procs -> Prepared]
           /\ snap' \in [Procs -> Rows]
           /\ checks' \in [Procs -> Nat]
           /\ held' \subseteq Procs \X {"tx", "query"}
BY NoRulesType DEF Leave, Goto, TypeOK, Stages

LEMMA ListType ==
    ASSUME TypeOK, NEW p \in Procs, NEW from, NEW to \in Stages,
           ListRules(p, from, to) \/ ListDestinations(p, from, to)
    PROVE  TypeOK'
<1>1. pc' \in [Procs -> Stages]
    BY GotoType DEF ListRules, ListDestinations, Step
<1>2. seen' \in [Procs -> Prepared]
    <2>1. CASE ListRules(p, from, to)
        BY <2>1 DEF ListRules, TypeOK
    <2>2. CASE ListDestinations(p, from, to)
        <3> DEFINE kept == {r \in seen[p].rules :
                               \/ r.to = Deleted
                               \/ seen[p].gen = rules.gen /\ r \in rules.rules}
        <3>1. seen[p] \in Prepared
            BY DEF TypeOK
        <3>2. kept \in SUBSET Rules
            BY <3>1 DEF Prepared
        <3>3. [seen[p] EXCEPT !.rules = kept] \in Prepared
            <4> HIDE DEF kept
            <4> QED
                BY <3>1, <3>2 DEF Prepared
        <3>4. seen' = [seen EXCEPT ![p] = [seen[p] EXCEPT !.rules = kept]]
            BY <2>2 DEF ListDestinations
        <3> HIDE DEF kept
        <3> QED
            BY <3>3, <3>4 DEF TypeOK
    <2> QED
        BY <2>1, <2>2
<1> QED
    BY <1>1, <1>2 DEF ListRules, ListDestinations, TypeOK, table, cache, heartbeats,
                      progress, scan

LEMMA ChangeType ==
    ASSUME TypeOK, NEW c \in Clients, NEW gen \in Int, NEW S \in SUBSET Rules,
           NEW stage \in Stages, Change(c, gen, S, stage)
    PROVE  TypeOK'
<1>1. pc' \in [Procs -> Stages]
    BY GotoType DEF Change, Step, Procs
<1>2. rules.version \in Int
    BY DEF TypeOK, Prepared
<1>3. rules' \in Prepared
    BY <1>2 DEF Change, Prepared
<1>4. changes' \in Nat
    BY DEF Change, TypeOK
<1> QED
    BY <1>1, <1>3, <1>4 DEF Change, TypeOK, cache, progress, scan

LEMMA ChangingType ==
    ASSUME TypeOK, NEW c \in Clients,
           \/ \E S \in PutSets : PutRules(c, S)
           \/ \E r \in rules.rules : DeleteRule(c, r)
    PROVE  TypeOK'
<1>1. rules.rules \subseteq Rules /\ rules.gen \in Int /\ rules.gen + 1 \in Int
    BY DEF TypeOK, Prepared
<1>2. "putList" \in Stages /\ "forget" \in Stages
    BY DEF Stages, Changing
<1>3. ASSUME NEW S \in PutSets, PutRules(c, S) PROVE TypeOK'
    BY <1>1, <1>2, <1>3, ContentsAssumption, ChangeType DEF PutRules
<1>4. ASSUME NEW r \in rules.rules, DeleteRule(c, r) PROVE TypeOK'
    BY <1>1, <1>2, <1>4, ChangeType DEF DeleteRule
<1> QED
    BY <1>3, <1>4

\* One more task that has failed r times.
LEMMA TasksType ==
    ASSUME TypeOK, NEW r \in 0 .. MaxRetry, NEW n \in Nat
    PROVE  [tasks EXCEPT ![r] = n] \in [0 .. MaxRetry -> Nat]
BY DEF TypeOK

LEMMA RetryType ==
    ASSUME TypeOK, NEW p \in Procs, Retry(p)
    PROVE  tasks' \in [0 .. MaxRetry -> Nat]
<1>1. CASE p \in Workers /\ retried[p] < MaxRetry
    <2>1. retried[p] \in 0 .. MaxRetry
        BY <1>1 DEF TypeOK
    <2>2. retried[p] + 1 \in 0 .. MaxRetry
        BY <1>1, <2>1, BoundsAssumption
    <2>3. tasks[retried[p] + 1] + 1 \in Nat
        BY <2>2 DEF TypeOK
    <2>4. tasks' = [tasks EXCEPT ![retried[p] + 1] = tasks[retried[p] + 1] + 1]
        BY <1>1 DEF Retry
    <2> QED
        BY <2>2, <2>3, <2>4, TasksType
<1>2. CASE ~(p \in Workers /\ retried[p] < MaxRetry)
    BY <1>2 DEF Retry, TypeOK
<1> QED
    BY <1>1, <1>2

\* The requests after their first statement.
LEMMA RequestType ==
    ASSUME TypeOK, NEW c \in Clients,
           \/ PutList(c) \/ Invalidate(c) \/ SetQueued(c) \/ Enqueue(c) \/ Abort(c)
           \/ LookupRules(c) \/ CacheRules(c)
    PROVE  TypeOK'
<1>1. c \in Procs
    BY DEF Procs
<1>2. {"idle", "putList", "invalidate", "forget", "queued", "enqueue", "process",
       "rules", "cache", "insert"} \subseteq Stages
    BY DEF Stages, Changing, Ingesting, Rewriting
<1>3. CASE PutList(c)
    BY <1>1, <1>2, <1>3, GotoType
    DEF PutList, Step, TypeOK, table, cache, heartbeats, progress, scan
<1>4. CASE Invalidate(c)
    BY <1>1, <1>2, <1>4, GotoType, NoRulesType
    DEF Invalidate, Step, TypeOK, table, heartbeats, progress, scan
<1>5. CASE SetQueued(c)
    <2>1. "Queued" \in Statuses /\ -1 \in Int
        BY DEF Statuses
    <2> QED
        BY <1>1, <1>2, <1>5, <2>1, GotoType
        DEF SetQueued, Step, TypeOK, table, cache, heartbeats, scan
<1>6. CASE Enqueue(c)
    <2>1. pc' \in [Procs -> Stages]
        BY <1>1, <1>2, <1>6, GotoType DEF Enqueue, Step
    <2>2. tasks' \in [0 .. MaxRetry -> Nat]
        <3>1. 0 \in 0 .. MaxRetry
            BY BoundsAssumption
        <3>2. tasks[0] \in Nat /\ tasks[0] + 1 \in Nat
            <4>1. tasks[0] \in Nat
                BY <3>1 DEF TypeOK
            <4> QED
                BY <4>1
        <3>3. [tasks EXCEPT ![0] = tasks[0] + 1] \in [0 .. MaxRetry -> Nat]
            BY <3>1, <3>2, TasksType
        <3>4. \/ tasks' = [tasks EXCEPT ![0] = tasks[0] + 1]
              \/ tasks' = tasks
            BY <1>6 DEF Enqueue
        <3> QED
            BY <3>3, <3>4 DEF TypeOK
    <2> QED
        BY <1>6, <2>1, <2>2
        DEF Enqueue, TypeOK, table, cache, heartbeats, progress, scan
<1>7. CASE Abort(c)
    <2>1. "Aborted" \in Statuses /\ -1 \in Int
        BY DEF Statuses
    <2> QED
        BY <1>7, <2>1 DEF Abort, TypeOK, table, cache, heartbeats, scan
<1>8. CASE LookupRules(c)
    <2>1. pc' \in [Procs -> Stages]
        BY <1>1, <1>2, <1>8, GotoType DEF LookupRules
    <2>2. seen' \in [Procs -> Prepared]
        BY <1>8 DEF LookupRules, TypeOK
    <2> QED
        BY <1>8, <2>1, <2>2
        DEF LookupRules, TypeOK, table, cache, heartbeats, progress, scan
<1>9. CASE CacheRules(c)
    <2>1. cached' \in Prepared /\ raced' \in BOOLEAN
        BY <1>1, <1>9 DEF CacheRules, TypeOK
    <2> QED
        BY <1>1, <1>2, <1>9, <2>1, GotoType
        DEF CacheRules, Step, TypeOK, table, heartbeats, progress, scan
<1> QED
    BY <1>3, <1>4, <1>5, <1>6, <1>7, <1>8, <1>9

LEMMA ReceiveType ==
    ASSUME TypeOK, NEW c \in Clients, NEW h \in Heartbeats,
           NEW first \in {"apply", "bulkRules"}, Receive(c, h, first)
    PROVE  TypeOK'
<1>1. c \in Procs /\ first \in Stages
    BY DEF Procs, Stages, Ingesting
<1>2. item' \in [Clients -> Heartbeats]
    BY DEF Receive, TypeOK
<1> QED
    BY <1>1, <1>2, GotoType
    DEF Receive, Step, TypeOK, table, cache, heartbeats, progress, scan

LEMMA EvictType == ASSUME TypeOK, Evict PROVE TypeOK'
BY NoRulesType DEF Evict, TypeOK, table, heartbeats, progress, scan

LEMMA InsertType ==
    ASSUME TypeOK, NEW c \in Clients, Insert(c)
    PROVE  TypeOK'
<1> DEFINE h == item[c]
           content == Apply(seen[c].rules, Sent[h])
<1>1. c \in Procs /\ h \in Heartbeats /\ Sent[h] \in Contents
    BY ContentsAssumption DEF Procs, TypeOK
<1>2. content \in Contents \cup {Deleted}
    <2>1. seen[c].rules \in SUBSET Rules
        BY <1>1 DEF TypeOK, Prepared
    <2> QED
        BY <1>1, <2>1, ApplyAssumption
<1>3. \/ UNCHANGED heartbeats
      \/ /\ content # Deleted
         /\ stored' = [stored EXCEPT ![h] = content]
         /\ late' = late \cup {h} \/ late' = late \ {h}
    BY DEF Insert
<1>4. stored' \in Rows /\ late' \subseteq Heartbeats
    <2>1. stored \in [Heartbeats -> Contents \cup {Absent}] /\ late \subseteq Heartbeats
        BY DEF TypeOK, Rows
    <2> HIDE DEF content, h
    <2>2. CASE UNCHANGED heartbeats
        BY <2>1, <2>2 DEF Rows, heartbeats
    <2>3. CASE /\ content # Deleted
               /\ stored' = [stored EXCEPT ![h] = content]
               /\ late' = late \cup {h} \/ late' = late \ {h}
        <3>1. content \in Contents \cup {Absent}
            BY <1>2, <2>3
        <3>2. stored' \in Rows
            BY <1>1, <2>1, <2>3, <3>1 DEF Rows
        <3> QED
            BY <1>1, <2>1, <2>3, <3>2
    <2> QED
        BY <1>3, <2>2, <2>3
<1>5. Leave(c)
    BY DEF Insert
<1> QED
    BY <1>1, <1>4, <1>5, LeaveType DEF Insert, TypeOK, table, cache, progress

LEMMA TakeTaskType ==
    ASSUME TypeOK, NEW w \in Workers, NEW r \in 0 .. MaxRetry, TakeTask(w, r)
    PROVE  TypeOK'
<1>1. w \in Procs /\ "start" \in Stages
    BY DEF Procs, Stages, Rewriting
<1>2. tasks[r] \in Nat /\ tasks[r] > 0
    BY DEF TakeTask, TypeOK
<1>3. tasks[r] - 1 \in Nat
    BY <1>2
<1>4. tasks' \in [0 .. MaxRetry -> Nat]
    BY <1>3, TasksType DEF TakeTask
<1>5. retried' \in [Workers -> 0 .. MaxRetry]
    BY DEF TakeTask, TypeOK
<1> QED
    BY <1>1, <1>4, <1>5, GotoType
    DEF TakeTask, Step, TypeOK, table, cache, heartbeats, progress, scan

\* The statements of a rewrite that write nothing but the progress.
LEMMA BeginType ==
    ASSUME TypeOK, NEW p \in Procs,
           \/ CheckProgress(p) \/ SetProcessing(p) \/ BeginTx(p) \/ OpenQuery(p)
           \/ EndScan(p) \/ After(p)
    PROVE  TypeOK'
<1>1. {"idle", "process", "list", "query", "scan", "commit", "complete"} \subseteq Stages
    BY DEF Stages, Rewriting, Applying
<1>2. CASE CheckProgress(p)
    <2>1. pc' \in [Procs -> Stages]
        BY <1>1, <1>2, GotoType DEF CheckProgress
    <2> QED
        BY <1>2, <2>1
        DEF CheckProgress, TypeOK, table, cache, heartbeats, progress, scan
<1>3. CASE SetProcessing(p)
    <2>1. pc' \in [Procs -> Stages]
        BY <1>1, <1>3, GotoType DEF SetProcessing
    <2>2. status' \in Statuses /\ done' \in Int
        BY <1>3 DEF SetProcessing, TypeOK, progress, Statuses
    <2> QED
        BY <1>3, <2>1, <2>2
        DEF SetProcessing, TypeOK, table, cache, heartbeats, scan
<1>4. CASE BeginTx(p)
    <2>1. held' \subseteq Procs \X {"tx", "query"}
        BY <1>4 DEF BeginTx, TypeOK
    <2> QED
        BY <1>1, <1>4, <2>1, GotoType
        DEF BeginTx, Step, TypeOK, table, cache, heartbeats, progress
<1>5. CASE OpenQuery(p)
    <2>1. held' \subseteq Procs \X {"tx", "query"}
        BY <1>5 DEF OpenQuery, TypeOK
    <2>2. snap' \in [Procs -> Rows]
        BY <1>5 DEF OpenQuery, TypeOK
    <2> QED
        BY <1>1, <1>5, <2>1, <2>2, GotoType
        DEF OpenQuery, Step, TypeOK, table, cache, heartbeats, progress
<1>6. CASE EndScan(p)
    <2>1. held' \subseteq Procs \X {"tx", "query"}
        BY <1>6 DEF EndScan, TypeOK
    <2> QED
        BY <1>1, <1>6, <2>1, GotoType
        DEF EndScan, Step, TypeOK, table, cache, heartbeats, progress
<1>7. CASE After(p)
    BY <1>1, <1>7, GotoType
    DEF After, Step, TypeOK, table, cache, heartbeats, progress, scan
<1> QED
    BY <1>2, <1>3, <1>4, <1>5, <1>6, <1>7

LEMMA ScanRowsType ==
    ASSUME TypeOK, NEW p \in Procs, ScanRows(p)
    PROVE  TypeOK'
<1>1. CASE Leave(p)
    BY <1>1, LeaveType DEF ScanRows, TypeOK, table, cache, heartbeats, progress
<1>2. CASE /\ Goto(p, "fail") /\ held' = {x \in held : x[1] # p}
           /\ UNCHANGED <<seen, snap, checks>>
    <2>1. "fail" \in Stages
        BY DEF Stages, Rewriting
    <2>2. held' \subseteq Procs \X {"tx", "query"}
        BY <1>2 DEF TypeOK
    <2> QED
        BY <1>2, <2>1, <2>2, GotoType
        DEF ScanRows, TypeOK, table, cache, heartbeats, progress
<1>3. CASE checks' = [checks EXCEPT ![p] = @ + 1] /\ UNCHANGED <<pc, seen, snap, held>>
    <2>1. checks' \in [Procs -> Nat]
        BY <1>3 DEF TypeOK
    <2> QED
        BY <1>3, <2>1 DEF ScanRows, TypeOK, table, cache, heartbeats, progress
<1> QED
    BY <1>1, <1>2, <1>3 DEF ScanRows

\* What a rewrite makes of a heartbeat it has found.
LEMMA NewType ==
    ASSUME TypeOK, NEW p \in Procs, NEW h \in Found(p)
    PROVE  /\ h \in Heartbeats /\ snap[p][h] \in Contents
           /\ New(p, h) \in Contents \cup {Deleted}
<1>1. h \in Heartbeats /\ snap[p][h] \in Contents
    BY DEF Found, TypeOK, Rows
<1>2. seen[p].rules \in SUBSET Rules
    BY DEF TypeOK, Prepared
<1> QED
    BY <1>1, <1>2, ApplyAssumption DEF New

LEMMA RewrittenType ==
    ASSUME TypeOK, NEW p \in Procs, NEW order
    PROVE  Rewritten(p, order) \in Rows
<1>1. stored \in Rows
    BY DEF TypeOK
<1>2. \A h \in Changed(p) : New(p, h) \in Contents \cup {Deleted}
    BY NewType DEF Changed
<1>3. ASSUME NEW h \in Heartbeats
      PROVE  Rewritten(p, order)[h] \in Contents \cup {Absent}
    <2>1. stored[h] \in Contents \cup {Absent}
        BY <1>1 DEF Rows
    <2> QED
        BY <1>2, <2>1 DEF Rewritten
<1> QED
    BY <1>3 DEF Rewritten, Rows

LEMMA CommitType ==
    ASSUME TypeOK, NEW p \in Procs, Commit(p)
    PROVE  TypeOK'
<1>1. "after" \in Stages /\ "fail" \in Stages
    BY DEF Stages, Rewriting, Applying
<1>2. pc' \in [Procs -> Stages]
    BY <1>1, GotoType DEF Commit
<1>3. stored' \in Rows
    BY RewrittenType DEF Commit, heartbeats, TypeOK
<1>4. late' \subseteq Heartbeats
    BY DEF Commit, heartbeats, TypeOK, Changed, Found
<1>5. held' \subseteq Procs \X {"tx", "query"}
    BY DEF Commit, TypeOK
<1> QED
    BY <1>2, <1>3, <1>4, <1>5 DEF Commit, TypeOK, table, cache, progress

LEMMA EndType ==
    ASSUME TypeOK, NEW p \in Procs, Complete(p) \/ Recompute(p) \/ Fail(p)
    PROVE  TypeOK'
<1>1. CASE Complete(p)
    <2>1. seen[p].version \in Int
        BY DEF TypeOK, Prepared
    <2>2. status' \in Statuses /\ done' \in Int
        BY <1>1, <2>1 DEF Complete, TypeOK, progress, Statuses
    <2>3. "recompute" \in Stages
        BY DEF Stages, Rewriting
    <2>4. CASE Leave(p)
        BY <1>1, <2>2, <2>4, LeaveType DEF Complete, TypeOK, table, cache, heartbeats
    <2>5. CASE Goto(p, "recompute") /\ UNCHANGED <<seen, scan>>
        BY <1>1, <2>2, <2>3, <2>5, GotoType
        DEF Complete, TypeOK, table, cache, heartbeats, scan
    <2> QED
        BY <1>1, <2>4, <2>5 DEF Complete
<1>2. CASE Recompute(p)
    BY <1>2, LeaveType DEF Recompute, TypeOK, table, cache, heartbeats, progress
<1>3. CASE Fail(p)
    <2>1. status' \in Statuses /\ done' \in Int
        BY <1>3 DEF Fail, TypeOK, progress, Statuses
    <2>2. Retry(p) /\ Leave(p)
        BY <1>3 DEF Fail
    <2> QED
        BY <1>3, <2>1, <2>2, LeaveType, RetryType
        DEF Fail, TypeOK, table, cache, heartbeats
<1> QED
    BY <1>1, <1>2, <1>3

LEMMA StepFailsType ==
    ASSUME TypeOK, NEW p \in Procs, StepFails(p)
    PROVE  TypeOK'
<1>1. faults' \in Nat /\ raced' \in BOOLEAN
    BY DEF StepFails, TypeOK
<1>2. CASE /\ Goto(p, "fail") /\ held' = {x \in held : x[1] # p}
           /\ UNCHANGED <<tasks, seen, snap, checks>>
    <2>1. "fail" \in Stages
        BY DEF Stages, Rewriting
    <2>2. held' \subseteq Procs \X {"tx", "query"}
        BY <1>2 DEF TypeOK
    <2> QED
        BY <1>1, <1>2, <2>1, <2>2, GotoType
        DEF StepFails, TypeOK, table, heartbeats, progress
<1>3. CASE Retry(p) /\ Leave(p)
    BY <1>1, <1>3, LeaveType, RetryType DEF StepFails, TypeOK, table, heartbeats, progress
<1> QED
    BY <1>2, <1>3 DEF StepFails

LEMMA RequestStepType ==
    ASSUME TypeOK, NEW c \in Clients, RequestStep(c)
    PROVE  TypeOK'
<1>1. c \in Procs
    BY DEF Procs
<1>2. {"ruleDestinations", "cache", "bulkDestinations", "insert"} \subseteq Stages
    BY DEF Stages, Ingesting
<1>3. CASE \/ PutList(c) \/ Invalidate(c) \/ SetQueued(c) \/ Enqueue(c)
           \/ LookupRules(c) \/ CacheRules(c)
    BY <1>3, RequestType
<1>4. CASE Insert(c)
    BY <1>4, InsertType
<1>5. CASE \/ ListRules(c, "rules", "ruleDestinations")
           \/ ListDestinations(c, "ruleDestinations", "cache")
           \/ ListRules(c, "bulkRules", "bulkDestinations")
           \/ ListDestinations(c, "bulkDestinations", "insert")
    BY <1>1, <1>2, <1>5, ListType
<1> QED
    BY <1>3, <1>4, <1>5 DEF RequestStep

LEMMA RewriteStepType ==
    ASSUME TypeOK, NEW p \in Procs, RewriteStep(p)
    PROVE  TypeOK'
<1>1. {"destinations", "begin"} \subseteq Stages
    BY DEF Stages, Rewriting, Applying
<1>2. CASE \/ ListRules(p, "list", "destinations")
           \/ ListDestinations(p, "destinations", "begin")
    BY <1>1, <1>2, ListType
<1>3. CASE SetProcessing(p) \/ BeginTx(p) \/ OpenQuery(p) \/ EndScan(p) \/ After(p)
    BY <1>3, BeginType
<1>4. CASE ScanRows(p) \/ Commit(p) \/ Complete(p) \/ Fail(p)
    BY <1>4, ScanRowsType, CommitType, EndType
<1> QED
    BY <1>2, <1>3, <1>4 DEF RewriteStep

LEMMA StartType == ASSUME TypeOK, Start PROVE TypeOK'
<1>1. ASSUME NEW c \in Clients,
             \/ \E S \in PutSets : PutRules(c, S)
             \/ \E r \in rules.rules : DeleteRule(c, r)
      PROVE  TypeOK'
    BY <1>1, ChangingType
<1>2. ASSUME NEW c \in Clients, Abort(c) PROVE TypeOK'
    BY <1>2, RequestType
<1>3. ASSUME NEW c \in Clients, NEW h \in Heartbeats,
             NEW first \in {"apply", "bulkRules"}, Receive(c, h, first)
      PROVE  TypeOK'
    BY <1>3, ReceiveType
<1> QED
    BY <1>1, <1>2, <1>3 DEF Start

LEMMA TypeNext == TypeOK /\ [Next]_vars => TypeOK'
<1> SUFFICES ASSUME TypeOK, [Next]_vars PROVE TypeOK'
    OBVIOUS
<1>1. CASE Start
    BY <1>1, StartType
<1>2. CASE Evict
    BY <1>2, EvictType
<1>3. ASSUME NEW p \in Procs, Progress(p) \/ StepFails(p) PROVE TypeOK'
    <2>1. CASE p \in Clients /\ RequestStep(p)
        BY <2>1, RequestStepType
    <2>2. CASE p \in Workers /\ (CheckProgress(p) \/ Recompute(p))
        BY <2>2, BeginType, EndType
    <2>3. CASE RewriteStep(p)
        BY <2>3, RewriteStepType
    <2>4. CASE StepFails(p)
        BY <2>4, StepFailsType
    <2> QED
        BY <1>3, <2>1, <2>2, <2>3, <2>4 DEF Progress
<1>4. ASSUME NEW w \in Workers, NEW r \in 0 .. MaxRetry, TakeTask(w, r)
      PROVE  TypeOK'
    BY <1>4, TakeTaskType
<1>5. CASE UNCHANGED vars
    BY <1>5 DEF vars, table, cache, heartbeats, progress, scan, TypeOK
<1> QED
    BY <1>1, <1>2, <1>3, <1>4, <1>5 DEF Next

\* The types of all variables, whatever the requests, rewrites and faults do.
THEOREM TypeCorrect == Spec => []TypeOK
<1>1. TypeOK /\ [Next]_vars => TypeOK'
    BY TypeNext
<1> QED
    BY TypeInit, <1>1, PTL DEF Spec

-----------------------------------------------------------------------------
(* What a completed rewrite has done.                                       *)

\* The heartbeat is gone, or carries what the present rules made of a content.
Fresh(h) ==
    stored[h] = Absent \/ \E c \in Contents : stored[h] = Apply(rules.rules, c)
Clean == \A h \in Heartbeats \ late : Fresh(h)

\* Rules with the present version are the present rules.
Reads(S) ==
    /\ S.version <= rules.version
    /\ S.version = rules.version => S.gen = rules.gen /\ S.rules = rules.rules

\* A rewrite by the present rules: while it scans, each heartbeat is still the
\* one its query returned unless a request or another rewrite wrote it; once it
\* has committed, every heartbeat is rewritten.
RewriteOK(p) ==
    seen[p].version = rules.version =>
        /\ pc[p] \in {"scan", "commit"} =>
               \A h \in Heartbeats \ late : Fresh(h) \/ stored[h] = snap[p][h]
        /\ pc[p] \in {"after", "complete"} => Clean

Safe ==
    /\ rules.version >= 0
    /\ Reads(cached)
    /\ \A p \in Procs : Reads(seen[p])
    /\ \A p \in Procs : RewriteOK(p)
    /\ done <= rules.version
    /\ status = "Completed" /\ done = rules.version => Clean

IInv == TypeOK /\ Safe

LEMMA NoRulesReads == ASSUME TypeOK, Safe PROVE Reads(NoRules)
BY DEF Reads, NoRules, Safe, TypeOK, Prepared

\* The steps of no process in particular.
LEMMA StillKeeps ==
    ASSUME TypeOK, Safe, UNCHANGED <<rules, stored, late, pc, seen, snap>>,
           cached' = cached \/ cached' = NoRules,
           UNCHANGED <<status, done>> \/ done' = -1
    PROVE  Safe'
<1>1. Reads(cached)'
    BY NoRulesReads DEF Safe, Reads
<1>2. \A p \in Procs : Reads(seen[p])'
    BY DEF Safe, Reads
<1>3. Clean' <=> Clean
    BY DEF Clean, Fresh
<1>4. \A p \in Procs : RewriteOK(p)'
    BY <1>3 DEF Safe, RewriteOK, Fresh
<1>5. rules'.version >= 0
    BY DEF Safe
<1>6. /\ done' <= rules'.version
      /\ status' = "Completed" /\ done' = rules'.version => Clean'
    BY <1>3 DEF Safe, progress, TypeOK, Prepared
<1> QED
    BY <1>1, <1>2, <1>4, <1>5, <1>6 DEF Safe

\* A step of p that writes no heartbeat and ends at a stage of which RewriteOK
\* asks nothing.
LEMMA QuietKeeps ==
    ASSUME TypeOK, Safe, NEW p \in Procs,
           NEW stage \in Stages \ {"scan", "commit", "after", "complete"}, Goto(p, stage),
           UNCHANGED <<rules, stored, late>>,
           \A q \in Procs \ {p} : seen'[q] = seen[q] /\ snap'[q] = snap[q],
           Reads(seen'[p]),
           cached' = cached \/ cached' = NoRules \/ cached' = seen[p],
           UNCHANGED <<status, done>> \/ done' = -1
               \/ (done' = seen[p].version /\ pc[p] = "complete")
    PROVE  Safe'
<1>1. Reads(cached)'
    <2>1. Reads(cached')
        BY NoRulesReads DEF Safe
    <2> QED
        BY <2>1 DEF Reads
<1>2. \A q \in Procs : Reads(seen[q])'
    <2>1. Reads(seen[p])'
        BY DEF Reads
    <2>2. \A q \in Procs \ {p} : Reads(seen[q])'
        BY DEF Safe, Reads
    <2> QED
        BY <2>1, <2>2
<1>3. Clean' <=> Clean
    BY DEF Clean, Fresh
<1>4. \A q \in Procs : RewriteOK(q)'
    <2>1. pc'[p] = stage /\ \A q \in Procs \ {p} : pc'[q] = pc[q]
        BY DEF Goto, TypeOK
    <2>2. RewriteOK(p)'
        BY <2>1 DEF RewriteOK
    <2>3. ASSUME NEW q \in Procs \ {p} PROVE RewriteOK(q)'
        BY <1>3, <2>1 DEF Safe, RewriteOK, Fresh
    <2> QED
        BY <2>2, <2>3
<1>5. /\ done' <= rules'.version
      /\ status' = "Completed" /\ done' = rules'.version => Clean'
    <2>1. CASE UNCHANGED <<status, done>> \/ done' = -1
        BY <1>3, <2>1 DEF Safe, progress, TypeOK, Prepared
    <2>2. CASE done' = seen[p].version /\ pc[p] = "complete"
        BY <1>3, <2>2 DEF Safe, RewriteOK, Reads
    <2> QED
        BY <2>1, <2>2
<1>6. rules'.version >= 0
    BY DEF Safe
<1> QED
    BY <1>1, <1>2, <1>4, <1>5, <1>6 DEF Safe

\* What a write may leave: a heartbeat that counts as rewritten afterwards is
\* fresh, or counted before and is untouched.
WritesWell ==
    \A h \in Heartbeats \ late' :
        Fresh(h)' \/ (h \notin late /\ stored'[h] = stored[h])

\* A step of p that writes heartbeats.
LEMMA WriteKeeps ==
    ASSUME TypeOK, Safe, NEW p \in Procs, UNCHANGED <<rules, cached, status, done>>,
           WritesWell,
           \A q \in Procs \ {p} : /\ pc'[q] = pc[q] /\ seen'[q] = seen[q]
                                  /\ snap'[q] = snap[q],
           Reads(seen'[p]), RewriteOK(p)'
    PROVE  Safe'
<1>1. Reads(cached)'
    BY DEF Safe, Reads
<1>2. \A q \in Procs : Reads(seen[q])'
    <2>1. Reads(seen[p])'
        BY DEF Reads
    <2>2. \A q \in Procs \ {p} : Reads(seen[q])'
        BY DEF Safe, Reads
    <2> QED
        BY <2>1, <2>2
<1>3. Clean => Clean'
    BY DEF Clean, Fresh, WritesWell
<1>4. \A q \in Procs : RewriteOK(q)'
    <2>1. ASSUME NEW q \in Procs \ {p} PROVE RewriteOK(q)'
        <3>1. RewriteOK(q)
            BY DEF Safe
        <3> QED
            BY <1>3, <3>1 DEF RewriteOK, WritesWell, Fresh
    <2> QED
        BY <2>1
<1>5. /\ done' <= rules'.version
      /\ status' = "Completed" /\ done' = rules'.version => Clean'
    BY <1>3 DEF Safe, progress
<1>6. rules'.version >= 0
    BY DEF Safe
<1> QED
    BY <1>1, <1>2, <1>4, <1>5, <1>6 DEF Safe

LEMMA LeaveOthers ==
    ASSUME TypeOK, NEW p \in Procs, Leave(p)
    PROVE  /\ Goto(p, "idle")
           /\ \A q \in Procs \ {p} : seen'[q] = seen[q] /\ snap'[q] = snap[q]
           /\ seen'[p] = NoRules
BY DEF Leave, TypeOK

\* A process that leaves without writing heartbeats.
LEMMA LeaveKeeps ==
    ASSUME TypeOK, Safe, NEW p \in Procs, Leave(p),
           UNCHANGED <<rules, cached, stored, late>>,
           UNCHANGED <<status, done>> \/ done' = -1
               \/ (done' = seen[p].version /\ pc[p] = "complete")
    PROVE  Safe'
<1>1. "idle" \in Stages \ {"scan", "commit", "after", "complete"}
    BY DEF Stages
<1>2. Reads(seen'[p])
    BY NoRulesReads, LeaveOthers
<1> QED
    BY <1>1, <1>2, LeaveOthers, QuietKeeps

\* A process that moves on, having read and written nothing.
LEMMA MoveKeeps ==
    ASSUME TypeOK, Safe, NEW p \in Procs,
           NEW stage \in Stages \ {"scan", "commit", "after", "complete"}, Goto(p, stage),
           UNCHANGED <<rules, stored, late, seen, snap>>,
           cached' = cached \/ cached' = NoRules \/ cached' = seen[p],
           UNCHANGED <<status, done>> \/ done' = -1
               \/ (done' = seen[p].version /\ pc[p] = "complete")
    PROVE  Safe'
<1>1. Reads(seen'[p])
    BY DEF Safe
<1> QED
    BY <1>1, QuietKeeps

\* Listing the rules, then keeping those whose destinations are still there.
LEMMA ListKeeps ==
    ASSUME TypeOK, Safe, NEW p \in Procs, NEW from,
           NEW to \in Stages \ {"scan", "commit", "after", "complete"},
           ListRules(p, from, to) \/ ListDestinations(p, from, to)
    PROVE  Safe'
<1>1. /\ Goto(p, to) /\ UNCHANGED <<rules, stored, late>>
      /\ cached' = cached /\ UNCHANGED <<status, done>>
      /\ \A q \in Procs \ {p} : seen'[q] = seen[q] /\ snap'[q] = snap[q]
    BY DEF ListRules, ListDestinations, Step, table, heartbeats, cache, scan, progress, TypeOK
<1>2. CASE ListRules(p, from, to)
    <2>1. seen'[p] = rules
        BY <1>2 DEF ListRules, TypeOK
    <2>2. Reads(seen'[p])
        BY <2>1 DEF Reads, TypeOK, Prepared
    <2> QED
        BY <1>1, <2>2, QuietKeeps
<1>3. CASE ListDestinations(p, from, to)
    <2> DEFINE kept == {r \in seen[p].rules :
                           \/ r.to = Deleted
                           \/ seen[p].gen = rules.gen /\ r \in rules.rules}
    <2>1. Reads(seen[p])
        BY DEF Safe
    <2>2. seen[p] \in Prepared
        BY DEF TypeOK
    <2>3. seen'[p] = [seen[p] EXCEPT !.rules = kept]
        BY <1>3 DEF ListDestinations, TypeOK
    <2>4. seen[p].version = rules.version => kept = seen[p].rules
        BY <2>1 DEF Reads
    <2>5. Reads(seen'[p])
        <3> HIDE DEF kept
        <3> QED
            BY <2>1, <2>2, <2>3, <2>4 DEF Reads, Prepared
    <2> QED
        BY <1>1, <2>5, QuietKeeps
<1> QED
    BY <1>2, <1>3

\* A change makes a version no process has read.
LEMMA ChangeKeeps ==
    ASSUME TypeOK, Safe, NEW c \in Clients, NEW gen, NEW S, NEW stage,
           Change(c, gen, S, stage)
    PROVE  Safe'
<1>1. rules.version \in Int /\ rules'.version = rules.version + 1
    BY DEF Change, TypeOK, Prepared
<1>2. UNCHANGED <<cached, seen, status, done>>
    BY DEF Change, cache, progress
<1>3. cached.version \in Int /\ \A p \in Procs : seen[p].version \in Int
    BY DEF TypeOK, Prepared
<1>4. Reads(cached)' /\ cached'.version # rules'.version
    BY <1>1, <1>2, <1>3 DEF Safe, Reads
<1>5. ASSUME NEW p \in Procs
      PROVE  Reads(seen[p])' /\ seen'[p].version # rules'.version
    BY <1>1, <1>2, <1>3 DEF Safe, Reads
<1>6. \A p \in Procs : RewriteOK(p)'
    BY <1>5 DEF RewriteOK
<1>7. done' <= rules'.version /\ done' # rules'.version
    BY <1>1, <1>2 DEF Safe, TypeOK
<1> QED
    BY <1>1, <1>4, <1>5, <1>6, <1>7 DEF Safe

LEMMA RequestKeeps ==
    ASSUME TypeOK, Safe, NEW c \in Clients,
           \/ PutList(c) \/ Invalidate(c) \/ SetQueued(c) \/ Enqueue(c)
           \/ LookupRules(c) \/ CacheRules(c)
    PROVE  Safe'
<1>1. c \in Procs
    BY DEF Procs
<1>2. {"idle", "putList", "invalidate", "queued", "enqueue", "process", "rules", "insert"}
        \subseteq Stages \ {"scan", "commit", "after", "complete"}
    BY DEF Stages, Changing, Ingesting, Rewriting
<1>3. CASE PutList(c)
    BY <1>1, <1>2, <1>3, MoveKeeps DEF PutList, Step, table, cache, heartbeats, scan, progress
<1>4. CASE Invalidate(c)
    BY <1>1, <1>2, <1>4, MoveKeeps DEF Invalidate, Step, table, heartbeats, scan, progress
<1>5. CASE SetQueued(c)
    BY <1>1, <1>2, <1>5, MoveKeeps DEF SetQueued, Step, table, cache, heartbeats, scan, progress
<1>6. CASE Enqueue(c)
    BY <1>1, <1>2, <1>6, MoveKeeps DEF Enqueue, Step, table, cache, heartbeats, scan, progress
<1>7. CASE CacheRules(c)
    BY <1>1, <1>2, <1>7, MoveKeeps DEF CacheRules, Step, table, heartbeats, scan, progress
<1>8. CASE LookupRules(c)
    <2>1. UNCHANGED <<rules, stored, late, cached, status, done, snap>>
        BY <1>8 DEF LookupRules, table, cache, heartbeats, scan, progress
    <2>2. CASE cached = NoRules
        BY <1>1, <1>2, <1>8, <2>1, <2>2, MoveKeeps DEF LookupRules
    <2>3. CASE cached # NoRules
        <3>1. Goto(c, "insert") /\ seen' = [seen EXCEPT ![c] = cached]
            BY <1>8, <2>3 DEF LookupRules
        <3>2. Reads(seen'[c]) /\ \A q \in Procs \ {c} : seen'[q] = seen[q]
            BY <1>1, <3>1 DEF Safe, TypeOK
        <3> QED
            BY <1>1, <1>2, <2>1, <3>1, <3>2, QuietKeeps
    <2> QED
        BY <2>2, <2>3
<1> QED
    BY <1>3, <1>4, <1>5, <1>6, <1>7, <1>8

LEMMA InsertKeeps ==
    ASSUME TypeOK, Safe, NEW c \in Clients, Insert(c)
    PROVE  Safe'
<1> DEFINE h == item[c]
           content == Apply(seen[c].rules, Sent[h])
<1>1. c \in Procs /\ h \in Heartbeats /\ Sent[h] \in Contents
    BY ContentsAssumption DEF Procs, TypeOK
<1>2. Leave(c) /\ UNCHANGED <<rules, cached, status, done>>
    BY DEF Insert, table, cache, progress
<1>3. CASE UNCHANGED heartbeats
    BY <1>1, <1>2, <1>3, LeaveKeeps DEF heartbeats
<1>4. CASE /\ stored' = [stored EXCEPT ![h] = content]
           /\ late' = IF seen[c].version # rules.version
                      THEN late \cup {h} ELSE late \ {h}
    <2>1. WritesWell
        <3>1. ASSUME NEW g \in Heartbeats \ late', g # h
              PROVE  g \notin late /\ stored'[g] = stored[g]
            BY <1>1, <1>4, <3>1 DEF TypeOK, Rows
        <3>2. ASSUME NEW g \in Heartbeats \ late', g = h PROVE Fresh(g)'
            <4>1. seen[c].version = rules.version
                BY <1>4, <3>2
            <4>2. seen[c].rules = rules.rules
                BY <1>1, <4>1 DEF Safe, Reads
            <4>3. stored'[g] = content
                BY <1>1, <1>4, <3>2 DEF TypeOK, Rows
            <4>4. stored'[g] = Apply(rules'.rules, Sent[g])
                BY <1>2, <3>2, <4>2, <4>3
            <4> QED
                BY <1>1, <3>2, <4>4 DEF Fresh
        <3> HIDE DEF h
        <3> QED
            BY <3>1, <3>2 DEF WritesWell
    <2>2. /\ \A q \in Procs \ {c} : /\ pc'[q] = pc[q] /\ seen'[q] = seen[q]
                                    /\ snap'[q] = snap[q]
          /\ pc'[c] = "idle" /\ seen'[c] = NoRules
        BY <1>1, <1>2, LeaveOthers DEF Goto, TypeOK
    <2>3. Reads(seen'[c]) /\ RewriteOK(c)'
        BY <2>2, NoRulesReads DEF RewriteOK
    <2> QED
        BY <1>1, <1>2, <2>1, <2>2, <2>3, WriteKeeps
<1> QED
    BY <1>3, <1>4 DEF Insert

LEMMA TakeTaskKeeps ==
    ASSUME TypeOK, Safe, NEW w \in Workers, NEW r, TakeTask(w, r)
    PROVE  Safe'
<1>1. w \in Procs /\ "start" \in Stages \ {"scan", "commit", "after", "complete"}
    BY DEF Procs, Stages, Rewriting
<1> QED
    BY <1>1, MoveKeeps
    DEF TakeTask, Step, table, cache, heartbeats, progress, scan

\* The stages of a rewrite before its scan, and its ends.
LEMMA BeginKeeps ==
    ASSUME TypeOK, Safe, NEW p \in Procs,
           CheckProgress(p) \/ SetProcessing(p) \/ BeginTx(p)
    PROVE  Safe'
<1>1. {"idle", "process", "list", "query"}
        \subseteq Stages \ {"scan", "commit", "after", "complete"}
    BY DEF Stages, Rewriting, Applying
<1>2. CASE CheckProgress(p)
    BY <1>1, <1>2, MoveKeeps
    DEF CheckProgress, table, cache, heartbeats, progress, scan
<1>3. CASE SetProcessing(p)
    BY <1>1, <1>3, MoveKeeps
    DEF SetProcessing, table, cache, heartbeats, progress, scan
<1>4. CASE BeginTx(p)
    BY <1>1, <1>4, MoveKeeps
    DEF BeginTx, Step, table, cache, heartbeats, progress
<1> QED
    BY <1>2, <1>3, <1>4

LEMMA EndKeeps ==
    ASSUME TypeOK, Safe, NEW p \in Procs, Complete(p) \/ Recompute(p) \/ Fail(p)
    PROVE  Safe'
<1>1. CASE Complete(p)
    <2>1. /\ UNCHANGED <<rules, cached, stored, late>>
          /\ UNCHANGED <<status, done>> \/ (done' = seen[p].version /\ pc[p] = "complete")
        BY <1>1 DEF Complete, table, cache, heartbeats, progress
    <2>2. CASE Leave(p)
        BY <2>1, <2>2, LeaveKeeps
    <2>3. CASE Goto(p, "recompute") /\ UNCHANGED <<seen, scan>>
        <3>1. "recompute" \in Stages \ {"scan", "commit", "after", "complete"}
            BY DEF Stages, Rewriting
        <3> QED
            BY <2>1, <2>3, <3>1, MoveKeeps DEF scan
    <2> QED
        BY <1>1, <2>2, <2>3 DEF Complete
<1>2. CASE Recompute(p)
    BY <1>2, LeaveKeeps DEF Recompute, table, cache, heartbeats, progress
<1>3. CASE Fail(p)
    <2>1. Leave(p) /\ UNCHANGED <<rules, cached, stored, late>>
        BY <1>3 DEF Fail, table, cache, heartbeats
    <2>2. UNCHANGED <<status, done>> \/ done' = -1
        BY <1>3 DEF Fail, progress
    <2> QED
        BY <2>1, <2>2, LeaveKeeps
<1> QED
    BY <1>1, <1>2, <1>3

LEMMA StepFailsKeeps ==
    ASSUME TypeOK, Safe, NEW p \in Procs, StepFails(p)
    PROVE  Safe'
<1>1. UNCHANGED <<rules, cached, stored, late, status, done>>
    BY DEF StepFails, table, heartbeats, progress
<1>2. CASE Goto(p, "fail") /\ UNCHANGED <<seen, snap>>
    <2>1. "fail" \in Stages \ {"scan", "commit", "after", "complete"}
        BY DEF Stages, Rewriting
    <2> QED
        BY <1>1, <1>2, <2>1, MoveKeeps
<1>3. CASE Leave(p)
    BY <1>1, <1>3, LeaveKeeps
<1> QED
    BY <1>2, <1>3 DEF StepFails

\* The query returns the heartbeats as they are.
LEMMA OpenQueryKeeps ==
    ASSUME TypeOK, Safe, NEW p \in Procs, OpenQuery(p)
    PROVE  Safe'
<1>1. UNCHANGED <<rules, cached, status, done, stored, late, seen>>
    BY DEF OpenQuery, table, cache, heartbeats, progress
<1>2. pc' = [pc EXCEPT ![p] = "scan"] /\ snap' = [snap EXCEPT ![p] = stored]
    BY DEF OpenQuery, Step, Goto
<1>3. \A q \in Procs \ {p} : pc'[q] = pc[q] /\ seen'[q] = seen[q] /\ snap'[q] = snap[q]
    BY <1>1, <1>2 DEF TypeOK
<1>4. pc'[p] = "scan" /\ snap'[p] = stored
    BY <1>2 DEF TypeOK
<1>5. RewriteOK(p)'
    BY <1>1, <1>4 DEF RewriteOK
<1>6. WritesWell /\ Reads(seen'[p])
    BY <1>1 DEF WritesWell, Safe
<1> QED
    BY <1>1, <1>3, <1>5, <1>6, WriteKeeps

\* The end of the scan, and what follows the commit, change no heartbeat.
LEMMA StageKeeps ==
    ASSUME TypeOK, Safe, NEW p \in Procs, EndScan(p) \/ After(p)
    PROVE  Safe'
<1>1. UNCHANGED <<rules, cached, status, done, stored, late, seen, snap>>
    BY DEF EndScan, After, table, cache, heartbeats, progress, scan
<1>2. /\ \A q \in Procs \ {p} : pc'[q] = pc[q] /\ seen'[q] = seen[q] /\ snap'[q] = snap[q]
      /\ \/ pc[p] = "scan" /\ pc'[p] = "commit"
         \/ pc[p] = "after" /\ pc'[p] = "complete"
    BY <1>1 DEF EndScan, After, Step, Goto, TypeOK
<1>3. (Clean' <=> Clean) /\ \A h \in Heartbeats : Fresh(h)' <=> Fresh(h)
    BY <1>1 DEF Clean, Fresh
<1>4. RewriteOK(p)'
    BY <1>1, <1>2, <1>3 DEF RewriteOK, Safe
<1>5. WritesWell /\ Reads(seen'[p])
    BY <1>1 DEF WritesWell, Safe
<1> QED
    BY <1>1, <1>2, <1>4, <1>5, WriteKeeps

LEMMA ScanRowsKeeps ==
    ASSUME TypeOK, Safe, NEW p \in Procs, ScanRows(p)
    PROVE  Safe'
<1>1. UNCHANGED <<rules, cached, status, done, stored, late>>
    BY DEF ScanRows, table, cache, heartbeats, progress
<1>2. CASE Leave(p)
    BY <1>1, <1>2, LeaveKeeps
<1>3. CASE Goto(p, "fail") /\ UNCHANGED <<seen, snap>>
    <2>1. "fail" \in Stages \ {"scan", "commit", "after", "complete"}
        BY DEF Stages, Rewriting
    <2> QED
        BY <1>1, <1>3, <2>1, MoveKeeps
<1>4. CASE UNCHANGED <<pc, seen, snap>>
    BY <1>1, <1>4, StillKeeps
<1> QED
    BY <1>2, <1>3, <1>4 DEF ScanRows

\* What a commit leaves of a heartbeat.
LEMMA RewrittenValue ==
    ASSUME TypeOK, NEW p \in Procs, NEW order, NEW h \in Heartbeats
    PROVE  \/ Rewritten(p, order)[h] = Absent
           \/ /\ h \in Changed(p)
              /\ snap[p][h] \in Contents
              /\ Rewritten(p, order)[h] = Apply(seen[p].rules, snap[p][h])
           \/ h \notin Changed(p) /\ Rewritten(p, order)[h] = stored[h]
<1>1. h \in Changed(p) => snap[p][h] \in Contents
    BY NewType DEF Changed
<1> QED
    BY <1>1 DEF Rewritten, New

LEMMA CommitKeeps ==
    ASSUME TypeOK, Safe, NEW p \in Procs, Commit(p)
    PROVE  Safe'
<1>1. UNCHANGED <<rules, cached, status, done, seen, snap>>
    BY DEF Commit, table, cache, progress
<1>2. CASE Goto(p, "fail") /\ UNCHANGED heartbeats
    <2>1. "fail" \in Stages \ {"scan", "commit", "after", "complete"}
        BY DEF Stages, Rewriting
    <2> QED
        BY <1>1, <1>2, <2>1, MoveKeeps DEF heartbeats
<1>3. ASSUME NEW order, Goto(p, "after"), stored' = Rewritten(p, order),
             late' = IF seen[p].version = rules.version
                     THEN late \ Changed(p)
                     ELSE late \cup {h \in Changed(p) : stored'[h] # Absent}
      PROVE  Safe'
    <2>1. WritesWell
        <3> SUFFICES ASSUME NEW h \in Heartbeats, h \notin late'
                     PROVE  Fresh(h)' \/ (h \notin late /\ stored'[h] = stored[h])
            BY DEF WritesWell
        <3>1. CASE stored'[h] = Absent
            BY <3>1 DEF Fresh
        <3>2. CASE h \notin Changed(p) /\ stored'[h] = stored[h]
            BY <1>3, <3>2
        <3>3. CASE /\ h \in Changed(p) /\ snap[p][h] \in Contents
                   /\ stored'[h] = Apply(seen[p].rules, snap[p][h])
                   /\ stored'[h] # Absent
            <4>1. seen[p].version = rules.version
                BY <1>3, <3>3
            <4>2. seen[p].rules = rules'.rules
                BY <1>1, <4>1 DEF Safe, Reads
            <4> QED
                BY <3>3, <4>2 DEF Fresh
        <3> QED
            BY <1>3, <3>1, <3>2, <3>3, RewrittenValue
    <2>2. /\ pc'[p] = "after"
          /\ \A q \in Procs \ {p} : /\ pc'[q] = pc[q] /\ seen'[q] = seen[q]
                                    /\ snap'[q] = snap[q]
        BY <1>1, <1>3 DEF Goto, TypeOK
    <2>3. ASSUME seen[p].version = rules.version PROVE Clean'
        <3> SUFFICES ASSUME NEW h \in Heartbeats, h \notin late'
                     PROVE  Fresh(h)'
            BY DEF Clean
        <3>1. Fresh(h) \/ stored[h] = snap[p][h] \/ h \in late
            BY <2>3 DEF Commit, Safe, RewriteOK
        <3>2. seen[p].rules = rules.rules /\ rules' = rules
            BY <1>1, <2>3 DEF Safe, Reads
        <3>3. CASE stored'[h] = Absent
            BY <3>3 DEF Fresh
        <3>4. CASE /\ snap[p][h] \in Contents
                   /\ stored'[h] = Apply(seen[p].rules, snap[p][h])
            BY <3>2, <3>4 DEF Fresh
        <3>5. CASE h \notin Changed(p) /\ stored'[h] = stored[h]
            <4>1. h \notin late
                BY <1>3, <2>3, <3>5
            <4>2. CASE Fresh(h)
                BY <3>2, <3>5, <4>2 DEF Fresh
            <4>3. CASE stored[h] = snap[p][h]
                <5>1. CASE snap[p][h] = Absent
                    BY <3>5, <4>3, <5>1 DEF Fresh
                <5>2. CASE snap[p][h] # Absent
                    <6>1. h \in Found(p)
                        BY <5>2 DEF Found
                    <6>2. snap[p][h] \in Contents
                        BY <6>1, NewType
                    <6>3. Apply(seen[p].rules, snap[p][h]) = snap[p][h]
                        BY <3>5, <6>1 DEF Changed, New
                    <6> QED
                        BY <3>2, <3>5, <4>3, <6>2, <6>3 DEF Fresh
                <5> QED
                    BY <5>1, <5>2
            <4> QED
                BY <3>1, <4>1, <4>2, <4>3
        <3> QED
            BY <1>3, <3>3, <3>4, <3>5, RewrittenValue
    <2>4. RewriteOK(p)'
        BY <1>1, <2>2, <2>3 DEF RewriteOK
    <2>5. Reads(seen'[p])
        BY <1>1 DEF Safe
    <2> QED
        BY <1>1, <2>1, <2>2, <2>4, <2>5, WriteKeeps
<1> QED
    BY <1>2, <1>3 DEF Commit

LEMMA RequestStepKeeps ==
    ASSUME TypeOK, Safe, NEW c \in Clients, RequestStep(c)
    PROVE  Safe'
<1>1. c \in Procs
    BY DEF Procs
<1>2. {"ruleDestinations", "cache", "bulkDestinations", "insert"}
        \subseteq Stages \ {"scan", "commit", "after", "complete"}
    BY DEF Stages, Ingesting
<1>3. CASE \/ PutList(c) \/ Invalidate(c) \/ SetQueued(c) \/ Enqueue(c)
           \/ LookupRules(c) \/ CacheRules(c)
    BY <1>3, RequestKeeps
<1>4. CASE Insert(c)
    BY <1>4, InsertKeeps
<1>5. CASE \/ ListRules(c, "rules", "ruleDestinations")
           \/ ListDestinations(c, "ruleDestinations", "cache")
           \/ ListRules(c, "bulkRules", "bulkDestinations")
           \/ ListDestinations(c, "bulkDestinations", "insert")
    BY <1>1, <1>2, <1>5, ListKeeps
<1> QED
    BY <1>3, <1>4, <1>5 DEF RequestStep

LEMMA RewriteStepKeeps ==
    ASSUME TypeOK, Safe, NEW p \in Procs, RewriteStep(p)
    PROVE  Safe'
<1>1. {"destinations", "begin"} \subseteq Stages \ {"scan", "commit", "after", "complete"}
    BY DEF Stages, Rewriting, Applying
<1>2. CASE \/ ListRules(p, "list", "destinations")
           \/ ListDestinations(p, "destinations", "begin")
    BY <1>1, <1>2, ListKeeps
<1>3. CASE SetProcessing(p) \/ BeginTx(p) \/ OpenQuery(p) \/ EndScan(p) \/ After(p)
    BY <1>3, BeginKeeps, OpenQueryKeeps, StageKeeps
<1>4. CASE ScanRows(p) \/ Commit(p) \/ Complete(p) \/ Fail(p)
    BY <1>4, ScanRowsKeeps, CommitKeeps, EndKeeps
<1> QED
    BY <1>2, <1>3, <1>4 DEF RewriteStep

LEMMA StartKeeps == ASSUME TypeOK, Safe, Start PROVE Safe'
<1>1. ASSUME NEW c \in Clients, NEW S \in PutSets, PutRules(c, S) PROVE Safe'
    BY <1>1, ChangeKeeps DEF PutRules
<1>2. ASSUME NEW c \in Clients, NEW r \in rules.rules, DeleteRule(c, r) PROVE Safe'
    BY <1>2, ChangeKeeps DEF DeleteRule
<1>3. ASSUME NEW c \in Clients, Abort(c) PROVE Safe'
    BY <1>3, StillKeeps DEF Abort, table, cache, heartbeats, scan
<1>4. ASSUME NEW c \in Clients, NEW h \in Heartbeats,
             NEW first \in {"apply", "bulkRules"}, Receive(c, h, first)
      PROVE  Safe'
    <2>1. c \in Procs /\ first \in Stages \ {"scan", "commit", "after", "complete"}
        BY DEF Procs, Stages, Ingesting
    <2> QED
        BY <1>4, <2>1, MoveKeeps
        DEF Receive, Step, table, cache, heartbeats, progress, scan
<1> QED
    BY <1>1, <1>2, <1>3, <1>4 DEF Start

LEMMA InvInit == Init => IInv
<1> SUFFICES ASSUME Init PROVE Safe
    BY TypeInit DEF IInv
<1>1. rules.version = 0 /\ done = -1 /\ status = "None"
    BY DEF Init
<1>2. Reads(cached) /\ \A p \in Procs : Reads(seen[p])
    BY <1>1 DEF Init, Reads, NoRules
<1>3. \A p \in Procs : RewriteOK(p)
    BY DEF Init, RewriteOK
<1> QED
    BY <1>1, <1>2, <1>3 DEF Safe

LEMMA InvNext == IInv /\ [Next]_vars => IInv'
<1> SUFFICES ASSUME TypeOK, Safe, [Next]_vars PROVE Safe'
    BY TypeNext DEF IInv
<1>1. CASE Start
    BY <1>1, StartKeeps
<1>2. CASE Evict
    BY <1>2, StillKeeps DEF Evict, table, heartbeats, progress, scan
<1>3. ASSUME NEW p \in Procs, Progress(p) \/ StepFails(p) PROVE Safe'
    <2>1. CASE p \in Clients /\ RequestStep(p)
        BY <2>1, RequestStepKeeps
    <2>2. CASE p \in Workers /\ (CheckProgress(p) \/ Recompute(p))
        BY <2>2, BeginKeeps, EndKeeps
    <2>3. CASE RewriteStep(p)
        BY <2>3, RewriteStepKeeps
    <2>4. CASE StepFails(p)
        BY <2>4, StepFailsKeeps
    <2> QED
        BY <1>3, <2>1, <2>2, <2>3, <2>4 DEF Progress
<1>4. ASSUME NEW w \in Workers, NEW r \in 0 .. MaxRetry, TakeTask(w, r)
      PROVE  Safe'
    BY <1>4, TakeTaskKeeps
<1>5. CASE UNCHANGED vars
    <2>1. UNCHANGED <<rules, stored, late, pc, seen, snap, status, done>>
        BY <1>5 DEF vars
    <2>2. cached' = cached
        BY <1>5 DEF vars
    <2> QED
        BY <2>1, <2>2, StillKeeps DEF progress
<1> QED
    BY <1>1, <1>2, <1>3, <1>4, <1>5 DEF Next

\* A completed rewrite by the present rules has rewritten every heartbeat,
\* whatever requests, aborts, other rewrites, evictions, faults and retries
\* came between its statements, for all rules and contents.
THEOREM CompletedMeansRewrittenAlways == Spec => []CompletedMeansRewritten
<1>1. IInv => CompletedMeansRewritten
    BY DEF IInv, Safe, Clean, Fresh, CompletedMeansRewritten
<1> QED
    BY InvInit, InvNext, <1>1, PTL DEF Spec

-----------------------------------------------------------------------------
(* An abort sticks.                                                         *)

\* The steps that may change the progress look at it first, but for the one
\* that queues a rewrite.
LEMMA AbortedStep ==
    ASSUME Next, status = "Aborted", status' # "Aborted"
    PROVE  status' = "Queued" /\ \E c \in Clients : pc[c] = "queued"
<1>1. CASE Start
    BY <1>1 DEF Start, PutRules, DeleteRule, Change, Abort, Receive, progress
<1>2. CASE Evict
    BY <1>2 DEF Evict, progress
<1>3. ASSUME NEW c \in Clients, RequestStep(c)
      PROVE  status' = "Queued" /\ pc[c] = "queued"
    <2>1. CASE SetQueued(c)
        BY <2>1 DEF SetQueued, Step
    <2>2. CASE PutList(c) \/ Invalidate(c) \/ Enqueue(c)
        BY <2>2 DEF PutList, Invalidate, Enqueue, progress
    <2>3. CASE LookupRules(c) \/ CacheRules(c) \/ Insert(c)
        BY <2>3 DEF LookupRules, CacheRules, Insert, progress
    <2>4. CASE \/ ListRules(c, "rules", "ruleDestinations")
               \/ ListDestinations(c, "ruleDestinations", "cache")
               \/ ListRules(c, "bulkRules", "bulkDestinations")
               \/ ListDestinations(c, "bulkDestinations", "insert")
        BY <2>4 DEF ListRules, ListDestinations, progress
    <2> QED
        BY <1>3, <2>1, <2>2, <2>3, <2>4 DEF RequestStep
<1>4. ASSUME NEW p \in Procs, RewriteStep(p) \/ CheckProgress(p) \/ Recompute(p)
      PROVE  status' = "Aborted"
    <2>1. CASE SetProcessing(p) \/ Complete(p) \/ Fail(p)
        BY <2>1 DEF SetProcessing, Complete, Fail, progress
    <2>2. CASE \/ ListRules(p, "list", "destinations")
               \/ ListDestinations(p, "destinations", "begin")
        BY <2>2 DEF ListRules, ListDestinations, progress
    <2>3. CASE BeginTx(p) \/ OpenQuery(p) \/ ScanRows(p) \/ EndScan(p)
        BY <2>3 DEF BeginTx, OpenQuery, ScanRows, EndScan, progress
    <2>4. CASE Commit(p) \/ After(p) \/ CheckProgress(p) \/ Recompute(p)
        BY <2>4 DEF Commit, After, CheckProgress, Recompute, progress
    <2> QED
        BY <1>4, <2>1, <2>2, <2>3, <2>4 DEF RewriteStep
<1>5. ASSUME NEW p \in Procs, Progress(p) \/ StepFails(p)
      PROVE  status' = "Queued" /\ \E c \in Clients : pc[c] = "queued"
    BY <1>3, <1>4, <1>5 DEF Progress, StepFails, progress
<1>6. ASSUME NEW w \in Workers, NEW r \in 0 .. MaxRetry, TakeTask(w, r)
      PROVE  status' = "Aborted"
    BY <1>6 DEF TakeTask, progress
<1> QED
    BY <1>1, <1>2, <1>5, <1>6 DEF Next

\* Whatever rewrites, failures and requests are under way, only a new PUT takes
\* the progress out of Aborted.
THEOREM OnlyPutLeavesAbortedAlways == Spec => OnlyPutLeavesAborted
<1>1. [Next]_vars =>
        [status = "Aborted" /\ status' # "Aborted" =>
            status' = "Queued" /\ \E c \in Clients : pc[c] = "queued"]_vars
    BY AbortedStep
<1> QED
    BY <1>1, PTL DEF Spec, OnlyPutLeavesAborted

-----------------------------------------------------------------------------
(* The cache of prepared rules.                                             *)

\* Stages between the commit of a change and the invalidation of the cache.
Invalidating == {"putList", "invalidate", "forget"}

CacheOK ==
    cached # NoRules /\ cached.version # rules.version =>
        raced \/ \E c \in Clients : pc[c] \in Invalidating

\* A step of p that neither fills the cache nor changes the rules.
LEMMA CacheKept ==
    ASSUME CacheOK, NEW p \in Procs, rules' = rules,
           cached' = cached \/ cached' = NoRules,
           raced => raced' \/ cached' = NoRules,
           \A q \in Procs \ {p} : pc'[q] = pc[q],
           pc[p] \in Invalidating => pc'[p] \in Invalidating \/ raced' \/ cached' = NoRules
    PROVE  CacheOK'
<1> SUFFICES ASSUME cached' # NoRules, cached'.version # rules'.version
             PROVE  raced' \/ \E c \in Clients : pc'[c] \in Invalidating
    BY DEF CacheOK
<1>1. CASE raced
    BY <1>1
<1>2. ASSUME NEW c \in Clients, pc[c] \in Invalidating
      PROVE  raced' \/ pc'[c] \in Invalidating
    <2>1. CASE c = p
        BY <1>2, <2>1
    <2>2. CASE c # p
        <3>1. c \in Procs \ {p}
            BY <2>2 DEF Procs
        <3> QED
            BY <1>2, <3>1
    <2> QED
        BY <2>1, <2>2
<1> QED
    BY <1>1, <1>2 DEF CacheOK

LEMMA GotoOthers ==
    ASSUME TypeOK, NEW p \in Procs, NEW stage, Goto(p, stage)
    PROVE  pc'[p] = stage /\ \A q \in Procs \ {p} : pc'[q] = pc[q]
BY DEF Goto, TypeOK

\* Most steps leave cache and rules alone, and do not end an invalidation.
LEMMA OtherSteps ==
    ASSUME TypeOK, NEW p \in Procs,
           \/ RewriteStep(p) \/ CheckProgress(p) \/ Recompute(p)
           \/ SetQueued(p) \/ Enqueue(p) \/ LookupRules(p) \/ Insert(p)
           \/ ListRules(p, "rules", "ruleDestinations")
           \/ ListDestinations(p, "ruleDestinations", "cache")
           \/ ListRules(p, "bulkRules", "bulkDestinations")
           \/ ListDestinations(p, "bulkDestinations", "insert")
    PROVE  /\ UNCHANGED <<rules, cached, raced>> /\ pc[p] \notin Invalidating
           /\ \A q \in Procs \ {p} : pc'[q] = pc[q]
<1>1. ASSUME NEW from \in Stages \ Invalidating, NEW to,
             ListRules(p, from, to) \/ ListDestinations(p, from, to)
      PROVE  /\ UNCHANGED <<rules, cached, raced>> /\ pc[p] \notin Invalidating
             /\ \A q \in Procs \ {p} : pc'[q] = pc[q]
    <2>1. pc[p] = from /\ Goto(p, to)
        BY <1>1 DEF ListRules, ListDestinations, Step
    <2> QED
        BY <1>1, <2>1, GotoOthers DEF ListRules, ListDestinations, table, cache
<1>2. {"list", "destinations", "rules", "ruleDestinations", "bulkRules", "bulkDestinations"}
        \subseteq Stages \ Invalidating
    BY DEF Stages, Rewriting, Applying, Ingesting, Invalidating
<1>3. CASE SetProcessing(p) \/ CheckProgress(p) \/ BeginTx(p) \/ OpenQuery(p)
           \/ EndScan(p) \/ After(p)
    <2>1. \E stage : Goto(p, stage)
        BY <1>3 DEF SetProcessing, CheckProgress, BeginTx, OpenQuery, EndScan, After, Step
    <2>2. pc[p] \in {"process", "start", "begin", "query", "scan", "after"}
        BY <1>3 DEF SetProcessing, CheckProgress, BeginTx, OpenQuery, EndScan, After, Step
    <2>3. UNCHANGED <<rules, cached, raced>>
        BY <1>3 DEF SetProcessing, CheckProgress, BeginTx, OpenQuery, EndScan, After,
                    table, cache
    <2> QED
        BY <2>1, <2>2, <2>3, GotoOthers DEF Invalidating
<1>4. CASE ScanRows(p) \/ Commit(p) \/ Complete(p) \/ Fail(p) \/ Recompute(p)
    <2>1. (\E stage : Goto(p, stage)) \/ pc' = pc
        BY <1>4 DEF ScanRows, Commit, Complete, Fail, Recompute, Leave
    <2>2. pc[p] \in {"scan", "commit", "complete", "fail", "recompute"}
        BY <1>4 DEF ScanRows, Commit, Complete, Fail, Recompute
    <2>3. UNCHANGED <<rules, cached, raced>>
        BY <1>4 DEF ScanRows, Commit, Complete, Fail, Recompute, table, cache
    <2> QED
        BY <2>1, <2>2, <2>3, GotoOthers DEF Invalidating
<1>5. CASE SetQueued(p) \/ Enqueue(p) \/ LookupRules(p) \/ Insert(p)
    <2>1. \E stage : Goto(p, stage)
        BY <1>5 DEF SetQueued, Enqueue, LookupRules, Insert, Leave, Step
    <2>2. pc[p] \in {"queued", "enqueue", "apply", "insert"}
        BY <1>5 DEF SetQueued, Enqueue, LookupRules, Insert, Step
    <2>3. UNCHANGED <<rules, cached, raced>>
        BY <1>5 DEF SetQueued, Enqueue, LookupRules, Insert, table, cache
    <2> QED
        BY <2>1, <2>2, <2>3, GotoOthers DEF Invalidating
<1> QED
    BY <1>1, <1>2, <1>3, <1>4, <1>5 DEF RewriteStep

LEMMA CacheNext == TypeOK /\ CacheOK /\ [Next]_vars => CacheOK'
<1> SUFFICES ASSUME TypeOK, CacheOK, [Next]_vars PROVE CacheOK'
    OBVIOUS
<1>1. ASSUME NEW c \in Clients, NEW gen, NEW S, NEW stage \in Invalidating,
             Change(c, gen, S, stage)
      PROVE  CacheOK'
    <2>1. pc'[c] = stage
        BY <1>1, GotoOthers DEF Change, Step, Procs
    <2> QED
        BY <2>1 DEF CacheOK
<1>2. CASE Start
    <2>1. "putList" \in Invalidating /\ "forget" \in Invalidating
        BY DEF Invalidating
    <2>2. ASSUME NEW c \in Clients, NEW S \in PutSets, PutRules(c, S) PROVE CacheOK'
        BY <1>1, <2>1, <2>2 DEF PutRules
    <2>3. ASSUME NEW c \in Clients, NEW r \in rules.rules, DeleteRule(c, r)
          PROVE  CacheOK'
        BY <1>1, <2>1, <2>3 DEF DeleteRule
    <2>4. ASSUME NEW c \in Clients, Abort(c) PROVE CacheOK'
        BY <2>4 DEF Abort, table, cache, CacheOK
    <2>5. ASSUME NEW c \in Clients, NEW h \in Heartbeats,
                 NEW first \in {"apply", "bulkRules"}, Receive(c, h, first)
          PROVE  CacheOK'
        <3>1. c \in Procs /\ pc[c] = "idle" /\ Goto(c, first)
            BY <2>5 DEF Receive, Step, Procs
        <3>2. UNCHANGED <<rules, cached, raced>>
            BY <2>5 DEF Receive, table, cache
        <3> QED
            BY <3>1, <3>2, GotoOthers, CacheKept DEF Invalidating
    <2> QED
        BY <1>2, <2>2, <2>3, <2>4, <2>5 DEF Start
<1>3. CASE Evict
    BY <1>3 DEF Evict, CacheOK
<1>4. ASSUME NEW c \in Clients, PutList(c) \/ Invalidate(c) \/ CacheRules(c)
      PROVE  CacheOK'
    <2>1. c \in Procs
        BY DEF Procs
    <2>2. CASE PutList(c)
        <3>1. Goto(c, "invalidate") /\ UNCHANGED <<rules, cached, raced>>
            BY <2>2 DEF PutList, Step, table, cache
        <3> QED
            BY <2>1, <3>1, GotoOthers, CacheKept DEF Invalidating
    <2>3. CASE Invalidate(c)
        BY <2>3 DEF Invalidate, CacheOK
    <2>4. CASE CacheRules(c)
        BY <2>4 DEF CacheRules, CacheOK, table
    <2> QED
        BY <1>4, <2>2, <2>3, <2>4
<1>5. ASSUME NEW p \in Procs, StepFails(p) PROVE CacheOK'
    <2>1. rules' = rules /\ cached' = cached /\ raced' = (raced \/ pc[p] = "putList")
        BY <1>5 DEF StepFails, table
    <2>2. pc[p] \in Invalidating => pc[p] = "putList"
        BY <1>5 DEF StepFails, Invalidating
    <2>3. \E stage : Goto(p, stage)
        BY <1>5 DEF StepFails, Leave
    <2> QED
        BY <2>1, <2>2, <2>3, GotoOthers, CacheKept
<1>6. ASSUME NEW p \in Procs, Progress(p) PROVE CacheOK'
    <2>1. CASE p \in Clients /\ (PutList(p) \/ Invalidate(p) \/ CacheRules(p))
        BY <1>4, <2>1
    <2>2. CASE ~(p \in Clients /\ (PutList(p) \/ Invalidate(p) \/ CacheRules(p)))
        <3>1. /\ UNCHANGED <<rules, cached, raced>> /\ pc[p] \notin Invalidating
              /\ \A q \in Procs \ {p} : pc'[q] = pc[q]
            BY <1>6, <2>2, OtherSteps DEF Progress, RequestStep
        <3> QED
            BY <3>1, CacheKept
    <2> QED
        BY <2>1, <2>2
<1>7. ASSUME NEW w \in Workers, NEW r \in 0 .. MaxRetry, TakeTask(w, r)
      PROVE  CacheOK'
    <2>1. w \in Procs /\ pc[w] = "idle" /\ Goto(w, "start")
        BY <1>7 DEF TakeTask, Step, Procs
    <2>2. UNCHANGED <<rules, cached, raced>>
        BY <1>7 DEF TakeTask, table, cache
    <2> QED
        BY <2>1, <2>2, GotoOthers, CacheKept DEF Invalidating
<1>8. CASE UNCHANGED vars
    BY <1>8 DEF vars, CacheOK
<1> QED
    BY <1>2, <1>3, <1>5, <1>6, <1>7, <1>8 DEF Next

\* However requests, rewrites and failures interleave, the cached rules are the
\* rules of the database but for a change that has yet to invalidate them or
\* failed before it could, and a cache filled with rules listed before one.
THEOREM CachedRulesCurrentAlways == Spec => []CachedRulesCurrent
<1>1. Init => CacheOK
    BY DEF Init, CacheOK
<1>2. IInv /\ CacheOK /\ [Next]_vars => CacheOK'
    BY CacheNext DEF IInv
<1>3. IInv /\ CacheOK => CachedRulesCurrent
    BY DEF IInv, Safe, Reads, CacheOK, CachedRulesCurrent, Invalidating
<1> QED
    BY InvInit, InvNext, <1>1, <1>2, <1>3, PTL DEF Spec

=============================================================================
