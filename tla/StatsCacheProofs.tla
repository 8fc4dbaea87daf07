-------------------------- MODULE StatsCacheProofs --------------------------
(***************************************************************************)
(* Proofs about StatsCache, for every number of requests, workers, cache    *)
(* keys and rows, and every bound on faults and writes.                     *)
(***************************************************************************)
EXTENDS StatsCache, TLAPS

\* The ranges of a task are cache keys.
LEMMA WorkIsKeys ==
    ASSUME NEW d \in Kinds
    PROVE  /\ Len(Work(d)) \in Nat \ {0}
           /\ \A i \in 1 .. Len(Work(d)) : Work(d)[i] \in Keys
           /\ DefaultRanges[1] \in Keys
<1>1. DefaultRanges \in Seq(Ranges) /\ DefaultRanges # <<>>
    BY KeysAssumption
<1>2. /\ Len(DefaultRanges) \in Nat \ {0}
      /\ \A i \in 1 .. Len(DefaultRanges) : DefaultRanges[i] \in Ranges
    BY <1>1
<1>3. CASE d = "all"
    BY <1>2, <1>3 DEF Work, Keys
<1>4. CASE d # "all"
    <2>1. d \in ProjectKeys
        BY <1>4 DEF Kinds
    <2>2. Work(d) = <<d>> /\ Len(<<d>>) = 1 /\ <<d>>[1] = d
        BY <1>4 DEF Work
    <2> QED
        BY <2>1, <2>2, <1>2 DEF Keys
<1> QED
    BY <1>3, <1>4

\* What a stage has read are rows.
LEMMA ReadByIsRows ==
    \A stage \in Stages : ReadBy(stage) \subseteq Rows
BY DEF ReadBy, Rows

LEMMA TypeInit == Init => TypeOK
<1> SUFFICES ASSUME Init PROVE TypeOK
    OBVIOUS
<1>1. DefaultRanges[1] \in Keys
    BY WorkIsKeys DEF Kinds
<1>2. NoJob \in Jobs
    BY BoundsAssumption DEF NoJob, Jobs, Kinds
<1>3. Absent \in CacheRows
    BY DEF Absent, CacheRows
<1> QED
    BY <1>1, <1>2, <1>3 DEF Init, TypeOK, Stages

\* Setting one count of the queues keeps them well typed.
LEMMA CountsType ==
    ASSUME NEW T \in [Kinds -> [0 .. MaxRetry -> Nat]],
           NEW d \in Kinds, NEW r \in 0 .. MaxRetry, NEW n \in Nat
    PROVE  /\ [T EXCEPT ![d][r] = n] \in [Kinds -> [0 .. MaxRetry -> Nat]]
           /\ T[d][r] \in Nat
<1>1. T[d] \in [0 .. MaxRetry -> Nat]
    OBVIOUS
<1>2. [T[d] EXCEPT ![r] = n] \in [0 .. MaxRetry -> Nat]
    BY <1>1
<1>3. T[d][r] \in Nat
    BY <1>1
<1> QED
    BY <1>2, <1>3

\* A push keeps the counts natural.
LEMMA PushType ==
    ASSUME TypeOK, NEW d \in Kinds, Enqueue(d)
    PROVE  /\ tasks' \in [Kinds -> [0 .. MaxRetry -> Nat]]
           /\ unique' \subseteq ProjectKeys
           /\ faults' \in Nat
<1>1. CASE UNCHANGED queues
    BY <1>1 DEF Enqueue, Push, TypeOK, queues
<1>2. CASE Push(d) /\ UNCHANGED faults /\ ~(UNCHANGED queues)
    <2>1. 0 \in 0 .. MaxRetry
        BY BoundsAssumption
    <2>2. tasks \in [Kinds -> [0 .. MaxRetry -> Nat]]
        BY DEF TypeOK
    <2>3. tasks' = [tasks EXCEPT ![d][0] = tasks[d][0] + 1]
        BY <1>2, Zenon DEF Push
    <2>4. tasks[d] \in [0 .. MaxRetry -> Nat]
        BY <2>2
    <2>5. tasks[d][0] \in Nat
        BY <2>1, <2>4
    <2>6. tasks[d][0] + 1 \in Nat
        BY <2>5
    <2>7. [tasks EXCEPT ![d][0] = tasks[d][0] + 1]
             \in [Kinds -> [0 .. MaxRetry -> Nat]]
        BY <2>1, <2>2, <2>6, CountsType
    <2> QED
        BY <1>2, <2>3, <2>7 DEF Push, TypeOK
<1> QED
    BY <1>1, <1>2 DEF Enqueue, TypeOK, queues

-----------------------------------------------------------------------------
(* Type correctness.                                                        *)

LEMMA CommitType ==
    ASSUME TypeOK, NEW p \in Procs, NEW C \in SUBSET Rows,
           NEW stage \in Stages, NEW tell \in BOOLEAN,
           NEW S \in SUBSET Heartbeats, Commit(p, C, stage, tell, S)
    PROVE  TypeOK'
BY DEF TypeOK, Commit, Goto, queues, Procs

LEMMA ReadSettingsType ==
    ASSUME TypeOK, NEW p \in Procs, NEW k \in Keys, NEW stage \in Stages,
           ReadSettings(p, k, stage)
    PROVE  /\ pc' \in [Procs -> Stages]
           /\ key' \in [Procs -> Keys]
           /\ view' \in [Procs -> SUBSET Rows]
           /\ missed' \in [Procs -> SUBSET Rows]
BY DEF TypeOK, ReadSettings, Goto, Rows

LEMMA FinishType ==
    ASSUME TypeOK, NEW p \in Procs, Finish(p)
    PROVE  /\ pc' \in [Procs -> Stages]
           /\ key' \in [Procs -> Keys]
           /\ view' \in [Procs -> SUBSET Rows]
           /\ missed' \in [Procs -> SUBSET Rows]
BY WorkIsKeys DEF TypeOK, Finish, Goto, Stages, Kinds

LEMMA StoreType ==
    ASSUME TypeOK, NEW p \in Procs, Store(p)
    PROVE  cache' \in [Keys -> CacheRows]
BY DEF TypeOK, Store, CacheRows

LEMMA StartType == TypeOK /\ Start => TypeOK'
<1> SUFFICES ASSUME TypeOK, Start PROVE TypeOK'
    OBVIOUS
<1>1. CASE \E c \in Clients, S \in (SUBSET Heartbeats) \ {{}} : InsertHeartbeats(c, S)
    <2>1. PICK c \in Clients, S \in (SUBSET Heartbeats) \ {{}} : InsertHeartbeats(c, S)
        BY <1>1
    <2> QED
        BY <2>1, CommitType DEF InsertHeartbeats, Procs, Rows, Stages
<1>2. CASE \E c \in Clients, S \in (SUBSET Heartbeats) \ {{}} : DeleteHeartbeats(c, S)
    <2>1. PICK c \in Clients, S \in (SUBSET Heartbeats) \ {{}} : DeleteHeartbeats(c, S)
        BY <1>2
    <2>2. /\ c \in Procs /\ S \cap rows \in SUBSET Rows
          /\ {} \in SUBSET Heartbeats /\ "mark" \in Stages
          /\ (S \cap rows # {}) \in BOOLEAN
        BY DEF Procs, Rows, Stages
    <2>3. Commit(c, S \cap rows, "mark", S \cap rows # {}, {})
        BY <2>1 DEF DeleteHeartbeats
    <2> QED
        BY <2>2, <2>3, CommitType
<1>3. CASE \E c \in Clients, r \in Settings \cup Extras : ChangeInputs(c, {r})
    <2>1. PICK c \in Clients, r \in Settings \cup Extras : ChangeInputs(c, {r})
        BY <1>3
    <2>2. /\ c \in Procs /\ {r} \in SUBSET Rows
          /\ {} \in SUBSET Heartbeats /\ "mark" \in Stages
        BY DEF Procs, Rows, Stages
    <2>3. Commit(c, {r}, "mark", TRUE, {})
        BY <2>1 DEF ChangeInputs
    <2> QED
        BY <2>2, <2>3, CommitType
<1>4. CASE \E w \in Workers, S \in (SUBSET Heartbeats) \ {{}} : Purge(w, S)
    <2>1. PICK w \in Workers, S \in (SUBSET Heartbeats) \ {{}} : Purge(w, S)
        BY <1>4
    <2> QED
        BY <2>1, CommitType DEF Purge, Procs, Rows, Stages
<1> QED
    BY <1>1, <1>2, <1>3, <1>4 DEF Start

LEMMA WriteType ==
    ASSUME TypeOK, NEW p \in Procs, Write(p)
    PROVE  TypeOK'
<1>1. CASE MarkStats(p)
    BY <1>1 DEF MarkStats, Marked, TypeOK, CacheRows, Goto, Stages, queues,
                reading, writing
<1>2. CASE MarkProjects(p)
    BY <1>2 DEF MarkProjects, Marked, TypeOK, CacheRows, Goto, Stages, queues,
                reading
<1>3. CASE EnqueueRecompute(p)
    <2>1. "all" \in Kinds
        BY DEF Kinds
    <2>2. /\ tasks' \in [Kinds -> [0 .. MaxRetry -> Nat]]
          /\ unique' \subseteq ProjectKeys
          /\ faults' \in Nat
        BY <1>3, <2>1, PushType DEF EnqueueRecompute
    <2> QED
        BY <1>3, <2>2 DEF EnqueueRecompute, TypeOK, Goto, Stages, reading, writing
<1>4. CASE Acknowledge(p)
    BY <1>4 DEF Acknowledge, TypeOK, Goto, Stages, queues, reading
<1> QED
    BY <1>1, <1>2, <1>3, <1>4 DEF Write

LEMMA ComputeType ==
    ASSUME TypeOK, NEW p \in Procs, Compute(p)
    PROVE  TypeOK'
<1>0. cache[key[p]].data \subseteq Rows
    BY DEF TypeOK, CacheRows
<1>1. CASE Lookup(p)
    BY <1>0, <1>1 DEF Lookup, Found, FoundStale, NotFound, TypeOK, Goto, Stages,
                      queues, writing
<1>2. CASE PublicLookup(p)
    BY <1>0, <1>2 DEF PublicLookup, Found, TypeOK, Goto, Stages, queues, writing
<1>3. CASE Refresh(p)
    <2>1. (IF key[p] \in Ranges THEN "all" ELSE key[p]) \in Kinds
        BY DEF TypeOK, Kinds, Keys
    <2>2. /\ tasks' \in [Kinds -> [0 .. MaxRetry -> Nat]]
          /\ unique' \subseteq ProjectKeys
          /\ faults' \in Nat
        BY <1>3, <2>1, PushType DEF Refresh
    <2> QED
        BY <1>3, <2>2 DEF Refresh, TypeOK, Goto, Stages, reading, writing
<1>4. CASE Reply(p)
    BY <1>4, FinishType DEF Reply, TypeOK, queues, writing
<1>5. CASE ReadTable(p)
    BY <1>5 DEF ReadTable, TypeOK, Goto, Stages, queues, writing
<1>6. CASE UpsertForRequest(p)
    BY <1>6, StoreType DEF UpsertForRequest, TypeOK, Goto, Stages, queues,
                           reading, writing
<1>7. CASE UpsertAndContinue(p)
    <2>1. job[p] \in Jobs
        BY <1>7 DEF UpsertAndContinue, TypeOK
    <2>2. /\ job[p].kind \in Kinds /\ job[p].retried \in 0 .. MaxRetry
          /\ job[p].at \in Nat \ {0}
        BY <2>1 DEF Jobs
    <2>3. Len(Work(job[p].kind)) \in Nat
        BY <2>2, WorkIsKeys
    <2>4. job[p].at + 1 \in 1 .. Len(Work(job[p].kind))
        BY <1>7, <2>2, <2>3 DEF UpsertAndContinue
    <2>5. Work(job[p].kind)[job[p].at + 1] \in Keys
        BY <2>2, <2>4, WorkIsKeys
    <2>6. [job[p] EXCEPT !.at = job[p].at + 1] \in Jobs
        BY <2>1, <2>2 DEF Jobs
    <2>7. job' \in [Workers -> Jobs]
        BY <1>7, <2>6 DEF UpsertAndContinue, TypeOK
    <2>8. key' \in [Procs -> Keys]
        BY <1>7, <2>5 DEF UpsertAndContinue, TypeOK
    <2> QED
        BY <1>7, <2>7, <2>8, StoreType
        DEF UpsertAndContinue, TypeOK, Goto, Stages, queues, writing
<1>8. CASE UpsertAndFinish(p)
    <2>1. NoJob \in Jobs
        BY BoundsAssumption DEF NoJob, Jobs, Kinds
    <2> QED
        BY <1>8, <2>1, FinishType, StoreType
        DEF UpsertAndFinish, TypeOK, writing
<1> QED
    BY <1>1, <1>2, <1>3, <1>4, <1>5, <1>6, <1>7, <1>8 DEF Compute

LEMMA RequestType ==
    ASSUME TypeOK, NEW c \in Clients, NEW k \in Keys,
           NEW path \in {"lookup", "public"}, Request(c, k, path)
    PROVE  TypeOK'
<1>1. c \in Procs /\ path \in Stages
    BY DEF Procs, Stages
<1> QED
    BY <1>1, ReadSettingsType DEF Request, TypeOK, queues, writing

LEMMA TakeTaskType ==
    ASSUME TypeOK, NEW w \in Workers, NEW d \in Kinds, NEW r \in 0 .. MaxRetry,
           TakeTask(w, d, r)
    PROVE  TypeOK'
<1>1. w \in Procs /\ "heartbeats" \in Stages /\ Work(d)[1] \in Keys
    BY WorkIsKeys DEF Procs, Stages
<1>2. tasks \in [Kinds -> [0 .. MaxRetry -> Nat]]
    BY DEF TypeOK
<1>3. tasks[d] \in [0 .. MaxRetry -> Nat]
    BY <1>2
<1>4. tasks[d][r] \in Nat /\ tasks[d][r] > 0
    BY <1>3 DEF TakeTask
<1>5. tasks[d][r] - 1 \in Nat
    BY <1>4
<1>6. [tasks EXCEPT ![d][r] = tasks[d][r] - 1] \in [Kinds -> [0 .. MaxRetry -> Nat]]
    BY <1>2, <1>5, CountsType
<1>7. tasks' \in [Kinds -> [0 .. MaxRetry -> Nat]]
    BY <1>6 DEF TakeTask
<1>8. job' \in [Workers -> Jobs]
    BY DEF TakeTask, TypeOK, Jobs
<1> QED
    BY <1>1, <1>7, <1>8, ReadSettingsType DEF TakeTask, TypeOK, writing

LEMMA StepFailsType ==
    ASSUME TypeOK, NEW p \in Procs, StepFails(p)
    PROVE  TypeOK'
<1>1. tasks' \in [Kinds -> [0 .. MaxRetry -> Nat]]
    <2>1. CASE UNCHANGED tasks
        BY <2>1 DEF TypeOK
    <2>2. CASE /\ p \in Workers /\ job[p].retried < MaxRetry
               /\ tasks' = [tasks EXCEPT ![job[p].kind][job[p].retried + 1]
                              = tasks[job[p].kind][job[p].retried + 1] + 1]
        <3> DEFINE d == job[p].kind
                   r == job[p].retried + 1
        <3>1. job[p] \in Jobs
            BY <2>2 DEF TypeOK
        <3>2. d \in Kinds /\ job[p].retried \in 0 .. MaxRetry
            BY <3>1 DEF Jobs
        <3>3. r \in 0 .. MaxRetry
            BY <2>2, <3>2, BoundsAssumption
        <3>4. tasks \in [Kinds -> [0 .. MaxRetry -> Nat]]
            BY DEF TypeOK
        <3>5. tasks[d] \in [0 .. MaxRetry -> Nat]
            BY <3>2, <3>4
        <3> HIDE DEF d, r
        <3>6. tasks[d][r] \in Nat
            BY <3>3, <3>5
        <3>8. tasks[d][r] + 1 \in Nat
            BY <3>6
        <3>7. [tasks EXCEPT ![d][r] = tasks[d][r] + 1]
                 \in [Kinds -> [0 .. MaxRetry -> Nat]]
            BY <3>2, <3>3, <3>4, <3>8, CountsType
        <3> QED
            BY <2>2, <3>7 DEF d, r
    <2> QED
        <3>1. IF p \in Workers /\ pc[p] \in Computing /\ job[p].retried < MaxRetry
              THEN tasks' = [tasks EXCEPT ![job[p].kind][job[p].retried + 1]
                               = tasks[job[p].kind][job[p].retried + 1] + 1]
              ELSE UNCHANGED tasks
            BY Zenon DEF StepFails
        <3> QED
            BY <2>1, <2>2, <3>1, Zenon
<1>2. cache' \in [Keys -> CacheRows]
    <2> DEFINE M(k) == [cache[k] EXCEPT !.missed = cache[k].missed \cup change[p]]
    <2>1. change[p] \subseteq Rows
        BY DEF TypeOK
    <2>2. ASSUME NEW k \in Keys PROVE cache[k] \in CacheRows /\ M(k) \in CacheRows
        BY <2>1 DEF TypeOK, CacheRows
    <2> HIDE DEF M
    <2>3. cache' = [k \in Keys |-> IF cache[k].fresh /\ k \in Unmarked(p)
                                   THEN M(k) ELSE cache[k]]
        BY DEF StepFails, M
    <2> QED
        BY <2>2, <2>3
<1>3. job' \in [Workers -> Jobs]
    <2>1. NoJob \in Jobs
        BY BoundsAssumption DEF NoJob, Jobs, Kinds
    <2> QED
        BY <2>1 DEF StepFails, TypeOK
<1>4. /\ change' \in [Procs -> SUBSET Rows]
      /\ asked' \in [Procs -> SUBSET Heartbeats]
      /\ notify' \in [Procs -> BOOLEAN]
      /\ faults' \in Nat
    BY DEF StepFails, TypeOK
<1> QED
    BY <1>1, <1>2, <1>3, <1>4, FinishType DEF StepFails, TypeOK

LEMMA TypeNext == TypeOK /\ [Next]_vars => TypeOK'
<1> SUFFICES ASSUME TypeOK, [Next]_vars PROVE TypeOK'
    OBVIOUS
<1>1. CASE Start
    BY <1>1, StartType
<1>2. CASE \E c \in Clients, k \in Keys, path \in {"lookup", "public"} :
                Request(c, k, path)
    BY <1>2, RequestType
<1>3. CASE \E p \in Procs : Progress(p)
    BY <1>3, WriteType, ComputeType DEF Progress
<1>4. CASE \E p \in Procs : StepFails(p)
    BY <1>4, StepFailsType
<1>5. CASE \E w \in Workers, d \in Kinds, r \in 0 .. MaxRetry : TakeTask(w, d, r)
    BY <1>5, TakeTaskType
<1>6. CASE \E k \in ProjectKeys : LockExpires(k)
    BY <1>6 DEF LockExpires, TypeOK, reading, writing
<1>7. CASE UNCHANGED vars
    BY <1>7 DEF vars, TypeOK
<1> QED
    BY <1>1, <1>2, <1>3, <1>4, <1>5, <1>6, <1>7 DEF Next

\* Every reachable state is well typed.
THEOREM TypeCorrect == Spec => []TypeOK
BY TypeInit, TypeNext, PTL DEF Spec

-----------------------------------------------------------------------------
(* A row that claims to be up to date is, but for what its history records. *)
(* The invariant needs the same of computations under way, whose data       *)
(* becomes a cache row.                                                     *)

Inv == TypeOK /\ CurrentUnlessMissed /\ ViewsCurrentUnlessMissed

LEMMA CommitInv ==
    ASSUME Inv, NEW p \in Procs, NEW C \in SUBSET Rows, NEW tell, NEW S,
           NEW stage \in {"mark", "ack"}, stage = "mark" \/ C = {},
           pc[p] = "idle", Commit(p, C, stage, tell, S)
    PROVE  CurrentUnlessMissed' /\ ViewsCurrentUnlessMissed'
<1> USE DEF Inv
<1>1. /\ cache' = cache /\ view' = view
      /\ rows' = (rows \ C) \cup (C \ rows)
      /\ pc' = [pc EXCEPT ![p] = stage]
      /\ change' = [change EXCEPT ![p] = C]
      /\ missed' = [q \in Procs |-> missed[q] \cup (C \cap ReadBy(pc[q]))]
    BY DEF Commit, Goto
<1>2. pc \in [Procs -> Stages] /\ change \in [Procs -> SUBSET Rows]
    BY DEF TypeOK
<1>3. pc'[p] = stage /\ change'[p] = C
    BY <1>1, <1>2
<1>4. ASSUME NEW q \in Procs, q # p
      PROVE  pc'[q] = pc[q] /\ change'[q] = change[q] /\ Unmarked(q)' = Unmarked(q)
    BY <1>1, <1>2, <1>4 DEF Unmarked
<1>5. Unmarked(p) = {}
    BY DEF Unmarked
<1>6. CurrentUnlessMissed'
    <2> SUFFICES ASSUME NEW k \in Keys, cache'[k].fresh, NEW r \in Rows
                 PROVE  \/ r \in cache'[k].data <=> r \in rows'
                        \/ r \in cache'[k].missed
                        \/ \E q \in Procs : k \in Unmarked(q)' /\ r \in change'[q]
        BY DEF CurrentUnlessMissed
    <2>1. CASE r \in C
        <3>1. stage = "mark"
            BY <2>1
        <3>2. Unmarked(p)' = Keys
            BY <1>3, <3>1 DEF Unmarked
        <3> QED
            BY <1>3, <2>1, <3>2
    <2>2. CASE r \notin C
        <3>1. r \in rows' <=> r \in rows
            BY <1>1, <2>2
        <3>2. \/ r \in cache[k].data <=> r \in rows
              \/ r \in cache[k].missed
              \/ \E q \in Procs : k \in Unmarked(q) /\ r \in change[q]
            BY <1>1 DEF CurrentUnlessMissed
        <3> QED
            BY <1>1, <1>4, <1>5, <3>1, <3>2
    <2> QED
        BY <2>1, <2>2
<1>7. ViewsCurrentUnlessMissed'
    <2> SUFFICES ASSUME NEW q \in Procs, pc'[q] \in Computing
                 PROVE  /\ view'[q] \subseteq ReadBy(pc'[q])
                        /\ \A r \in ReadBy(pc'[q]) :
                              (r \in view'[q] <=> r \in rows') \/ r \in missed'[q]
        BY DEF ViewsCurrentUnlessMissed
    <2>1. q # p
        BY <1>3 DEF Computing
    <2>2. pc'[q] = pc[q]
        BY <1>4, <2>1
    <2>3. /\ view[q] \subseteq ReadBy(pc[q])
          /\ \A r \in ReadBy(pc[q]) :
                (r \in view[q] <=> r \in rows) \/ r \in missed[q]
        BY <2>2 DEF ViewsCurrentUnlessMissed
    <2>4. missed'[q] = missed[q] \cup (C \cap ReadBy(pc[q]))
        BY <1>1
    <2> QED
        BY <1>1, <2>2, <2>3, <2>4
<1> QED
    BY <1>6, <1>7

\* The cache part survives a step that writes no cache row, no table and
\* leaves the writes under way where they are.
LEMMA CacheUntouched ==
    ASSUME Inv, rows' = rows, cache' = cache,
           \A q \in Procs : Unmarked(q)' = Unmarked(q) /\ change'[q] = change[q]
    PROVE  CurrentUnlessMissed'
BY DEF Inv, CurrentUnlessMissed

\* The view part survives a step that writes no table and touches no process
\* but p.
LEMMA OtherViews ==
    ASSUME Inv, NEW p \in Procs, rows' = rows,
           \A q \in Procs \ {p} :
               pc'[q] = pc[q] /\ view'[q] = view[q] /\ missed'[q] = missed[q],
           pc'[p] \in Computing =>
               /\ view'[p] \subseteq ReadBy(pc'[p])
               /\ \A r \in ReadBy(pc'[p]) :
                     (r \in view'[p] <=> r \in rows') \/ r \in missed'[p]
    PROVE  ViewsCurrentUnlessMissed'
<1> SUFFICES ASSUME NEW q \in Procs, pc'[q] \in Computing
             PROVE  /\ view'[q] \subseteq ReadBy(pc'[q])
                    /\ \A r \in ReadBy(pc'[q]) :
                          (r \in view'[q] <=> r \in rows') \/ r \in missed'[q]
    BY DEF ViewsCurrentUnlessMissed
<1>1. CASE q = p
    BY <1>1
<1>2. CASE q # p
    BY <1>2 DEF Inv, ViewsCurrentUnlessMissed
<1> QED
    BY <1>1, <1>2

\* Storing what a finished computation has read.
LEMMA StoreInv ==
    ASSUME Inv, NEW p \in Procs, pc[p] = "upsert", Store(p), rows' = rows,
           \A q \in Procs : Unmarked(q)' = Unmarked(q) /\ change'[q] = change[q]
    PROVE  CurrentUnlessMissed'
<1> USE DEF Inv
<1>1. \A r \in Rows : (r \in view[p] <=> r \in rows) \/ r \in missed[p]
    BY DEF ViewsCurrentUnlessMissed, Computing, ReadBy
<1>2. key[p] \in Keys /\ cache \in [Keys -> CacheRows]
    BY DEF TypeOK
<1> SUFFICES ASSUME NEW k \in Keys, cache'[k].fresh, NEW r \in Rows
             PROVE  \/ r \in cache'[k].data <=> r \in rows'
                    \/ r \in cache'[k].missed
                    \/ \E q \in Procs : k \in Unmarked(q)' /\ r \in change'[q]
    BY DEF CurrentUnlessMissed
<1>3. CASE k = key[p]
    <2>1. cache'[k].data = view[p] /\ cache'[k].missed = missed[p]
        BY <1>2, <1>3 DEF Store
    <2> QED
        BY <1>1, <2>1
<1>4. CASE k # key[p]
    <2>1. cache'[k] = cache[k]
        BY <1>2, <1>4 DEF Store
    <2> QED
        BY <2>1 DEF CurrentUnlessMissed
<1> QED
    BY <1>3, <1>4

\* A process that moves outside the marking stages leaves every other write
\* where it is.
LEMMA UnmarkedSame ==
    ASSUME TypeOK, NEW p \in Procs, NEW stage,
           pc' = [pc EXCEPT ![p] = stage], change' = change,
           {pc[p], stage} \cap {"mark", "markProjects"} = {}
    PROVE  \A q \in Procs : Unmarked(q)' = Unmarked(q) /\ change'[q] = change[q]
<1> SUFFICES ASSUME NEW q \in Procs PROVE Unmarked(q)' = Unmarked(q)
    OBVIOUS
<1>1. CASE q = p
    <2>1. pc'[q] = stage
        BY <1>1 DEF TypeOK
    <2> QED
        BY <1>1, <2>1 DEF Unmarked
<1>2. CASE q # p
    BY <1>2 DEF Unmarked, TypeOK
<1> QED
    BY <1>1, <1>2

LEMMA StartInv ==
    Inv /\ Start => CurrentUnlessMissed' /\ ViewsCurrentUnlessMissed'
<1> SUFFICES ASSUME Inv, Start
             PROVE  CurrentUnlessMissed' /\ ViewsCurrentUnlessMissed'
    OBVIOUS
<1>1. CASE \E c \in Clients, S \in (SUBSET Heartbeats) \ {{}} : InsertHeartbeats(c, S)
    <2>1. PICK c \in Clients, S \in (SUBSET Heartbeats) \ {{}} : InsertHeartbeats(c, S)
        BY <1>1
    <2>2. c \in Procs /\ S \ rows \in SUBSET Rows /\ {} \in SUBSET Rows
        BY DEF Procs, Rows
    <2>3. \/ Commit(c, S \ rows, "mark", TRUE, S)
          \/ Commit(c, {}, "ack", FALSE, S)
        BY <2>1 DEF InsertHeartbeats
    <2>4. pc[c] = "idle"
        BY <2>1 DEF InsertHeartbeats
    <2> QED
        BY <2>2, <2>3, <2>4, CommitInv
<1>2. CASE \E c \in Clients, S \in (SUBSET Heartbeats) \ {{}} : DeleteHeartbeats(c, S)
    <2>1. PICK c \in Clients, S \in (SUBSET Heartbeats) \ {{}} : DeleteHeartbeats(c, S)
        BY <1>2
    <2>2. c \in Procs /\ S \cap rows \in SUBSET Rows
        BY DEF Procs, Rows
    <2>3. pc[c] = "idle" /\ Commit(c, S \cap rows, "mark", S \cap rows # {}, {})
        BY <2>1 DEF DeleteHeartbeats
    <2> QED
        BY <2>2, <2>3, CommitInv
<1>3. CASE \E c \in Clients, r \in Settings \cup Extras : ChangeInputs(c, {r})
    <2>1. PICK c \in Clients, r \in Settings \cup Extras : ChangeInputs(c, {r})
        BY <1>3
    <2>2. c \in Procs /\ {r} \in SUBSET Rows
        BY DEF Procs, Rows
    <2>3. pc[c] = "idle" /\ Commit(c, {r}, "mark", TRUE, {})
        BY <2>1 DEF ChangeInputs
    <2> QED
        BY <2>2, <2>3, CommitInv
<1>4. CASE \E w \in Workers, S \in (SUBSET Heartbeats) \ {{}} : Purge(w, S)
    <2>1. PICK w \in Workers, S \in (SUBSET Heartbeats) \ {{}} : Purge(w, S)
        BY <1>4
    <2>2. w \in Procs /\ S \in SUBSET Rows
        BY DEF Procs, Rows
    <2>3. pc[w] = "idle" /\ Commit(w, S, "mark", FALSE, {})
        BY <2>1 DEF Purge
    <2> QED
        BY <2>2, <2>3, CommitInv
<1> QED
    BY <1>1, <1>2, <1>3, <1>4 DEF Start

LEMMA WriteInv ==
    ASSUME Inv, NEW p \in Procs, Write(p)
    PROVE  CurrentUnlessMissed' /\ ViewsCurrentUnlessMissed'
<1> USE DEF Inv
<1>0. pc \in [Procs -> Stages] /\ cache \in [Keys -> CacheRows]
      /\ change \in [Procs -> SUBSET Rows]
    BY DEF TypeOK
<1>1. CASE MarkStats(p)
    <2>1. /\ pc[p] = "mark" /\ pc' = [pc EXCEPT ![p] = "markProjects"]
          /\ rows' = rows /\ view' = view /\ missed' = missed /\ change' = change
          /\ cache' = [k \in Keys |->
                         IF k \in Ranges
                         THEN [cache[k] EXCEPT !.fresh = FALSE, !.missed = {}]
                         ELSE cache[k]]
        BY <1>1 DEF MarkStats, Marked, Goto, reading, writing
    <2>2. pc'[p] = "markProjects" /\ \A q \in Procs \ {p} : pc'[q] = pc[q]
        BY <1>0, <2>1
    <2>3. ASSUME NEW k \in ProjectKeys, NEW q \in Procs
          PROVE  k \in Unmarked(q)' <=> k \in Unmarked(q)
        <3>1. CASE q = p
            BY <2>1, <2>2, <3>1 DEF Unmarked, Keys
        <3>2. CASE q # p
            BY <2>2, <3>2 DEF Unmarked
        <3> QED
            BY <3>1, <3>2
    <2>4. CurrentUnlessMissed'
        <3> SUFFICES ASSUME NEW k \in Keys, cache'[k].fresh, NEW r \in Rows
                     PROVE  \/ r \in cache'[k].data <=> r \in rows'
                            \/ r \in cache'[k].missed
                            \/ \E q \in Procs : k \in Unmarked(q)' /\ r \in change'[q]
            BY DEF CurrentUnlessMissed
        <3>1. k \notin Ranges
            BY <1>0, <2>1 DEF CacheRows
        <3>2. k \in ProjectKeys /\ cache'[k] = cache[k]
            BY <2>1, <3>1 DEF Keys
        <3> QED
            BY <2>1, <2>3, <3>2 DEF CurrentUnlessMissed
    <2>5. ViewsCurrentUnlessMissed'
        BY <2>1, <2>2, OtherViews DEF Computing
    <2> QED
        BY <2>4, <2>5
<1>2. CASE MarkProjects(p)
    <2>1. PICK stage \in {"enqueue", "ack"} :
             /\ pc[p] = "markProjects" /\ pc' = [pc EXCEPT ![p] = stage]
             /\ rows' = rows /\ view' = view /\ missed' = missed
             /\ change' = [change EXCEPT ![p] = {}]
             /\ cache' = [k \in Keys |->
                            IF k \in ProjectKeys
                            THEN [cache[k] EXCEPT !.fresh = FALSE, !.missed = {}]
                            ELSE cache[k]]
        BY <1>2 DEF MarkProjects, Marked, Goto, reading
    <2>2. pc'[p] = stage
          /\ \A q \in Procs \ {p} : pc'[q] = pc[q] /\ change'[q] = change[q]
        BY <1>0, <2>1
    <2>3. \A q \in Procs \ {p} : Unmarked(q)' = Unmarked(q)
        BY <2>2 DEF Unmarked
    <2>4. CurrentUnlessMissed'
        <3> SUFFICES ASSUME NEW k \in Keys, cache'[k].fresh, NEW r \in Rows
                     PROVE  \/ r \in cache'[k].data <=> r \in rows'
                            \/ r \in cache'[k].missed
                            \/ \E q \in Procs : k \in Unmarked(q)' /\ r \in change'[q]
            BY DEF CurrentUnlessMissed
        <3>1. k \notin ProjectKeys
            BY <1>0, <2>1 DEF CacheRows
        <3>2. cache'[k] = cache[k] /\ k \notin Unmarked(p)
            BY <2>1, <3>1 DEF Unmarked
        <3>3. \/ r \in cache[k].data <=> r \in rows
              \/ r \in cache[k].missed
              \/ \E q \in Procs \ {p} : k \in Unmarked(q) /\ r \in change[q]
            BY <3>2 DEF CurrentUnlessMissed
        <3>4. ASSUME NEW q \in Procs \ {p}, k \in Unmarked(q) /\ r \in change[q]
              PROVE  k \in Unmarked(q)' /\ r \in change'[q]
            BY <2>2, <2>3, <3>4
        <3> QED
            BY <2>1, <3>2, <3>3, <3>4
    <2>5. ViewsCurrentUnlessMissed'
        BY <2>1, <2>2, OtherViews DEF Computing
    <2> QED
        BY <2>4, <2>5
<1>3. CASE EnqueueRecompute(p) \/ Acknowledge(p)
    <2>1. /\ pc[p] \in {"enqueue", "ack"}
          /\ rows' = rows /\ cache' = cache /\ view' = view /\ missed' = missed
          /\ change' = change
        BY <1>3 DEF EnqueueRecompute, Acknowledge, reading, writing
    <2>2. PICK stage \in {"ack", "idle"} : pc' = [pc EXCEPT ![p] = stage]
        BY <1>3 DEF EnqueueRecompute, Acknowledge, Goto
    <2>3. pc'[p] = stage /\ \A q \in Procs \ {p} : pc'[q] = pc[q]
        BY <1>0, <2>2
    <2>4. \A q \in Procs : Unmarked(q)' = Unmarked(q) /\ change'[q] = change[q]
        BY <2>1, <2>2, UnmarkedSame
    <2> QED
        BY <2>1, <2>3, <2>4, CacheUntouched, OtherViews DEF Computing
<1> QED
    BY <1>1, <1>2, <1>3 DEF Write

\* A step of a request that only looks at the cache or replies.
LEMMA LookInv ==
    ASSUME Inv, NEW p \in Procs, Lookup(p) \/ PublicLookup(p)
    PROVE  CurrentUnlessMissed' /\ ViewsCurrentUnlessMissed'
<1> USE DEF Inv
<1>1. /\ rows' = rows /\ cache' = cache /\ missed' = missed /\ change' = change
      /\ pc[p] \in {"lookup", "public"}
    BY DEF Lookup, PublicLookup, writing
<1>2. PICK stage \in {"reply200", "refresh", "heartbeats"} :
         /\ pc' = [pc EXCEPT ![p] = stage]
         /\ stage = "heartbeats" => view' = view
         /\ view' = view \/ view' = [view EXCEPT ![p] = cache[key[p]].data]
    BY DEF Lookup, PublicLookup, Found, FoundStale, NotFound, Goto
<1>3. /\ pc'[p] = stage
      /\ \A q \in Procs \ {p} : pc'[q] = pc[q] /\ view'[q] = view[q]
    BY <1>2 DEF TypeOK
<1>4. CurrentUnlessMissed'
    <2>1. \A q \in Procs : Unmarked(q)' = Unmarked(q) /\ change'[q] = change[q]
        BY <1>1, <1>2, UnmarkedSame
    <2> QED
        BY <1>1, <2>1, CacheUntouched
<1>5. ViewsCurrentUnlessMissed'
    <2>1. ASSUME pc'[p] \in Computing
          PROVE  /\ view'[p] \subseteq ReadBy(pc'[p])
                 /\ \A r \in ReadBy(pc'[p]) :
                       (r \in view'[p] <=> r \in rows') \/ r \in missed'[p]
        <3>1. stage = "heartbeats" /\ view' = view
            BY <1>2, <1>3, <2>1 DEF Computing
        <3>2. ReadBy(pc'[p]) = Settings /\ ReadBy(pc[p]) = Settings
            BY <1>1, <1>3, <3>1 DEF ReadBy
        <3> QED
            BY <1>1, <3>1, <3>2 DEF ViewsCurrentUnlessMissed, Computing
    <2> QED
        BY <1>1, <1>3, <2>1, OtherViews
<1> QED
    BY <1>4, <1>5

LEMMA ReadTableInv ==
    ASSUME Inv, NEW p \in Procs, ReadTable(p)
    PROVE  CurrentUnlessMissed' /\ ViewsCurrentUnlessMissed'
<1> USE DEF Inv
<1> DEFINE T == TableRead[pc[p]]
           next == IF pc[p] = "heartbeats" THEN "extras" ELSE "upsert"
<1>1. /\ rows' = rows /\ cache' = cache /\ missed' = missed /\ change' = change
      /\ pc[p] \in {"heartbeats", "extras"}
      /\ pc' = [pc EXCEPT ![p] = next]
      /\ view' = [view EXCEPT ![p] = view[p] \cup (rows \cap T)]
    BY DEF ReadTable, Goto, writing
<1>2. /\ pc'[p] = next /\ view'[p] = view[p] \cup (rows \cap T)
      /\ \A q \in Procs \ {p} : pc'[q] = pc[q] /\ view'[q] = view[q]
    BY <1>1 DEF TypeOK
<1>3. /\ T \cap ReadBy(pc[p]) = {}
      /\ ReadBy(next) = ReadBy(pc[p]) \cup T
    BY <1>1, RowsAssumption DEF ReadBy, TableRead, Rows
<1>4. /\ view[p] \subseteq ReadBy(pc[p])
      /\ \A r \in ReadBy(pc[p]) : (r \in view[p] <=> r \in rows) \/ r \in missed[p]
    BY <1>1 DEF ViewsCurrentUnlessMissed, Computing
<1>5. CurrentUnlessMissed'
    <2>1. \A q \in Procs : Unmarked(q)' = Unmarked(q) /\ change'[q] = change[q]
        BY <1>1, UnmarkedSame
    <2> QED
        BY <1>1, <2>1, CacheUntouched
<1> HIDE DEF T, next
<1>6. ViewsCurrentUnlessMissed'
    BY <1>1, <1>2, <1>3, <1>4, OtherViews
<1> QED
    BY <1>5, <1>6

\* A step that ends in a stage where nothing is computed.
LEMMA LeavesComputing ==
    ASSUME Inv, NEW p \in Procs, rows' = rows, pc'[p] \notin Computing,
           \A q \in Procs \ {p} :
               pc'[q] = pc[q] /\ view'[q] = view[q] /\ missed'[q] = missed[q]
    PROVE  ViewsCurrentUnlessMissed'
BY OtherViews

LEMMA UpsertInv ==
    ASSUME Inv, NEW p \in Procs,
           UpsertForRequest(p) \/ UpsertAndContinue(p) \/ UpsertAndFinish(p)
    PROVE  CurrentUnlessMissed' /\ ViewsCurrentUnlessMissed'
<1> USE DEF Inv
<1>1. /\ rows' = rows /\ change' = change /\ pc[p] = "upsert" /\ Store(p)
    BY DEF UpsertForRequest, UpsertAndContinue, UpsertAndFinish, writing
<1>2. PICK stage \in {"reply200", "heartbeats", "idle"} :
             pc' = [pc EXCEPT ![p] = stage]
    BY DEF UpsertForRequest, UpsertAndContinue, UpsertAndFinish, Goto, Finish
<1>3. CurrentUnlessMissed'
    <2>1. \A q \in Procs : Unmarked(q)' = Unmarked(q) /\ change'[q] = change[q]
        BY <1>1, <1>2, UnmarkedSame
    <2> QED
        BY <1>1, <2>1, StoreInv
<1>4. ViewsCurrentUnlessMissed'
    <2>1. CASE UpsertForRequest(p)
        BY <1>1, <2>1, LeavesComputing
        DEF UpsertForRequest, Goto, Computing, TypeOK, reading
    <2>2. CASE UpsertAndFinish(p)
        BY <1>1, <2>2, LeavesComputing
        DEF UpsertAndFinish, Finish, Goto, Computing, TypeOK
    <2>3. CASE UpsertAndContinue(p)
        <3>1. /\ pc'[p] = "heartbeats"
              /\ view'[p] = view[p] \cap Settings
              /\ missed'[p] = missed[p] \cap Settings
              /\ \A q \in Procs \ {p} :
                    pc'[q] = pc[q] /\ view'[q] = view[q] /\ missed'[q] = missed[q]
            BY <2>3 DEF UpsertAndContinue, Goto, TypeOK
        <3>2. ReadBy(pc'[p]) = Settings
            BY <3>1 DEF ReadBy
        <3>3. \A r \in Settings : (r \in view[p] <=> r \in rows) \/ r \in missed[p]
            BY <1>1 DEF ViewsCurrentUnlessMissed, ReadBy, Computing, Rows
        <3> QED
            BY <1>1, <3>1, <3>2, <3>3, OtherViews
    <2> QED
        BY <2>1, <2>2, <2>3
<1> QED
    BY <1>3, <1>4

LEMMA ReplyInv ==
    ASSUME Inv, NEW p \in Procs, Refresh(p) \/ Reply(p)
    PROVE  CurrentUnlessMissed' /\ ViewsCurrentUnlessMissed'
<1> USE DEF Inv
<1>1. /\ rows' = rows /\ cache' = cache /\ change' = change
      /\ pc[p] \in {"refresh", "reply200", "reply202"}
    BY DEF Refresh, Reply, reading, writing
<1>2. PICK stage \in {"reply202", "idle"} : pc' = [pc EXCEPT ![p] = stage]
    BY DEF Refresh, Reply, Goto, Finish
<1>3. \A q \in Procs : Unmarked(q)' = Unmarked(q) /\ change'[q] = change[q]
    BY <1>1, <1>2, UnmarkedSame
<1>4. /\ pc'[p] \notin Computing
      /\ \A q \in Procs \ {p} :
            pc'[q] = pc[q] /\ view'[q] = view[q] /\ missed'[q] = missed[q]
    BY <1>2 DEF Refresh, Reply, Finish, Goto, TypeOK, Computing, reading
<1> QED
    BY <1>1, <1>3, <1>4, CacheUntouched, LeavesComputing

\* A process begins with the settings read.
LEMMA BeginInv ==
    ASSUME Inv, NEW p \in Procs, NEW k,
           NEW stage \in {"lookup", "public", "heartbeats"},
           pc[p] = "idle", ReadSettings(p, k, stage),
           rows' = rows, cache' = cache, change' = change
    PROVE  CurrentUnlessMissed' /\ ViewsCurrentUnlessMissed'
<1> USE DEF Inv
<1>1. pc' = [pc EXCEPT ![p] = stage]
    BY DEF ReadSettings, Goto
<1>2. \A q \in Procs : Unmarked(q)' = Unmarked(q) /\ change'[q] = change[q]
    BY <1>1, UnmarkedSame
<1>3. /\ pc'[p] = stage /\ view'[p] = rows \cap Settings
      /\ \A q \in Procs \ {p} :
            pc'[q] = pc[q] /\ view'[q] = view[q] /\ missed'[q] = missed[q]
    BY DEF ReadSettings, Goto, TypeOK
<1>4. ReadBy(pc'[p]) = Settings
    BY <1>3 DEF ReadBy
<1> QED
    BY <1>2, <1>3, <1>4, CacheUntouched, OtherViews

LEMMA StepFailsInv ==
    ASSUME Inv, NEW p \in Procs, StepFails(p)
    PROVE  CurrentUnlessMissed' /\ ViewsCurrentUnlessMissed'
<1> USE DEF Inv
<1>1. /\ rows' = rows
      /\ pc' = [pc EXCEPT ![p] = "idle"]
      /\ change' = [change EXCEPT ![p] = {}]
      /\ cache' = [k \in Keys |->
                      IF cache[k].fresh /\ k \in Unmarked(p)
                      THEN [cache[k] EXCEPT !.missed = cache[k].missed \cup change[p]]
                      ELSE cache[k]]
    BY DEF StepFails, Finish, Goto
<1>2. /\ pc'[p] = "idle"
      /\ \A q \in Procs \ {p} :
            /\ pc'[q] = pc[q] /\ view'[q] = view[q] /\ missed'[q] = missed[q]
            /\ change'[q] = change[q]
    BY DEF StepFails, Finish, Goto, TypeOK
<1>3. \A q \in Procs \ {p} : Unmarked(q)' = Unmarked(q)
    BY <1>2 DEF Unmarked
<1>4. CurrentUnlessMissed'
    <2> SUFFICES ASSUME NEW k \in Keys, cache'[k].fresh, NEW r \in Rows
                 PROVE  \/ r \in cache'[k].data <=> r \in rows'
                        \/ r \in cache'[k].missed
                        \/ \E q \in Procs : k \in Unmarked(q)' /\ r \in change'[q]
        BY DEF CurrentUnlessMissed
    <2>1. cache[k] \in CacheRows
        BY DEF TypeOK
    <2>2. /\ cache'[k].data = cache[k].data /\ cache[k].fresh
          /\ cache[k].missed \subseteq cache'[k].missed
          /\ k \in Unmarked(p) => change[p] \subseteq cache'[k].missed
        BY <1>1, <2>1 DEF CacheRows
    <2>3. \/ r \in cache[k].data <=> r \in rows
          \/ r \in cache[k].missed
          \/ k \in Unmarked(p) /\ r \in change[p]
          \/ \E q \in Procs \ {p} : k \in Unmarked(q) /\ r \in change[q]
        BY <2>2 DEF CurrentUnlessMissed
    <2>4. ASSUME NEW q \in Procs \ {p}, k \in Unmarked(q) /\ r \in change[q]
          PROVE  k \in Unmarked(q)' /\ r \in change'[q]
        BY <1>2, <1>3, <2>4
    <2> QED
        BY <1>1, <2>2, <2>3, <2>4
<1>5. ViewsCurrentUnlessMissed'
    BY <1>1, <1>2, LeavesComputing DEF Computing
<1> QED
    BY <1>4, <1>5

LEMMA InvInit == Init => Inv
<1> SUFFICES ASSUME Init PROVE Inv
    OBVIOUS
<1>1. CurrentUnlessMissed
    BY DEF Init, CurrentUnlessMissed, Absent
<1>2. ViewsCurrentUnlessMissed
    BY DEF Init, ViewsCurrentUnlessMissed, Computing
<1> QED
    BY <1>1, <1>2, TypeInit DEF Inv

LEMMA InvNext == Inv /\ [Next]_vars => Inv'
<1> SUFFICES ASSUME Inv, [Next]_vars
             PROVE  CurrentUnlessMissed' /\ ViewsCurrentUnlessMissed'
    BY TypeNext DEF Inv
<1>1. CASE Start
    BY <1>1, StartInv
<1>2. CASE \E c \in Clients, k \in Keys, path \in {"lookup", "public"} :
                Request(c, k, path)
    <2>1. PICK c \in Clients, k \in Keys, path \in {"lookup", "public"} :
                Request(c, k, path)
        BY <1>2
    <2>2. /\ c \in Procs /\ pc[c] = "idle" /\ ReadSettings(c, k, path)
          /\ rows' = rows /\ cache' = cache /\ change' = change
        BY <2>1 DEF Request, Procs, writing
    <2> QED
        BY <2>2, BeginInv
<1>3. CASE \E p \in Procs : Progress(p)
    BY <1>3, WriteInv, LookInv, ReadTableInv, UpsertInv, ReplyInv
    DEF Progress, Compute
<1>4. CASE \E p \in Procs : StepFails(p)
    BY <1>4, StepFailsInv
<1>5. CASE \E w \in Workers, d \in Kinds, r \in 0 .. MaxRetry : TakeTask(w, d, r)
    <2>1. PICK w \in Workers, d \in Kinds, r \in 0 .. MaxRetry : TakeTask(w, d, r)
        BY <1>5
    <2>2. /\ w \in Procs /\ pc[w] = "idle"
          /\ ReadSettings(w, Work(d)[1], "heartbeats")
          /\ rows' = rows /\ cache' = cache /\ change' = change
        BY <2>1 DEF TakeTask, Procs, writing
    <2> QED
        BY <2>2, BeginInv
<1>6. CASE (\E k \in ProjectKeys : LockExpires(k)) \/ UNCHANGED vars
    <2>1. /\ rows' = rows /\ cache' = cache /\ pc' = pc /\ view' = view
          /\ missed' = missed /\ change' = change
        BY <1>6 DEF LockExpires, vars, reading, writing
    <2>2. \A q \in Procs : Unmarked(q)' = Unmarked(q)
        BY <2>1 DEF Unmarked
    <2> QED
        BY <2>1, <2>2 DEF Inv, CurrentUnlessMissed, ViewsCurrentUnlessMissed
<1> QED
    BY <1>1, <1>2, <1>3, <1>4, <1>5, <1>6 DEF Next

\* In every reachable state a cache row that claims to be up to date agrees
\* with the database on every row that was not written while its data was
\* computed and whose writer has marked the cache, and a computation under way
\* holds what the tables it has read held, but for what was written behind its
\* back.
THEOREM UpToDateUnlessMissedAlways == Spec => []UpToDateUnlessMissed
<1>1. Inv => UpToDateUnlessMissed
    BY DEF Inv, UpToDateUnlessMissed
<1> QED
    BY InvInit, InvNext, <1>1, PTL DEF Spec

=============================================================================
