------------------------ MODULE PricingRefreshProofs ------------------------
(***************************************************************************)
(* Proofs about PricingRefresh, for every number of tasks and processes and *)
(* every bound on the versions and the writes.                              *)
(***************************************************************************)
EXTENDS PricingRefresh, TLAPS

Rows == [version : Versions, at : -1 .. MaxStamp]
Snapshots == [version : Versions, ok : BOOLEAN, at : 0 .. MaxStamp]
Fetches == [at : {"idle", "fetch", "got", "ok", "error"}, got : 0 .. Junk,
            stamp : 0 .. MaxStamp]

\* While the refreshes of source s do not overlap, tables only get newer on
\* their way from the source through the one task that fetches it, the stored
\* row and the row a sync has read to the processes.
InOrder(s) ==
    /\ \A t, u \in Tasks :
          fetch[t][s].at # "idle" /\ fetch[u][s].at # "idle" => t = u
    /\ \A t \in Tasks :
          fetch[t][s].at \in {"got", "ok"} /\ fetch[t][s].got # Junk =>
              fetch[t][s].got <= upstream[s] /\ snapshot[s].version <= fetch[t][s].got
    /\ snapshot[s].version <= upstream[s]
    /\ \A p \in Engines :
          /\ engine[p][s] <= snapshot[s].version
          /\ s = "litellm" /\ seen[p] \notin {NotSyncing, NoRow} =>
                engine[p][s] <= seen[p].version /\ seen[p].version <= snapshot[s].version

PricingInv ==
    /\ PricingTypeOK
    /\ \A t \in Tasks, s \in Sources :
          /\ fetch[t][s].at = "ok" => fetch[t][s].got # Junk
          /\ fetch[t][s].at \in {"got", "ok"} => fetch[t][s].got # Bundled
    /\ \A s \in Sources \ mixed : InOrder(s)

-----------------------------------------------------------------------------
(* Types.                                                                   *)

LEMMA Values ==
    /\ MaxVersion \in Nat /\ MaxStamp \in Nat /\ Junk \in Nat /\ Junk > MaxVersion
    /\ 1 \in 1 .. MaxVersion /\ Bundled \in Versions /\ Versions \subseteq Int
    /\ NoRow \in Rows /\ NotSyncing \in Rows /\ NoFetch \in Fetches
    /\ NoFetch.at = "idle"
<1>1. /\ MaxVersion \in Nat /\ MaxStamp \in Nat /\ Junk \in Nat /\ Junk > MaxVersion
      /\ 1 \in 1 .. MaxVersion /\ Bundled \in Versions /\ Versions \subseteq Int
    BY PricingAssumption DEF Junk, Bundled, Versions
<1>2. 0 \in 0 .. MaxStamp /\ 0 \in -1 .. MaxStamp /\ -1 \in -1 .. MaxStamp /\ 0 \in 0 .. Junk
    BY <1>1
<1> QED
    BY <1>1, <1>2 DEF NoRow, NotSyncing, NoFetch, Rows, Fetches, Bundled

LEMMA RowType ==
    ASSUME PricingTypeOK, NEW s \in Sources
    PROVE  /\ PriceRow(s) \in Rows /\ PriceRow(s) # NotSyncing /\ PriceRow(s).at \in 0 .. MaxStamp
           /\ PriceRow(s) # NoRow => snapshot[s].ok /\ PriceRow(s).version = snapshot[s].version
<1>1. snapshot[s] \in Snapshots
    BY DEF PricingTypeOK, Snapshots
<1>2. CASE snapshot[s].ok
    <2>1. PriceRow(s) = [version |-> snapshot[s].version, at |-> snapshot[s].at]
        BY <1>2 DEF PriceRow
    <2>2. snapshot[s].at \in -1 .. MaxStamp /\ snapshot[s].at # -1
        BY <1>1, Values DEF Snapshots
    <2> QED
        BY <1>1, <1>2, <2>1, <2>2 DEF Rows, Snapshots, NotSyncing
<1>3. CASE ~snapshot[s].ok
    BY <1>3, Values DEF PriceRow, NoRow, NotSyncing
<1> QED
    BY <1>2, <1>3

LEMMA IntegerValues ==
    ASSUME PricingTypeOK
    PROVE  /\ \A s \in Sources : upstream[s] \in Int /\ snapshot[s].version \in Int
           /\ \A t \in Tasks, s \in Sources : fetch[t][s].got \in Int
           /\ \A p \in Engines : \A s \in Sources : engine[p][s] \in Int /\ Bundled <= engine[p][s]
           /\ \A p \in Engines : seen[p].version \in Int
           /\ \A s \in Sources : Bundled <= snapshot[s].version
<1>1. \A v \in Versions : v \in Int /\ Bundled <= v
    BY PricingAssumption DEF Versions, Bundled
<1>2. \A s \in Sources : upstream[s] \in 1 .. MaxVersion /\ snapshot[s].version \in Versions
    BY DEF PricingTypeOK
<1>3. \A t \in Tasks, s \in Sources : fetch[t][s].got \in 0 .. Junk
    BY DEF PricingTypeOK
<1>4. \A p \in Engines : \A s \in Sources : engine[p][s] \in Versions
    BY DEF PricingTypeOK
<1>5. \A p \in Engines : seen[p].version \in Versions
    BY DEF PricingTypeOK
<1> QED
    BY <1>1, <1>2, <1>3, <1>4, <1>5

LEMMA PricingTypeInit == PricingInit => PricingTypeOK
<1>1. ASSUME PricingInit PROVE PricingTypeOK
    <2>1. [version |-> Bundled, ok |-> FALSE, at |-> 0] \in Snapshots
        BY Values DEF Snapshots
    <2>2. 0 \in 0 .. MaxStamp
        BY Values
    <2> QED
        BY <1>1, <2>1, <2>2, Values
        DEF PricingInit, PricingTypeOK, Snapshots, Fetches, Rows
<1> QED
    BY <1>1

\* Setting what a task does with a source.
LEMMA FetchType ==
    ASSUME fetch \in [Tasks -> [Sources -> Fetches]], NEW t \in Tasks, NEW s \in Sources,
           NEW f \in Fetches, fetch' = [fetch EXCEPT ![t][s] = f]
    PROVE  /\ fetch' \in [Tasks -> [Sources -> Fetches]]
           /\ fetch'[t][s] = f
           /\ \A u \in Tasks, r \in Sources : u # t \/ r # s => fetch'[u][r] = fetch[u][r]
OBVIOUS

\* What the steps of a task with a source make of it.
LEMMA FetchSteps ==
    ASSUME PricingTypeOK, NEW t \in Tasks, NEW s \in Sources
    PROVE  /\ Fetched(t, s) => \E v \in {upstream[s], Junk}, f \in Fetches :
                 f.at = "got" /\ f.got = v /\ fetch' = [fetch EXCEPT ![t][s] = f]
           /\ BeginWrite(t, s) => \E f \in Fetches :
                 /\ f.at \in {"ok", "error"} /\ f.got = fetch[t][s].got
                 /\ f.at = "ok" => f.got # Junk
                 /\ fetch' = [fetch EXCEPT ![t][s] = f]
           /\ BeginWrite(t, s) => stamp' \in 0 .. MaxStamp
<1>1. fetch[t][s] \in Fetches /\ upstream[s] \in 1 .. MaxVersion /\ stamp \in 0 .. MaxStamp
    BY DEF PricingTypeOK, Fetches
<1>2. upstream[s] \in 0 .. Junk /\ Junk \in 0 .. Junk
    BY <1>1, PricingAssumption DEF Junk
<1>3. ASSUME Fetched(t, s)
      PROVE  \E v \in {upstream[s], Junk}, f \in Fetches :
                f.at = "got" /\ f.got = v /\ fetch' = [fetch EXCEPT ![t][s] = f]
    <2>1. PICK v \in {upstream[s], Junk} :
            fetch' = [fetch EXCEPT ![t][s] = [fetch[t][s] EXCEPT !.at = "got", !.got = v]]
        BY <1>3 DEF Fetched
    <2>2. v \in 0 .. Junk
        BY <1>2
    <2> DEFINE f == [fetch[t][s] EXCEPT !.at = "got", !.got = v]
    <2>3. f \in Fetches /\ f.at = "got" /\ f.got = v
        BY <1>1, <2>2 DEF Fetches
    <2> HIDE DEF f
    <2> QED
        BY <2>1, <2>3 DEF f
<1>4. ASSUME BeginWrite(t, s)
      PROVE  /\ stamp' \in 0 .. MaxStamp
             /\ \E f \in Fetches :
                 /\ f.at \in {"ok", "error"} /\ f.got = fetch[t][s].got
                 /\ f.at = "ok" => f.got # Junk
                 /\ fetch' = [fetch EXCEPT ![t][s] = f]
    <2>1. /\ stamp < MaxStamp /\ stamp' = stamp + 1
          /\ fetch' = [fetch EXCEPT ![t][s] = [fetch[t][s] EXCEPT
                !.at = IF Parses(fetch[t][s].got) THEN "ok" ELSE "error", !.stamp = stamp + 1]]
        BY <1>4 DEF BeginWrite
    <2>2. stamp + 1 \in 0 .. MaxStamp
        BY <1>1, <2>1, PricingAssumption
    <2> DEFINE f == [fetch[t][s] EXCEPT
                !.at = IF Parses(fetch[t][s].got) THEN "ok" ELSE "error", !.stamp = stamp + 1]
    <2>3. /\ f \in Fetches /\ f.at \in {"ok", "error"} /\ f.got = fetch[t][s].got
          /\ f.at = "ok" => f.got # Junk
        BY <1>1, <2>2 DEF Fetches, Parses
    <2> HIDE DEF f
    <2> QED
        BY <2>1, <2>2, <2>3 DEF f
<1> QED
    BY <1>3, <1>4

\* The row a commit stores.
LEMMA CommitSteps ==
    ASSUME PricingTypeOK, NEW t \in Tasks, NEW s \in Sources, CommitWrite(t, s),
           fetch[t][s].at = "ok" => fetch[t][s].got \notin {Junk, Bundled}
    PROVE  \E row \in Snapshots :
              /\ row.ok => row.version # Bundled
              /\ \/ fetch[t][s].at = "ok" /\ row.version = fetch[t][s].got
                 \/ fetch[t][s].at = "error" /\ row.version = snapshot[s].version /\ ~row.ok
              /\ snapshot' = [snapshot EXCEPT ![s] = row]
<1>1. fetch[t][s] \in Fetches /\ snapshot[s] \in Snapshots /\ fetch[t][s].at \in {"ok", "error"}
    BY DEF PricingTypeOK, Fetches, Snapshots, CommitWrite
<1>2. CASE fetch[t][s].at = "ok"
    <2> DEFINE row == [version |-> fetch[t][s].got, ok |-> TRUE, at |-> fetch[t][s].stamp]
    <2>1. fetch[t][s].got \in Versions
        BY <1>1, <1>2, PricingAssumption DEF Fetches, Versions, Junk, Bundled
    <2>2. row \in Snapshots /\ row.version = fetch[t][s].got
        BY <1>1, <2>1 DEF Snapshots, Fetches
    <2>3. snapshot' = [snapshot EXCEPT ![s] = row]
        BY <1>2 DEF CommitWrite
    <2> HIDE DEF row
    <2> QED
        BY <1>2, <2>2, <2>3
<1>3. CASE fetch[t][s].at = "error"
    <2> DEFINE row == [snapshot[s] EXCEPT !.ok = FALSE, !.at = fetch[t][s].stamp]
    <2>1. row \in Snapshots /\ row.version = snapshot[s].version /\ ~row.ok
        BY <1>1 DEF Snapshots, Fetches
    <2>2. snapshot' = [snapshot EXCEPT ![s] = row]
        BY <1>3 DEF CommitWrite
    <2> HIDE DEF row
    <2> QED
        BY <1>3, <2>1, <2>2
<1> QED
    BY <1>1, <1>2, <1>3

-----------------------------------------------------------------------------
(* The steps of the tasks.                                                  *)

LEMMA PublishKeeps ==
    ASSUME PricingInv, NEW s \in Sources, Publish(s)
    PROVE  PricingInv'
<1>1. /\ upstream \in [Sources -> 1 .. MaxVersion] /\ upstream[s] < MaxVersion
      /\ upstream' = [upstream EXCEPT ![s] = upstream[s] + 1]
      /\ UNCHANGED <<snapshot, fetch, stamp, mixed, engine, since, seen>>
    BY DEF Publish, processVars, PricingInv, PricingTypeOK
<1>2. upstream[s] + 1 \in 1 .. MaxVersion
    BY <1>1, PricingAssumption
<1>3. upstream' \in [Sources -> 1 .. MaxVersion]
    BY <1>1, <1>2
<1>4. \A r \in Sources : upstream[r] <= upstream'[r]
    BY <1>1, PricingAssumption
<1>5. \A r \in Sources : upstream[r] \in Int /\ upstream'[r] \in Int /\ snapshot[r].version \in Int
    BY <1>1, <1>3, IntegerValues DEF PricingInv
<1>6. \A t \in Tasks, r \in Sources : fetch[t][r].got \in Int
    BY IntegerValues DEF PricingInv
<1>7. ASSUME NEW r \in Sources \ mixed PROVE InOrder(r)'
    <2>1. InOrder(r)
        BY <1>7 DEF PricingInv
    <2> QED
        BY <1>1, <1>4, <1>5, <1>6, <2>1 DEF InOrder
<1> QED
    BY <1>1, <1>3, <1>7 DEF PricingInv, PricingTypeOK

LEMMA StartTaskKeeps ==
    ASSUME PricingInv, NEW t \in Tasks, StartTask(t)
    PROVE  PricingInv'
<1> DEFINE new == [NoFetch EXCEPT !.at = "fetch"]
<1>0. PricingTypeOK /\ fetch \in [Tasks -> [Sources -> Fetches]]
    BY DEF PricingInv, PricingTypeOK, Fetches
<1>1. new \in Fetches /\ new.at = "fetch"
    BY Values DEF Fetches, NoFetch
<1> HIDE DEF new
<1>2. /\ fetch' = [fetch EXCEPT ![t] = [s \in Sources |-> new]]
      /\ mixed' = mixed \cup {s \in Sources : \E u \in Tasks \ {t} : fetch[u][s].at # "idle"}
      /\ UNCHANGED <<upstream, snapshot, stamp, engine, since, seen>>
    BY DEF StartTask, processVars, new
<1>3. /\ fetch' \in [Tasks -> [Sources -> Fetches]]
      /\ \A s \in Sources : fetch'[t][s] = new
      /\ \A u \in Tasks \ {t}, s \in Sources : fetch'[u][s] = fetch[u][s]
    BY <1>0, <1>1, <1>2
<1>4. PricingTypeOK'
    BY <1>0, <1>2, <1>3 DEF PricingTypeOK, Fetches
<1>5. \A u \in Tasks, s \in Sources :
        /\ fetch'[u][s].at = "ok" => fetch'[u][s].got # Junk
        /\ fetch'[u][s].at \in {"got", "ok"} => fetch'[u][s].got # Bundled
    BY <1>1, <1>3 DEF PricingInv
<1>6. ASSUME NEW s \in Sources \ mixed' PROVE InOrder(s)'
    <2>1. InOrder(s) /\ \A u \in Tasks \ {t} : fetch[u][s].at = "idle"
        BY <1>2, <1>6 DEF PricingInv
    <2>2. \A u \in Tasks \ {t} : fetch'[u][s].at = "idle"
        BY <1>3, <2>1
    <2> QED
        BY <1>1, <1>2, <1>3, <2>1, <2>2 DEF InOrder
<1> QED
    BY <1>4, <1>5, <1>6 DEF PricingInv

\* A step of task t with source s that stores nothing.
LEMMA FetchKeeps ==
    ASSUME PricingInv, NEW t \in Tasks, NEW s \in Sources, NEW f \in Fetches,
           fetch' = [fetch EXCEPT ![t][s] = f],
           fetch[t][s].at # "idle" \/ f.at = "idle",
           f.at = "ok" => f.got # Junk,
           f.at \in {"got", "ok"} =>
              \/ f.got \in {upstream[s], Junk}
              \/ f.got = fetch[t][s].got /\ fetch[t][s].at = "got",
           stamp' \in 0 .. MaxStamp,
           UNCHANGED <<upstream, snapshot, mixed, engine, since, seen>>
    PROVE  PricingInv'
<1>0. /\ PricingTypeOK /\ fetch \in [Tasks -> [Sources -> Fetches]]
      /\ upstream[s] \in 1 .. MaxVersion
    BY DEF PricingInv, PricingTypeOK, Fetches
<1>1. /\ fetch' \in [Tasks -> [Sources -> Fetches]]
      /\ fetch'[t][s] = f
      /\ \A u \in Tasks, r \in Sources : u # t \/ r # s => fetch'[u][r] = fetch[u][r]
    BY <1>0, FetchType
<1>2. PricingTypeOK'
    BY <1>0, <1>1 DEF PricingTypeOK, Fetches
<1>3. f.at \in {"got", "ok"} => f.got # Bundled
    BY <1>0, PricingAssumption DEF PricingInv, Junk, Bundled
<1>4. \A u \in Tasks, r \in Sources :
        /\ fetch'[u][r].at = "ok" => fetch'[u][r].got # Junk
        /\ fetch'[u][r].at \in {"got", "ok"} => fetch'[u][r].got # Bundled
    BY <1>1, <1>3 DEF PricingInv
<1>5. ASSUME NEW r \in Sources \ mixed' PROVE InOrder(r)'
    <2>1. InOrder(r)
        BY <1>5 DEF PricingInv
    <2>2. CASE r # s
        <3>1. \A u \in Tasks : fetch'[u][r] = fetch[u][r]
            BY <1>1, <2>2
        <3> QED
            BY <2>1, <3>1 DEF InOrder
    <2>3. CASE r = s
        <3>1. \A u \in Tasks : fetch'[u][s].at # "idle" => fetch[u][s].at # "idle"
            BY <1>1
        <3>2. \A u \in Tasks : u # t => fetch'[u][s] = fetch[u][s]
            BY <1>1
        <3>3. f.at \in {"got", "ok"} /\ f.got # Junk =>
                f.got <= upstream[s] /\ snapshot[s].version <= f.got
            BY <1>0, <2>1, <2>3, PricingAssumption DEF InOrder
        <3> QED
            BY <1>1, <2>1, <2>3, <3>1, <3>2, <3>3 DEF InOrder
    <2> QED
        BY <2>2, <2>3
<1> QED
    BY <1>2, <1>4, <1>5 DEF PricingInv

LEMMA CommitKeeps ==
    ASSUME PricingInv, NEW t \in Tasks, NEW s \in Sources, CommitWrite(t, s)
    PROVE  PricingInv'
<1>0. /\ PricingTypeOK /\ fetch \in [Tasks -> [Sources -> Fetches]]
      /\ snapshot \in [Sources -> Snapshots]
      /\ fetch[t][s].at = "ok" => fetch[t][s].got \notin {Junk, Bundled}
      /\ fetch[t][s].at # "idle"
    BY DEF PricingInv, PricingTypeOK, Fetches, Snapshots, CommitWrite
<1>1. PICK row \in Snapshots :
        /\ row.ok => row.version # Bundled
        /\ \/ fetch[t][s].at = "ok" /\ row.version = fetch[t][s].got
           \/ fetch[t][s].at = "error" /\ row.version = snapshot[s].version /\ ~row.ok
        /\ snapshot' = [snapshot EXCEPT ![s] = row]
    BY <1>0, CommitSteps
<1>2. /\ fetch' = [fetch EXCEPT ![t][s] = NoFetch]
      /\ UNCHANGED <<upstream, stamp, mixed, engine, since, seen>>
    BY DEF CommitWrite, processVars
<1>3. /\ fetch' \in [Tasks -> [Sources -> Fetches]]
      /\ fetch'[t][s] = NoFetch
      /\ \A u \in Tasks, r \in Sources : u # t \/ r # s => fetch'[u][r] = fetch[u][r]
    BY <1>0, <1>2, FetchType, Values
<1>4. /\ snapshot' \in [Sources -> Snapshots] /\ snapshot'[s] = row
      /\ \A r \in Sources : r # s => snapshot'[r] = snapshot[r]
    BY <1>0, <1>1
<1>5. PricingTypeOK'
    <2>1. \A r \in Sources : snapshot'[r].ok => snapshot'[r].version # Bundled
        BY <1>0, <1>1, <1>4 DEF PricingTypeOK
    <2> QED
        BY <1>0, <1>2, <1>3, <1>4, <2>1 DEF PricingTypeOK, Fetches, Snapshots
<1>6. \A u \in Tasks, r \in Sources :
        /\ fetch'[u][r].at = "ok" => fetch'[u][r].got # Junk
        /\ fetch'[u][r].at \in {"got", "ok"} => fetch'[u][r].got # Bundled
    BY <1>3, Values DEF PricingInv
<1>7. ASSUME NEW r \in Sources \ mixed' PROVE InOrder(r)'
    <2>1. InOrder(r)
        BY <1>2, <1>7 DEF PricingInv
    <2>2. CASE r # s
        <3>1. snapshot'[r] = snapshot[r] /\ \A u \in Tasks : fetch'[u][r] = fetch[u][r]
            BY <1>3, <1>4, <2>2
        <3> QED
            BY <1>2, <2>1, <3>1 DEF InOrder
    <2>3. CASE r = s
        <3>1. \A u \in Tasks : fetch'[u][s].at = "idle"
            BY <1>0, <1>3, <2>1, <2>3, Values DEF InOrder
        <3>2. /\ row.version \in Int /\ snapshot[s].version \in Int
              /\ snapshot[s].version <= row.version /\ row.version <= upstream[s]
            <4>1. snapshot[s].version \in Int /\ fetch[t][s].got \in Int
                BY <1>0, IntegerValues
            <4>2. snapshot[s].version <= upstream[s]
                BY <2>1, <2>3 DEF InOrder
            <4>3. fetch[t][s].at = "ok" =>
                    /\ fetch[t][s].got <= upstream[s]
                    /\ snapshot[s].version <= fetch[t][s].got
                BY <1>0, <2>1, <2>3 DEF InOrder
            <4> QED
                BY <1>1, <4>1, <4>2, <4>3
        <3>3. \A p \in Engines : engine[p][s] \in Int /\ seen[p].version \in Int
            BY <1>0, IntegerValues
        <3> QED
            BY <1>2, <1>4, <2>1, <2>3, <3>1, <3>2, <3>3 DEF InOrder
    <2> QED
        BY <2>2, <2>3
<1> QED
    BY <1>5, <1>6, <1>7 DEF PricingInv

\* Fetching and writing, up to the commit, and giving a source up.
LEMMA TaskStepKeeps ==
    ASSUME PricingInv, NEW t \in Tasks, NEW s \in Sources,
           Fetched(t, s) \/ BeginWrite(t, s) \/ LoseWrite(t, s)
    PROVE  PricingInv'
<1>0. PricingTypeOK /\ stamp \in 0 .. MaxStamp
    BY DEF PricingInv, PricingTypeOK
<1>1. CASE Fetched(t, s)
    <2>1. PICK v \in {upstream[s], Junk}, f \in Fetches :
            f.at = "got" /\ f.got = v /\ fetch' = [fetch EXCEPT ![t][s] = f]
        BY <1>0, <1>1, FetchSteps
    <2>2. /\ fetch[t][s].at = "fetch"
          /\ UNCHANGED <<upstream, snapshot, stamp, mixed, engine, since, seen>>
        BY <1>1 DEF Fetched, processVars
    <2> QED
        BY <1>0, <2>1, <2>2, FetchKeeps
<1>2. CASE BeginWrite(t, s)
    <2>1. PICK f \in Fetches :
            /\ f.at \in {"ok", "error"} /\ f.got = fetch[t][s].got
            /\ f.at = "ok" => f.got # Junk
            /\ fetch' = [fetch EXCEPT ![t][s] = f]
        BY <1>0, <1>2, FetchSteps
    <2>2. stamp' \in 0 .. MaxStamp
        BY <1>0, <1>2, FetchSteps
    <2>3. /\ fetch[t][s].at = "got"
          /\ UNCHANGED <<upstream, snapshot, mixed, engine, since, seen>>
        BY <1>2 DEF BeginWrite, processVars
    <2> QED
        BY <2>1, <2>2, <2>3, FetchKeeps
<1>3. CASE LoseWrite(t, s)
    <2>1. /\ fetch' = [fetch EXCEPT ![t][s] = NoFetch]
          /\ UNCHANGED <<upstream, snapshot, stamp, mixed, engine, since, seen>>
        BY <1>3 DEF LoseWrite, processVars
    <2>2. NoFetch \in Fetches /\ NoFetch.at = "idle"
        BY Values
    <2> QED
        BY <1>0, <2>1, <2>2, FetchKeeps
<1> QED
    BY <1>1, <1>2, <1>3

-----------------------------------------------------------------------------
(* The steps of the processes.                                              *)

\* A process reads the litellm row, or gives up its sync.
LEMMA SeenKeeps ==
    ASSUME PricingInv, NEW p \in Engines, SyncFirst(p) \/ SyncFails(p)
    PROVE  PricingInv'
<1> DEFINE row == IF SyncFirst(p) THEN PriceRow("litellm") ELSE NotSyncing
<1>0. PricingTypeOK /\ seen \in [Engines -> Rows] /\ "litellm" \in Sources
    BY DEF PricingInv, PricingTypeOK, Rows, Sources
<1>1. /\ row \in Rows
      /\ row \notin {NotSyncing, NoRow} => row.version = snapshot["litellm"].version
    BY <1>0, RowType, Values
<1>2. /\ seen' = [seen EXCEPT ![p] = row]
      /\ UNCHANGED <<engine, since, upstream, snapshot, fetch, stamp, mixed>>
    <2>1. NotSyncing # NoRow
        BY DEF NotSyncing, NoRow
    <2> QED
        BY <2>1 DEF SyncFirst, SyncFails, storeVars
<1> HIDE DEF row
<1>3. /\ seen' \in [Engines -> Rows] /\ seen'[p] = row
      /\ \A q \in Engines : q # p => seen'[q] = seen[q]
    BY <1>0, <1>1, <1>2
<1>4. PricingTypeOK'
    BY <1>0, <1>2, <1>3 DEF PricingTypeOK, Rows
<1>5. ASSUME NEW s \in Sources \ mixed' PROVE InOrder(s)'
    <2>1. InOrder(s)
        BY <1>2, <1>5 DEF PricingInv
    <2>2. /\ \A q \in Engines : engine[q][s] \in Int
          /\ snapshot[s].version \in Int
        BY <1>0, IntegerValues
    <2>3. ASSUME NEW q \in Engines, s = "litellm", seen'[q] \notin {NotSyncing, NoRow}
          PROVE  engine[q][s] <= seen'[q].version /\ seen'[q].version <= snapshot[s].version
        <3>1. CASE q = p
            BY <1>1, <1>3, <2>1, <2>2, <2>3, <3>1 DEF InOrder
        <3>2. CASE q # p
            BY <1>3, <2>1, <2>3, <3>2 DEF InOrder
        <3> QED
            BY <3>1, <3>2
    <2> QED
        BY <1>2, <2>1, <2>3 DEF InOrder
<1> QED
    BY <1>2, <1>4, <1>5 DEF PricingInv

\* What the second half of a sync does to the prices of its process.
LEMMA SyncSecondLoads ==
    ASSUME PricingInv, NEW p \in Engines, SyncSecond(p)
    PROVE  /\ engine' \in [Engines -> [Sources -> Versions]]
           /\ since' \in [Engines -> 0 .. MaxStamp]
           /\ \A q \in Engines : q # p => engine'[q] = engine[q]
           /\ \A s \in Sources :
                 \/ engine'[p][s] = engine[p][s]
                 \/ s = "litellm" /\ seen[p] # NoRow /\ engine'[p][s] = seen[p].version
                 \/ s = "openrouter" /\ engine'[p][s] = snapshot[s].version
<1> DEFINE litellm == seen[p]
           openrouter == PriceRow("openrouter")
           newest == Newest(litellm, openrouter)
           loaded == [s \in Sources |->
                        Layer(IF s = "litellm" THEN litellm ELSE openrouter, engine[p][s])]
<1>0. /\ PricingTypeOK /\ seen \in [Engines -> Rows] /\ seen[p] \in Rows
      /\ since \in [Engines -> 0 .. MaxStamp]
      /\ engine \in [Engines -> [Sources -> Versions]]
      /\ seen[p] # NotSyncing /\ "openrouter" \in Sources
    BY DEF PricingInv, PricingTypeOK, Rows, Sources, SyncSecond
<1>1. /\ openrouter \in Rows /\ openrouter.at \in 0 .. MaxStamp
      /\ openrouter # NoRow => openrouter.version = snapshot["openrouter"].version
    BY <1>0, RowType
<1>2. \/ UNCHANGED <<engine, since>>
      \/ /\ newest > since[p]
         /\ engine' = [engine EXCEPT ![p] = loaded]
         /\ since' = [since EXCEPT ![p] = newest]
    BY <1>0 DEF SyncSecond
<1>3. loaded \in [Sources -> Versions]
    BY <1>0, <1>1 DEF Layer, Rows
<1>4. \A s \in Sources :
        \/ loaded[s] = engine[p][s]
        \/ s = "litellm" /\ seen[p] # NoRow /\ loaded[s] = seen[p].version
        \/ s = "openrouter" /\ loaded[s] = snapshot[s].version
    BY <1>1 DEF Layer, Sources
<1>5. newest > since[p] => newest \in 0 .. MaxStamp
    BY <1>0, <1>1, PricingAssumption DEF Newest, Rows
<1> HIDE DEF loaded, newest
<1>6. CASE UNCHANGED <<engine, since>>
    BY <1>0, <1>6
<1>7. CASE /\ newest > since[p]
           /\ engine' = [engine EXCEPT ![p] = loaded]
           /\ since' = [since EXCEPT ![p] = newest]
    <2>1. since' \in [Engines -> 0 .. MaxStamp]
        BY <1>0, <1>5, <1>7
    <2>2. /\ engine' \in [Engines -> [Sources -> Versions]] /\ engine'[p] = loaded
          /\ \A q \in Engines : q # p => engine'[q] = engine[q]
        BY <1>0, <1>3, <1>7
    <2> QED
        BY <1>4, <2>1, <2>2
<1> QED
    BY <1>2, <1>6, <1>7

LEMMA SyncSecondKeeps ==
    ASSUME PricingInv, NEW p \in Engines, SyncSecond(p)
    PROVE  PricingInv'
<1>0. PricingTypeOK /\ seen \in [Engines -> Rows] /\ seen[p] # NotSyncing
    BY DEF PricingInv, PricingTypeOK, Rows, SyncSecond
<1>1. /\ seen' = [seen EXCEPT ![p] = NotSyncing]
      /\ UNCHANGED <<upstream, snapshot, fetch, stamp, mixed>>
    BY DEF SyncSecond, storeVars
<1>2. /\ seen' \in [Engines -> Rows] /\ seen'[p] = NotSyncing
      /\ \A q \in Engines : q # p => seen'[q] = seen[q]
    BY <1>0, <1>1, Values
<1>3. PricingTypeOK'
    BY <1>0, <1>1, <1>2, SyncSecondLoads DEF PricingTypeOK, Rows
<1>4. ASSUME NEW s \in Sources \ mixed' PROVE InOrder(s)'
    <2>1. InOrder(s)
        BY <1>1, <1>4 DEF PricingInv
    <2>2. snapshot[s].version \in Int /\ engine[p][s] \in Int
        BY <1>0, IntegerValues
    <2>3. engine'[p][s] <= snapshot[s].version
        BY <1>0, <2>1, <2>2, SyncSecondLoads DEF InOrder
    <2>4. \A q \in Engines : q # p => engine'[q] = engine[q]
        BY SyncSecondLoads
    <2> QED
        BY <1>1, <1>2, <2>1, <2>3, <2>4 DEF InOrder
<1> QED
    BY <1>1, <1>3, <1>4 DEF PricingInv

LEMMA RestartKeeps ==
    ASSUME PricingInv, NEW p \in Engines, Restart(p)
    PROVE  PricingInv'
<1>0. /\ PricingTypeOK /\ seen \in [Engines -> Rows]
      /\ since \in [Engines -> 0 .. MaxStamp]
      /\ engine \in [Engines -> [Sources -> Versions]]
    BY DEF PricingInv, PricingTypeOK, Rows
<1>1. /\ engine' = [engine EXCEPT ![p] = [s \in Sources |-> Bundled]]
      /\ since' = [since EXCEPT ![p] = 0]
      /\ seen' = [seen EXCEPT ![p] = NotSyncing]
      /\ UNCHANGED <<upstream, snapshot, fetch, stamp, mixed>>
    BY DEF Restart, storeVars
<1>2. 0 \in 0 .. MaxStamp
    BY PricingAssumption
<1>3. /\ seen' \in [Engines -> Rows] /\ seen'[p] = NotSyncing
      /\ \A q \in Engines : q # p => seen'[q] = seen[q]
    BY <1>0, <1>1, Values
<1>4. /\ engine' \in [Engines -> [Sources -> Versions]]
      /\ \A s \in Sources : engine'[p][s] = Bundled
      /\ \A q \in Engines : q # p => engine'[q] = engine[q]
      /\ since' \in [Engines -> 0 .. MaxStamp]
    BY <1>0, <1>1, <1>2, Values
<1>5. PricingTypeOK'
    BY <1>0, <1>1, <1>3, <1>4 DEF PricingTypeOK, Rows
<1>6. ASSUME NEW s \in Sources \ mixed' PROVE InOrder(s)'
    <2>1. InOrder(s)
        BY <1>1, <1>6 DEF PricingInv
    <2>2. Bundled <= snapshot[s].version
        BY <1>0, IntegerValues
    <2> QED
        BY <1>1, <1>3, <1>4, <2>1, <2>2 DEF InOrder
<1> QED
    BY <1>1, <1>5, <1>6 DEF PricingInv

-----------------------------------------------------------------------------
(* The invariant and the theorems.                                          *)

LEMMA InvInit == PricingInit => PricingInv
<1>1. ASSUME PricingInit PROVE PricingInv
    <2>1. PricingTypeOK
        BY <1>1, PricingTypeInit
    <2>2. \A t \in Tasks, s \in Sources : fetch[t][s].at = "idle"
        BY <1>1, Values DEF PricingInit
    <2>3. ASSUME NEW s \in Sources PROVE InOrder(s)
        <3>1. upstream[s] = 1 /\ snapshot[s].version = Bundled
            BY <1>1 DEF PricingInit
        <3>2. \A p \in Engines : engine[p][s] = Bundled /\ seen[p] = NotSyncing
            BY <1>1 DEF PricingInit
        <3> QED
            BY <2>2, <3>1, <3>2 DEF InOrder, Bundled
    <2> QED
        BY <2>1, <2>2, <2>3 DEF PricingInv
<1> QED
    BY <1>1

LEMMA InvNext == PricingInv /\ [PricingNext]_pricingVars => PricingInv'
<1>1. ASSUME PricingInv, PricingNext PROVE PricingInv'
    BY <1>1, PublishKeeps, StartTaskKeeps, TaskStepKeeps, CommitKeeps, SeenKeeps,
       SyncSecondKeeps, RestartKeeps, Zenon
    DEF PricingNext
<1>2. ASSUME PricingInv, UNCHANGED pricingVars PROVE PricingInv'
    BY <1>2 DEF PricingInv, PricingTypeOK, InOrder, pricingVars
<1> QED
    BY <1>1, <1>2

\* Tables, rows, marks and answers have their types, and a row that is in
\* order never stores the table a process starts with.
THEOREM PricingInvariant == PricingSpec => []PricingInv
    BY InvInit, InvNext, PTL DEF PricingSpec

\* The types alone (UpsertPricingSnapshot, pricing_snapshots.go:30-62; Sync,
\* refresh.go:24-69).
THEOREM PricingTyped == PricingSpec => []PricingTypeOK
<1>1. PricingInv => PricingTypeOK
    BY DEF PricingInv
<1> QED
    BY <1>1, PricingInvariant, PTL

LEMMA StepNeverGoesBack ==
    ASSUME PricingInv, PricingNext, NEW p \in Engines, NEW s \in Sources,
           engine[p][s]' < engine[p][s]
    PROVE  s \in mixed \/ since[p]' = 0
<1>0. PricingTypeOK /\ engine[p][s] \in Int
    BY IntegerValues DEF PricingInv
<1>1. CASE UNCHANGED engine
    BY <1>0, <1>1
<1>2. ASSUME NEW q \in Engines, SyncSecond(q) PROVE s \in mixed \/ since[p]' = 0
    <2>1. CASE q # p
        BY <1>0, <1>2, <2>1, SyncSecondLoads
    <2>2. CASE q = p
        <3>1. SUFFICES ASSUME s \notin mixed PROVE engine[p][s] <= engine'[p][s]
            <4>1. /\ engine' \in [Engines -> [Sources -> Versions]]
                BY <1>2, <2>2, SyncSecondLoads
            <4>2. engine'[p][s] \in Int
                BY <4>1, Values
            <4> QED
                BY <1>0, <4>2
        <3>2. InOrder(s)
            BY <3>1 DEF PricingInv
        <3>3. seen[p] # NotSyncing
            BY <1>2, <2>2 DEF SyncSecond
        <3> QED
            BY <1>0, <1>2, <2>2, <3>2, <3>3, SyncSecondLoads DEF InOrder
    <2> QED
        BY <2>1, <2>2
<1>3. ASSUME NEW q \in Engines, Restart(q) PROVE s \in mixed \/ since[p]' = 0
    <2>1. engine \in [Engines -> [Sources -> Versions]] /\ since \in [Engines -> 0 .. MaxStamp]
        BY <1>0 DEF PricingTypeOK
    <2>2. CASE q = p
        BY <1>3, <2>1, <2>2 DEF Restart
    <2>3. CASE q # p
        BY <1>0, <1>3, <2>1, <2>3 DEF Restart
    <2> QED
        BY <2>2, <2>3
<1>4. \/ UNCHANGED engine
      \/ \E q \in Engines : SyncSecond(q) \/ Restart(q)
    BY DEF PricingNext, Publish, StartTask, Fetched, BeginWrite, CommitWrite, LoseWrite,
           SyncFirst, SyncFails, processVars
<1> QED
    BY <1>1, <1>2, <1>3, <1>4

\* While a process runs, a reload never puts an older table of a source in
\* force, whichever fetches and writes fail, unless two refreshes of the source
\* overlapped (Refresher.Sync and Engine.Reload).
THEOREM PricesOnlyGetNewer == PricingSpec => PricesNeverGoBack
<1>1. /\ PricingInv /\ [PricingNext]_pricingVars
      => [\A p \in Engines, s \in Sources :
            engine[p][s]' < engine[p][s] => s \in mixed \/ since[p]' = 0]_pricingVars
    BY StepNeverGoesBack
<1> QED
    BY <1>1, PricingInvariant, PTL DEF PricingSpec, PricesNeverGoBack

=============================================================================
