--------------------------- MODULE PricingRefresh ---------------------------
(***************************************************************************)
(* The refresh of model prices (internal/workers/pricing_worker.go,         *)
(* internal/db/pricing_snapshots.go, internal/pricingrefresh/refresh.go and *)
(* Engine.Reload of internal/pricing/pricing.go).                           *)
(*                                                                          *)
(* A task fetches the price tables of two sources side by side and stores   *)
(* what it got with the time its statement began; every process compares    *)
(* the newer of the two times with one high-water mark and reloads its      *)
(* prices.  The rows of the two sources are read one after the other, and a *)
(* row is seen only once its statement has committed.  Tables are versions, *)
(* and Bundled stands for the table a process starts with.                  *)
(***************************************************************************)
EXTENDS Integers

CONSTANTS
    Tasks,      \* refresh tasks that can run at a time: a scheduler per worker process
    Engines,    \* processes with a price engine
    MaxVersion, \* bound on the versions a source publishes
    MaxStamp    \* bound on the writes of snapshots

Sources == {"litellm", "openrouter"}
Bundled == 0
Junk == MaxVersion + 1 \* an answer that does not parse

ASSUME PricingAssumption == MaxVersion \in Nat \ {0} /\ MaxStamp \in Nat

VARIABLES
    upstream, \* the version each source serves
    snapshot, \* pricing_snapshots, by source
    fetch,    \* what each task is doing, by source
    engine,   \* the version of each process, by source
    since,    \* the high-water mark of each process
    seen,     \* the litellm row a sync has read, or NoRow
    stamp,    \* now(): the number of writes begun
    mixed     \* history: sources whose refreshes have overlapped

pricingVars == <<upstream, snapshot, fetch, engine, since, seen, stamp, mixed>>
processVars == <<engine, since, seen>>
storeVars == <<upstream, snapshot, fetch, stamp, mixed>>

Versions == Bundled .. MaxVersion
NoRow == [version |-> Bundled, at |-> 0]
NotSyncing == [version |-> Bundled, at |-> -1]
NoFetch == [at |-> "idle", got |-> Bundled, stamp |-> 0]

PricingTypeOK ==
    /\ upstream \in [Sources -> 1 .. MaxVersion]
    /\ snapshot \in [Sources -> [version : Versions, ok : BOOLEAN, at : 0 .. MaxStamp]]
    /\ \A s \in Sources : snapshot[s].ok => snapshot[s].version # Bundled
    /\ fetch \in [Tasks -> [Sources ->
            [at : {"idle", "fetch", "got", "ok", "error"},
             got : 0 .. Junk, stamp : 0 .. MaxStamp]]]
    /\ engine \in [Engines -> [Sources -> Versions]]
    /\ since \in [Engines -> 0 .. MaxStamp]
    /\ seen \in [Engines -> [version : Versions, at : -1 .. MaxStamp]]
    /\ stamp \in 0 .. MaxStamp
    /\ mixed \subseteq Sources

PricingInit ==
    /\ upstream = [s \in Sources |-> 1]
    /\ snapshot = [s \in Sources |-> [version |-> Bundled, ok |-> FALSE, at |-> 0]]
    /\ fetch = [t \in Tasks |-> [s \in Sources |-> NoFetch]]
    /\ engine = [p \in Engines |-> [s \in Sources |-> Bundled]]
    /\ since = [p \in Engines |-> 0]
    /\ seen = [p \in Engines |-> NotSyncing]
    /\ stamp = 0 /\ mixed = {}

Publish(s) ==
    /\ upstream[s] < MaxVersion
    /\ upstream' = [upstream EXCEPT ![s] = @ + 1]
    /\ UNCHANGED <<snapshot, fetch, stamp, mixed, processVars>>

-----------------------------------------------------------------------------
(* A refresh task.                                                          *)

StartTask(t) ==
    /\ \A s \in Sources : fetch[t][s].at = "idle"
    /\ fetch' = [fetch EXCEPT ![t] = [s \in Sources |-> [NoFetch EXCEPT !.at = "fetch"]]]
    /\ mixed' = mixed \cup {s \in Sources : \E u \in Tasks \ {t} : fetch[u][s].at # "idle"}
    /\ UNCHANGED <<upstream, snapshot, stamp, processVars>>

Parses(v) == v # Junk

\* Up to three attempts: the table of the last one, or no table.
Fetched(t, s) ==
    /\ fetch[t][s].at = "fetch"
    /\ \E v \in {upstream[s], Junk} :
        fetch' = [fetch EXCEPT ![t][s] = [@ EXCEPT !.at = "got", !.got = v]]
    /\ UNCHANGED <<upstream, snapshot, stamp, mixed, processVars>>

\* UpsertPricingSnapshot and MarkPricingSnapshotError take now() when they
\* begin.
BeginWrite(t, s) ==
    /\ fetch[t][s].at = "got" /\ stamp < MaxStamp
    /\ stamp' = stamp + 1
    /\ fetch' = [fetch EXCEPT ![t][s] =
            [@ EXCEPT !.at = IF Parses(fetch[t][s].got) THEN "ok" ELSE "error", !.stamp = stamp + 1]]
    /\ UNCHANGED <<upstream, snapshot, mixed, processVars>>

\* An error keeps the table of the row.
CommitWrite(t, s) ==
    LET f == fetch[t][s] IN
    /\ f.at \in {"ok", "error"}
    /\ snapshot' = [snapshot EXCEPT ![s] =
            IF f.at = "ok"
            THEN [version |-> f.got, ok |-> TRUE, at |-> f.stamp]
            ELSE [@ EXCEPT !.ok = FALSE, !.at = f.stamp]]
    /\ fetch' = [fetch EXCEPT ![t][s] = NoFetch]
    /\ UNCHANGED <<upstream, stamp, mixed, processVars>>

\* The database refuses the write, which nobody looks at, or the worker stops.
LoseWrite(t, s) ==
    /\ fetch[t][s].at # "idle"
    /\ fetch' = [fetch EXCEPT ![t][s] = NoFetch]
    /\ UNCHANGED <<upstream, snapshot, stamp, mixed, processVars>>

-----------------------------------------------------------------------------
(* The refresher of a process.                                              *)

\* PricingPayload: nothing unless the last refresh succeeded.
PriceRow(s) == IF snapshot[s].ok THEN [version |-> snapshot[s].version, at |-> snapshot[s].at] ELSE NoRow

SyncFirst(p) ==
    /\ seen[p] = NotSyncing
    /\ seen' = [seen EXCEPT ![p] = PriceRow("litellm")]
    /\ UNCHANGED <<engine, since, storeVars>>

\* Mutant: a source without a table takes the bundled one.
LayerOrBundled(row, current) == row.version

\* Reload: a source without a table keeps the current one.
Layer(row, current) == IF row = NoRow THEN current ELSE row.version

\* Mutant: only the first source is looked at.
NewestOfFirst(litellm, openrouter) == litellm.at

Newest(litellm, openrouter) ==
    IF openrouter.at > litellm.at THEN openrouter.at ELSE litellm.at

SyncSecond(p) ==
    LET litellm == seen[p]
        openrouter == PriceRow("openrouter")
        newest == Newest(litellm, openrouter)
    IN
    /\ seen[p] # NotSyncing
    /\ seen' = [seen EXCEPT ![p] = NotSyncing]
    /\ IF newest > since[p]
       THEN /\ engine' = [engine EXCEPT ![p] =
                    [s \in Sources |-> Layer(IF s = "litellm" THEN litellm ELSE openrouter, @[s])]]
            /\ since' = [since EXCEPT ![p] = newest]
       ELSE UNCHANGED <<engine, since>>
    /\ UNCHANGED storeVars

SyncFails(p) ==
    /\ seen[p] # NotSyncing
    /\ seen' = [seen EXCEPT ![p] = NotSyncing]
    /\ UNCHANGED <<engine, since, storeVars>>

Restart(p) ==
    /\ engine' = [engine EXCEPT ![p] = [s \in Sources |-> Bundled]]
    /\ since' = [since EXCEPT ![p] = 0]
    /\ seen' = [seen EXCEPT ![p] = NotSyncing]
    /\ UNCHANGED storeVars

PricingNext ==
    \/ \E s \in Sources :
        \/ Publish(s)
        \/ \E t \in Tasks : Fetched(t, s) \/ BeginWrite(t, s) \/ CommitWrite(t, s) \/ LoseWrite(t, s)
    \/ \E t \in Tasks : StartTask(t)
    \/ \E p \in Engines : SyncFirst(p) \/ SyncSecond(p) \/ SyncFails(p) \/ Restart(p)

PricingSpec == PricingInit /\ [][PricingNext]_pricingVars

\* A sync is run every half hour, and the database does not refuse them for ever.
PricingFairSpec ==
    PricingSpec /\ \A p \in Engines : WF_pricingVars(SyncFirst(p)) /\ SF_pricingVars(SyncSecond(p))

-----------------------------------------------------------------------------
(* Properties.                                                              *)

Follows(p, s) == engine[p][s] = snapshot[s].version

\* The mark of process p has passed the row of s although p has not loaded it:
\* the row took its time before the other source's and was committed after p
\* had read s.  Nothing loads it until a source is stored again.
Overtaken(p, s) == snapshot[s].at <= since[p] /\ ~Follows(p, s)

\* Again and again every process has the stored tables, unless one was
\* overtaken or the last refresh of the source failed.
EnginesFollowSnapshots ==
    []<>(\A p \in Engines, s \in Sources :
            snapshot[s].ok => Follows(p, s) \/ Overtaken(p, s))

\* A process never goes back to an older table while it runs, whatever fails,
\* unless two refreshes of the source overlapped.
PricesNeverGoBack ==
    [][\A p \in Engines, s \in Sources :
        engine[p][s]' < engine[p][s] => s \in mixed \/ since[p]' = 0]_pricingVars
=============================================================================
