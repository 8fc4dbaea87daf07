---------------------------- MODULE OfflineQueue ----------------------------
(***************************************************************************)
(* The command line tool's heartbeat path (internal/stintcli): an editor    *)
(* hands heartbeats to one invocation of the tool, which posts them or      *)
(* appends them to the offline queue, a bolt database shared by every       *)
(* invocation on the machine; `offline sync`, and every successful post,    *)
(* drain the queue in batches.                                              *)
(*                                                                          *)
(* Every queue operation of the code opens the database, which bolt locks,  *)
(* runs one transaction and closes it, so each one is a single step here    *)
(* and invocations interleave between operations.  An invocation started    *)
(* with --disable-offline, which keeps nothing it cannot post, is not here. *)
(***************************************************************************)
EXTENDS Integers, FiniteSets

CONSTANTS
    Heartbeats,  \* numbered in the byte order of Heartbeat.ID(), the queue's key
    EntityOf,    \* [Heartbeats -> entities]
    TimeOf,      \* [Heartbeats -> Int]
    Window,      \* offlineDedupeWindowSeconds, in the unit of TimeOf
    Invalid,     \* the heartbeats every server answers with status 400
    Targets,     \* API targets: a default one and those of [api_urls]
    TargetsOf,   \* [Heartbeats -> non-empty subsets of Targets]
    Legacy,      \* heartbeats an old installation may have left in .wakatime.bdb
    Procs,       \* slots for invocations running at the same time
    BatchLimit,  \* defaultHeartbeatLimit
    SyncLimit,   \* --sync-offline-activity; 0 is no limit
    FaultKinds,  \* the kinds of fault that may happen
    Endless,     \* those of them that may happen without end
    MaxFaults    \* bound on the number of the others in a behaviour

Faults == {"transport", "item", "silent", "storage", "config", "corrupt", "crash"}

ASSUME HeartbeatsAssumption == Heartbeats \subseteq Nat /\ IsFiniteSet(Heartbeats)
ASSUME DedupeAssumption == TimeOf \in [Heartbeats -> Int] /\ Window \in Nat
ASSUME TargetsAssumption == TargetsOf \in [Heartbeats -> (SUBSET Targets) \ {{}}]
ASSUME LimitsAssumption ==
    /\ BatchLimit \in Nat \ {0}
    /\ SyncLimit \in Nat
    /\ FaultKinds \subseteq Faults
    /\ Endless \subseteq FaultKinds
    /\ MaxFaults \in Nat
ASSUME SubsetsAssumption == Invalid \subseteq Heartbeats /\ Legacy \subseteq Heartbeats

VARIABLES
    queue,       \* queue[q][h]: number of keys holding heartbeat h in file q
    legacyFile,  \* whether .wakatime.bdb exists
    pc,          \* what each invocation does next
    path,        \* the queue file an invocation is syncing
    batch,       \* the heartbeats an invocation holds in memory
    unsent,      \* the targets it has yet to post the batch to
    requeue,     \* the heartbeats it will append back to the queue
    failed,      \* whether the post of the batch returned an error
    remaining,   \* the loop counter of syncOfflineQueue
    accepted,    \* accepted[t]: heartbeats target t has stored
    refused,     \* refused[t]: heartbeats target t has answered 400 for
    handed,      \* history: heartbeats handed to the tool so far
    merged,      \* history: heartbeats deleted as near duplicates
    lost,        \* history: <<heartbeat, cause>> of copies dropped for other reasons
    faults       \* number of faults so far

vars == <<queue, legacyFile, pc, path, batch, unsent, requeue, failed,
          remaining, accepted, refused, handed, merged, lost, faults>>
servers == <<accepted, refused>>
held == <<batch, unsent, requeue, failed>>

Queues == {"main", "legacy"}
Stages == {"idle", "send", "sendAppend", "dedupe", "count", "read", "remove",
           "post", "append", "unlink"}
Causes == {"unread", "unlinked", "ignored", "silent", "storage", "config", "corrupt",
           "crash"}

-----------------------------------------------------------------------------
(* A queue file as a bag of heartbeats in key order.  AppendQueue gives a   *)
(* heartbeat whose ID is taken the key ID-<timestamp>, which sorts right    *)
(* after ID, so the copies of a heartbeat are neighbours.                   *)

Bag == [Heartbeats -> Nat]
Empty == [h \in Heartbeats |-> 0]
BagOf(S) == [h \in Heartbeats |-> IF h \in S THEN 1 ELSE 0]
In(b) == {h \in Heartbeats : b[h] > 0}
Plus(a, b) == [h \in Heartbeats |-> a[h] + b[h]]
Minus(a, b) == [h \in Heartbeats |-> a[h] - b[h]]

Keys(b) == UNION {{h} \X (1 .. b[h]) : h \in Heartbeats}
Size(b) == Cardinality(Keys(b))
Before(b, h) == Cardinality({k \in Keys(b) : k[1] < h})

\* The first n keys of the file: what ReadQueue returns, and what
\* RemoveQueuePrefix deletes.
Prefix(b, n) ==
    [h \in Heartbeats |-> Cardinality({i \in 1 .. b[h] : Before(b, h) + i <= n})]

\* queueDeduper.Duplicate, against one kept heartbeat.
Near(a, b) ==
    /\ EntityOf[a] = EntityOf[b]
    /\ TimeOf[a] - TimeOf[b] <= Window
    /\ TimeOf[b] - TimeOf[a] <= Window

\* Mutant: a heartbeat is compared with those that were deleted, too.
KeptFarFromAll(b, K) ==
    \A h \in In(b) : h \in K <=> \A k \in In(b) : k < h => ~Near(k, h)

\* K is what a scan of b in key order keeps: a heartbeat stays unless an
\* earlier one that stayed is near it.
Kept(b, K) ==
    \A h \in In(b) : h \in K <=> \A k \in K : k < h => ~Near(k, h)

-----------------------------------------------------------------------------

TypeOK ==
    /\ queue \in [Queues -> Bag]
    /\ legacyFile \in BOOLEAN
    /\ pc \in [Procs -> Stages]
    /\ path \in [Procs -> Queues]
    /\ batch \in [Procs -> Bag]
    /\ unsent \in [Procs -> SUBSET Targets]
    /\ requeue \in [Procs -> Bag]
    /\ failed \in [Procs -> BOOLEAN]
    /\ remaining \in [Procs -> Int]
    /\ accepted \in [Targets -> SUBSET Heartbeats]
    /\ refused \in [Targets -> SUBSET Heartbeats]
    /\ handed \subseteq Heartbeats
    /\ merged \subseteq Heartbeats
    /\ lost \subseteq Heartbeats \X Causes
    /\ faults \in Nat

Init ==
    \E old \in SUBSET Legacy :
        /\ queue = [q \in Queues |-> IF q = "legacy" THEN BagOf(old) ELSE Empty]
        /\ legacyFile = (old # {})
        /\ handed = old
        /\ pc = [p \in Procs |-> "idle"]
        /\ path = [p \in Procs |-> "main"]
        /\ batch = [p \in Procs |-> Empty]
        /\ unsent = [p \in Procs |-> {}]
        /\ requeue = [p \in Procs |-> Empty]
        /\ failed = [p \in Procs |-> FALSE]
        /\ remaining = [p \in Procs |-> 0]
        /\ accepted = [t \in Targets |-> {}]
        /\ refused = [t \in Targets |-> {}]
        /\ merged = {}
        /\ lost = {}
        /\ faults = 0

\* A fault of kind k, within the bound MaxFaults.
Fault(k) ==
    \/ k \in Endless /\ UNCHANGED faults
    \/ k \in FaultKinds \ Endless /\ faults < MaxFaults /\ faults' = faults + 1

TargetsOfAll(S) == UNION {TargetsOf[h] : h \in S}
Group(p, t) == {h \in In(batch[p]) : t \in TargetsOf[h]}

\* Writing to the legacy path creates the file when it is gone.
Touch(p) == legacyFile' = (legacyFile \/ path[p] = "legacy")

Goto(p, stage) == pc' = [pc EXCEPT ![p] = stage]

\* syncOffline: the legacy file first, when there is one.
EnterSync(p) ==
    /\ Goto(p, "dedupe")
    /\ path' = [path EXCEPT ![p] = IF legacyFile THEN "legacy" ELSE "main"]

\* What follows syncOfflineQueue's return without an error.
AfterQueue(p) == IF path[p] = "legacy" THEN "unlink" ELSE "idle"

\* Nothing is left of a sync that returns.
Return(p) ==
    /\ Goto(p, "idle")
    /\ path' = [path EXCEPT ![p] = "main"]
    /\ remaining' = [remaining EXCEPT ![p] = 0]

\* The invocation holds nothing any more.
Release(p) ==
    /\ batch' = [batch EXCEPT ![p] = Empty]
    /\ unsent' = [unsent EXCEPT ![p] = {}]
    /\ requeue' = [requeue EXCEPT ![p] = Empty]
    /\ failed' = [failed EXCEPT ![p] = FALSE]

Store(q, b) == queue' = [queue EXCEPT ![q] = Plus(queue[q], b)]

LoseAll(S, cause) == lost' = lost \cup (S \X {cause})

-----------------------------------------------------------------------------
(* sendHeartbeats *)

\* An invocation in backoff appends everything it was handed.  When the append
\* fails its error is returned, and the heartbeats are gone.
QueueInBackoff(p) ==
    /\ pc[p] = "idle"
    /\ \E H \in (SUBSET (Heartbeats \ handed)) \ {{}} :
        /\ handed' = handed \cup H
        /\ \/ Store("main", BagOf(H)) /\ UNCHANGED <<lost, faults>>
           \/ Fault("storage") /\ LoseAll(H, "storage") /\ UNCHANGED queue
    /\ UNCHANGED <<legacyFile, pc, path, held, remaining, servers, merged>>

\* Otherwise the heartbeats beyond the batch limit are appended at once, and
\* the others are posted, or appended when the rate limit says so.
StartSend(p) ==
    /\ pc[p] = "idle"
    /\ \E H \in (SUBSET (Heartbeats \ handed)) \ {{}} : \E F \in SUBSET H :
        /\ Cardinality(F) = IF Cardinality(H) > BatchLimit THEN BatchLimit
                                                             ELSE Cardinality(H)
        /\ handed' = handed \cup H
        /\ Store("main", BagOf(H \ F))
        /\ batch' = [batch EXCEPT ![p] = BagOf(F)]
        /\ \/ /\ Goto(p, "send")
              /\ unsent' = [unsent EXCEPT ![p] = TargetsOfAll(F)]
           \/ /\ Goto(p, "sendAppend")
              /\ UNCHANGED unsent
    /\ UNCHANGED <<legacyFile, path, requeue, failed, remaining, servers, merged,
                   lost, faults>>

\* The append of those beyond the limit fails: the others are not posted either.
SpillFails(p) ==
    /\ pc[p] = "idle"
    /\ \E H \in SUBSET (Heartbeats \ handed) :
        /\ Cardinality(H) > BatchLimit
        /\ handed' = handed \cup H
        /\ LoseAll(H, "storage")
    /\ Fault("storage")
    /\ UNCHANGED <<queue, legacyFile, pc, path, held, remaining, servers, merged>>

\* A target cannot be made of the configuration (no or an invalid API key, URL
\* or proxy), before or between the posts: what was to be posted is not queued.
SendRefused(p) ==
    /\ pc[p] = "send"
    /\ Fault("config")
    /\ LoseAll(In(batch[p]), "config")
    /\ Goto(p, "idle")
    /\ Release(p)
    /\ UNCHANGED <<queue, legacyFile, path, remaining, servers, handed, merged>>

\* A target answers a bulk post: it stores the valid heartbeats and answers
\* 400 for the invalid ones, except those in M, whose result is another
\* failure or is missing.
Answer(p, t, M) ==
    LET G == Group(p, t) IN
        /\ accepted' = [accepted EXCEPT ![t] = @ \cup ((G \ Invalid) \ M)]
        /\ refused' = [refused EXCEPT ![t] = @ \cup ((G \cap Invalid) \ M)]
        /\ IF M = {} THEN UNCHANGED faults ELSE Fault("item")

\* A direct post looks at the HTTP status only: a heartbeat that failed
\* inside the answer is dropped.  The last target's answer starts a sync.
SendPost(p, t) ==
    /\ pc[p] = "send"
    /\ t \in unsent[p]
    /\ \E M \in SUBSET Group(p, t) :
        /\ Answer(p, t, M)
        /\ LoseAll(M, "ignored")
    /\ IF unsent[p] = {t}
       THEN EnterSync(p) /\ Release(p)
       ELSE /\ unsent' = [unsent EXCEPT ![p] = @ \ {t}]
            /\ UNCHANGED <<pc, path, batch, requeue, failed>>
    /\ UNCHANGED <<queue, legacyFile, remaining, handed, merged>>

\* The post failed, perhaps after the target stored the heartbeats: the whole
\* batch, the targets that answered before included, goes to the queue.
SendFails(p, t) ==
    /\ pc[p] = "send"
    /\ t \in unsent[p]
    /\ Fault("transport")
    /\ \E A \in {{}, Group(p, t) \ Invalid} :
        accepted' = [accepted EXCEPT ![t] = @ \cup A]
    /\ Goto(p, "sendAppend")
    /\ unsent' = [unsent EXCEPT ![p] = {}]
    /\ UNCHANGED <<queue, legacyFile, path, batch, requeue, failed, remaining,
                   refused, handed, merged, lost>>

SendAppend(p) ==
    /\ pc[p] = "sendAppend"
    /\ Store("main", batch[p])
    /\ Goto(p, "idle")
    /\ Release(p)
    /\ UNCHANGED <<legacyFile, path, remaining, servers, handed, merged, lost, faults>>

-----------------------------------------------------------------------------
(* syncOffline and syncOfflineQueue *)

StartSync(p) ==
    /\ pc[p] = "idle"
    /\ EnterSync(p)
    /\ UNCHANGED <<queue, legacyFile, held, remaining, servers, handed, merged,
                   lost, faults>>

Dedupe(p) ==
    /\ pc[p] = "dedupe"
    /\ \E K \in SUBSET In(queue[path[p]]) :
        /\ Kept(queue[path[p]], K)
        /\ queue' = [queue EXCEPT ![path[p]] = BagOf(K)]
        /\ merged' = merged \cup (In(queue[path[p]]) \ K)
    /\ Touch(p)
    /\ Goto(p, "count")
    /\ UNCHANGED <<path, held, remaining, servers, handed, lost, faults>>

Count(p) ==
    /\ pc[p] = "count"
    /\ LET n == Size(queue[path[p]])
           snapshot == IF SyncLimit > 0 /\ n > SyncLimit THEN SyncLimit ELSE n
       IN  /\ remaining' = [remaining EXCEPT ![p] = snapshot]
           /\ Goto(p, IF snapshot > 0 THEN "read" ELSE AfterQueue(p))
    /\ UNCHANGED <<queue, legacyFile, path, held, servers, handed, merged, lost, faults>>

\* Mutant: the batch limit is forgotten.
ReadWholeSnapshot(p) ==
    /\ pc[p] = "read"
    /\ LET b == Prefix(queue[path[p]], remaining[p])
       IN  /\ batch' = [batch EXCEPT ![p] = b]
           /\ Goto(p, IF b = Empty THEN AfterQueue(p) ELSE "remove")
    /\ UNCHANGED <<queue, legacyFile, path, unsent, requeue, failed, remaining,
                   servers, handed, merged, lost, faults>>

Read(p) ==
    /\ pc[p] = "read"
    /\ LET limit == IF remaining[p] < BatchLimit THEN remaining[p] ELSE BatchLimit
           b == Prefix(queue[path[p]], limit)
       IN  /\ batch' = [batch EXCEPT ![p] = b]
           /\ Goto(p, IF b = Empty THEN AfterQueue(p) ELSE "remove")
    /\ UNCHANGED <<queue, legacyFile, path, unsent, requeue, failed, remaining,
                   servers, handed, merged, lost, faults>>

\* Mutant: one key too many is removed.
RemoveOneMore(p) ==
    /\ pc[p] = "remove"
    /\ LET out == Prefix(queue[path[p]], Size(batch[p]) + 1)
       IN  /\ queue' = [queue EXCEPT ![path[p]] = Minus(queue[path[p]], out)]
           /\ LoseAll({h \in Heartbeats : out[h] > batch[p][h]}, "unread")
    /\ unsent' = [unsent EXCEPT ![p] = TargetsOfAll(In(batch[p]))]
    /\ Touch(p)
    /\ Goto(p, "post")
    /\ UNCHANGED <<path, batch, requeue, failed, remaining, servers, handed,
                   merged, faults>>

\* RemoveQueuePrefix deletes as many keys as were read, whichever they are now.
RemoveBatch(p) ==
    /\ pc[p] = "remove"
    /\ LET out == Prefix(queue[path[p]], Size(batch[p]))
       IN  /\ queue' = [queue EXCEPT ![path[p]] = Minus(queue[path[p]], out)]
           /\ LoseAll({h \in Heartbeats : out[h] > batch[p][h]}, "unread")
    /\ unsent' = [unsent EXCEPT ![p] = TargetsOfAll(In(batch[p]))]
    /\ Touch(p)
    /\ Goto(p, "post")
    /\ UNCHANGED <<path, batch, requeue, failed, remaining, servers, handed,
                   merged, faults>>

\* One target of postOfflineHeartbeats answered.
Answered(p, t) ==
    /\ unsent' = [unsent EXCEPT ![p] = @ \ {t}]
    /\ Goto(p, IF unsent[p] = {t} THEN "append" ELSE "post")
    /\ UNCHANGED <<queue, legacyFile, path, batch, failed, remaining, handed, merged>>

\* Mutant: heartbeats whose result failed or is missing are not requeued.
PostForgetsFailures(p, t) ==
    /\ pc[p] = "post"
    /\ t \in unsent[p]
    /\ \E M \in SUBSET Group(p, t) : Answer(p, t, M)
    /\ Answered(p, t)
    /\ UNCHANGED <<requeue, lost>>

\* offlineRequeueFromBulkResponse requeues every result that is neither a
\* success nor a 400, and every heartbeat without one.
Post(p, t) ==
    /\ pc[p] = "post"
    /\ t \in unsent[p]
    /\ \E M \in SUBSET Group(p, t) :
        /\ Answer(p, t, M)
        /\ requeue' = [requeue EXCEPT ![p] =
              Plus(@, [h \in Heartbeats |-> IF h \in M THEN batch[p][h] ELSE 0])]
    /\ Answered(p, t)
    /\ UNCHANGED lost

\* A 2xx body without "responses" requeues nothing.
PostSilent(p, t) ==
    /\ pc[p] = "post"
    /\ t \in unsent[p]
    /\ Fault("silent")
    /\ \E A \in {{}, Group(p, t) \ Invalid} :
        /\ accepted' = [accepted EXCEPT ![t] = @ \cup A]
        /\ LoseAll(Group(p, t) \ A, "silent")
    /\ Answered(p, t)
    /\ UNCHANGED <<requeue, refused>>

\* Mutant: a failed post returns its error without appending the batch.
PostFailsAndReturns(p, t) ==
    /\ pc[p] = "post"
    /\ t \in unsent[p]
    /\ Fault("transport")
    /\ Goto(p, "idle")
    /\ Release(p)
    /\ UNCHANGED <<queue, legacyFile, path, remaining, servers, handed, merged, lost>>

\* No answer, a status outside 2xx, an unreadable body, or a target that cannot
\* be made of the configuration: everything is requeued.
PostFails(p, t) ==
    /\ pc[p] = "post"
    /\ t \in unsent[p]
    /\ Fault("transport")
    /\ \E A \in {{}, Group(p, t) \ Invalid} :
        accepted' = [accepted EXCEPT ![t] = @ \cup A]
    /\ unsent' = [unsent EXCEPT ![p] = {}]
    /\ requeue' = [requeue EXCEPT ![p] = batch[p]]
    /\ failed' = [failed EXCEPT ![p] = TRUE]
    /\ Goto(p, "append")
    /\ UNCHANGED <<queue, legacyFile, path, batch, remaining, refused, handed,
                   merged, lost>>

\* Mutant: nothing is appended when the post failed.
AppendForgetsFailedPost(p) ==
    /\ pc[p] = "append"
    /\ Store(path[p], IF failed[p] THEN Empty ELSE requeue[p])
    /\ LET left == remaining[p] - Size(batch[p])
       IN  IF failed[p]
           THEN Goto(p, "idle") /\ UNCHANGED remaining
           ELSE /\ remaining' = [remaining EXCEPT ![p] = left]
                /\ Goto(p, IF left > 0 THEN "read" ELSE AfterQueue(p))
    /\ Release(p)
    /\ UNCHANGED <<legacyFile, path, servers, handed, merged, lost, faults>>

\* The end of the loop's body.
AppendBatch(p) ==
    /\ pc[p] = "append"
    /\ Store(path[p], requeue[p])
    /\ legacyFile' = (legacyFile \/ (path[p] = "legacy" /\ requeue[p] # Empty))
    /\ LET left == remaining[p] - Size(batch[p])
       IN  IF failed[p]
           THEN Return(p)
           ELSE /\ remaining' = [remaining EXCEPT ![p] = left]
                /\ Goto(p, IF left > 0 THEN "read" ELSE AfterQueue(p))
                /\ UNCHANGED path
    /\ Release(p)
    /\ UNCHANGED <<servers, handed, merged, lost, faults>>

\* syncOffline deletes the legacy file after one successful pass over it.
Unlink(p) ==
    /\ pc[p] = "unlink"
    /\ legacyFile' = FALSE
    /\ LoseAll(In(queue["legacy"]), "unlinked")
    /\ queue' = [queue EXCEPT !["legacy"] = Empty]
    /\ path' = [path EXCEPT ![p] = "main"]
    /\ Goto(p, "dedupe")
    /\ UNCHANGED <<held, remaining, servers, handed, merged, faults>>

-----------------------------------------------------------------------------
(* Faults of the machine *)

\* A read or a removal fails (bolt waits one second for the lock): the sync
\* returns the error and forgets a batch that is still in the queue.
SyncGivesUp(p) ==
    /\ pc[p] \in {"dedupe", "count", "read", "remove", "unlink"}
    /\ Fault("storage")
    /\ Return(p)
    /\ Release(p)
    /\ UNCHANGED <<queue, legacyFile, servers, handed, merged, lost>>

\* An append fails: the error is returned, and what was to be appended is gone.
AppendFails(p) ==
    /\ \/ /\ pc[p] = "append"
          /\ requeue[p] # Empty
          /\ LoseAll(In(requeue[p]), "storage")
       \/ pc[p] = "sendAppend" /\ LoseAll(In(batch[p]), "storage")
    /\ Fault("storage")
    /\ Return(p)
    /\ Release(p)
    /\ UNCHANGED <<queue, legacyFile, servers, handed, merged>>

\* An invocation finds a queue file corrupt and renames it; the queue starts
\* anew, and nothing reads the renamed file.
Reset(q) ==
    /\ Fault("corrupt")
    /\ LoseAll(In(queue[q]), "corrupt")
    /\ queue' = [queue EXCEPT ![q] = Empty]
    /\ legacyFile' = (legacyFile /\ q # "legacy")
    /\ UNCHANGED <<pc, path, held, remaining, servers, handed, merged>>

\* The invocation dies.  A batch it has read and not yet removed is still queued.
Crash(p) ==
    /\ pc[p] # "idle"
    /\ Fault("crash")
    /\ LoseAll(IF pc[p] = "remove" THEN {} ELSE In(batch[p]), "crash")
    /\ Return(p)
    /\ Release(p)
    /\ UNCHANGED <<queue, legacyFile, servers, handed, merged>>

-----------------------------------------------------------------------------

Work(p) ==
    \/ SendAppend(p) \/ Dedupe(p) \/ Count(p) \/ Read(p) \/ RemoveBatch(p)
    \/ AppendBatch(p) \/ Unlink(p)
    \/ \E t \in Targets : SendPost(p, t) \/ Post(p, t)

Trouble(p) ==
    \/ SpillFails(p) \/ SendRefused(p) \/ SyncGivesUp(p) \/ AppendFails(p) \/ Crash(p)
    \/ \E q \in Queues : Reset(q)
    \/ \E t \in Targets : SendFails(p, t) \/ PostFails(p, t) \/ PostSilent(p, t)

Next ==
    \E p \in Procs :
        \/ QueueInBackoff(p) \/ StartSend(p) \/ StartSync(p)
        \/ Work(p)
        \/ Trouble(p)

Spec == Init /\ [][Next]_vars

\* The operating system runs a started invocation to its end, and editors go
\* on invoking the tool, which syncs after every successful post.
Fairness == \A p \in Procs : WF_vars(Work(p) \/ StartSync(p))

FairSpec == Spec /\ Fairness
-----------------------------------------------------------------------------
(* Properties *)

Settled(h) == \A t \in TargetsOf[h] : h \in accepted[t] \cup refused[t]
Queued(h) == \E q \in Queues : queue[q][h] > 0
\* A batch that was read and not yet removed is only a copy.
Holds(p, h) == pc[p] \in {"send", "sendAppend", "post", "append"} /\ batch[p][h] > 0
Held(h) == Queued(h) \/ \E p \in Procs : Holds(p, h)
Blamed(h) == \E c \in Causes : <<h, c>> \in lost

\* A heartbeat handed to the tool is in a queue file, in the memory of an
\* invocation, answered by every one of its targets, merged into a near
\* duplicate, or dropped for one of the eight reasons "lost" names: a removal
\* by count, the legacy file's deletion, a failure inside a 2xx answer or an
\* answer without results, an append that fails, a target that cannot be made
\* of the configuration, a corrupt queue file, or a crash.  No interleaving of
\* sends, syncs, removals, requeues and faults drops it in another way.
Accounted ==
    \A h \in handed : Held(h) \/ Settled(h) \/ h \in merged \/ Blamed(h)

\* One invocation at a time, posts that fail as a whole and no other fault, and
\* no limit on a sync that migrates a legacy file.
Serial ==
    /\ \A p, q \in Procs : p = q
    /\ FaultKinds \subseteq {"transport"}
    /\ SyncLimit = 0 \/ Legacy = {}

\* Nothing is dropped at all: what one invocation at a time guarantees when
\* every answer carries its results (removal before the post loses nothing,
\* because an error puts the heartbeats back, and the legacy file is empty when
\* it is deleted).
NothingLost == lost = {}

\* README.md:103-106: a sync deduplicates, drops permanent 400-level results
\* and requeues the rest, so a heartbeat that was queued leaves the queue for
\* one of these reasons only.
SyncDropsOnlyRejected ==
    \A h \in handed : Held(h) \/ Settled(h) \/ h \in merged

\* README.md:103-106: a sync migrates the legacy queue: deleting the legacy file
\* deletes no heartbeat that is still waiting there.
LegacyMigrated ==
    \A h \in handed : <<h, "unlinked">> \in lost =>
        Held(h) \/ Settled(h) \/ h \in merged

\* A heartbeat deleted as a duplicate leaves a queued heartbeat of the same
\* entity within the window behind: deletions do not chain away from what is
\* kept (DeleteQueueDuplicates compares with kept heartbeats only).
MergedIntoNear ==
    [][\A h \in merged' \ merged :
          \E q \in Queues : \E k \in Heartbeats :
              k # h /\ Near(k, h) /\ queue'[q][k] > 0]_vars

\* Of the heartbeats handed to the tool before it, one step of one invocation, a
\* crash or a racing removal included, drops at most one batch: a sync never
\* takes more than BatchLimit heartbeats out of the queue before their result is
\* known, and a send holds no more.  (The exceptions drop a whole file: the
\* deletion of the legacy file and the reset of a corrupt one.  What an
\* invocation is handed and cannot append is dropped in the step that hands it
\* over, however much it is.)
StepLosesAtMostABatch ==
    [][Cardinality({x \in lost' \ lost :
                      x[1] \in handed /\ x[2] \notin {"unlinked", "corrupt"}})
         <= BatchLimit]_vars

\* A started invocation ends: the loop of syncOfflineQueue is bounded by the
\* count it took first, however many heartbeats come back to the queue.
InvocationsEnd == \A p \in Procs : []<>(pc[p] = "idle")

\* Every heartbeat handed to the tool is eventually answered by all its
\* targets, or merged into a near duplicate.
EventuallySettled ==
    []<>(\A h \in handed : Settled(h) \/ h \in merged)

\* A heartbeat in the terms of HeartbeatDelivery.
Status(h) ==
    IF h \notin handed THEN "new"
    ELSE IF Settled(h) \/ h \in merged THEN "done"
    ELSE IF Held(h) THEN "pending" ELSE "gone"

NoLoss == INSTANCE HeartbeatDelivery
    WITH Lossy <- FALSE, status <- [h \in Heartbeats |-> Status(h)]

\* One invocation at a time implements lossless delivery: whatever posts fail,
\* a heartbeat handed to the tool stays pending until every target answered it
\* or it was merged, and stays done then (heartbeat_send.go:137-201,
\* commands_offline.go:53-124).
ImplementsDelivery == NoLoss!DSpec
=============================================================================
