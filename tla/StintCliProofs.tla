--------------------------- MODULE StintCliProofs ---------------------------
(***************************************************************************)
(* Theorems about the command-line tool: OfflineQueue, for any heartbeats, *)
(* targets, invocations, limits and kinds of fault (its type invariant,    *)
(* that every heartbeat handed to the tool stays accounted for, that a     *)
(* step loses at most a batch of what was handed over before; and, for one *)
(* invocation at a time on a network that can fail, that nothing is lost   *)
(* and that HeartbeatDelivery is implemented), and AITranscripts, for any  *)
(* transcripts, formats, scans and times (that the mark of the scans tells *)
(* what was counted).                                                      *)
(***************************************************************************)
EXTENDS OfflineQueue, AITranscripts, FiniteSetTheorems, WellFoundedInduction, TLAPS

-----------------------------------------------------------------------------
(* Bags *)

\* A prefix of a queue file holds at most the copies the file holds.
LEMMA PrefixIsBelow ==
    ASSUME NEW b \in Bag, NEW n
    PROVE  /\ Prefix(b, n) \in Bag
           /\ \A h \in Heartbeats : Prefix(b, n)[h] <= b[h]
<1>1. ASSUME NEW h \in Heartbeats,
             NEW C, C = {i \in 1 .. b[h] : Before(b, h) + i <= n}
      PROVE  Cardinality(C) \in Nat /\ Cardinality(C) <= b[h]
  <2>1. b[h] \in Nat
    BY DEF Bag
  <2>2. IsFiniteSet(1 .. b[h]) /\ Cardinality(1 .. b[h]) = b[h]
    BY <2>1, FS_Interval
  <2>3. C \in SUBSET (1 .. b[h])
    BY <1>1
  <2>4. QED
    BY <2>2, <2>3, FS_Subset, FS_CardinalityType
<1>2. \A h \in Heartbeats : Prefix(b, n)[h] \in Nat /\ Prefix(b, n)[h] <= b[h]
  BY <1>1 DEF Prefix
<1>3. QED
  BY <1>2 DEF Bag, Prefix

\* The number of keys of a queue file is a natural number.
LEMMA SizeIsNat ==
    ASSUME NEW b \in Bag
    PROVE  Size(b) \in Nat
<1> DEFINE f == [h \in Heartbeats |-> {h} \X (1 .. b[h])]
           T == {{h} \X (1 .. b[h]) : h \in Heartbeats}
<1>1. f \in Surjection(Heartbeats, T)
  BY DEF Surjection
<1>2. IsFiniteSet(T)
  BY <1>1, HeartbeatsAssumption, FS_Surjection
<1>3. ASSUME NEW h \in Heartbeats
      PROVE  IsFiniteSet({h} \X (1 .. b[h]))
  <2>1. IsFiniteSet(1 .. b[h])
    BY FS_Interval DEF Bag
  <2>2. IsFiniteSet({h})
    BY FS_Singleton
  <2>3. QED
    BY <2>1, <2>2, FS_Product
<1>4. IsFiniteSet(UNION T)
  BY <1>2, <1>3, FS_UNION
<1>5. QED
  BY <1>4, FS_CardinalityType DEF Size, Keys

LEMMA BagOperations ==
    /\ Empty \in Bag
    /\ \A S : BagOf(S) \in Bag
    /\ \A a, b \in Bag : Plus(a, b) \in Bag
    /\ \A a, b \in Bag : (\A h \in Heartbeats : b[h] <= a[h]) => Minus(a, b) \in Bag
BY DEF Bag, Empty, BagOf, Plus, Minus

-----------------------------------------------------------------------------
(* The type invariant *)

LEMMA TypeInit == Init => TypeOK
BY BagOperations, SubsetsAssumption DEF Init, TypeOK, Queues, Stages

LEMMA TypeNext == TypeOK /\ [Next]_vars => TypeOK'
<1> SUFFICES ASSUME TypeOK, [Next]_vars
             PROVE  TypeOK'
  OBVIOUS
<1> USE BagOperations DEF TypeOK, Queues, Stages, Causes, Release, Goto, Store, LoseAll,
        Fault, held, servers
<1>1. ASSUME NEW p \in Procs, QueueInBackoff(p)
      PROVE  TypeOK'
  <2> PICK H \in SUBSET Heartbeats :
        /\ handed' = handed \cup H
        /\ \/ Store("main", BagOf(H)) /\ UNCHANGED <<lost, faults>>
           \/ Fault("storage") /\ LoseAll(H, "storage") /\ UNCHANGED queue
    BY <1>1 DEF QueueInBackoff
  <2>1. Plus(queue["main"], BagOf(H)) \in Bag
    OBVIOUS
  <2>2. queue' \in [Queues -> Bag]
    BY <2>1
  <2>3. lost' \subseteq Heartbeats \X Causes /\ faults' \in Nat
    OBVIOUS
  <2>4. QED
    BY <1>1, <2>2, <2>3 DEF QueueInBackoff
<1>2. ASSUME NEW p \in Procs, StartSend(p)
      PROVE  TypeOK'
  <2> PICK H \in SUBSET Heartbeats, F \in SUBSET Heartbeats :
        /\ handed' = handed \cup H
        /\ Store("main", BagOf(H \ F))
        /\ batch' = [batch EXCEPT ![p] = BagOf(F)]
        /\ \/ /\ Goto(p, "send")
              /\ unsent' = [unsent EXCEPT ![p] = TargetsOfAll(F)]
           \/ /\ Goto(p, "sendAppend")
              /\ UNCHANGED unsent
    BY <1>2 DEF StartSend
  <2>1. BagOf(F) \in Bag /\ Plus(queue["main"], BagOf(H \ F)) \in Bag
    OBVIOUS
  <2>2. TargetsOfAll(F) \subseteq Targets
    BY TargetsAssumption DEF TargetsOfAll
  <2>3. queue' \in [Queues -> Bag] /\ batch' \in [Procs -> Bag]
    BY <2>1
  <2>4. pc' \in [Procs -> Stages] /\ unsent' \in [Procs -> SUBSET Targets]
    BY <2>2
  <2>5. QED
    BY <1>2, <2>3, <2>4 DEF StartSend
<1>3. ASSUME NEW p \in Procs, StartSync(p)
      PROVE  TypeOK'
  BY <1>3 DEF StartSync, EnterSync
<1>4. ASSUME NEW p \in Procs, SendAppend(p)
      PROVE  TypeOK'
  BY <1>4 DEF SendAppend
<1>5. ASSUME NEW p \in Procs, Dedupe(p)
      PROVE  TypeOK'
  BY <1>5 DEF Dedupe, Touch, In
<1>6. ASSUME NEW p \in Procs, Count(p)
      PROVE  TypeOK'
  <2>1. Size(queue[path[p]]) \in Nat
    BY SizeIsNat
  <2>2. QED
    BY <1>6, <2>1, LimitsAssumption DEF Count, AfterQueue
<1>7. ASSUME NEW p \in Procs, Read(p)
      PROVE  TypeOK'
  BY <1>7, PrefixIsBelow DEF Read, AfterQueue
<1>8. ASSUME NEW p \in Procs, RemoveBatch(p)
      PROVE  TypeOK'
  BY <1>8, PrefixIsBelow, TargetsAssumption DEF RemoveBatch, Touch, TargetsOfAll, In
<1>9. ASSUME NEW p \in Procs, AppendBatch(p)
      PROVE  TypeOK'
  <2>1. Size(batch[p]) \in Nat
    BY SizeIsNat
  <2>2. QED
    BY <1>9, <2>1 DEF AppendBatch, Return, AfterQueue
<1>10. ASSUME NEW p \in Procs, Unlink(p)
       PROVE  TypeOK'
  BY <1>10 DEF Unlink, In
<1>11. ASSUME NEW p \in Procs, NEW t \in Targets, SendPost(p, t)
       PROVE  TypeOK'
  <2>1. pc' \in [Procs -> Stages] /\ path' \in [Procs -> Queues]
    BY <1>11 DEF SendPost, EnterSync
  <2>2. /\ batch' \in [Procs -> Bag] /\ requeue' \in [Procs -> Bag]
        /\ unsent' \in [Procs -> SUBSET Targets] /\ failed' \in [Procs -> BOOLEAN]
    <3>1. CASE unsent[p] = {t}
      BY <1>11, <3>1 DEF SendPost
    <3>2. CASE unsent[p] # {t}
      BY <1>11, <3>2 DEF SendPost
    <3>3. QED
      BY <3>1, <3>2
  <2> PICK M \in SUBSET Heartbeats : Answer(p, t, M) /\ LoseAll(M, "ignored")
    BY <1>11 DEF SendPost, Group, In
  <2>3. /\ accepted' \in [Targets -> SUBSET Heartbeats]
        /\ refused' \in [Targets -> SUBSET Heartbeats]
    <3>1. /\ (Group(p, t) \ Invalid) \ M \subseteq Heartbeats
          /\ (Group(p, t) \cap Invalid) \ M \subseteq Heartbeats
      BY DEF Group, In
    <3>2. QED
      BY <3>1 DEF Answer
  <2>4. lost' \subseteq Heartbeats \X Causes /\ faults' \in Nat
    BY DEF Answer
  <2>5. QED
    BY <1>11, <2>1, <2>2, <2>3, <2>4 DEF SendPost
<1>12. ASSUME NEW p \in Procs, NEW t \in Targets, Post(p, t)
       PROVE  TypeOK'
  <2>1. \A M : [h \in Heartbeats |-> IF h \in M THEN batch[p][h] ELSE 0] \in Bag
    BY DEF Bag
  <2> DEFINE Back(M) == [h \in Heartbeats |-> IF h \in M THEN batch[p][h] ELSE 0]
  <2> PICK M \in SUBSET Heartbeats :
        /\ Answer(p, t, M)
        /\ requeue' = [requeue EXCEPT ![p] = Plus(@, Back(M))]
        /\ UNCHANGED lost
    BY <1>12 DEF Post, Group, In
  <2>2. requeue' \in [Procs -> Bag]
    <3>1. Plus(requeue[p], Back(M)) \in Bag
      BY <2>1
    <3>2. QED
      BY <3>1
  <2>3. /\ accepted' \in [Targets -> SUBSET Heartbeats]
        /\ refused' \in [Targets -> SUBSET Heartbeats]
    <3>1. /\ (Group(p, t) \ Invalid) \ M \subseteq Heartbeats
          /\ (Group(p, t) \cap Invalid) \ M \subseteq Heartbeats
      BY DEF Group, In
    <3>2. QED
      BY <3>1 DEF Answer
  <2>4. lost' \subseteq Heartbeats \X Causes /\ faults' \in Nat
    BY DEF Answer
  <2>5. QED
    BY <1>12, <2>2, <2>3, <2>4 DEF Post, Answered
<1>13. ASSUME NEW p \in Procs, SyncGivesUp(p)
       PROVE  TypeOK'
  BY <1>13 DEF SyncGivesUp, Return
<1>14. ASSUME NEW p \in Procs, AppendFails(p)
       PROVE  TypeOK'
  BY <1>14 DEF AppendFails, Return, In
<1>15. ASSUME NEW p \in Procs, Crash(p)
       PROVE  TypeOK'
  BY <1>15 DEF Crash, Return, In
<1>16. ASSUME NEW p \in Procs, NEW t \in Targets, SendFails(p, t)
       PROVE  TypeOK'
  BY <1>16 DEF SendFails, Group, In
<1>17. ASSUME NEW p \in Procs, NEW t \in Targets, PostFails(p, t)
       PROVE  TypeOK'
  BY <1>17 DEF PostFails, Group, In
<1>18. ASSUME NEW p \in Procs, NEW t \in Targets, PostSilent(p, t)
       PROVE  TypeOK'
  BY <1>18 DEF PostSilent, Answered, Group, In
<1>19. ASSUME NEW p \in Procs, SpillFails(p)
       PROVE  TypeOK'
  <2> PICK H \in SUBSET Heartbeats : handed' = handed \cup H /\ LoseAll(H, "storage")
    BY <1>19 DEF SpillFails
  <2>1. QED
    BY <1>19 DEF SpillFails
<1>20. ASSUME NEW p \in Procs, SendRefused(p)
       PROVE  TypeOK'
  BY <1>20 DEF SendRefused, In
<1>21. ASSUME NEW q \in Queues, Reset(q)
       PROVE  TypeOK'
  BY <1>21 DEF Reset, In
<1>22. CASE UNCHANGED vars
  BY <1>22 DEF vars
<1>23. QED
  BY <1>1, <1>2, <1>3, <1>4, <1>5, <1>6, <1>7, <1>8, <1>9, <1>10, <1>11, <1>12, <1>13,
     <1>14, <1>15, <1>16, <1>17, <1>18, <1>19, <1>20, <1>21, <1>22 DEF Next, Work, Trouble

\* Every variable keeps its type: in particular RemoveQueuePrefix never takes
\* out of a file more copies of a heartbeat than the file holds.
THEOREM TypeCorrect == Spec => []TypeOK
BY TypeInit, TypeNext, PTL DEF Spec

-----------------------------------------------------------------------------
(* Every heartbeat is accounted for *)

\* What an invocation knows of the batch it holds: a heartbeat that one of the
\* targets tried so far did not settle is in the requeue list or was dropped
\* by a step "lost" names; after the last target, none is left to try.
InFlight ==
    \A p \in Procs :
        /\ pc[p] \in {"send", "post", "append"} =>
              \A h \in Heartbeats : batch[p][h] > 0 =>
                  \A t \in TargetsOf[h] \ unsent[p] :
                      \/ h \in accepted[t] \cup refused[t]
                      \/ pc[p] # "send" /\ requeue[p][h] > 0
                      \/ Blamed(h)
        /\ pc[p] = "append" => unsent[p] = {}

Inv == TypeOK /\ Accounted /\ InFlight

\* One invocation's step leaves the others' state alone.
Alone(p) ==
    \A q \in Procs \ {p} :
        /\ pc'[q] = pc[q]
        /\ batch'[q] = batch[q]
        /\ unsent'[q] = unsent[q]
        /\ requeue'[q] = requeue[q]

\* Answers, merges and recorded drops are never forgotten.
Growing ==
    /\ \A t \in Targets : accepted[t] \subseteq accepted'[t] /\ refused[t] \subseteq refused'[t]
    /\ merged \subseteq merged'
    /\ lost \subseteq lost'

LEMMA AloneStep ==
    ASSUME TypeOK, NEW p \in Procs,
           QueueInBackoff(p) \/ StartSend(p) \/ StartSync(p) \/ Work(p) \/ Trouble(p)
    PROVE  Alone(p)
<1> USE DEF TypeOK, Alone, Release, Goto, held
<1>1. CASE QueueInBackoff(p) \/ StartSync(p)
  BY <1>1 DEF QueueInBackoff, StartSync, EnterSync
<1>2. CASE StartSend(p)
  BY <1>2 DEF StartSend
<1>3. CASE Work(p)
  BY <1>3 DEF Work, SendAppend, Dedupe, Count, Read, RemoveBatch, AppendBatch, Unlink, SendPost,
              EnterSync, Return, Post, Answered
<1>4. CASE Trouble(p)
  BY <1>4 DEF Trouble, SpillFails, SendRefused, Reset, SyncGivesUp, AppendFails, Crash,
              Return, SendFails, PostFails, PostSilent, Answered
<1>5. QED
  BY <1>1, <1>2, <1>3, <1>4

LEMMA GrowingStep ==
    ASSUME TypeOK, NEW p \in Procs,
           QueueInBackoff(p) \/ StartSend(p) \/ StartSync(p) \/ Work(p) \/ Trouble(p)
    PROVE  Growing
<1> USE DEF TypeOK, Growing, LoseAll, servers
<1>1. CASE QueueInBackoff(p) \/ StartSync(p) \/ StartSend(p)
  BY <1>1 DEF QueueInBackoff, StartSync, StartSend
<1>2. CASE Work(p)
  <2>1. CASE SendAppend(p) \/ Count(p) \/ Read(p) \/ AppendBatch(p)
    BY <2>1 DEF SendAppend, Count, Read, AppendBatch
  <2>2. CASE Dedupe(p) \/ RemoveBatch(p) \/ Unlink(p)
    BY <2>2 DEF Dedupe, RemoveBatch, Unlink
  <2>3. CASE \E t \in Targets : SendPost(p, t)
    BY <2>3 DEF SendPost, Answer
  <2>4. CASE \E t \in Targets : Post(p, t)
    BY <2>4 DEF Post, Answered, Answer
  <2>5. QED
    BY <1>2, <2>1, <2>2, <2>3, <2>4 DEF Work
<1>3. CASE Trouble(p)
  BY <1>3 DEF Trouble, SpillFails, SendRefused, Reset, SyncGivesUp, AppendFails, Crash,
              SendFails, PostFails, PostSilent, Answered
<1>4. QED
  BY <1>1, <1>2, <1>3

Done(h) == Settled(h) \/ h \in merged \/ Blamed(h)

LEMMA DoneStays ==
    ASSUME TypeOK, Growing, NEW h \in Heartbeats, Done(h)
    PROVE  Done(h)'
<1>1. CASE Settled(h)
  BY <1>1, TargetsAssumption DEF Done, Settled, Growing
<1>2. CASE h \in merged \/ Blamed(h)
  BY <1>2 DEF Done, Blamed, Growing
<1>3. QED
  BY <1>1, <1>2 DEF Done

LEMMA OthersStillHold ==
    ASSUME TypeOK, NEW p \in Procs, Alone(p), NEW h \in Heartbeats,
           NEW q \in Procs \ {p}, Holds(q, h)
    PROVE  Held(h)'
BY DEF Alone, Holds, Held

\* Adding to a queue file keeps what is queued, and queues what is added.
LEMMA Storing ==
    ASSUME TypeOK, NEW q \in Queues, NEW b \in Bag, Store(q, b), NEW h \in Heartbeats
    PROVE  /\ Queued(h) => Queued(h)'
           /\ b[h] > 0 => Queued(h)'
<1>1. /\ queue'[q][h] = queue[q][h] + b[h]
      /\ \A r \in Queues : queue'[r][h] = IF r = q THEN queue[q][h] + b[h] ELSE queue[r][h]
  BY DEF TypeOK, Store, Plus
<1>2. b[h] \in Nat /\ queue[q][h] \in Nat
  BY DEF TypeOK, Bag
<1>3. QED
  BY <1>1, <1>2 DEF Queued

\* Each action of an invocation p keeps a heartbeat that was queued, that p
\* held, or that it was just handed.
LEMMA AccountedStep ==
    ASSUME Inv, NEW p \in Procs,
           QueueInBackoff(p) \/ StartSend(p) \/ StartSync(p) \/ Work(p) \/ Trouble(p)
    PROVE  Accounted'
<1> SUFFICES ASSUME NEW h \in handed'
             PROVE  Held(h)' \/ Done(h)'
  BY DEF Accounted, Done
<1>a. TypeOK /\ TypeOK' /\ Alone(p) /\ Growing
  BY AloneStep, GrowingStep, TypeNext DEF Inv, Next
<1> h \in Heartbeats
  BY <1>a DEF TypeOK
<1>b. SUFFICES ASSUME Queued(h) \/ Holds(p, h) \/ h \notin handed
               PROVE  Held(h)' \/ Done(h)'
  <2>1. CASE Done(h)
    BY <1>a, <2>1, DoneStays
  <2>2. CASE \E q \in Procs \ {p} : Holds(q, h)
    BY <1>a, <2>2, OthersStillHold
  <2>3. QED
    BY <1>b, <2>1, <2>2 DEF Inv, Accounted, Done, Held
<1>1. CASE QueueInBackoff(p)
  <2> PICK H \in SUBSET Heartbeats :
        /\ handed' = handed \cup H
        /\ \/ Store("main", BagOf(H))
           \/ LoseAll(H, "storage") /\ UNCHANGED queue
    BY <1>1 DEF QueueInBackoff
  <2>1. h \notin handed => h \in H /\ BagOf(H)[h] > 0
    BY DEF BagOf
  <2>2. ~Holds(p, h)
    BY <1>1 DEF QueueInBackoff, Holds
  <2>3. CASE Store("main", BagOf(H))
    BY <1>a, <1>b, <2>1, <2>2, <2>3, Storing, BagOperations DEF Held, Queues
  <2>4. CASE LoseAll(H, "storage") /\ UNCHANGED queue
    <3>1. h \in H => Blamed(h)'
      BY <2>4 DEF LoseAll, Blamed, Causes
    <3>2. QED
      BY <1>b, <2>1, <2>2, <2>4, <3>1 DEF Held, Queued, Done
  <2>5. QED
    BY <2>3, <2>4
<1>2. CASE StartSend(p)
  <2> PICK H \in SUBSET Heartbeats, F \in SUBSET Heartbeats :
        /\ handed' = handed \cup H
        /\ Store("main", BagOf(H \ F))
        /\ batch' = [batch EXCEPT ![p] = BagOf(F)]
        /\ Goto(p, "send") \/ Goto(p, "sendAppend")
    BY <1>2 DEF StartSend
  <2>1. h \notin handed => BagOf(H \ F)[h] > 0 \/ BagOf(F)[h] > 0
    BY DEF BagOf
  <2>2. ~Holds(p, h)
    BY <1>2 DEF StartSend, Holds
  <2>3. BagOf(F)[h] > 0 => Held(h)'
    BY <1>a DEF Held, Holds, Goto, TypeOK
  <2>4. QED
    BY <1>a, <1>b, <2>1, <2>2, <2>3, Storing, BagOperations DEF Held, Queues
<1>3. CASE StartSync(p)
  BY <1>b, <1>3 DEF StartSync, Holds, Held, Queued
<1>4. CASE SendAppend(p)
  <2>1. Store("main", batch[p]) /\ batch[p] \in Bag /\ handed' = handed
    BY <1>a, <1>4 DEF SendAppend, TypeOK
  <2>2. QED
    BY <1>a, <1>b, <2>1, Storing DEF Holds, Held, Queues
<1>5. CASE Dedupe(p)
  <2> PICK K \in SUBSET In(queue[path[p]]) :
        /\ queue' = [queue EXCEPT ![path[p]] = BagOf(K)]
        /\ merged' = merged \cup (In(queue[path[p]]) \ K)
    BY <1>5 DEF Dedupe
  <2>1. Queued(h)
    BY <1>b, <1>5 DEF Dedupe, Holds
  <2>2. PICK q \in Queues : queue[q][h] > 0
    BY <2>1 DEF Queued
  <2>3. CASE q # path[p]
    <3>1. queue'[q][h] > 0
      BY <1>a, <2>2, <2>3 DEF TypeOK
    <3>2. QED
      BY <3>1 DEF Held, Queued
  <2>4. CASE q = path[p]
    <3>1. h \in K => queue'[q][h] > 0
      BY <1>a, <2>4 DEF TypeOK, BagOf
    <3>2. h \notin K => h \in merged'
      BY <2>2, <2>4 DEF In
    <3>3. QED
      BY <3>1, <3>2 DEF Held, Queued, Done
  <2>5. QED
    BY <2>3, <2>4
<1>6. CASE Count(p)
  BY <1>b, <1>6 DEF Count, Holds, Held, Queued
<1>7. CASE Read(p)
  BY <1>b, <1>7 DEF Read, Holds, Held, Queued
<1>8. CASE RemoveBatch(p)
  <2> DEFINE out == Prefix(queue[path[p]], Size(batch[p]))
  <2>1. Queued(h)
    BY <1>b, <1>8 DEF RemoveBatch, Holds
  <2>2. PICK q \in Queues : queue[q][h] > 0
    BY <2>1 DEF Queued
  <2>3. CASE q # path[p]
    <3>1. queue'[q][h] > 0
      BY <1>a, <1>8, <2>2, <2>3 DEF TypeOK, RemoveBatch
    <3>2. QED
      BY <3>1 DEF Held, Queued
  <2>4. CASE q = path[p]
    <3>1. queue'[q][h] = queue[q][h] - out[h]
      BY <1>a, <1>8, <2>4 DEF TypeOK, RemoveBatch, Minus
    <3>2. out \in Bag /\ queue[q] \in Bag /\ batch[p] \in Bag
      BY <1>a, <2>4, PrefixIsBelow DEF TypeOK
    <3>3. CASE out[h] = 0
      BY <2>2, <3>1, <3>2, <3>3 DEF Held, Queued, Bag
    <3>4. CASE out[h] > batch[p][h]
      <4>1. <<h, "unread">> \in lost'
        BY <1>8, <3>4 DEF RemoveBatch, LoseAll
      <4>2. QED
        BY <4>1 DEF Done, Blamed, Causes
    <3>5. CASE out[h] > 0 /\ out[h] <= batch[p][h]
      <4>1. batch'[p][h] > 0 /\ pc'[p] = "post"
        BY <1>a, <1>8, <3>2, <3>5 DEF RemoveBatch, Goto, TypeOK, Bag
      <4>2. QED
        BY <4>1 DEF Held, Holds
    <3>6. QED
      BY <3>2, <3>3, <3>4, <3>5 DEF Bag
  <2>5. QED
    BY <2>3, <2>4
<1>9. CASE AppendBatch(p)
  <2>1. Store(path[p], requeue[p]) /\ requeue[p] \in Bag /\ path[p] \in Queues
    BY <1>a, <1>9 DEF AppendBatch, TypeOK
  <2>2. handed' = handed /\ accepted' = accepted /\ refused' = refused /\ lost' = lost
    BY <1>9 DEF AppendBatch, servers
  <2>3. CASE Queued(h) \/ requeue[p][h] > 0
    BY <1>a, <2>1, <2>3, Storing DEF Held
  <2>4. CASE Holds(p, h) /\ ~(requeue[p][h] > 0)
    <3>1. pc[p] = "append" /\ unsent[p] = {} /\ batch[p][h] > 0
      BY <1>9, <2>4 DEF AppendBatch, Holds, Inv, InFlight
    <3>2. \A t \in TargetsOf[h] : h \in accepted[t] \cup refused[t] \/ Blamed(h)
      BY <2>4, <3>1 DEF Inv, InFlight
    <3>3. QED
      BY <2>2, <3>2 DEF Done, Settled, Blamed
  <2>5. QED
    BY <1>b, <2>2, <2>3, <2>4
<1>10. CASE Unlink(p)
  <2>1. Queued(h)
    BY <1>b, <1>10 DEF Unlink, Holds
  <2>2. CASE queue["main"][h] > 0
    BY <1>a, <1>10, <2>2 DEF Unlink, Held, Queued, Queues, TypeOK
  <2>3. CASE queue["legacy"][h] > 0
    BY <1>10, <2>3 DEF Unlink, LoseAll, In, Done, Blamed, Causes
  <2>4. QED
    BY <2>1, <2>2, <2>3 DEF Queued, Queues
<1>11. CASE \E t \in Targets : SendPost(p, t)
  <2> PICK t \in Targets : SendPost(p, t)
    BY <1>11
  <2>1. queue' = queue /\ handed' = handed
    BY DEF SendPost
  <2>2. CASE Queued(h)
    BY <2>1, <2>2 DEF Held, Queued
  <2>3. CASE Holds(p, h) /\ unsent[p] # {t}
    BY <2>3 DEF SendPost, Held, Holds
  <2>4. CASE Holds(p, h) /\ unsent[p] = {t}
    <3>1. pc[p] = "send" /\ batch[p][h] > 0
      BY <2>4 DEF SendPost, Holds
    <3>2. \A u \in TargetsOf[h] \ {t} : h \in accepted[u] \cup refused[u] \/ Blamed(h)
      BY <2>4, <3>1 DEF Inv, InFlight
    <3>3. t \in TargetsOf[h] => h \in accepted'[t] \cup refused'[t] \/ Blamed(h)'
      <4> SUFFICES ASSUME t \in TargetsOf[h]
                   PROVE  h \in accepted'[t] \cup refused'[t] \/ Blamed(h)'
        OBVIOUS
      <4>1. h \in Group(p, t)
        BY <3>1 DEF Group, In
      <4>2. PICK M \in SUBSET Group(p, t) : Answer(p, t, M) /\ LoseAll(M, "ignored")
        BY DEF SendPost
      <4>3. CASE h \in M
        BY <4>2, <4>3 DEF LoseAll, Blamed, Causes
      <4>4. CASE h \notin M
        BY <1>a, <4>1, <4>2, <4>4 DEF Answer, TypeOK
      <4>5. QED
        BY <4>3, <4>4
    <3>4. QED
      BY <1>a, <3>2, <3>3, TargetsAssumption DEF Growing, Done, Settled, Blamed
  <2>5. QED
    BY <1>b, <2>1, <2>2, <2>3, <2>4
<1>12. CASE \E t \in Targets : Post(p, t) \/ PostSilent(p, t)
  <2>1. /\ queue' = queue /\ handed' = handed /\ batch' = batch
        /\ pc[p] = "post" /\ pc'[p] \in {"post", "append"}
    BY <1>a, <1>12 DEF Post, PostSilent, Answered, Goto, TypeOK
  <2>2. QED
    BY <1>b, <2>1 DEF Held, Holds, Queued
<1>13. CASE \E t \in Targets : PostFails(p, t) \/ SendFails(p, t)
  <2>1. /\ queue' = queue /\ handed' = handed /\ batch' = batch
        /\ pc'[p] \in {"sendAppend", "append"}
    BY <1>a, <1>13 DEF PostFails, SendFails, Goto, TypeOK
  <2>2. QED
    BY <1>b, <2>1 DEF Held, Holds, Queued
<1>14. CASE SyncGivesUp(p)
  BY <1>b, <1>14 DEF SyncGivesUp, Holds, Held, Queued
<1>15. CASE AppendFails(p)
  <2>1. queue' = queue /\ handed' = handed /\ accepted' = accepted /\ refused' = refused
    BY <1>15 DEF AppendFails, servers
  <2>2. CASE Queued(h)
    BY <2>1, <2>2 DEF Held, Queued
  <2>3. CASE pc[p] = "append" /\ Holds(p, h)
    <3>1. requeue[p][h] > 0 => Blamed(h)'
      BY <1>15, <2>3 DEF AppendFails, LoseAll, In, Blamed, Causes
    <3>2. unsent[p] = {} /\ batch[p][h] > 0
      BY <2>3 DEF Inv, InFlight, Holds
    <3>3. ~(requeue[p][h] > 0) => Done(h)
      BY <2>3, <3>2 DEF Inv, InFlight, Done, Settled
    <3>4. QED
      BY <1>a, <3>1, <3>3, DoneStays DEF Done
  <2>4. CASE pc[p] = "sendAppend" /\ Holds(p, h)
    BY <1>15, <2>4 DEF AppendFails, LoseAll, In, Holds, Done, Blamed, Causes
  <2>5. QED
    BY <1>b, <1>15, <2>1, <2>2, <2>3, <2>4 DEF AppendFails
<1>16. CASE Crash(p)
  <2>1. queue' = queue /\ handed' = handed
    BY <1>16 DEF Crash
  <2>2. CASE Queued(h)
    BY <2>1, <2>2 DEF Held, Queued
  <2>3. CASE Holds(p, h)
    BY <1>16, <2>3 DEF Crash, Holds, LoseAll, In, Done, Blamed, Causes
  <2>4. QED
    BY <1>b, <2>1, <2>2, <2>3
<1>17. CASE SpillFails(p)
  <2> PICK H \in SUBSET Heartbeats : handed' = handed \cup H /\ LoseAll(H, "storage")
    BY <1>17 DEF SpillFails
  <2>1. queue' = queue /\ ~Holds(p, h)
    BY <1>17 DEF SpillFails, Holds
  <2>2. h \notin handed => Blamed(h)'
    BY DEF LoseAll, Blamed, Causes
  <2>3. QED
    BY <1>b, <2>1, <2>2 DEF Held, Queued, Done
<1>18. CASE SendRefused(p)
  <2>1. queue' = queue /\ handed' = handed
    BY <1>18 DEF SendRefused
  <2>2. CASE Queued(h)
    BY <2>1, <2>2 DEF Held, Queued
  <2>3. CASE Holds(p, h)
    BY <1>18, <2>3 DEF SendRefused, Holds, LoseAll, In, Done, Blamed, Causes
  <2>4. QED
    BY <1>b, <2>1, <2>2, <2>3
<1>19. CASE \E q \in Queues : Reset(q)
  <2> PICK q \in Queues : Reset(q)
    BY <1>19
  <2>1. handed' = handed /\ pc' = pc /\ batch' = batch
    BY DEF Reset, held
  <2>2. CASE Holds(p, h)
    BY <2>1, <2>2 DEF Held, Holds
  <2>3. CASE queue[q][h] > 0
    BY <2>3 DEF Reset, LoseAll, In, Done, Blamed, Causes
  <2>4. CASE \E r \in Queues \ {q} : queue[r][h] > 0
    BY <1>a, <2>4 DEF Reset, Held, Queued, TypeOK
  <2>5. QED
    BY <1>b, <2>1, <2>2, <2>3, <2>4 DEF Queued
<1>20. QED
  BY <1>1, <1>2, <1>3, <1>4, <1>5, <1>6, <1>7, <1>8, <1>9, <1>10, <1>11, <1>12, <1>13,
     <1>14, <1>15, <1>16, <1>17, <1>18, <1>19 DEF Work, Trouble

\* Each action of an invocation p keeps what it knows of its batch.
LEMMA InFlightStep ==
    ASSUME Inv, NEW p \in Procs,
           QueueInBackoff(p) \/ StartSend(p) \/ StartSync(p) \/ Work(p) \/ Trouble(p)
    PROVE  InFlight'
<1>a. TypeOK /\ TypeOK' /\ Alone(p) /\ Growing
  BY AloneStep, GrowingStep, TypeNext DEF Inv, Next
<1> DEFINE Carried(q) ==
        /\ pc[q] \in {"send", "post", "append"} =>
              \A h \in Heartbeats : batch[q][h] > 0 =>
                  \A t \in TargetsOf[h] \ unsent[q] :
                      \/ h \in accepted[t] \cup refused[t]
                      \/ pc[q] # "send" /\ requeue[q][h] > 0
                      \/ Blamed(h)
        /\ pc[q] = "append" => unsent[q] = {}
<1>b. \A q \in Procs : Carried(q)
  BY DEF Inv, InFlight
<1>c. ASSUME NEW q \in Procs,
             pc'[q] = pc[q], batch'[q] = batch[q], unsent'[q] = unsent[q],
             requeue'[q] = requeue[q]
      PROVE  Carried(q)'
  <2>1. \A h \in Heartbeats : Blamed(h) => Blamed(h)'
    BY <1>a DEF Growing, Blamed
  <2>2. \A h \in Heartbeats, t \in Targets :
            h \in accepted[t] \cup refused[t] => h \in accepted'[t] \cup refused'[t]
    BY <1>a DEF Growing
  <2>3. QED
    BY <1>b, <1>c, <2>1, <2>2, TargetsAssumption
<1>d. \A q \in Procs \ {p} : Carried(q)'
  BY <1>a, <1>c DEF Alone
<1>e. SUFFICES Carried(p)'
  BY <1>d, <1>e DEF InFlight
<1>1. CASE pc'[p] \notin {"send", "post", "append"}
  BY <1>1
<1>2. CASE QueueInBackoff(p)
  BY <1>2, <1>c DEF QueueInBackoff, held
<1>3. CASE StartSend(p) /\ pc'[p] = "send"
  <2> PICK H \in SUBSET Heartbeats, F \in SUBSET Heartbeats :
        /\ batch' = [batch EXCEPT ![p] = BagOf(F)]
        /\ \/ Goto(p, "send") /\ unsent' = [unsent EXCEPT ![p] = TargetsOfAll(F)]
           \/ Goto(p, "sendAppend")
    BY <1>3 DEF StartSend
  <2>1. unsent'[p] = TargetsOfAll(F) /\ batch'[p] = BagOf(F)
    BY <1>3, <1>a DEF Goto, TypeOK
  <2>2. \A h \in Heartbeats : batch'[p][h] > 0 => TargetsOf[h] \subseteq unsent'[p]
    BY <2>1 DEF BagOf, TargetsOfAll
  <2>3. QED
    BY <1>3, <2>2
<1>4. CASE RemoveBatch(p)
  <2>1. pc'[p] = "post" /\ batch' = batch /\ unsent'[p] = TargetsOfAll(In(batch[p]))
    BY <1>4, <1>a DEF RemoveBatch, Goto, TypeOK
  <2>2. \A h \in Heartbeats : batch'[p][h] > 0 => TargetsOf[h] \subseteq unsent'[p]
    BY <2>1 DEF In, TargetsOfAll
  <2>3. QED
    BY <2>1, <2>2
<1>5. CASE \E t \in Targets : SendPost(p, t) /\ pc'[p] = "send"
  <2> PICK t \in Targets : SendPost(p, t) /\ pc'[p] = "send"
    BY <1>5
  <2>1. pc[p] = "send" /\ batch' = batch /\ unsent'[p] = unsent[p] \ {t}
    BY <1>a DEF SendPost, EnterSync, Goto, TypeOK
  <2>2. PICK M \in SUBSET Group(p, t) : Answer(p, t, M) /\ LoseAll(M, "ignored")
    BY DEF SendPost
  <2> SUFFICES ASSUME NEW h \in Heartbeats, batch[p][h] > 0,
                      NEW u \in TargetsOf[h] \ unsent'[p]
               PROVE  h \in accepted'[u] \cup refused'[u] \/ Blamed(h)'
    BY <2>1
  <2>3. CASE u # t
    BY <1>a, <1>b, <2>1, <2>3, TargetsAssumption DEF Growing, Blamed
  <2>4. CASE u = t /\ h \in M
    BY <2>2, <2>4 DEF LoseAll, Blamed, Causes
  <2>5. CASE u = t /\ h \notin M
    <3>1. h \in Group(p, t)
      BY <2>5 DEF Group, In
    <3>2. QED
      BY <1>a, <2>2, <2>5, <3>1 DEF Answer, TypeOK
  <2>6. QED
    BY <2>3, <2>4, <2>5
<1>6. CASE \E t \in Targets : Post(p, t)
  <2> PICK t \in Targets : Post(p, t)
    BY <1>6
  <2> DEFINE Back(M) == [h \in Heartbeats |-> IF h \in M THEN batch[p][h] ELSE 0]
  <2>1. /\ pc[p] = "post" /\ batch' = batch /\ unsent'[p] = unsent[p] \ {t}
        /\ pc'[p] = IF unsent[p] = {t} THEN "append" ELSE "post"
    BY <1>a DEF Post, Answered, Goto, TypeOK
  <2>2. PICK M \in SUBSET Group(p, t) :
            Answer(p, t, M) /\ requeue' = [requeue EXCEPT ![p] = Plus(@, Back(M))]
    BY DEF Post
  <2>3. \A h \in Heartbeats : requeue'[p][h] = requeue[p][h] + Back(M)[h]
    BY <1>a, <2>2 DEF TypeOK, Plus
  <2>4. \A h \in Heartbeats : requeue[p][h] \in Nat /\ batch[p][h] \in Nat
    BY <1>a DEF TypeOK, Bag
  <2>5. pc'[p] = "append" => unsent'[p] = {}
    BY <2>1
  <2>6. ASSUME NEW h \in Heartbeats, batch[p][h] > 0, NEW u \in TargetsOf[h] \ unsent'[p]
        PROVE  h \in accepted'[u] \cup refused'[u] \/ requeue'[p][h] > 0 \/ Blamed(h)'
    <3>1. CASE u # t
      <4>1. h \in accepted[u] \cup refused[u] \/ requeue[p][h] > 0 \/ Blamed(h)
        BY <1>b, <2>1, <2>6, <3>1
      <4>2. requeue[p][h] > 0 => requeue'[p][h] > 0
        BY <2>3, <2>4
      <4>3. QED
        BY <1>a, <2>6, <4>1, <4>2, TargetsAssumption DEF Growing, Blamed
    <3>2. CASE u = t /\ h \in M
      BY <2>3, <2>4, <2>6, <3>2
    <3>3. CASE u = t /\ h \notin M
      <4>1. h \in Group(p, t)
        BY <2>6, <3>3 DEF Group, In
      <4>2. QED
        BY <1>a, <2>2, <3>3, <4>1 DEF Answer, TypeOK
    <3>4. QED
      BY <3>1, <3>2, <3>3
  <2>7. QED
    BY <2>1, <2>5, <2>6
<1>7. CASE \E t \in Targets : PostSilent(p, t)
  <2> PICK t \in Targets : PostSilent(p, t)
    BY <1>7
  <2>1. /\ pc[p] = "post" /\ batch' = batch /\ unsent'[p] = unsent[p] \ {t}
        /\ requeue' = requeue
        /\ pc'[p] = IF unsent[p] = {t} THEN "append" ELSE "post"
    BY <1>a DEF PostSilent, Answered, Goto, TypeOK
  <2>2. PICK A \in {{}, Group(p, t) \ Invalid} :
            /\ accepted' = [accepted EXCEPT ![t] = @ \cup A]
            /\ LoseAll(Group(p, t) \ A, "silent")
    BY DEF PostSilent
  <2>3. pc'[p] = "append" => unsent'[p] = {}
    BY <2>1
  <2>4. ASSUME NEW h \in Heartbeats, batch[p][h] > 0, NEW u \in TargetsOf[h] \ unsent'[p]
        PROVE  h \in accepted'[u] \cup refused'[u] \/ requeue'[p][h] > 0 \/ Blamed(h)'
    <3>1. CASE u # t
      BY <1>a, <1>b, <2>1, <2>4, <3>1, TargetsAssumption DEF Growing, Blamed
    <3>2. CASE u = t
      <4>1. h \in Group(p, t)
        BY <2>4, <3>2 DEF Group, In
      <4>2. h \in A => h \in accepted'[t]
        BY <1>a, <2>2 DEF TypeOK
      <4>3. h \notin A => Blamed(h)'
        BY <2>2, <4>1 DEF LoseAll, Blamed, Causes
      <4>4. QED
        BY <3>2, <4>2, <4>3
    <3>3. QED
      BY <3>1, <3>2
  <2>5. QED
    BY <2>1, <2>3, <2>4
<1>8. CASE \E t \in Targets : PostFails(p, t)
  <2>1. /\ pc'[p] = "append" /\ unsent'[p] = {}
        /\ batch' = batch /\ requeue'[p] = batch[p]
    BY <1>a, <1>8 DEF PostFails, Goto, TypeOK
  <2>2. QED
    BY <2>1
<1>9. QED
  <2>1. CASE StartSend(p)
    BY <1>a, <1>1, <1>3, <2>1 DEF StartSend, Goto, TypeOK
  <2>2. CASE StartSync(p) \/ Work(p)
    <3>1. CASE StartSync(p) \/ SendAppend(p) \/ Dedupe(p) \/ Unlink(p)
      BY <1>a, <1>1, <3>1 DEF StartSync, EnterSync, SendAppend, Dedupe, Unlink, Goto, TypeOK
    <3>2. CASE Count(p) \/ Read(p) \/ AppendBatch(p)
      BY <1>a, <1>1, <3>2 DEF Count, Read, AppendBatch, Return, AfterQueue, Goto, TypeOK
    <3>3. CASE \E t \in Targets : SendPost(p, t)
      BY <1>a, <1>1, <1>5, <3>3 DEF SendPost, EnterSync, Goto, TypeOK
    <3>4. QED
      BY <1>4, <1>6, <2>2, <3>1, <3>2, <3>3 DEF Work
  <2>3. CASE Trouble(p)
    <3>1. CASE SendRefused(p) \/ SyncGivesUp(p) \/ AppendFails(p) \/ Crash(p)
      BY <1>a, <1>1, <3>1 DEF SendRefused, SyncGivesUp, AppendFails, Crash, Return, Goto, TypeOK
    <3>2. CASE \E t \in Targets : SendFails(p, t)
      BY <1>a, <1>1, <3>2 DEF SendFails, Goto, TypeOK
    <3>3. CASE SpillFails(p) \/ \E q \in Queues : Reset(q)
      BY <1>c, <3>3 DEF SpillFails, Reset, held
    <3>4. QED
      BY <1>7, <1>8, <2>3, <3>1, <3>2, <3>3 DEF Trouble
  <2>4. QED
    BY <1>2, <2>1, <2>2, <2>3

LEMMA InvInit == Init => Inv
<1> SUFFICES ASSUME Init
             PROVE  Inv
  OBVIOUS
<1>1. Accounted
  <2> PICK old \in SUBSET Legacy :
        /\ queue = [q \in Queues |-> IF q = "legacy" THEN BagOf(old) ELSE Empty]
        /\ handed = old
    BY DEF Init
  <2>1. \A h \in handed : queue["legacy"][h] > 0
    BY SubsetsAssumption DEF Queues, BagOf
  <2>2. QED
    BY <2>1 DEF Accounted, Held, Queued, Queues
<1>2. InFlight
  BY DEF Init, InFlight
<1>3. QED
  BY <1>1, <1>2, TypeInit DEF Inv

LEMMA InvNext == Inv /\ [Next]_vars => Inv'
<1> SUFFICES ASSUME Inv, [Next]_vars
             PROVE  Inv'
  OBVIOUS
<1>1. CASE Next
  BY <1>1, TypeNext, AccountedStep, InFlightStep DEF Inv, Next
<1>2. CASE UNCHANGED vars
  BY <1>2 DEF vars, Inv, TypeOK, Accounted, InFlight, Held, Holds, Queued, Settled, Blamed
<1>3. QED
  BY <1>1, <1>2

\* For any number of concurrent invocations, any targets and any faults, a
\* heartbeat handed to the tool is queued, held, settled or merged, or one of
\* the steps that drop heartbeats is to blame.
THEOREM AccountedAlways == Spec => []Accounted
<1>1. Inv => Accounted
  BY DEF Inv
<1>2. QED
  BY <1>1, InvInit, InvNext, PTL DEF Spec


-----------------------------------------------------------------------------
(* The keys of a queue file, in their order.                                *)

LEMMA OneTo ==
    ASSUME NEW n \in Nat
    PROVE  IsFiniteSet(1 .. n) /\ Cardinality(1 .. n) = n
<1>1. 1 \in Int /\ n \in Int
  OBVIOUS
<1>2. IsFiniteSet(1 .. n) /\ Cardinality(1 .. n) = IF 1 > n THEN 0 ELSE n - 1 + 1
  BY <1>1, FS_Interval, Zenon
<1>3. QED
  BY <1>2

LEMMA KeysAre ==
    ASSUME NEW b \in Bag
    PROVE  /\ IsFiniteSet(Keys(b))
           /\ \A h \in Heartbeats : \A i : <<h, i>> \in Keys(b) <=> i \in 1 .. b[h]
           /\ \A k \in Keys(b) : \E h \in Heartbeats : \E i \in 1 .. b[h] : k = <<h, i>>
<1> DEFINE f == [h \in Heartbeats |-> {h} \X (1 .. b[h])]
           T == {{h} \X (1 .. b[h]) : h \in Heartbeats}
<1>1. f \in Surjection(Heartbeats, T)
  BY DEF Surjection
<1>2. IsFiniteSet(T)
  BY <1>1, HeartbeatsAssumption, FS_Surjection
<1>3. ASSUME NEW h \in Heartbeats
      PROVE  IsFiniteSet({h} \X (1 .. b[h]))
  <2>1. IsFiniteSet(1 .. b[h])
    BY FS_Interval DEF Bag
  <2>2. IsFiniteSet({h})
    BY FS_Singleton
  <2>3. QED
    BY <2>1, <2>2, FS_Product
<1>4. IsFiniteSet(Keys(b))
  BY <1>2, <1>3, FS_UNION DEF Keys
<1>5. QED
  BY <1>4 DEF Keys

\* The keys of a heartbeat come after those of the heartbeats before it.
LEMMA KeysInOrder ==
    ASSUME NEW b \in Bag, NEW h \in Heartbeats
    PROVE  /\ Before(b, h) \in Nat
           /\ Before(b, h) + b[h] <= Size(b)
           /\ \A k \in Heartbeats : h < k => Before(b, h) + b[h] <= Before(b, k)
<1> DEFINE Lower(x) == {y \in Keys(b) : y[1] < x}
           Own == {h} \X (1 .. b[h])
<1>1. b[h] \in Nat /\ Heartbeats \subseteq Nat
  BY HeartbeatsAssumption DEF Bag
<1>2. IsFiniteSet(Own) /\ Cardinality(Own) = b[h]
  <2>1. IsFiniteSet(1 .. b[h]) /\ Cardinality(1 .. b[h]) = b[h]
    BY <1>1, OneTo
  <2>2. IsFiniteSet({h}) /\ Cardinality({h}) = 1
    BY FS_Singleton
  <2>3. IsFiniteSet(Own) /\ Cardinality(Own) = 1 * b[h]
    BY <2>1, <2>2, FS_Product
  <2>4. QED
    BY <1>1, <2>3
<1>3. \A x : IsFiniteSet(Lower(x))
  BY KeysAre, FS_Subset
<1>4. Cardinality(Lower(h)) \in Nat
  BY <1>3, FS_CardinalityType
<1>5. Lower(h) \cap Own = {}
  BY <1>1
<1>6. IsFiniteSet(Lower(h) \cup Own) /\ Cardinality(Lower(h) \cup Own) = Cardinality(Lower(h)) + b[h]
  <2>1. /\ IsFiniteSet(Lower(h) \cup Own)
        /\ Cardinality(Lower(h) \cup Own)
             = Cardinality(Lower(h)) + Cardinality(Own) - Cardinality(Lower(h) \cap Own)
    BY <1>2, <1>3, FS_Union
  <2>2. Cardinality(Lower(h) \cap Own) = 0
    BY <1>5, FS_EmptySet
  <2>3. QED
    BY <1>1, <1>2, <1>4, <2>1, <2>2
<1>7. Own \subseteq Keys(b)
  BY KeysAre
<1>8. Cardinality(Lower(h)) + b[h] <= Size(b)
  <2>1. Lower(h) \cup Own \in SUBSET Keys(b)
    BY <1>7
  <2>2. QED
    BY <1>6, <2>1, KeysAre, FS_Subset DEF Size
<1>9. ASSUME NEW k \in Heartbeats, h < k
      PROVE  Cardinality(Lower(h)) + b[h] <= Cardinality(Lower(k))
  <2>1. \A y \in Keys(b) : y[1] \in Nat
    BY <1>1, KeysAre
  <2>2. Lower(h) \cup Own \in SUBSET Lower(k)
    BY <1>1, <1>7, <1>9, <2>1
  <2>3. Cardinality(Lower(h) \cup Own) <= Cardinality(Lower(k))
    BY <1>3, <2>2, FS_Subset
  <2>4. QED
    BY <1>6, <2>3
<1>10. QED
  BY <1>4, <1>8, <1>9 DEF Before

\* The place of a key in its file.
Place(b, k) == Before(b, k[1]) + k[2]

LEMMA PlacesNumberKeys ==
    ASSUME NEW b \in Bag
    PROVE  [k \in Keys(b) |-> Place(b, k)] \in Bijection(Keys(b), 1 .. Size(b))
<1> DEFINE f == [k \in Keys(b) |-> Place(b, k)]
<1>1. Size(b) \in Nat /\ IsFiniteSet(Keys(b)) /\ Heartbeats \subseteq Nat
  BY SizeIsNat, KeysAre, HeartbeatsAssumption
<1>2. ASSUME NEW h \in Heartbeats, NEW i \in 1 .. b[h]
      PROVE  /\ Before(b, h) \in Nat /\ b[h] \in Nat /\ h \in Nat
             /\ Before(b, h) + i \in 1 .. Size(b)
  <2>1. Before(b, h) \in Nat /\ b[h] \in Nat /\ Before(b, h) + b[h] <= Size(b)
    BY <1>2, KeysInOrder DEF Bag
  <2>2. QED
    BY <1>1, <2>1
<1>3. f \in [Keys(b) -> 1 .. Size(b)]
  <2>1. ASSUME NEW k \in Keys(b) PROVE Place(b, k) \in 1 .. Size(b)
    <3>1. PICK h \in Heartbeats : \E i \in 1 .. b[h] : k = <<h, i>>
      BY KeysAre
    <3>2. PICK i \in 1 .. b[h] : k = <<h, i>>
      BY <3>1
    <3>3. QED
      BY <1>2, <3>2 DEF Place
  <2>2. QED
    BY <2>1
<1>4. ASSUME NEW x \in Keys(b), NEW y \in Keys(b), Place(b, x) = Place(b, y)
      PROVE  x = y
  <2>1. PICK h \in Heartbeats : \E i \in 1 .. b[h] : x = <<h, i>>
    BY KeysAre
  <2>2. PICK i \in 1 .. b[h] : x = <<h, i>>
    BY <2>1
  <2>3. PICK k \in Heartbeats : \E j \in 1 .. b[k] : y = <<k, j>>
    BY KeysAre
  <2>4. PICK j \in 1 .. b[k] : y = <<k, j>>
    BY <2>3
  <2>5. Before(b, h) + i = Before(b, k) + j
    BY <1>4, <2>2, <2>4 DEF Place
  <2>6. CASE h = k
    BY <1>2, <2>2, <2>4, <2>5, <2>6
  <2>7. CASE h < k
    <3>1. Before(b, h) + b[h] <= Before(b, k)
      BY <2>7, KeysInOrder
    <3>2. QED
      BY <1>2, <2>5, <3>1
  <2>8. CASE k < h
    <3>1. Before(b, k) + b[k] <= Before(b, h)
      BY <2>8, KeysInOrder
    <3>2. QED
      BY <1>2, <2>5, <3>1
  <2>9. QED
    BY <1>2, <2>6, <2>7, <2>8
<1>5. f \in Injection(Keys(b), 1 .. Size(b))
  BY <1>3, <1>4 DEF Injection, IsInjective
<1>6. IsFiniteSet(1 .. Size(b)) /\ Cardinality(1 .. Size(b)) = Cardinality(Keys(b))
  BY <1>1, OneTo DEF Size
<1>7. f \in Surjection(Keys(b), 1 .. Size(b))
  BY <1>5, <1>6, FS_Injection
<1>8. QED
  BY <1>5, <1>7 DEF Bijection

\* A prefix holds the first keys of the file.
LEMMA KeysOfPrefix ==
    ASSUME NEW b \in Bag, NEW n \in Int
    PROVE  Keys(Prefix(b, n)) = {k \in Keys(b) : Place(b, k) <= n}
<1>1. ASSUME NEW h \in Heartbeats, NEW i
      PROVE  i \in 1 .. Prefix(b, n)[h] <=> i \in 1 .. b[h] /\ Before(b, h) + i <= n
  <2> DEFINE C == {j \in 1 .. b[h] : Before(b, h) + j <= n}
             m == IF n - Before(b, h) < b[h] THEN n - Before(b, h) ELSE b[h]
  <2>1. b[h] \in Nat /\ Before(b, h) \in Nat
    BY KeysInOrder DEF Bag
  <2>2. m \in Int /\ C = 1 .. m
    BY <2>1
  <2> HIDE DEF C, m
  <2>3. ASSUME m \in Nat PROVE 1 .. Cardinality(C) = C
    BY <2>2, <2>3, OneTo
  <2>4. ASSUME m \notin Nat PROVE 1 .. Cardinality(C) = C
    <3>1. C = {} /\ 1 .. 0 = {}
      BY <2>2, <2>4
    <3>2. Cardinality(C) = 0
      BY <3>1, FS_EmptySet
    <3>3. QED
      BY <3>1, <3>2
  <2>5. Prefix(b, n)[h] = Cardinality(C)
    BY DEF Prefix, C
  <2>6. i \in C <=> i \in 1 .. b[h] /\ Before(b, h) + i <= n
    BY DEF C
  <2>7. QED
    BY <2>3, <2>4, <2>5, <2>6
<1>2. Prefix(b, n) \in Bag
  BY PrefixIsBelow
<1>3. ASSUME NEW k \in Keys(Prefix(b, n)) PROVE k \in Keys(b) /\ Place(b, k) <= n
  <2>1. PICK h \in Heartbeats : \E i \in 1 .. Prefix(b, n)[h] : k = <<h, i>>
    BY <1>2, KeysAre
  <2>2. PICK i \in 1 .. Prefix(b, n)[h] : k = <<h, i>>
    BY <2>1
  <2>3. QED
    BY <1>1, <2>2, KeysAre DEF Place
<1>4. ASSUME NEW k \in Keys(b), Place(b, k) <= n PROVE k \in Keys(Prefix(b, n))
  <2>1. PICK h \in Heartbeats : \E i \in 1 .. b[h] : k = <<h, i>>
    BY KeysAre
  <2>2. PICK i \in 1 .. b[h] : k = <<h, i>>
    BY <2>1
  <2>3. i \in 1 .. Prefix(b, n)[h]
    BY <1>1, <1>4, <2>2 DEF Place
  <2>4. QED
    BY <1>2, <2>2, <2>3, KeysAre
<1>5. QED
  BY <1>3, <1>4

LEMMA SizeOfPrefix ==
    ASSUME NEW b \in Bag, NEW n \in Nat
    PROVE  Size(Prefix(b, n)) = IF n < Size(b) THEN n ELSE Size(b)
<1> DEFINE f == [k \in Keys(b) |-> Place(b, k)]
           S == {k \in Keys(b) : Place(b, k) <= n}
           g == [k \in S |-> Place(b, k)]
           m == IF n < Size(b) THEN n ELSE Size(b)
<1>1. Size(b) \in Nat /\ m \in Nat
  BY SizeIsNat
<1>2. /\ \A k \in Keys(b) : Place(b, k) \in 1 .. Size(b)
      /\ \A x, y \in Keys(b) : Place(b, x) = Place(b, y) => x = y
      /\ \A j \in 1 .. Size(b) : \E k \in Keys(b) : Place(b, k) = j
  <2> HIDE DEF Place
  <2>1. f \in Bijection(Keys(b), 1 .. Size(b))
    BY PlacesNumberKeys
  <2>2. \A k \in Keys(b) : f[k] = Place(b, k)
    OBVIOUS
  <2> HIDE DEF f
  <2>3. QED
    BY <2>1, <2>2 DEF Bijection, Injection, IsInjective, Surjection
<1>3. g \in Bijection(S, 1 .. m)
  <2>1. g \in [S -> 1 .. m]
    BY <1>1, <1>2
  <2>2. \A x, y \in S : g[x] = g[y] => x = y
    BY <1>2
  <2>3. \A j \in 1 .. m : \E k \in S : g[k] = j
    BY <1>1, <1>2
  <2>4. QED
    BY <2>1, <2>2, <2>3 DEF Bijection, Injection, IsInjective, Surjection
<1>4. IsFiniteSet(S)
  BY KeysAre, FS_Subset
<1>5. Cardinality(1 .. m) = Cardinality(S)
  BY <1>3, <1>4, FS_Bijection DEF ExistsBijection
<1>6. Cardinality(1 .. m) = m
  BY <1>1, OneTo
<1>7. Keys(Prefix(b, n)) = S
  BY KeysOfPrefix
<1>8. QED
  BY <1>5, <1>6, <1>7 DEF Size

\* Removing as many keys as a read returned removes what was read, as long as
\* nobody else changes the file.
LEMMA PrefixOfSize ==
    ASSUME NEW b \in Bag, NEW n \in Nat
    PROVE  Prefix(b, Size(Prefix(b, n))) = Prefix(b, n)
<1> DEFINE m == Size(Prefix(b, n))
<1>1. Size(b) \in Nat /\ m = IF n < Size(b) THEN n ELSE Size(b)
  BY SizeIsNat, SizeOfPrefix
<1>2. CASE n < Size(b)
  BY <1>1, <1>2
<1>3. CASE ~(n < Size(b))
  <2> HIDE DEF m
  <2>1. \A h \in Heartbeats : \A i \in 1 .. b[h] : Before(b, h) + i <= Size(b)
    <3>1. ASSUME NEW h \in Heartbeats, NEW i \in 1 .. b[h]
          PROVE  Before(b, h) + i <= Size(b)
      <4>1. Before(b, h) \in Nat /\ b[h] \in Nat /\ Before(b, h) + b[h] <= Size(b)
        BY KeysInOrder DEF Bag
      <4>2. QED
        BY <1>1, <4>1
    <3>2. QED
      BY <3>1
  <2>2. \A h \in Heartbeats :
          {i \in 1 .. b[h] : Before(b, h) + i <= m} = {i \in 1 .. b[h] : Before(b, h) + i <= n}
    <3>1. ASSUME NEW h \in Heartbeats, NEW i \in 1 .. b[h]
          PROVE  Before(b, h) + i <= m /\ Before(b, h) + i <= n
      <4>1. Before(b, h) \in Nat /\ b[h] \in Nat
        BY KeysInOrder DEF Bag
      <4>2. QED
        BY <1>1, <1>3, <2>1, <4>1
    <3>2. QED
      BY <3>1
  <2>3. Prefix(b, m) = Prefix(b, n)
    BY <2>2 DEF Prefix
  <2>4. QED
    BY <2>3 DEF m
<1>4. QED
  BY <1>2, <1>3

LEMMA SizeOfMinus ==
    ASSUME NEW b \in Bag, NEW a \in Bag, \A h \in Heartbeats : a[h] <= b[h]
    PROVE  Size(Minus(b, a)) = Size(b) - Size(a)
<1> DEFINE c == Minus(b, a)
           g == [k \in Keys(c) |-> <<k[1], k[2] + a[k[1]]>>]
           R == Keys(b) \ Keys(a)
<1>1. c \in Bag /\ \A h \in Heartbeats : a[h] \in Nat /\ b[h] \in Nat /\ c[h] = b[h] - a[h]
  BY BagOperations DEF Minus, Bag
<1> HIDE DEF c
<1>2. \A h \in Heartbeats : \A i :
        /\ <<h, i>> \in Keys(c) <=> i \in 1 .. c[h]
        /\ <<h, i>> \in R <=> i \in 1 .. b[h] /\ i \notin 1 .. a[h]
  BY <1>1, KeysAre
<1>3. \A h \in Heartbeats : \A i \in 1 .. c[h] :
        /\ <<h, i>> \in Keys(c)
        /\ g[<<h, i>>] = <<h, i + a[h]>>
        /\ <<h, i + a[h]>> \in R
  <2>1. ASSUME NEW h \in Heartbeats, NEW i \in 1 .. c[h]
        PROVE  /\ <<h, i>> \in Keys(c)
               /\ g[<<h, i>>] = <<h, i + a[h]>>
               /\ <<h, i + a[h]>> \in R
    <3>1. i + a[h] \in 1 .. b[h] /\ i + a[h] \notin 1 .. a[h]
      BY <1>1
    <3>2. <<h, i>> \in Keys(c)
      BY <1>2
    <3>3. QED
      BY <1>2, <3>1, <3>2
  <2>2. QED
    BY <2>1
<1>4. \A k \in Keys(c) : \E h \in Heartbeats : \E i \in 1 .. c[h] : k = <<h, i>>
  BY <1>1, KeysAre
<1>5. \A k \in R : \E h \in Heartbeats : \E i \in 1 .. c[h] : k = <<h, i + a[h]>>
  <2>1. ASSUME NEW k \in R
        PROVE  \E h \in Heartbeats : \E i \in 1 .. c[h] : k = <<h, i + a[h]>>
    <3>1. PICK h \in Heartbeats : \E i \in 1 .. b[h] : k = <<h, i>>
      BY KeysAre
    <3>2. PICK i \in 1 .. b[h] : k = <<h, i>>
      BY <3>1
    <3>3. i \notin 1 .. a[h]
      BY <1>2, <3>2
    <3>4. i - a[h] \in 1 .. c[h] /\ (i - a[h]) + a[h] = i
      BY <1>1, <3>3
    <3>5. QED
      BY <3>2, <3>4
  <2>2. QED
    BY <2>1
<1> HIDE DEF g
<1>6. g \in Bijection(Keys(c), R)
  <2>1. g \in [Keys(c) -> R]
    <3>1. ASSUME NEW k \in Keys(c) PROVE g[k] \in R
      <4>1. PICK h \in Heartbeats : \E i \in 1 .. c[h] : k = <<h, i>>
        BY <1>4
      <4>2. QED
        BY <1>3, <4>1
    <3>2. QED
      BY <3>1 DEF g
  <2>2. ASSUME NEW x \in Keys(c), NEW y \in Keys(c), g[x] = g[y] PROVE x = y
    <3>1. PICK h \in Heartbeats : \E i \in 1 .. c[h] : x = <<h, i>>
      BY <1>4
    <3>2. PICK i \in 1 .. c[h] : x = <<h, i>>
      BY <3>1
    <3>3. PICK k \in Heartbeats : \E j \in 1 .. c[k] : y = <<k, j>>
      BY <1>4
    <3>4. PICK j \in 1 .. c[k] : y = <<k, j>>
      BY <3>3
    <3>5. <<h, i + a[h]>> = <<k, j + a[k]>>
      BY <1>3, <2>2, <3>2, <3>4
    <3>6. h = k /\ i + a[h] = j + a[h]
      BY <3>5
    <3>7. QED
      BY <1>1, <3>2, <3>4, <3>6
  <2>3. ASSUME NEW k \in R PROVE \E x \in Keys(c) : g[x] = k
    <3>1. PICK h \in Heartbeats : \E i \in 1 .. c[h] : k = <<h, i + a[h]>>
      BY <1>5
    <3>2. QED
      BY <1>3, <3>1
  <2>4. QED
    BY <2>1, <2>2, <2>3 DEF Bijection, Injection, IsInjective, Surjection
<1>7. Cardinality(R) = Size(c)
  BY <1>1, <1>6, KeysAre, FS_Bijection DEF ExistsBijection, Size
<1>8. Keys(a) \subseteq Keys(b)
  <2>1. ASSUME NEW k \in Keys(a) PROVE k \in Keys(b)
    <3>1. PICK h \in Heartbeats : \E i \in 1 .. a[h] : k = <<h, i>>
      BY KeysAre
    <3>2. PICK i \in 1 .. a[h] : k = <<h, i>>
      BY <3>1
    <3>3. i \in 1 .. b[h]
      BY <1>1
    <3>4. QED
      BY <3>2, <3>3, KeysAre
  <2>2. QED
    BY <2>1
<1>9. Keys(b) \cap Keys(a) = Keys(a)
  BY <1>8
<1>10. Cardinality(R) = Size(b) - Size(a)
  BY <1>9, KeysAre, FS_Difference DEF Size
<1>11. QED
  BY <1>7, <1>10 DEF c

LEMMA NoKeys ==
    ASSUME NEW b \in Bag
    PROVE  Size(b) = 0 <=> b = Empty
<1>1. IsFiniteSet(Keys(b)) /\ (Size(b) = 0 <=> Keys(b) = {})
  BY KeysAre, FS_EmptySet DEF Size
<1>2. Keys(b) = {} => \A h \in Heartbeats : b[h] = 0
  <2>1. ASSUME NEW h \in Heartbeats, b[h] # 0 PROVE <<h, 1>> \in Keys(b)
    <3>1. 1 \in 1 .. b[h]
      BY <2>1 DEF Bag
    <3>2. QED
      BY <3>1, KeysAre
  <2>2. QED
    BY <2>1
<1>3. (\A h \in Heartbeats : b[h] = 0) => Keys(b) = {}
  BY KeysAre
<1>4. b = Empty <=> \A h \in Heartbeats : b[h] = 0
  BY DEF Bag, Empty
<1>5. QED
  BY <1>1, <1>2, <1>3, <1>4

\* A file has no more heartbeats than keys.
LEMMA FewerHeartbeatsThanKeys ==
    ASSUME NEW b \in Bag
    PROVE  IsFiniteSet(In(b)) /\ Cardinality(In(b)) <= Size(b)
<1> DEFINE f == [h \in In(b) |-> <<h, 1>>]
<1>1. \A h \in In(b) : <<h, 1>> \in Keys(b)
  <2>1. ASSUME NEW h \in In(b) PROVE <<h, 1>> \in Keys(b)
    <3>1. h \in Heartbeats /\ 1 \in 1 .. b[h]
      BY DEF In, Bag
    <3>2. QED
      BY <3>1, KeysAre
  <2>2. QED
    BY <2>1
<1>2. f \in Injection(In(b), Keys(b))
  BY <1>1 DEF Injection, IsInjective
<1>3. QED
  BY <1>2, KeysAre, FS_Injection DEF Size

-----------------------------------------------------------------------------
(* One invocation at a time loses nothing *)

\* What the one invocation p knows of its queue file.  The heart of it is the
\* legacy file, which Unlink deletes: no limit stops the pass over it, so its
\* size is the loop counter, less the batch that is out, and 0 at the end of a
\* pass without an error; an error ends the sync before Unlink.
SerialOf(p) ==
    /\ path[p] = "legacy" => SyncLimit = 0
    /\ pc[p] = "unlink" => path[p] = "legacy"
    /\ failed[p] => pc[p] = "append"
    /\ failed[p] \/ requeue[p] = Empty
    /\ pc[p] = "read" => remaining[p] > 0
    /\ pc[p] = "remove" => \E n \in Nat : batch[p] = Prefix(queue[path[p]], n)
    /\ path[p] = "legacy" =>
          /\ pc[p] \in {"read", "remove"} => Size(queue["legacy"]) = remaining[p]
          /\ pc[p] \in {"post", "append"} /\ ~failed[p] =>
                Size(queue["legacy"]) = remaining[p] - Size(batch[p])
          /\ pc[p] = "unlink" => queue["legacy"] = Empty

SerialInv ==
    /\ TypeOK
    /\ lost = {}
    /\ legacyFile => SyncLimit = 0
    /\ \A p \in Procs : SerialOf(p)

LEMMA OnlyTransportFaults ==
    ASSUME Serial, NEW k, k # "transport"
    PROVE  ~Fault(k)
BY LimitsAssumption DEF Serial, Fault

\* No result is missing from an answer.
LEMMA AnswersAreWhole ==
    ASSUME Serial, NEW p, NEW t, NEW M, Answer(p, t, M)
    PROVE  M = {} /\ faults' = faults
BY OnlyTransportFaults DEF Answer

\* An idle invocation with nothing in memory.
LEMMA SerialStarts ==
    ASSUME Serial, SerialInv, NEW p \in Procs,
           QueueInBackoff(p) \/ StartSend(p) \/ StartSync(p)
    PROVE  lost' = {} /\ (legacyFile' => SyncLimit = 0) /\ SerialOf(p)'
<1> USE DEF SerialInv, SerialOf, TypeOK
<1>1. CASE QueueInBackoff(p)
  <2>1. /\ pc[p] = "idle" /\ UNCHANGED <<legacyFile, pc, path, requeue, failed, lost>>
    BY <1>1, OnlyTransportFaults DEF QueueInBackoff, held
  <2>2. QED
    BY <2>1
<1>2. CASE StartSend(p)
  <2>1. /\ pc[p] = "idle" /\ UNCHANGED <<legacyFile, path, requeue, failed, lost>>
        /\ pc'[p] \in {"send", "sendAppend"}
    BY <1>2 DEF StartSend, Goto
  <2>2. QED
    BY <2>1
<1>3. CASE StartSync(p)
  <2>1. /\ pc[p] = "idle" /\ UNCHANGED <<legacyFile, requeue, failed, lost>>
        /\ pc'[p] = "dedupe" /\ path'[p] = IF legacyFile THEN "legacy" ELSE "main"
    BY <1>3 DEF StartSync, EnterSync, Goto, held
  <2>2. QED
    BY <2>1
<1>4. QED
  BY <1>1, <1>2, <1>3

LEMMA SerialSends ==
    ASSUME Serial, SerialInv, NEW p \in Procs, NEW t \in Targets,
           SendPost(p, t) \/ SendFails(p, t)
    PROVE  lost' = {} /\ (legacyFile' => SyncLimit = 0) /\ SerialOf(p)'
<1> USE DEF SerialInv, SerialOf, TypeOK
<1>1. CASE SendPost(p, t)
  <2>1. lost' = {} /\ legacyFile' = legacyFile /\ pc[p] = "send"
    BY <1>1, AnswersAreWhole DEF SendPost, LoseAll
  <2>2. CASE unsent[p] = {t}
    <3>1. /\ pc'[p] = "dedupe" /\ path'[p] = IF legacyFile THEN "legacy" ELSE "main"
          /\ requeue'[p] = Empty /\ failed'[p] = FALSE
      BY <1>1, <2>2, BagOperations DEF SendPost, EnterSync, Goto, Release
    <3>2. QED
      BY <2>1, <3>1
  <2>3. CASE unsent[p] # {t}
    <3>1. UNCHANGED <<pc, path, requeue, failed>>
      BY <1>1, <2>3 DEF SendPost
    <3>2. QED
      BY <2>1, <3>1
  <2>4. QED
    BY <2>2, <2>3
<1>2. CASE SendFails(p, t)
  <2>1. /\ UNCHANGED <<legacyFile, path, requeue, failed, lost>>
        /\ pc[p] = "send" /\ pc'[p] = "sendAppend"
    BY <1>2 DEF SendFails, Goto
  <2>2. QED
    BY <2>1
<1>3. QED
  BY <1>1, <1>2

LEMMA SerialReads ==
    ASSUME Serial, SerialInv, NEW p \in Procs, Dedupe(p) \/ Count(p) \/ Read(p)
    PROVE  lost' = {} /\ (legacyFile' => SyncLimit = 0) /\ SerialOf(p)'
<1> USE DEF SerialInv, SerialOf, TypeOK
<1>1. CASE Dedupe(p)
  <2>1. /\ UNCHANGED <<path, requeue, failed, lost>>
        /\ pc[p] = "dedupe" /\ pc'[p] = "count" /\ legacyFile' = (legacyFile \/ path[p] = "legacy")
    BY <1>1 DEF Dedupe, Touch, Goto, held
  <2>2. QED
    BY <2>1
<1>2. CASE Count(p)
  <2> DEFINE n == Size(queue[path[p]])
             snapshot == IF SyncLimit > 0 /\ n > SyncLimit THEN SyncLimit ELSE n
  <2>1. n \in Nat /\ snapshot \in Nat
    BY SizeIsNat, LimitsAssumption
  <2>2. /\ UNCHANGED <<queue, legacyFile, path, requeue, failed, lost>>
        /\ pc[p] = "count"
        /\ remaining'[p] = snapshot
        /\ pc'[p] = IF snapshot > 0 THEN "read" ELSE AfterQueue(p)
    BY <1>2 DEF Count, Goto, held
  <2>3. path[p] = "legacy" => snapshot = Size(queue["legacy"])
    OBVIOUS
  <2>4. path[p] = "legacy" /\ snapshot = 0 => queue["legacy"] = Empty
    BY <2>3, NoKeys DEF Queues
  <2> HIDE DEF snapshot, n
  <2>5. QED
    BY <2>1, <2>2, <2>3, <2>4 DEF AfterQueue
<1>3. CASE Read(p)
  <2> DEFINE limit == IF remaining[p] < BatchLimit THEN remaining[p] ELSE BatchLimit
             b == Prefix(queue[path[p]], limit)
  <2>1. limit \in Nat /\ limit > 0 /\ pc[p] = "read" /\ remaining[p] > 0
    BY <1>3, LimitsAssumption DEF Read
  <2>2. /\ UNCHANGED <<queue, legacyFile, path, requeue, failed, remaining, lost>>
        /\ batch'[p] = b
        /\ pc'[p] = IF b = Empty THEN AfterQueue(p) ELSE "remove"
    BY <1>3 DEF Read, Goto
  <2>3. queue["legacy"] \in Bag
    BY DEF Queues
  <2>4. path[p] = "legacy" => b # Empty
    <3> SUFFICES ASSUME path[p] = "legacy"
                 PROVE  Size(b) # Size(Empty)
      OBVIOUS
    <3>1. Size(queue["legacy"]) = remaining[p]
      BY <2>1
    <3>2. Size(b) = IF limit < remaining[p] THEN limit ELSE remaining[p]
      BY <2>1, <2>3, <3>1, SizeOfPrefix
    <3>3. Size(Empty) = 0
      BY NoKeys, BagOperations
    <3>4. QED
      BY <2>1, <3>2, <3>3
  <2> HIDE DEF limit
  <2>5. QED
    BY <2>1, <2>2, <2>4 DEF AfterQueue
<1>4. QED
  BY <1>1, <1>2, <1>3

LEMMA SerialRemoves ==
    ASSUME Serial, SerialInv, NEW p \in Procs, RemoveBatch(p)
    PROVE  lost' = {} /\ (legacyFile' => SyncLimit = 0) /\ SerialOf(p)'
<1> USE DEF SerialInv, SerialOf, TypeOK
<1> DEFINE file == queue[path[p]]
           out == Prefix(file, Size(batch[p]))
<1>1. pc[p] = "remove" /\ file \in Bag /\ batch[p] \in Bag /\ path[p] \in Queues
  BY DEF RemoveBatch
<1>2. PICK n \in Nat : batch[p] = Prefix(file, n)
  BY <1>1
<1>3. out = batch[p]
  BY <1>1, <1>2, PrefixOfSize
<1>4. /\ queue' = [queue EXCEPT ![path[p]] = Minus(file, out)]
      /\ lost' = lost \cup ({h \in Heartbeats : out[h] > batch[p][h]} \X {"unread"})
      /\ legacyFile' = (legacyFile \/ path[p] = "legacy")
      /\ pc'[p] = "post"
      /\ UNCHANGED <<path, batch, requeue, failed, remaining>>
  BY DEF RemoveBatch, LoseAll, Touch, Goto
<1>5. {h \in Heartbeats : out[h] > batch[p][h]} = {}
  BY <1>1, <1>3 DEF Bag
<1>6. lost' = {}
  BY <1>4, <1>5
<1>7. \A h \in Heartbeats : batch[p][h] <= file[h]
  BY <1>1, <1>2, PrefixIsBelow
<1>8. Size(Minus(file, out)) = Size(file) - Size(batch[p])
  BY <1>1, <1>3, <1>7, SizeOfMinus
<1>9. path[p] = "legacy" => Size(queue'["legacy"]) = remaining[p] - Size(batch[p])
  <2> SUFFICES ASSUME path[p] = "legacy"
               PROVE  Size(queue'["legacy"]) = remaining[p] - Size(batch[p])
    OBVIOUS
  <2>1. queue'["legacy"] = Minus(file, out)
    BY <1>4, <1>1
  <2>2. Size(file) = remaining[p]
    BY <1>1
  <2>3. QED
    BY <1>8, <2>1, <2>2
<1> HIDE DEF file, out
<1>10. QED
  BY <1>1, <1>4, <1>6, <1>9

LEMMA SerialPosts ==
    ASSUME Serial, SerialInv, NEW p \in Procs, NEW t \in Targets,
           Post(p, t) \/ PostFails(p, t)
    PROVE  lost' = {} /\ (legacyFile' => SyncLimit = 0) /\ SerialOf(p)'
<1> USE DEF SerialInv, SerialOf, TypeOK
<1>1. CASE Post(p, t)
  <2>1. /\ UNCHANGED <<queue, legacyFile, path, batch, failed, remaining, lost>>
        /\ pc[p] = "post" /\ pc'[p] \in {"post", "append"}
    BY <1>1 DEF Post, Answered, Goto
  <2>2. PICK M \in SUBSET Group(p, t) :
          /\ Answer(p, t, M)
          /\ requeue' = [requeue EXCEPT ![p] =
                Plus(@, [h \in Heartbeats |-> IF h \in M THEN batch[p][h] ELSE 0])]
    BY <1>1 DEF Post
  <2>3. M = {}
    BY <2>2, AnswersAreWhole
  <2>4. requeue[p] = Empty
    BY <2>1
  <2>5. requeue'[p] = Empty
    BY <2>2, <2>3, <2>4 DEF Plus, Empty
  <2>6. QED
    BY <2>1, <2>4, <2>5
<1>2. CASE PostFails(p, t)
  <2>1. /\ UNCHANGED <<queue, legacyFile, path, batch, remaining, lost>>
        /\ pc'[p] = "append" /\ failed'[p] = TRUE
    BY <1>2 DEF PostFails, Goto
  <2>2. QED
    BY <2>1
<1>3. QED
  BY <1>1, <1>2

LEMMA SerialEnds ==
    ASSUME Serial, SerialInv, NEW p \in Procs, SendAppend(p) \/ AppendBatch(p) \/ Unlink(p)
    PROVE  lost' = {} /\ (legacyFile' => SyncLimit = 0) /\ SerialOf(p)'
<1> USE DEF SerialInv, SerialOf, TypeOK
<1>1. CASE AppendBatch(p)
  <2> DEFINE left == remaining[p] - Size(batch[p])
  <2>1. /\ UNCHANGED lost
        /\ legacyFile' = (legacyFile \/ (path[p] = "legacy" /\ requeue[p] # Empty))
        /\ queue' = [queue EXCEPT ![path[p]] = Plus(queue[path[p]], requeue[p])]
        /\ requeue'[p] = Empty /\ failed'[p] = FALSE
        /\ pc[p] = "append"
    BY <1>1, BagOperations DEF AppendBatch, Store, Release
  <2>2. CASE failed[p]
    <3>1. pc'[p] = "idle" /\ path'[p] = "main"
      BY <1>1, <2>2 DEF AppendBatch, Return, Goto, Queues
    <3>2. QED
      BY <2>1, <3>1
  <2>3. CASE ~failed[p]
    <3>1. /\ remaining'[p] = left /\ path' = path
          /\ pc'[p] = IF left > 0 THEN "read" ELSE AfterQueue(p)
      BY <1>1, <2>3 DEF AppendBatch, Goto
    <3>2. queue' = queue
      <4>1. path[p] \in Queues /\ queue[path[p]] \in Bag /\ requeue[p] = Empty
        BY <2>3
      <4>2. Plus(queue[path[p]], Empty) = queue[path[p]]
        BY <4>1 DEF Plus, Empty, Bag
      <4>3. QED
        BY <2>1, <4>1, <4>2
    <3>3. path[p] = "legacy" => Size(queue["legacy"]) = left
      BY <2>1, <2>3
    <3>4. left \in Int /\ queue["legacy"] \in Bag /\ Size(queue["legacy"]) \in Nat
      BY SizeIsNat DEF Queues
    <3>5. path[p] = "legacy" /\ ~(left > 0) => queue["legacy"] = Empty
      BY <3>3, <3>4, NoKeys
    <3> HIDE DEF left
    <3>6. QED
      BY <2>1, <3>1, <3>2, <3>3, <3>5 DEF AfterQueue
  <2>4. QED
    BY <2>2, <2>3
<1>2. CASE Unlink(p)
  <2>1. /\ legacyFile' = FALSE /\ pc[p] = "unlink"
        /\ pc'[p] = "dedupe" /\ path'[p] = "main"
        /\ UNCHANGED <<requeue, failed>>
        /\ lost' = lost \cup (In(queue["legacy"]) \X {"unlinked"})
    BY <1>2 DEF Unlink, Goto, held, LoseAll, Queues
  <2>2. queue["legacy"] = Empty
    BY <2>1
  <2>3. In(queue["legacy"]) = {}
    BY <2>2 DEF In, Empty
  <2>4. QED
    BY <2>1, <2>3
<1>3. CASE SendAppend(p)
  <2>1. /\ UNCHANGED <<legacyFile, path, lost>>
        /\ pc'[p] = "idle" /\ requeue'[p] = Empty /\ failed'[p] = FALSE
    BY <1>3, BagOperations DEF SendAppend, Goto, Release
  <2>2. QED
    BY <2>1
<1>4. QED
  BY <1>1, <1>2, <1>3

LEMMA SerialInit == Serial /\ Init => SerialInv
<1> SUFFICES ASSUME Serial, Init
             PROVE  SerialInv
  OBVIOUS
<1>1. legacyFile => SyncLimit = 0
  BY DEF Serial, Init
<1>2. \A p \in Procs : SerialOf(p)
  BY BagOperations DEF Init, SerialOf
<1>3. QED
  BY <1>1, <1>2, TypeInit DEF SerialInv, Init

LEMMA SerialNext == Serial /\ SerialInv /\ [Next]_vars => SerialInv'
<1> SUFFICES ASSUME Serial, SerialInv, [Next]_vars
             PROVE  SerialInv'
  OBVIOUS
<1>1. TypeOK'
  BY TypeNext DEF SerialInv
<1>2. CASE Next
  <2> PICK p \in Procs :
        \/ QueueInBackoff(p) \/ StartSend(p) \/ StartSync(p)
        \/ Work(p)
        \/ Trouble(p)
    BY <1>2 DEF Next
  <2>1. \A q \in Procs : q = p
    BY DEF Serial
  <2>2. SUFFICES lost' = {} /\ (legacyFile' => SyncLimit = 0) /\ SerialOf(p)'
    BY <1>1, <2>1, <2>2 DEF SerialInv
  <2>3. CASE QueueInBackoff(p) \/ StartSend(p) \/ StartSync(p)
    BY <2>3, SerialStarts
  <2>4. CASE Work(p)
    BY <2>4, SerialSends, SerialReads, SerialRemoves, SerialPosts, SerialEnds
       DEF Work
  <2>5. CASE Trouble(p)
    BY <2>5, OnlyTransportFaults, SerialSends, SerialPosts
       DEF Trouble, SpillFails, SendRefused, Reset, SyncGivesUp, AppendFails, Crash, PostSilent
  <2>6. QED
    BY <2>3, <2>4, <2>5
<1>3. CASE UNCHANGED vars
  BY <1>3 DEF vars, SerialInv, SerialOf, TypeOK
<1>4. QED
  BY <1>2, <1>3

\* When one invocation runs at a time, posts fail only as a whole, and no limit
\* stops the migration of a legacy file, then nothing is dropped, for any
\* heartbeats, targets, batch limit and number of failed posts.
THEOREM NothingLostAlways ==
    ASSUME Serial
    PROVE  Spec => []NothingLost
<1>1. SerialInv => NothingLost
  BY DEF SerialInv, NothingLost
<1>2. QED
  BY <1>1, SerialInit, SerialNext, PTL DEF Spec

-----------------------------------------------------------------------------
(* One invocation at a time implements lossless delivery *)

\* Nothing is queued, held, answered or merged that was not handed over.
OnlyHanded ==
    /\ \A q \in Queues : In(queue[q]) \subseteq handed
    /\ \A p \in Procs : In(batch[p]) \subseteq handed /\ In(requeue[p]) \subseteq handed
    /\ \A t \in Targets : accepted[t] \subseteq handed /\ refused[t] \subseteq handed
    /\ merged \subseteq handed

LEMMA InBags ==
    /\ In(Empty) = {}
    /\ \A S \in SUBSET Heartbeats : In(BagOf(S)) = S
    /\ \A a, b \in Bag : In(Plus(a, b)) = In(a) \cup In(b)
    /\ \A a \in Bag, b \in Bag : In(Minus(a, b)) \subseteq In(a)
    /\ \A a \in Bag : \A n : In(Prefix(a, n)) \subseteq In(a)
<1>1. In(Empty) = {} /\ \A S \in SUBSET Heartbeats : In(BagOf(S)) = S
  BY DEF In, Empty, BagOf
<1>2. \A a, b \in Bag : In(Plus(a, b)) = In(a) \cup In(b)
  BY DEF In, Plus, Bag
<1>3. \A a \in Bag, b \in Bag : In(Minus(a, b)) \subseteq In(a)
  BY DEF In, Minus, Bag
<1>4. ASSUME NEW a \in Bag, NEW n
      PROVE  In(Prefix(a, n)) \subseteq In(a)
  <2>1. \A h \in Heartbeats : /\ Prefix(a, n)[h] \in Nat /\ a[h] \in Nat
                             /\ Prefix(a, n)[h] <= a[h]
    BY PrefixIsBelow DEF Bag
  <2>2. QED
    BY <2>1 DEF In
<1>5. QED
  BY <1>1, <1>2, <1>3, <1>4

\* A file that gets a bag of handed heartbeats, and an invocation that lets go
\* of what it holds.
LEMMA FileOfHanded ==
    ASSUME TypeOK, OnlyHanded, NEW q \in Queues, NEW b, In(b) \subseteq handed',
           handed \subseteq handed', queue' = [queue EXCEPT ![q] = b]
    PROVE  \A r \in Queues : In(queue'[r]) \subseteq handed'
<1> SUFFICES ASSUME NEW r \in Queues
             PROVE  In(queue'[r]) \subseteq handed'
  OBVIOUS
<1>1. queue'[r] = IF r = q THEN b ELSE queue[r]
  BY DEF TypeOK
<1>2. In(queue[r]) \subseteq handed
  BY DEF OnlyHanded
<1>3. QED
  BY <1>1, <1>2

LEMMA ReleasedHanded ==
    ASSUME TypeOK, OnlyHanded, NEW p \in Procs, Release(p)
    PROVE  \A q \in Procs : In(batch'[q]) \subseteq handed /\ In(requeue'[q]) \subseteq handed
<1> SUFFICES ASSUME NEW q \in Procs
             PROVE  In(batch'[q]) \subseteq handed /\ In(requeue'[q]) \subseteq handed
  OBVIOUS
<1>1. batch'[q] \in {batch[q], Empty} /\ requeue'[q] \in {requeue[q], Empty}
  BY DEF TypeOK, Release
<1>2. In(batch[q]) \subseteq handed /\ In(requeue[q]) \subseteq handed /\ In(Empty) = {}
  BY InBags DEF OnlyHanded
<1>3. QED
  BY <1>1, <1>2

LEMMA OnlyHandedStep ==
    ASSUME TypeOK, OnlyHanded, NEW p \in Procs,
           QueueInBackoff(p) \/ StartSend(p) \/ StartSync(p) \/ Work(p) \/ Trouble(p)
    PROVE  OnlyHanded'
<1> USE DEF TypeOK, OnlyHanded, Queues
<1>1. CASE QueueInBackoff(p)
  <2> PICK H \in SUBSET Heartbeats :
        handed' = handed \cup H /\ (Store("main", BagOf(H)) \/ UNCHANGED queue)
    BY <1>1 DEF QueueInBackoff
  <2>b. queue["main"] \in Bag /\ BagOf(H) \in Bag /\ In(queue["main"]) \subseteq handed
    BY BagOperations
  <2>1. In(Plus(queue["main"], BagOf(H))) \subseteq handed'
    BY <2>b, InBags
  <2>a. \A q \in Queues : In(queue'[q]) \subseteq handed'
    <3>1. CASE Store("main", BagOf(H))
      BY <2>1, <3>1, FileOfHanded DEF Store
    <3>2. CASE UNCHANGED queue
      BY <3>2
    <3>3. QED
      BY <3>1, <3>2
  <2>2. UNCHANGED <<batch, requeue, accepted, refused, merged>>
    BY <1>1 DEF QueueInBackoff, held, servers
  <2>3. QED
    BY <2>a, <2>2
<1>2. CASE StartSend(p)
  <2> PICK H \in SUBSET Heartbeats, F \in SUBSET Heartbeats :
        /\ F \subseteq H
        /\ handed' = handed \cup H
        /\ Store("main", BagOf(H \ F))
        /\ batch' = [batch EXCEPT ![p] = BagOf(F)]
    BY <1>2 DEF StartSend
  <2>b. queue["main"] \in Bag /\ BagOf(H \ F) \in Bag /\ In(queue["main"]) \subseteq handed
    BY BagOperations
  <2>c. In(BagOf(H \ F)) = H \ F /\ In(BagOf(F)) = F
    BY InBags
  <2>d. In(Plus(queue["main"], BagOf(H \ F))) = In(queue["main"]) \cup In(BagOf(H \ F))
    BY <2>b, InBags
  <2>a. In(Plus(queue["main"], BagOf(H \ F))) \subseteq handed'
    BY <2>b, <2>c, <2>d
  <2>1. \A q \in Queues : In(queue'[q]) \subseteq handed'
    BY <2>a, FileOfHanded DEF Store
  <2>2. \A q \in Procs : In(batch'[q]) \subseteq handed'
    <3> SUFFICES ASSUME NEW q \in Procs
                 PROVE  In(batch'[q]) \subseteq handed'
      OBVIOUS
    <3>1. batch'[q] = IF q = p THEN BagOf(F) ELSE batch[q]
      OBVIOUS
    <3>2. In(batch[q]) \subseteq handed
      OBVIOUS
    <3>3. QED
      BY <2>c, <3>1, <3>2
  <2>3. UNCHANGED <<requeue, accepted, refused, merged>>
    BY <1>2 DEF StartSend, servers
  <2>4. QED
    BY <2>1, <2>2, <2>3
<1>3. CASE StartSync(p) \/ Count(p)
  BY <1>3 DEF StartSync, Count, held, servers
<1>4. CASE SendAppend(p) \/ AppendBatch(p)
  <2>1. PICK q \in Queues : Store(q, batch[p]) \/ Store(q, requeue[p])
    BY <1>4 DEF SendAppend, AppendBatch
  <2>2. Release(p) /\ UNCHANGED <<accepted, refused, handed, merged>>
    BY <1>4 DEF SendAppend, AppendBatch, servers
  <2>3. In(Plus(queue[q], batch[p])) \subseteq handed /\ In(Plus(queue[q], requeue[p])) \subseteq handed
    BY InBags
  <2>4. \A r \in Queues : In(queue'[r]) \subseteq handed'
    BY <2>1, <2>2, <2>3, FileOfHanded DEF Store
  <2>5. QED
    BY <2>2, <2>4, ReleasedHanded
<1>5. CASE Dedupe(p)
  <2> PICK K \in SUBSET In(queue[path[p]]) :
        /\ queue' = [queue EXCEPT ![path[p]] = BagOf(K)]
        /\ merged' = merged \cup (In(queue[path[p]]) \ K)
    BY <1>5 DEF Dedupe
  <2>1. UNCHANGED <<batch, requeue, accepted, refused, handed>>
    BY <1>5 DEF Dedupe, held, servers
  <2>2. K \subseteq Heartbeats
    BY DEF In
  <2>3. In(BagOf(K)) \subseteq handed /\ In(queue[path[p]]) \subseteq handed
    BY <2>2, InBags
  <2>a. \A r \in Queues : In(queue'[r]) \subseteq handed'
    BY <2>1, <2>3, FileOfHanded
  <2>4. QED
    BY <2>a, <2>1, <2>3
<1>6. CASE Read(p)
  <2>1. PICK n : batch' = [batch EXCEPT ![p] = Prefix(queue[path[p]], n)]
    BY <1>6 DEF Read
  <2>2. UNCHANGED <<queue, requeue, accepted, refused, handed, merged>>
    BY <1>6 DEF Read, servers
  <2>3. In(Prefix(queue[path[p]], n)) \subseteq handed
    BY InBags
  <2>4. QED
    BY <2>1, <2>2, <2>3
<1>7. CASE RemoveBatch(p)
  <2>1. PICK n : queue' = [queue EXCEPT ![path[p]] =
                              Minus(queue[path[p]], Prefix(queue[path[p]], n))]
    BY <1>7 DEF RemoveBatch
  <2>2. UNCHANGED <<batch, requeue, accepted, refused, handed, merged>>
    BY <1>7 DEF RemoveBatch, servers
  <2>3. In(Minus(queue[path[p]], Prefix(queue[path[p]], n))) \subseteq handed
    BY PrefixIsBelow, InBags
  <2>4. QED
    BY <2>1, <2>2, <2>3, FileOfHanded
<1>8. CASE Unlink(p)
  <2>1. /\ queue' = [queue EXCEPT !["legacy"] = Empty]
        /\ UNCHANGED <<batch, requeue, accepted, refused, handed, merged>>
    BY <1>8 DEF Unlink, held, servers
  <2>2. QED
    BY <2>1, InBags, FileOfHanded
<1>9. ASSUME NEW t \in Targets
      PROVE  Group(p, t) \subseteq handed
  BY DEF Group
<1>10. CASE \E t \in Targets : SendPost(p, t)
  <2> PICK t \in Targets : SendPost(p, t)
    BY <1>10
  <2> PICK M : Answer(p, t, M)
    BY DEF SendPost
  <2>1. \A u \in Targets : accepted'[u] \subseteq handed /\ refused'[u] \subseteq handed
    BY <1>9 DEF Answer
  <2>2. UNCHANGED <<queue, handed, merged>>
    BY DEF SendPost
  <2>3. Release(p) \/ UNCHANGED <<batch, requeue>>
    BY DEF SendPost
  <2>4. QED
    BY <2>1, <2>2, <2>3, ReleasedHanded
<1>11. CASE \E t \in Targets : Post(p, t)
  <2> DEFINE Back(M) == [h \in Heartbeats |-> IF h \in M THEN batch[p][h] ELSE 0]
  <2> PICK t \in Targets : Post(p, t)
    BY <1>11
  <2> PICK M :
        Answer(p, t, M) /\ requeue' = [requeue EXCEPT ![p] = Plus(@, Back(M))]
    BY DEF Post
  <2>1. \A u \in Targets : accepted'[u] \subseteq handed /\ refused'[u] \subseteq handed
    BY <1>9 DEF Answer
  <2>2. UNCHANGED <<queue, handed, merged, batch>>
    BY DEF Post, Answered
  <2>3. Back(M) \in Bag /\ In(Back(M)) \subseteq In(batch[p])
    BY DEF Bag, In
  <2> HIDE DEF Back
  <2>4. In(Plus(requeue[p], Back(M))) \subseteq handed
    BY <2>3, InBags
  <2>5. QED
    BY <2>1, <2>2, <2>4
<1>12. CASE \E t \in Targets : SendFails(p, t) \/ PostFails(p, t) \/ PostSilent(p, t)
  <2> PICK t \in Targets : SendFails(p, t) \/ PostFails(p, t) \/ PostSilent(p, t)
    BY <1>12
  <2> PICK A :
        /\ A \in {{}, Group(p, t) \ Invalid}
        /\ accepted' = [accepted EXCEPT ![t] = @ \cup A]
    BY DEF SendFails, PostFails, PostSilent
  <2>1. \A u \in Targets : accepted'[u] \subseteq handed
    BY <1>9
  <2>2. UNCHANGED <<queue, refused, handed, merged, batch>>
    BY DEF SendFails, PostFails, PostSilent, Answered
  <2>3. requeue' = requeue \/ requeue' = [requeue EXCEPT ![p] = batch[p]]
    BY DEF SendFails, PostFails, PostSilent
  <2>4. QED
    BY <2>1, <2>2, <2>3
<1>13. CASE SendRefused(p) \/ SyncGivesUp(p) \/ AppendFails(p) \/ Crash(p)
  <2>1. Release(p) /\ UNCHANGED <<queue, accepted, refused, handed, merged>>
    BY <1>13 DEF SendRefused, SyncGivesUp, AppendFails, Crash, servers
  <2>2. QED
    BY <2>1, ReleasedHanded
<1>14. CASE SpillFails(p)
  <2>1. /\ handed \subseteq handed'
        /\ UNCHANGED <<queue, batch, requeue, accepted, refused, merged>>
    BY <1>14 DEF SpillFails, held, servers
  <2>2. QED
    BY <2>1
<1>15. CASE \E q \in Queues : Reset(q)
  <2> PICK q \in Queues : Reset(q)
    BY <1>15
  <2>1. /\ queue' = [queue EXCEPT ![q] = Empty]
        /\ UNCHANGED <<batch, requeue, accepted, refused, handed, merged>>
    BY DEF Reset, held, servers
  <2>2. QED
    BY <2>1, InBags, FileOfHanded
<1>16. QED
  BY <1>1, <1>2, <1>3, <1>4, <1>5, <1>6, <1>7, <1>8, <1>10, <1>11, <1>12, <1>13, <1>14,
     <1>15 DEF Work, Trouble

LEMMA OnlyHandedInit == Init => OnlyHanded
<1> SUFFICES ASSUME NEW old \in SUBSET Legacy,
                    queue = [q \in Queues |-> IF q = "legacy" THEN BagOf(old) ELSE Empty],
                    handed = old,
                    batch = [p \in Procs |-> Empty], requeue = [p \in Procs |-> Empty],
                    accepted = [t \in Targets |-> {}], refused = [t \in Targets |-> {}],
                    merged = {}
             PROVE  OnlyHanded
  BY DEF Init
<1>1. old \subseteq Heartbeats
  BY SubsetsAssumption
<1>2. In(BagOf(old)) = old /\ In(Empty) = {}
  BY <1>1, InBags
<1>3. QED
  BY <1>2 DEF OnlyHanded

\* What the refinement rests on.
DeliveryInv == SerialInv /\ Inv /\ OnlyHanded

LEMMA DeliveryInvInit == Serial /\ Init => DeliveryInv
BY SerialInit, InvInit, OnlyHandedInit DEF DeliveryInv

LEMMA DeliveryInvNext == Serial /\ DeliveryInv /\ [Next]_vars => DeliveryInv'
<1> SUFFICES ASSUME Serial, DeliveryInv, [Next]_vars
             PROVE  OnlyHanded'
  BY SerialNext, InvNext DEF DeliveryInv
<1>1. CASE Next
  BY <1>1, OnlyHandedStep DEF Next, DeliveryInv, Inv
<1>2. CASE UNCHANGED vars
  BY <1>2 DEF vars, DeliveryInv, OnlyHanded
<1>3. QED
  BY <1>1, <1>2

\* Then a heartbeat that is handed over and not done is held somewhere, and a
\* heartbeat that is not handed over is not done.
StatusShape ==
    \A h \in Heartbeats :
        /\ Status(h) = IF h \notin handed THEN "new"
                       ELSE IF Settled(h) \/ h \in merged THEN "done" ELSE "pending"
        /\ h \notin handed => ~Settled(h) /\ h \notin merged

LEMMA StatusIs == DeliveryInv => StatusShape
<1> SUFFICES ASSUME DeliveryInv, NEW h \in Heartbeats
             PROVE  /\ Status(h) = IF h \notin handed THEN "new"
                                   ELSE IF Settled(h) \/ h \in merged THEN "done" ELSE "pending"
                    /\ h \notin handed => ~Settled(h) /\ h \notin merged
  BY DEF StatusShape
<1>1. ~Blamed(h)
  BY DEF DeliveryInv, SerialInv, Blamed
<1>2. h \in handed => Held(h) \/ Settled(h) \/ h \in merged
  BY <1>1 DEF DeliveryInv, Inv, Accounted
<1>3. h \notin handed => ~Settled(h) /\ h \notin merged
  BY TargetsAssumption DEF DeliveryInv, OnlyHanded, Settled
<1>4. QED
  BY <1>2, <1>3 DEF Status

\* Handing over is a step of its own: no target answers in it, and it merges
\* nothing.
LEMMA HandsOrResolves ==
    ASSUME Next
    PROVE  \/ handed' = handed
           \/ handed \subseteq handed' /\ UNCHANGED <<accepted, refused, merged>>
<1> PICK p \in Procs :
      QueueInBackoff(p) \/ StartSend(p) \/ StartSync(p) \/ Work(p) \/ Trouble(p)
  BY DEF Next
<1>1. CASE QueueInBackoff(p) \/ StartSend(p) \/ StartSync(p)
  BY <1>1 DEF QueueInBackoff, StartSend, StartSync, servers
<1>2. CASE Work(p)
  BY <1>2 DEF Work, SendAppend, Dedupe, Count, Read, RemoveBatch, AppendBatch, Unlink,
              SendPost, Post, Answered
<1>3. CASE Trouble(p)
  BY <1>3 DEF Trouble, SpillFails, SendRefused, Reset, SyncGivesUp, AppendFails, Crash,
              SendFails, PostFails, PostSilent, Answered, servers
<1>4. QED
  BY <1>1, <1>2, <1>3

LEMMA DeliveryStep ==
    ASSUME DeliveryInv, DeliveryInv', [Next]_vars
    PROVE  [NoLoss!DNext]_[h \in Heartbeats |-> Status(h)]
<1> DEFINE Over(h) == Settled(h) \/ h \in merged
           s == [h \in Heartbeats |-> Status(h)]
<1>a. StatusShape /\ StatusShape'
  BY StatusIs, PTL
<1>1. \A h \in Heartbeats :
        /\ s[h] = IF h \notin handed THEN "new" ELSE IF Over(h) THEN "done" ELSE "pending"
        /\ h \notin handed => ~Over(h)
  BY <1>a DEF StatusShape
<1>2. \A h \in Heartbeats :
        /\ s'[h] = IF h \notin handed' THEN "new" ELSE IF Over(h)' THEN "done" ELSE "pending"
        /\ h \notin handed' => ~Over(h)'
  BY <1>a DEF StatusShape
<1>3. s' = [h \in Heartbeats |-> s'[h]] /\ s = [h \in Heartbeats |-> s[h]]
  OBVIOUS
<1>4. CASE UNCHANGED vars
  <2>1. \A h \in Heartbeats : Over(h)' <=> Over(h)
    BY <1>4 DEF vars, Settled
  <2>2. handed' = handed
    BY <1>4 DEF vars
  <2> HIDE DEF s, Over
  <2>3. s' = s
    BY <1>1, <1>2, <1>3, <2>1, <2>2
  <2>4. QED
    BY <2>3 DEF s
<1>5. CASE Next
  <2>1. Growing
    BY <1>5, GrowingStep DEF Next, DeliveryInv, Inv
  <2>2. \A h \in Heartbeats : Over(h) => Over(h)'
    <3>1. \A h \in Heartbeats : Settled(h) => Settled(h)'
      BY <2>1, TargetsAssumption DEF Growing, Settled
    <3>2. QED
      BY <2>1, <3>1 DEF Growing
  <2>3. CASE handed' = handed
    <3> DEFINE D == {h \in handed : ~Over(h) /\ Over(h)'}
    <3>1. handed \subseteq Heartbeats
      BY DEF DeliveryInv, Inv, TypeOK
    <3> HIDE DEF s, Over
    <3>2. D \subseteq {h \in Heartbeats : s[h] = "pending"}
      BY <1>1, <3>1
    <3>3. \A h \in Heartbeats : s'[h] = IF h \in D THEN "done" ELSE s[h]
      BY <1>1, <1>2, <2>2, <2>3
    <3> HIDE DEF D
    <3>4. s' = [h \in Heartbeats |-> IF h \in D THEN "done"
                                     ELSE IF h \in {} THEN "gone" ELSE s[h]]
      BY <1>3, <3>3
    <3>5. D \in SUBSET NoLoss!Pending
      BY <3>2 DEF NoLoss!Pending, s
    <3>a. {} \in SUBSET (NoLoss!Pending \ D) /\ ({} # {} => FALSE)
      OBVIOUS
    <3>b. NoLoss!Resolve
      BY <3>4, <3>5, <3>a, Zenon DEF NoLoss!Resolve, s
    <3>6. QED
      BY <3>b DEF NoLoss!DNext
  <2>4. CASE handed \subseteq handed' /\ UNCHANGED <<accepted, refused, merged>>
    <3> DEFINE H == handed' \ handed
    <3>1. handed' \subseteq Heartbeats
      BY DEF DeliveryInv, Inv, TypeOK
    <3>2. \A h \in Heartbeats : Over(h)' <=> Over(h)
      BY <2>4 DEF Settled
    <3> HIDE DEF s, Over
    <3>3. H \subseteq {h \in Heartbeats : s[h] = "new"}
      BY <1>1, <3>1
    <3>4. \A h \in Heartbeats : s'[h] = IF h \in H THEN "pending" ELSE s[h]
      BY <1>1, <1>2, <2>4, <3>2
    <3> HIDE DEF H
    <3>5. s' = [h \in Heartbeats |-> IF h \in H THEN "pending" ELSE s[h]]
      BY <1>3, <3>4
    <3>6. NoLoss!Hand
      BY <3>3, <3>5 DEF NoLoss!Hand, s
    <3>7. QED
      BY <3>6 DEF NoLoss!DNext
  <2>5. QED
    BY <1>5, <2>3, <2>4, HandsOrResolves
<1>6. QED
  BY <1>4, <1>5

LEMMA DeliveryStarts ==
    ASSUME DeliveryInv, Init
    PROVE  NoLoss!DInit
<1> DEFINE s == [h \in Heartbeats |-> Status(h)]
<1>1. handed \subseteq Heartbeats /\ merged = {} /\ accepted = [t \in Targets |-> {}]
      /\ refused = [t \in Targets |-> {}]
  BY DEF DeliveryInv, Inv, TypeOK, Init
<1>2. \A h \in Heartbeats : ~Settled(h) /\ h \notin merged
  BY <1>1, TargetsAssumption DEF Settled
<1>3. \A h \in Heartbeats : Status(h) = IF h \in handed THEN "pending" ELSE "new"
  BY <1>2, StatusIs DEF StatusShape
<1>4. s = [h \in Heartbeats |-> IF h \in handed THEN "pending" ELSE "new"]
  BY <1>3
<1>5. QED
  BY <1>1, <1>4 DEF NoLoss!DInit

\* One invocation at a time refines HeartbeatDelivery without loss, for every
\* value of the constants: every step hands heartbeats over, resolves pending
\* ones, or stutters.
THEOREM DeliveryImplemented ==
    ASSUME Serial
    PROVE  Spec => ImplementsDelivery
<1>1. Init => DeliveryInv /\ NoLoss!DInit
  BY DeliveryInvInit, DeliveryStarts
<1>2. DeliveryInv /\ [Next]_vars => DeliveryInv'
  BY DeliveryInvNext
<1>3. DeliveryInv /\ DeliveryInv' /\ [Next]_vars
        => [NoLoss!DNext]_[h \in Heartbeats |-> Status(h)]
  BY DeliveryStep
<1>4. QED
  BY <1>1, <1>2, <1>3, PTL DEF Spec, ImplementsDelivery, NoLoss!DSpec

-----------------------------------------------------------------------------
(* What one step takes away *)

\* A batch never holds more heartbeats than the limit: a direct post because
\* the rest is appended before it, a sync because of the limit of its read.
\* What is requeued is part of the batch, and is appended before the next one.
BatchOf(p) ==
    /\ Cardinality(In(batch[p])) <= BatchLimit
    /\ In(requeue[p]) \subseteq In(batch[p])
    /\ pc[p] \in {"post", "append"} \/ requeue[p] = Empty
    /\ pc[p] = "remove" => Size(batch[p]) <= BatchLimit
    /\ pc[p] = "read" => remaining[p] > 0

BatchInv == TypeOK /\ \A p \in Procs : BatchOf(p)

\* The heartbeats of a bag, and any set of them, are finitely many.
LEMMA HeartbeatsAreFinite ==
    ASSUME NEW S \in SUBSET Heartbeats
    PROVE  IsFiniteSet(S) /\ Cardinality(S) \in Nat
BY HeartbeatsAssumption, FS_Subset, FS_CardinalityType

LEMMA NoBatch == Cardinality(In(Empty)) <= BatchLimit
<1>1. In(Empty) = {} /\ Cardinality({}) = 0
  BY InBags, FS_EmptySet
<1>2. QED
  BY <1>1, LimitsAssumption

LEMMA ReleasedBatch ==
    ASSUME TypeOK, NEW p \in Procs, Release(p), pc'[p] \notin {"remove"},
           pc'[p] = "read" => remaining'[p] > 0
    PROVE  BatchOf(p)'
<1>1. batch'[p] = Empty /\ requeue'[p] = Empty
  BY BagOperations DEF TypeOK, Release
<1>2. QED
  BY <1>1, NoBatch DEF BatchOf

LEMMA BatchStep ==
    ASSUME BatchInv, NEW p \in Procs,
           QueueInBackoff(p) \/ StartSend(p) \/ StartSync(p) \/ Work(p) \/ Trouble(p)
    PROVE  BatchOf(p)'
<1>a. TypeOK /\ BatchOf(p)
  BY DEF BatchInv
<1>b. /\ pc[p] \in Stages /\ requeue[p] \in Bag /\ batch[p] \in Bag
      /\ \A q \in Queues : queue[q] \in Bag
      /\ path[p] \in Queues
  BY <1>a DEF TypeOK
<1>c. In(Empty) = {}
  BY InBags
<1>1. CASE QueueInBackoff(p)
  BY <1>a, <1>1 DEF QueueInBackoff, BatchOf, held
<1>2. CASE StartSend(p)
  <2> PICK H \in SUBSET Heartbeats, F \in SUBSET Heartbeats :
        /\ Cardinality(F) = IF Cardinality(H) > BatchLimit THEN BatchLimit
                                                             ELSE Cardinality(H)
        /\ batch' = [batch EXCEPT ![p] = BagOf(F)]
        /\ Goto(p, "send") \/ Goto(p, "sendAppend")
    BY <1>2 DEF StartSend
  <2>1. Cardinality(F) <= BatchLimit
    BY HeartbeatsAreFinite, LimitsAssumption
  <2>2. batch'[p] = BagOf(F) /\ pc'[p] \in {"send", "sendAppend"}
    BY <1>a DEF TypeOK, Goto
  <2>3. In(BagOf(F)) = F
    BY InBags
  <2>4. requeue'[p] = requeue[p] /\ pc[p] = "idle"
    BY <1>2 DEF StartSend
  <2>5. requeue'[p] = Empty
    BY <1>a, <2>4 DEF BatchOf
  <2>6. QED
    BY <1>c, <2>1, <2>2, <2>3, <2>5 DEF BatchOf
<1>3. CASE StartSync(p) \/ Dedupe(p) \/ Unlink(p)
  <2>1. /\ UNCHANGED <<batch, requeue>>
        /\ pc[p] \notin {"post", "append"} /\ pc'[p] \in {"dedupe", "count"}
    BY <1>a, <1>3 DEF StartSync, EnterSync, Dedupe, Unlink, Goto, held, TypeOK
  <2>2. QED
    BY <1>a, <2>1 DEF BatchOf
<1>4. CASE Count(p)
  <2> DEFINE n == Size(queue[path[p]])
             snapshot == IF SyncLimit > 0 /\ n > SyncLimit THEN SyncLimit ELSE n
  <2>1. /\ UNCHANGED <<batch, requeue>> /\ pc[p] = "count"
        /\ remaining'[p] = snapshot
        /\ pc'[p] = IF snapshot > 0 THEN "read" ELSE AfterQueue(p)
    BY <1>a, <1>4 DEF Count, Goto, held, TypeOK
  <2> HIDE DEF snapshot
  <2>2. QED
    BY <1>a, <2>1 DEF BatchOf, AfterQueue
<1>5. CASE Read(p)
  <2> DEFINE limit == IF remaining[p] < BatchLimit THEN remaining[p] ELSE BatchLimit
             b == Prefix(queue[path[p]], limit)
  <2>1. /\ batch'[p] = b /\ requeue' = requeue /\ pc[p] = "read"
        /\ pc'[p] = IF b = Empty THEN AfterQueue(p) ELSE "remove"
    BY <1>a, <1>5 DEF Read, Goto, TypeOK
  <2>2. limit \in Nat /\ limit <= BatchLimit
    BY <1>a, <2>1, LimitsAssumption DEF BatchOf, TypeOK
  <2>3. b \in Bag /\ Size(b) \in Nat /\ Size(b) <= limit
    <3>1. b \in Bag /\ Size(queue[path[p]]) \in Nat
      BY <1>b, PrefixIsBelow, SizeIsNat
    <3>2. Size(b) = IF limit < Size(queue[path[p]]) THEN limit ELSE Size(queue[path[p]])
      BY <1>b, <2>2, SizeOfPrefix
    <3> HIDE DEF b, limit
    <3>3. QED
      BY <2>2, <3>1, <3>2
  <2>4. Cardinality(In(b)) <= Size(b) /\ Cardinality(In(b)) \in Nat
    <3> HIDE DEF b
    <3>1. In(b) \in SUBSET Heartbeats
      BY DEF In
    <3>2. QED
      BY <2>3, <3>1, FewerHeartbeatsThanKeys, HeartbeatsAreFinite
  <2>5. requeue'[p] = Empty
    BY <1>a, <2>1 DEF BatchOf
  <2> HIDE DEF b, limit
  <2>6. Cardinality(In(b)) <= BatchLimit /\ Size(b) <= BatchLimit
    BY <2>2, <2>3, <2>4, LimitsAssumption
  <2>7. QED
    BY <1>c, <2>1, <2>5, <2>6 DEF BatchOf, AfterQueue
<1>6. CASE RemoveBatch(p)
  <2>1. UNCHANGED <<batch, requeue>> /\ pc'[p] = "post"
    BY <1>a, <1>6 DEF RemoveBatch, Goto, TypeOK
  <2>2. QED
    BY <1>a, <2>1 DEF BatchOf
<1>7. CASE SendAppend(p)
  <2>1. Release(p) /\ pc'[p] = "idle"
    BY <1>a, <1>7 DEF SendAppend, Goto, TypeOK
  <2>2. QED
    BY <1>a, <2>1, ReleasedBatch
<1>8. CASE AppendBatch(p)
  <2> DEFINE left == remaining[p] - Size(batch[p])
  <2>1. /\ Release(p)
        /\ \/ pc'[p] = "idle"
           \/ /\ remaining'[p] = left
              /\ pc'[p] = IF left > 0 THEN "read" ELSE AfterQueue(p)
    BY <1>a, <1>8 DEF AppendBatch, Return, Goto, TypeOK
  <2> HIDE DEF left
  <2>2. pc'[p] # "remove" /\ (pc'[p] = "read" => remaining'[p] > 0)
    BY <2>1 DEF AfterQueue
  <2>3. QED
    BY <1>a, <2>1, <2>2, ReleasedBatch
<1>9. CASE \E t \in Targets : SendPost(p, t)
  <2> PICK t \in Targets : SendPost(p, t)
    BY <1>9
  <2>1. CASE unsent[p] = {t}
    <3>1. Release(p) /\ pc'[p] = "dedupe"
      BY <1>a, <2>1 DEF SendPost, EnterSync, Goto, TypeOK
    <3>2. QED
      BY <1>a, <3>1, ReleasedBatch
  <2>2. CASE unsent[p] # {t}
    BY <1>a, <2>2 DEF SendPost, BatchOf
  <2>3. QED
    BY <2>1, <2>2
<1>10. CASE \E t \in Targets : Post(p, t)
  <2> DEFINE Back(M) == [h \in Heartbeats |-> IF h \in M THEN batch[p][h] ELSE 0]
  <2> PICK t \in Targets : Post(p, t)
    BY <1>10
  <2>1. PICK M : requeue' = [requeue EXCEPT ![p] = Plus(@, Back(M))]
    BY DEF Post
  <2>2. batch' = batch /\ pc'[p] \in {"post", "append"}
    BY <1>a DEF Post, Answered, Goto, TypeOK
  <2>3. Back(M) \in Bag /\ In(Back(M)) \subseteq In(batch[p])
    BY <1>b DEF Bag, In
  <2> HIDE DEF Back
  <2>4. requeue'[p] = Plus(requeue[p], Back(M))
    BY <1>a, <2>1 DEF TypeOK
  <2>5. In(Plus(requeue[p], Back(M))) \subseteq In(batch[p])
    BY <1>a, <1>b, <2>3, InBags DEF BatchOf
  <2>6. QED
    BY <1>a, <2>2, <2>4, <2>5 DEF BatchOf
<1>11. CASE \E t \in Targets : PostFails(p, t) \/ PostSilent(p, t)
  <2>1. /\ batch' = batch /\ pc'[p] \in {"post", "append"}
        /\ requeue'[p] = requeue[p] \/ requeue'[p] = batch[p]
    BY <1>a, <1>11 DEF PostFails, PostSilent, Answered, Goto, TypeOK
  <2>2. QED
    BY <1>a, <2>1 DEF BatchOf
<1>12. CASE \E t \in Targets : SendFails(p, t)
  <2>1. UNCHANGED <<batch, requeue>> /\ pc[p] = "send" /\ pc'[p] = "sendAppend"
    BY <1>a, <1>12 DEF SendFails, Goto, TypeOK
  <2>2. QED
    BY <1>a, <2>1 DEF BatchOf
<1>13. CASE SendRefused(p) \/ SyncGivesUp(p) \/ AppendFails(p) \/ Crash(p)
  <2>1. Release(p) /\ pc'[p] = "idle"
    BY <1>a, <1>13 DEF SendRefused, SyncGivesUp, AppendFails, Crash, Return, Goto, TypeOK
  <2>2. QED
    BY <1>a, <2>1, ReleasedBatch
<1>14. CASE SpillFails(p) \/ \E q \in Queues : Reset(q)
  BY <1>a, <1>14 DEF SpillFails, Reset, BatchOf, held
<1>15. QED
  BY <1>1, <1>2, <1>3, <1>4, <1>5, <1>6, <1>7, <1>8, <1>9, <1>10, <1>11, <1>12, <1>13,
     <1>14 DEF Work, Trouble

LEMMA BatchInit == Init => BatchInv
<1> SUFFICES ASSUME Init
             PROVE  \A p \in Procs : BatchOf(p)
  BY TypeInit DEF BatchInv
<1>1. \A p \in Procs : batch[p] = Empty /\ requeue[p] = Empty /\ pc[p] = "idle"
  BY DEF Init
<1>2. QED
  BY <1>1, NoBatch DEF BatchOf

LEMMA BatchNext == BatchInv /\ [Next]_vars => BatchInv'
<1> SUFFICES ASSUME BatchInv, [Next]_vars
             PROVE  BatchInv'
  OBVIOUS
<1>1. TypeOK /\ TypeOK'
  BY TypeNext DEF BatchInv
<1>2. CASE Next
  <2> PICK p \in Procs :
        QueueInBackoff(p) \/ StartSend(p) \/ StartSync(p) \/ Work(p) \/ Trouble(p)
    BY <1>2 DEF Next
  <2>1. BatchOf(p)'
    BY BatchStep
  <2>2. ASSUME NEW q \in Procs \ {p}
        PROVE  BatchOf(q)'
    <3>1. BatchOf(q) /\ Alone(p)
      BY <1>1, AloneStep DEF BatchInv
    <3>2. remaining'[q] = remaining[q]
      <4>1. CASE QueueInBackoff(p) \/ StartSend(p) \/ StartSync(p)
        BY <4>1 DEF QueueInBackoff, StartSend, StartSync
      <4>2. CASE Work(p)
        BY <1>1, <4>2 DEF TypeOK, Work, SendAppend, Dedupe, Count, Read, RemoveBatch,
              AppendBatch, Return, Unlink, SendPost, Post, Answered
      <4>3. CASE Trouble(p)
        BY <1>1, <4>3 DEF TypeOK, Trouble, SpillFails, SendRefused, Reset, SyncGivesUp, AppendFails,
              Crash, Return, SendFails, PostFails, PostSilent, Answered
      <4>4. QED
        BY <4>1, <4>2, <4>3
    <3>3. QED
      BY <3>1, <3>2 DEF Alone, BatchOf
  <2>3. QED
    BY <1>1, <2>1, <2>2 DEF BatchInv
<1>3. CASE UNCHANGED vars
  BY <1>1, <1>3 DEF vars, BatchInv, BatchOf
<1>4. QED
  BY <1>2, <1>3

\* What one step records as lost, of the heartbeats handed over before it.
Dropped == {x \in lost' \ lost : x[1] \in handed /\ x[2] \notin {"unlinked", "corrupt"}}

LEMMA FewDropped ==
    ASSUME NEW S \in SUBSET Heartbeats, NEW c, Cardinality(S) <= BatchLimit, LoseAll(S, c)
    PROVE  Cardinality(Dropped) <= BatchLimit
<1>1. IsFiniteSet(S) /\ Cardinality(S) \in Nat
  BY HeartbeatsAreFinite
<1>2. IsFiniteSet({c}) /\ Cardinality({c}) = 1
  BY FS_Singleton
<1>3. IsFiniteSet(S \X {c}) /\ Cardinality(S \X {c}) = Cardinality(S)
  <2>1. /\ IsFiniteSet(S \X {c})
        /\ Cardinality(S \X {c}) = Cardinality(S) * Cardinality({c})
    BY <1>1, <1>2, FS_Product, Zenon
  <2>2. \A n \in Nat : n * 1 = n
    OBVIOUS
  <2>3. QED
    BY <1>1, <1>2, <2>1, <2>2, Zenon
<1>4. Dropped \subseteq S \X {c}
  BY DEF Dropped, LoseAll
<1>5. Cardinality(Dropped) <= Cardinality(S \X {c}) /\ Cardinality(Dropped) \in Nat
  BY <1>3, <1>4, FS_Subset, FS_CardinalityType
<1>6. QED
  BY <1>1, <1>3, <1>5, LimitsAssumption

LEMMA NoneDropped ==
    ASSUME Dropped = {}
    PROVE  Cardinality(Dropped) <= BatchLimit
BY FS_EmptySet, LimitsAssumption

\* What a step takes from a batch is no more than the batch.
LEMMA PartOfBatch ==
    ASSUME BatchInv, NEW p \in Procs, NEW S \in SUBSET In(batch[p])
    PROVE  S \in SUBSET Heartbeats /\ Cardinality(S) <= BatchLimit
<1>1. In(batch[p]) \in SUBSET Heartbeats /\ Cardinality(In(batch[p])) <= BatchLimit
  BY DEF BatchInv, BatchOf, In
<1>2. IsFiniteSet(In(batch[p])) /\ Cardinality(In(batch[p])) \in Nat
  BY <1>1, HeartbeatsAreFinite
<1>3. Cardinality(S) <= Cardinality(In(batch[p])) /\ Cardinality(S) \in Nat
  BY <1>2, FS_Subset, FS_CardinalityType
<1>4. QED
  BY <1>1, <1>2, <1>3, LimitsAssumption

LEMMA DropsAtMostABatch ==
    ASSUME BatchInv, Next
    PROVE  Cardinality(Dropped) <= BatchLimit
<1> PICK p \in Procs :
      QueueInBackoff(p) \/ StartSend(p) \/ StartSync(p) \/ Work(p) \/ Trouble(p)
  BY DEF Next
<1>a. TypeOK
  BY DEF BatchInv
<1>1. CASE lost' = lost
  BY <1>1, NoneDropped DEF Dropped
<1>2. CASE Unlink(p)
  BY <1>2, NoneDropped DEF Unlink, LoseAll, Dropped
<1>3. CASE RemoveBatch(p)
  <2> DEFINE b == queue[path[p]]
             out == Prefix(b, Size(batch[p]))
             S == {h \in Heartbeats : out[h] > batch[p][h]}
  <2>1. LoseAll(S, "unread") /\ pc[p] = "remove"
    BY <1>3 DEF RemoveBatch
  <2>2. b \in Bag /\ batch[p] \in Bag /\ Size(batch[p]) \in Nat /\ Size(batch[p]) <= BatchLimit
    BY <1>a, <2>1, SizeIsNat DEF TypeOK, BatchInv, BatchOf
  <2>3. out \in Bag /\ Size(out) = IF Size(batch[p]) < Size(b) THEN Size(batch[p]) ELSE Size(b)
    BY <2>2, PrefixIsBelow, SizeOfPrefix
  <2>4. Size(out) \in Nat /\ Size(b) \in Nat
    BY <2>2, <2>3, SizeIsNat
  <2>5. S \subseteq In(out)
    BY <2>2, <2>3 DEF In, Bag
  <2> HIDE DEF S, out, b
  <2>6. IsFiniteSet(In(out)) /\ Cardinality(In(out)) <= Size(out) /\ Cardinality(In(out)) \in Nat
    BY <2>3, FewerHeartbeatsThanKeys, FS_CardinalityType
  <2>7. Cardinality(S) <= Cardinality(In(out)) /\ Cardinality(S) \in Nat
    BY <2>5, <2>6, FS_Subset, FS_CardinalityType
  <2>8. S \in SUBSET Heartbeats
    BY DEF S
  <2>9. Cardinality(S) <= BatchLimit
    BY <2>2, <2>3, <2>4, <2>6, <2>7, LimitsAssumption
  <2>10. QED
    BY <2>1, <2>8, <2>9, FewDropped
<1>4. ASSUME NEW S \in SUBSET In(batch[p]), NEW c, LoseAll(S, c)
      PROVE  Cardinality(Dropped) <= BatchLimit
  BY <1>4, PartOfBatch, FewDropped
<1>5. CASE \E t \in Targets : SendPost(p, t) \/ PostSilent(p, t)
  <2>1. PICK t \in Targets, M \in SUBSET Heartbeats :
          M \subseteq Group(p, t) /\ \E c : LoseAll(M, c)
    <3>1. ASSUME NEW t \in Targets
          PROVE  Group(p, t) \subseteq Heartbeats
      BY DEF Group, In
    <3>2. QED
      BY <1>5, <3>1 DEF SendPost, PostSilent
  <2>2. Group(p, t) \subseteq In(batch[p])
    BY DEF Group
  <2>3. QED
    BY <1>4, <2>1, <2>2
<1>6. CASE AppendFails(p) \/ Crash(p) \/ SendRefused(p)
  <2>1. \E S \in SUBSET In(batch[p]) : \E c : LoseAll(S, c)
    BY <1>6 DEF AppendFails, Crash, SendRefused, BatchInv, BatchOf
  <2>2. QED
    BY <1>4, <2>1
<1>7. CASE QueueInBackoff(p) \/ SpillFails(p)
  <2>1. \E H \in SUBSET (Heartbeats \ handed) : lost' = lost \/ LoseAll(H, "storage")
    BY <1>7 DEF QueueInBackoff, SpillFails
  <2>2. Dropped = {}
    BY <2>1 DEF Dropped, LoseAll
  <2>3. QED
    BY <2>2, NoneDropped
<1>8. CASE \E q \in Queues : Reset(q)
  BY <1>8, NoneDropped DEF Reset, LoseAll, Dropped
<1>9. CASE lost' # lost
  <2>1. ~(StartSend(p) \/ StartSync(p))
    BY <1>9 DEF StartSend, StartSync
  <2>2. CASE Work(p)
    BY <1>2, <1>3, <1>5, <1>9, <2>2
       DEF Work, SendAppend, Dedupe, Count, Read, AppendBatch, Post
  <2>3. CASE Trouble(p)
    BY <1>5, <1>6, <1>9, <1>7, <1>8, <2>3 DEF Trouble, SyncGivesUp, SendFails, PostFails
  <2>4. QED
    BY <1>7, <2>1, <2>2, <2>3
<1>10. QED
  BY <1>1, <1>9

LEMMA MergesIntoNear ==
    ASSUME TypeOK, Next, NEW h \in merged' \ merged
    PROVE  \E q \in Queues : \E k \in Heartbeats :
              k # h /\ Near(k, h) /\ queue'[q][k] > 0
<1> PICK p \in Procs :
      QueueInBackoff(p) \/ StartSend(p) \/ StartSync(p) \/ Work(p) \/ Trouble(p)
  BY DEF Next
<1>1. Dedupe(p)
  <2>1. ~(QueueInBackoff(p) \/ StartSend(p) \/ StartSync(p))
    BY DEF QueueInBackoff, StartSend, StartSync
  <2>2. CASE Work(p)
    BY <2>2 DEF Work, SendAppend, Count, Read, RemoveBatch, AppendBatch, Unlink, SendPost, Post, Answered
  <2>3. ~Trouble(p)
    BY DEF Trouble, SpillFails, SendRefused, Reset, SyncGivesUp, AppendFails, Crash,
           SendFails, PostFails, PostSilent, Answered
  <2>4. QED
    BY <2>1, <2>2, <2>3
<1> DEFINE b == queue[path[p]]
<1>2. PICK K \in SUBSET In(b) :
        /\ Kept(b, K)
        /\ queue' = [queue EXCEPT ![path[p]] = BagOf(K)]
        /\ merged' = merged \cup (In(b) \ K)
  BY <1>1 DEF Dedupe
<1>3. h \in In(b) /\ h \notin K
  BY <1>2
<1>4. PICK k \in K : k < h /\ Near(k, h)
  BY <1>2, <1>3 DEF Kept
<1>5. k \in Heartbeats /\ h \in Heartbeats /\ Heartbeats \subseteq Nat
  BY <1>2, <1>3, HeartbeatsAssumption DEF In
<1>6. path[p] \in Queues /\ queue'[path[p]] = BagOf(K)
  BY <1>2 DEF TypeOK
<1>7. queue'[path[p]][k] > 0 /\ k # h
  BY <1>4, <1>5, <1>6 DEF BagOf
<1>8. QED
  BY <1>4, <1>5, <1>6, <1>7

\* For any invocations, targets, limits and faults: of what was handed over
\* before it, a step drops at most one batch, the deletion of the legacy file and
\* the reset of a corrupt one aside (a failing append of what is handed over in
\* the same step drops that alone).
THEOREM StepsLoseAtMostABatch == Spec => StepLosesAtMostABatch
<1>1. BatchInv /\ [Next]_vars
        => [Cardinality({x \in lost' \ lost :
                           x[1] \in handed /\ x[2] \notin {"unlinked", "corrupt"}})
              <= BatchLimit]_vars
  BY DropsAtMostABatch DEF Dropped
<1>2. QED
  BY <1>1, BatchInit, BatchNext, PTL DEF Spec, StepLosesAtMostABatch

\* For any invocations, entities, times and window: a heartbeat is deleted as a
\* duplicate only in a step that leaves one near it in the queue, so that
\* deletions do not chain.
THEOREM MergesAreNear == Spec => MergedIntoNear
<1>1. TypeOK /\ [Next]_vars
        => [\A h \in merged' \ merged :
               \E q \in Queues : \E k \in Heartbeats :
                  k # h /\ Near(k, h) /\ queue'[q][k] > 0]_vars
  BY MergesIntoNear
<1>2. QED
  BY <1>1, TypeInit, TypeNext, PTL DEF Spec, MergedIntoNear

-----------------------------------------------------------------------------
(* AI transcripts: types and the inductive invariant *)

ScanState == [at : {"idle", "read", "send", "record"}, after : 0 .. MaxTime,
              todo : SUBSET Transcripts, found : SUBSET Heartbeat,
              unseen : SUBSET (1 .. MaxEntries), alone : BOOLEAN]

ScanTypes ==
    /\ kind \in [Transcripts -> Formats]
    /\ names \in [Transcripts -> 1 .. 2]
    /\ entries \in Seq(Entry) /\ Len(entries) <= MaxEntries
    /\ mtime \in [Transcripts -> 0 .. MaxTime]
    /\ torn \subseteq {x \in Transcripts : kind[x] \in Strict}
    /\ over \subseteq {x \in Transcripts : kind[x] \notin Databases}
    /\ now \in 1 .. MaxTime /\ mark \in 0 .. now
    /\ scan \in [Scans -> ScanState]
    /\ sent \subseteq Heartbeat
    /\ stops \in 0 .. MaxStops
    /\ behind \subseteq DOMAIN entries /\ loose \subseteq DOMAIN entries

\* An entry is not newer than its transcript's last writing, ends a call that
\* is in the same transcript, and plays a part its format knows.
EntryFits(e) ==
    /\ entries[e].time <= mtime[entries[e].in]
    /\ mtime[entries[e].in] <= now
    /\ entries[e].call # None =>
        /\ entries[e].call \in DOMAIN entries
        /\ entries[entries[e].call].in = entries[e].in
    /\ entries[e].role \in Roles(entries[e].in)

\* Entries that are not counted one by one.
Wholly == {"document", "totals", "continue", "chats"}

\* A heartbeat tells of entries that are not newer than it.
HeartbeatFits(h) ==
    /\ h.last <= now
    /\ \A e \in Counted({h}) :
        /\ e \in DOMAIN entries
        /\ kind[h.in] \notin Wholly /\ entries[e].time # None => entries[e].time <= h.last

Covered(e) == e \in Counted(sent) \cup behind

Claimed(e) == Countable(e) /\ entries[e].time # None

\* What a scan has found is what it was to find from its mark on.
ScanFits(s) ==
    /\ scan[s].at = "read" => scan[s].todo # {}
    /\ scan[s].at \in {"send", "record"} => scan[s].todo = {} /\ scan[s].found # {}
    /\ scan[s].after <= now
    /\ scan[s].unseen \subseteq DOMAIN entries
    /\ \A h \in scan[s].found :
        /\ HeartbeatFits(h) /\ scan[s].after <= h.last /\ h.in \notin scan[s].todo
        /\ \A e \in Counted({h}) :
            kind[h.in] \notin Wholly /\ entries[e].time # None => scan[s].after <= entries[e].time
    /\ \A g, h \in scan[s].found :
        /\ g.in = h.in /\ kind[g.in] \notin Wholly
        /\ Counted({g}) \cap Counted({h}) # {}
        => g = h

\* What can be counted is seen, from the mark of the scan on, or was accounted
\* for before.
ScanCounts(s) ==
    \A e \in DOMAIN entries : Claimed(e) =>
        \/ e \in scan[s].unseen
        \/ Covered(e)
        \/ /\ ~Passed(entries[e], scan[s].after)
           /\ \/ scan[s].at = "read" /\ entries[e].in \in scan[s].todo
              \/ scan[s].at \in {"read", "send"} /\ e \in Counted(scan[s].found)

\* What a stored heartbeat counts is behind the mark and every scan, up to its
\* second, or its scan has still to record the mark.
MarkedOff(h) ==
    \/ /\ Floor(h.last) <= mark
       /\ \A s \in Busy : Floor(h.last) <= scan[s].after
    \/ \E r \in Busy : scan[r].at = "record" /\ h \in scan[r].found

ScanInv ==
    /\ ScanTypes
    /\ now >= 2 * Second - 1
    /\ \A x \in Transcripts : mtime[x] <= now
    /\ \A e \in DOMAIN entries : EntryFits(e)
    /\ \A s \in Busy : ScanFits(s) /\ ScanCounts(s)
    /\ \A s, q \in Busy : s # q => ~scan[s].alone
    /\ \A h \in sent : HeartbeatFits(h)
    /\ \A e \in DOMAIN entries : Claimed(e) /\ Passed(entries[e], mark) => Covered(e)
    /\ \A h \in sent : \A e \in Counted({h}) \ loose :
        kind[h.in] \notin Wholly /\ entries[e].time # None => MarkedOff(h)
    /\ RecountedInItsSecond

-----------------------------------------------------------------------------
(* Numbers *)

LEMMA BoundsAre ==
    /\ Second \in Nat \ {0} /\ Lookback \in Nat \ {0} /\ Limit \in Nat \ {0}
    /\ MaxTime \in Nat \ {0} /\ MaxEntries \in Nat \ {0} /\ MaxStops \in Nat /\ TokenWindow \in Nat
    /\ Transcripts \subseteq Nat \ {0} /\ Scans \subseteq Nat
BY TranscriptsAssumption

LEMMA StampsAre == Delay \in Nat /\ Earliest \in Nat \ {0}
BY TranscriptsAssumption

LEMMA LeastOf == \A S \in SUBSET Nat : S # {} => \E m \in S : \A n \in S : m <= n
<1> SUFFICES ASSUME NEW S \in SUBSET Nat, S # {}
             PROVE  \E m \in S : \A n \in S : m <= n
    OBVIOUS
<1> DEFINE R == {ss \in Nat \X Nat : ss[1] < ss[2]}
<1>1. IsWellFoundedOn(R, Nat)
    BY NatLessThanWellFounded DEF OpToRel
<1>2. \A m, n \in Nat : m < n => <<m, n>> \in R
    OBVIOUS
<1> HIDE DEF R
<1>3. PICK m \in S : \A n \in S : ~(<<n, m>> \in R)
    BY <1>1, WFMin
<1>4. \A n \in S : m <= n
    <2>1. \A n \in S : n \in Nat /\ m \in Nat /\ ~(n < m)
        BY <1>2, <1>3
    <2> QED
        BY <2>1
<1> QED
    BY <1>4

LEMMA LeastIsMin ==
    ASSUME NEW S \in SUBSET Nat, S # {}
    PROVE  Min(S) \in S /\ \A n \in S : Min(S) <= n
<1>1. PICK m \in S : \A n \in S : m <= n
    BY LeastOf
<1> QED
    BY <1>1 DEF Min

\* A set of times has a greatest.
LEMMA GreatestIsLast ==
    ASSUME NEW b \in Nat, NEW S \in SUBSET (0 .. b), S # {}
    PROVE  Last(S) \in S /\ \A n \in S : n <= Last(S)
<1> DEFINE D == {b - n : n \in S}
<1>1. D \in SUBSET Nat /\ D # {}
    <2>1. \A n \in S : b - n \in Nat
        OBVIOUS
    <2> QED
        BY <2>1
<1>2. PICK d \in D : \A n \in D : d <= n
    <2> HIDE DEF D
    <2> QED
        BY <1>1, LeastOf
<1>3. PICK m \in S : d = b - m
    OBVIOUS
<1>4. \A n \in S : m >= n
    <2> SUFFICES ASSUME NEW n \in S PROVE m >= n
        OBVIOUS
    <2>1. d <= b - n
        BY <1>2
    <2>2. n \in 0 .. b /\ m \in 0 .. b
        BY Zenon
    <2>3. n \in Nat /\ m \in Nat
        BY <2>2
    <2> QED
        BY <1>3, <2>1, <2>3
<1>5. Last(S) \in S /\ \A n \in S : Last(S) >= n
    BY <1>3, <1>4 DEF Last, Max
<1>6. S \subseteq Nat
    OBVIOUS
<1> QED
    BY <1>5, <1>6

\* The second a time falls in begins no later than the time.
LEMMA FloorIs ==
    ASSUME NEW t \in Nat
    PROVE  /\ Floor(t) \in Nat /\ Floor(t) <= t
           /\ \A u \in Nat : Floor(t) <= u /\ u <= t => u \div Second = t \div Second
           /\ \A u \in Nat : t <= u => Floor(t) <= Floor(u)
           /\ \A u \in Nat : Floor(t) <= u => Floor(t) <= Floor(u)
<1>1. Second \in Nat \ {0}
    BY BoundsAre
<1> DEFINE q == t \div Second
<1>2. q \in Nat /\ q * Second <= t /\ t < q * Second + Second
    BY <1>1
<1>3. ASSUME NEW u \in Nat
      PROVE  (q * Second <= u) => q <= u \div Second
    <2> DEFINE p == u \div Second
    <2>1. p \in Nat /\ p * Second <= u /\ u < p * Second + Second
        BY <1>1
    <2> HIDE DEF p, q
    <2>2. ASSUME q * Second <= u, p < q
          PROVE  FALSE
        <3>1. p + 1 <= q
            BY <2>1, <2>2, <1>2
        <3>2. (p + 1) * Second <= q * Second
            BY <1>1, <1>2, <2>1, <3>1
        <3>3. (p + 1) * Second = p * Second + Second
            BY <1>1, <2>1
        <3>4. p * Second \in Nat /\ q * Second \in Nat
            BY <1>1, <1>2, <2>1
        <3> QED
            BY <1>1, <2>1, <2>2, <3>2, <3>3, <3>4
    <2> QED
        BY <1>2, <2>1, <2>2 DEF p
<1>4. ASSUME NEW u \in Nat
      PROVE  u <= t => u \div Second <= q
    <2> DEFINE p == u \div Second
    <2>1. p \in Nat /\ p * Second <= u /\ u < p * Second + Second
        BY <1>1
    <2> HIDE DEF p, q
    <2>2. ASSUME u <= t, q < p
          PROVE  FALSE
        <3>1. q + 1 <= p
            BY <2>1, <2>2, <1>2
        <3>2. (q + 1) * Second <= p * Second
            BY <1>1, <1>2, <2>1, <3>1
        <3>3. (q + 1) * Second = q * Second + Second
            BY <1>1, <1>2
        <3>4. p * Second \in Nat /\ q * Second \in Nat
            BY <1>1, <1>2, <2>1
        <3> QED
            BY <1>1, <1>2, <2>1, <2>2, <3>2, <3>3, <3>4
    <2> QED
        BY <1>2, <2>1, <2>2 DEF p
<1>5. ASSUME NEW u \in Nat
      PROVE  u \div Second \in Nat
    BY <1>1
<1>6. ASSUME NEW u \in Nat, q * Second <= u
      PROVE  q * Second <= Floor(u)
    <2> DEFINE p == u \div Second
    <2>1. p \in Nat /\ q <= p
        BY <1>3, <1>5, <1>6
    <2>2. q * Second <= p * Second
        <3> HIDE DEF p, q
        <3> QED
            BY <1>1, <1>2, <2>1
    <2> QED
        BY <2>2 DEF Floor
<1>7. Floor(t) = q * Second
    BY DEF Floor
<1>8. Floor(t) \in Nat /\ Floor(t) <= t
    <2> HIDE DEF q
    <2> QED
        BY <1>1, <1>2, <1>7
<1>9. ASSUME NEW u \in Nat, Floor(t) <= u, u <= t
      PROVE  u \div Second = q
    <2>1. q <= u \div Second /\ u \div Second <= q
        BY <1>3, <1>4, <1>7, <1>9
    <2> QED
        BY <1>2, <1>5, <2>1
<1>10. ASSUME NEW u \in Nat, t <= u
       PROVE  Floor(t) <= u
    BY <1>8, <1>10
<1> QED
    BY <1>6, <1>7, <1>8, <1>9, <1>10

-----------------------------------------------------------------------------
(* What a heartbeat counts *)

LEMMA CountedIs ==
    ASSUME NEW H, NEW e
    PROVE  /\ e \in Counted(H) <=> \E h \in H : e \in Counted({h})
           /\ \A h : e \in Counted({h}) <=>
                (\E c \in h.counts : e = c[1]) \/ (e # None /\ \E c \in h.counts : e = c[2])
BY DEF Counted

LEMMA CountedGrows ==
    ASSUME NEW G, NEW H, G \subseteq H
    PROVE  Counted(G) \subseteq Counted(H)
BY CountedIs

\* Where an entry is and what it says.
LEMMA EntryIs ==
    ASSUME ScanTypes, NEW e \in DOMAIN entries
    PROVE  /\ e \in 1 .. MaxEntries /\ e \in Nat \ {0} /\ entries[e] \in Entry
           /\ entries[e].in \in Transcripts /\ entries[e].time \in Nat
           /\ entries[e].time <= MaxTime /\ entries[e].call \in Nat
           /\ e \in EntriesIn(entries[e].in)
<1>1. entries \in Seq(Entry) /\ Len(entries) \in Nat /\ Len(entries) <= MaxEntries
    BY DEF ScanTypes
<1>2. DOMAIN entries = 1 .. Len(entries) /\ entries[e] \in Entry
    BY <1>1
<1>3. e \in 1 .. MaxEntries
    BY <1>1, <1>2, BoundsAre
<1>4. MaxTime \in Nat /\ MaxEntries \in Nat
    BY BoundsAre
<1> QED
    BY <1>2, <1>3, <1>4 DEF Entry, EntriesIn

\* What every scan reads from: entries that are as they should be.
Readable ==
    /\ ScanTypes
    /\ \A x \in Transcripts : mtime[x] <= now
    /\ \A e \in DOMAIN entries : EntryFits(e)

LEMMA TimeIs ==
    ASSUME Readable, NEW x \in Transcripts, NEW e \in EntriesIn(x)
    PROVE  /\ Time(x, e) \in 0 .. now /\ Time(x, e) <= mtime[x] /\ entries[e].time <= Time(x, e)
           /\ entries[e].time # None => Time(x, e) = entries[e].time
<1>1. e \in DOMAIN entries /\ entries[e].in = x
    BY DEF EntriesIn
<1>2. entries[e].time \in Nat /\ entries[e].time <= mtime[x] /\ mtime[x] <= now
    BY <1>1, EntryIs DEF Readable, EntryFits
<1>3. mtime[x] \in Nat /\ now \in Nat
    BY BoundsAre DEF Readable, ScanTypes
<1> QED
    BY <1>2, <1>3 DEF Time, None

\* The times of a set of entries have a last one.
LEMMA LastIs ==
    ASSUME Readable, NEW x \in Transcripts, NEW S, S \subseteq EntriesIn(x), S # {}
    PROVE  /\ Last(Times(x, S)) \in 0 .. now
           /\ \A e \in S : Time(x, e) <= Last(Times(x, S))
           /\ \E e \in S : Last(Times(x, S)) = Time(x, e)
<1>1. Times(x, S) \subseteq 0 .. now /\ Times(x, S) # {} /\ \A e \in S : Time(x, e) \in Times(x, S)
    BY TimeIs DEF Times
<1>2. now \in Nat
    BY BoundsAre DEF Readable, ScanTypes
<1>3. /\ Last(Times(x, S)) \in Times(x, S)
      /\ \A n \in Times(x, S) : n <= Last(Times(x, S))
    BY <1>1, <1>2, GreatestIsLast
<1> QED
    BY <1>1, <1>3 DEF Times

-----------------------------------------------------------------------------
(* What a format yields *)

Sound(x, after, h) ==
    /\ h \in Heartbeat /\ h.in = x /\ HeartbeatFits(h) /\ after <= h.last
    /\ \A e \in Counted({h}) : kind[x] \notin Wholly /\ entries[e].time # None => after <= entries[e].time

\* Two heartbeats that count one entry are the same, up to the session's name.
OfOne(x, g, h) ==
    kind[x] \notin Wholly /\ Counted({g}) \cap Counted({h}) # {}
        => g.last = h.last /\ g.counts = h.counts

Wanted(x, after, e) == Claimed(e) /\ ~Passed(entries[e], after)

ReadFits(x, after, H) ==
    /\ \A h \in H : Sound(x, after, h)
    /\ \A g, h \in H : OfOne(x, g, h)
    /\ \A e \in EntriesIn(x) : Wanted(x, after, e) => e \in Counted(H)

\* A heartbeat of a session, under each of its names.
Named(x, last, counts) ==
    {[in |-> x, name |-> n, last |-> last, counts |-> counts] : n \in 1 .. names[x]}

\* What a heartbeat may count, of the entries of a transcript.
Countings(x) == EntriesIn(x) \X (EntriesIn(x) \cup {None})

LEMMA NamedIs ==
    ASSUME NEW x, NEW last, NEW counts, NEW h \in Named(x, last, counts)
    PROVE  h.in = x /\ h.last = last /\ h.counts = counts
BY DEF Named

LEMMA NamedFits ==
    ASSUME Readable, NEW x \in Transcripts, NEW after \in Nat,
           NEW last \in 0 .. now, after <= last,
           NEW C, C \subseteq Countings(x),
           kind[x] \notin Wholly => \A c \in C :
                /\ c[1] = c[2]
                /\ entries[c[1]].time # None => after <= entries[c[1]].time /\ entries[c[1]].time <= last
    PROVE  /\ \A h \in Named(x, last, C) : Sound(x, after, h)
           /\ \A g, h \in Named(x, last, C) : OfOne(x, g, h)
           /\ \A c \in C : c[1] \in Counted(Named(x, last, C))
<1>1. ScanTypes /\ now \in Nat /\ now <= MaxTime /\ names[x] \in 1 .. 2
    BY BoundsAre DEF Readable, ScanTypes
<1>2. C \subseteq (1 .. MaxEntries) \X (0 .. MaxEntries)
    <2>1. EntriesIn(x) \subseteq 1 .. MaxEntries
        BY <1>1, EntryIs DEF EntriesIn
    <2>2. MaxEntries \in Nat
        BY BoundsAre
    <2> QED
        BY <2>1, <2>2 DEF Countings, None
<1>3. ASSUME NEW h \in Named(x, last, C)
      PROVE  Sound(x, after, h)
    <2>1. PICK n \in 1 .. names[x] : h = [in |-> x, name |-> n, last |-> last, counts |-> C]
        BY DEF Named
    <2>2. h \in Heartbeat
        <3>1. n \in 1 .. 2 /\ last \in 0 .. MaxTime
            <4>1. names[x] \in {1, 2} /\ MaxTime \in Nat
                BY <1>1, BoundsAre
            <4> QED
                BY <1>1, <4>1
        <3>2. C \in SUBSET ((1 .. MaxEntries) \X (0 .. MaxEntries))
            BY <1>2
        <3> QED
            BY <2>1, <3>1, <3>2 DEF Heartbeat
    <2>3. ASSUME NEW e \in Counted({h})
          PROVE  /\ e \in DOMAIN entries
                 /\ kind[x] \notin Wholly /\ entries[e].time # None =>
                        after <= entries[e].time /\ entries[e].time <= last
        <3>1. PICK c \in C : e = c[1] \/ (e # None /\ e = c[2])
            BY <2>1, CountedIs
        <3>2. c[1] \in EntriesIn(x) /\ c[2] \in EntriesIn(x) \cup {None}
            BY DEF Countings
        <3> QED
            BY <3>1, <3>2 DEF EntriesIn
    <2>4. HeartbeatFits(h)
        BY <1>1, <2>1, <2>3 DEF HeartbeatFits
    <2> QED
        BY <2>1, <2>2, <2>3, <2>4 DEF Sound
<1>4. ASSUME NEW g \in Named(x, last, C), NEW h \in Named(x, last, C)
      PROVE  OfOne(x, g, h)
    BY NamedIs DEF OfOne
<1>5. ASSUME NEW c \in C
      PROVE  c[1] \in Counted(Named(x, last, C))
    <2>1. [in |-> x, name |-> 1, last |-> last, counts |-> C] \in Named(x, last, C)
        BY <1>1 DEF Named
    <2>2. PICK h \in Named(x, last, C) : h.counts = C
        BY <2>1
    <2>3. c[1] \in Counted({h})
        BY <2>2, CountedIs
    <2> QED
        BY <2>3, CountedIs
<1> QED
    BY <1>3, <1>4, <1>5

LEMMA ItselfIs ==
    ASSUME NEW x, NEW S, S \subseteq EntriesIn(x)
    PROVE  /\ Itself(S) \subseteq Countings(x)
           /\ \A c \in Itself(S) : c[1] = c[2] /\ c[1] \in S
           /\ \A e \in S : \E c \in Itself(S) : c[1] = e
<1>1. \A c \in Itself(S) : \E e \in S : c = <<e, e>>
    BY DEF Itself
<1>2. \A e \in S : <<e, e>> \in Itself(S) /\ <<e, e>> \in Countings(x)
    BY DEF Itself, Countings
<1>3. Itself(S) \subseteq Countings(x)
    BY <1>1, <1>2
<1>4. ASSUME NEW c \in Itself(S)
      PROVE  c[1] = c[2] /\ c[1] \in S
    BY <1>1
<1>5. ASSUME NEW e \in S
      PROVE  \E c \in Itself(S) : c[1] = e
    <2>1. <<e, e>>[1] = e
        OBVIOUS
    <2> QED
        BY <1>2, <2>1
<1> QED
    BY <1>3, <1>4, <1>5

\* A session that counts some entries of what is read.
LEMMA SessionFits ==
    ASSUME Readable, NEW x \in Transcripts, NEW after \in Nat,
           NEW S, S \subseteq EntriesIn(x), S # {} => \E e \in S : Time(x, e) >= after,
           NEW C, C \subseteq Countings(x),
           kind[x] \notin Wholly => \A c \in C :
                c[1] = c[2] /\ c[1] \in S /\ Time(x, c[1]) >= after,
           \A e \in EntriesIn(x) : Wanted(x, after, e) => S # {} /\ \E c \in C : e = c[1]
    PROVE  ReadFits(x, after, Session(x, S, C))
<1>1. CASE S = {}
    BY <1>1 DEF Session, ReadFits
<1>2. CASE S # {}
    <2> DEFINE last == Last(Times(x, S))
    <2>1. /\ last \in 0 .. now
          /\ \A e \in S : Time(x, e) <= last
        BY <1>2, LastIs
    <2>2. Session(x, S, C) = Named(x, last, C)
        BY <1>2 DEF Session, Named
    <2> HIDE DEF last
    <2>3. after <= last
        <3>1. PICK e \in S : Time(x, e) >= after
            BY <1>2
        <3>2. Time(x, e) \in 0 .. now /\ Time(x, e) <= last
            BY <2>1, TimeIs
        <3>3. now \in Nat
            BY BoundsAre DEF Readable, ScanTypes
        <3> QED
            BY <2>1, <3>1, <3>2, <3>3
    <2>4. kind[x] \notin Wholly => \A c \in C :
                /\ c[1] = c[2]
                /\ entries[c[1]].time # None => after <= entries[c[1]].time /\ entries[c[1]].time <= last
        <3> SUFFICES ASSUME kind[x] \notin Wholly, NEW c \in C
                     PROVE  /\ c[1] = c[2]
                            /\ entries[c[1]].time # None =>
                                    after <= entries[c[1]].time /\ entries[c[1]].time <= last
            OBVIOUS
        <3>1. c[1] = c[2] /\ c[1] \in S /\ Time(x, c[1]) >= after /\ c[1] \in EntriesIn(x)
            OBVIOUS
        <3>2. Time(x, c[1]) \in 0 .. now /\ (entries[c[1]].time # None => Time(x, c[1]) = entries[c[1]].time)
            BY <3>1, TimeIs
        <3>3. Time(x, c[1]) <= last
            BY <2>1, <3>1
        <3> QED
            BY <3>1, <3>2, <3>3
    <2>5. /\ \A h \in Named(x, last, C) : Sound(x, after, h)
          /\ \A g, h \in Named(x, last, C) : OfOne(x, g, h)
          /\ \A c \in C : c[1] \in Counted(Named(x, last, C))
        BY <2>1, <2>3, <2>4, NamedFits
    <2> QED
        BY <2>2, <2>5 DEF ReadFits
<1> QED
    BY <1>1, <1>2

\* An entry a scan is to count has a time, not before the mark.
LEMMA WantedIs ==
    ASSUME Readable, NEW x \in Transcripts, NEW after \in Nat, NEW e \in EntriesIn(x),
           Wanted(x, after, e)
    PROVE  /\ Time(x, e) >= after /\ Time(x, e) <= mtime[x] /\ Time(x, e) \in Nat
           /\ Countable(e) /\ entries[e].role \notin {"call", "tokens"}
           /\ entries[e].call # None =>
                /\ entries[e].call \in EntriesIn(x) /\ Time(x, entries[e].call) >= after
<1>1. e \in DOMAIN entries /\ entries[e].in = x /\ ScanTypes /\ now \in Nat /\ mtime[x] \in Nat
    BY BoundsAre DEF EntriesIn, Readable, ScanTypes
<1>2. /\ entries[e].time # None /\ Countable(e)
      /\ ~ (entries[e].time < after)
      /\ entries[e].call # None => ~ (entries[entries[e].call].time < after)
    BY DEF Wanted, Claimed, Passed
<1>3. entries[e].time \in Nat /\ entries[e].call \in Nat
    BY <1>1, EntryIs
<1>4. Time(x, e) >= after /\ Time(x, e) <= mtime[x] /\ Time(x, e) \in Nat
    BY <1>1, <1>2, <1>3, TimeIs
<1>5. ASSUME entries[e].call # None
      PROVE  entries[e].call \in EntriesIn(x) /\ Time(x, entries[e].call) >= after
    <2>1. PICK f : f = entries[e].call
        OBVIOUS
    <2>2. f \in DOMAIN entries /\ entries[f].in = x
        BY <1>1, <1>5, <2>1 DEF Readable, EntryFits
    <2>3. f \in EntriesIn(x)
        BY <2>2 DEF EntriesIn
    <2>4. entries[f].time \in Nat /\ entries[f].time >= after
        BY <1>1, <1>2, <1>5, <2>1, <2>2, EntryIs
    <2>5. Time(x, f) \in Nat /\ entries[f].time <= Time(x, f)
        BY <1>1, <2>3, TimeIs
    <2> QED
        BY <2>1, <2>3, <2>4, <2>5
<1> QED
    BY <1>2, <1>4, <1>5 DEF Countable

LEMMA FromIs ==
    ASSUME Readable, NEW x \in Transcripts, NEW after \in Nat, NEW S, S \subseteq EntriesIn(x)
    PROVE  /\ From(x, S, after) \subseteq S
           /\ \A e \in From(x, S, after) : Time(x, e) >= after
           /\ \A e \in S : Wanted(x, after, e) => e \in From(x, S, after)
<1>1. \A e \in S : Wanted(x, after, e) => Time(x, e) >= after
    BY WantedIs
<1> QED
    BY <1>1 DEF From

LEMMA LinesFit ==
    ASSUME Readable, NEW x \in Transcripts, NEW after \in Nat
    PROVE  ReadFits(x, after, ReadLines(x, after))
<1> DEFINE read == From(x, EntriesIn(x), after)
           C == Itself(WholeEdits(read))
<1>1. /\ read \subseteq EntriesIn(x) /\ \A e \in read : Time(x, e) >= after
      /\ \A e \in EntriesIn(x) : Wanted(x, after, e) => e \in read
    BY FromIs
<1>2. \A f \in EntriesIn(x) : Time(x, f) >= after => f \in read
    BY DEF From
<1>3. WholeEdits(read) \subseteq read
    BY DEF WholeEdits
<1> HIDE DEF read
<1>4. /\ C \subseteq Countings(x) /\ \A c \in C : c[1] = c[2] /\ c[1] \in read
      /\ \A e \in WholeEdits(read) : \E c \in C : c[1] = e
    BY <1>1, <1>3, ItselfIs
<1>5. ASSUME NEW e \in EntriesIn(x), Wanted(x, after, e)
      PROVE  e \in WholeEdits(read)
    BY <1>1, <1>2, <1>5, WantedIs DEF WholeEdits
<1> HIDE DEF C
<1>6. ReadFits(x, after, Session(x, read, C))
    <2>1. read # {} => \E e \in read : Time(x, e) >= after
        BY <1>1
    <2>2. \A c \in C : c[1] = c[2] /\ c[1] \in read /\ Time(x, c[1]) >= after
        BY <1>1, <1>4
    <2>3. \A e \in EntriesIn(x) : Wanted(x, after, e) => read # {} /\ \E c \in C : e = c[1]
        BY <1>1, <1>4, <1>5
    <2> QED
        BY <1>1, <1>4, <2>1, <2>2, <2>3, SessionFits
<1> QED
    BY <1>6 DEF ReadLines, read, C

LEMMA KiroFits ==
    ASSUME Readable, NEW x \in Transcripts, NEW after \in Nat
    PROVE  ReadFits(x, after, ReadKiro(x, after))
<1> DEFINE read == From(x, EntriesIn(x), after)
           C == Itself(read)
<1>1. /\ read \subseteq EntriesIn(x) /\ \A e \in read : Time(x, e) >= after
      /\ \A e \in EntriesIn(x) : Wanted(x, after, e) => e \in read
    BY FromIs
<1> HIDE DEF read
<1>2. /\ C \subseteq Countings(x) /\ \A c \in C : c[1] = c[2] /\ c[1] \in read
      /\ \A e \in read : \E c \in C : c[1] = e
    BY <1>1, ItselfIs
<1> HIDE DEF C
<1>3. ReadFits(x, after, Session(x, read, C))
    <2>1. read # {} => \E e \in read : Time(x, e) >= after
        BY <1>1
    <2>2. \A c \in C : c[1] = c[2] /\ c[1] \in read /\ Time(x, c[1]) >= after
        BY <1>1, <1>2
    <2>3. \A e \in EntriesIn(x) : Wanted(x, after, e) => read # {} /\ \E c \in C : e = c[1]
        BY <1>1, <1>2
    <2> QED
        BY <1>1, <1>2, <2>1, <2>2, <2>3, SessionFits
<1> QED
    BY <1>3 DEF ReadKiro, read, C

LEMMA MessagesFit ==
    ASSUME Readable, NEW x \in Transcripts, NEW after \in Nat, kind[x] = "messages"
    PROVE  ReadFits(x, after, ReadMessages(x, after))
<1> DEFINE read == From(x, Oldest(x), after)
           C == Itself(read)
<1>1. Oldest(x) \subseteq EntriesIn(x)
    BY DEF Oldest
<1>2. /\ read \subseteq EntriesIn(x) /\ \A e \in read : Time(x, e) >= after
      /\ \A e \in Oldest(x) : Wanted(x, after, e) => e \in read
    BY <1>1, FromIs
<1>3. ASSUME NEW e \in EntriesIn(x), Wanted(x, after, e)
      PROVE  e \in read
    <2>1. Countable(e) /\ entries[e].in = x
        BY <1>3, WantedIs DEF EntriesIn
    <2>2. e \in Oldest(x)
        BY <2>1 DEF Countable
    <2> QED
        BY <1>2, <1>3, <2>2
<1> HIDE DEF read
<1>4. /\ C \subseteq Countings(x) /\ \A c \in C : c[1] = c[2] /\ c[1] \in read
      /\ \A e \in read : \E c \in C : c[1] = e
    BY <1>2, ItselfIs
<1> HIDE DEF C
<1>5. ReadFits(x, after, Session(x, read, C))
    <2>1. read # {} => \E e \in read : Time(x, e) >= after
        BY <1>2
    <2>2. \A c \in C : c[1] = c[2] /\ c[1] \in read /\ Time(x, c[1]) >= after
        BY <1>2, <1>4
    <2>3. \A e \in EntriesIn(x) : Wanted(x, after, e) => read # {} /\ \E c \in C : e = c[1]
        BY <1>3, <1>4
    <2> QED
        BY <1>2, <1>4, <2>1, <2>2, <2>3, SessionFits
<1> QED
    BY <1>5 DEF ReadMessages, read, C

LEMMA TotalsFit ==
    ASSUME Readable, NEW x \in Transcripts, NEW after \in Nat, kind[x] = "totals"
    PROVE  ReadFits(x, after, ReadTotals(x, after))
<1> DEFINE all == EntriesIn(x)
           read == From(x, all, after)
           C == Itself(all)
<1>1. /\ read \subseteq all /\ \A e \in read : Time(x, e) >= after
      /\ \A e \in all : Wanted(x, after, e) => e \in read
    BY FromIs
<1>2. /\ C \subseteq Countings(x) /\ \A e \in all : \E c \in C : c[1] = e
    BY ItselfIs
<1>3. kind[x] \in Wholly
    BY DEF Wholly
<1>4. CASE read = {}
    <2>1. ReadTotals(x, after) = {}
        BY <1>4 DEF ReadTotals
    <2> QED
        BY <1>1, <1>4, <2>1 DEF ReadFits
<1>5. CASE read # {}
    <2>1. ReadTotals(x, after) = Session(x, all, C)
        BY <1>5 DEF ReadTotals
    <2> HIDE DEF read, C
    <2>2. \E e \in all : Time(x, e) >= after
        BY <1>1, <1>5
    <2>3. \A e \in EntriesIn(x) : Wanted(x, after, e) => all # {} /\ \E c \in C : e = c[1]
        BY <1>2
    <2>4. ReadFits(x, after, Session(x, all, C))
        <3>1. all \subseteq EntriesIn(x)
            OBVIOUS
        <3> HIDE DEF all
        <3> QED
            BY <1>2, <1>3, <2>2, <2>3, <3>1, SessionFits
    <2> QED
        BY <2>1, <2>4
<1> QED
    BY <1>4, <1>5

LEMMA ChatsFit ==
    ASSUME Readable, NEW x \in Transcripts, NEW after \in Nat, kind[x] = "chats"
    PROVE  ReadFits(x, after, ReadChats(x, after))
<1> DEFINE all == EntriesIn(x)
           read == From(x, all, after)
           newest == {e \in all : \A f \in all : f <= e}
           C == Itself(newest)
<1>1. /\ read \subseteq all /\ \A e \in read : Time(x, e) >= after
      /\ \A e \in all : Wanted(x, after, e) => e \in read
    BY FromIs
<1>2. /\ C \subseteq Countings(x) /\ \A e \in newest : \E c \in C : c[1] = e
    BY ItselfIs
<1>3. kind[x] \in Wholly
    BY DEF Wholly
<1>4. CASE read = {}
    <2>1. ReadChats(x, after) = {}
        BY <1>4 DEF ReadChats
    <2> QED
        BY <1>1, <1>4, <2>1 DEF ReadFits
<1>5. CASE read # {}
    <2>1. ReadChats(x, after) = Session(x, all, C)
        BY <1>5 DEF ReadChats
    <2>2. ASSUME NEW e \in all, Wanted(x, after, e)
          PROVE  e \in newest
        <3>1. Countable(e) /\ entries[e].in = x
            BY <2>2, WantedIs DEF EntriesIn
        <3> QED
            BY <3>1 DEF Countable
    <2> HIDE DEF read, C, newest
    <2>3. \E e \in all : Time(x, e) >= after
        BY <1>1, <1>5
    <2>4. \A e \in EntriesIn(x) : Wanted(x, after, e) => all # {} /\ \E c \in C : e = c[1]
        BY <1>2, <2>2
    <2>5. ReadFits(x, after, Session(x, all, C))
        <3>1. all \subseteq EntriesIn(x)
            OBVIOUS
        <3> HIDE DEF all
        <3> QED
            BY <1>2, <1>3, <2>3, <2>4, <3>1, SessionFits
    <2> QED
        BY <2>1, <2>5
<1> QED
    BY <1>4, <1>5

LEMMA DocumentFits ==
    ASSUME Readable, NEW x \in Transcripts, NEW after \in Nat, kind[x] = "document"
    PROVE  ReadFits(x, after, ReadDocument(x, after))
<1> DEFINE all == EntriesIn(x)
           times == {mtime[x]} \cup Times(x, all)
           last == Last(times)
           C == Itself(all)
<1>1. now \in Nat /\ mtime[x] \in 0 .. now
    BY BoundsAre DEF Readable, ScanTypes
<1>2. times \in SUBSET (0 .. now) /\ times # {} /\ \A e \in all : Time(x, e) \in times
    BY <1>1, TimeIs DEF Times
<1>3. last \in 0 .. now /\ \A e \in all : Time(x, e) <= last
    <2> HIDE DEF times
    <2> QED
        BY <1>1, <1>2, GreatestIsLast
<1>4. C \subseteq Countings(x) /\ \A e \in all : \E c \in C : c[1] = e
    BY ItselfIs
<1>5. CASE last < after \/ all = {}
    <2>1. ReadDocument(x, after) = {}
        BY <1>5 DEF ReadDocument
    <2>2. ASSUME NEW e \in all, Wanted(x, after, e)
          PROVE  FALSE
        <3>0. last < after
            BY <1>5
        <3>1. Time(x, e) >= after /\ Time(x, e) \in Nat /\ Time(x, e) <= last /\ last \in Nat
            BY <1>1, <1>3, <2>2, WantedIs
        <3> HIDE DEF last
        <3> QED
            BY <3>0, <3>1
    <2> QED
        BY <2>1, <2>2 DEF ReadFits
<1>6. CASE ~ (last < after \/ all = {})
    <2>1. ReadDocument(x, after) = Named(x, last, C)
        BY <1>6 DEF ReadDocument, Named
    <2>2. after <= last
        <3> HIDE DEF last
        <3> QED
            BY <1>1, <1>3, <1>6
    <2>3. kind[x] \in Wholly
        BY DEF Wholly
    <2> HIDE DEF last, C
    <2>4. /\ \A h \in Named(x, last, C) : Sound(x, after, h)
          /\ \A g, h \in Named(x, last, C) : OfOne(x, g, h)
          /\ \A c \in C : c[1] \in Counted(Named(x, last, C))
        BY <1>3, <1>4, <2>2, <2>3, NamedFits
    <2> QED
        BY <1>4, <2>1, <2>4 DEF ReadFits
<1> QED
    BY <1>5, <1>6

\* The tokens of a chat are in the same transcript.
LEMMA TokensIs ==
    ASSUME Readable, NEW x \in Transcripts, NEW chat \in EntriesIn(x)
    PROVE  MatchContinueTokens(x, chat) \in EntriesIn(x) \cup {None}
<1> DEFINE near == {f \in EntriesIn(x) : entries[f].role = "tokens" /\ Apart(chat, f) <= TokenWindow}
           nearest == {f \in near : \A g \in near : Apart(chat, f) <= Apart(chat, g)}
<1>1. ASSUME NEW f \in EntriesIn(x)
      PROVE  Apart(chat, f) \in Nat /\ f \in Nat
    <2>1. entries[f].time \in Nat /\ entries[chat].time \in Nat /\ f \in Nat
        BY EntryIs DEF EntriesIn, Readable
    <2> QED
        BY <2>1 DEF Apart
<1>2. CASE near = {}
    BY <1>2 DEF MatchContinueTokens
<1>3. CASE near # {}
    <2> DEFINE D == {Apart(chat, f) : f \in near}
    <2>1. D \in SUBSET Nat /\ D # {}
        BY <1>1, <1>3
    <2>2. PICK d \in D : \A n \in D : d <= n
        <3> HIDE DEF D
        <3> QED
            BY <2>1, LeastOf
    <2>3. nearest # {}
        <3>1. PICK f \in near : d = Apart(chat, f)
            OBVIOUS
        <3>2. \A g \in near : Apart(chat, f) <= Apart(chat, g)
            BY <2>2, <3>1
        <3> QED
            BY <3>2
    <2>4. nearest \in SUBSET Nat /\ nearest \subseteq EntriesIn(x)
        BY <1>1
    <2>5. MatchContinueTokens(x, chat) = Min(nearest)
        BY <1>3 DEF MatchContinueTokens
    <2> HIDE DEF nearest
    <2> QED
        BY <2>3, <2>4, <2>5, LeastIsMin
<1> QED
    BY <1>2, <1>3

LEMMA ContinueFits ==
    ASSUME Readable, NEW x \in Transcripts, NEW after \in Nat, kind[x] = "continue"
    PROVE  ReadFits(x, after, ReadContinue(x, after))
<1> DEFINE all == {e \in EntriesIn(x) : entries[e].role = "chat"}
           chats == From(x, all, after)
           C == {<<e, MatchContinueTokens(x, e)>> : e \in chats}
<1>1. /\ chats \subseteq all /\ \A e \in chats : Time(x, e) >= after
      /\ \A e \in all : Wanted(x, after, e) => e \in chats
    BY FromIs
<1>2. chats \subseteq EntriesIn(x)
    BY <1>1
<1>3. ASSUME NEW e \in EntriesIn(x), Wanted(x, after, e)
      PROVE  e \in chats
    <2>1. entries[e].role \in {"chat", "tokens"}
        BY DEF Readable, EntriesIn, EntryFits, Roles
    <2>2. entries[e].role # "tokens"
        BY <1>3, WantedIs
    <2> QED
        BY <1>1, <1>3, <2>1, <2>2
<1>4. /\ C \subseteq Countings(x)
      /\ \A e \in chats : \E c \in C : e = c[1]
    <2>1. \A e \in chats : <<e, MatchContinueTokens(x, e)>> \in Countings(x)
        BY <1>2, TokensIs DEF Countings
    <2>2. ASSUME NEW e \in chats
          PROVE  \E c \in C : e = c[1]
        <3>1. <<e, MatchContinueTokens(x, e)>> \in C
            OBVIOUS
        <3> HIDE DEF C, chats
        <3> QED
            BY <3>1
    <2> QED
        BY <2>1, <2>2
<1>5. kind[x] \in Wholly
    BY DEF Wholly
<1> HIDE DEF chats, C
<1>6. chats # {} => \E e \in chats : Time(x, e) >= after
    BY <1>1
<1>7. \A e \in EntriesIn(x) : Wanted(x, after, e) => chats # {} /\ \E c \in C : e = c[1]
    BY <1>3, <1>4
<1>8. ReadFits(x, after, Session(x, chats, C))
    BY <1>2, <1>4, <1>5, <1>6, <1>7, SessionFits
<1> QED
    BY <1>8 DEF ReadContinue, chats, C

LEMMA BubblesFit ==
    ASSUME Readable, NEW x \in Transcripts, NEW after \in Nat, kind[x] = "bubbles"
    PROVE  ReadFits(x, after, ReadBubbles(x, after))
<1> DEFINE read == From(x, Newest(x), after)
           Row(e) == Session(x, {e}, Itself({e}))
<1>1. Newest(x) \subseteq EntriesIn(x)
    BY DEF Newest
<1>2. /\ read \subseteq EntriesIn(x) /\ \A e \in read : Time(x, e) >= after
      /\ \A e \in Newest(x) : Wanted(x, after, e) => e \in read
    BY <1>1, FromIs
<1>3. ASSUME NEW e \in EntriesIn(x), Wanted(x, after, e)
      PROVE  e \in read
    <2>1. Countable(e) /\ entries[e].in = x
        BY <1>3, WantedIs DEF EntriesIn
    <2>2. e \in Newest(x)
        BY <2>1 DEF Countable
    <2> QED
        BY <1>2, <1>3, <2>2
<1> HIDE DEF read
<1>4. ASSUME NEW e \in read
      PROVE  /\ \A h \in Row(e) : /\ Sound(x, after, h) /\ h.last = Last(Times(x, {e}))
                                  /\ h.counts = Itself({e}) /\ Counted({h}) \subseteq {e}
             /\ e \in Counted(Row(e))
    <2> DEFINE last == Last(Times(x, {e}))
               C == Itself({e})
    <2>1. e \in EntriesIn(x) /\ Time(x, e) >= after /\ e \in Nat \ {0}
        BY <1>2, EntryIs DEF EntriesIn, Readable
    <2>2. last \in 0 .. now /\ Time(x, e) = last
        <3>1. {e} \subseteq EntriesIn(x) /\ {e} # {}
            BY <2>1
        <3> QED
            BY <3>1, LastIs
    <2>3. C = {<<e, e>>}
        BY DEF Itself
    <2>4. C \subseteq Countings(x)
        BY <2>1, <2>3 DEF Countings
    <2>5. Row(e) = Named(x, last, C)
        BY DEF Session, Named
    <2>6. entries[e].time # None => entries[e].time = last
        BY <2>1, <2>2, TimeIs
    <2> HIDE DEF last, C
    <2>7. after <= last
        BY <2>1, <2>2
    <2>8. \A c \in C : /\ c[1] = c[2]
                       /\ entries[c[1]].time # None =>
                            after <= entries[c[1]].time /\ entries[c[1]].time <= last
        <3>1. last \in Int
            BY <2>2
        <3> QED
            BY <2>3, <2>6, <2>7, <3>1
    <2>9. /\ \A h \in Named(x, last, C) : Sound(x, after, h)
          /\ \A c \in C : c[1] \in Counted(Named(x, last, C))
        BY <2>2, <2>4, <2>7, <2>8, NamedFits
    <2>10. ASSUME NEW h \in Named(x, last, C)
           PROVE  h.last = last /\ h.counts = C /\ Counted({h}) \subseteq {e}
        <3>1. h.last = last /\ h.counts = C
            BY NamedIs
        <3>2. \A f \in Counted({h}) : f = e
            BY <2>3, <3>1, CountedIs
        <3> QED
            BY <3>1, <3>2
    <2>11. e \in Counted(Named(x, last, C))
        BY <2>3, <2>9
    <2> QED
        BY <2>5, <2>9, <2>10, <2>11 DEF last, C
<1>5. ReadBubbles(x, after) = UNION {Row(e) : e \in read}
    BY DEF ReadBubbles, read
<1> HIDE DEF Row
<1>6. ASSUME NEW h \in ReadBubbles(x, after)
      PROVE  \E e \in read : h \in Row(e)
    BY <1>5
<1>7. \A h \in ReadBubbles(x, after) : Sound(x, after, h)
    BY <1>4, <1>6
<1>8. ASSUME NEW g \in ReadBubbles(x, after), NEW h \in ReadBubbles(x, after),
             Counted({g}) \cap Counted({h}) # {}
      PROVE  g.last = h.last /\ g.counts = h.counts
    <2>1. PICK e \in read : g \in Row(e)
        BY <1>6
    <2>2. PICK f \in read : h \in Row(f)
        BY <1>6
    <2>3. e = f
        BY <1>4, <1>8, <2>1, <2>2
    <2> QED
        BY <1>4, <2>1, <2>2, <2>3
<1>9. ASSUME NEW e \in read
      PROVE  e \in Counted(ReadBubbles(x, after))
    <2>1. Row(e) \subseteq ReadBubbles(x, after)
        BY <1>5
    <2> QED
        BY <1>4, <2>1, CountedGrows
<1> QED
    BY <1>3, <1>7, <1>8, <1>9 DEF ReadFits, OfOne

\* Whatever its format, a transcript that is read from a mark on yields
\* heartbeats that count what is to be counted, and nothing before the mark
\* unless it counts the session as a whole.
LEMMA ReadFromFits ==
    ASSUME Readable, NEW x \in Transcripts, NEW after \in Nat, x \notin over
    PROVE  ReadFits(x, after, ReadFrom(x, after))
<1>1. kind[x] \in Formats
    BY DEF Readable, ScanTypes
<1>2. CASE Skipped(x, after)
    <2>1. ReadFrom(x, after) = {}
        BY <1>2 DEF ReadFrom
    <2>2. mtime[x] < after /\ mtime[x] \in Nat
        BY <1>2 DEF Skipped, Readable, ScanTypes
    <2>3. \A e \in EntriesIn(x) : ~Wanted(x, after, e)
        <3> SUFFICES ASSUME NEW e \in EntriesIn(x), Wanted(x, after, e) PROVE FALSE
            OBVIOUS
        <3>1. Time(x, e) >= after /\ Time(x, e) \in Nat /\ Time(x, e) <= mtime[x]
            BY WantedIs
        <3> QED
            BY <2>2, <3>1
    <2> QED
        BY <2>1, <2>3 DEF ReadFits
<1>3. CASE ~Skipped(x, after)
    <2>1. CASE kind[x] \in {"lines", "calls"}
        BY <1>3, <2>1, LinesFit DEF ReadFrom
    <2>2. CASE kind[x] = "continue"
        BY <1>3, <2>2, ContinueFits DEF ReadFrom
    <2>3. CASE kind[x] = "kiro"
        BY <1>3, <2>3, KiroFits DEF ReadFrom
    <2>4. CASE kind[x] = "document"
        BY <1>3, <2>4, DocumentFits DEF ReadFrom
    <2>5. CASE kind[x] = "bubbles"
        BY <1>3, <2>5, BubblesFit DEF ReadFrom
    <2>6. CASE kind[x] = "messages"
        BY <1>3, <2>6, MessagesFit DEF ReadFrom
    <2>7. CASE kind[x] = "totals"
        BY <1>3, <2>7, TotalsFit DEF ReadFrom
    <2>8. CASE kind[x] = "chats"
        BY <1>3, <2>8, ChatsFit DEF ReadFrom
    <2> QED
        BY <1>1, <2>1, <2>2, <2>3, <2>4, <2>5, <2>6, <2>7, <2>8 DEF Formats, Databases
<1> QED
    BY <1>2, <1>3

\* Of heartbeats that differ in the session's name only, one is sent.
LEMMA OneNameFits ==
    ASSUME NEW x \in Transcripts, NEW after \in Nat, NEW H, ReadFits(x, after, H),
           NEW found \in OneName(H)
    PROVE  /\ \A h \in found : Sound(x, after, h)
           /\ \A g, h \in found : kind[x] \notin Wholly /\ Counted({g}) \cap Counted({h}) # {} => g = h
           /\ \A e \in EntriesIn(x) : Wanted(x, after, e) => e \in Counted(found)
<1>1. /\ found \subseteq H
      /\ \A h \in H : \E g \in found : g.last = h.last /\ g.counts = h.counts
      /\ \A g, h \in found : g.last = h.last /\ g.counts = h.counts => g = h
    BY DEF OneName
<1>2. ASSUME NEW e \in Counted(H)
      PROVE  e \in Counted(found)
    <2>1. PICK h \in H : e \in Counted({h})
        BY CountedIs
    <2>2. PICK g \in found : g.counts = h.counts
        BY <1>1
    <2>3. e \in Counted({g})
        BY <2>1, <2>2, CountedIs
    <2> QED
        BY <2>3, CountedIs
<1> QED
    BY <1>1, <1>2 DEF ReadFits, OfOne

-----------------------------------------------------------------------------
(* Steps that write nothing into a transcript *)

LEMMA InvIsReadable == ScanInv => Readable
BY DEF ScanInv, Readable

\* The transcripts stay as they are, while time may pass.
SameTranscripts ==
    /\ UNCHANGED <<kind, names, entries, mtime>>
    /\ now' \in Nat /\ now <= now'

LEMMA EntriesStay ==
    ASSUME ScanInv, SameTranscripts
    PROVE  /\ now' >= 2 * Second - 1
           /\ \A x \in Transcripts : mtime'[x] <= now'
           /\ \A e \in DOMAIN entries' : EntryFits(e)'
           /\ \A h \in Heartbeat : HeartbeatFits(h) => HeartbeatFits(h)'
           /\ \A e \in DOMAIN entries : Claimed(e)' <=> Claimed(e)
           /\ \A e \in DOMAIN entries : \A m : Passed(entries[e], m)' <=> Passed(entries[e], m)
<1>1. ScanTypes /\ now \in Nat /\ now' \in Nat /\ now <= now' /\ Second \in Nat
    BY BoundsAre DEF ScanInv, ScanTypes, SameTranscripts
<1>2. kind' = kind /\ entries' = entries /\ mtime' = mtime /\ names' = names
    BY DEF SameTranscripts
<1>3. ASSUME NEW x \in Transcripts
      PROVE  mtime'[x] <= now'
    <2>1. mtime[x] \in Nat /\ mtime[x] <= now
        BY <1>1 DEF ScanInv, ScanTypes
    <2> QED
        BY <1>1, <1>2, <2>1
<1>4. ASSUME NEW e \in DOMAIN entries
      PROVE  EntryFits(e)'
    <2>1. EntryFits(e) /\ entries[e].in \in Transcripts
        BY <1>1, EntryIs DEF ScanInv
    <2>2. mtime'[entries[e].in] <= now'
        BY <1>3, <2>1
    <2> QED
        BY <1>2, <2>1, <2>2 DEF EntryFits, Roles
<1>5. ASSUME NEW h \in Heartbeat, HeartbeatFits(h)
      PROVE  HeartbeatFits(h)'
    <2>1. h.last \in Nat /\ h.last <= now
        BY <1>5 DEF HeartbeatFits, Heartbeat
    <2>2. h.last <= now'
        BY <1>1, <2>1
    <2> QED
        BY <1>2, <1>5, <2>2 DEF HeartbeatFits
<1>6. ASSUME NEW e \in DOMAIN entries
      PROVE  Claimed(e)' <=> Claimed(e)
    BY <1>2 DEF Claimed, Countable, Oldest, Newest, EntriesIn
<1>7. ASSUME NEW e \in DOMAIN entries, NEW m
      PROVE  Passed(entries[e], m)' <=> Passed(entries[e], m)
    BY <1>2 DEF Passed
<1>8. now' >= 2 * Second - 1
    BY <1>1 DEF ScanInv
<1> QED
    BY <1>2, <1>3, <1>4, <1>5, <1>6, <1>7, <1>8

\* A scan of which nothing changed but whether it is alone.
SameScan(s) ==
    /\ scan'[s].at = scan[s].at /\ scan'[s].after = scan[s].after /\ scan'[s].todo = scan[s].todo
    /\ scan'[s].found = scan[s].found /\ scan'[s].unseen = scan[s].unseen

LEMMA ScanStays ==
    ASSUME ScanInv, SameTranscripts, NEW s \in Busy, SameScan(s),
           sent \subseteq sent', behind \subseteq behind'
    PROVE  ScanFits(s)' /\ ScanCounts(s)'
<1>1. ScanFits(s) /\ ScanCounts(s) /\ s \in Scans
    BY DEF ScanInv, Busy
<1>2. kind' = kind /\ entries' = entries
    BY DEF SameTranscripts
<1>3. scan[s].found \subseteq Heartbeat /\ scan[s].after \in Nat /\ now \in Nat /\ now' \in Nat /\ now <= now'
    BY <1>1, BoundsAre DEF ScanInv, ScanTypes, ScanState, SameTranscripts
<1>4. \A h \in scan[s].found : HeartbeatFits(h)'
    BY <1>1, <1>3, EntriesStay DEF ScanFits
<1>5. scan'[s].after <= now'
    BY <1>1, <1>3 DEF ScanFits, SameScan
<1>6. ScanFits(s)'
    BY <1>1, <1>2, <1>4, <1>5 DEF ScanFits, SameScan
<1>7. ScanCounts(s)'
    <2> SUFFICES ASSUME NEW e \in DOMAIN entries, Claimed(e)'
                 PROVE  \/ e \in scan'[s].unseen
                        \/ Covered(e)'
                        \/ /\ ~Passed(entries[e], scan[s].after)'
                           /\ \/ scan'[s].at = "read" /\ entries'[e].in \in scan'[s].todo
                              \/ scan'[s].at \in {"read", "send"} /\ e \in Counted(scan'[s].found)
        BY <1>2 DEF ScanCounts
    <2>1. Claimed(e)
        BY EntriesStay
    <2>2. Covered(e) => Covered(e)'
        BY CountedGrows DEF Covered
    <2>3. ~Passed(entries[e], scan[s].after) => ~Passed(entries[e], scan[s].after)'
        <3>1. PICK a : a = scan[s].after
            OBVIOUS
        <3>2. scan'[s].after = a
            BY <3>1 DEF SameScan
        <3>3. Passed(entries[e], a)' <=> Passed(entries[e], a)
            BY EntriesStay
        <3> QED
            BY <3>1, <3>2, <3>3
    <2> QED
        BY <1>1, <1>2, <2>1, <2>2, <2>3 DEF ScanCounts, SameScan
<1> QED
    BY <1>6, <1>7

\* A step that stores nothing and leaves the mark, and changes only the scans
\* of P: what those were recording is loose.
LEMMA QuietStep ==
    ASSUME ScanInv, ScanTypes', SameTranscripts, UNCHANGED <<mark, sent>>,
           behind \subseteq behind', loose \subseteq loose', NEW P, P \subseteq Scans,
           \A q \in Scans \ P : SameScan(q) /\ (scan'[q].alone => scan[q].alone),
           \A p \in P \cap Busy' :
                /\ ScanFits(p)' /\ ScanCounts(p)'
                /\ \A q \in Busy' : q # p => ~scan'[p].alone /\ ~scan'[q].alone
                /\ (p \in Busy /\ scan'[p].after = scan[p].after) \/ mark <= scan'[p].after,
           \A p \in P : scan[p].at = "record" => Counted(scan[p].found) \subseteq loose'
    PROVE  ScanInv'
<1>1. ScanTypes /\ ScanTypes' /\ kind' = kind /\ entries' = entries /\ mark' = mark /\ sent' = sent
    BY DEF ScanInv, SameTranscripts
<1>2. ASSUME NEW q \in Busy', q \notin P
      PROVE  q \in Busy /\ SameScan(q) /\ (scan'[q].alone => scan[q].alone)
    BY <1>2 DEF Busy, SameScan
<1>3. ASSUME NEW q \in Busy'
      PROVE  ScanFits(q)' /\ ScanCounts(q)'
    <2>1. CASE q \in P
        BY <2>1
    <2>2. CASE q \notin P
        BY <1>1, <1>2, <2>2, ScanStays
    <2> QED
        BY <2>1, <2>2
<1>4. ASSUME NEW q \in Busy', NEW r \in Busy', q # r
      PROVE  ~scan'[q].alone
    <2>1. CASE q \in P \/ r \in P
        BY <1>4, <2>1
    <2>2. CASE q \notin P /\ r \notin P
        BY <1>2, <1>4, <2>2 DEF ScanInv
    <2> QED
        BY <2>1, <2>2
<1>5. \A h \in sent' : HeartbeatFits(h)'
    BY <1>1, EntriesStay DEF ScanInv, ScanTypes
<1>6. ASSUME NEW e \in DOMAIN entries', Claimed(e)', Passed(entries[e], mark)'
      PROVE  Covered(e)'
    <2>1. PICK m : m = mark /\ m = mark'
        BY <1>1
    <2>2. Claimed(e) /\ Passed(entries[e], m)
        BY <1>1, <1>6, <2>1, EntriesStay
    <2> QED
        BY <1>1, <2>1, <2>2 DEF ScanInv, Covered
<1>7. ASSUME NEW h \in sent', NEW e \in Counted({h}) \ loose',
             kind'[h.in] \notin Wholly, entries'[e].time # None
      PROVE  MarkedOff(h)'
    <2>1. h \in sent /\ e \in Counted({h}) \ loose /\ MarkedOff(h)
        BY <1>1, <1>7 DEF ScanInv
    <2>2. h.last \in Nat /\ mark \in Nat
        BY <1>1, <2>1 DEF ScanTypes, Heartbeat
    <2>3. CASE Floor(h.last) <= mark /\ \A s \in Busy : Floor(h.last) <= scan[s].after
        <3>1. ASSUME NEW q \in Busy'
              PROVE  Floor(h.last) <= scan'[q].after
            <4>1. CASE q \notin P
                BY <1>2, <2>3, <4>1 DEF SameScan
            <4>2. CASE q \in Busy /\ scan'[q].after = scan[q].after
                BY <2>3, <4>2
            <4>3. CASE mark <= scan'[q].after
                <5>1. scan' \in [Scans -> ScanState] /\ q \in Scans
                    BY <1>1 DEF ScanTypes, Busy
                <5>2. scan'[q].after \in Nat
                    BY <5>1, BoundsAre DEF ScanState
                <5>3. Floor(h.last) \in Nat
                    BY <2>2, FloorIs
                <5> QED
                    BY <2>2, <2>3, <4>3, <5>2, <5>3
            <4> QED
                BY <4>1, <4>2, <4>3
        <3> QED
            BY <1>1, <2>3, <3>1 DEF MarkedOff
    <2>4. CASE \E r \in Busy : scan[r].at = "record" /\ h \in scan[r].found
        <3>1. PICK r \in Busy : scan[r].at = "record" /\ h \in scan[r].found
            BY <2>4
        <3>2. r \notin P
            <4>1. e \in Counted(scan[r].found)
                BY <1>7, <3>1, CountedIs
            <4> QED
                BY <1>7, <3>1, <4>1
        <3>3. r \in Busy' /\ scan'[r].at = "record" /\ h \in scan'[r].found
            BY <3>1, <3>2 DEF Busy, SameScan
        <3> QED
            BY <3>3 DEF MarkedOff
    <2> QED
        BY <2>1, <2>3, <2>4 DEF MarkedOff
<1>8. RecountedInItsSecond'
    <2>1. RecountedInItsSecond
        BY DEF ScanInv
    <2> QED
        BY <1>1, <2>1 DEF RecountedInItsSecond
<1> QED
    BY <1>1, <1>3, <1>4, <1>5, <1>6, <1>7, <1>8, EntriesStay DEF ScanInv

LEMMA TickQuiet == ScanInv /\ Tick => ScanInv'
<1> SUFFICES ASSUME ScanInv, Tick PROVE ScanInv'
    OBVIOUS
<1>1. /\ now < MaxTime /\ now' = now + 1
      /\ UNCHANGED <<kind, names, entries, mtime, torn, over, mark, scan, sent, stops, behind, loose>>
    BY DEF Tick
<1>2. now \in 1 .. MaxTime /\ mark \in 0 .. now /\ MaxTime \in Nat
    BY BoundsAre DEF ScanInv, ScanTypes
<1>3. now' \in 1 .. MaxTime /\ mark' \in 0 .. now' /\ SameTranscripts
    BY <1>1, <1>2 DEF SameTranscripts
<1>4. ScanTypes'
    BY <1>1, <1>3 DEF ScanInv, ScanTypes
<1> QED
    <2>1. \A q \in Scans \ {} : SameScan(q) /\ (scan'[q].alone => scan[q].alone)
        BY <1>1 DEF SameScan
    <2>2. {} \subseteq Scans /\ (\A p \in {} \cap Busy' : FALSE) /\ \A p \in {} : FALSE
        OBVIOUS
    <2> QED
        BY <1>1, <1>3, <1>4, <2>1, <2>2, QuietStep

LEMMA MendQuiet == ScanInv /\ (\E x \in Transcripts : Mend(x)) => ScanInv'
<1> SUFFICES ASSUME ScanInv, NEW x \in Transcripts, Mend(x) PROVE ScanInv'
    OBVIOUS
<1>1. /\ torn' = torn \ {x}
      /\ UNCHANGED <<kind, names, entries, mtime, over, now, mark, scan, sent, stops, behind, loose>>
    BY DEF Mend
<1>2. SameTranscripts
    BY <1>1, BoundsAre DEF SameTranscripts, ScanInv, ScanTypes
<1>3. ScanTypes'
    BY <1>1 DEF ScanInv, ScanTypes
<1> QED
    <2>1. \A q \in Scans \ {} : SameScan(q) /\ (scan'[q].alone => scan[q].alone)
        BY <1>1 DEF SameScan
    <2>2. {} \subseteq Scans /\ (\A p \in {} \cap Busy' : FALSE) /\ \A p \in {} : FALSE
        OBVIOUS
    <2> QED
        BY <1>1, <1>2, <1>3, <2>1, <2>2, QuietStep

LEMMA OutgrowQuiet == ScanInv /\ (\E x \in Transcripts : Outgrow(x)) => ScanInv'
<1> SUFFICES ASSUME ScanInv, NEW x \in Transcripts, Outgrow(x) PROVE ScanInv'
    OBVIOUS
<1>1. /\ kind[x] \notin Databases /\ over' \subseteq over \cup {x}
      /\ UNCHANGED <<kind, names, entries, mtime, torn, now, mark, scan, sent, stops, behind, loose>>
    BY DEF Outgrow
<1>2. SameTranscripts
    BY <1>1, BoundsAre DEF SameTranscripts, ScanInv, ScanTypes
<1>3. ScanTypes'
    BY <1>1 DEF ScanInv, ScanTypes
<1> QED
    <2>1. \A q \in Scans \ {} : SameScan(q) /\ (scan'[q].alone => scan[q].alone)
        BY <1>1 DEF SameScan
    <2>2. {} \subseteq Scans /\ (\A p \in {} \cap Busy' : FALSE) /\ \A p \in {} : FALSE
        OBVIOUS
    <2> QED
        BY <1>1, <1>2, <1>3, <2>1, <2>2, QuietStep

\* Where a scan starts: at the mark, or without one at a time it goes back to.
LEMMA AfterIs ==
    ASSUME ScanTypes
    PROVE  /\ After \in Nat /\ After <= now /\ mark <= After
           /\ mark = None \/ After = mark
BY BoundsAre DEF ScanTypes, After, None

LEMMA StartQuiet == ScanInv /\ (\E s \in Scans : StartScan(s)) => ScanInv'
<1> SUFFICES ASSUME ScanInv, NEW s \in Scans, StartScan(s) PROVE ScanInv'
    OBVIOUS
<1>1. /\ s \notin Busy
      /\ UNCHANGED <<kind, names, entries, mtime, torn, over, now, mark, sent, stops, loose>>
      /\ behind' = behind \cup {e \in DOMAIN entries :
            mark = None /\ (Time(entries[e].in, e) < After \/ Passed(entries[e], After))}
    BY DEF StartScan
<1>2. PICK new : new = [NoScan EXCEPT !.at = "read", !.after = After, !.todo = Transcripts,
                                      !.alone = (Busy = {})]
    OBVIOUS
<1>3. scan' = [q \in Scans |-> IF q = s THEN new ELSE [scan[q] EXCEPT !.alone = FALSE]]
    BY <1>2 DEF StartScan
<1>4. ScanTypes /\ now \in Nat /\ MaxTime \in Nat
    BY BoundsAre DEF ScanInv, ScanTypes
<1>5. /\ new.at = "read" /\ new.after = After /\ new.todo = Transcripts /\ new.found = {}
      /\ new.unseen = {} /\ new.alone = (Busy = {}) /\ new \in ScanState
    <2>1. After \in 0 .. MaxTime
        <3>1. now <= MaxTime
            BY DEF ScanInv, ScanTypes
        <3> QED
            BY <1>4, <3>1, AfterIs
    <2> QED
        BY <1>2, <2>1 DEF NoScan, ScanState
<1>6. \A q \in Scans \ {s} : /\ scan'[q] = [scan[q] EXCEPT !.alone = FALSE]
                             /\ scan[q] \in ScanState /\ scan'[q].alone = FALSE
    BY <1>3, <1>4 DEF ScanTypes, ScanState
<1>7. scan' \in [Scans -> ScanState]
    <2>1. \A q \in Scans : (IF q = s THEN new ELSE [scan[q] EXCEPT !.alone = FALSE]) \in ScanState
        BY <1>4, <1>5 DEF ScanTypes, ScanState
    <2> QED
        BY <1>3, <2>1
<1>8. ScanTypes'
    BY <1>1, <1>4, <1>7 DEF ScanTypes
<1>9. SameTranscripts
    BY <1>1, <1>4 DEF SameTranscripts
<1>10. scan'[s] = new
    BY <1>3
<1>11. ScanFits(s)'
    <2>1. Transcripts # {}
        BY TranscriptsAssumption
    <2>2. After <= now' /\ {} \subseteq DOMAIN entries'
        BY <1>1, <1>4, AfterIs
    <2> QED
        BY <1>5, <1>10, <2>1, <2>2 DEF ScanFits
<1>12. ScanCounts(s)'
    <2>2. PICK a : a = After
        OBVIOUS
    <2>5. scan'[s].after = a /\ scan'[s].at = "read" /\ scan'[s].todo = Transcripts
        BY <1>5, <1>10, <2>2
    <2> SUFFICES ASSUME NEW e \in DOMAIN entries, Claimed(e)'
                 PROVE  \/ Covered(e)'
                        \/ ~Passed(entries[e], a)' /\ entries[e].in \in Transcripts
        BY <1>1, <2>5 DEF ScanCounts
    <2>1. Claimed(e) /\ entries[e].in \in Transcripts
        BY <1>4, <1>9, EntryIs, EntriesStay
    <2>3. CASE Passed(entries[e], a)
        <3>1. CASE mark = None
            <4>1. e \in behind'
                BY <1>1, <2>2, <2>3, <3>1
            <4> QED
                BY <4>1 DEF Covered
        <3>2. CASE mark # None
            <4>1. a = mark
                BY <1>4, <2>2, <3>2, AfterIs
            <4>2. Covered(e)
                BY <2>1, <2>3, <4>1 DEF ScanInv
            <4> QED
                BY <1>1, <4>2 DEF Covered
        <3> QED
            BY <3>1, <3>2
    <2>4. CASE ~Passed(entries[e], a)
        <3>1. ~Passed(entries[e], a)'
            BY <1>9, <2>4, EntriesStay
        <3> QED
            BY <2>1, <3>1
    <2> QED
        BY <2>3, <2>4
<1>13. ASSUME NEW q \in Busy', q # s
       PROVE  ~scan'[s].alone /\ ~scan'[q].alone
    <2>1. q \in Scans /\ scan'[q].at # "idle"
        BY DEF Busy
    <2>2. scan'[q].at = scan[q].at /\ ~scan'[q].alone
        <3>1. /\ scan'[q] = [scan[q] EXCEPT !.alone = FALSE] /\ scan[q] \in ScanState
              /\ scan'[q].alone = FALSE
            BY <1>6, <1>13, <2>1
        <3>2. scan'[q].at = scan[q].at
            BY <3>1 DEF ScanState
        <3> QED
            BY <3>1, <3>2
    <2>3. q \in Busy
        BY <2>1, <2>2 DEF Busy
    <2> QED
        BY <1>5, <1>10, <2>2, <2>3
<1>14. \A q \in Scans \ {s} : SameScan(q) /\ (scan'[q].alone => scan[q].alone)
    BY <1>6 DEF SameScan, ScanState
<1>15. mark <= scan'[s].after
    BY <1>4, <1>5, <1>10, AfterIs
<1>16. scan[s].at # "record"
    BY <1>1 DEF Busy
<1> QED
    <2>1. PICK P : P = {s}
        OBVIOUS
    <2>2. behind \subseteq behind' /\ loose \subseteq loose' /\ UNCHANGED <<mark, sent>>
        BY <1>1
    <2>3. \A p \in P \cap Busy' :
                /\ ScanFits(p)' /\ ScanCounts(p)'
                /\ \A q \in Busy' : q # p => ~scan'[p].alone /\ ~scan'[q].alone
                /\ (p \in Busy /\ scan'[p].after = scan[p].after) \/ mark <= scan'[p].after
        BY <1>11, <1>12, <1>13, <1>15, <2>1
    <2>4. \A p \in P : scan[p].at = "record" => Counted(scan[p].found) \subseteq loose'
        BY <1>16, <2>1
    <2>5. P \subseteq Scans
        BY <2>1
    <2>6. \A q \in Scans \ P : SameScan(q) /\ (scan'[q].alone => scan[q].alone)
        BY <1>14, <2>1
    <2> QED
        BY <1>8, <1>9, <2>2, <2>3, <2>4, <2>5, <2>6, QuietStep

\* A step of one scan that goes on with its mark, or ends.
LEMMA ScanQuiet ==
    ASSUME ScanInv, NEW s \in Scans, NEW new \in ScanState, scan' = [scan EXCEPT ![s] = new],
           s \in Busy, scan[s].at = "record" => Counted(scan[s].found) \subseteq loose',
           UNCHANGED <<kind, names, entries, mtime, torn, over, now, mark, sent, behind>>,
           loose \subseteq loose', loose' \subseteq DOMAIN entries, stops' \in 0 .. MaxStops,
           new.at = "idle" \/ (/\ ScanFits(s)' /\ ScanCounts(s)' /\ new.after = scan[s].after
                               /\ new.alone = scan[s].alone)
    PROVE  ScanInv'
<1>1. ScanTypes /\ now \in Nat /\ scan \in [Scans -> ScanState]
    <2>1. ScanTypes
        BY DEF ScanInv
    <2>2. now \in 1 .. MaxTime /\ scan \in [Scans -> ScanState]
        BY <2>1 DEF ScanTypes
    <2> QED
        BY <2>1, <2>2, BoundsAre
<1>2. scan' \in [Scans -> ScanState] /\ scan'[s] = new /\ \A q \in Scans \ {s} : scan'[q] = scan[q]
    BY <1>1
<1>3. ScanTypes'
    BY <1>1, <1>2 DEF ScanTypes
<1>4. SameTranscripts
    BY <1>1 DEF SameTranscripts
<1>5. PICK P : P = {s}
    OBVIOUS
<1>6. \A q \in Scans \ P : SameScan(q) /\ (scan'[q].alone => scan[q].alone)
    BY <1>2, <1>5 DEF SameScan
<1>7. ASSUME s \in Busy'
      PROVE  /\ ScanFits(s)' /\ ScanCounts(s)' /\ scan'[s].after = scan[s].after
             /\ \A q \in Busy' : q # s => ~scan'[s].alone /\ ~scan'[q].alone
    <2>1. new.at # "idle"
        BY <1>2, <1>7 DEF Busy
    <2>2. ASSUME NEW q \in Busy', q # s
          PROVE  ~scan'[s].alone /\ ~scan'[q].alone
        <3>1. q \in Busy /\ scan'[q] = scan[q]
            BY <1>2, <2>2 DEF Busy
        <3> QED
            BY <1>2, <2>1, <2>2, <3>1 DEF ScanInv
    <2> QED
        BY <1>2, <2>1, <2>2
<1>8. \A p \in P \cap Busy' :
                /\ ScanFits(p)' /\ ScanCounts(p)'
                /\ \A q \in Busy' : q # p => ~scan'[p].alone /\ ~scan'[q].alone
                /\ (p \in Busy /\ scan'[p].after = scan[p].after) \/ mark <= scan'[p].after
    BY <1>5, <1>7
<1>9. \A p \in P : scan[p].at = "record" => Counted(scan[p].found) \subseteq loose'
    BY <1>5
<1>10. P \subseteq Scans
    BY <1>5
<1>11. behind \subseteq behind' /\ UNCHANGED <<mark, sent>>
    OBVIOUS
<1> QED
    BY <1>3, <1>4, <1>6, <1>8, <1>9, <1>10, <1>11, QuietStep

LEMMA FirstIs ==
    ASSUME NEW todo, todo \subseteq Transcripts, todo # {}
    PROVE  First(todo) \in todo
<1> DEFINE files == {x \in todo : kind[x] \notin Databases}
<1>1. files \subseteq Nat /\ files \subseteq todo /\ todo \subseteq Nat
    BY BoundsAre
<1> QED
    BY <1>1, LeastIsMin DEF First

LEMMA ReadQuiet == ScanInv /\ (\E s \in Scans : ReadTranscript(s)) => ScanInv'
<1> SUFFICES ASSUME ScanInv, NEW s \in Scans, ReadTranscript(s) PROVE ScanInv'
    OBVIOUS
<1>1. /\ scan[s].at = "read"
      /\ UNCHANGED <<kind, names, entries, mtime, torn, over, now, mark, sent, stops, behind, loose>>
    BY DEF ReadTranscript
<1>2. ScanTypes /\ scan[s] \in ScanState /\ now \in Nat /\ Readable
    <2>1. ScanTypes
        BY DEF ScanInv
    <2>2. scan[s] \in ScanState /\ now \in Nat
        BY <2>1, BoundsAre DEF ScanTypes
    <2> QED
        BY <2>1, <2>2, InvIsReadable
<1>3. s \in Busy /\ ScanFits(s) /\ ScanCounts(s)
    BY <1>1 DEF Busy, ScanInv
<1>4. PICK x, rest, after : x = First(scan[s].todo) /\ rest = scan[s].todo \ {x} /\ after = scan[s].after
    OBVIOUS
<1>5. /\ scan[s].todo \subseteq Transcripts /\ scan[s].todo # {} /\ after \in Nat /\ after <= now
      /\ scan[s].found \subseteq Heartbeat
    BY <1>1, <1>2, <1>3, <1>4 DEF ScanState, ScanFits
<1>6. x \in scan[s].todo /\ x \in Transcripts
    BY <1>4, <1>5, FirstIs
<1>7. NoScan \in ScanState /\ NoScan.at = "idle"
    BY BoundsAre DEF NoScan, ScanState
<1>8. /\ stops' \in 0 .. MaxStops /\ loose \subseteq loose' /\ loose' \subseteq DOMAIN entries
      /\ UNCHANGED <<kind, names, entries, mtime, torn, over, now, mark, sent, behind>>
    BY <1>1, <1>2 DEF ScanTypes
<1>9. CASE scan' = [scan EXCEPT ![s] = NoScan]
    BY <1>1, <1>3, <1>7, <1>8, <1>9, ScanQuiet
<1>10. CASE scan' # [scan EXCEPT ![s] = NoScan]
    <2>0. PICK unseen : unseen = scan[s].unseen \cup IF x \in over THEN EntriesIn(x) ELSE {}
        OBVIOUS
    <2>1. PICK found \in OneName(ReadFrom(x, after)) :
            scan' = [scan EXCEPT ![s] =
                        IF rest # {} THEN [@ EXCEPT !.todo = rest, !.found = scan[s].found \cup found,
                                                    !.unseen = unseen]
                        ELSE IF scan[s].found \cup found = {} THEN NoScan
                        ELSE [@ EXCEPT !.at = "send", !.todo = {}, !.found = scan[s].found \cup found,
                                       !.unseen = unseen]]
        BY <1>4, <1>10, <2>0 DEF ReadTranscript
    <2>2. PICK all : all = scan[s].found \cup found
        OBVIOUS
    <2>3. PICK new : new = IF rest # {} THEN [scan[s] EXCEPT !.todo = rest, !.found = all, !.unseen = unseen]
                           ELSE [scan[s] EXCEPT !.at = "send", !.todo = {}, !.found = all, !.unseen = unseen]
        OBVIOUS
    <2>4. scan \in [Scans -> ScanState]
        BY <1>2 DEF ScanTypes
    <2>5. /\ \A h \in found : Sound(x, after, h)
          /\ \A g, h \in found : kind[x] \notin Wholly /\ Counted({g}) \cap Counted({h}) # {} => g = h
          /\ \A e \in EntriesIn(x) : Wanted(x, after, e) => e \in unseen \/ e \in Counted(found)
        <3>1. CASE x \notin over
            BY <1>2, <1>5, <1>6, <3>1, ReadFromFits, OneNameFits
        <3>2. CASE x \in over
            <4>1. ReadFrom(x, after) = {}
                BY <3>2 DEF ReadFrom, Skipped
            <4>2. found = {} /\ EntriesIn(x) \subseteq unseen
                BY <2>0, <3>2, <4>1 DEF OneName
            <4> QED
                BY <4>2
        <3> QED
            BY <3>1, <3>2
    <2>5a. scan[s].unseen \subseteq unseen /\ unseen \subseteq DOMAIN entries
        BY <1>3, <2>0 DEF ScanFits, EntriesIn
    <2>5b. unseen \in SUBSET (1 .. MaxEntries)
        BY <1>2, <2>5a, EntryIs
    <2>6. all \subseteq Heartbeat
        BY <1>5, <2>2, <2>5 DEF Sound
    <2>7. /\ scan' = [scan EXCEPT ![s] = new]
          /\ rest = {} => all # {}
        BY <1>10, <2>1, <2>2, <2>3, <2>4
    <2>8. /\ new \in ScanState /\ new.after = after /\ new.todo = rest /\ new.found = all
          /\ new.unseen = unseen /\ new.alone = scan[s].alone
          /\ new.at = IF rest # {} THEN "read" ELSE "send"
        BY <1>1, <1>2, <1>4, <1>5, <2>3, <2>5b, <2>6 DEF ScanState
    <2>9. scan'[s] = new
        BY <2>4, <2>7
    <2>10. ASSUME NEW h \in all
           PROVE  /\ HeartbeatFits(h) /\ after <= h.last /\ h.in \notin rest
                  /\ \A e \in Counted({h}) :
                        kind[h.in] \notin Wholly /\ entries[e].time # None => after <= entries[e].time
        <3>1. CASE h \in scan[s].found
            BY <1>3, <1>4, <3>1 DEF ScanFits
        <3>2. CASE h \in found
            BY <1>4, <2>5, <3>2 DEF Sound
        <3> QED
            BY <2>2, <3>1, <3>2
    <2>11. ASSUME NEW g \in all, NEW h \in all,
                  g.in = h.in, kind[g.in] \notin Wholly, Counted({g}) \cap Counted({h}) # {}
           PROVE  g = h
        <3>1. CASE g \in scan[s].found /\ h \in scan[s].found
            BY <1>3, <2>11, <3>1 DEF ScanFits
        <3>2. CASE g \in found /\ h \in found
            BY <2>5, <2>11, <3>2 DEF Sound
        <3>3. \A f \in scan[s].found : f.in # x
            BY <1>3, <1>6 DEF ScanFits
        <3>4. \A f \in found : f.in = x
            BY <2>5 DEF Sound
        <3> QED
            BY <2>2, <2>11, <3>1, <3>2, <3>3, <3>4
    <2>12. SameTranscripts
        BY <1>2, <1>8 DEF SameTranscripts
    <2>13. \A h \in all : HeartbeatFits(h)'
        BY <2>6, <2>10, <2>12, EntriesStay
    <2>14. ScanFits(s)'
        <3>1. scan'[s].at = "read" => scan'[s].todo # {}
            BY <2>8, <2>9
        <3>2. scan'[s].at \in {"send", "record"} => scan'[s].todo = {} /\ scan'[s].found # {}
            BY <2>7, <2>8, <2>9
        <3>3. scan'[s].after <= now' /\ scan'[s].unseen \subseteq DOMAIN entries'
            BY <1>3, <1>5, <1>8, <2>5a, <2>8, <2>9 DEF ScanFits
        <3> QED
            BY <1>8, <2>8, <2>9, <2>10, <2>11, <2>13, <3>1, <3>2, <3>3 DEF ScanFits
    <2>15. ScanCounts(s)'
        <3> SUFFICES ASSUME NEW e \in DOMAIN entries, Claimed(e)'
                     PROVE  \/ e \in unseen
                            \/ Covered(e)
                            \/ /\ ~Passed(entries[e], after)'
                               /\ e \in Counted(all) \/ (rest # {} /\ entries[e].in \in rest)
            BY <1>8, <2>8, <2>9 DEF ScanCounts, Covered
        <3>1. Claimed(e) /\ (Passed(entries[e], after)' <=> Passed(entries[e], after))
            BY <2>12, EntriesStay
        <3>2. CASE e \in scan[s].unseen \/ Covered(e)
            BY <2>5a, <3>2
        <3>3. CASE ~Passed(entries[e], after) /\ e \in Counted(scan[s].found)
            <4>1. e \in Counted(all)
                BY <2>2, <3>3, CountedGrows
            <4> QED
                BY <3>1, <3>3, <4>1
        <3>4. CASE ~Passed(entries[e], after) /\ entries[e].in \in scan[s].todo
            <4>1. CASE entries[e].in = x
                <5>1. e \in EntriesIn(x) /\ Wanted(x, after, e)
                    BY <3>1, <3>4, <4>1 DEF EntriesIn, Wanted
                <5>2. e \in unseen \/ e \in Counted(all)
                    BY <2>2, <2>5, <5>1, CountedGrows
                <5> QED
                    BY <3>1, <3>4, <5>2
            <4>2. CASE entries[e].in # x
                BY <1>4, <3>1, <3>4, <4>2
            <4> QED
                BY <4>1, <4>2
        <3> QED
            BY <1>3, <1>4, <3>1, <3>2, <3>3, <3>4 DEF ScanCounts
    <2> QED
        BY <1>1, <1>3, <1>4, <1>8, <2>7, <2>8, <2>14, <2>15, ScanQuiet
<1> QED
    BY <1>9, <1>10

\* Stopped while it reads or before it records, nothing is stored.
LEMMA StopQuiet ==
    ASSUME ScanInv, NEW s \in Scans, Stop(s), scan[s].at # "send"
    PROVE  ScanInv'
<1>1. /\ s \in Busy /\ stops < MaxStops /\ stops' = stops + 1 /\ scan' = [scan EXCEPT ![s] = NoScan]
      /\ UNCHANGED <<kind, names, entries, mtime, torn, over, now, mark, behind>>
      /\ UNCHANGED sent
      /\ loose' = IF scan[s].at = "record" THEN loose \cup Counted(scan[s].found) ELSE loose
    BY DEF Stop
<1>2. ScanTypes /\ stops' \in 0 .. MaxStops
    BY <1>1, BoundsAre DEF ScanInv, ScanTypes
<1>3. NoScan \in ScanState /\ NoScan.at = "idle"
    BY BoundsAre DEF NoScan, ScanState
<1>4. Counted(scan[s].found) \subseteq DOMAIN entries
    <2>1. \A h \in scan[s].found : HeartbeatFits(h)
        BY <1>1 DEF ScanInv, ScanFits
    <2> QED
        BY <2>1, CountedIs DEF HeartbeatFits
<1>5. /\ loose \subseteq loose' /\ loose' \subseteq DOMAIN entries
      /\ scan[s].at = "record" => Counted(scan[s].found) \subseteq loose'
    BY <1>1, <1>2, <1>4 DEF ScanTypes
<1> QED
    BY <1>1, <1>2, <1>3, <1>5, ScanQuiet

\* A scan stores heartbeats it has found, and goes on to record or ends.
LEMMA StoreStep ==
    ASSUME ScanInv, ScanTypes', NEW s \in Scans, scan[s].at = "send", NEW new \in SUBSET scan[s].found,
           UNCHANGED <<kind, names, entries, mtime, now, mark>>, sent' = sent \cup new,
           behind \subseteq behind', loose \subseteq loose',
           \A q \in Scans \ {s} : scan'[q] = scan[q],
           \/ scan'[s] = NoScan /\ Counted(new) \subseteq loose'
           \/ /\ scan'[s] = [scan[s] EXCEPT !.at = "record"]
              /\ ~scan[s].alone => Counted(scan[s].found) \subseteq loose'
              /\ Counted(scan[s].found) \subseteq Counted(sent') \cup behind'
    PROVE  ScanInv'
<1>1. /\ ScanTypes /\ now \in Nat /\ mark \in Nat /\ s \in Busy
      /\ kind' = kind /\ entries' = entries /\ mark' = mark /\ now' = now
    <2>1. ScanTypes
        BY DEF ScanInv
    <2>2. now \in Nat /\ mark \in Nat
        BY <2>1, BoundsAre DEF ScanTypes
    <2>3. s \in Busy
        BY DEF Busy
    <2> QED
        BY <2>1, <2>2, <2>3
<1>2. /\ scan[s] \in ScanState /\ scan[s].found \subseteq Heartbeat /\ scan[s].after \in Nat
      /\ ScanFits(s) /\ ScanCounts(s)
    BY <1>1, BoundsAre DEF ScanInv, ScanTypes, ScanState
<1>3. SameTranscripts
    BY <1>1 DEF SameTranscripts
<1>4. ASSUME NEW q \in Busy', q # s
      PROVE  q \in Busy /\ scan'[q] = scan[q]
    BY <1>4 DEF Busy
<1>5. ASSUME s \in Busy'
      PROVE  /\ scan'[s] = [scan[s] EXCEPT !.at = "record"]
             /\ ~scan[s].alone => Counted(scan[s].found) \subseteq loose'
             /\ Counted(scan[s].found) \subseteq Counted(sent') \cup behind'
             /\ scan'[s].at = "record" /\ scan'[s].after = scan[s].after
             /\ scan'[s].todo = scan[s].todo /\ scan'[s].found = scan[s].found
             /\ scan'[s].unseen = scan[s].unseen /\ scan'[s].alone = scan[s].alone
    <2>1. scan'[s] # NoScan
        BY <1>5 DEF Busy, NoScan
    <2> QED
        BY <1>2, <2>1 DEF ScanState
<1>6. \A h \in Heartbeat : HeartbeatFits(h) => HeartbeatFits(h)'
    BY <1>3, EntriesStay
<1>7. \A h \in scan[s].found : HeartbeatFits(h) /\ h \in Heartbeat
    BY <1>2 DEF ScanFits
<1>8. \A h \in sent' : HeartbeatFits(h)' /\ HeartbeatFits(h) /\ h \in Heartbeat
    BY <1>1, <1>6, <1>7 DEF ScanInv, ScanTypes
<1>9. ASSUME s \in Busy'
      PROVE  ScanFits(s)'
    BY <1>1, <1>2, <1>5, <1>6, <1>7, <1>9 DEF ScanFits
<1>10. ASSUME s \in Busy'
       PROVE  ScanCounts(s)'
    <2> SUFFICES ASSUME NEW e \in DOMAIN entries, Claimed(e)'
                 PROVE  e \in scan[s].unseen \/ Covered(e)'
        BY <1>1, <1>5, <1>10 DEF ScanCounts
    <2>1. Claimed(e)
        BY <1>3, EntriesStay
    <2>2. Covered(e) => Covered(e)'
        BY CountedGrows DEF Covered
    <2>3. e \in Counted(scan[s].found) => Covered(e)'
        BY <1>5, <1>10 DEF Covered
    <2> QED
        BY <1>2, <2>1, <2>2, <2>3 DEF ScanCounts
<1>11. ASSUME NEW q \in Busy'
       PROVE  ScanFits(q)' /\ ScanCounts(q)'
    <2>1. CASE q = s
        BY <1>9, <1>10, <1>11, <2>1
    <2>2. CASE q # s
        BY <1>3, <1>4, <2>2, ScanStays DEF SameScan
    <2> QED
        BY <2>1, <2>2
<1>12. ASSUME NEW q \in Busy', NEW r \in Busy', q # r
       PROVE  ~scan'[q].alone
    <2>1. q \in Busy /\ r \in Busy /\ scan'[q].alone = scan[q].alone
        BY <1>1, <1>4, <1>5
    <2> QED
        BY <1>12, <2>1 DEF ScanInv
<1>13. ASSUME NEW e \in DOMAIN entries', Claimed(e)', Passed(entries[e], mark)'
       PROVE  Covered(e)'
    <2>1. PICK m : m = mark /\ m = mark'
        BY <1>1
    <2>2. Claimed(e) /\ Passed(entries[e], m)
        BY <1>1, <1>3, <1>13, <2>1, EntriesStay
    <2>3. Covered(e)
        BY <2>1, <2>2 DEF ScanInv
    <2> QED
        BY <2>3, CountedGrows DEF Covered
<1>14. ASSUME NEW h \in sent', NEW e \in Counted({h}) \ loose',
              kind'[h.in] \notin Wholly, entries'[e].time # None
       PROVE  MarkedOff(h)'
    <2>1. CASE h \in sent
        <3>1. MarkedOff(h)
            BY <1>1, <1>14, <2>1 DEF ScanInv
        <3>2. CASE Floor(h.last) <= mark /\ \A q \in Busy : Floor(h.last) <= scan[q].after
            <4>1. \A q \in Busy' : Floor(h.last) <= scan'[q].after
                BY <1>1, <1>4, <1>5, <3>2
            <4> QED
                BY <1>1, <3>2, <4>1 DEF MarkedOff
        <3>3. CASE \E r \in Busy : scan[r].at = "record" /\ h \in scan[r].found
            <4>1. PICK r \in Busy : scan[r].at = "record" /\ h \in scan[r].found
                BY <3>3
            <4>2. scan'[r] = scan[r] /\ r \in Busy'
                BY <4>1 DEF Busy
            <4> QED
                BY <4>1, <4>2 DEF MarkedOff
        <3> QED
            BY <3>1, <3>2, <3>3 DEF MarkedOff
    <2>2. CASE h \in new
        <3>1. e \in Counted(new)
            BY <1>14, <2>2, CountedIs
        <3>2. scan'[s] = [scan[s] EXCEPT !.at = "record"]
            BY <1>14, <3>1
        <3>3. s \in Busy'
            BY <1>2, <3>2 DEF Busy, ScanState
        <3>4. scan'[s].at = "record" /\ h \in scan'[s].found
            BY <1>5, <2>2, <3>3
        <3> QED
            BY <3>3, <3>4 DEF MarkedOff
    <2> QED
        BY <1>14, <2>1, <2>2
<1>15. ASSUME NEW g \in sent, NEW h \in new, g.in = h.in,
              NEW e \in (Counted({g}) \cap Counted({h})) \ loose',
              kind[g.in] \notin Wholly, entries[e].time # None
       PROVE  /\ entries[e].time \in Nat /\ g.last \in Nat /\ h.last \in Nat
              /\ Floor(g.last) <= entries[e].time
              /\ entries[e].time <= g.last /\ entries[e].time <= h.last
    <2>1. g \in Heartbeat /\ h \in Heartbeat /\ HeartbeatFits(g) /\ HeartbeatFits(h)
        BY <1>1, <1>8
    <2>2. g.last \in Nat /\ h.last \in Nat
        BY <2>1 DEF Heartbeat
    <2>3. e \in DOMAIN entries /\ entries[e].time <= g.last /\ entries[e].time <= h.last
        BY <1>15, <2>1 DEF HeartbeatFits
    <2>4. entries[e].time \in Nat
        BY <1>1, <2>3, EntryIs
    <2>5. scan[s].after <= entries[e].time
        BY <1>2, <1>15 DEF ScanFits
    <2>6. scan[s].alone
        <3>1. e \in Counted(new) /\ e \in Counted(scan[s].found)
            BY <1>15, CountedIs
        <3> QED
            BY <1>15, <3>1
    <2>7. MarkedOff(g)
        BY <1>15 DEF ScanInv
    <2>8. \A r \in Busy : r = s
        BY <1>1, <2>6 DEF ScanInv
    <2>9. Floor(g.last) <= scan[s].after
        BY <1>1, <2>7, <2>8 DEF MarkedOff
    <2>10. Floor(g.last) \in Nat
        BY <2>2, FloorIs
    <2> QED
        BY <1>2, <2>2, <2>3, <2>4, <2>5, <2>9, <2>10
<1>16. RecountedInItsSecond'
    <2> SUFFICES ASSUME NEW g \in sent', NEW h \in sent', g # h, g.in = h.in, g.last <= h.last,
                        NEW e \in (Counted({g}) \cap Counted({h})) \ loose',
                        kind[g.in] \notin Wholly, entries[e].time # None
                 PROVE  entries[e].time \div Second = g.last \div Second
        BY <1>1 DEF RecountedInItsSecond, Wholly
    <2>1. CASE g \in sent /\ h \in sent
        BY <1>1, <2>1 DEF ScanInv, RecountedInItsSecond, Wholly
    <2>2. CASE g \in new /\ h \in new
        BY <1>2, <2>2 DEF ScanFits
    <2>3. CASE g \in sent /\ h \in new
        <3>1. /\ entries[e].time \in Nat /\ g.last \in Nat
              /\ Floor(g.last) <= entries[e].time /\ entries[e].time <= g.last
            BY <1>15, <2>3
        <3> QED
            BY <3>1, FloorIs
    <2>4. CASE g \in new /\ h \in sent
        <3>1. /\ entries[e].time \in Nat /\ g.last \in Nat /\ h.last \in Nat
              /\ Floor(h.last) <= entries[e].time /\ entries[e].time <= g.last
            BY <1>15, <2>4
        <3>2. Floor(g.last) <= Floor(h.last) /\ Floor(g.last) \in Nat /\ Floor(h.last) \in Nat
            BY <3>1, FloorIs
        <3>3. Floor(g.last) <= entries[e].time
            BY <3>1, <3>2
        <3> QED
            BY <3>1, <3>3, FloorIs
    <2> QED
        BY <2>1, <2>2, <2>3, <2>4
<1> QED
    <2>1. now' >= 2 * Second - 1 /\ (\A x \in Transcripts : mtime'[x] <= now')
        BY <1>1 DEF ScanInv
    <2>2. \A e \in DOMAIN entries' : EntryFits(e)'
        BY <1>1, <1>3, EntriesStay
    <2> QED
        BY <1>8, <1>11, <1>12, <1>13, <1>14, <1>16, <2>1, <2>2 DEF ScanInv

LEMMA SendStores == ScanInv /\ (\E s \in Scans : Send(s)) => ScanInv'
<1> SUFFICES ASSUME ScanInv, NEW s \in Scans, Send(s) PROVE ScanInv'
    OBVIOUS
<1>1. /\ scan[s].at = "send" /\ scan' = [scan EXCEPT ![s].at = "record"]
      /\ UNCHANGED <<kind, names, entries, mtime, torn, over, now, mark, stops>>
      /\ Arrive(scan[s].found)
      /\ loose' = IF scan[s].alone THEN loose ELSE loose \cup Counted(scan[s].found)
    BY DEF Send
<1>2. /\ ScanTypes /\ s \in Busy /\ ScanFits(s) /\ scan \in [Scans -> ScanState]
      /\ scan[s].found \subseteq Heartbeat
    BY <1>1 DEF ScanInv, ScanTypes, ScanState, Busy
<1>3. PICK new \in SUBSET {h \in scan[s].found : ~Known(h)} :
        /\ sent' = sent \cup new
        /\ behind' = behind \cup (Counted(scan[s].found) \ Counted(sent \cup new))
    BY <1>1 DEF Arrive
<1>4. Counted(scan[s].found) \subseteq DOMAIN entries
    BY <1>2, CountedIs DEF ScanFits, HeartbeatFits
<1>5. /\ scan'[s] = [scan[s] EXCEPT !.at = "record"] /\ scan' \in [Scans -> ScanState]
      /\ \A q \in Scans \ {s} : scan'[q] = scan[q]
    BY <1>1, <1>2 DEF ScanState
<1>6. ScanTypes'
    BY <1>1, <1>2, <1>3, <1>4, <1>5 DEF ScanTypes
<1> QED
    BY <1>1, <1>3, <1>5, <1>6, StoreStep

LEMMA StopStores ==
    ASSUME ScanInv, NEW s \in Scans, Stop(s), scan[s].at = "send"
    PROVE  ScanInv'
<1>1. /\ s \in Busy /\ stops < MaxStops /\ stops' = stops + 1 /\ scan' = [scan EXCEPT ![s] = NoScan]
      /\ UNCHANGED <<kind, names, entries, mtime, torn, over, now, mark, behind>>
    BY DEF Stop
<1>2. PICK some \in SUBSET scan[s].found :
        /\ sent' = sent \cup {h \in some : ~Known(h)}
        /\ loose' = loose \cup Counted(some)
    BY DEF Stop
<1>3. PICK new : new = {h \in some : ~Known(h)}
    OBVIOUS
<1>4. ScanTypes /\ stops' \in 0 .. MaxStops /\ ScanFits(s) /\ scan \in [Scans -> ScanState]
    <2>1. ScanTypes /\ ScanFits(s)
        BY <1>1 DEF ScanInv
    <2>2. scan \in [Scans -> ScanState] /\ stops \in 0 .. MaxStops /\ MaxStops \in Nat
        BY <2>1, BoundsAre DEF ScanTypes
    <2> QED
        BY <1>1, <2>1, <2>2
<1>5. /\ scan[s].found \subseteq Heartbeat
      /\ Counted(some) \subseteq DOMAIN entries /\ Counted(new) \subseteq Counted(some)
    <2>1. Counted(some) \subseteq DOMAIN entries
        BY <1>4, CountedIs DEF ScanFits, HeartbeatFits
    <2> QED
        BY <1>3, <1>4, <2>1, CountedGrows DEF ScanState
<1>6. NoScan \in ScanState
    BY BoundsAre DEF NoScan, ScanState
<1>7. scan'[s] = NoScan /\ scan' \in [Scans -> ScanState] /\ \A q \in Scans \ {s} : scan'[q] = scan[q]
    BY <1>1, <1>4, <1>6
<1>8. ScanTypes'
    BY <1>1, <1>2, <1>3, <1>4, <1>5, <1>7 DEF ScanTypes
<1>9. new \in SUBSET scan[s].found /\ sent' = sent \cup new /\ Counted(new) \subseteq loose'
    BY <1>2, <1>3, <1>5
<1> QED
    BY <1>1, <1>2, <1>7, <1>8, <1>9, StoreStep

LEMMA RecordMarks == ScanInv /\ (\E s \in Scans : Record(s)) => ScanInv'
<1> SUFFICES ASSUME ScanInv, NEW s \in Scans, Record(s) PROVE ScanInv'
    OBVIOUS
<1>1. /\ scan[s].at = "record" /\ scan' = [scan EXCEPT ![s] = NoScan]
      /\ mark' = Floor(Last({h.last : h \in scan[s].found}))
      /\ behind' = behind \cup {e \in scan[s].unseen : Passed(entries[e], mark')}
      /\ loose' = IF scan[s].alone THEN loose ELSE loose \cup Counted(scan[s].found)
      /\ UNCHANGED <<kind, names, entries, mtime, torn, over, now, sent, stops>>
    BY DEF Record
<1>2. /\ ScanTypes /\ now \in Nat /\ scan \in [Scans -> ScanState]
      /\ s \in Busy /\ ScanFits(s) /\ ScanCounts(s)
    <2>1. ScanTypes
        BY DEF ScanInv
    <2>2. now \in Nat /\ scan \in [Scans -> ScanState]
        BY <2>1, BoundsAre DEF ScanTypes
    <2>3. s \in Busy
        BY <1>1 DEF Busy
    <2> QED
        BY <2>1, <2>2, <2>3 DEF ScanInv
<1>3. scan[s].found \subseteq Heartbeat /\ scan[s].found # {} /\ scan[s].after \in Nat
    BY <1>1, <1>2, BoundsAre DEF ScanState, ScanFits
<1>4. PICK S : S = {h.last : h \in scan[s].found}
    OBVIOUS
<1>5. PICK last : last = Last(S)
    OBVIOUS
<1>6. S \in SUBSET (0 .. now) /\ S # {}
    <2>1. \A h \in scan[s].found : h.last \in Nat
        BY <1>3 DEF Heartbeat
    <2>2. \A h \in scan[s].found : HeartbeatFits(h)
        BY <1>2 DEF ScanFits
    <2>3. \A h \in scan[s].found : h.last \in 0 .. now
        <3> SUFFICES ASSUME NEW h \in scan[s].found
                     PROVE  h.last \in 0 .. now
            OBVIOUS
        <3>1. h.last <= now
            BY <2>2 DEF HeartbeatFits
        <3> QED
            BY <1>2, <2>1, <3>1
    <2> QED
        BY <1>3, <1>4, <2>3
<1>7. /\ last \in Nat /\ last <= now /\ last \in S
      /\ \A n \in S : n <= last
    <2>1. last \in S /\ \A n \in S : n <= last
        BY <1>2, <1>5, <1>6, GreatestIsLast
    <2> QED
        BY <1>2, <1>6, <2>1
<1>8. /\ mark' = Floor(last) /\ mark' \in 0 .. now
    <2>1. Floor(last) \in Nat /\ Floor(last) <= last
        BY <1>7, FloorIs
    <2> QED
        BY <1>1, <1>2, <1>4, <1>5, <1>7, <2>1
<1>9. \A h \in scan[s].found : h.last \in Nat /\ h.last <= last /\ Floor(h.last) <= mark'
    <2> SUFFICES ASSUME NEW h \in scan[s].found
                 PROVE  h.last \in Nat /\ h.last <= last /\ Floor(h.last) <= mark'
        OBVIOUS
    <2>1. h.last \in Nat /\ h.last <= last
        BY <1>3, <1>4, <1>7 DEF Heartbeat
    <2> QED
        BY <1>7, <1>8, <2>1, FloorIs
<1>10. scan[s].after <= last
    <2>1. PICK h \in scan[s].found : h.last = last
        BY <1>4, <1>7
    <2> QED
        BY <1>2, <2>1 DEF ScanFits
<1>11. /\ scan'[s] = NoScan /\ NoScan \in ScanState /\ s \notin Busy' /\ scan' \in [Scans -> ScanState]
       /\ \A q \in Scans \ {s} : scan'[q] = scan[q]
    <2>1. NoScan \in ScanState
        BY BoundsAre DEF NoScan, ScanState
    <2>2. scan'[s] = NoScan
        BY <1>1, <1>2
    <2> QED
        BY <1>1, <1>2, <2>1, <2>2 DEF Busy, NoScan
<1>12. Counted(scan[s].found) \subseteq DOMAIN entries
    BY <1>2, CountedIs DEF ScanFits, HeartbeatFits
<1>13. behind' \subseteq DOMAIN entries /\ loose' \subseteq DOMAIN entries
       /\ behind \subseteq behind' /\ loose \subseteq loose'
    BY <1>1, <1>2, <1>12 DEF ScanTypes, ScanFits
<1>14. ScanTypes'
    BY <1>1, <1>2, <1>8, <1>11, <1>13 DEF ScanTypes
<1>15. SameTranscripts
    BY <1>1, <1>2 DEF SameTranscripts
<1>16. ASSUME NEW q \in Busy'
       PROVE  q \in Busy /\ scan'[q] = scan[q] /\ q # s
    BY <1>11, <1>16 DEF Busy
<1>17. ASSUME NEW q \in Busy'
       PROVE  ScanFits(q)' /\ ScanCounts(q)'
    BY <1>1, <1>13, <1>15, <1>16, ScanStays DEF SameScan
<1>18. \A q, r \in Busy' : q # r => ~scan'[q].alone
    BY <1>16 DEF ScanInv
<1>19. \A h \in sent' : HeartbeatFits(h)'
    BY <1>1, <1>2, <1>15, EntriesStay DEF ScanInv, ScanTypes
<1>20. ASSUME NEW e \in DOMAIN entries', Claimed(e)', Passed(entries[e], mark)'
       PROVE  Covered(e)'
    <2>1. PICK m : m = mark'
        OBVIOUS
    <2>2. e \in DOMAIN entries /\ Claimed(e) /\ Passed(entries[e], m)
        BY <1>1, <1>15, <1>20, <2>1, EntriesStay
    <2>3. e \in scan[s].unseen \/ Covered(e)
        BY <1>1, <1>2, <2>2 DEF ScanCounts
    <2>4. CASE e \in scan[s].unseen
        BY <1>1, <2>1, <2>2, <2>4 DEF Covered
    <2>5. CASE Covered(e)
        BY <1>1, <1>13, <2>5 DEF Covered
    <2> QED
        BY <2>3, <2>4, <2>5
<1>21. ASSUME NEW h \in sent', NEW e \in Counted({h}) \ loose',
              kind'[h.in] \notin Wholly, entries'[e].time # None
       PROVE  MarkedOff(h)'
    <2>1. h \in sent /\ MarkedOff(h) /\ h.last \in Nat
        <3>1. h \in sent /\ e \in Counted({h}) \ loose /\ kind[h.in] \notin Wholly /\ entries[e].time # None
            BY <1>1, <1>13, <1>21
        <3>2. h \in Heartbeat
            BY <1>2, <3>1 DEF ScanTypes
        <3> QED
            BY <3>1, <3>2 DEF ScanInv, Heartbeat
    <2>2. CASE Floor(h.last) <= mark /\ \A q \in Busy : Floor(h.last) <= scan[q].after
        <3>1. Floor(h.last) \in Nat /\ Floor(h.last) <= scan[s].after
            BY <1>2, <2>1, <2>2, FloorIs
        <3>2. Floor(h.last) <= last
            BY <1>3, <1>7, <1>10, <3>1
        <3>3. Floor(h.last) <= mark'
            BY <1>7, <1>8, <2>1, <3>2, FloorIs
        <3> QED
            BY <1>16, <2>2, <3>3 DEF MarkedOff
    <2>3. CASE \E r \in Busy : scan[r].at = "record" /\ h \in scan[r].found
        <3>1. PICK r \in Busy : scan[r].at = "record" /\ h \in scan[r].found
            BY <2>3
        <3>2. CASE r = s
            <4>1. scan[s].alone
                <5>1. e \in Counted(scan[s].found)
                    BY <1>21, <3>1, <3>2, CountedIs
                <5> QED
                    BY <1>1, <1>21, <5>1
            <4>2. Busy' = {}
                BY <1>2, <1>16, <4>1 DEF ScanInv
            <4> QED
                BY <1>9, <3>1, <3>2, <4>2 DEF MarkedOff
        <3>3. CASE r # s
            <4>1. scan'[r] = scan[r] /\ r \in Busy'
                BY <1>11, <3>1, <3>3 DEF Busy
            <4> QED
                BY <3>1, <4>1 DEF MarkedOff
        <3> QED
            BY <3>2, <3>3
    <2> QED
        BY <2>1, <2>2, <2>3 DEF MarkedOff
<1>22. RecountedInItsSecond'
    <2>1. RecountedInItsSecond
        BY DEF ScanInv
    <2> QED
        BY <1>1, <1>13, <2>1 DEF RecountedInItsSecond
<1> QED
    <2>1. now' >= 2 * Second - 1 /\ (\A x \in Transcripts : mtime'[x] <= now')
        BY <1>1 DEF ScanInv
    <2>2. \A e \in DOMAIN entries' : EntryFits(e)'
        BY <1>1, <1>15, EntriesStay
    <2> QED
        BY <1>14, <1>17, <1>18, <1>19, <1>20, <1>21, <1>22, <2>1, <2>2 DEF ScanInv

-----------------------------------------------------------------------------
(* An agent writes *)

LEMMA AppendIs ==
    ASSUME NEW T, NEW q \in Seq(T), NEW t \in T
    PROVE  /\ Append(q, t) \in Seq(T) /\ Len(Append(q, t)) = Len(q) + 1 /\ Len(q) \in Nat
           /\ DOMAIN Append(q, t) = DOMAIN q \cup {Len(q) + 1} /\ Len(q) + 1 \notin DOMAIN q
           /\ \A i \in DOMAIN q : Append(q, t)[i] = q[i]
           /\ Append(q, t)[Len(q) + 1] = t
OBVIOUS

\* What an agent may write: an entry with a time up to now, of a call before it.
Writing(x, entry) ==
    /\ entry \in Entry /\ entry.in = x /\ entry.time <= now /\ entry.role \in Roles(x)
    /\ entry.call # None => entry.call \in EntriesIn(x)

LEMMA WritingIs ==
    ASSUME ScanInv, NEW x \in Transcripts, Write(x)
    PROVE  \E entry : /\ Writing(x, entry) /\ Len(entries) < MaxEntries
                      /\ entries' = Append(entries, entry)
                      /\ behind' = IF Passed(entry, mark) THEN behind \cup {Len(entries) + 1} ELSE behind
                      /\ scan' = [q \in Scans |->
                            IF scan[q].at # "idle" /\ Unread(q, x, entry)
                            THEN [scan[q] EXCEPT !.unseen = @ \cup {Len(entries) + 1}] ELSE scan[q]]
<1>1. PICK role \in Roles(x), time \in Stamps(x) : \E call \in Calls(x, role) :
        LET e == Len(entries) + 1
            entry == [in |-> x, time |-> time, role |-> role, call |-> call]
        IN  /\ entries' = Append(entries, entry)
            /\ behind' = IF Passed(entry, mark) THEN behind \cup {e} ELSE behind
            /\ scan' = [q \in Scans |->
                    IF scan[q].at # "idle" /\ Unread(q, x, entry)
                    THEN [scan[q] EXCEPT !.unseen = @ \cup {e}] ELSE scan[q]]
    BY DEF Write
<1>2. PICK call \in Calls(x, role) :
        LET e == Len(entries) + 1
            entry == [in |-> x, time |-> time, role |-> role, call |-> call]
        IN  /\ entries' = Append(entries, entry)
            /\ behind' = IF Passed(entry, mark) THEN behind \cup {e} ELSE behind
            /\ scan' = [q \in Scans |->
                    IF scan[q].at # "idle" /\ Unread(q, x, entry)
                    THEN [scan[q] EXCEPT !.unseen = @ \cup {e}] ELSE scan[q]]
    BY <1>1
<1> DEFINE written == [in |-> x, time |-> time, role |-> role, call |-> call]
<1>3. ScanTypes /\ now >= 2 * Second - 1
    BY DEF ScanInv
<1>4. now \in Nat /\ now <= MaxTime /\ MaxTime \in Nat /\ MaxEntries \in Nat /\ Second \in Nat \ {0}
    BY <1>3, BoundsAre DEF ScanTypes
<1>5. time \in 0 .. MaxTime /\ time <= now
    <2>1. time \in {now} \cup (Earliest .. now) \cup {0}
        BY DEF Stamps, None
    <2>2. 0 \in 0 .. MaxTime /\ now \in 0 .. MaxTime /\ \A t \in Earliest .. now : t \in 0 .. MaxTime /\ t <= now
        BY <1>4, StampsAre
    <2> QED
        BY <1>4, <2>1, <2>2
<1>6. role \in {"plain", "call", "end", "chat", "tokens"}
    BY DEF Roles
<1>7. call # None => call \in EntriesIn(x)
    BY DEF Calls
<1>8. call \in 0 .. MaxEntries
    <2>1. call # None => call \in 1 .. MaxEntries
        BY <1>3, <1>7, EntryIs DEF EntriesIn
    <2> QED
        BY <1>4, <2>1 DEF None
<1>9. Writing(x, written)
    BY <1>5, <1>6, <1>7, <1>8 DEF Writing, Entry
<1>10. Len(entries) < MaxEntries
    BY DEF Write
<1> QED
    BY <1>2, <1>9, <1>10

\* The transcripts grow by an entry.
Written(x, entry) ==
    /\ x \in Transcripts /\ Writing(x, entry) /\ Len(entries) < MaxEntries
    /\ entries' = Append(entries, entry) /\ mtime' = [mtime EXCEPT ![x] = now]
    /\ UNCHANGED <<kind, names, now>>

LEMMA EntriesGrow ==
    ASSUME ScanInv, NEW x, NEW entry, Written(x, entry)
    PROVE  /\ entries' \in Seq(Entry) /\ Len(entries') <= MaxEntries
           /\ DOMAIN entries' = DOMAIN entries \cup {Len(entries) + 1}
           /\ Len(entries) + 1 \notin DOMAIN entries
           /\ \A e \in DOMAIN entries : entries'[e] = entries[e]
           /\ entries'[Len(entries) + 1] = entry
           /\ mtime' \in [Transcripts -> 0 .. MaxTime]
           /\ \A y \in Transcripts : mtime[y] <= mtime'[y] /\ mtime'[y] <= now'
           /\ mtime'[x] = now
<1>1. ScanTypes
    BY DEF ScanInv
<1>2. /\ entry \in Entry /\ entries' = Append(entries, entry) /\ mtime' = [mtime EXCEPT ![x] = now]
      /\ x \in Transcripts /\ now' = now /\ Len(entries) < MaxEntries
    BY DEF Written, Writing
<1>3. now \in 0 .. MaxTime /\ now \in Nat /\ MaxEntries \in Nat
    BY <1>1, BoundsAre DEF ScanTypes
<1>4. entries \in Seq(Entry) /\ mtime \in [Transcripts -> 0 .. MaxTime]
    BY <1>1 DEF ScanTypes
<1>5. /\ entries' \in Seq(Entry) /\ Len(entries') = Len(entries) + 1 /\ Len(entries) \in Nat
      /\ DOMAIN entries' = DOMAIN entries \cup {Len(entries) + 1}
      /\ Len(entries) + 1 \notin DOMAIN entries
      /\ \A e \in DOMAIN entries : entries'[e] = entries[e]
      /\ entries'[Len(entries) + 1] = entry
    BY <1>2, <1>4, AppendIs
<1>6. Len(entries') <= MaxEntries
    BY <1>2, <1>3, <1>5
<1>7. mtime' \in [Transcripts -> 0 .. MaxTime] /\ mtime'[x] = now
    BY <1>2, <1>3, <1>4
<1>8. ASSUME NEW y \in Transcripts
      PROVE  mtime[y] <= mtime'[y] /\ mtime'[y] <= now'
    <2>1. mtime[y] \in Nat /\ mtime[y] <= now
        BY <1>4, BoundsAre DEF ScanInv
    <2>2. CASE y = x
        BY <1>2, <1>3, <1>7, <2>1, <2>2
    <2>3. CASE y # x
        BY <1>2, <1>4, <2>1, <2>3
    <2> QED
        BY <2>2, <2>3
<1> QED
    BY <1>5, <1>6, <1>7, <1>8

\* What is in a transcript grows too.
LEMMA CountableShrinks ==
    ASSUME ScanInv, NEW x, NEW entry, Written(x, entry), NEW e \in DOMAIN entries, Claimed(e)'
    PROVE  Claimed(e)
<1>1. ScanTypes /\ entries'[e] = entries[e] /\ e \in DOMAIN entries' /\ kind' = kind
    BY EntriesGrow DEF ScanInv, Written
<1>2. PICK y : y = entries[e].in
    OBVIOUS
<1>3. /\ entries[e].role \notin {"call", "tokens"} /\ entries[e].time # None
      /\ (kind[y] = "messages") => e \in Oldest(y)'
      /\ (kind[y] = "bubbles") => e \in Newest(y)'
      /\ (kind[y] = "chats") => \A f \in EntriesIn(y)' : f <= e
    BY <1>1, <1>2 DEF Claimed, Countable
<1>4. /\ EntriesIn(y) \subseteq EntriesIn(y)' /\ e \in EntriesIn(y)
      /\ \A f \in EntriesIn(y) : entries'[f] = entries[f]
    BY <1>2, EntriesGrow DEF EntriesIn
<1>5. IsFiniteSet(EntriesIn(y)')
    <2>1. Len(entries') \in Nat /\ DOMAIN entries' = 1 .. Len(entries')
        BY EntriesGrow
    <2>2. IsFiniteSet(1 .. Len(entries'))
        BY <2>1, FS_Interval
    <2>3. EntriesIn(y)' \subseteq 1 .. Len(entries')
        BY <2>1 DEF EntriesIn
    <2> QED
        BY <2>2, <2>3, FS_Subset
<1>6. Limit \in Nat
    BY BoundsAre
<1>7. ASSUME e \in Oldest(y)'
      PROVE  e \in Oldest(y)
    <2> DEFINE B == {f \in EntriesIn(y) : \/ entries[f].time < entries[e].time
                                          \/ entries[f].time = entries[e].time /\ f < e}
    <2>1. Cardinality(B') < Limit
        BY <1>7 DEF Oldest
    <2>2. B \subseteq B' /\ B' \subseteq EntriesIn(y)'
        BY <1>1, <1>4
    <2>3. IsFiniteSet(B') /\ IsFiniteSet(B)
        BY <1>5, <2>2, FS_Subset
    <2>4. Cardinality(B) <= Cardinality(B') /\ Cardinality(B) \in Nat /\ Cardinality(B') \in Nat
        BY <2>2, <2>3, FS_Subset, FS_CardinalityType
    <2>5. Cardinality(B) < Limit
        BY <1>6, <2>1, <2>4
    <2> QED
        BY <1>4, <2>5 DEF Oldest
<1>8. ASSUME e \in Newest(y)'
      PROVE  e \in Newest(y)
    <2> DEFINE B == {f \in EntriesIn(y) : f > e}
    <2>1. Cardinality(B') < Limit
        BY <1>8 DEF Newest
    <2>2. B \subseteq B' /\ B' \subseteq EntriesIn(y)'
        BY <1>4
    <2>3. IsFiniteSet(B') /\ IsFiniteSet(B)
        BY <1>5, <2>2, FS_Subset
    <2>4. Cardinality(B) <= Cardinality(B') /\ Cardinality(B) \in Nat /\ Cardinality(B') \in Nat
        BY <2>2, <2>3, FS_Subset, FS_CardinalityType
    <2>5. Cardinality(B) < Limit
        BY <1>6, <2>1, <2>4
    <2> QED
        BY <1>4, <2>5 DEF Newest
<1> QED
    BY <1>2, <1>3, <1>4, <1>7, <1>8 DEF Claimed, Countable

LEMMA EntriesKeep ==
    ASSUME ScanInv, NEW x, NEW entry, Written(x, entry), NEW e \in DOMAIN entries
    PROVE  /\ EntryFits(e)'
           /\ \A m : Passed(entries[e], m)' <=> Passed(entries[e], m)
<1>1. /\ ScanTypes /\ EntryFits(e) /\ kind' = kind /\ entries[e].in \in Transcripts
      /\ entries[e].time \in Nat
    BY EntryIs DEF ScanInv, Written
<1>2. /\ DOMAIN entries \subseteq DOMAIN entries'
      /\ \A f \in DOMAIN entries : entries'[f] = entries[f]
    BY EntriesGrow
<1>3. entries[e].call # None => entries[e].call \in DOMAIN entries
    BY <1>1 DEF EntryFits
<1>4. PICK y : y = entries[e].in
    OBVIOUS
<1>5. mtime[y] \in Nat /\ mtime'[y] \in Nat /\ mtime[y] <= mtime'[y] /\ mtime'[y] <= now'
    <2>1. /\ mtime \in [Transcripts -> 0 .. MaxTime] /\ MaxTime \in Nat
          /\ mtime' \in [Transcripts -> 0 .. MaxTime] /\ y \in Transcripts
        BY <1>1, <1>4, EntriesGrow, BoundsAre DEF ScanTypes
    <2>2. mtime[y] \in Nat /\ mtime'[y] \in Nat
        BY <2>1
    <2> QED
        BY <2>1, <2>2, EntriesGrow
<1>6. EntryFits(e)'
    <2>1. entries[e].time <= mtime'[y]
        BY <1>1, <1>4, <1>5 DEF EntryFits
    <2> QED
        BY <1>1, <1>2, <1>3, <1>4, <1>5, <2>1 DEF EntryFits, Roles
<1>7. ASSUME NEW m
      PROVE  Passed(entries[e], m)' <=> Passed(entries[e], m)
    BY <1>2, <1>3 DEF Passed
<1> QED
    BY <1>6, <1>7

LEMMA NewEntryFits ==
    ASSUME ScanInv, NEW x, NEW entry, Written(x, entry), NEW new, new = Len(entries) + 1
    PROVE  /\ EntryFits(new)' /\ new \in DOMAIN entries'
           /\ \A m : Passed(entries[new], m)' <=> Passed(entry, m)
<1>1. /\ entries'[new] = entry /\ new \in DOMAIN entries' /\ DOMAIN entries \subseteq DOMAIN entries'
      /\ \A f \in DOMAIN entries : entries'[f] = entries[f]
      /\ mtime'[x] = now /\ mtime'[x] <= now' /\ kind' = kind
    BY EntriesGrow DEF Written
<1>2. Writing(x, entry)
    BY DEF Written
<1>3. entry.call # None => entry.call \in DOMAIN entries /\ entries[entry.call].in = x
    BY <1>2 DEF Writing, EntriesIn
<1>4. EntryFits(new)'
    BY <1>1, <1>2, <1>3 DEF EntryFits, Writing, Roles
<1>5. ASSUME NEW m
      PROVE  Passed(entries[new], m)' <=> Passed(entry, m)
    BY <1>1, <1>3 DEF Passed
<1> QED
    BY <1>1, <1>4, <1>5

\* A scan while an entry is written.
LEMMA ScanMeets ==
    ASSUME ScanInv, NEW x, NEW entry, Written(x, entry), NEW new, new = Len(entries) + 1,
           behind \subseteq behind', sent' = sent, NEW s \in Busy,
           scan'[s] = IF Unread(s, x, entry)
                      THEN [scan[s] EXCEPT !.unseen = @ \cup {new}] ELSE scan[s]
    PROVE  ScanFits(s)' /\ ScanCounts(s)'
<1>1. /\ ScanTypes /\ scan[s] \in ScanState /\ ScanFits(s) /\ ScanCounts(s) /\ scan[s].at # "idle"
      /\ kind' = kind /\ now' = now
    <2>1. ScanTypes /\ s \in Scans /\ scan[s].at # "idle"
        BY DEF ScanInv, Busy
    <2> QED
        BY <2>1 DEF ScanInv, ScanTypes, Written
<1>2. /\ scan'[s].at = scan[s].at /\ scan'[s].after = scan[s].after /\ scan'[s].todo = scan[s].todo
      /\ scan'[s].found = scan[s].found
      /\ scan'[s].unseen = IF Unread(s, x, entry) THEN scan[s].unseen \cup {new} ELSE scan[s].unseen
    BY <1>1 DEF ScanState
<1>3. /\ DOMAIN entries' = DOMAIN entries \cup {new}
      /\ \A f \in DOMAIN entries : entries'[f] = entries[f]
    BY EntriesGrow
<1>4. \A h : HeartbeatFits(h) => HeartbeatFits(h)'
    BY <1>1, <1>3 DEF HeartbeatFits
<1>5. scan'[s].unseen \subseteq DOMAIN entries'
    BY <1>1, <1>2, <1>3 DEF ScanFits
<1>6. ASSUME NEW h \in scan[s].found
      PROVE  /\ HeartbeatFits(h)' /\ scan[s].after <= h.last /\ h.in \notin scan[s].todo
             /\ \A e \in Counted({h}) :
                    kind[h.in] \notin Wholly /\ entries'[e].time # None => scan[s].after <= entries'[e].time
    <2>1. HeartbeatFits(h)
        BY <1>1 DEF ScanFits
    <2>2. \A e \in Counted({h}) : entries'[e] = entries[e]
        BY <1>3, <2>1 DEF HeartbeatFits
    <2> QED
        BY <1>1, <1>4, <2>1, <2>2 DEF ScanFits
<1>7. ScanFits(s)'
    <2>1. /\ scan[s].at = "read" => scan[s].todo # {}
          /\ scan[s].at \in {"send", "record"} => scan[s].todo = {} /\ scan[s].found # {}
          /\ scan[s].after <= now
          /\ \A g, h \in scan[s].found :
                /\ g.in = h.in /\ kind[g.in] \notin Wholly
                /\ Counted({g}) \cap Counted({h}) # {}
                => g = h
        BY <1>1 DEF ScanFits
    <2> QED
        BY <1>1, <1>2, <1>5, <1>6, <2>1 DEF ScanFits
<1>8. ScanCounts(s)'
    <2>1. PICK after : after = scan[s].after /\ after = scan'[s].after
        BY <1>2
    <2> SUFFICES ASSUME NEW e \in DOMAIN entries', Claimed(e)'
                 PROVE  \/ e \in scan'[s].unseen
                        \/ Covered(e)'
                        \/ /\ ~Passed(entries[e], after)'
                           /\ \/ scan[s].at = "read" /\ entries'[e].in \in scan[s].todo
                              \/ scan[s].at \in {"read", "send"} /\ e \in Counted(scan[s].found)
        BY <1>2, <2>1 DEF ScanCounts
    <2>2. CASE e = new
        <3>1. entries'[e] = entry /\ entry.in = x
            BY <2>2, EntriesGrow DEF Written, Writing
        <3>2. CASE Unread(s, x, entry)
            BY <1>2, <2>2, <3>2
        <3>3. CASE ~Unread(s, x, entry)
            <4>1. x \in scan[s].todo /\ ~Passed(entry, after)
                BY <2>1, <3>3 DEF Unread
            <4>2. scan[s].at = "read"
                BY <1>1, <4>1 DEF ScanFits, ScanState
            <4>3. ~Passed(entries[e], after)'
                BY <2>2, <4>1, NewEntryFits
            <4> QED
                BY <3>1, <4>1, <4>2, <4>3
        <3> QED
            BY <3>2, <3>3
    <2>3. CASE e # new
        <3>1. e \in DOMAIN entries /\ entries'[e] = entries[e]
            BY <1>3, <2>3
        <3>2. Claimed(e)
            BY <3>1, CountableShrinks
        <3>3. Passed(entries[e], after)' <=> Passed(entries[e], after)
            BY <3>1, EntriesKeep
        <3>4. Covered(e) => Covered(e)'
            BY DEF Covered
        <3> QED
            BY <1>1, <1>2, <2>1, <3>1, <3>2, <3>3, <3>4 DEF ScanCounts
    <2> QED
        BY <2>2, <2>3
<1> QED
    BY <1>7, <1>8

LEMMA WriteKeeps == ScanInv /\ (\E x \in Transcripts : Write(x)) => ScanInv'
<1> SUFFICES ASSUME ScanInv, NEW x \in Transcripts, Write(x) PROVE ScanInv'
    OBVIOUS
<1>1. PICK entry : /\ Writing(x, entry) /\ Len(entries) < MaxEntries
                   /\ entries' = Append(entries, entry)
                   /\ behind' = IF Passed(entry, mark) THEN behind \cup {Len(entries) + 1} ELSE behind
                   /\ scan' = [q \in Scans |->
                            IF scan[q].at # "idle" /\ Unread(q, x, entry)
                            THEN [scan[q] EXCEPT !.unseen = @ \cup {Len(entries) + 1}] ELSE scan[q]]
    BY WritingIs
<1>2. PICK new : new = Len(entries) + 1
    OBVIOUS
<1>3. /\ mtime' = [mtime EXCEPT ![x] = now]
      /\ torn' \subseteq torn \cup {x} /\ (kind[x] \notin Strict => torn' = torn)
      /\ UNCHANGED <<kind, names, over, now, mark, sent, stops, loose>>
    BY DEF Write, Torn, Strict
<1>4. Written(x, entry)
    BY <1>1, <1>3 DEF Written
<1>5. ScanTypes /\ scan \in [Scans -> ScanState]
    BY DEF ScanInv, ScanTypes
<1>6. /\ entries' \in Seq(Entry) /\ Len(entries') <= MaxEntries
      /\ DOMAIN entries' = DOMAIN entries \cup {new} /\ new \notin DOMAIN entries
      /\ \A e \in DOMAIN entries : entries'[e] = entries[e]
      /\ mtime' \in [Transcripts -> 0 .. MaxTime]
      /\ \A y \in Transcripts : mtime'[y] <= now'
    BY <1>2, <1>4, EntriesGrow
<1>7. new \in 1 .. MaxEntries
    <2>1. Len(entries) \in Nat /\ MaxEntries \in Nat
        BY <1>5, BoundsAre DEF ScanTypes
    <2> QED
        BY <1>1, <1>2, <2>1
<1>8. \A q \in Scans : scan'[q] = IF scan[q].at # "idle" /\ Unread(q, x, entry)
                                  THEN [scan[q] EXCEPT !.unseen = @ \cup {new}] ELSE scan[q]
    BY <1>1, <1>2
<1>9. \A q \in Scans :
        /\ scan'[q] \in ScanState /\ scan'[q].at = scan[q].at /\ scan'[q].after = scan[q].after
        /\ scan'[q].found = scan[q].found /\ scan'[q].alone = scan[q].alone
    <2> SUFFICES ASSUME NEW q \in Scans
                 PROVE  /\ scan'[q] \in ScanState /\ scan'[q].at = scan[q].at /\ scan'[q].after = scan[q].after
                        /\ scan'[q].found = scan[q].found /\ scan'[q].alone = scan[q].alone
        OBVIOUS
    <2>1. scan[q] \in ScanState
        BY <1>5
    <2>2. CASE scan'[q] = scan[q]
        BY <2>1, <2>2
    <2>3. CASE scan'[q] = [scan[q] EXCEPT !.unseen = @ \cup {new}]
        <3>1. scan[q].unseen \cup {new} \in SUBSET (1 .. MaxEntries)
            BY <1>7, <2>1 DEF ScanState
        <3> QED
            BY <2>1, <2>3, <3>1 DEF ScanState
    <2> QED
        BY <1>8, <2>2, <2>3
<1>10. scan' \in [Scans -> ScanState]
    <2>1. DOMAIN scan' = Scans /\ scan' = [q \in Scans |-> scan'[q]]
        BY <1>1
    <2> QED
        BY <1>9, <2>1
<1>11. behind \subseteq behind' /\ behind' \subseteq DOMAIN entries' /\ (Passed(entry, mark) => new \in behind')
    BY <1>1, <1>2, <1>5, <1>6 DEF ScanTypes
<1>12. ScanTypes'
    <2>1. torn' \subseteq {y \in Transcripts : kind'[y] \in Strict}
        <3>1. torn \subseteq {y \in Transcripts : kind[y] \in Strict} /\ kind' = kind
            BY <1>3, <1>5 DEF ScanTypes
        <3>2. CASE kind[x] \in Strict
            BY <1>3, <3>1, <3>2
        <3>3. CASE kind[x] \notin Strict
            BY <1>3, <3>1, <3>3
        <3> QED
            BY <3>2, <3>3
    <2> QED
        BY <1>3, <1>5, <1>6, <1>10, <1>11, <2>1 DEF ScanTypes
<1>13. ASSUME NEW e \in DOMAIN entries'
       PROVE  EntryFits(e)'
    <2>1. e = new \/ e \in DOMAIN entries
        BY <1>6, <1>13
    <2> QED
        BY <1>2, <1>4, <2>1, EntriesKeep, NewEntryFits
<1>14. Busy' = Busy
    BY <1>9 DEF Busy
<1>15. ASSUME NEW q \in Busy'
       PROVE  ScanFits(q)' /\ ScanCounts(q)'
    <2>1. /\ q \in Busy
          /\ scan'[q] = IF Unread(q, x, entry) THEN [scan[q] EXCEPT !.unseen = @ \cup {new}] ELSE scan[q]
        BY <1>8, <1>14, <1>15 DEF Busy
    <2> QED
        BY <1>2, <1>3, <1>4, <1>11, <2>1, ScanMeets
<1>16. \A q, r \in Busy' : q # r => ~scan'[q].alone
    <2>1. \A q \in Busy : scan'[q].alone = scan[q].alone
        BY <1>9 DEF Busy
    <2> QED
        BY <1>14, <2>1 DEF ScanInv
<1>17. \A h \in sent : HeartbeatFits(h)
    BY DEF ScanInv
<1>18. \A h \in sent' : HeartbeatFits(h)'
    BY <1>3, <1>6, <1>17 DEF HeartbeatFits
<1>19. \A h \in sent : \A e \in Counted({h}) : entries'[e] = entries[e]
    BY <1>6, <1>17 DEF HeartbeatFits
<1>20. ASSUME NEW e \in DOMAIN entries', Claimed(e)', Passed(entries[e], mark)'
       PROVE  Covered(e)'
    <2>1. PICK m : m = mark /\ m = mark'
        BY <1>3
    <2>2. CASE e = new
        <3>1. Passed(entry, m)
            BY <1>2, <1>4, <1>20, <2>1, <2>2, NewEntryFits
        <3> QED
            BY <1>11, <2>1, <2>2, <3>1 DEF Covered
    <2>3. CASE e # new
        <3>1. e \in DOMAIN entries
            BY <1>6, <1>20, <2>3
        <3>2. Claimed(e)
            BY <1>4, <1>20, <3>1, CountableShrinks
        <3>3. Passed(entries[e], m)
            BY <1>4, <1>20, <2>1, <3>1, EntriesKeep
        <3>4. Covered(e)
            BY <2>1, <3>1, <3>2, <3>3 DEF ScanInv
        <3> QED
            BY <1>3, <1>11, <3>4 DEF Covered
    <2> QED
        BY <2>2, <2>3
<1>21. ASSUME NEW h \in sent', NEW e \in Counted({h}) \ loose',
              kind'[h.in] \notin Wholly, entries'[e].time # None
       PROVE  MarkedOff(h)'
    <2>1. MarkedOff(h)
        BY <1>3, <1>19, <1>21 DEF ScanInv
    <2>2. \A q \in Busy : /\ scan'[q].at = scan[q].at /\ scan'[q].after = scan[q].after
                          /\ scan'[q].found = scan[q].found
        BY <1>9 DEF Busy
    <2> QED
        BY <1>3, <1>14, <2>1, <2>2 DEF MarkedOff
<1>22. RecountedInItsSecond'
    <2>1. RecountedInItsSecond
        BY DEF ScanInv
    <2> QED
        BY <1>3, <1>19, <2>1 DEF RecountedInItsSecond
<1> QED
    <2>1. now' >= 2 * Second - 1
        BY <1>3 DEF ScanInv
    <2> QED
        BY <1>6, <1>12, <1>13, <1>15, <1>16, <1>18, <1>20, <1>21, <1>22, <2>1 DEF ScanInv

-----------------------------------------------------------------------------
(* The invariant of the scans *)

LEMMA ScanInit == TranscriptsInit => ScanInv
<1> SUFFICES ASSUME TranscriptsInit PROVE ScanInv
    OBVIOUS
<1>1. /\ kind \in [Transcripts -> Formats] /\ names \in [Transcripts -> 1 .. 2]
      /\ entries = <<>> /\ mtime = [x \in Transcripts |-> 0] /\ torn = {} /\ over = {}
      /\ now = 2 * Second - 1 /\ mark = 0
      /\ scan = [s \in Scans |-> NoScan]
      /\ sent = {} /\ stops = 0 /\ behind = {} /\ loose = {}
    BY DEF TranscriptsInit, None
<1>2. now \in 1 .. MaxTime /\ mark \in 0 .. now /\ 0 \in 0 .. MaxTime /\ 0 \in 0 .. MaxStops
    <2>1. Second \in Nat \ {0} /\ 2 * Second - 1 <= MaxTime /\ MaxTime \in Nat /\ MaxStops \in Nat
        BY TranscriptsAssumption
    <2> QED
        BY <1>1, <2>1
<1>3. NoScan \in ScanState
    BY BoundsAre DEF NoScan, ScanState
<1>4. entries \in Seq(Entry) /\ Len(entries) <= MaxEntries /\ DOMAIN entries = {}
    BY <1>1, BoundsAre
<1>5. ScanTypes
    BY <1>1, <1>2, <1>3, <1>4 DEF ScanTypes
<1>6. Busy = {}
    BY <1>1 DEF Busy, NoScan
<1>7. \A x \in Transcripts : mtime[x] <= now
    BY <1>1, <1>2
<1>8. now >= 2 * Second - 1
    BY <1>1, <1>2, BoundsAre
<1> QED
    BY <1>1, <1>4, <1>5, <1>6, <1>7, <1>8 DEF ScanInv, RecountedInItsSecond

LEMMA ScanInvStep == ScanInv /\ [TranscriptsNext]_scanVars => ScanInv'
<1> SUFFICES ASSUME ScanInv, [TranscriptsNext]_scanVars PROVE ScanInv'
    OBVIOUS
<1>1. CASE Tick
    BY <1>1, TickQuiet
<1>2. CASE \E x \in Transcripts : Write(x)
    BY <1>2, WriteKeeps
<1>3. CASE \E x \in Transcripts : Mend(x)
    BY <1>3, MendQuiet
<1>4. CASE \E s \in Scans : StartScan(s)
    BY <1>4, StartQuiet
<1>5. CASE \E s \in Scans : ReadTranscript(s)
    BY <1>5, ReadQuiet
<1>6. CASE \E s \in Scans : Send(s)
    BY <1>6, SendStores
<1>7. CASE \E s \in Scans : Record(s)
    BY <1>7, RecordMarks
<1>8. CASE \E s \in Scans : Stop(s)
    BY <1>8, StopQuiet, StopStores
<1>10. CASE \E x \in Transcripts : Outgrow(x)
    BY <1>10, OutgrowQuiet
<1>9. CASE UNCHANGED scanVars
    <2>1. UNCHANGED <<kind, names, entries, mtime, torn, over, now, mark, scan, sent, stops, behind, loose>>
        BY <1>9 DEF scanVars
    <2>2. SameTranscripts
        BY <2>1, BoundsAre DEF SameTranscripts, ScanInv, ScanTypes
    <2>3. ScanTypes'
        BY <2>1 DEF ScanInv, ScanTypes
    <2>4. \A q \in Scans \ {} : SameScan(q) /\ (scan'[q].alone => scan[q].alone)
        BY <2>1 DEF SameScan
    <2>5. {} \subseteq Scans /\ (\A p \in {} \cap Busy' : FALSE) /\ \A p \in {} : FALSE
        OBVIOUS
    <2> QED
        BY <2>1, <2>2, <2>3, <2>4, <2>5, QuietStep
<1> QED
    BY <1>1, <1>2, <1>3, <1>4, <1>5, <1>6, <1>7, <1>8, <1>9, <1>10 DEF TranscriptsNext, ScanStep

\* Between its scans an invocation remembers nothing.
Forgets(s) == scan[s].at = "idle" => scan[s].unseen = {} /\ scan[s].after = 0

LEMMA ForgetsStep ==
    ASSUME ScanInv, \A s \in Scans : Forgets(s), [TranscriptsNext]_scanVars
    PROVE  \A s \in Scans : Forgets(s)'
<1> SUFFICES ASSUME NEW q \in Scans PROVE Forgets(q)'
    OBVIOUS
<1>1. scan \in [Scans -> ScanState] /\ scan[q] \in ScanState /\ Forgets(q)
    BY DEF ScanInv, ScanTypes
<1>2. NoScan.unseen = {} /\ NoScan.after = 0 /\ NoScan.at = "idle"
    BY DEF NoScan
<1>3. CASE scan' = scan
    BY <1>1, <1>3 DEF Forgets
<1>4. ASSUME NEW s \in Scans, NEW new, scan' = [scan EXCEPT ![s] = new], new.at # "idle" \/ new = NoScan
      PROVE  Forgets(q)'
    <2>1. CASE q = s
        BY <1>1, <1>2, <1>4, <2>1 DEF Forgets
    <2>2. CASE q # s
        BY <1>1, <1>4, <2>2 DEF Forgets
    <2> QED
        BY <2>1, <2>2
<1>5. CASE \E x \in Transcripts : Write(x)
    <2>1. PICK x \in Transcripts : Write(x)
        BY <1>5
    <2>2. PICK entry : scan' = [p \in Scans |->
                            IF scan[p].at # "idle" /\ Unread(p, x, entry)
                            THEN [scan[p] EXCEPT !.unseen = @ \cup {Len(entries) + 1}] ELSE scan[p]]
        BY <2>1, WritingIs
    <2>3. scan'[q] = scan[q] \/ scan'[q].at # "idle"
        BY <1>1, <2>2 DEF ScanState
    <2> QED
        BY <1>1, <2>3 DEF Forgets
<1>6. CASE \E s \in Scans : StartScan(s)
    <2>1. PICK s \in Scans : StartScan(s)
        BY <1>6
    <2>2. PICK new : new = [NoScan EXCEPT !.at = "read", !.after = After, !.todo = Transcripts,
                                          !.alone = (Busy = {})]
        OBVIOUS
    <2>3. scan' = [p \in Scans |-> IF p = s THEN new ELSE [scan[p] EXCEPT !.alone = FALSE]]
        BY <2>1, <2>2 DEF StartScan
    <2>4. new.at # "idle"
        BY <2>2 DEF NoScan
    <2>5. CASE q = s
        BY <2>3, <2>4, <2>5 DEF Forgets
    <2>6. CASE q # s
        BY <1>1, <2>3, <2>6 DEF Forgets, ScanState
    <2> QED
        BY <2>5, <2>6
<1>7. ASSUME NEW s \in Scans, ReadTranscript(s)
      PROVE  Forgets(q)'
    <2>1. scan[s].at = "read" /\ scan[s] \in ScanState
        BY <1>1, <1>7 DEF ReadTranscript
    <2>2. CASE scan' = [scan EXCEPT ![s] = NoScan]
        BY <1>4, <2>2
    <2>3. CASE scan' # [scan EXCEPT ![s] = NoScan]
        <3>1. PICK rest, all, unseen :
                scan' = [scan EXCEPT ![s] =
                            IF rest # {} THEN [@ EXCEPT !.todo = rest, !.found = all, !.unseen = unseen]
                            ELSE IF all = {} THEN NoScan
                            ELSE [@ EXCEPT !.at = "send", !.todo = {}, !.found = all, !.unseen = unseen]]
            BY <1>7, <2>3 DEF ReadTranscript
        <3>2. PICK new : new = IF rest # {} THEN [scan[s] EXCEPT !.todo = rest, !.found = all, !.unseen = unseen]
                               ELSE IF all = {} THEN NoScan
                               ELSE [scan[s] EXCEPT !.at = "send", !.todo = {}, !.found = all, !.unseen = unseen]
            OBVIOUS
        <3>3. scan' = [scan EXCEPT ![s] = new]
            BY <1>1, <3>1, <3>2
        <3>4. new.at # "idle" \/ new = NoScan
            BY <2>1, <3>2 DEF ScanState
        <3> QED
            BY <1>4, <3>3, <3>4
    <2> QED
        BY <2>2, <2>3
<1>8. ASSUME NEW s \in Scans, Send(s)
      PROVE  Forgets(q)'
    <2>1. PICK new : new = [scan[s] EXCEPT !.at = "record"]
        OBVIOUS
    <2>2. scan' = [scan EXCEPT ![s] = new]
        BY <1>1, <1>8, <2>1 DEF Send
    <2>3. new.at # "idle"
        BY <1>1, <2>1 DEF ScanState
    <2> QED
        BY <1>4, <2>2, <2>3
<1>9. ASSUME NEW s \in Scans, Record(s) \/ Stop(s)
      PROVE  Forgets(q)'
    <2>1. scan' = [scan EXCEPT ![s] = NoScan]
        BY <1>9 DEF Record, Stop
    <2> QED
        BY <1>4, <2>1
<1>10. CASE Tick \/ UNCHANGED scanVars
    BY <1>3, <1>10 DEF Tick, scanVars
<1>11. CASE \E x \in Transcripts : Mend(x) \/ Outgrow(x)
    BY <1>3, <1>11 DEF Mend, Outgrow
<1> QED
    BY <1>5, <1>6, <1>7, <1>8, <1>9, <1>10, <1>11 DEF TranscriptsNext, ScanStep

LEMMA ScanInvTells ==
    ASSUME ScanInv, \A s \in Scans : Forgets(s)
    PROVE  MarkTellsCounted
<1>1. ScanTypes /\ RecountedInItsSecond
    BY DEF ScanInv
<1>2. mark \in Nat /\ now \in Nat
    BY <1>1, BoundsAre DEF ScanTypes
<1>3. ASSUME NEW s \in Scans
      PROVE  /\ scan[s].at \in {"idle", "read", "send", "record"}
             /\ scan[s].todo \subseteq Transcripts /\ scan[s].found \subseteq Heartbeat
             /\ scan[s].unseen \subseteq DOMAIN entries /\ scan[s].after \in 0 .. now
    <2>1. scan[s] \in ScanState /\ scan[s].after \in Nat
        BY <1>1, BoundsAre DEF ScanTypes, ScanState
    <2>2. CASE scan[s].at = "idle"
        BY <1>2, <2>1, <2>2 DEF Forgets, ScanState
    <2>3. CASE scan[s].at # "idle"
        <3>1. ScanFits(s)
            BY <2>3 DEF ScanInv, Busy
        <3> QED
            BY <1>2, <2>1, <3>1 DEF ScanFits, ScanState
    <2> QED
        BY <2>2, <2>3
<1>4. TranscriptsTypeOK
    BY <1>1, <1>3 DEF TranscriptsTypeOK, ScanTypes
<1>5. MissedOnlyIfPassed
    <2> SUFFICES ASSUME NEW e \in DOMAIN entries, Countable(e), entries[e].time # None, entries[e].time < mark
                 PROVE  e \in Counted(sent) \cup behind
        BY DEF MissedOnlyIfPassed
    <2>1. Claimed(e) /\ Passed(entries[e], mark)
        BY DEF Claimed, Passed
    <2> QED
        BY <2>1 DEF ScanInv, Covered
<1> QED
    BY <1>1, <1>4, <1>5 DEF MarkTellsCounted

\* A scan misses no entry but those that were written too late for it or are in
\* a file that it passed over, and between scans nothing is counted twice but
\* what falls in the second of the mark (collectAIHeartbeats, recordAISyncAfter, filterSyncedAIHeartbeats).
THEOREM MarkTellsCountedAlways == TranscriptsSpec => []MarkTellsCounted
<1>1. TranscriptsInit => ScanInv /\ \A s \in Scans : Forgets(s)
    <2>1. TranscriptsInit => \A s \in Scans : Forgets(s)
        BY DEF TranscriptsInit, Forgets, NoScan
    <2> QED
        BY <2>1, ScanInit
<1>2. /\ ScanInv /\ \A s \in Scans : Forgets(s)
      /\ [TranscriptsNext]_scanVars
      => (ScanInv /\ \A s \in Scans : Forgets(s))'
    BY ScanInvStep, ForgetsStep
<1>3. (ScanInv /\ \A s \in Scans : Forgets(s)) => MarkTellsCounted
    BY ScanInvTells
<1> QED
    BY <1>1, <1>2, <1>3, PTL DEF TranscriptsSpec
=============================================================================
