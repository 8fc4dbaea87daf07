---------------------------- MODULE WorkerProofs ----------------------------
(***************************************************************************)
(* Proofs about ServerJobs, for every number of runs, retries, heartbeats   *)
(* and faults, and about GoalSchedule, for every number of users, goals,    *)
(* workers and hours.                                                       *)
(***************************************************************************)
EXTENDS ServerJobs, GoalSchedule, SequenceTheorems, FiniteSetTheorems,
        WellFoundedInduction, TLAPS

-----------------------------------------------------------------------------
(* The inductive invariant: what the runs are doing between the row, the     *)
(* task and the file.                                                       *)

\* Types, with what the cardinality in JobsTypeOK says: one run has the lease.
RunStates ==
    [by : {"none", "task", "create", "download"},
     at : {"idle", "enqueue", "load", "open", "write", "complete", "record",
           "insert", "stale", "mark", "recompute", "done"},
     snap : 0 .. MaxStored, next : 0 .. MaxStored + 3, leased : BOOLEAN, alone : BOOLEAN]

OneLease == \A r, q \in Runs : run[r].leased /\ run[q].leased => r = q

Types ==
    /\ jobKind \in {"heartbeats", "daily", "import"} /\ hasQueue \in BOOLEAN
    /\ row \in {"none", "Pending", "Completed", "Failed"}
    /\ task \in [at : {"none", "waiting", "active", "done", "archived"},
                 retried : 0 .. MaxJobRetry]
    /\ run \in [Runs -> RunStates]
    /\ OneLease
    /\ task.at = "active" <=> \E r \in Runs : run[r].leased
    /\ file = Missing \/ file \in Seq({Begin, Cell, End, Hole})
    /\ present \in 0 .. MaxStored
    /\ imported \in BOOLEAN /\ counted \in BOOLEAN /\ fresh \in BOOLEAN
    /\ disturbed \in BOOLEAN /\ abandoned \in BOOLEAN /\ unmarked \in BOOLEAN
    /\ jobFaults \in 0 .. MaxJobFaults

\* The states of a run of a dump, of an import, and of either.
DumpStates == {"open", "write", "complete", "record"}
ImportStates == {"insert", "stale", "mark", "recompute"}

\* What a run does goes with its job and with who began it.
RunsFit ==
    \A r \in Runs :
        /\ run[r].at \in DumpStates => Dump
        /\ run[r].at \in ImportStates => ~Dump
        /\ run[r].by = "none" <=> run[r] = IdleRun
        /\ run[r].at = "idle" => run[r] = IdleRun
        /\ run[r].leased => run[r].by = "task"
        /\ run[r].by = "download" => Dump
        /\ run[r].at = "record" => run[r].by = "task"
        /\ run[r].at \in {"done", "recompute"} => run[r].by = "task"
        /\ run[r].at = "write" => run[r].next \in 1 .. run[r].snap + 2

\* Before the row is created there is nothing; one request creates it, and the
\* task does not exist while that request has to enqueue it or does the work.
Beginning ==
    /\ row = "none" => task = NoTask /\ \A r \in Runs : run[r] = IdleRun
    /\ \A r \in Runs : run[r].by = "create" =>
           /\ task = NoTask
           /\ \A q \in Runs \ {r} : run[q].by # "create"
           /\ run[r].at = "enqueue" => row = "Pending" /\ \A q \in Runs \ {r} : run[q] = IdleRun
    /\ \A r \in Runs : run[r].at = "enqueue" => run[r].by = "create"

\* A job that is done in the first attempt is not given out again.
DoneAtFirst ==
    row = "Completed" /\ task.retried = 0 =>
        /\ task.at # "waiting"
        /\ \A r \in Runs : run[r].leased => run[r].at \in {"done", "recompute"}

\* Who writes a file that nobody has disturbed writes it alone, and one who
\* writes alone has written the first cells of what he read.
WrittenSoFar(r) == file = SubSeq(Body(run[r].snap), 1, run[r].next - 1)

FileKept ==
    /\ \A r \in Runs : Writing(r) =>
           /\ file # Missing
           /\ run[r].alone => WrittenSoFar(r) /\ \A q \in Runs \ {r} : ~Writing(q)
           /\ ~disturbed => run[r].alone
    /\ ~disturbed /\ (row = "Completed" \/ \E r \in Runs : run[r].at = "complete") /\ Dump =>
           /\ file # Missing => Whole(file)
           /\ \A r \in Runs : ~Writing(r)

ImportKept ==
    /\ ~Dump /\ (row = "Completed" \/ \E r \in Runs : run[r].at \in {"stale", "mark"}) => imported
    /\ fresh => \/ counted = imported \/ unmarked
                \/ \E r \in Runs : run[r].at = "stale"

JobsInv == Types /\ RunsFit /\ Beginning /\ DoneAtFirst /\ FileKept /\ ImportKept

-----------------------------------------------------------------------------
(* Lemmas about the operators.                                              *)

Cells == {Begin, Cell, End, Hole}

\* What a run writes that has read n heartbeats: n + 2 cells.
LEMMA BodyType ==
    ASSUME NEW n \in Nat
    PROVE  Body(n) \in Seq(Cells) /\ Len(Body(n)) = n + 2
<1> DEFINE rows == [i \in 1 .. n |-> Cell]
<1>1. rows \in Seq(Cells) /\ Len(rows) = n
    BY DEF Cells
<1>2. <<Begin>> \in Seq(Cells) /\ <<End>> \in Seq(Cells) /\ Len(<<Begin>>) = 1 /\ Len(<<End>>) = 1
    BY DEF Cells
<1> HIDE DEF rows
<1>3. <<Begin>> \o rows \in Seq(Cells) /\ Len(<<Begin>> \o rows) = n + 1
    BY <1>1, <1>2, ConcatProperties
<1>4. /\ (<<Begin>> \o rows) \o <<End>> \in Seq(Cells)
      /\ Len((<<Begin>> \o rows) \o <<End>>) = n + 2
    BY <1>2, <1>3, ConcatProperties
<1> QED
    BY <1>4 DEF Body, rows

\* Cells put behind the first ones are the first ones of more.
LEMMA PutExtends ==
    ASSUME NEW body \in Seq(Cells), NEW k \in Nat, NEW last \in Nat,
           1 <= k, k <= last, last <= Len(body)
    PROVE  PutCells(SubSeq(body, 1, k - 1), k, SubSeq(body, k, last)) = SubSeq(body, 1, last)
<1> DEFINE cells == SubSeq(body, 1, k - 1)
           new == SubSeq(body, k, last)
           put == [j \in 1 .. last |->
                      IF j \in k .. last THEN new[j - k + 1]
                      ELSE IF j <= Len(cells) THEN cells[j] ELSE Hole]
<1>1. /\ cells \in Seq(Cells) /\ Len(cells) = k - 1
      /\ \A i \in 1 .. k - 1 : cells[i] = body[i]
    <2>1. \A i \in 1 .. k - 1 : body[i] \in Cells
        BY ElementOfSeq
    <2>2. /\ cells \in Seq(Cells)
          /\ Len(cells) = IF 1 <= k - 1 THEN k - 1 - 1 + 1 ELSE 0
          /\ \A i \in 1 .. k - 1 - 1 + 1 : cells[i] = body[1 + i - 1]
        BY <2>1, SubSeqProperties
    <2> QED
        BY <2>2
<1>2. /\ new \in Seq(Cells) /\ Len(new) = last - k + 1
      /\ \A i \in 1 .. last - k + 1 : new[i] = body[k + i - 1]
    <2>1. \A i \in k .. last : body[i] \in Cells
        BY ElementOfSeq
    <2> QED
        BY <2>1, SubSeqProperties
<1>3. /\ SubSeq(body, 1, last) \in Seq(Cells) /\ Len(SubSeq(body, 1, last)) = last
      /\ \A i \in 1 .. last : SubSeq(body, 1, last)[i] = body[i]
    <2>1. \A i \in 1 .. last : body[i] \in Cells
        BY ElementOfSeq
    <2>2. /\ SubSeq(body, 1, last) \in Seq(Cells)
          /\ Len(SubSeq(body, 1, last)) = IF 1 <= last THEN last - 1 + 1 ELSE 0
          /\ \A i \in 1 .. last - 1 + 1 : SubSeq(body, 1, last)[i] = body[1 + i - 1]
        BY <2>1, SubSeqProperties
    <2> QED
        BY <2>2
<1>4. PutCells(cells, k, new) = put
    <2> HIDE DEF cells, new
    <2>1. k + Len(new) - 1 = last /\ ~(last <= Len(cells)) /\ last > Len(cells)
        BY <1>1, <1>2
    <2> QED
        BY <2>1 DEF PutCells
<1>5. \A j \in 1 .. last : put[j] = body[j]
    <2> SUFFICES ASSUME NEW j \in 1 .. last PROVE put[j] = body[j]
        OBVIOUS
    <2> HIDE DEF cells, new
    <2>1. CASE j \in k .. last
        <3>1. j - k + 1 \in 1 .. last - k + 1
            BY <2>1
        <3>2. new[j - k + 1] = body[k + (j - k + 1) - 1]
            BY <3>1, <1>2
        <3> QED
            BY <2>1, <3>2
    <2>2. CASE j \notin k .. last
        <3>1. j \in 1 .. k - 1
            BY <2>2
        <3> QED
            BY <2>2, <3>1, <1>1
    <2> QED
        BY <2>1, <2>2
<1>6. \A j \in 1 .. last : body[j] \in Cells
    BY ElementOfSeq
<1>7. put \in Seq(Cells) /\ Len(put) = last
    <2>1. DOMAIN put = 1 .. last
        OBVIOUS
    <2>2. put \in [1 .. last -> Cells]
        BY <1>5, <1>6
    <2> HIDE DEF put
    <2> QED
        BY <2>1, <2>2
<1>8. put = SubSeq(body, 1, last)
    <2> HIDE DEF put
    <2> QED
        BY <1>3, <1>5, <1>7, SeqEqual
<1> QED
    BY <1>4, <1>8

\* Whatever is put, cells remain.
LEMMA PutType ==
    ASSUME NEW cells \in Seq(Cells), NEW n \in Nat, NEW k \in 1 .. n + 2, NEW last \in k .. n + 2
    PROVE  PutCells(cells, k, SubSeq(Body(n), k, last)) \in Seq(Cells)
<1> DEFINE new == SubSeq(Body(n), k, last)
           top == IF last > Len(cells) THEN last ELSE Len(cells)
           put == [j \in 1 .. top |->
                      IF j \in k .. last THEN new[j - k + 1]
                      ELSE IF j <= Len(cells) THEN cells[j] ELSE Hole]
<1>1. \A i \in k .. last : Body(n)[i] \in Cells
    <2>1. \A i \in k .. last : i \in 1 .. n + 2
        OBVIOUS
    <2>2. Body(n) \in Seq(Cells) /\ Len(Body(n)) = n + 2
        BY BodyType
    <2> QED
        BY <2>1, <2>2, ElementOfSeq
<1>2. new \in Seq(Cells) /\ Len(new) = last - k + 1
    BY <1>1, SubSeqProperties
<1>3. Len(cells) \in Nat
    OBVIOUS
<1>4. top \in Nat
    BY <1>3
<1>5. PutCells(cells, k, new) = put
    <2> HIDE DEF new
    <2>1. k + Len(new) - 1 = last
        BY <1>2
    <2> QED
        BY <2>1 DEF PutCells
<1>6. ASSUME NEW j \in 1 .. top
      PROVE  (IF j \in k .. last THEN new[j - k + 1]
              ELSE IF j <= Len(cells) THEN cells[j] ELSE Hole) \in Cells
    <2> HIDE DEF new
    <2>1. CASE j \in k .. last
        <3>1. j - k + 1 \in 1 .. Len(new)
            BY <2>1, <1>2
        <3>2. new[j - k + 1] \in Cells
            BY <3>1, <1>2, ElementOfSeq
        <3> QED
            BY <2>1, <3>2
    <2>2. CASE j \notin k .. last
        <3>1. j <= Len(cells) => cells[j] \in Cells
            BY <1>3, <1>4, ElementOfSeq
        <3> QED
            BY <2>2, <3>1 DEF Cells
    <2> QED
        BY <2>1, <2>2
<1>7. put \in [1 .. top -> Cells]
    <2> HIDE DEF new, top
    <2> QED
        BY <1>6
<1>8. put \in Seq(Cells)
    <2> HIDE DEF put, top
    <2> QED
        BY <1>4, <1>7, SeqDef
<1> QED
    BY <1>5, <1>8

-----------------------------------------------------------------------------
(* What the invariant says, and that it holds at first.                      *)

LEMMA InvInit == JobsInit => JobsInv
<1> SUFFICES ASSUME JobsInit PROVE JobsInv
    OBVIOUS
<1>1. IdleRun \in RunStates
    BY JobsAssumption DEF IdleRun, RunAt, RunStates
<1>2. \A r \in Runs : run[r] = IdleRun
    BY DEF JobsInit
<1>3. Types
    <2>1. run \in [Runs -> RunStates] /\ \A r \in Runs : ~run[r].leased
        BY <1>1, <1>2 DEF JobsInit, IdleRun, RunAt
    <2>2. task \in [at : {"none", "waiting", "active", "done", "archived"},
                    retried : 0 .. MaxJobRetry] /\ task.at # "active"
        BY JobsAssumption DEF JobsInit, NoTask
    <2> QED
        <3>1. OneLease /\ (task.at = "active" <=> \E r \in Runs : run[r].leased)
            BY <2>1, <2>2 DEF OneLease
        <3>2. present \in 0 .. MaxStored /\ jobFaults \in 0 .. MaxJobFaults
            BY JobsAssumption DEF JobsInit
        <3> QED
            BY <2>1, <2>2, <3>1, <3>2 DEF JobsInit, Types
<1>4. RunsFit
    BY <1>2 DEF RunsFit, IdleRun, RunAt, DumpStates, ImportStates
<1>5. Beginning /\ DoneAtFirst
    BY <1>2 DEF JobsInit, Beginning, DoneAtFirst, IdleRun, RunAt
<1>6. FileKept /\ ImportKept
    BY <1>2 DEF JobsInit, FileKept, ImportKept, IdleRun, RunAt, Writing
<1> QED
    BY <1>3, <1>4, <1>5, <1>6 DEF JobsInv

LEMMA InvImplies == JobsInv => JobsSound
<1> SUFFICES ASSUME JobsInv PROVE JobsSound
    OBVIOUS
<1> DEFINE holders == {r \in Runs : run[r].leased}
<1>1. Cardinality(holders) <= 1
    <2>1. CASE holders = {}
        <3>1. Cardinality(holders) = 0
            BY <2>1, FS_EmptySet
        <3> QED
            BY <3>1
    <2>2. ASSUME NEW r \in holders PROVE Cardinality(holders) <= 1
        <3>1. holders = {r}
            BY DEF JobsInv, Types, OneLease
        <3> HIDE DEF holders
        <3>2. Cardinality(holders) = 1
            BY <3>1, FS_Singleton
        <3> QED
            BY <3>2
    <2> QED
        BY <2>1, <2>2
<1>2. JobsTypeOK
    BY <1>1 DEF JobsInv, Types, RunStates, JobsTypeOK
<1>3. CompletedMeansDone
    BY DEF JobsInv, FileKept, ImportKept, CompletedMeansDone
<1>4. ImportIsCounted
    <2> SUFFICES ASSUME \A r \in Runs : run[r] = IdleRun, fresh
                 PROVE  counted = imported \/ unmarked
        BY DEF ImportIsCounted
    <2>1. \A r \in Runs : run[r].at # "stale"
        BY DEF IdleRun, RunAt
    <2> QED
        BY <2>1 DEF JobsInv, ImportKept
<1> QED
    BY <1>2, <1>3, <1>4 DEF JobsSound

-----------------------------------------------------------------------------
(* The steps.                                                               *)

\* One run changes.
LEMMA RunChanges ==
    ASSUME Types, NEW r \in Runs, NEW x \in RunStates, run' = [run EXCEPT ![r] = x]
    PROVE  /\ run' \in [Runs -> RunStates]
           /\ run'[r] = x
           /\ \A q \in Runs \ {r} : run'[q] = run[q]
BY DEF Types

LEMMA RunGoesTo ==
    ASSUME Types, NEW r \in Runs, NEW at, GoTo(r, at),
           at \in {"enqueue", "load", "open", "write", "complete", "record",
                   "insert", "stale", "mark", "recompute", "done"}
    PROVE  /\ run' \in [Runs -> RunStates]
           /\ run'[r].at = at /\ run'[r].by = run[r].by /\ run'[r].snap = run[r].snap
           /\ run'[r].next = run[r].next /\ run'[r].leased = run[r].leased
           /\ run'[r].alone = run[r].alone
           /\ \A q \in Runs \ {r} : run'[q] = run[q]
<1> DEFINE x == [run[r] EXCEPT !.at = at]
<1>1. run[r] \in RunStates
    BY DEF Types
<1>2. x \in RunStates
    BY <1>1 DEF RunStates
<1>3. /\ x.at = at /\ x.by = run[r].by /\ x.snap = run[r].snap /\ x.next = run[r].next
      /\ x.leased = run[r].leased /\ x.alone = run[r].alone
    BY <1>1 DEF RunStates
<1>4. run' = [run EXCEPT ![r] = x]
    BY DEF GoTo
<1> HIDE DEF x
<1> QED
    BY <1>2, <1>3, <1>4, RunChanges

LEMMA RunEnds ==
    ASSUME Types, NEW r \in Runs, run' = [run EXCEPT ![r] = IdleRun]
    PROVE  /\ run' \in [Runs -> RunStates]
           /\ run'[r] = IdleRun
           /\ run'[r].at = "idle" /\ run'[r].by = "none" /\ ~run'[r].leased
           /\ \A q \in Runs \ {r} : run'[q] = run[q]
<1>1. IdleRun \in RunStates
    BY JobsAssumption DEF IdleRun, RunAt, RunStates
<1> QED
    BY <1>1, RunChanges DEF IdleRun, RunAt

LEMMA RetriedType ==
    ASSUME Types
    PROVE  /\ Retried \in [at : {"waiting", "archived"}, retried : 0 .. MaxJobRetry]
           /\ Retried.retried = 0 => Retried.at = "archived"
BY JobsAssumption DEF Types, Retried

\* A run ends without success; the task, if it has it, is tried again.
LEMMA Stops ==
    ASSUME JobsInv, NEW r \in Runs, run' = [run EXCEPT ![r] = IdleRun],
           task' = IF run[r].leased THEN Retried ELSE task,
           row' = row \/ (row' = "Failed" /\ run[r].at = "record"),
           unmarked' = (unmarked \/ run[r].at = "stale"),
           abandoned' \in BOOLEAN, jobFaults' \in 0 .. MaxJobFaults,
           run[r].by # "none",
           UNCHANGED <<jobKind, hasQueue, present, file, disturbed, imported, counted, fresh>>
    PROVE  JobsInv'
<1>1. Types /\ RunsFit /\ Beginning /\ DoneAtFirst /\ FileKept /\ ImportKept
    BY DEF JobsInv
<1>2. /\ run' \in [Runs -> RunStates]
      /\ run'[r] = IdleRun
      /\ run'[r].at = "idle" /\ run'[r].by = "none" /\ ~run'[r].leased
      /\ \A q \in Runs \ {r} : run'[q] = run[q]
    BY <1>1, RunEnds
<1>3. /\ task' \in [at : {"none", "waiting", "active", "done", "archived"},
                    retried : 0 .. MaxJobRetry]
      /\ run[r].leased => /\ task'.at \in {"waiting", "archived"}
                          /\ task'.retried = 0 => task'.at = "archived"
    BY <1>1, RetriedType DEF Types
<1>4. Types'
    <2>1. OneLease'
        BY <1>1, <1>2 DEF Types, OneLease
    <2>2. task'.at = "active" <=> \E q \in Runs : run'[q].leased
        <3>1. CASE run[r].leased
            BY <3>1, <1>1, <1>2, <1>3 DEF Types, OneLease
        <3>2. CASE ~run[r].leased
            <4>1. task' = task
                BY <3>2
            <4> QED
                BY <3>2, <4>1, <1>1, <1>2 DEF Types
        <3> QED
            BY <3>1, <3>2
    <2>3. row' \in {"none", "Pending", "Completed", "Failed"} /\ unmarked' \in BOOLEAN
        BY <1>1 DEF Types
    <2> QED
        BY <2>1, <2>2, <2>3, <1>1, <1>2, <1>3 DEF Types
<1>5. RunsFit'
    BY <1>1, <1>2 DEF RunsFit, DumpStates, ImportStates, Dump, IdleRun, RunAt
<1>6. Beginning'
    <2>1. row # "none" /\ row' # "none"
        BY <1>1 DEF Beginning, IdleRun, RunAt
    <2>2. ASSUME NEW q \in Runs \ {r}, run[q].by = "create"
          PROVE  task' = NoTask /\ run[q].at # "enqueue"
        <3>1. task = NoTask /\ ~run[r].leased
            BY <2>2, <1>1 DEF Beginning, Types, NoTask
        <3>2. run[q].at # "enqueue"
            BY <2>2, <1>1 DEF Beginning, IdleRun, RunAt
        <3> QED
            BY <3>1, <3>2
    <2> QED
        BY <2>1, <2>2, <1>1, <1>2 DEF Beginning
<1>7. DoneAtFirst'
    <2>1. CASE run[r].leased
        <3>1. \A q \in Runs : ~run'[q].leased
            BY <2>1, <1>1, <1>2 DEF Types, OneLease
        <3> QED
            BY <2>1, <3>1, <1>3 DEF DoneAtFirst
    <2>2. CASE ~run[r].leased
        <3>1. task' = task
            BY <2>2
        <3> QED
            BY <3>1, <1>1, <1>2 DEF DoneAtFirst
    <2> QED
        BY <2>1, <2>2
<1>8. FileKept'
    BY <1>1, <1>2 DEF FileKept, WrittenSoFar, Writing, Dump, Whole, Body
<1>9. ImportKept'
    BY <1>1, <1>2 DEF ImportKept, Dump
<1> QED
    BY <1>4, <1>5, <1>6, <1>7, <1>8, <1>9 DEF JobsInv

LEMMA FailureInv ==
    ASSUME JobsInv, NEW r \in Runs,
           \/ CrashRun(r) \/ EndExpired(r) \/ RecordFailure(r)
           \/ RunFails(r) /\ ~Records(r)
    PROVE  JobsInv'
<1>1. Types /\ RunsFit
    BY DEF JobsInv
<1>2. run[r].by # "none"
    BY <1>1 DEF CrashRun, EndExpired, RecordFailure, RunFails, Works, RunsFit, IdleRun, RunAt
<1>3. abandoned' \in BOOLEAN /\ jobFaults' \in 0 .. MaxJobFaults
    <2>1. LastAttempt(r) \in BOOLEAN
        BY DEF LastAttempt
    <2>2. abandoned \in BOOLEAN /\ jobFaults \in 0 .. MaxJobFaults
        BY <1>1 DEF Types
    <2>3. abandoned' \in BOOLEAN
        BY <2>1, <2>2 DEF CrashRun, EndExpired, RecordFailure, RunFails, Leaves
    <2>4. jobFaults' = jobFaults \/ (jobFaults < MaxJobFaults /\ jobFaults' = jobFaults + 1)
        BY DEF CrashRun, EndExpired, RecordFailure, RunFails, Leaves
    <2> QED
        BY <2>2, <2>3, <2>4, JobsAssumption
<1>4. unmarked' = (unmarked \/ run[r].at = "stale")
    BY <1>1 DEF CrashRun, EndExpired, RecordFailure, RunFails, Leaves, Works, importVars, Types
<1>5. task' = IF run[r].leased THEN Retried ELSE task
    BY DEF CrashRun, EndExpired, RecordFailure, RunFails, Leaves
<1>6. row' = row \/ (row' = "Failed" /\ run[r].at = "record")
    BY DEF CrashRun, EndExpired, RecordFailure, RunFails, Leaves, Works
<1>7. /\ run' = [run EXCEPT ![r] = IdleRun]
      /\ UNCHANGED <<jobKind, hasQueue, present, file, disturbed, imported, counted, fresh>>
    BY DEF CrashRun, EndExpired, RecordFailure, RunFails, Leaves, dumpVars, importVars
<1> QED
    BY <1>2, <1>3, <1>4, <1>5, <1>6, <1>7, Stops

\* A run that begins has its own state and nothing else.
LEMMA Begins ==
    ASSUME Types, NEW r \in Runs, NEW by, NEW at, NEW lease \in BOOLEAN,
           by \in {"task", "create", "download"}, at \in {"enqueue", "load", "open"},
           run' = [run EXCEPT ![r] = RunAt(at, by, lease)]
    PROVE  /\ run' \in [Runs -> RunStates]
           /\ run'[r].at = at /\ run'[r].by = by /\ run'[r].leased = lease
           /\ \A q \in Runs \ {r} : run'[q] = run[q]
<1> DEFINE x == RunAt(at, by, lease)
<1>1. x \in RunStates /\ x.at = at /\ x.by = by /\ x.leased = lease
    <2>1. 0 \in 0 .. MaxStored /\ 0 \in 0 .. MaxStored + 3
        BY JobsAssumption
    <2> QED
        BY <2>1 DEF RunStates, RunAt
<1> HIDE DEF x
<1> QED
    BY <1>1, RunChanges DEF x

LEMMA CreateInv ==
    ASSUME JobsInv, NEW r \in Runs, CreateJob(r)
    PROVE  JobsInv'
<1>1. Types /\ RunsFit /\ Beginning /\ DoneAtFirst /\ FileKept /\ ImportKept
    BY DEF JobsInv
<1>2. /\ row = "none" /\ row' = "Pending"
      /\ UNCHANGED <<jobKind, hasQueue, task, present, file, imported, counted, fresh, jobFaults,
                     disturbed, abandoned, unmarked>>
    BY DEF CreateJob, dumpVars, importVars
<1>3. /\ run' \in [Runs -> RunStates]
      /\ run'[r].at = "enqueue" /\ run'[r].by = "create" /\ ~run'[r].leased
      /\ \A q \in Runs \ {r} : run'[q] = run[q]
    <2>1. run' = [run EXCEPT ![r] = RunAt("enqueue", "create", FALSE)]
        BY DEF CreateJob
    <2> QED
        BY <2>1, <1>1, Begins
<1>4. task = NoTask /\ \A q \in Runs : run[q] = IdleRun
    BY <1>1, <1>2 DEF Beginning
<1>5. \A q \in Runs \ {r} : /\ run'[q] = IdleRun /\ run'[q].at = "idle" /\ run'[q].by = "none"
                            /\ ~run'[q].leased
    BY <1>3, <1>4 DEF IdleRun, RunAt
<1>6. Types'
    <2>1. OneLease' /\ task'.at # "active" /\ \A q \in Runs : ~run'[q].leased
        BY <1>2, <1>3, <1>4, <1>5 DEF OneLease, NoTask
    <2> QED
        BY <2>1, <1>1, <1>2, <1>3 DEF Types
<1>7. RunsFit'
    BY <1>3, <1>5 DEF RunsFit, DumpStates, ImportStates, IdleRun, RunAt
<1>8. Beginning'
    BY <1>2, <1>3, <1>4, <1>5 DEF Beginning
<1>9. DoneAtFirst'
    BY <1>2 DEF DoneAtFirst
<1>10. FileKept'
    BY <1>1, <1>2, <1>3, <1>5 DEF FileKept, Writing
<1>11. ImportKept'
    BY <1>1, <1>2, <1>3, <1>4, <1>5 DEF ImportKept, Dump, IdleRun, RunAt
<1> QED
    BY <1>6, <1>7, <1>8, <1>9, <1>10, <1>11 DEF JobsInv

LEMMA EnqueueInv ==
    ASSUME JobsInv, NEW r \in Runs, EnqueueJob(r)
    PROVE  JobsInv'
<1>1. Types /\ RunsFit /\ Beginning /\ DoneAtFirst /\ FileKept /\ ImportKept
    BY DEF JobsInv
<1>2. /\ run[r].by = "create" /\ run[r].at = "enqueue"
      /\ UNCHANGED <<jobKind, hasQueue, row, present, file, imported, counted, fresh, jobFaults,
                     disturbed, abandoned, unmarked>>
    BY DEF EnqueueJob, At, dumpVars, importVars
<1>3. row = "Pending" /\ task = NoTask /\ \A q \in Runs \ {r} : run[q] = IdleRun
    BY <1>1, <1>2 DEF Beginning
<1>4. ~run[r].leased
    BY <1>1, <1>2 DEF RunsFit
<1>5. /\ run' \in [Runs -> RunStates]
      /\ \A q \in Runs \ {r} : run'[q] = run[q]
      /\ ~run'[r].leased
      /\ \/ task' = [NoTask EXCEPT !.at = "waiting"] /\ run'[r] = IdleRun
         \/ task' = task /\ run'[r].at = "load" /\ run'[r].by = "create"
    <2>1. CASE hasQueue
        BY <2>1, <1>1, RunEnds DEF EnqueueJob
    <2>2. CASE ~hasQueue
        <3>1. GoTo(r, "load") /\ task' = task
            BY <2>2 DEF EnqueueJob
        <3> QED
            BY <3>1, <1>1, <1>2, <1>4, RunGoesTo
    <2> QED
        BY <2>1, <2>2
<1>6. \A q \in Runs \ {r} : /\ run'[q] = IdleRun /\ run'[q].at = "idle" /\ run'[q].by = "none"
                            /\ ~run'[q].leased
    BY <1>3, <1>5 DEF IdleRun, RunAt
<1>7. Types'
    <2>1. OneLease' /\ \A q \in Runs : ~run'[q].leased
        BY <1>5, <1>6 DEF OneLease
    <2>2. /\ task' \in [at : {"none", "waiting", "active", "done", "archived"},
                        retried : 0 .. MaxJobRetry]
          /\ task'.at # "active"
        BY <1>3, <1>5, JobsAssumption DEF NoTask
    <2> QED
        BY <2>1, <2>2, <1>1, <1>2, <1>5 DEF Types
<1>8. RunsFit'
    BY <1>5, <1>6 DEF RunsFit, DumpStates, ImportStates, IdleRun, RunAt
<1>9. Beginning'
    BY <1>2, <1>3, <1>5, <1>6 DEF Beginning, IdleRun, RunAt
<1>10. DoneAtFirst'
    BY <1>2, <1>3 DEF DoneAtFirst
<1>11. run'[r].at \notin {"write", "complete", "stale", "mark"}
    BY <1>5 DEF IdleRun, RunAt
<1>12. FileKept'
    BY <1>1, <1>2, <1>3, <1>6, <1>11 DEF FileKept, Writing
<1>13. ImportKept'
    BY <1>1, <1>2, <1>3, <1>6, <1>11 DEF ImportKept, Dump, IdleRun, RunAt
<1> QED
    BY <1>7, <1>8, <1>9, <1>10, <1>12, <1>13 DEF JobsInv

LEMMA DownloadInv ==
    ASSUME JobsInv, NEW r \in Runs, Download(r)
    PROVE  JobsInv'
<1>1. Types /\ RunsFit /\ Beginning /\ DoneAtFirst /\ FileKept /\ ImportKept
    BY DEF JobsInv
<1>2. /\ Dump /\ row = "Completed" /\ run[r] = IdleRun
      /\ UNCHANGED <<jobKind, hasQueue, row, task, present, file, imported, counted, fresh,
                     jobFaults, disturbed, abandoned, unmarked>>
    BY DEF Download, dumpVars, importVars
<1>3. /\ run' \in [Runs -> RunStates]
      /\ run'[r].at = "open" /\ run'[r].by = "download" /\ ~run'[r].leased
      /\ \A q \in Runs \ {r} : run'[q] = run[q]
    <2>1. run' = [run EXCEPT ![r] = RunAt("open", "download", FALSE)]
        BY DEF Download
    <2> QED
        BY <2>1, <1>1, Begins
<1>4. run[r].at = "idle" /\ ~run[r].leased /\ run[r].by = "none"
    BY <1>2 DEF IdleRun, RunAt
<1>5. Types'
    <2>1. OneLease' /\ ((\E q \in Runs : run'[q].leased) <=> (\E q \in Runs : run[q].leased))
        BY <1>1, <1>3, <1>4 DEF Types, OneLease
    <2> QED
        BY <2>1, <1>1, <1>2, <1>3 DEF Types
<1>6. RunsFit'
    BY <1>1, <1>2, <1>3 DEF RunsFit, DumpStates, ImportStates, IdleRun, RunAt, Dump
<1>7. Beginning'
    BY <1>1, <1>2, <1>3, <1>4 DEF Beginning
<1>8. DoneAtFirst'
    BY <1>1, <1>2, <1>3 DEF DoneAtFirst
<1>9. FileKept'
    BY <1>1, <1>2, <1>3, <1>4 DEF FileKept, WrittenSoFar, Writing, Dump, Whole, Body
<1>10. ImportKept'
    BY <1>1, <1>2, <1>3, <1>4 DEF ImportKept, Dump
<1> QED
    BY <1>5, <1>6, <1>7, <1>8, <1>9, <1>10 DEF JobsInv

LEMMA TakeInv ==
    ASSUME JobsInv, NEW r \in Runs, Take(r)
    PROVE  JobsInv'
<1>1. Types /\ RunsFit /\ Beginning /\ DoneAtFirst /\ FileKept /\ ImportKept
    BY DEF JobsInv
<1>2. /\ task.at = "waiting" /\ run[r] = IdleRun
      /\ task' = [task EXCEPT !.at = "active"]
      /\ UNCHANGED <<jobKind, hasQueue, row, present, file, imported, counted, fresh, jobFaults,
                     disturbed, abandoned, unmarked>>
    BY DEF Take, dumpVars, importVars
<1>3. /\ run' \in [Runs -> RunStates]
      /\ run'[r].at = "load" /\ run'[r].by = "task" /\ run'[r].leased
      /\ \A q \in Runs \ {r} : run'[q] = run[q]
    <2>1. run' = [run EXCEPT ![r] = RunAt("load", "task", TRUE)]
        BY DEF Take
    <2> QED
        BY <2>1, <1>1, Begins
<1>4. run[r].at = "idle" /\ ~run[r].leased /\ run[r].by = "none"
    BY <1>2 DEF IdleRun, RunAt
<1>5. \A q \in Runs : ~run[q].leased
    BY <1>1, <1>2 DEF Types
<1>6. /\ task'.at = "active" /\ task'.retried = task.retried
      /\ task' \in [at : {"none", "waiting", "active", "done", "archived"},
                    retried : 0 .. MaxJobRetry]
    BY <1>1, <1>2 DEF Types
<1>7. Types'
    <2>1. OneLease'
        BY <1>3, <1>5 DEF OneLease
    <2> QED
        BY <2>1, <1>1, <1>2, <1>3, <1>6 DEF Types
<1>8. RunsFit'
    BY <1>1, <1>2, <1>3 DEF RunsFit, DumpStates, ImportStates, IdleRun, RunAt, Dump
<1>9. Beginning'
    <2>1. row # "none" /\ task # NoTask
        BY <1>1, <1>2 DEF Beginning, NoTask
    <2> QED
        BY <2>1, <1>1, <1>2, <1>3, <1>4 DEF Beginning
<1>10. DoneAtFirst'
    BY <1>1, <1>2, <1>6 DEF DoneAtFirst
<1>11. FileKept'
    BY <1>1, <1>2, <1>3, <1>4 DEF FileKept, WrittenSoFar, Writing, Dump, Whole, Body
<1>12. ImportKept'
    BY <1>1, <1>2, <1>3, <1>4 DEF ImportKept, Dump
<1> QED
    BY <1>7, <1>8, <1>9, <1>10, <1>11, <1>12 DEF JobsInv

LEMMA LoseLeaseInv ==
    ASSUME JobsInv, NEW r \in Runs, LoseLease(r)
    PROVE  JobsInv'
<1>1. Types /\ RunsFit /\ Beginning /\ DoneAtFirst /\ FileKept /\ ImportKept
    BY DEF JobsInv
<1>2. /\ run[r].leased /\ task' = Retried
      /\ UNCHANGED <<jobKind, hasQueue, row, present, file, imported, counted, fresh,
                     disturbed, unmarked>>
      /\ jobFaults < MaxJobFaults /\ jobFaults' = jobFaults + 1
    BY DEF LoseLease, dumpVars, importVars
<1>3. /\ run' \in [Runs -> RunStates]
      /\ run'[r].at = run[r].at /\ run'[r].by = run[r].by /\ run'[r].snap = run[r].snap
      /\ run'[r].next = run[r].next /\ run'[r].alone = run[r].alone /\ ~run'[r].leased
      /\ \A q \in Runs \ {r} : run'[q] = run[q]
    <2> DEFINE x == [run[r] EXCEPT !.leased = FALSE]
    <2>1. run[r] \in RunStates
        BY <1>1 DEF Types
    <2>2. /\ x \in RunStates /\ x.at = run[r].at /\ x.by = run[r].by /\ x.snap = run[r].snap
          /\ x.next = run[r].next /\ x.alone = run[r].alone /\ x.leased = FALSE
        BY <2>1 DEF RunStates
    <2>3. run' = [run EXCEPT ![r] = x]
        BY DEF LoseLease
    <2> HIDE DEF x
    <2> QED
        BY <2>2, <2>3, <1>1, RunChanges
<1>4. /\ task'.at \in {"waiting", "archived"} /\ (task'.retried = 0 => task'.at = "archived")
      /\ task' \in [at : {"none", "waiting", "active", "done", "archived"},
                    retried : 0 .. MaxJobRetry]
    BY <1>1, <1>2, RetriedType
<1>5. \A q \in Runs : ~run'[q].leased
    BY <1>1, <1>2, <1>3 DEF Types, OneLease
<1>6. Types'
    <2>1. OneLease'
        BY <1>5 DEF OneLease
    <2>2. jobFaults' \in 0 .. MaxJobFaults
        BY <1>1, <1>2, JobsAssumption DEF Types
    <2>3. LastAttempt(r) \in BOOLEAN
        BY DEF LastAttempt
    <2>4. abandoned' \in BOOLEAN
        BY <2>3, <1>1 DEF LoseLease, Types
    <2> QED
        BY <2>1, <2>2, <2>4, <1>1, <1>2, <1>3, <1>4, <1>5 DEF Types
<1>7. run[r].by = "task" /\ run[r] # IdleRun
    BY <1>1, <1>2 DEF RunsFit, IdleRun, RunAt
<1>8. RunsFit'
    BY <1>1, <1>2, <1>3, <1>7 DEF RunsFit, DumpStates, ImportStates, IdleRun, RunAt, Dump
<1>9. Beginning'
    <2>1. task.at = "active"
        BY <1>1, <1>2 DEF Types
    <2>2. row # "none" /\ task # NoTask
        BY <2>1, <1>1 DEF Beginning, NoTask
    <2> QED
        BY <2>2, <1>1, <1>2, <1>3, <1>7 DEF Beginning
<1>10. DoneAtFirst'
    BY <1>4, <1>5 DEF DoneAtFirst
<1>11. FileKept'
    <2>1. \A q \in Runs : /\ run'[q].at = run[q].at /\ run'[q].alone = run[q].alone
                          /\ WrittenSoFar(q) => WrittenSoFar(q)'
        BY <1>2, <1>3 DEF WrittenSoFar, Body
    <2>2. Whole(file) => Whole(file)'
        BY <1>2 DEF Whole, Body
    <2> QED
        BY <2>1, <2>2, <1>1, <1>2 DEF FileKept, Writing, Dump
<1>12. ImportKept'
    BY <1>1, <1>2, <1>3 DEF ImportKept, Dump
<1> QED
    BY <1>6, <1>8, <1>9, <1>10, <1>11, <1>12 DEF JobsInv

\* A run goes on, or has to record its failure.
LEMMA Moves ==
    ASSUME JobsInv, NEW r \in Runs, NEW at, GoTo(r, at),
           at \in {"open", "insert", "record"}, at = "insert" <=> ~Dump,
           at = "record" => run[r].by = "task",
           run[r].at \notin {"idle", "enqueue", "stale", "done", "recompute"},
           jobFaults' \in 0 .. MaxJobFaults,
           UNCHANGED <<jobKind, hasQueue, row, task, present, file, imported, counted, fresh,
                       disturbed, abandoned, unmarked>>
    PROVE  JobsInv'
<1>1. Types /\ RunsFit /\ Beginning /\ DoneAtFirst /\ FileKept /\ ImportKept
    BY DEF JobsInv
<1>2. /\ run' \in [Runs -> RunStates]
      /\ run'[r].at = at /\ run'[r].by = run[r].by /\ run'[r].leased = run[r].leased
      /\ \A q \in Runs \ {r} : run'[q] = run[q]
    BY <1>1, RunGoesTo
<1>3. run[r] # IdleRun /\ run[r].by # "none"
    BY <1>1 DEF RunsFit, IdleRun, RunAt
<1>4. Types'
    <2>1. OneLease' /\ ((\E q \in Runs : run'[q].leased) <=> (\E q \in Runs : run[q].leased))
        BY <1>1, <1>2 DEF Types, OneLease
    <2> QED
        BY <2>1, <1>1, <1>2 DEF Types
<1>5. RunsFit'
    BY <1>1, <1>2, <1>3 DEF RunsFit, DumpStates, ImportStates, IdleRun, RunAt, Dump
<1>6. Beginning'
    BY <1>1, <1>2, <1>3 DEF Beginning
<1>7. DoneAtFirst'
    BY <1>1, <1>2 DEF DoneAtFirst
<1>8. FileKept'
    <2>1. \A q \in Runs \ {r} : WrittenSoFar(q) => WrittenSoFar(q)'
        BY <1>2 DEF WrittenSoFar, Body
    <2>2. Whole(file) => Whole(file)'
        BY DEF Whole, Body
    <2>3. ~Writing(r)' /\ \A q \in Runs \ {r} : Writing(q)' <=> Writing(q)
        BY <1>2 DEF Writing
    <2> QED
        BY <2>1, <2>2, <2>3, <1>1, <1>2 DEF FileKept, Dump
<1>9. ImportKept'
    BY <1>1, <1>2 DEF ImportKept, Dump
<1> QED
    BY <1>4, <1>5, <1>6, <1>7, <1>8, <1>9 DEF JobsInv

LEMMA LoadInv ==
    ASSUME JobsInv, NEW r \in Runs, Load(r)
    PROVE  JobsInv'
<1> DEFINE at == IF Dump THEN "open" ELSE "insert"
<1>1. GoTo(r, at) /\ run[r].at = "load" /\ jobFaults' \in 0 .. MaxJobFaults
    BY DEF Load, Works, JobsInv, Types
<1>2. at \in {"open", "insert"} /\ (at = "insert" <=> ~Dump)
    OBVIOUS
<1>3. UNCHANGED <<jobKind, hasQueue, row, task, present, file, imported, counted, fresh,
                  disturbed, abandoned, unmarked>>
    BY DEF Load, dumpVars, importVars
<1> HIDE DEF at
<1> QED
    BY <1>1, <1>2, <1>3, Moves

LEMMA RecordsInv ==
    ASSUME JobsInv, NEW r \in Runs, RunFails(r), Records(r)
    PROVE  JobsInv'
<1>1. /\ GoTo(r, "record") /\ jobFaults < MaxJobFaults /\ jobFaults' = jobFaults + 1
      /\ UNCHANGED <<jobKind, hasQueue, row, task, present, file, imported, counted, fresh,
                     disturbed, abandoned, unmarked>>
    BY DEF RunFails, dumpVars
<1>2. Dump /\ run[r].by = "task" /\ run[r].at \notin {"idle", "done"}
    BY DEF RunFails, Records
<1>3. run[r].at \notin {"enqueue", "stale", "recompute"}
    BY <1>2 DEF JobsInv, RunsFit, Beginning, ImportStates
<1>4. jobFaults' \in 0 .. MaxJobFaults
    BY <1>1, JobsAssumption DEF JobsInv, Types
<1> QED
    BY <1>1, <1>2, <1>3, <1>4, Moves

\* The file is cut: nothing remains of what others have written or claimed.
LEMMA OpenInv ==
    ASSUME JobsInv, NEW r \in Runs, OpenFile(r)
    PROVE  JobsInv'
<1>1. Types /\ RunsFit /\ Beginning /\ DoneAtFirst /\ FileKept /\ ImportKept
    BY DEF JobsInv
<1>2. /\ run[r].at = "open" /\ file' = << >>
      /\ disturbed' = (disturbed \/ Claimed)
      /\ UNCHANGED <<jobKind, hasQueue, row, task, present, imported, counted, fresh, jobFaults,
                     abandoned, unmarked>>
    BY DEF OpenFile, Works, importVars
<1>3. /\ run' \in [Runs -> RunStates]
      /\ run'[r].at = "write" /\ run'[r].by = run[r].by /\ run'[r].leased = run[r].leased
      /\ run'[r].snap = present /\ run'[r].next = 1
      /\ run'[r].alone = ~\E o \in Runs : Writing(o)
      /\ \A q \in Runs \ {r} :
            /\ run'[q].at = run[q].at /\ run'[q].by = run[q].by /\ run'[q].snap = run[q].snap
            /\ run'[q].next = run[q].next /\ run'[q].leased = run[q].leased
            /\ run'[q].alone = FALSE
    <2> DEFINE lone == ~\E o \in Runs : Writing(o)
               x == [run[r] EXCEPT !.at = "write", !.snap = present, !.next = 1, !.alone = lone]
               y(q) == [run[q] EXCEPT !.alone = FALSE]
    <2>1. \A q \in Runs : run[q] \in RunStates
        BY <1>1 DEF Types
    <2>2. lone \in BOOLEAN /\ present \in 0 .. MaxStored /\ 1 \in 0 .. MaxStored + 3
        BY <1>1, JobsAssumption DEF Types
    <2>3. run' = [q \in Runs |-> IF q = r THEN x ELSE y(q)]
        BY DEF OpenFile
    <2> HIDE DEF lone
    <2>4. /\ x \in RunStates /\ x.at = "write" /\ x.by = run[r].by /\ x.leased = run[r].leased
          /\ x.snap = present /\ x.next = 1 /\ x.alone = lone
        BY <2>1, <2>2 DEF RunStates
    <2>5. \A q \in Runs :
            /\ y(q) \in RunStates /\ y(q).at = run[q].at /\ y(q).by = run[q].by
            /\ y(q).snap = run[q].snap /\ y(q).next = run[q].next
            /\ y(q).leased = run[q].leased /\ y(q).alone = FALSE
        BY <2>1 DEF RunStates
    <2> HIDE DEF x, y
    <2>6. run'[r] = x /\ \A q \in Runs \ {r} : run'[q] = y(q)
        BY <2>3
    <2>7. run' \in [Runs -> RunStates]
        BY <2>3, <2>4, <2>5
    <2> QED
        BY <2>4, <2>5, <2>6, <2>7 DEF lone
<1>4. Dump /\ run[r] # IdleRun /\ run[r].by # "none"
    BY <1>1, <1>2 DEF RunsFit, DumpStates, IdleRun, RunAt
<1>5. Types'
    <2>1. OneLease' /\ ((\E q \in Runs : run'[q].leased) <=> (\E q \in Runs : run[q].leased))
        BY <1>1, <1>3 DEF Types, OneLease
    <2>2. disturbed' \in BOOLEAN
        BY <1>1, <1>2 DEF Types, Claimed
    <2>3. file' \in Seq({Begin, Cell, End, Hole})
        BY <1>2
    <2> QED
        BY <2>1, <2>2, <2>3, <1>1, <1>2, <1>3 DEF Types
<1>6. \A q \in Runs \ {r} : run[q] = IdleRun => run'[q] = IdleRun
    <2> SUFFICES ASSUME NEW q \in Runs \ {r}, run[q] = IdleRun PROVE run'[q] = IdleRun
        OBVIOUS
    <2>1. run'[q] \in RunStates /\ IdleRun \in RunStates
        BY <1>1, <1>3 DEF Types
    <2>2. /\ run'[q].at = IdleRun.at /\ run'[q].by = IdleRun.by
          /\ run'[q].snap = IdleRun.snap /\ run'[q].next = IdleRun.next
          /\ run'[q].leased = IdleRun.leased /\ run'[q].alone = IdleRun.alone
        BY <1>3 DEF IdleRun, RunAt
    <2> QED
        BY <2>1, <2>2 DEF RunStates
<1>7. RunsFit'
    <2>1. \A q \in Runs : run'[q] = IdleRun => run'[q].by = "none" /\ run'[q].at = "idle"
        BY DEF IdleRun, RunAt
    <2>2. run'[r].next \in 1 .. run'[r].snap + 2
        BY <1>1, <1>3, JobsAssumption DEF Types
    <2>3. \A q \in Runs \ {r} : (run'[q].by = "none" <=> run'[q] = IdleRun)
                                /\ (run'[q].at = "idle" => run'[q] = IdleRun)
        BY <2>1, <1>1, <1>3, <1>6 DEF RunsFit
    <2> QED
        BY <2>1, <2>2, <2>3, <1>1, <1>2, <1>3, <1>4 DEF RunsFit, DumpStates, ImportStates, Dump
<1>8. Beginning'
    BY <1>1, <1>2, <1>3, <1>4, <1>6 DEF Beginning
<1>9. DoneAtFirst'
    BY <1>1, <1>2, <1>3 DEF DoneAtFirst
<1>10. FileKept'
    <2>1. \A q \in Runs \ {r} : ~(run'[q].alone)
        BY <1>3
    <2>2. run'[r].alone => WrittenSoFar(r)' /\ \A q \in Runs \ {r} : ~Writing(q)'
        <3>1. WrittenSoFar(r)'
            <4>1. SubSeq(Body(run'[r].snap), 1, run'[r].next - 1) = << >>
                BY <1>3, SubSeqEmpty
            <4> QED
                BY <4>1, <1>2, <1>3 DEF WrittenSoFar, Body
        <3>2. run'[r].alone => \A q \in Runs : run[q].at # "write"
            BY <1>3 DEF Writing
        <3>3. \A q \in Runs \ {r} : run'[q].at = run[q].at
            BY <1>3
        <3>4. run'[r].alone => \A q \in Runs \ {r} : run'[q].at # "write"
            BY <3>2, <3>3
        <3> QED
            BY <3>1, <3>4, Zenon DEF Writing
    <2>3. file' # Missing
        BY <1>2 DEF Missing
    <2>4. CASE Claimed
        BY <2>1, <2>2, <2>4, <2>3, <1>2 DEF FileKept
    <2>5. CASE ~Claimed
        <3>1. \A q \in Runs \ {r} : run'[q].at \notin {"write", "complete"}
            BY <2>5, <1>3 DEF Claimed
        <3>2. row' # "Completed" /\ run'[r].at = "write" /\ run'[r].alone
            BY <2>5, <1>2, <1>3 DEF Claimed, Writing
        <3>3. ~\E q \in Runs : run'[q].at = "complete"
            BY <3>1, <3>2
        <3> QED
            BY <2>2, <2>3, <3>1, <3>2, <3>3 DEF FileKept, Writing
    <2> QED
        BY <2>4, <2>5
<1>11. ImportKept'
    BY <1>1, <1>2, <1>3, <1>4 DEF ImportKept, Dump
<1> QED
    BY <1>5, <1>7, <1>8, <1>9, <1>10, <1>11 DEF JobsInv

\* Writing alone, a run extends what it has written; its last cell makes the
\* file whole.
LEMMA WriteInv ==
    ASSUME JobsInv, NEW r \in Runs, WriteCells(r)
    PROVE  JobsInv'
<1> DEFINE n == run[r].next
           body == Body(run[r].snap)
           last == IF jobKind = "daily" THEN LastCell(r) ELSE n
           at == IF last >= LastCell(r) THEN "complete" ELSE "write"
<1>1. Types /\ RunsFit /\ Beginning /\ DoneAtFirst /\ FileKept /\ ImportKept
    BY DEF JobsInv
<1>2. /\ run[r].at = "write" /\ file' = PutCells(file, n, SubSeq(body, n, last))
      /\ disturbed' = (disturbed /\ (~run[r].alone \/ last < LastCell(r)))
      /\ UNCHANGED <<jobKind, hasQueue, row, task, present, imported, counted, fresh, jobFaults,
                     abandoned, unmarked>>
    BY DEF WriteCells, Writing, importVars
<1>3. /\ run[r].snap \in Nat /\ run[r].snap <= MaxStored /\ LastCell(r) = run[r].snap + 2
      /\ n \in 1 .. run[r].snap + 2
    BY <1>1, <1>2, JobsAssumption DEF Types, RunStates, RunsFit, LastCell
<1>4. last \in n .. run[r].snap + 2 /\ (at = "complete" <=> last = run[r].snap + 2)
      /\ at \in {"write", "complete"}
    BY <1>3
<1> HIDE DEF last, at
<1>5. /\ run' \in [Runs -> RunStates]
      /\ run'[r].at = at /\ run'[r].by = run[r].by /\ run'[r].leased = run[r].leased
      /\ run'[r].snap = run[r].snap /\ run'[r].next = last + 1 /\ run'[r].alone = run[r].alone
      /\ \A q \in Runs \ {r} : run'[q] = run[q]
    <2> DEFINE x == [run[r] EXCEPT !.next = last + 1, !.at = at]
    <2>1. run[r] \in RunStates
        BY <1>1 DEF Types
    <2>2. last + 1 \in 0 .. MaxStored + 3
        BY <1>3, <1>4, JobsAssumption
    <2>3. /\ x \in RunStates /\ x.at = at /\ x.by = run[r].by /\ x.snap = run[r].snap
          /\ x.next = last + 1 /\ x.alone = run[r].alone /\ x.leased = run[r].leased
        BY <1>4, <2>1, <2>2 DEF RunStates
    <2>4. run' = [run EXCEPT ![r] = x]
        BY DEF WriteCells, last, at
    <2> HIDE DEF x
    <2> QED
        BY <2>3, <2>4, <1>1, RunChanges
<1>6. Dump /\ run[r] # IdleRun /\ run[r].by # "none"
    BY <1>1, <1>2 DEF RunsFit, DumpStates, IdleRun, RunAt
<1>7. file' \in Seq(Cells) /\ file' # Missing
    <2>1. file \in Seq(Cells)
        BY <1>1, <1>2 DEF Types, FileKept, Writing, Cells
    <2>2. file' \in Seq(Cells)
        BY <2>1, <1>2, <1>3, <1>4, PutType
    <2>3. Missing \notin Seq(Cells)
        <3>1. Missing[1] = "missing" /\ Len(Missing) = 1
            BY DEF Missing
        <3> SUFFICES ASSUME Missing \in Seq(Cells) PROVE FALSE
            OBVIOUS
        <3>2. 1 \in 1 .. Len(Missing)
            BY <3>1
        <3> HIDE DEF Missing
        <3>3. Missing[1] \in Cells
            BY <3>2, ElementOfSeq
        <3> QED
            BY <3>1, <3>3 DEF Cells, Begin, Cell, End, Hole
    <2> QED
        BY <2>2, <2>3
<1>8. Types'
    <2>1. OneLease' /\ ((\E q \in Runs : run'[q].leased) <=> (\E q \in Runs : run[q].leased))
        BY <1>1, <1>5 DEF Types, OneLease
    <2>2. disturbed' \in BOOLEAN
        BY <1>1, <1>2 DEF Types
    <2> QED
        BY <2>1, <2>2, <1>1, <1>2, <1>5, <1>7 DEF Types, Cells
<1>9. RunsFit'
    <2>1. at = "write" => last + 1 \in 1 .. run[r].snap + 2
        BY <1>3, <1>4
    <2> QED
        BY <2>1, <1>1, <1>2, <1>4, <1>5, <1>6
        DEF RunsFit, DumpStates, ImportStates, Dump, IdleRun, RunAt
<1>10. Beginning'
    BY <1>1, <1>2, <1>4, <1>5, <1>6 DEF Beginning
<1>11. DoneAtFirst'
    BY <1>1, <1>2, <1>5 DEF DoneAtFirst
<1>12. FileKept'
    <2>1. CASE ~run[r].alone
        <3>1. disturbed /\ disturbed'
            BY <2>1, <1>1, <1>2 DEF FileKept, Writing
        <3>2. \A q \in Runs \ {r} : Writing(q) => ~run[q].alone
            BY <1>1, <1>2 DEF FileKept, Writing
        <3> QED
            BY <3>1, <3>2, <2>1, <1>2, <1>5, <1>7 DEF FileKept, Writing
    <2>2. CASE run[r].alone
        <3>1. file = SubSeq(body, 1, n - 1) /\ \A q \in Runs \ {r} : ~Writing(q)
            BY <2>2, <1>1, <1>2 DEF FileKept, Writing, WrittenSoFar
        <3>2. body \in Seq(Cells) /\ Len(body) = run[r].snap + 2
            BY <1>3, BodyType
        <3>3. file' = SubSeq(body, 1, last)
            BY <3>1, <3>2, <1>2, <1>3, <1>4, PutExtends
        <3>4. \A q \in Runs \ {r} : ~Writing(q)'
            BY <3>1, <1>5 DEF Writing
        <3>5. CASE at = "complete"
            <4>1. file' = body
                BY <3>2, <3>3, <3>5, <1>4, SubSeqFull
            <4>2. run[r].snap \in 0 .. MaxStored
                BY <1>3, JobsAssumption
            <4> HIDE DEF body
            <4>3. \E k \in 0 .. MaxStored : file' = Body(k)
                BY <4>1, <4>2 DEF body
            <4>4. Whole(file)'
                BY <4>3 DEF Whole, Body
            <4>5. \A q \in Runs : ~Writing(q)'
                BY <3>4, <3>5, <1>5 DEF Writing
            <4> QED
                BY <4>4, <4>5 DEF FileKept
        <3>6. CASE at = "write"
            <4>1. disturbed' = disturbed
                BY <3>6, <1>1, <1>2, <1>3, <1>4 DEF Types
            <4>2. disturbed \/ (row # "Completed" /\ ~\E q \in Runs : run[q].at = "complete")
                BY <1>1, <1>2, <1>6 DEF FileKept, Writing
            <4>3. ~\E q \in Runs \ {r} : run'[q].at = "complete" /\ run[q].at # "complete"
                BY <1>5
            <4>4. disturbed \/ (row' # "Completed" /\ ~\E q \in Runs : run'[q].at = "complete")
                BY <3>6, <4>2, <4>3, <1>2, <1>5
            <4>5. WrittenSoFar(r)'
                <5>1. run'[r].next - 1 = last
                    BY <1>3, <1>4, <1>5
                <5> QED
                    BY <5>1, <3>3, <1>5 DEF WrittenSoFar, Body
            <4> QED
                BY <2>2, <3>4, <4>1, <4>4, <4>5, <1>5, <1>7 DEF FileKept, Writing
        <3> QED
            BY <3>5, <3>6, <1>4
    <2> QED
        BY <2>1, <2>2
<1>13. ImportKept'
    BY <1>1, <1>2, <1>4, <1>5, <1>6 DEF ImportKept, Dump
<1> QED
    BY <1>8, <1>9, <1>10, <1>11, <1>12, <1>13 DEF JobsInv

\* The work of a run is done.
LEMMA EndRunChanges ==
    ASSUME JobsInv, NEW r \in Runs, EndRun(r)
    PROVE  /\ run' \in [Runs -> RunStates] /\ task' = task
           /\ run'[r].leased = run[r].leased
           /\ \/ run[r].leased /\ run'[r].at = "done" /\ run'[r].by = "task"
              \/ ~run[r].leased /\ run'[r] = IdleRun /\ run'[r].at = "idle"
                 /\ run'[r].by = "none"
           /\ \A q \in Runs \ {r} : run'[q] = run[q]
<1>1. Types /\ RunsFit
    BY DEF JobsInv
<1>2. CASE run[r].leased
    <2>1. GoTo(r, "done") /\ task' = task
        BY <1>2 DEF EndRun
    <2>2. run[r].by = "task"
        BY <1>1, <1>2 DEF RunsFit
    <2> QED
        BY <1>1, <1>2, <2>1, <2>2, RunGoesTo
<1>3. CASE ~run[r].leased
    <2>1. run' = [run EXCEPT ![r] = IdleRun] /\ task' = task
        BY <1>3 DEF EndRun
    <2>2. run'[r].leased = FALSE /\ run[r].leased = FALSE
        BY <2>1, <1>1, <1>3, RunEnds DEF Types, RunStates, IdleRun, RunAt
    <2> QED
        BY <1>1, <1>3, <2>1, <2>2, RunEnds
<1> QED
    BY <1>2, <1>3

\* Dumps and imports: the row says that the job is done, or the run ends.
LEMMA DoneInv ==
    ASSUME JobsInv, NEW r \in Runs, EndRun(r),
           run[r].by # "none", run[r].by = "task" => run[r].leased,
           run[r].at \in {"complete", "mark", "recompute"},
           row' = row \/ (row' = "Completed" /\ run[r].by # "download"),
           run[r].at = "recompute" => row' = row,
           UNCHANGED <<jobKind, hasQueue, present, file, imported, jobFaults, disturbed, abandoned,
                       unmarked>>,
           UNCHANGED <<counted, fresh>> \/ (counted' = imported /\ fresh' = TRUE)
    PROVE  JobsInv'
<1>1. Types /\ RunsFit /\ Beginning /\ DoneAtFirst /\ FileKept /\ ImportKept
    BY DEF JobsInv
<1>2. /\ run' \in [Runs -> RunStates] /\ task' = task
      /\ run'[r].leased = run[r].leased
      /\ \/ run[r].leased /\ run'[r].at = "done" /\ run'[r].by = "task"
         \/ ~run[r].leased /\ run'[r] = IdleRun /\ run'[r].at = "idle"
            /\ run'[r].by = "none"
      /\ \A q \in Runs \ {r} : run'[q] = run[q]
    BY EndRunChanges
<1>3. Types'
    <2>1. OneLease' /\ ((\E q \in Runs : run'[q].leased) <=> (\E q \in Runs : run[q].leased))
        BY <1>1, <1>2 DEF Types, OneLease
    <2>2. /\ row' \in {"none", "Pending", "Completed", "Failed"}
          /\ counted' \in BOOLEAN /\ fresh' \in BOOLEAN
        BY <1>1 DEF Types
    <2> QED
        BY <2>1, <2>2, <1>1, <1>2 DEF Types
<1>4. RunsFit'
    BY <1>1, <1>2 DEF RunsFit, DumpStates, ImportStates, Dump, IdleRun, RunAt
<1>5. Beginning'
    <2>1. row # "none" /\ row' # "none"
        BY <1>1 DEF Beginning, IdleRun, RunAt
    <2>2. \A q \in Runs \ {r} : ~(run[q].by = "create" /\ run[q].at = "enqueue")
        BY <1>1 DEF Beginning, IdleRun, RunAt
    <2> QED
        BY <2>1, <2>2, <1>1, <1>2 DEF Beginning
<1>6. DoneAtFirst'
    <2> SUFFICES ASSUME row' = "Completed", task.retried = 0
                 PROVE  /\ task.at # "waiting"
                        /\ \A q \in Runs : run'[q].leased => run'[q].at \in {"done", "recompute"}
        BY <1>2 DEF DoneAtFirst
    <2>1. CASE row = "Completed"
        BY <2>1, <1>1, <1>2 DEF DoneAtFirst
    <2>2. CASE run[r].by = "task"
        <3>1. run[r].leased /\ task.at = "active" /\ \A q \in Runs \ {r} : ~run[q].leased
            BY <2>2, <1>1 DEF Types, OneLease
        <3> QED
            BY <3>1, <1>2
    <2>3. CASE run[r].by = "create"
        <3>1. task.at = "none"
            BY <2>3, <1>1 DEF Beginning, NoTask
        <3>2. \A q \in Runs : ~run[q].leased
            BY <3>1, <1>1 DEF Types
        <3> QED
            BY <3>1, <3>2, <1>2
    <2>4. run[r].by \in {"none", "task", "create", "download"}
        BY <1>1 DEF Types, RunStates
    <2> QED
        BY <2>1, <2>2, <2>3, <2>4
<1>7. FileKept'
    <2>1. \A q \in Runs : WrittenSoFar(q) /\ q # r => WrittenSoFar(q)'
        BY <1>2 DEF WrittenSoFar, Body
    <2>2. Whole(file) => Whole(file)'
        BY DEF Whole, Body
    <2>3. ~Writing(r)' /\ \A q \in Runs \ {r} : Writing(q)' <=> Writing(q)
        BY <1>2 DEF Writing
    <2>4. Dump => row' = row \/ run[r].at = "complete"
        BY <1>1 DEF RunsFit, ImportStates
    <2> QED
        BY <2>1, <2>2, <2>3, <2>4, <1>1, <1>2 DEF FileKept, Dump
<1>8. ImportKept'
    <2>1. ~Dump => imported \/ (row' = row /\ run[r].at # "mark")
        BY <1>1 DEF ImportKept, RunsFit, DumpStates
    <2> QED
        BY <2>1, <1>1, <1>2 DEF ImportKept, Dump
<1> QED
    BY <1>3, <1>4, <1>5, <1>6, <1>7, <1>8 DEF JobsInv

LEMMA CompleteInv ==
    ASSUME JobsInv, NEW r \in Runs, CompleteDump(r)
    PROVE  JobsInv'
<1>1. /\ run[r].at = "complete" /\ (run[r].by = "task" => run[r].leased)
      /\ row' = (IF run[r].by = "download" THEN row ELSE "Completed") /\ EndRun(r)
      /\ UNCHANGED <<jobKind, hasQueue, present, file, imported, counted, fresh, jobFaults,
                     disturbed, abandoned, unmarked>>
    BY DEF CompleteDump, Works, dumpVars, importVars
<1>2. run[r].by # "none"
    BY <1>1 DEF JobsInv, RunsFit, IdleRun, RunAt
<1> QED
    BY <1>1, <1>2, DoneInv

\* The queue forgets a task that is done.
LEMMA AcknowledgeInv ==
    ASSUME JobsInv, NEW r \in Runs, Acknowledge(r)
    PROVE  JobsInv'
<1>1. Types /\ RunsFit /\ Beginning /\ DoneAtFirst /\ FileKept /\ ImportKept
    BY DEF JobsInv
<1>2. /\ run[r].at = "done" /\ (run[r].by = "task" => run[r].leased)
      /\ run' = [run EXCEPT ![r] = IdleRun] /\ task' = [task EXCEPT !.at = "done"]
      /\ UNCHANGED <<jobKind, hasQueue, row, present, file, imported, counted, fresh, jobFaults,
                     disturbed, abandoned, unmarked>>
    BY DEF Acknowledge, Works, dumpVars, importVars
<1>3. /\ run' \in [Runs -> RunStates]
      /\ run'[r] = IdleRun
      /\ run'[r].at = "idle" /\ run'[r].by = "none" /\ ~run'[r].leased
      /\ \A q \in Runs \ {r} : run'[q] = run[q]
    BY <1>1, <1>2, RunEnds
<1>4. run[r].leased /\ task.at = "active" /\ \A q \in Runs : ~run'[q].leased
    BY <1>1, <1>2, <1>3 DEF Types, OneLease, RunsFit
<1>5. /\ task'.at = "done"
      /\ task' \in [at : {"none", "waiting", "active", "done", "archived"},
                    retried : 0 .. MaxJobRetry]
    BY <1>1, <1>2 DEF Types
<1>6. Types'
    <2>1. OneLease'
        BY <1>4 DEF OneLease
    <2> QED
        BY <2>1, <1>1, <1>2, <1>3, <1>4, <1>5 DEF Types
<1>7. RunsFit'
    BY <1>1, <1>2, <1>3 DEF RunsFit, DumpStates, ImportStates, Dump, IdleRun, RunAt
<1>8. Beginning'
    <2>1. row # "none" /\ task # NoTask
        BY <1>1, <1>2, <1>4 DEF Beginning, IdleRun, RunAt, NoTask
    <2>2. \A q \in Runs : run[q].by # "create" /\ run[q].at # "enqueue"
        BY <2>1, <1>1 DEF Beginning
    <2> QED
        BY <2>1, <2>2, <1>2, <1>3 DEF Beginning
<1>9. DoneAtFirst'
    BY <1>4, <1>5 DEF DoneAtFirst
<1>10. FileKept'
    <2>1. \A q \in Runs \ {r} : WrittenSoFar(q) => WrittenSoFar(q)'
        BY <1>2, <1>3 DEF WrittenSoFar, Body
    <2>2. Whole(file) => Whole(file)'
        BY <1>2 DEF Whole, Body
    <2>3. ~Writing(r)' /\ \A q \in Runs \ {r} : Writing(q)' <=> Writing(q)
        BY <1>3 DEF Writing
    <2> QED
        BY <2>1, <2>2, <2>3, <1>1, <1>2, <1>3 DEF FileKept, Dump
<1>11. ImportKept'
    BY <1>1, <1>2, <1>3 DEF ImportKept, Dump
<1> QED
    BY <1>6, <1>7, <1>8, <1>9, <1>10, <1>11 DEF JobsInv

\* What no run does: a file is lost, a heartbeat is stored, the statistics are
\* computed.
LEMMA OtherInv ==
    ASSUME JobsInv, LoseFile \/ StoreHeartbeat \/ ViewStats
    PROVE  JobsInv'
<1>1. Types /\ RunsFit /\ Beginning /\ DoneAtFirst /\ FileKept /\ ImportKept
    BY DEF JobsInv
<1>2. UNCHANGED <<jobKind, hasQueue, row, task, run, imported, abandoned, disturbed, unmarked>>
    BY DEF LoseFile, StoreHeartbeat, ViewStats, dumpVars, importVars
<1>3. /\ file' = file \/ (file' = Missing /\ ~\E r \in Runs : Writing(r))
      /\ UNCHANGED <<counted, fresh>> \/ (counted' = imported /\ fresh' = TRUE)
    BY DEF LoseFile, StoreHeartbeat, ViewStats, dumpVars, importVars
<1>4. present' \in 0 .. MaxStored /\ jobFaults' \in 0 .. MaxJobFaults
    BY <1>1, JobsAssumption DEF Types, LoseFile, StoreHeartbeat, ViewStats
<1>5. Types'
    <2>1. OneLease' /\ (task'.at = "active" <=> \E r \in Runs : run'[r].leased)
        BY <1>1, <1>2 DEF Types, OneLease
    <2>2. /\ file' = Missing \/ file' \in Seq({Begin, Cell, End, Hole})
          /\ counted' \in BOOLEAN /\ fresh' \in BOOLEAN
        BY <1>1, <1>3 DEF Types
    <2> QED
        BY <2>1, <2>2, <1>1, <1>2, <1>4 DEF Types
<1>6. RunsFit' /\ Beginning' /\ DoneAtFirst'
    BY <1>1, <1>2 DEF RunsFit, Beginning, DoneAtFirst, Dump, IdleRun, RunAt
<1>7. FileKept'
    <2>1. \A q \in Runs : file' = file /\ WrittenSoFar(q) => WrittenSoFar(q)'
        BY <1>2 DEF WrittenSoFar, Body
    <2>2. file' = file /\ Whole(file) => Whole(file)'
        BY DEF Whole, Body
    <2>3. \A q \in Runs : Writing(q)' <=> Writing(q)
        BY <1>2 DEF Writing
    <2> QED
        BY <2>1, <2>2, <2>3, <1>1, <1>2, <1>3 DEF FileKept, Dump
<1>8. ImportKept'
    BY <1>1, <1>2, <1>3 DEF ImportKept, Dump
<1> QED
    BY <1>5, <1>6, <1>7, <1>8 DEF JobsInv

\* An import that goes on holds the heartbeats it stands for.
LEMMA InsertInv ==
    ASSUME JobsInv, NEW r \in Runs, InsertImport(r)
    PROVE  JobsInv'
<1> DEFINE at == IF MarksStale(~imported) THEN "stale" ELSE "mark"
           next == IF imported THEN 0 ELSE 1
<1>1. Types /\ RunsFit /\ Beginning /\ DoneAtFirst /\ FileKept /\ ImportKept
    BY DEF JobsInv
<1>2. /\ run[r].at = "insert" /\ imported' = TRUE
      /\ UNCHANGED <<jobKind, hasQueue, row, task, present, file, counted, fresh, jobFaults,
                     disturbed, abandoned, unmarked>>
    BY DEF InsertImport, Works, dumpVars
<1>3. /\ at \in {"stale", "mark"} /\ (at = "mark" => imported) /\ next \in 0 .. MaxStored + 3
      /\ imported \/ at = "stale"
    BY <1>1, JobsAssumption DEF MarksStale, Types
<1>4. /\ run' \in [Runs -> RunStates]
      /\ run'[r].at = at /\ run'[r].by = run[r].by /\ run'[r].leased = run[r].leased
      /\ \A q \in Runs \ {r} : run'[q] = run[q]
    <2> DEFINE x == [run[r] EXCEPT !.at = at, !.next = next]
    <2> HIDE DEF at, next
    <2>1. run[r] \in RunStates
        BY <1>1 DEF Types
    <2>2. x \in RunStates /\ x.at = at /\ x.by = run[r].by /\ x.leased = run[r].leased
        BY <1>3, <2>1 DEF RunStates
    <2>3. run' = [run EXCEPT ![r] = x]
        BY DEF InsertImport, at, next
    <2> HIDE DEF x
    <2> QED
        BY <2>2, <2>3, <1>1, RunChanges
<1> HIDE DEF at, next
<1>5. ~Dump /\ run[r] # IdleRun /\ run[r].by # "none"
    BY <1>1, <1>2 DEF RunsFit, ImportStates, IdleRun, RunAt
<1>6. Types'
    <2>1. OneLease' /\ ((\E q \in Runs : run'[q].leased) <=> (\E q \in Runs : run[q].leased))
        BY <1>1, <1>4 DEF Types, OneLease
    <2> QED
        BY <2>1, <1>1, <1>2, <1>4 DEF Types
<1>7. RunsFit'
    BY <1>1, <1>2, <1>3, <1>4, <1>5
    DEF RunsFit, DumpStates, ImportStates, Dump, IdleRun, RunAt
<1>8. Beginning'
    BY <1>1, <1>2, <1>3, <1>4, <1>5 DEF Beginning
<1>9. DoneAtFirst'
    BY <1>1, <1>2, <1>4 DEF DoneAtFirst
<1>10. FileKept'
    BY <1>2, <1>5, <1>7 DEF FileKept, RunsFit, DumpStates, Writing, Dump
<1>11. ImportKept'
    <2>1. CASE at = "stale"
        BY <2>1, <1>2, <1>4 DEF ImportKept
    <2>2. CASE at = "mark"
        <3>1. imported' = imported
            BY <2>2, <1>1, <1>2, <1>3 DEF Types
        <3> QED
            BY <3>1, <1>1, <1>2, <1>4 DEF ImportKept, Dump
    <2> QED
        BY <2>1, <2>2, <1>3
<1> QED
    BY <1>6, <1>7, <1>8, <1>9, <1>10, <1>11 DEF JobsInv

LEMMA MarkStaleInv ==
    ASSUME JobsInv, NEW r \in Runs, MarkStale(r)
    PROVE  JobsInv'
<1>1. Types /\ RunsFit /\ Beginning /\ DoneAtFirst /\ FileKept /\ ImportKept
    BY DEF JobsInv
<1>2. /\ run[r].at = "stale" /\ fresh' = FALSE /\ GoTo(r, "mark")
      /\ UNCHANGED <<jobKind, hasQueue, row, task, present, file, imported, counted, jobFaults,
                     disturbed, abandoned, unmarked>>
    BY DEF MarkStale, Works, dumpVars
<1>3. /\ run' \in [Runs -> RunStates]
      /\ run'[r].at = "mark" /\ run'[r].by = run[r].by /\ run'[r].leased = run[r].leased
      /\ \A q \in Runs \ {r} : run'[q] = run[q]
    BY <1>1, <1>2, RunGoesTo
<1>4. ~Dump /\ run[r] # IdleRun /\ run[r].by # "none" /\ imported
    BY <1>1, <1>2 DEF RunsFit, ImportStates, ImportKept, IdleRun, RunAt
<1>5. Types'
    <2>1. OneLease' /\ ((\E q \in Runs : run'[q].leased) <=> (\E q \in Runs : run[q].leased))
        BY <1>1, <1>3 DEF Types, OneLease
    <2>2. task'.at = "active" <=> \E q \in Runs : run'[q].leased
        BY <2>1, <1>1, <1>2 DEF Types
    <2>3. fresh' \in BOOLEAN
        BY <1>2
    <2> QED
        BY <2>1, <2>2, <2>3, <1>1, <1>2, <1>3 DEF Types
<1>6. RunsFit'
    BY <1>1, <1>2, <1>3, <1>4 DEF RunsFit, DumpStates, ImportStates, Dump, IdleRun, RunAt
<1>7. Beginning'
    BY <1>1, <1>2, <1>3, <1>4 DEF Beginning
<1>8. DoneAtFirst'
    BY <1>1, <1>2, <1>3 DEF DoneAtFirst
<1>9. FileKept'
    BY <1>2, <1>4, <1>6 DEF FileKept, RunsFit, DumpStates, Writing, Dump
<1>10. ImportKept'
    BY <1>2, <1>4 DEF ImportKept
<1> QED
    BY <1>5, <1>6, <1>7, <1>8, <1>9, <1>10 DEF JobsInv

\* The row says that the import is done; the statistics may follow.
LEMMA ProcessedInv ==
    ASSUME JobsInv, NEW r \in Runs, MarkProcessed(r)
    PROVE  JobsInv'
<1>1. Types /\ RunsFit /\ Beginning /\ DoneAtFirst /\ FileKept /\ ImportKept
    BY DEF JobsInv
<1>2. /\ run[r].at = "mark" /\ (run[r].by = "task" => run[r].leased) /\ row' = "Completed"
      /\ UNCHANGED <<jobKind, hasQueue, present, file, imported, counted, fresh, jobFaults,
                     disturbed, abandoned, unmarked>>
    BY DEF MarkProcessed, Works, dumpVars, importVars
<1>3. ~Dump /\ run[r] # IdleRun /\ run[r].by \notin {"none", "download"} /\ imported
    BY <1>1, <1>2 DEF RunsFit, ImportStates, ImportKept, IdleRun, RunAt
<1>4. CASE EndRun(r)
    BY <1>2, <1>3, <1>4, DoneInv
<1>5. CASE run[r].by = "task" /\ GoTo(r, "recompute") /\ task' = task
    <2>1. /\ run' \in [Runs -> RunStates]
          /\ run'[r].at = "recompute" /\ run'[r].by = "task" /\ run'[r].leased
          /\ \A q \in Runs \ {r} : run'[q] = run[q]
        BY <1>1, <1>2, <1>5, RunGoesTo
    <2>2. task.at = "active" /\ \A q \in Runs \ {r} : ~run'[q].leased
        BY <2>1, <1>1, <1>2, <1>5 DEF Types, OneLease
    <2>3. Types'
        <3>1. OneLease' /\ \E q \in Runs : run'[q].leased
            BY <2>1, <2>2 DEF OneLease
        <3> QED
            BY <3>1, <2>1, <2>2, <1>1, <1>2, <1>5 DEF Types
    <2>4. RunsFit'
        BY <2>1, <1>1, <1>2, <1>3 DEF RunsFit, DumpStates, ImportStates, Dump, IdleRun, RunAt
    <2>5. Beginning'
        <3>1. row # "none" /\ task # NoTask
            BY <2>2, <1>1, <1>3 DEF Beginning, NoTask
        <3> QED
            BY <3>1, <2>1, <1>1, <1>2, <1>5 DEF Beginning
    <2>6. DoneAtFirst'
        BY <2>1, <2>2, <1>5 DEF DoneAtFirst
    <2>7. FileKept'
        BY <2>4, <1>2, <1>3 DEF FileKept, RunsFit, DumpStates, Writing, Dump
    <2>8. ImportKept'
        BY <2>1, <1>1, <1>2, <1>3 DEF ImportKept, Dump
    <2> QED
        BY <2>3, <2>4, <2>5, <2>6, <2>7, <2>8 DEF JobsInv
<1> QED
    BY <1>4, <1>5 DEF MarkProcessed

LEMMA RecomputeInv ==
    ASSUME JobsInv, NEW r \in Runs, RecomputeStats(r)
    PROVE  JobsInv'
<1>1. /\ run[r].at = "recompute" /\ (run[r].by = "task" => run[r].leased) /\ EndRun(r)
      /\ counted' = imported /\ fresh' = TRUE
      /\ UNCHANGED <<jobKind, hasQueue, row, present, file, imported, jobFaults, disturbed,
                     abandoned, unmarked>>
    BY DEF RecomputeStats, Works, dumpVars
<1>2. run[r].by # "none"
    BY <1>1 DEF JobsInv, RunsFit, IdleRun, RunAt
<1> QED
    BY <1>1, <1>2, DoneInv

LEMMA StutterInv ==
    ASSUME JobsInv, UNCHANGED jobVars
    PROVE  JobsInv'
<1>1. Types /\ RunsFit /\ Beginning /\ DoneAtFirst /\ FileKept /\ ImportKept
    BY DEF JobsInv
<1>2. UNCHANGED <<jobKind, hasQueue, row, task, run, file, present, imported, counted, fresh,
                  jobFaults, disturbed, abandoned, unmarked>>
    BY DEF jobVars
<1>3. Types' /\ RunsFit' /\ Beginning' /\ DoneAtFirst' /\ ImportKept'
    BY <1>1, <1>2 DEF Types, OneLease, RunsFit, Beginning, DoneAtFirst, ImportKept, Dump
<1>4. FileKept'
    BY <1>1, <1>2 DEF FileKept, WrittenSoFar, Writing, Whole, Body, Dump
<1> QED
    BY <1>3, <1>4 DEF JobsInv

LEMMA InvNext == JobsInv /\ [JobsNext]_jobVars => JobsInv'
<1> SUFFICES ASSUME JobsInv, [JobsNext]_jobVars PROVE JobsInv'
    OBVIOUS
<1>1. ASSUME NEW r \in Runs, CreateJob(r) \/ Download(r) \/ Take(r) PROVE JobsInv'
    BY <1>1, CreateInv, DownloadInv, TakeInv
<1>2. ASSUME NEW r \in Runs, RunStep(r) PROVE JobsInv'
    <2>1. CASE EnqueueJob(r) \/ Load(r) \/ OpenFile(r)
        BY <2>1, EnqueueInv, LoadInv, OpenInv
    <2>2. CASE WriteCells(r) \/ CompleteDump(r)
        BY <2>2, WriteInv, CompleteInv
    <2>3. CASE InsertImport(r) \/ MarkStale(r) \/ MarkProcessed(r)
        BY <2>3, InsertInv, MarkStaleInv, ProcessedInv
    <2>4. CASE RecomputeStats(r) \/ Acknowledge(r)
        BY <2>4, RecomputeInv, AcknowledgeInv
    <2>5. CASE RecordFailure(r) \/ EndExpired(r)
        BY <2>5, FailureInv
    <2> QED
        BY <2>1, <2>2, <2>3, <2>4, <2>5, <1>2 DEF RunStep
<1>3. ASSUME NEW r \in Runs, RunFails(r) PROVE JobsInv'
    BY <1>3, RecordsInv, FailureInv
<1>4. ASSUME NEW r \in Runs, CrashRun(r) \/ LoseLease(r) PROVE JobsInv'
    BY <1>4, LoseLeaseInv, FailureInv
<1>5. CASE LoseFile \/ StoreHeartbeat \/ ViewStats
    BY <1>5, OtherInv
<1>6. CASE UNCHANGED jobVars
    BY <1>6, StutterInv
<1> QED
    BY <1>1, <1>2, <1>3, <1>4, <1>5, <1>6 DEF JobsNext

-----------------------------------------------------------------------------
(* The results.                                                             *)

\* Whatever fails, a job that claims to be done is done: the file of a dump is
\* whole unless it was disturbed, and an import is stored and counted unless it
\* was cut before the marking.
THEOREM JobsSoundAlways == JobsSpec => []JobsSound
<1>1. JobsSpec => []JobsInv
    BY InvInit, InvNext, PTL DEF JobsSpec
<1> QED
    BY <1>1, InvImplies, PTL

\* The failure that takes back a Completed row belongs to a task given out again.
THEOREM CompletedStays == JobsSpec => CompletedStaysUnlessRepeated
<1> DEFINE Step == row = "Completed" /\ row' # "Completed"
                   => task.retried > 0 \/ task'.retried > 0
<1>1. JobsSpec => []JobsInv
    BY InvInit, InvNext, PTL DEF JobsSpec
<1>2. JobsInv /\ [JobsNext]_jobVars => [Step]_jobVars
    <2> SUFFICES ASSUME JobsInv, JobsNext, row = "Completed", row' # "Completed"
                 PROVE  task.retried > 0
        OBVIOUS
    <2>1. \E r \in Runs : RecordFailure(r)
        <3>1. ~\E r \in Runs : CreateJob(r) \/ CompleteDump(r) \/ MarkProcessed(r)
            BY DEF CreateJob, CompleteDump, MarkProcessed
        <3>2. ~(LoseFile \/ StoreHeartbeat \/ ViewStats)
            BY DEF LoseFile, StoreHeartbeat, ViewStats
        <3>3. ~\E r \in Runs : Download(r) \/ Take(r) \/ RunFails(r) \/ CrashRun(r) \/ LoseLease(r)
            BY DEF Download, Take, RunFails, CrashRun, LoseLease, Leaves
        <3>4. ~\E r \in Runs : \/ EnqueueJob(r) \/ Load(r) \/ OpenFile(r) \/ WriteCells(r)
                               \/ Acknowledge(r) \/ EndExpired(r)
            BY DEF EnqueueJob, Load, OpenFile, WriteCells, Acknowledge, EndExpired
        <3>5. ~\E r \in Runs : InsertImport(r) \/ MarkStale(r) \/ RecomputeStats(r)
            BY DEF InsertImport, MarkStale, RecomputeStats
        <3> QED
            BY <3>1, <3>2, <3>3, <3>4, <3>5 DEF JobsNext, RunStep
    <2>2. PICK r \in Runs : RecordFailure(r)
        BY <2>1
    <2>3. run[r].at = "record" /\ run[r].leased
        BY <2>2 DEF RecordFailure, Works, JobsInv, RunsFit
    <2>4. task.retried # 0
        BY <2>3 DEF JobsInv, DoneAtFirst
    <2>5. task.retried \in Nat
        BY JobsAssumption DEF JobsInv, Types
    <2> QED
        BY <2>4, <2>5
<1> QED
    BY <1>1, <1>2, PTL DEF JobsSpec, CompletedStaysUnlessRepeated, Step

-----------------------------------------------------------------------------
(* Windows of goals.                                                        *)

\* A set of numbers has a least one.
LEMMA LeastOf == \A S \in SUBSET Nat : S # {} => \E m \in S : \A n \in S : m <= n
<1> SUFFICES ASSUME NEW S \in SUBSET Nat, S # {}
             PROVE  \E m \in S : \A n \in S : m <= n
    OBVIOUS
<1> DEFINE R == {ss \in Nat \X Nat : ss[1] < ss[2]}
<1>1. IsWellFoundedOn(R, Nat)
    BY NatLessThanWellFounded DEF OpToRel
<1>2. \A m, n \in Nat : m < n => <<m, n>> \in R
    OBVIOUS
<1> HIDE DEF R
<1>3. PICK m \in S : \A n \in S : ~(<<n, m>> \in R)
    BY <1>1, WFMin
<1>4. \A n \in S : m <= n
    <2>1. \A n \in S : n \in Nat /\ m \in Nat /\ ~(n < m)
        BY <1>2, <1>3
    <2> QED
        BY <2>1
<1> QED
    BY <1>4

\* The least of a set of hours.
LEMMA FirstHour ==
    ASSUME NEW S \in SUBSET Hours, S # {}
    PROVE  Min(S) \in S /\ \A t \in S : Min(S) <= t
<1>1. S \in SUBSET Nat
    BY ScheduleAssumption DEF Hours
<1>2. \E m \in S : \A n \in S : m <= n
    BY <1>1, LeastOf
<1> QED
    BY <1>2 DEF Min

\* A product grows with a factor.
LEMMA Products ==
    ASSUME NEW a \in Int, NEW b \in Int, NEW c \in Nat, a <= b
    PROVE  a * c <= b * c
OBVIOUS

\* A local day begins when its first local hour is reached.
LEMMA DayBegun ==
    ASSUME NEW z \in Zones, NEW d \in Int, NEW m \in Hours, d * DayHours <= z[m]
    PROVE  /\ DayBegins(z, d) \in Int /\ DayBegins(z, d) <= m
           /\ d * DayHours > z[0] =>
                 /\ DayBegins(z, d) \in Hours /\ DayBegins(z, d) > 0
                 /\ z[DayBegins(z, d)] >= d * DayHours
                 /\ \A t \in Hours : z[t] >= d * DayHours => DayBegins(z, d) <= t
           /\ d * DayHours <= z[0] => DayBegins(z, d) = d * DayHours - z[0]
<1>1. z \in [Hours -> Int] /\ DayHours \in Nat /\ 0 \in Hours /\ Hours \subseteq Nat
    BY ScheduleAssumption DEF Hours
<1>2. z[0] \in Int /\ z[m] \in Int /\ d * DayHours \in Int /\ m \in Nat
    BY <1>1
<1>3. CASE d * DayHours <= z[0]
    <2>1. DayBegins(z, d) = d * DayHours - z[0]
        BY <1>3 DEF DayBegins
    <2> QED
        BY <1>2, <1>3, <2>1
<1>4. CASE d * DayHours > z[0]
    <2> DEFINE S == {t \in Hours : z[t] >= d * DayHours}
    <2>1. DayBegins(z, d) = Min(S)
        BY <1>2, <1>4 DEF DayBegins
    <2>2. m \in S /\ S \in SUBSET Hours /\ 0 \notin S
        BY <1>1, <1>2, <1>4
    <2>3. Min(S) \in S /\ \A t \in S : Min(S) <= t
        BY <2>2, FirstHour
    <2>4. PICK n \in S : n = DayBegins(z, d) /\ \A t \in S : n <= t
        BY <2>1, <2>3
    <2>5. n \in Nat /\ n # 0 /\ n \in Hours /\ z[n] >= d * DayHours /\ n <= m
        BY <1>1, <2>2, <2>4
    <2> QED
        BY <1>1, <1>2, <1>4, <2>4, <2>5
<1> QED
    BY <1>2, <1>3, <1>4

\* Days begin one after the other.
LEMMA DaysFollow ==
    ASSUME NEW z \in Zones, NEW c \in Int, NEW d \in Int, c < d,
           NEW m \in Hours, d * DayHours <= z[m]
    PROVE  DayBegins(z, c) < DayBegins(z, d)
<1>1. z \in [Hours -> Int] /\ DayHours \in Nat /\ DayHours > 0 /\ 0 \in Hours /\ Hours \subseteq Nat
    BY ScheduleAssumption DEF Hours
<1>2. (c + 1) * DayHours <= d * DayHours
    BY <1>1, Products
<1>3. (c + 1) * DayHours = c * DayHours + DayHours
    BY <1>1
<1>4. PICK p, q \in Int : p = c * DayHours /\ q = d * DayHours
    BY <1>1
<1>5. p + DayHours <= q /\ q <= z[m] /\ z[m] \in Int /\ z[0] \in Int
    BY <1>1, <1>2, <1>3, <1>4
<1>6. p <= z[m]
    BY <1>1, <1>4, <1>5
<1>7. /\ DayBegins(z, c) \in Int
      /\ p > z[0] => /\ DayBegins(z, c) \in Hours /\ DayBegins(z, c) > 0
                     /\ z[DayBegins(z, c)] >= p
                     /\ \A t \in Hours : z[t] >= p => DayBegins(z, c) <= t
      /\ p <= z[0] => DayBegins(z, c) = p - z[0]
    BY <1>4, <1>6, DayBegun
<1>8. /\ DayBegins(z, d) \in Int
      /\ q > z[0] => /\ DayBegins(z, d) \in Hours /\ DayBegins(z, d) > 0
                     /\ z[DayBegins(z, d)] >= q
                     /\ \A t \in Hours : z[t] >= q => DayBegins(z, d) <= t
      /\ q <= z[0] => DayBegins(z, d) = q - z[0]
    BY <1>4, <1>5, DayBegun
<1>9. CASE p <= z[0]
    BY <1>1, <1>4, <1>5, <1>7, <1>8, <1>9
<1>10. CASE p > z[0]
    <2>1. PICK s \in Hours : s = DayBegins(z, c) /\ s > 0 /\ z[s] >= p
        BY <1>7, <1>10
    <2>2. s \in Nat /\ s - 1 \in Hours /\ (s - 1) + 1 = s
        BY <2>1, ScheduleAssumption DEF Hours
    <2>3. ~(z[s - 1] >= p)
        BY <1>1, <1>7, <1>10, <2>1, <2>2
    <2>4. z[s] <= z[s - 1] + DayHours
        BY <2>2, ZonesAssumption
    <2>5. z[s] < q
        BY <1>1, <1>4, <1>5, <2>2, <2>3, <2>4
    <2>6. PICK t \in Hours : t = DayBegins(z, d) /\ z[t] >= q
        BY <1>1, <1>4, <1>5, <1>8, <1>10
    <2>7. s <= t
        BY <1>1, <1>4, <1>5, <1>7, <1>10, <2>1, <2>6
    <2>8. s # t
        BY <1>1, <1>4, <2>5, <2>6
    <2> QED
        BY <1>1, <2>1, <2>2, <2>6, <2>7, <2>8
<1> QED
    BY <1>1, <1>4, <1>9, <1>10

\* The day with which the window of a goal ends, and its days.
EndDay(g, z, now) ==
    IF g \in Weekly THEN Today(z, now) - (Today(z, now) % WeekDays) ELSE Today(z, now)
Span(g) == IF g \in Weekly THEN WeekDays ELSE 1

LEMMA DivAndMod ==
    ASSUME NEW a \in Int, NEW b \in Nat, b > 0
    PROVE  /\ a \div b \in Int /\ (a \div b) * b <= a
           /\ a % b \in Nat /\ a - (a % b) = (a \div b) * b
OBVIOUS

\* Of two multiples one is ahead by at least the factor.
LEMMA MultiplesApart ==
    ASSUME NEW a \in Int, NEW b \in Int, NEW c \in Nat, a * c < b * c
    PROVE  a * c <= b * c - c
<1>1. a < b
    <2>1. SUFFICES ASSUME b <= a PROVE FALSE
        OBVIOUS
    <2>2. b * c <= a * c
        BY <2>1, Products
    <2> QED
        BY <2>2
<1>2. a + 1 <= b
    BY <1>1
<1>3. (a + 1) * c <= b * c
    BY <1>2, Products
<1>4. (a + 1) * c = a * c + c
    OBVIOUS
<1>5. a * c \in Int /\ b * c \in Int
    OBVIOUS
<1> QED
    BY <1>3, <1>4, <1>5

LEMMA EndDays ==
    ASSUME NEW g \in Goals, NEW z \in Zones, NEW n \in Hours, NEW m \in Hours
    PROVE  /\ GoalEvaluationWindow(g, z, n) =
                 [from |-> DayBegins(z, EndDay(g, z, n) - Span(g)),
                  to |-> DayBegins(z, EndDay(g, z, n))]
           /\ EndDay(g, z, n) \in Int /\ Span(g) \in Nat /\ Span(g) > 0
           /\ EndDay(g, z, n) * DayHours <= z[n]
           /\ EndDay(g, z, n) < EndDay(g, z, m) => EndDay(g, z, n) <= EndDay(g, z, m) - Span(g)
<1>1. /\ z \in [Hours -> Int] /\ DayHours \in Nat /\ DayHours > 0
      /\ WeekDays \in Nat /\ WeekDays > 0
    BY ScheduleAssumption
<1>2. \A h \in Hours : /\ Today(z, h) \in Int /\ Today(z, h) * DayHours <= z[h]
                       /\ Today(z, h) % WeekDays \in Nat
                       /\ Today(z, h) - (Today(z, h) % WeekDays)
                              = (Today(z, h) \div WeekDays) * WeekDays
                       /\ Today(z, h) \div WeekDays \in Int
    <2>1. ASSUME NEW h \in Hours
          PROVE  Today(z, h) \in Int /\ Today(z, h) * DayHours <= z[h]
        BY <1>1, DivAndMod DEF Today
    <2> QED
        BY <1>1, <2>1, DivAndMod
<1>3. \A h \in Hours : EndDay(g, z, h) \in Int /\ EndDay(g, z, h) <= Today(z, h)
    <2>1. ASSUME NEW h \in Hours PROVE EndDay(g, z, h) \in Int /\ EndDay(g, z, h) <= Today(z, h)
        <3>1. PICK t, r : t = Today(z, h) /\ r = t % WeekDays
            OBVIOUS
        <3>2. t \in Int /\ r \in Nat
            BY <1>2, <3>1
        <3> QED
            BY <3>1, <3>2 DEF EndDay
    <2> QED
        BY <2>1
<1>4. Span(g) \in Nat /\ Span(g) > 0
    BY <1>1 DEF Span
<1>5. EndDay(g, z, n) * DayHours <= z[n]
    <2>1. EndDay(g, z, n) * DayHours <= Today(z, n) * DayHours
        BY <1>1, <1>2, <1>3, Products
    <2>2. PICK p, q \in Int : p = EndDay(g, z, n) * DayHours /\ q = Today(z, n) * DayHours
        BY <1>1, <1>2, <1>3
    <2> QED
        BY <1>1, <1>2, <2>1, <2>2
<1>6. EndDay(g, z, n) < EndDay(g, z, m) => EndDay(g, z, n) <= EndDay(g, z, m) - Span(g)
    <2>1. CASE g \in Weekly
        <3>1. PICK i, j \in Int : /\ EndDay(g, z, n) = i * WeekDays
                                  /\ EndDay(g, z, m) = j * WeekDays
            BY <1>2, <2>1 DEF EndDay
        <3> QED
            BY <1>1, <2>1, <3>1, MultiplesApart DEF Span
    <2>2. CASE g \notin Weekly
        BY <1>3, <2>2 DEF Span
    <2> QED
        BY <2>1, <2>2
<1>7. GoalEvaluationWindow(g, z, n) =
                 [from |-> DayBegins(z, EndDay(g, z, n) - Span(g)),
                  to |-> DayBegins(z, EndDay(g, z, n))]
    BY DEF GoalEvaluationWindow, EndDay, Span
<1> QED
    BY <1>3, <1>4, <1>5, <1>6, <1>7

\* A day that begins before a moment, and the days before it.
LEMMA DaysOrdered ==
    ASSUME NEW z \in Zones, NEW a \in Int, NEW b \in Int, NEW h \in Hours,
           a <= b, b * DayHours <= z[h]
    PROVE  \E x, y \in Int : /\ x = DayBegins(z, a) /\ y = DayBegins(z, b)
                             /\ x <= y /\ y <= h
                             /\ a < b => x < y
<1>1. b * DayHours <= z[h] /\ DayBegins(z, b) \in Int /\ DayBegins(z, b) <= h
    BY DayBegun
<1>2. CASE a = b
    BY <1>1, <1>2
<1>3. CASE a < b
    <2>1. DayBegins(z, a) < DayBegins(z, b)
        BY <1>3, DaysFollow
    <2>2. DayBegins(z, a) \in Int
        <3>1. z \in [Hours -> Int] /\ DayHours \in Nat
            BY ScheduleAssumption
        <3>2. a * DayHours <= b * DayHours
            BY <3>1, Products
        <3>3. PICK p, q \in Int : p = a * DayHours /\ q = b * DayHours
            BY <3>1
        <3>4. a * DayHours <= z[h]
            BY <3>1, <3>2, <3>3
        <3> QED
            BY <3>4, DayBegun
    <2>3. PICK x, y \in Int : x = DayBegins(z, a) /\ y = DayBegins(z, b)
        BY <1>1, <2>2
    <2>4. x < y /\ y <= h
        BY <1>1, <2>1, <2>3
    <2> QED
        BY <2>3, <2>4
<1> QED
    BY <1>2, <1>3

\* A window has ended when it is evaluated, and windows of one zone are the same
\* or apart.
LEMMA WindowsApart ==
    ASSUME NEW g \in Goals, NEW z \in Zones, NEW n \in Hours, NEW m \in Hours,
           NEW v, v = GoalEvaluationWindow(g, z, n), NEW w, w = GoalEvaluationWindow(g, z, m)
    PROVE  /\ v.from \in Int /\ v.to \in Int /\ v.from < v.to /\ v.to <= n
           /\ v = w \/ v.to <= w.from \/ w.to <= v.from
<1>1. PICK k \in Nat : k = Span(g) /\ k > 0
    BY EndDays
<1>2. PICK c, d \in Int : /\ c = EndDay(g, z, n) /\ d = EndDay(g, z, m)
                          /\ v = [from |-> DayBegins(z, c - k), to |-> DayBegins(z, c)]
                          /\ w = [from |-> DayBegins(z, d - k), to |-> DayBegins(z, d)]
                          /\ c * DayHours <= z[n] /\ d * DayHours <= z[m]
                          /\ c < d => c <= d - k
                          /\ d < c => d <= c - k
    BY <1>1, EndDays
<1>3. PICK a, b \in Int : a = c - k /\ b = d - k /\ a < c /\ b < d /\ a <= c /\ b <= d
    BY <1>1
<1>4. PICK v1, v2 \in Int : v1 = DayBegins(z, a) /\ v2 = DayBegins(z, c) /\ v1 < v2 /\ v2 <= n
    <2>1. \E x, y \in Int : /\ x = DayBegins(z, a) /\ y = DayBegins(z, c)
                            /\ x <= y /\ y <= n
                            /\ a < c => x < y
        BY <1>2, <1>3, DaysOrdered
    <2> QED
        BY <1>3, <2>1
<1>5. PICK w1, w2 \in Int : w1 = DayBegins(z, b) /\ w2 = DayBegins(z, d) /\ w1 < w2 /\ w2 <= m
    <2>1. b <= d /\ d * DayHours <= z[m]
        BY <1>2, <1>3
    <2>2. \E x, y \in Int : /\ x = DayBegins(z, b) /\ y = DayBegins(z, d)
                            /\ x <= y /\ y <= m
                            /\ b < d => x < y
        BY <2>1, DaysOrdered
    <2> QED
        BY <1>3, <2>2
<1>6. v = [from |-> v1, to |-> v2] /\ w = [from |-> w1, to |-> w2]
    BY <1>2, <1>3, <1>4, <1>5
<1>7. CASE c = d
    BY <1>2, <1>4, <1>6, <1>7
<1>8. CASE c < d
    <2>1. c <= b
        BY <1>2, <1>3, <1>8
    <2>2. b * DayHours <= z[m]
        <3>1. z \in [Hours -> Int] /\ DayHours \in Nat
            BY ScheduleAssumption
        <3>2. b * DayHours <= d * DayHours
            BY <1>3, <3>1, Products
        <3>3. PICK p, q \in Int : p = b * DayHours /\ q = d * DayHours
            BY <3>1
        <3> QED
            BY <1>2, <3>1, <3>2, <3>3
    <2>3. \E x, y \in Int : /\ x = DayBegins(z, c) /\ y = DayBegins(z, b)
                            /\ x <= y /\ y <= m
                            /\ c < b => x < y
        BY <2>1, <2>2, DaysOrdered
    <2>4. v2 <= w1
        BY <1>4, <1>5, <2>3
    <2> QED
        BY <1>4, <1>6, <2>4
<1>9. CASE d < c
    <2>1. d <= a
        BY <1>2, <1>3, <1>9
    <2>2. a * DayHours <= z[n]
        <3>1. z \in [Hours -> Int] /\ DayHours \in Nat
            BY ScheduleAssumption
        <3>2. a * DayHours <= c * DayHours
            BY <1>3, <3>1, Products
        <3>3. PICK p, q \in Int : p = a * DayHours /\ q = c * DayHours
            BY <3>1
        <3> QED
            BY <1>2, <3>1, <3>2, <3>3
    <2>3. \E x, y \in Int : /\ x = DayBegins(z, d) /\ y = DayBegins(z, a)
                            /\ x <= y /\ y <= n
                            /\ d < a => x < y
        BY <2>1, <2>2, DaysOrdered
    <2>4. w2 <= v1
        BY <1>4, <1>5, <2>3
    <2> QED
        BY <1>4, <1>6, <2>4
<1> QED
    BY <1>7, <1>8, <1>9

-----------------------------------------------------------------------------
(* What is read for a user, and what is counted of it.                      *)

HasLeast(S) == S = {} \/ \E m \in S : \A n \in S : m <= n

LEMMA LeastOfFour ==
    ASSUME NEW a \in Int, NEW b \in Int, NEW c \in Int, NEW d \in Int,
           NEW S, S \subseteq {a, b, c, d}, S # {}
    PROVE  \E m \in S : \A n \in S : m <= n
<1>1. ASSUME NEW T, T \subseteq Int, HasLeast(T), NEW x \in Int
      PROVE  HasLeast(T \cup (S \cap {x}))
    <2>1. CASE x \notin S \/ T = {}
        BY <1>1, <2>1 DEF HasLeast
    <2>2. CASE x \in S /\ T # {}
        <3>1. PICK m \in T : \A n \in T : m <= n
            BY <1>1, <2>2 DEF HasLeast
        <3>2. PICK k \in T \cup {x} : k <= m /\ k <= x
            BY <1>1, <3>1
        <3>3. \A n \in T \cup {x} : k <= n
            BY <1>1, <3>1, <3>2
        <3>4. T \cup (S \cap {x}) = T \cup {x}
            BY <2>2
        <3> QED
            BY <3>2, <3>3, <3>4 DEF HasLeast
    <2> QED
        BY <2>1, <2>2
<1>2. HasLeast({})
    BY DEF HasLeast
<1> DEFINE A == {} \cup (S \cap {a})
           B == A \cup (S \cap {b})
           C == B \cup (S \cap {c})
           D == C \cup (S \cap {d})
<1>3. A \subseteq Int /\ B \subseteq Int /\ C \subseteq Int /\ D = S
    OBVIOUS
<1>4. HasLeast(A)
    BY <1>1, <1>2
<1> HIDE DEF A
<1>5. HasLeast(B)
    BY <1>1, <1>3, <1>4
<1> HIDE DEF B
<1>6. HasLeast(C)
    BY <1>1, <1>3, <1>5
<1> HIDE DEF C
<1>7. HasLeast(D)
    BY <1>1, <1>3, <1>6
<1> QED
    BY <1>3, <1>7 DEF HasLeast

\* The window of the data covers each goal's, and what that is to improve on.
LEMMA DataCovers ==
    ASSUME NEW goals, goals \subseteq Goals, NEW z \in Zones, NEW n \in Hours, NEW g \in goals
    PROVE  \E w, W \in [from : Int, to : Int] :
              /\ w = GoalEvaluationWindow(g, z, n) /\ W = EvaluationDataWindow(goals, z, n)
              /\ w.from < w.to /\ W.from <= w.from /\ w.to <= W.to
              /\ g \in Improving => W.from <= w.from - (w.to - w.from)
<1> DEFINE ww(x) == GoalEvaluationWindow(x, z, n)
           from(x) == IF x \in Improving THEN WindowBefore(ww(x)).from ELSE ww(x).from
           F == {from(x) : x \in goals}
           T == {ww(x).to : x \in goals}
<1>1. \A x \in goals : \E f, t \in Int : ww(x) = [from |-> f, to |-> t] /\ f < t
    <2>1. ASSUME NEW x \in goals PROVE \E f, t \in Int : ww(x) = [from |-> f, to |-> t] /\ f < t
        <3>1. PICK y : y = ww(x)
            OBVIOUS
        <3>2. y.from \in Int /\ y.to \in Int /\ y.from < y.to
            BY <3>1, WindowsApart
        <3>3. y = [from |-> y.from, to |-> y.to]
            BY <3>1 DEF GoalEvaluationWindow
        <3> QED
            BY <3>1, <3>2, <3>3
    <2> QED
        BY <2>1
<1>2. PICK f, t \in Int : ww(g) = [from |-> f, to |-> t] /\ f < t
    BY <1>1
<1>3. PICK f1, t1 \in Int : \A x \in goals : x \in Weekly => ww(x) = [from |-> f1, to |-> t1]
    <2>1. CASE \E x \in goals : x \in Weekly
        <3>1. PICK x \in goals : x \in Weekly
            BY <2>1
        <3>2. \A y \in goals : y \in Weekly => ww(y) = ww(x)
            BY <3>1 DEF GoalEvaluationWindow
        <3> HIDE DEF ww
        <3> QED
            BY <1>1, <3>2
    <2>2. CASE ~\E x \in goals : x \in Weekly
        BY <1>2, <2>2
    <2> QED
        BY <2>1, <2>2
<1>4. PICK f2, t2 \in Int : \A x \in goals : x \notin Weekly => ww(x) = [from |-> f2, to |-> t2]
    <2>1. CASE \E x \in goals : x \notin Weekly
        <3>1. PICK x \in goals : x \notin Weekly
            BY <2>1
        <3>2. \A y \in goals : y \notin Weekly => ww(y) = ww(x)
            BY <3>1 DEF GoalEvaluationWindow
        <3> HIDE DEF ww
        <3> QED
            BY <1>1, <3>2
    <2>2. CASE ~\E x \in goals : x \notin Weekly
        BY <1>2, <2>2
    <2> QED
        BY <2>1, <2>2
<1>5. EvaluationDataWindow(goals, z, n) = [from |-> Min(F), to |-> Max(T)]
    BY DEF EvaluationDataWindow
<1>6. from(g) = IF g \in Improving THEN f - (t - f) ELSE f
    BY <1>2 DEF WindowBefore
<1>7. F \subseteq {f1, f1 - (t1 - f1), f2, f2 - (t2 - f2)} /\ from(g) \in F
    <2>1. ASSUME NEW x \in goals
          PROVE  from(x) \in {f1, f1 - (t1 - f1), f2, f2 - (t2 - f2)}
        BY <1>3, <1>4 DEF WindowBefore
    <2> QED
        BY <2>1
<1>8. T \subseteq {t1, t2} /\ t \in T
    <2>1. ASSUME NEW x \in goals PROVE ww(x).to \in {t1, t2}
        BY <1>3, <1>4
    <2> HIDE DEF ww
    <2> QED
        BY <1>2, <2>1
<1> HIDE DEF F, T, from
<1>9. Min(F) \in F /\ Min(F) <= from(g)
    <2>1. \E m \in F : \A k \in F : m <= k
        <3>1. f1 - (t1 - f1) \in Int /\ f2 - (t2 - f2) \in Int
            OBVIOUS
        <3> QED
            BY <1>7, <3>1, LeastOfFour
    <2> QED
        BY <1>7, <2>1 DEF Min
<1>10. Max(T) \in T /\ t <= Max(T)
    <2>1. \E m \in T : \A k \in T : k <= m
        BY <1>8
    <2> QED
        BY <1>8, <2>1 DEF Max
<1>11. Min(F) \in Int /\ Max(T) \in Int
    <2>1. {f1, f1 - (t1 - f1), f2, f2 - (t2 - f2)} \subseteq Int /\ {t1, t2} \subseteq Int
        OBVIOUS
    <2>2. F \subseteq Int /\ T \subseteq Int
        BY <1>7, <1>8, <2>1
    <2> QED
        BY <1>9, <1>10, <2>2
<1> DEFINE w == [from |-> f, to |-> t]
           W == [from |-> Min(F), to |-> Max(T)]
<1>12. w \in [from : Int, to : Int] /\ W \in [from : Int, to : Int]
    BY <1>11
<1>13. /\ w.from < w.to /\ W.from <= w.from /\ w.to <= W.to
       /\ g \in Improving => W.from <= w.from - (w.to - w.from)
    BY <1>2, <1>6, <1>9, <1>10, <1>11
<1> QED
    BY <1>2, <1>5, <1>12, <1>13

\* Progress counts the same in the data that was read for a goal.
LEMMA ProgressKept ==
    ASSUME NEW B, B \subseteq Beats, NEW g \in Goals,
           NEW w \in [from : Int, to : Int], NEW W \in [from : Int, to : Int],
           w.from < w.to, W.from <= w.from, w.to <= W.to,
           g \in Improving => W.from <= w.from - (w.to - w.from), NEW snoozed \in BOOLEAN
    PROVE  GoalProgress(g, Within(B, W), w, snoozed) = GoalProgress(g, B, w, snoozed)
<1>1. \A b \in B : b.at \in Int
    BY ScheduleAssumption DEF Beats, Hours
<1>2. Within(Within(B, W), w) = Within(B, w)
    BY <1>1 DEF Within
<1>3. g \in Improving => Within(Within(B, W), WindowBefore(w)) = Within(B, WindowBefore(w))
    BY <1>1 DEF Within, WindowBefore
<1> QED
    BY <1>2, <1>3 DEF GoalProgress

LEMMA ProgressTyped ==
    ASSUME NEW B, IsFiniteSet(B), NEW g, NEW w, NEW snoozed \in BOOLEAN
    PROVE  /\ GoalProgress(g, B, w, snoozed).actual \in Nat
           /\ GoalProgress(g, B, w, snoozed).target \in Nat
<1>1. \A v : Cardinality(Within(B, v)) \in Nat
    <2>1. \A v : Within(B, v) \subseteq B
        BY DEF Within
    <2> QED
        BY <2>1, FS_Subset, FS_CardinalityType
<1> QED
    BY <1>1 DEF GoalProgress

\* Heartbeats of a user are counted.
LEMMA BeatsCounted ==
    ASSUME NEW B, IsFiniteSet(B), NEW u
    PROVE  IsFiniteSet(Of(u, B)) /\ Cardinality(Of(u, B)) \in Nat
<1>1. Of(u, B) \subseteq B
    BY DEF Of
<1> QED
    BY <1>1, FS_Subset, FS_CardinalityType

\* A heartbeat that joins is one that was there, or one more.
LEMMA BeatsGrow ==
    ASSUME NEW B, IsFiniteSet(B), NEW b, NEW u
    PROVE  /\ IsFiniteSet(B \cup {b})
           /\ \/ Of(u, B \cup {b}) = Of(u, B)
              \/ Cardinality(Of(u, B \cup {b})) = Cardinality(Of(u, B)) + 1
<1>1. IsFiniteSet(B \cup {b})
    BY FS_AddElement
<1>2. CASE b \in B \/ b.of # u
    <2>1. Of(u, B \cup {b}) = Of(u, B)
        BY <1>2 DEF Of
    <2> QED
        BY <1>1, <2>1
<1>3. CASE b \notin B /\ b.of = u
    <2>1. Of(u, B \cup {b}) = Of(u, B) \cup {b} /\ b \notin Of(u, B)
        BY <1>3 DEF Of
    <2> QED
        BY <1>1, <2>1, BeatsCounted, FS_AddElement
<1> QED
    BY <1>1, <1>2, <1>3

-----------------------------------------------------------------------------
(* The inductive invariant: what an attempt has read, and what a row says.  *)

\* Hours that an attempt may evaluate: those that have come, or were asked for.
Reached == (0 .. clock) \cup ahead

\* The window of a goal that ended by such an hour, in the zone its user has had.
EndedWindow(g, from, to) ==
    \E z \in Zones, n \in Reached :
        /\ z = HomeZone[Owner[g]] \/ Owner[g] \in touched
        /\ [from |-> from, to |-> to] = GoalEvaluationWindow(g, z, n)

RowFits(e) ==
    /\ EndedWindow(e.goal, e.from, e.to)
    /\ e.known <= Cardinality(Of(Owner[e.goal], coded))

\* The data an attempt has read for a goal tells all there is to tell.
Enough(r, g) ==
    LET window == GoalEvaluationWindow(g, r.zone[Owner[g]], r.now) IN
    \A snoozed \in BOOLEAN :
        GoalProgress(g, Of(Owner[g], r.data), window, snoozed)
            = GoalProgress(g, Of(Owner[g], coded), window, snoozed)

\* An attempt has no data of a user before it reads it, and reads it for goals;
\* unless heartbeats came since, what it has read is enough for each of them.
UserFits(r, u) ==
    /\ r.zone[u] = HomeZone[u] \/ u \in touched
    /\ r.known[u] <= Cardinality(Of(u, coded))
    /\ r.step[u] \in {"list", "read"} => Of(u, r.data) = {}
    /\ r.step[u] = "read" => \E g \in r.todo : Owner[g] = u
    /\ r.step[u] = "upsert" /\ r.known[u] = Cardinality(Of(u, coded)) =>
          \A g \in r.todo : Owner[g] = u => Enough(r, g)

AttemptFits(r) ==
    /\ r.now \in Reached /\ r.task.now \in {-1} \cup Reached
    /\ r.data \subseteq coded
    /\ \A g \in Goals : r.snooze[g] = 0 \/ Owner[g] \in touched
    /\ \A u \in Users : UserFits(r, u)

GoalsInv ==
    /\ ScheduleTypeOK
    /\ IsFiniteSet(coded)
    /\ \A u \in Users : zone[u] = HomeZone[u] \/ u \in touched
    /\ \A g \in Goals : snooze[g] = 0 \/ Owner[g] \in touched
    /\ \A due \in waiting : due.now \in {-1} \cup Reached
    /\ \A w \in GoalWorkers : working[w] # Resting => AttemptFits(working[w])
    /\ \A e \in evals : RowFits(e)
    /\ EvaluationsCountTheirWindow

LEMMA GoalsInvInit == ScheduleInit => GoalsInv
<1> SUFFICES ASSUME ScheduleInit PROVE GoalsInv
    OBVIOUS
<1>1. 0 \in Hours /\ 0 \in 0 .. MaxUpsets /\ 0 \in Nat
    BY ScheduleAssumption DEF Hours
<1>2. ScheduleTypeOK
    BY <1>1, ScheduleAssumption DEF ScheduleInit, ScheduleTypeOK
<1>3. IsFiniteSet(coded)
    BY FS_EmptySet DEF ScheduleInit
<1> QED
    BY <1>2, <1>3 DEF ScheduleInit, GoalsInv, EvaluationsCountTheirWindow

\* What is right stays right while time goes on and users edit.
LEMMA TimeGoesOn ==
    ASSUME GoalsInv, clock' \in Hours, clock <= clock', touched \subseteq touched',
           ahead \subseteq ahead', coded' = coded
    PROVE  /\ Reached \subseteq Reached'
           /\ \A r \in Attempt : AttemptFits(r) => AttemptFits(r)'
           /\ \A e \in evals : RowFits(e)'
<1>1. Reached \subseteq Reached'
    <2>1. clock \in Nat /\ clock' \in Nat
        BY ScheduleAssumption DEF GoalsInv, ScheduleTypeOK, Hours
    <2>2. 0 .. clock \subseteq 0 .. clock'
        BY <2>1
    <2> QED
        BY <2>2 DEF Reached
<1>2. ASSUME NEW r \in Attempt, AttemptFits(r)
      PROVE  AttemptFits(r)'
    <2>1. \A u \in Users : UserFits(r, u)'
        BY <1>2 DEF AttemptFits, UserFits, Enough
    <2> QED
        BY <1>1, <1>2, <2>1 DEF AttemptFits
<1>3. ASSUME NEW e \in evals
      PROVE  RowFits(e)'
    <2>1. RowFits(e)
        BY DEF GoalsInv
    <2> QED
        BY <1>1, <2>1 DEF RowFits, EndedWindow
<1> QED
    BY <1>1, <1>2, <1>3

\* A step that leaves the rows and the heartbeats alone.
LEMMA RowsStay ==
    ASSUME GoalsInv, clock' \in Hours, clock <= clock', touched \subseteq touched',
           ahead \subseteq ahead', coded' = coded, evals' \subseteq evals
    PROVE  /\ \A e \in evals' : RowFits(e)'
           /\ EvaluationsCountTheirWindow'
           /\ \A e \in evals' : e \in Evaluation
           /\ \A e, f \in evals' : (e.goal = f.goal /\ e.from = f.from /\ e.to = f.to) => e = f
<1>1. \A e \in evals' : RowFits(e)'
    BY TimeGoesOn
<1>2. EvaluationsCountTheirWindow'
    BY DEF GoalsInv, EvaluationsCountTheirWindow
<1> QED
    BY <1>1, <1>2 DEF GoalsInv, ScheduleTypeOK

\* An attempt that goes on.
LEMMA Proceeding ==
    ASSUME GoalsInv, NEW w \in GoalWorkers, NEW r \in Attempt, Proceeds(w, r)
    PROVE  /\ working' \in [GoalWorkers -> {Resting} \cup Attempt]
           /\ working'[w] \in {Resting, r}
           /\ \A v \in GoalWorkers : v # w => working'[v] = working[v]
BY DEF GoalsInv, ScheduleTypeOK, Proceeds

\* What all steps but those of heartbeats and rows keep.
LEMMA AttemptsGoOn ==
    ASSUME GoalsInv, clock' \in Hours, clock <= clock', touched \subseteq touched',
           ahead \subseteq ahead', coded' = coded,
           working' \in [GoalWorkers -> {Resting} \cup Attempt],
           \A w \in GoalWorkers :
              working'[w] # Resting => working'[w] = working[w] \/ AttemptFits(working[w])'
    PROVE  \A w \in GoalWorkers : working'[w] # Resting => AttemptFits(working[w])'
<1> SUFFICES ASSUME NEW w \in GoalWorkers, working'[w] # Resting
             PROVE  AttemptFits(working[w])'
    OBVIOUS
<1>1. CASE working'[w] = working[w]
    <2>1. PICK r \in Attempt : r = working'[w] /\ r = working[w]
        BY <1>1
    <2>2. AttemptFits(r)
        BY <1>1, <2>1 DEF GoalsInv
    <2>3. AttemptFits(r)'
        BY <2>2, TimeGoesOn
    <2> QED
        BY <2>1, <2>3
<1>2. CASE working'[w] # working[w]
    BY <1>2
<1> QED
    BY <1>1, <1>2

\* A step that leaves the heartbeats alone, if its types are right, tasks and
\* zones are as they should be, and the attempts it changes and the rows fit.
LEMMA QuietStep ==
    ASSUME GoalsInv, coded' = coded, touched \subseteq touched', clock <= clock', clock' \in Hours,
           ahead \subseteq ahead', ahead' \subseteq Hours,
           goal' \in [Goals -> {"enabled", "disabled", "deleted"}],
           snooze' \in [Goals -> Nat],
           \A g \in Goals : snooze'[g] = snooze[g] \/ Owner[g] \in touched',
           zone' \in [Users -> Zones], \A u \in Users : zone'[u] = zone[u] \/ u \in touched',
           waiting' \subseteq Task, \A due \in waiting' : due \in waiting \/ due.now \in {-1} \cup Reached',
           working' \in [GoalWorkers -> {Resting} \cup Attempt],
           \A w \in GoalWorkers :
              working'[w] # Resting => working'[w] = working[w] \/ AttemptFits(working[w])',
           evals' \subseteq evals, \A e \in evals' : goal'[e.goal] # "deleted",
           upsets' \in 0 .. MaxUpsets, missed' \subseteq Hours, touched' \subseteq Users
    PROVE  GoalsInv'
<1>1. ScheduleTypeOK'
    <2>1. coded' \subseteq Beats
        BY DEF GoalsInv, ScheduleTypeOK
    <2> QED
        BY <2>1, RowsStay DEF ScheduleTypeOK
<1>2. IsFiniteSet(coded)'
    BY DEF GoalsInv
<1>3. (\A u \in Users : zone[u] = HomeZone[u] \/ u \in touched)'
    BY DEF GoalsInv
<1>4. (\A due \in waiting : due.now \in {-1} \cup Reached)'
    BY TimeGoesOn DEF GoalsInv
<1>7. (\A g \in Goals : snooze[g] = 0 \/ Owner[g] \in touched)'
    BY DEF GoalsInv
<1>5. (\A w \in GoalWorkers : working[w] # Resting => AttemptFits(working[w]))'
    BY AttemptsGoOn
<1>6. (\A e \in evals : RowFits(e))' /\ EvaluationsCountTheirWindow'
    BY RowsStay
<1> QED
    BY <1>1, <1>2, <1>3, <1>4, <1>5, <1>6, <1>7 DEF GoalsInv

LEMMA TickInv ==
    ASSUME GoalsInv, Tick
    PROVE  GoalsInv'
<1>1. /\ clock \in Nat /\ clock + 1 \in Hours /\ clock' = clock + 1 /\ clock <= clock'
      /\ upsets \in 0 .. MaxUpsets /\ upsets' \in 0 .. MaxUpsets
    BY ScheduleAssumption DEF GoalsInv, ScheduleTypeOK, Hours, Tick
<1> DEFINE new == [hour |-> clock + 1, now |-> -1, scheduled |-> TRUE, retried |-> 0]
<1>2. new \in Task /\ new.now = -1
    <2>1. 0 \in 0 .. MaxTaskRetry /\ -1 \in {-1} \cup Hours
        BY ScheduleAssumption
    <2> QED
        BY <1>1, <2>1 DEF Task
<1>3. waiting' \subseteq waiting \cup {new} /\ missed' \subseteq Hours
    BY <1>1 DEF Tick, GoalsInv, ScheduleTypeOK
<1> HIDE DEF new
<1>4. waiting' \subseteq Task /\ \A due \in waiting' : due \in waiting \/ due.now \in {-1} \cup Reached'
    BY <1>2, <1>3 DEF GoalsInv, ScheduleTypeOK
<1> QED
    BY <1>1, <1>3, <1>4, QuietStep DEF Tick, GoalsInv, ScheduleTypeOK

LEMMA DevGoalsEvaluateInv ==
    ASSUME GoalsInv, DevGoalsEvaluate
    PROVE  GoalsInv'
<1>1. /\ clock \in Hours /\ clock \in Nat /\ clock <= clock /\ Hours \subseteq Int
      /\ upsets \in 0 .. MaxUpsets /\ upsets' \in 0 .. MaxUpsets
    BY ScheduleAssumption DEF GoalsInv, ScheduleTypeOK, Hours, DevGoalsEvaluate
<1>2. PICK now \in {-1} \cup Hours :
          /\ waiting' = waiting \cup {[hour |-> clock, now |-> now, scheduled |-> FALSE, retried |-> 0]}
          /\ ahead' = IF now > clock THEN ahead \cup {now} ELSE ahead
    BY DEF DevGoalsEvaluate
<1> DEFINE new == [hour |-> clock, now |-> now, scheduled |-> FALSE, retried |-> 0]
<1>3. new \in Task /\ new.now = now
    <2>1. 0 \in 0 .. MaxTaskRetry
        BY ScheduleAssumption
    <2> QED
        BY <1>1, <2>1 DEF Task
<1> HIDE DEF new
<1>4. ahead \subseteq ahead' /\ ahead' \subseteq Hours
    <2>1. now > clock => now \in Hours
        BY <1>1
    <2> QED
        BY <1>2, <2>1 DEF GoalsInv, ScheduleTypeOK
<1>5. now \in {-1} \cup Reached'
    <2>1. clock' = clock
        BY DEF DevGoalsEvaluate
    <2>2. CASE now > clock
        BY <1>2, <2>2 DEF Reached
    <2>3. CASE now # -1 /\ ~(now > clock)
        <3>1. now \in 0 .. clock
            BY <1>1, <2>3 DEF Hours
        <3> QED
            BY <2>1, <3>1 DEF Reached
    <2> QED
        BY <2>2, <2>3
<1>6. waiting' \subseteq Task /\ \A due \in waiting' : due \in waiting \/ due.now \in {-1} \cup Reached'
    BY <1>2, <1>3, <1>5 DEF GoalsInv, ScheduleTypeOK, new
<1> QED
    BY <1>1, <1>4, <1>6, QuietStep DEF DevGoalsEvaluate, GoalsInv, ScheduleTypeOK

LEMMA EditGoalInv ==
    ASSUME GoalsInv, NEW g \in Goals, EditGoal(g)
    PROVE  GoalsInv'
<1>1. clock \in Hours /\ clock <= clock /\ upsets' \in 0 .. MaxUpsets
    BY ScheduleAssumption DEF GoalsInv, ScheduleTypeOK, Hours, EditGoal
<1>2. PICK state \in {"enabled", "disabled", "deleted"}, until \in {0} \cup clock + 1 .. MaxHour + 1 :
          /\ goal' = [goal EXCEPT ![g] = state]
          /\ snooze' = [snooze EXCEPT ![g] = until]
          /\ evals' = IF state = "deleted" THEN {e \in evals : e.goal # g} ELSE evals
    BY DEF EditGoal
<1>3. goal' \in [Goals -> {"enabled", "disabled", "deleted"}]
    BY <1>2 DEF GoalsInv, ScheduleTypeOK
<1>4. evals' \subseteq evals /\ \A e \in evals' : goal'[e.goal] # "deleted"
    <2>1. \A e \in evals : e.goal \in Goals /\ goal[e.goal] # "deleted"
        BY DEF GoalsInv, ScheduleTypeOK, Evaluation
    <2>2. evals' \subseteq evals
        BY <1>2
    <2>3. ASSUME NEW e \in evals' PROVE goal'[e.goal] # "deleted"
        <3>1. PICK h \in Goals : h = e.goal /\ goal[h] # "deleted"
            BY <2>1, <2>2
        <3>2. CASE h = g
            <4>1. state # "deleted"
                BY <1>2, <3>1, <3>2
            <4> QED
                BY <1>2, <3>1, <3>2, <4>1 DEF GoalsInv, ScheduleTypeOK
        <3>3. CASE h # g
            BY <1>2, <3>1, <3>3 DEF GoalsInv, ScheduleTypeOK
        <3> QED
            BY <3>2, <3>3
    <2> QED
        BY <2>2, <2>3
<1>5. touched' = touched \cup {Owner[g]} /\ touched' \subseteq Users
    <2>1. Owner[g] \in Users
        BY ScheduleAssumption
    <2> QED
        BY <2>1 DEF EditGoal, GoalsInv, ScheduleTypeOK
<1>6. snooze' \in [Goals -> Nat] /\ \A h \in Goals : snooze'[h] = snooze[h] \/ Owner[h] \in touched'
    <2>1. until \in Nat
        BY ScheduleAssumption DEF GoalsInv, ScheduleTypeOK, Hours
    <2> QED
        BY <1>2, <1>5, <2>1 DEF GoalsInv, ScheduleTypeOK
<1> QED
    BY <1>1, <1>3, <1>4, <1>5, <1>6, QuietStep DEF EditGoal, GoalsInv, ScheduleTypeOK

LEMMA ChangeZoneInv ==
    ASSUME GoalsInv, NEW u \in Users, ChangeZone(u)
    PROVE  GoalsInv'
<1>1. clock \in Hours /\ clock <= clock /\ upsets' \in 0 .. MaxUpsets
    BY ScheduleAssumption DEF GoalsInv, ScheduleTypeOK, Hours, ChangeZone
<1>2. touched' = touched \cup {u} /\ touched' \subseteq Users
    BY DEF ChangeZone, GoalsInv, ScheduleTypeOK
<1>3. zone' \in [Users -> Zones] /\ \A v \in Users : zone'[v] = zone[v] \/ v \in touched'
    BY <1>2 DEF ChangeZone, GoalsInv, ScheduleTypeOK
<1> QED
    BY <1>1, <1>2, <1>3, QuietStep DEF ChangeZone, GoalsInv, ScheduleTypeOK

\* An attempt that failed gives its task back.
LEMMA FailsFits ==
    ASSUME GoalsInv, NEW w \in GoalWorkers, working[w] # Resting, Fails(w)
    PROVE  /\ working' \in [GoalWorkers -> {Resting} \cup Attempt]
           /\ working'[w] = Resting
           /\ \A v \in GoalWorkers : v # w => working'[v] = working[v]
           /\ waiting' \subseteq Task
           /\ \A due \in waiting' : due \in waiting \/ due.now \in {-1} \cup Reached
           /\ missed' \subseteq Hours
<1>1. PICK r \in Attempt : r = working[w]
    BY DEF GoalsInv, ScheduleTypeOK
<1>2. r.task \in Task /\ r.task.now \in {-1} \cup Reached
    BY <1>1 DEF Attempt, GoalsInv, AttemptFits
<1>3. Again(r.task) \subseteq Task /\ \A due \in Again(r.task) : due.now \in {-1} \cup Reached
    <2>1. CASE r.task.retried < MaxTaskRetry
        <3>1. PICK t \in Task : t = r.task /\ t.now \in {-1} \cup Reached
            BY <1>2
        <3>2. t.retried + 1 \in 0 .. MaxTaskRetry
            BY <2>1, <3>1, ScheduleAssumption DEF Task
        <3>3. [t EXCEPT !.retried = @ + 1] \in Task /\ [t EXCEPT !.retried = @ + 1].now = t.now
            BY <3>2 DEF Task
        <3> QED
            BY <3>1, <3>3 DEF Again
    <2>2. CASE ~(r.task.retried < MaxTaskRetry)
        BY <2>2 DEF Again
    <2> QED
        BY <2>1, <2>2
<1>4. waiting' = waiting \cup Again(r.task)
    BY <1>1 DEF Fails
<1>5. missed' \subseteq Hours
    BY <1>1, <1>2 DEF Fails, GoalsInv, ScheduleTypeOK, Task
<1> QED
    BY <1>3, <1>4, <1>5 DEF Fails, GoalsInv, ScheduleTypeOK

LEMMA FailAttemptInv ==
    ASSUME GoalsInv, NEW w \in GoalWorkers, FailAttempt(w)
    PROVE  GoalsInv'
<1>1. clock \in Hours /\ clock <= clock /\ upsets' \in 0 .. MaxUpsets
    BY ScheduleAssumption DEF GoalsInv, ScheduleTypeOK, Hours, FailAttempt
<1>2. working[w] # Resting /\ Fails(w)
    BY DEF FailAttempt
<1>3. Reached' = Reached
    BY DEF FailAttempt, Reached
<1> QED
    BY <1>1, <1>2, <1>3, FailsFits, QuietStep DEF FailAttempt, GoalsInv, ScheduleTypeOK

\* An attempt begins with nothing read.
LEMMA TakeGoalTaskInv ==
    ASSUME GoalsInv, NEW w \in GoalWorkers, TakeGoalTask(w)
    PROVE  GoalsInv'
<1>1. clock \in Hours /\ clock <= clock /\ Hours \subseteq Int /\ 0 \in Nat
    BY ScheduleAssumption DEF GoalsInv, ScheduleTypeOK, Hours
<1>2. PICK due, now :
          /\ due \in waiting /\ now = IF due.now >= 0 THEN due.now ELSE clock
          /\ Proceeds(w, [at |-> "working", task |-> due, now |-> now, zone |-> zone,
                 step |-> [u \in Users |-> IF ShouldEvaluateUserForTask(due, zone[u], now)
                                           THEN "list" ELSE "done"],
                 todo |-> {}, snooze |-> [g \in Goals |-> 0], data |-> {}, known |-> [u \in Users |-> 0]])
          /\ waiting' = waiting \ {due}
          /\ missed' \subseteq missed \cup {due.hour}
    BY DEF TakeGoalTask
<1>3. due \in Task /\ due.now \in {-1} \cup Reached /\ due.now \in {-1} \cup Hours /\ due.hour \in Hours
    BY <1>2 DEF GoalsInv, ScheduleTypeOK, Task
<1>4. now \in Hours /\ now \in Reached
    <2>1. due.now >= 0 => due.now \in Hours /\ due.now \in Reached
        BY <1>3
    <2>2. clock \in Reached
        BY <1>1, ScheduleAssumption DEF Reached, Hours
    <2> QED
        BY <1>1, <1>2, <2>1, <2>2
<1> DEFINE step == [u \in Users |-> IF ShouldEvaluateUserForTask(due, zone[u], now)
                                    THEN "list" ELSE "done"]
           new == [at |-> "working", task |-> due, now |-> now, zone |-> zone, step |-> step,
                   todo |-> {}, snooze |-> [g \in Goals |-> 0], data |-> {}, known |-> [u \in Users |-> 0]]
<1>5. PICK r : r = new
    OBVIOUS
<1>6. step \in [Users -> {"list", "read", "upsert", "done"}]
      /\ \A u \in Users : step[u] \in {"list", "done"}
    OBVIOUS
<1>7. r \in Attempt
    <2>1. /\ zone \in [Users -> Zones] /\ [u \in Users |-> 0] \in [Users -> Nat]
          /\ [g \in Goals |-> 0] \in [Goals -> Nat]
        BY <1>1 DEF GoalsInv, ScheduleTypeOK
    <2> HIDE DEF step
    <2> QED
        BY <1>3, <1>4, <1>5, <1>6, <2>1 DEF Attempt
<1> HIDE DEF step
<1>8. AttemptFits(r)
    <2>1. ASSUME NEW u \in Users PROVE UserFits(r, u)
        <3>1. r.known[u] = 0 /\ r.step[u] \in {"list", "done"} /\ Of(u, r.data) = {} /\ r.zone[u] = zone[u]
            BY <1>5, <1>6 DEF Of
        <3>2. Cardinality(Of(u, coded)) \in Nat
            BY BeatsCounted DEF GoalsInv
        <3> QED
            BY <3>1, <3>2 DEF UserFits, GoalsInv
    <2> QED
        BY <1>3, <1>4, <1>5, <2>1 DEF AttemptFits
<1>9. coded' = coded /\ touched' = touched /\ clock' = clock /\ ahead' = ahead
    BY DEF TakeGoalTask
<1>10. AttemptFits(r)'
    BY <1>1, <1>7, <1>8, <1>9, TimeGoesOn
<1>11. Proceeds(w, r)
    BY <1>2, <1>5 DEF step
<1>12. /\ working' \in [GoalWorkers -> {Resting} \cup Attempt]
       /\ \A v \in GoalWorkers :
              working'[v] # Resting => working'[v] = working[v] \/ AttemptFits(working[v])'
    <2>1. /\ working' \in [GoalWorkers -> {Resting} \cup Attempt]
          /\ working'[w] \in {Resting, r}
          /\ \A v \in GoalWorkers : v # w => working'[v] = working[v]
        BY <1>7, <1>11, Proceeding
    <2>2. working'[w] = r => AttemptFits(working[w])'
        BY <1>10
    <2> QED
        BY <2>1, <2>2
<1>13. missed' \subseteq Hours /\ waiting' \subseteq Task /\ \A x \in waiting' : x \in waiting
    BY <1>2, <1>3 DEF GoalsInv, ScheduleTypeOK
<1> QED
    BY <1>1, <1>9, <1>12, <1>13, QuietStep DEF TakeGoalTask, GoalsInv, ScheduleTypeOK

\* An attempt that goes on by itself.
LEMMA AttemptStepFits ==
    ASSUME GoalsInv, NEW w \in GoalWorkers, NEW r \in Attempt, AttemptFits(r),
           Proceeds(w, r), coded' = coded, touched' = touched, clock' = clock, ahead' = ahead
    PROVE  /\ working' \in [GoalWorkers -> {Resting} \cup Attempt]
           /\ \A v \in GoalWorkers :
                  working'[v] # Resting => working'[v] = working[v] \/ AttemptFits(working[v])'
<1>1. clock \in Hours /\ clock <= clock
    BY ScheduleAssumption DEF GoalsInv, ScheduleTypeOK, Hours
<1>2. AttemptFits(r)'
    BY <1>1, TimeGoesOn
<1>3. /\ working' \in [GoalWorkers -> {Resting} \cup Attempt]
      /\ working'[w] \in {Resting, r}
      /\ \A v \in GoalWorkers : v # w => working'[v] = working[v]
    BY Proceeding
<1>4. working'[w] = r => AttemptFits(working[w])'
    BY <1>2
<1> QED
    BY <1>3, <1>4

LEMMA ListGoalsInv ==
    ASSUME GoalsInv, NEW w \in GoalWorkers, NEW u \in Users, ListGoals(w, u)
    PROVE  GoalsInv'
<1>1. clock \in Hours /\ clock <= clock
    BY ScheduleAssumption DEF GoalsInv, ScheduleTypeOK, Hours
<1>2. PICK r \in Attempt : r = working[w] /\ AttemptFits(r) /\ r.step[u] = "list"
    BY DEF GoalsInv, ScheduleTypeOK, ListGoals, Doing
<1> DEFINE enabled == {g \in Goals : Owner[g] = u /\ goal[g] = "enabled"}
           new == [r EXCEPT !.todo = @ \cup enabled,
                            !.snooze = [g \in Goals |-> IF Owner[g] = u THEN snooze[g] ELSE @[g]],
                            !.step[u] = IF enabled = {} THEN "done" ELSE "read"]
<1>3. PICK q : q = new
    OBVIOUS
<1>4. /\ q.at = r.at /\ q.task = r.task /\ q.now = r.now /\ q.zone = r.zone
      /\ q.data = r.data /\ q.known = r.known /\ q.todo = r.todo \cup enabled
      /\ q.step = [r.step EXCEPT ![u] = IF enabled = {} THEN "done" ELSE "read"]
      /\ q.snooze = [g \in Goals |-> IF Owner[g] = u THEN snooze[g] ELSE r.snooze[g]]
    BY <1>3 DEF Attempt
<1>5. q \in Attempt
    <2>1. q.snooze \in [Goals -> Nat]
        BY <1>4 DEF GoalsInv, ScheduleTypeOK, Attempt
    <2>2. enabled \subseteq Goals
        OBVIOUS
    <2> HIDE DEF enabled
    <2> QED
        BY <1>3, <1>4, <2>1, <2>2 DEF Attempt
<1>6. AttemptFits(q)
    <2>1. ASSUME NEW v \in Users PROVE UserFits(q, v)
        <3>1. UserFits(r, v)
            BY <1>2 DEF AttemptFits
        <3>2. CASE v = u
            <4>1. q.step[u] \in {"done", "read"} /\ (q.step[u] = "read" => enabled # {})
                BY <1>4 DEF Attempt
            <4>2. Of(u, q.data) = {}
                BY <1>2, <1>4, <3>1, <3>2 DEF UserFits
            <4> QED
                BY <1>4, <3>1, <3>2, <4>1, <4>2 DEF UserFits
        <3>3. CASE v # u
            <4>1. q.step[v] = r.step[v]
                BY <1>4, <3>3 DEF Attempt
            <4>2. \A g \in q.todo : Owner[g] = v => g \in r.todo
                BY <1>4, <3>3
            <4>3. \A g : Enough(r, g) => Enough(q, g)
                BY <1>4 DEF Enough
            <4> QED
                BY <1>4, <3>1, <4>1, <4>2, <4>3 DEF UserFits
        <3> QED
            BY <3>2, <3>3
    <2>2. \A g \in Goals : q.snooze[g] = 0 \/ Owner[g] \in touched
        BY <1>2, <1>4 DEF GoalsInv, AttemptFits
    <2> QED
        BY <1>2, <1>4, <2>1, <2>2 DEF AttemptFits
<1>7. Proceeds(w, q) /\ coded' = coded /\ touched' = touched /\ clock' = clock /\ ahead' = ahead
    BY <1>2, <1>3 DEF ListGoals
<1>8. /\ working' \in [GoalWorkers -> {Resting} \cup Attempt]
      /\ \A v \in GoalWorkers :
             working'[v] # Resting => working'[v] = working[v] \/ AttemptFits(working[v])'
    BY <1>5, <1>6, <1>7, AttemptStepFits
<1> QED
    BY <1>1, <1>8, QuietStep DEF ListGoals, GoalsInv, ScheduleTypeOK

\* What is read for a user is enough for each goal that was listed.
LEMMA ReadDataInv ==
    ASSUME GoalsInv, NEW w \in GoalWorkers, NEW u \in Users, ReadData(w, u)
    PROVE  GoalsInv'
<1>1. clock \in Hours /\ clock <= clock
    BY ScheduleAssumption DEF GoalsInv, ScheduleTypeOK, Hours
<1>2. PICK r \in Attempt : r = working[w] /\ AttemptFits(r) /\ r.step[u] = "read"
    BY DEF GoalsInv, ScheduleTypeOK, ReadData, Doing
<1> DEFINE goals == {g \in r.todo : Owner[g] = u}
           window == EvaluationDataWindow(goals, r.zone[u], r.now)
           new == [r EXCEPT !.data = @ \cup Within(Of(u, coded), window),
                            !.known[u] = Cardinality(Of(u, coded)),
                            !.step[u] = "upsert"]
<1>3. PICK q : q = new
    OBVIOUS
<1>4. /\ q.at = r.at /\ q.task = r.task /\ q.now = r.now /\ q.zone = r.zone /\ q.todo = r.todo
      /\ q.data = r.data \cup Within(Of(u, coded), window)
      /\ q.known = [r.known EXCEPT ![u] = Cardinality(Of(u, coded))]
      /\ q.step = [r.step EXCEPT ![u] = "upsert"] /\ q.snooze = r.snooze
    BY <1>3 DEF Attempt
<1>5. Cardinality(Of(u, coded)) \in Nat /\ coded \subseteq Beats /\ r.data \subseteq coded
    BY <1>2, BeatsCounted DEF GoalsInv, ScheduleTypeOK, AttemptFits
<1>6. Within(Of(u, coded), window) \subseteq Of(u, coded) /\ Of(u, coded) \subseteq coded
    BY DEF Within, Of
<1>7. q \in Attempt
    <2>1. Within(Of(u, coded), window) \subseteq Beats
        BY <1>5, <1>6
    <2> HIDE DEF window
    <2> QED
        BY <1>3, <1>5, <2>1 DEF Attempt
<1>8. AttemptFits(q)
    <2>1. ASSUME NEW v \in Users PROVE UserFits(q, v)
        <3>1. UserFits(r, v)
            BY <1>2 DEF AttemptFits
        <3>2. CASE v = u
            <4>1. q.step[u] = "upsert" /\ q.known[u] = Cardinality(Of(u, coded))
                BY <1>4 DEF Attempt
            <4>2. Of(u, q.data) = Within(Of(u, coded), window)
                <5>1. Of(u, r.data) = {}
                    BY <1>2, <3>1, <3>2 DEF UserFits
                <5>2. Of(u, Within(Of(u, coded), window)) = Within(Of(u, coded), window)
                    BY <1>6 DEF Of
                <5> HIDE DEF window
                <5> QED
                    BY <1>4, <5>1, <5>2 DEF Of
            <4>3. ASSUME NEW g \in q.todo, Owner[g] = u
                  PROVE  Enough(q, g)
                <5>1. g \in goals /\ goals \subseteq Goals /\ g \in Goals
                    BY <1>4, <4>3 DEF Attempt
                <5>2. PICK z \in Zones, n \in Hours : z = r.zone[u] /\ n = r.now
                    BY DEF Attempt
                <5>3. PICK x, y \in [from : Int, to : Int] :
                          /\ x = GoalEvaluationWindow(g, z, n) /\ y = EvaluationDataWindow(goals, z, n)
                          /\ x.from < x.to /\ y.from <= x.from /\ x.to <= y.to
                          /\ g \in Improving => y.from <= x.from - (x.to - x.from)
                    BY <5>1, DataCovers
                <5>4. PICK B : B = Of(u, coded) /\ B \subseteq Beats
                    BY <1>5, <1>6
                <5>5. \A snoozed \in BOOLEAN :
                          GoalProgress(g, Within(B, y), x, snoozed) = GoalProgress(g, B, x, snoozed)
                    BY <5>1, <5>3, <5>4, ProgressKept
                <5>6. Of(u, q.data) = Within(B, y)
                    BY <4>2, <5>2, <5>3, <5>4
                <5>7. x = GoalEvaluationWindow(g, q.zone[u], q.now)
                    BY <1>4, <5>2, <5>3
                <5> QED
                    BY <4>3, <5>4, <5>5, <5>6, <5>7 DEF Enough
            <4>4. q.zone = r.zone
                BY <1>4
            <4>5. Cardinality(Of(u, coded)) <= Cardinality(Of(u, coded))
                BY <1>5
            <4> QED
                BY <3>1, <3>2, <4>1, <4>3, <4>4, <4>5 DEF UserFits
        <3>3. CASE v # u
            <4>1. q.step[v] = r.step[v] /\ q.known[v] = r.known[v]
                BY <1>4, <3>3 DEF Attempt
            <4>2. Of(v, q.data) = Of(v, r.data)
                <5>1. \A b \in Within(Of(u, coded), window) : b.of = u
                    BY <1>6 DEF Of
                <5> HIDE DEF window
                <5> QED
                    BY <1>4, <3>3, <5>1 DEF Of
            <4>3. q.todo = r.todo /\ q.zone = r.zone /\ q.now = r.now
                BY <1>4
            <4>4. \A g : Owner[g] = v /\ Enough(r, g) => Enough(q, g)
                BY <4>2, <4>3 DEF Enough
            <4> QED
                BY <3>1, <4>1, <4>2, <4>3, <4>4 DEF UserFits
        <3> QED
            BY <3>2, <3>3
    <2>2. q.data \subseteq coded
        BY <1>4, <1>5, <1>6
    <2> QED
        BY <1>2, <1>4, <2>1, <2>2 DEF AttemptFits
<1>9. coded' = coded /\ touched' = touched /\ clock' = clock /\ ahead' = ahead
    BY DEF ReadData
<1>10. AttemptFits(q)'
    BY <1>1, <1>7, <1>8, <1>9, TimeGoesOn
<1>11. working' = [working EXCEPT ![w] = q]
    BY <1>2, <1>3 DEF ReadData, Todo
<1>12. /\ working' \in [GoalWorkers -> {Resting} \cup Attempt]
       /\ \A v \in GoalWorkers :
              working'[v] # Resting => working'[v] = working[v] \/ AttemptFits(working[v])'
    <2>1. /\ working' \in [GoalWorkers -> {Resting} \cup Attempt]
          /\ working'[w] = q
          /\ \A v \in GoalWorkers : v # w => working'[v] = working[v]
        BY <1>7, <1>11 DEF GoalsInv, ScheduleTypeOK
    <2>2. AttemptFits(working[w])'
        BY <1>10, <2>1
    <2> QED
        BY <2>1, <2>2
<1> QED
    BY <1>1, <1>9, <1>12, QuietStep DEF ReadData, GoalsInv, ScheduleTypeOK

\* A heartbeat that comes is one more than was known.
LEMMA CodeTimeInv ==
    ASSUME GoalsInv, NEW u \in Users, CodeTime(u)
    PROVE  GoalsInv'
<1>1. PICK b \in Beats : coded' = coded \cup {b}
    <2>1. 0 .. clock \subseteq Hours
        BY ScheduleAssumption DEF GoalsInv, ScheduleTypeOK, Hours
    <2> QED
        BY <2>1 DEF CodeTime, Beats
<1>2. IsFiniteSet(coded) /\ IsFiniteSet(coded') /\ coded' \subseteq Beats
    BY <1>1, BeatsGrow DEF GoalsInv, ScheduleTypeOK
<1>3. \A v : \/ Of(v, coded') = Of(v, coded)
             \/ Cardinality(Of(v, coded')) = Cardinality(Of(v, coded)) + 1
    BY <1>1, <1>2, BeatsGrow
<1>4. \A v : Cardinality(Of(v, coded)) \in Nat
    BY <1>2, BeatsCounted
<1>5. /\ clock' = clock /\ goal' = goal /\ zone' = zone /\ waiting' = waiting
      /\ working' = working /\ evals' = evals /\ upsets' = upsets /\ missed' = missed
      /\ touched' = touched /\ snooze' = snooze /\ ahead' = ahead /\ Reached' = Reached
    BY DEF CodeTime, Reached
<1>6. ScheduleTypeOK'
    BY <1>2, <1>5 DEF GoalsInv, ScheduleTypeOK
<1>7. ASSUME NEW w \in GoalWorkers, working[w] # Resting
      PROVE  AttemptFits(working[w])'
    <2>1. PICK r \in Attempt : r = working[w] /\ AttemptFits(r)
        BY <1>7 DEF GoalsInv, ScheduleTypeOK
    <2>2. ASSUME NEW v \in Users PROVE UserFits(r, v)'
        <3>1. UserFits(r, v)
            BY <2>1 DEF AttemptFits
        <3>2. r.known[v] \in Nat
            BY DEF Attempt
        <3>3. PICK k, c, d \in Int : /\ k = r.known[v] /\ c = Cardinality(Of(v, coded))
                                     /\ d = Cardinality(Of(v, coded')) /\ k <= c
            BY <1>3, <1>4, <3>1, <3>2 DEF UserFits
        <3>4. CASE Of(v, coded') = Of(v, coded)
            <4>1. \A g : Owner[g] = v /\ Enough(r, g) => Enough(r, g)'
                BY <3>4 DEF Enough
            <4> QED
                BY <1>5, <3>1, <3>4, <4>1 DEF UserFits
        <3>5. CASE d = c + 1
            <4>1. k <= d /\ k # d
                BY <3>3, <3>5
            <4> QED
                BY <1>5, <3>1, <3>3, <4>1 DEF UserFits
        <3> QED
            BY <1>3, <3>3, <3>4, <3>5
    <2>3. AttemptFits(r)'
        BY <1>1, <1>5, <2>1, <2>2 DEF AttemptFits
    <2> QED
        BY <1>5, <2>1, <2>3
<1>8. ASSUME NEW e \in evals
      PROVE  /\ RowFits(e)'
             /\ e.known # Cardinality(Of(Owner[e.goal], coded')) \/ Of(Owner[e.goal], coded') = Of(Owner[e.goal], coded)
    <2>1. RowFits(e) /\ e.known \in Nat
        BY DEF GoalsInv, ScheduleTypeOK, Evaluation
    <2>2. PICK k, c, d \in Int : /\ k = e.known /\ c = Cardinality(Of(Owner[e.goal], coded))
                                 /\ d = Cardinality(Of(Owner[e.goal], coded')) /\ k <= c
        BY <1>3, <1>4, <2>1 DEF RowFits
    <2>3. k <= d /\ (k # d \/ Of(Owner[e.goal], coded') = Of(Owner[e.goal], coded))
        BY <1>3, <2>2
    <2>4. EndedWindow(e.goal, e.from, e.to)'
        BY <1>5, <2>1 DEF RowFits, EndedWindow
    <2> QED
        BY <2>2, <2>3, <2>4 DEF RowFits
<1>9. EvaluationsCountTheirWindow'
    BY <1>5, <1>8 DEF GoalsInv, EvaluationsCountTheirWindow
<1> QED
    BY <1>2, <1>5, <1>6, <1>7, <1>8, <1>9 DEF GoalsInv

\* A row counts what the attempt has read, which was enough for its goal.
LEMMA UpsertGoalEvaluationInv ==
    ASSUME GoalsInv, NEW w \in GoalWorkers, NEW u \in Users, UpsertGoalEvaluation(w, u)
    PROVE  GoalsInv'
<1>1. clock \in Hours /\ clock <= clock /\ clock' = clock /\ clock \in Nat /\ Hours \subseteq Nat
    BY ScheduleAssumption DEF GoalsInv, ScheduleTypeOK, Hours, UpsertGoalEvaluation
<1>2. PICK r \in Attempt : r = working[w] /\ AttemptFits(r) /\ r.step[u] = "upsert" /\ r # Resting
    BY DEF GoalsInv, ScheduleTypeOK, UpsertGoalEvaluation, Doing
<1>3. PICK g :
          /\ g \in Todo(w, u)
          /\ goal[g] = "deleted" => Fails(w) /\ evals' = evals
          /\ goal[g] # "deleted" =>
                LET window == GoalEvaluationWindow(g, r.zone[u], r.now)
                    snoozed == GoalSnoozed(r.snooze[g])
                    progress == GoalProgress(g, Of(u, r.data), window, snoozed)
                IN /\ evals' = Upserted([goal |-> g, from |-> window.from, to |-> window.to,
                                         actual |-> progress.actual, target |-> progress.target,
                                         known |-> r.known[u], snoozed |-> snoozed])
                   /\ Proceeds(w, [r EXCEPT !.todo = @ \ {g},
                                            !.step[u] = IF Todo(w, u) = {g} THEN "done" ELSE "upsert"])
                   /\ UNCHANGED <<waiting, missed>>
    BY <1>2 DEF UpsertGoalEvaluation
<1>4. g \in Goals /\ g \in r.todo /\ Owner[g] = u
    BY <1>2, <1>3 DEF Todo, Attempt
<1>5. /\ coded' = coded /\ goal' = goal /\ zone' = zone /\ upsets' = upsets /\ touched' = touched
      /\ snooze' = snooze /\ ahead' = ahead /\ Reached' = Reached
    BY DEF UpsertGoalEvaluation, Reached
<1>6. CASE goal[g] = "deleted"
    <2>1. Fails(w) /\ evals' = evals
        BY <1>3, <1>6
    <2> QED
        BY <1>1, <1>2, <1>5, <2>1, FailsFits, QuietStep DEF GoalsInv, ScheduleTypeOK
<1>7. CASE goal[g] # "deleted"
    <2> DEFINE new == [r EXCEPT !.todo = @ \ {g},
                                !.step[u] = IF Todo(w, u) = {g} THEN "done" ELSE "upsert"]
    <2>1. PICK q : q = new
        OBVIOUS
    <2>2. PICK window, snoozed, progress :
              /\ window = GoalEvaluationWindow(g, r.zone[u], r.now)
              /\ snoozed = GoalSnoozed(r.snooze[g])
              /\ progress = GoalProgress(g, Of(u, r.data), window, snoozed)
        OBVIOUS
    <2>3. PICK made : made = [goal |-> g, from |-> window.from, to |-> window.to,
                               actual |-> progress.actual, target |-> progress.target,
                               known |-> r.known[u], snoozed |-> snoozed]
        OBVIOUS
    <2>4. Proceeds(w, q) /\ evals' = Upserted(made) /\ waiting' = waiting /\ missed' = missed
        BY <1>3, <1>7, <2>1, <2>2, <2>3
    <2>5. /\ q.at = r.at /\ q.task = r.task /\ q.now = r.now /\ q.zone = r.zone
          /\ q.data = r.data /\ q.known = r.known /\ q.snooze = r.snooze /\ q.todo = r.todo \ {g}
          /\ q.step = [r.step EXCEPT ![u] = IF Todo(w, u) = {g} THEN "done" ELSE "upsert"]
        BY <2>1 DEF Attempt
    <2>6. q \in Attempt
        BY <2>1 DEF Attempt
    <2>7. AttemptFits(q)
        <3>1. ASSUME NEW v \in Users PROVE UserFits(q, v)
            <4>1. UserFits(r, v)
                BY <1>2 DEF AttemptFits
            <4>2. q.step[v] = r.step[v] \/ (v = u /\ q.step[v] = "done")
                BY <1>2, <2>5 DEF Attempt
            <4>3. q.todo \subseteq r.todo /\ (v # u => \A h \in r.todo : Owner[h] = v => h \in q.todo)
                BY <1>4, <2>5
            <4>4. \A h : Enough(r, h) => Enough(q, h)
                BY <2>5 DEF Enough
            <4>5. v = u => q.step[v] # "read"
                BY <1>2, <4>2
            <4> QED
                BY <2>5, <4>1, <4>2, <4>3, <4>4, <4>5 DEF UserFits
        <3> QED
            BY <1>2, <2>5, <3>1 DEF AttemptFits
    <2>8. /\ working' \in [GoalWorkers -> {Resting} \cup Attempt]
          /\ \A v \in GoalWorkers :
                 working'[v] # Resting => working'[v] = working[v] \/ AttemptFits(working[v])'
        BY <1>1, <1>5, <2>4, <2>6, <2>7, AttemptStepFits
    <2>9. (\A v \in GoalWorkers : working[v] # Resting => AttemptFits(working[v]))'
        BY <1>1, <1>5, <2>8, AttemptsGoOn
    <2>10. PICK z \in Zones, n \in Hours : z = r.zone[u] /\ n = r.now /\ n \in Reached
        BY <1>2 DEF Attempt, AttemptFits
    <2>11. window = GoalEvaluationWindow(g, z, n) /\ window = [from |-> window.from, to |-> window.to]
        BY <2>2, <2>10 DEF GoalEvaluationWindow
    <2>12. window.from \in Int /\ window.to \in Int
        BY <1>4, <2>11, WindowsApart
    <2>13. IsFiniteSet(Of(u, r.data))
        <3>1. r.data \subseteq coded
            BY <1>2 DEF AttemptFits
        <3> QED
            BY <3>1, BeatsCounted, FS_Subset DEF GoalsInv
    <2>14. snoozed \in BOOLEAN
        <3>1. GoalSnoozed(r.snooze[g]) \in BOOLEAN
            BY DEF GoalSnoozed
        <3> QED
            BY <2>2, <3>1, Zenon
    <2>15. progress.actual \in Nat /\ progress.target \in Nat
        <3>1. progress = GoalProgress(g, Of(u, r.data), window, snoozed)
            BY <2>2
        <3> QED
            BY <2>14, <2>13, <3>1, ProgressTyped
    <2>16. made \in Evaluation
        <3>1. r.known[u] \in Nat
            BY DEF Attempt
        <3> QED
            BY <1>4, <2>3, <2>14, <2>12, <2>15, <3>1 DEF Evaluation
    <2>17. /\ made.goal = g /\ made.from = window.from /\ made.to = window.to
           /\ made.actual = progress.actual /\ made.target = progress.target
           /\ made.known = r.known[u] /\ made.snoozed = snoozed
        BY <2>3
    <2>18. UserFits(r, u)
        BY <1>2 DEF AttemptFits
    <2>19. RowFits(made)
        <3>1. n \in Reached
            BY <2>10
        <3>2. z = HomeZone[Owner[g]] \/ Owner[g] \in touched
            BY <1>4, <2>10, <2>18 DEF UserFits
        <3>3. [from |-> made.from, to |-> made.to] = GoalEvaluationWindow(g, z, n)
            BY <2>11, <2>17
        <3>4. EndedWindow(made.goal, made.from, made.to)
            BY <2>17, <3>1, <3>2, <3>3 DEF EndedWindow
        <3> QED
            BY <1>4, <2>17, <2>18, <3>4 DEF RowFits, UserFits
    <2>20. made.known = Cardinality(Of(Owner[made.goal], coded)) =>
              [actual |-> made.actual, target |-> made.target] =
                  GoalProgress(made.goal, Of(Owner[made.goal], coded), [from |-> made.from, to |-> made.to],
                               made.snoozed)
        <3>1. SUFFICES ASSUME r.known[u] = Cardinality(Of(u, coded))
                       PROVE  [actual |-> progress.actual, target |-> progress.target]
                                  = GoalProgress(g, Of(u, coded), window, snoozed)
            BY <1>4, <2>11, <2>17
        <3>2. Enough(r, g)
            BY <1>2, <1>4, <2>18, <3>1 DEF UserFits
        <3>3. progress = GoalProgress(g, Of(u, coded), window, snoozed)
            BY <1>4, <2>2, <2>14, <3>2 DEF Enough
        <3>4. progress = [actual |-> progress.actual, target |-> progress.target]
            BY <3>3 DEF GoalProgress
        <3> QED
            BY <3>3, <3>4
    <2>21. \A e \in evals' : e \in evals \/ e = made
        BY <2>4 DEF Upserted
    <2>22. \A e, f \in evals' : (e.goal = f.goal /\ e.from = f.from /\ e.to = f.to) => e = f
        BY <2>4 DEF Upserted, GoalsInv, ScheduleTypeOK
    <2>23. ScheduleTypeOK'
        BY <1>1, <1>5, <1>7, <2>4, <2>8, <2>16, <2>17, <2>21, <2>22 DEF GoalsInv, ScheduleTypeOK
    <2>24. \A e \in evals' : RowFits(e)'
        <3>1. ASSUME NEW e \in evals' PROVE RowFits(e)'
            <4>1. RowFits(e)
                BY <2>19, <2>21 DEF GoalsInv
            <4> QED
                BY <1>1, <1>5, <4>1 DEF RowFits, EndedWindow
        <3> QED
            BY <3>1
    <2>25. made.snoozed => Owner[made.goal] \in touched
        <3>1. SUFFICES ASSUME GoalSnoozed(r.snooze[g]) PROVE Owner[g] \in touched
            BY <2>2, <2>17, Zenon
        <3>2. r.snooze[g] # 0
            BY <1>1, <3>1 DEF GoalSnoozed
        <3> QED
            BY <1>2, <1>4, <3>2 DEF AttemptFits
    <2>26. EvaluationsCountTheirWindow'
        BY <1>5, <2>20, <2>21, <2>25 DEF GoalsInv, EvaluationsCountTheirWindow
    <2> QED
        BY <1>1, <1>5, <2>4, <2>9, <2>23, <2>24, <2>26 DEF GoalsInv
<1> QED
    BY <1>6, <1>7

LEMMA GoalsInvNext == GoalsInv /\ [ScheduleNext]_scheduleVars => GoalsInv'
<1> SUFFICES ASSUME GoalsInv, [ScheduleNext]_scheduleVars PROVE GoalsInv'
    OBVIOUS
<1>1. CASE UNCHANGED scheduleVars
    <2>1. clock \in Hours /\ clock <= clock
        BY ScheduleAssumption DEF GoalsInv, ScheduleTypeOK, Hours
    <2> QED
        BY <1>1, <2>1, QuietStep DEF scheduleVars, GoalsInv, ScheduleTypeOK
<1>2. CASE Tick
    BY <1>2, TickInv
<1>3. CASE DevGoalsEvaluate
    BY <1>3, DevGoalsEvaluateInv
<1>4. ASSUME NEW w \in GoalWorkers, TakeGoalTask(w) \/ AttemptStep(w) \/ FailAttempt(w)
      PROVE  GoalsInv'
    BY <1>4, TakeGoalTaskInv, FailAttemptInv, ListGoalsInv, ReadDataInv, UpsertGoalEvaluationInv
       DEF AttemptStep
<1>5. ASSUME NEW u \in Users, CodeTime(u) \/ ChangeZone(u)
      PROVE  GoalsInv'
    BY <1>5, CodeTimeInv, ChangeZoneInv
<1>6. ASSUME NEW g \in Goals, EditGoal(g)
      PROVE  GoalsInv'
    BY <1>6, EditGoalInv
<1> QED
    BY <1>1, <1>2, <1>3, <1>4, <1>5, <1>6 DEF ScheduleNext

\* Windows of a user who kept the zone are windows of one zone.
LEMMA RowsDisjoint == GoalsInv => WindowsAreDisjoint
<1> SUFFICES ASSUME GoalsInv PROVE WindowsAreDisjoint
    OBVIOUS
<1>1. clock \in Nat /\ Reached \subseteq Hours /\ Hours \subseteq Int
    BY ScheduleAssumption DEF GoalsInv, ScheduleTypeOK, Reached, Hours
<1>2. ASSUME NEW e \in evals PROVE e.from < e.to /\ (e.to <= clock \/ \E h \in ahead : e.to <= h)
    <2>1. e.goal \in Goals /\ e.from \in Int /\ e.to \in Int
        BY DEF GoalsInv, ScheduleTypeOK, Evaluation
    <2>2. PICK z, n, v :
              /\ z \in Zones /\ n \in Reached
              /\ v = [from |-> e.from, to |-> e.to]
              /\ v = GoalEvaluationWindow(e.goal, z, n)
        BY DEF GoalsInv, RowFits, EndedWindow
    <2>3. v.from < v.to /\ v.to <= n
        BY <1>1, <2>1, <2>2, WindowsApart
    <2>4. v.from = e.from /\ v.to = e.to
        BY <2>2
    <2>5. PICK a, b \in Int : a = e.from /\ b = e.to
        BY <2>1
    <2>6. n \in Int /\ (n <= clock \/ n \in ahead)
        BY <1>1, <2>2 DEF Reached
    <2>7. a < b /\ b <= n
        BY <2>3, <2>4, <2>5
    <2>8. CASE n <= clock
        BY <1>1, <2>5, <2>6, <2>7, <2>8
    <2>9. CASE n \in ahead
        BY <2>5, <2>7, <2>9
    <2> QED
        BY <2>6, <2>8, <2>9
<1>3. ASSUME NEW e \in evals, NEW f \in evals, e.goal = f.goal, e # f, Owner[e.goal] \notin touched
      PROVE  e.to <= f.from \/ f.to <= e.from
    <2>1. PICK g \in Goals : g = e.goal /\ g = f.goal
        BY <1>3 DEF GoalsInv, ScheduleTypeOK, Evaluation
    <2>2. PICK z \in Zones : z = HomeZone[Owner[g]]
        BY <2>1, ScheduleAssumption
    <2>3. PICK n, v :
              /\ n \in Reached
              /\ v = [from |-> e.from, to |-> e.to] /\ v = GoalEvaluationWindow(g, z, n)
        BY <1>3, <2>1, <2>2 DEF GoalsInv, RowFits, EndedWindow
    <2>4. PICK m, w :
              /\ m \in Reached
              /\ w = [from |-> f.from, to |-> f.to] /\ w = GoalEvaluationWindow(g, z, m)
        BY <1>3, <2>1, <2>2 DEF GoalsInv, RowFits, EndedWindow
    <2>5. v = w \/ v.to <= w.from \/ w.to <= v.from
        BY <1>1, <2>3, <2>4, WindowsApart
    <2>6. v # w
        BY <1>3, <2>3, <2>4 DEF GoalsInv, ScheduleTypeOK
    <2> QED
        BY <2>3, <2>4, <2>5, <2>6
<1> QED
    BY <1>2, <1>3 DEF WindowsAreDisjoint

\* Evaluations are one for each window of a goal, of ended windows that do not
\* overlap while the user keeps the zone, and each counts the whole of its
\* window, unless its goal was snoozed when it was listed, though one window of data is read for all goals of a user, attempts
\* are repeated and heartbeats come late (EvaluateUser, EvaluationDataWindow and
\* UpsertGoalEvaluation).
THEOREM EvaluationsSoundAlways == ScheduleSpec => []EvaluationsSound
<1>1. ScheduleSpec => []GoalsInv
    BY GoalsInvInit, GoalsInvNext, PTL DEF ScheduleSpec
<1>2. GoalsInv => EvaluationsSound
    BY RowsDisjoint DEF EvaluationsSound, GoalsInv
<1> QED
    BY <1>1, <1>2, PTL
=============================================================================
