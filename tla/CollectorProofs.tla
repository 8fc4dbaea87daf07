-------------------------- MODULE CollectorProofs ---------------------------
(***************************************************************************)
(* Proofs about CollectorScan, for every number of collectors, transcripts  *)
(* and events, and every bound on lines, rewrites and faults; and about     *)
(* AgentFiles, for every set of agents, requests and places, and every      *)
(* bound on records, writes and faults.                                     *)
(***************************************************************************)
EXTENDS CollectorScan, AgentFiles, SequenceTheorems, WellFoundedInduction, TLAPS

-----------------------------------------------------------------------------
(* Lemmas about the operators.                                              *)

LEMMA DedupIsSubset == ASSUME NEW S PROVE Dedup(S) \subseteq S
BY DEF Dedup

\* Dedup leaves an event of every id: of the events of one id, one has the
\* smallest distance from MaxOut.
LEMMA DedupCovers ==
    ASSUME NEW S \in SUBSET Events, NEW d \in S
    PROVE  \E e \in Dedup(S) : e.id = d.id
<1> DEFINE Less == OpToRel(<, Nat)
           Same == {e \in S : e.id = d.id}
           T == {MaxOut - e.out : e \in Same}
<1>1. IsWellFoundedOn(Less, Nat)
    BY NatLessThanWellFounded
<1>2. \A e \in S : e.out \in 1 .. MaxOut /\ MaxOut - e.out \in Nat
    BY BoundsAssumption DEF Events
<1>3. T \subseteq Nat
    BY <1>2
<1>4. T # {}
    OBVIOUS
<1>5. \E x \in T : \A y \in T : ~ (<<y, x>> \in Less)
    <2> HIDE DEF Less, T
    <2> QED
        BY <1>1, <1>3, <1>4, WFMin
<1>6. PICK x \in T : \A y \in T : ~ (<<y, x>> \in Less)
    BY <1>5
<1>7. \A y \in T : ~ (y < x)
    BY <1>6, <1>3 DEF OpToRel
<1>8. PICK e \in Same : x = MaxOut - e.out
    OBVIOUS
<1>9. \A g \in Same : g.out <= e.out
    <2> SUFFICES ASSUME NEW g \in Same PROVE g.out <= e.out
        OBVIOUS
    <2>1. ~ (MaxOut - g.out < MaxOut - e.out)
        BY <1>7, <1>8
    <2> QED
        BY <2>1, <1>2, BoundsAssumption
<1>10. e \in Dedup(S)
    BY <1>9 DEF Dedup
<1> QED
    BY <1>10

\* What an appended line changes.
LEMMA EndLineAppends ==
    ASSUME TypeOK, NEW f \in Files, NEW e \in Events, EndLine(f, e)
    PROVE  /\ lines' \in [Files -> Seq(Events)]
           /\ \A g \in Files : /\ Len(lines'[g]) >= Len(lines[g])
                               /\ \A i \in 1 .. Len(lines[g]) :
                                      lines'[g][i] = lines[g][i]
<1>1. lines \in [Files -> Seq(Events)] /\ lines[f] \in Seq(Events)
    BY DEF TypeOK
<1>2. lines' = [lines EXCEPT ![f] = Append(lines[f], e)]
    BY DEF EndLine
<1>3. /\ Append(lines[f], e) \in Seq(Events)
      /\ Len(Append(lines[f], e)) = Len(lines[f]) + 1
      /\ \A i \in 1 .. Len(lines[f]) : Append(lines[f], e)[i] = lines[f][i]
    BY <1>1, AppendProperties
<1>4. Len(lines[f]) \in Nat /\ \A g \in Files : Len(lines[g]) \in Nat
    BY <1>1
<1>5. lines' \in [Files -> Seq(Events)]
    BY <1>1, <1>2, <1>3
<1>6. ASSUME NEW g \in Files
      PROVE  /\ Len(lines'[g]) >= Len(lines[g])
             /\ \A i \in 1 .. Len(lines[g]) : lines'[g][i] = lines[g][i]
    <2>1. CASE g = f
        <3>1. lines'[g] = Append(lines[f], e)
            BY <2>1, <1>1, <1>2
        <3> QED
            BY <3>1, <2>1, <1>3, <1>4
    <2>2. CASE g # f
        <3>1. lines'[g] = lines[g]
            BY <2>2, <1>1, <1>2
        <3> QED
            BY <3>1, <1>4
    <2> QED
        BY <2>1, <2>2
<1> QED
    BY <1>5, <1>6

-----------------------------------------------------------------------------
(* Types, action by action.                                                 *)

LEMMA TypeInit == Init => TypeOK
<1> SUFFICES ASSUME Init PROVE TypeOK
    OBVIOUS
<1>1. NoEntries \in [Files -> Entries]
    BY DEF NoEntries, NoEntry, Entries
<1>2. Empty \in Contents
    BY <1>1 DEF Empty, Contents
<1>3. ledger \in [Ids -> 0 .. MaxOut]
    BY BoundsAssumption DEF Init
<1>4. lines \in [Files -> Seq(Events)]
    BY DEF Init
<1> QED
    BY <1>1, <1>2, <1>3, <1>4 DEF Init, TypeOK

LEMMA AgentType ==
    ASSUME TypeOK, NEW f \in Files, AgentStep(f)
    PROVE  TypeOK'
<1>1. CASE BeginLine(f)
    BY <1>1 DEF BeginLine, TypeOK, files, history, scan
<1>2. CASE Rewrite(f)
    <2>1. << >> \in Seq(Events)
        OBVIOUS
    <2>2. lines' \in [Files -> Seq(Events)]
        BY <1>2, <2>1 DEF Rewrite, TypeOK
    <2>3. gen' \in [Files -> Nat]
        BY <1>2 DEF Rewrite, TypeOK
    <2> QED
        BY <1>2, <2>2, <2>3 DEF Rewrite, TypeOK, files, history, scan
<1>3. ASSUME NEW e \in Events, EndLine(f, e) PROVE TypeOK'
    <2>1. lines' \in [Files -> Seq(Events)]
        BY <1>3, EndLineAppends
    <2> QED
        BY <1>3, <2>1 DEF EndLine, TypeOK, files, history, scan
<1> QED
    BY <1>1, <1>2, <1>3 DEF AgentStep

LEMMA BeginScanType ==
    ASSUME TypeOK, NEW c \in Collectors, NEW entries \in [Files -> Entries],
           BeginScan(c, entries), overlapped' \in BOOLEAN
    PROVE  TypeOK'
<1>1. mem' \in [Collectors -> [Files -> Entries]]
    BY DEF BeginScan, TypeOK
<1>2. todo' \in [Collectors -> [Files -> {"stat", "read", "done"}]]
    BY DEF BeginScan, TypeOK
<1>3. pc' \in [Collectors -> {"off", "scan", "post", "write", "rename", "sleep"}]
    BY DEF BeginScan, TypeOK
<1> QED
    BY <1>1, <1>2, <1>3 DEF BeginScan, TypeOK, agents, files

\* What a scan consumes of a file makes an entry.
LEMMA ReadType ==
    ASSUME TypeOK, NEW c \in Collectors, NEW f \in Files, Read(c, f)
    PROVE  TypeOK'
<1> DEFINE from == Resume(c, f)
           to == IF Len(lines[f]) > from THEN Len(lines[f]) ELSE from
           old == mem[c][f]
           new == [offset |-> to, gen |-> gen[f],
                   whole |-> from = 0 \/ (old.gen = gen[f] /\ old.whole)]
<1>1. mem[c] \in [Files -> Entries] /\ old \in Entries
    BY DEF TypeOK
<1>2. /\ old.offset \in Nat /\ old.gen \in Nat /\ old.whole \in BOOLEAN
      /\ gen[f] \in Nat /\ Len(lines[f]) \in Nat
    BY <1>1 DEF Entries, TypeOK
<1>3. from \in Nat /\ to \in Nat
    BY <1>2 DEF Resume
<1>4. new \in Entries
    <2> HIDE DEF from, to, old
    <2> QED
        BY <1>2, <1>3 DEF Entries
<1>5. mem' = [mem EXCEPT ![c][f] = new]
    BY DEF Read
<1>6. [mem[c] EXCEPT ![f] = new] \in [Files -> Entries]
    <2> HIDE DEF new
    <2> QED
        BY <1>1, <1>4
<1>7. mem' \in [Collectors -> [Files -> Entries]]
    <2> HIDE DEF new
    <2> QED
        BY <1>5, <1>6 DEF TypeOK
<1>8. found' \in [Collectors -> SUBSET Events]
    <2>1. \A i \in from + 1 .. Len(lines[f]) : lines[f][i] \in Events
        <3> HIDE DEF from
        <3>1. lines[f] \in Seq(Events)
            BY DEF TypeOK
        <3>2. \A i \in from + 1 .. Len(lines[f]) : i \in 1 .. Len(lines[f])
            BY <1>2, <1>3
        <3> QED
            BY <3>1, <3>2
    <2>2. found' = [found EXCEPT ![c] =
                       found[c] \cup {lines[f][i] : i \in from + 1 .. Len(lines[f])}]
        BY DEF Read
    <2> HIDE DEF from
    <2> QED
        BY <2>1, <2>2 DEF TypeOK
<1>9. todo' \in [Collectors -> [Files -> {"stat", "read", "done"}]]
    BY DEF Read, TypeOK
<1>10. size' \in [Collectors -> [Files -> Nat]]
    BY DEF Read, TypeOK
<1> QED
    BY <1>7, <1>8, <1>9, <1>10 DEF Read, TypeOK, agents, files, history

LEMMA ScanType ==
    ASSUME TypeOK, NEW c \in Collectors,
           \/ Start(c) \/ Wake(c) \/ EndScan(c)
           \/ \E f \in Files : Stat(c, f) \/ Read(c, f) \/ StatFails(c, f)
    PROVE  TypeOK'
<1>1. CASE Start(c)
    <2>1. disk.state \in [Files -> Entries]
        BY DEF TypeOK, Contents
    <2>2. overlapped' \in BOOLEAN
        BY <1>1 DEF Start, TypeOK
    <2> QED
        BY <1>1, <2>1, <2>2, BeginScanType DEF Start
<1>2. CASE Wake(c)
    <2>1. mem[c] \in [Files -> Entries]
        BY DEF TypeOK
    <2>2. overlapped' \in BOOLEAN
        BY <1>2 DEF Wake, TypeOK
    <2> QED
        BY <1>2, <2>1, <2>2, BeginScanType DEF Wake
<1>3. CASE EndScan(c)
    <2>1. found' \in [Collectors -> SUBSET Events]
        BY <1>3, DedupIsSubset DEF EndScan, TypeOK
    <2> QED
        BY <1>3, <2>1 DEF EndScan, TypeOK, agents, files, history, scan
<1>4. ASSUME NEW f \in Files, Stat(c, f) PROVE TypeOK'
    <2>1. Len(lines[f]) \in Nat
        BY DEF TypeOK
    <2>2. FileSize(f) \in Nat
        <3>1. (IF partial[f] THEN 1 ELSE 0) \in Nat
            OBVIOUS
        <3>2. \A m, n \in Nat : 2 * m + n \in Nat
            OBVIOUS
        <3>3. 2 * Len(lines[f]) + (IF partial[f] THEN 1 ELSE 0) \in Nat
            BY <2>1, <3>1, <3>2
        <3> QED
            BY <3>3, Zenon DEF FileSize
    <2>3. size' \in [Collectors -> [Files -> Nat]]
        <3>1. size[c] \in [Files -> Nat]
            BY DEF TypeOK
        <3>2. [size[c] EXCEPT ![f] = FileSize(f)] \in [Files -> Nat]
            BY <3>1, <2>2
        <3>3. size' = [size EXCEPT ![c] = [size[c] EXCEPT ![f] = FileSize(f)]]
            BY <1>4 DEF Stat
        <3> QED
            BY <3>2, <3>3 DEF TypeOK
    <2>4. todo' \in [Collectors -> [Files -> {"stat", "read", "done"}]]
        BY <1>4 DEF Stat, TypeOK
    <2> QED
        BY <1>4, <2>3, <2>4 DEF Stat, TypeOK, agents, files, history
<1>5. ASSUME NEW f \in Files, StatFails(c, f) PROVE TypeOK'
    <2>1. todo' \in [Collectors -> [Files -> {"stat", "read", "done"}]]
        BY <1>5 DEF StatFails, TypeOK
    <2>2. faults' \in Nat
        BY <1>5 DEF StatFails, Fault, TypeOK
    <2> QED
        BY <1>5, <2>1, <2>2 DEF StatFails, TypeOK, agents, files, history
<1> QED
    BY <1>1, <1>2, <1>3, <1>4, <1>5, ReadType

\* What the end of a cycle leaves.
LEMMA EndCycleType ==
    ASSUME TypeOK, NEW c \in Collectors, EndCycle(c)
    PROVE  /\ pc' \in [Collectors -> {"off", "scan", "post", "write", "rename", "sleep"}]
           /\ found' \in [Collectors -> SUBSET Events]
           /\ mem' \in [Collectors -> [Files -> Entries]]
<1>1. NoEntries \in [Files -> Entries]
    BY DEF NoEntries, NoEntry, Entries
<1> QED
    BY <1>1 DEF EndCycle, TypeOK

LEMMA PostType ==
    ASSUME TypeOK, NEW c \in Collectors,
           \/ \E e \in Events : PostBatch(c, e) \/ PostUnanswered(c, e)
           \/ PostFails(c)
    PROVE  TypeOK'
<1>1. ASSUME NEW e \in Events, Upsert(e)
      PROVE  ledger' \in [Ids -> 0 .. MaxOut] /\ dropped' \subseteq Ids
    <2>1. e.id \in Ids /\ e.out \in 0 .. MaxOut
        BY BoundsAssumption DEF Events
    <2> QED
        BY <1>1, <2>1 DEF Upsert, TypeOK
<1>2. ASSUME NEW e \in Events, PostBatch(c, e) PROVE TypeOK'
    <2>1. found' \in [Collectors -> SUBSET Events]
        BY <1>2 DEF PostBatch, TypeOK
    <2> QED
        BY <1>1, <1>2, <2>1 DEF PostBatch, TypeOK, agents, files, scan
<1>3. ASSUME NEW e \in Events, PostUnanswered(c, e) PROVE TypeOK'
    <2>1. faults' \in Nat
        BY <1>3 DEF PostUnanswered, Fault, TypeOK
    <2> QED
        BY <1>1, <1>3, <2>1 DEF PostUnanswered, TypeOK, agents, files, scan
<1>4. CASE PostFails(c)
    <2>1. \A e \in found[c] : e.id \in Ids
        BY DEF TypeOK, Events
    <2>2. dropped' \subseteq Ids
        BY <1>4, <2>1 DEF PostFails, TypeOK
    <2>3. faults' \in Nat
        BY <1>4 DEF PostFails, Fault, TypeOK
    <2>4. EndCycle(c)
        BY <1>4 DEF PostFails
    <2> QED
        BY <1>4, <2>2, <2>3, <2>4, EndCycleType
        DEF PostFails, TypeOK, agents, files, scan
<1> QED
    BY <1>2, <1>3, <1>4

LEMMA ContentsType ==
    /\ Empty \in Contents /\ Mixed \in Contents
    /\ \A S \in [Files -> Entries] : Whole(S) \in Contents
<1>1. NoEntries \in [Files -> Entries]
    BY DEF NoEntries, NoEntry, Entries
<1> QED
    BY <1>1 DEF Empty, Mixed, Whole, Contents

LEMMA WriteType ==
    ASSUME TypeOK, NEW c \in Collectors, NEW content \in Contents,
           WriteTo(c, content)
    PROVE  /\ disk' \in Contents
           /\ tmp' \in Contents \cup {NoFile}
           /\ fd' \in [Collectors -> {"none", "tmp", "state", "gone"}]
BY DEF WriteTo, TypeOK

LEMMA SaveType ==
    ASSUME TypeOK, NEW c \in Collectors,
           SaveOpen(c) \/ SaveWrite(c) \/ SaveWriteFails(c) \/ SaveRename(c)
    PROVE  TypeOK'
<1>1. CASE SaveOpen(c)
    BY <1>1, ContentsType DEF SaveOpen, TypeOK, agents, scan, history
<1>2. CASE SaveWrite(c)
    <2>1. PICK content \in Written(c) : WriteTo(c, content)
        BY <1>2 DEF SaveWrite
    <2>2. mem[c] \in [Files -> Entries]
        BY DEF TypeOK
    <2>3. content \in Contents
        BY <2>2, ContentsType DEF Written
    <2> QED
        BY <1>2, <2>1, <2>3, WriteType
        DEF SaveWrite, TypeOK, agents, scan, history
<1>3. CASE SaveWriteFails(c)
    <2>1. WriteTo(c, Mixed) /\ EndCycle(c)
        BY <1>3 DEF SaveWriteFails
    <2>2. faults' \in Nat
        BY <1>3 DEF SaveWriteFails, Fault, TypeOK
    <2> QED
        BY <1>3, <2>1, <2>2, ContentsType, WriteType, EndCycleType
        DEF SaveWriteFails, TypeOK, agents, scan, history
<1>4. CASE SaveRename(c)
    <2>1. EndCycle(c)
        BY <1>4 DEF SaveRename
    <2>2. CASE tmp = NoFile
        BY <1>4, <2>1, <2>2, EndCycleType
        DEF SaveRename, TypeOK, agents, scan, history, files
    <2>3. CASE tmp # NoFile
        <3>1. /\ disk' = tmp /\ tmp' = NoFile
              /\ fd' = [d \in Collectors |-> CASE fd[d] = "tmp" -> "state"
                                               [] fd[d] = "state" -> "gone"
                                               [] OTHER -> fd[d]]
            BY <1>4, <2>3 DEF SaveRename
        <3>2. fd' \in [Collectors -> {"none", "tmp", "state", "gone"}]
            BY <3>1 DEF TypeOK
        <3>3. disk' \in Contents
            BY <3>1, <2>3 DEF TypeOK
        <3> QED
            BY <1>4, <2>1, <3>1, <3>2, <3>3, EndCycleType
            DEF SaveRename, TypeOK, agents, scan, history
    <2> QED
        BY <2>2, <2>3
<1> QED
    BY <1>1, <1>2, <1>3, <1>4

LEMMA CrashType ==
    ASSUME TypeOK, NEW c \in Collectors, Crash(c)
    PROVE  TypeOK'
<1>1. NoEntries \in [Files -> Entries]
    BY DEF NoEntries, NoEntry, Entries
<1>2. mem' \in [Collectors -> [Files -> Entries]]
    BY <1>1 DEF Crash, TypeOK
<1>3. size' \in [Collectors -> [Files -> Nat]]
    BY DEF Crash, TypeOK
<1>4. todo' \in [Collectors -> [Files -> {"stat", "read", "done"}]]
    BY DEF Crash, TypeOK
<1>5. faults' \in Nat
    BY DEF Crash, Fault, TypeOK
<1> QED
    BY <1>2, <1>3, <1>4, <1>5 DEF Crash, TypeOK, agents, history

LEMMA TypeNext == TypeOK /\ [Next]_vars => TypeOK'
<1> SUFFICES ASSUME TypeOK, [Next]_vars PROVE TypeOK'
    OBVIOUS
<1>1. CASE UNCHANGED vars
    BY <1>1 DEF vars, TypeOK
<1>2. ASSUME NEW f \in Files, AgentStep(f) PROVE TypeOK'
    BY <1>2, AgentType
<1>3. ASSUME NEW c \in Collectors, CollectorStep(c) PROVE TypeOK'
    BY <1>3, ScanType, PostType, SaveType DEF CollectorStep
<1>4. ASSUME NEW c \in Collectors, CollectorFault(c) PROVE TypeOK'
    BY <1>4, ScanType, PostType, SaveType, CrashType DEF CollectorFault
<1> QED
    BY <1>1, <1>2, <1>3, <1>4 DEF Next

\* Every variable keeps its type, the files that hold no State included.
THEOREM TypeCorrect == Spec => []TypeOK
<1> QED
    BY TypeInit, TypeNext, PTL DEF Spec

-----------------------------------------------------------------------------
(* The inductive invariant.  SavedMeansStored says nothing of the offsets    *)
(* in memory, which become the state file, nor of the events read and not    *)
(* posted, which an offset in memory may lie behind.                         *)

\* The server has an event, or a watch has dropped it, or it is still in S.
Accounted(m, S) == ledger[m] > 0 \/ m \in dropped \/ \E d \in S : d.id = m

\* An entry is good if the lines it says are consumed exist and are accounted
\* for, S being what its owner has found and not posted.
Good(f, entry, S) ==
    /\ entry.gen <= gen[f]
    /\ entry.gen = gen[f] /\ entry.whole =>
           /\ entry.offset <= Len(lines[f])
           /\ \A i \in 1 .. entry.offset : Accounted(lines[f][i].id, S)

AllGood(entries, S) == \A f \in Files : Good(f, entries[f], S)

\* Nothing is left of a scan when the state is written, or a cycle has ended.
PostedFirst ==
    \A c \in Collectors :
        pc[c] \in {"off", "write", "rename", "sleep"} => found[c] = {}

MemoryGood == \A c \in Collectors : AllGood(mem[c], found[c])

IInv ==
    /\ TypeOK
    /\ PostedFirst
    /\ AllGood(disk.state, {})
    /\ AllGood(tmp.state, {})
    /\ MemoryGood

LEMMA InvImplies == IInv => SavedMeansStored
<1> SUFFICES ASSUME IInv, NEW f \in Files, NEW e \in Consumed(f, disk.state[f])
             PROVE  ledger[e.id] > 0 \/ e.id \in dropped
    BY DEF SavedMeansStored
<1> DEFINE entry == disk.state[f]
<1>1. Good(f, entry, {})
    BY DEF IInv, AllGood
<1>2. entry.gen = gen[f] /\ entry.whole
    BY DEF Consumed
<1>3. PICK i \in 1 .. entry.offset : e = lines[f][i]
    BY <1>2 DEF Consumed
<1> QED
    BY <1>1, <1>2, <1>3 DEF Good, Accounted

\* No entry is better than one that consumes nothing.
LEMMA NoEntriesGood ==
    ASSUME TypeOK, NEW S
    PROVE  AllGood(NoEntries, S)
<1> SUFFICES ASSUME NEW f \in Files PROVE Good(f, NoEntries[f], S)
    BY DEF AllGood
<1>1. gen[f] \in Nat /\ Len(lines[f]) \in Nat
    BY DEF TypeOK
<1>2. NoEntries[f] = [offset |-> 0, gen |-> 0, whole |-> TRUE]
    BY DEF NoEntries, NoEntry
<1> QED
    BY <1>1, <1>2 DEF Good

LEMMA InvInit == Init => IInv
<1> SUFFICES ASSUME Init PROVE IInv
    OBVIOUS
<1>1. TypeOK
    BY TypeInit
<1>2. PostedFirst
    BY DEF Init, PostedFirst
<1>3. disk.state = NoEntries /\ tmp.state = NoEntries
    BY DEF Init, Empty, NoFile
<1>4. \A c \in Collectors : mem[c] = NoEntries
    BY DEF Init
<1> QED
    BY <1>1, <1>2, <1>3, <1>4, NoEntriesGood DEF IInv, MemoryGood

\* A step that leaves the transcripts alone, and every event that was in S
\* stored, dropped or in T, keeps entries good.
LEMMA GoodKept ==
    ASSUME TypeOK, NEW entries \in [Files -> Entries], NEW S, NEW T,
           AllGood(entries, S), UNCHANGED <<lines, gen>>,
           \A m \in Ids : Accounted(m, S) => Accounted(m, T)'
    PROVE  AllGood(entries, T)'
<1> SUFFICES ASSUME NEW f \in Files PROVE Good(f, entries[f], T)'
    BY DEF AllGood
<1>1. Good(f, entries[f], S)
    BY DEF AllGood
<1> SUFFICES ASSUME entries[f].gen = gen[f], entries[f].whole,
                    NEW i \in 1 .. entries[f].offset
             PROVE  Accounted(lines[f][i].id, T)'
    BY <1>1 DEF Good, Accounted
<1>2. entries[f].offset \in Nat /\ entries[f].offset <= Len(lines[f])
    BY <1>1 DEF Good, Entries
<1>3. lines[f] \in Seq(Events) /\ Len(lines[f]) \in Nat
    BY DEF TypeOK
<1>4. i \in 1 .. Len(lines[f])
    BY <1>2, <1>3
<1>5. lines[f][i].id \in Ids
    <2>1. lines[f][i] \in Events
        BY <1>3, <1>4
    <2>2. \A e \in Events : e.id \in Ids
        BY DEF Events
    <2> QED
        BY <2>1, <2>2
<1>6. Accounted(lines[f][i].id, S)
    BY <1>1 DEF Good
<1> QED
    BY <1>5, <1>6

\* What is stored or dropped stays so.
Monotone ==
    \A m \in Ids : ledger[m] > 0 \/ m \in dropped => ledger'[m] > 0 \/ m \in dropped'

LEMMA StillGood ==
    ASSUME TypeOK, NEW entries \in [Files -> Entries], NEW S,
           AllGood(entries, S), UNCHANGED <<lines, gen>>, Monotone
    PROVE  AllGood(entries, S)'
<1>1. \A m \in Ids : Accounted(m, S) => Accounted(m, S)'
    BY DEF Monotone, Accounted
<1> QED
    BY <1>1, GoodKept

LEMMA OwnTypes ==
    ASSUME TypeOK
    PROVE  /\ disk.state \in [Files -> Entries]
           /\ tmp.state \in [Files -> Entries]
           /\ \A c \in Collectors : /\ mem[c] \in [Files -> Entries]
                                     /\ found[c] \in SUBSET Events
<1>1. NoFile.state \in [Files -> Entries]
    BY DEF NoFile, NoEntries, NoEntry, Entries
<1> QED
    BY <1>1 DEF TypeOK, Contents

LEMMA FilesKept ==
    ASSUME IInv, UNCHANGED <<lines, gen>>, Monotone
    PROVE  /\ disk' = disk => AllGood(disk.state, {})'
           /\ disk' = tmp => AllGood(disk.state, {})'
           /\ tmp' = tmp => AllGood(tmp.state, {})'
<1>1. ASSUME NEW entries \in {disk.state, tmp.state} PROVE AllGood(entries, {})'
    BY <1>1, OwnTypes, StillGood DEF IInv
<1> QED
    BY <1>1 DEF AllGood

\* A step of c disturbs the memory of no other collector.
LEMMA MemoryKept ==
    ASSUME IInv, NEW c \in Collectors, UNCHANGED <<lines, gen>>, Monotone,
           \A d \in Collectors \ {c} : mem'[d] = mem[d] /\ found'[d] = found[d],
           AllGood(mem[c], found[c])'
    PROVE  MemoryGood'
<1> SUFFICES ASSUME NEW d \in Collectors PROVE AllGood(mem[d], found[d])'
    BY DEF MemoryGood
<1>1. CASE d = c
    BY <1>1
<1>2. CASE d # c
    <2>1. AllGood(mem[d], found[d])
        BY DEF IInv, MemoryGood
    <2>2. ASSUME NEW entries, NEW S, entries = mem[d], S = found[d]
          PROVE  AllGood(entries, S)'
        BY <2>1, <2>2, OwnTypes, StillGood DEF IInv
    <2>3. mem'[d] = mem[d] /\ found'[d] = found[d]
        BY <1>2
    <2> QED
        BY <2>2, <2>3 DEF AllGood
<1> QED
    BY <1>1, <1>2

\* Lines are added behind the offsets; a transcript that starts over is none
\* that an entry was read from.
LEMMA AgentKeeps ==
    ASSUME TypeOK, NEW f \in Files, AgentStep(f),
           NEW entries \in [Files -> Entries], NEW S, AllGood(entries, S)
    PROVE  AllGood(entries, S)'
<1>1. ledger' = ledger /\ dropped' = dropped
    BY DEF AgentStep, BeginLine, Rewrite, EndLine, history
<1>2. Monotone
    BY <1>1 DEF Monotone
<1>3. CASE BeginLine(f)
    BY <1>2, <1>3, StillGood DEF BeginLine
<1>4. ASSUME NEW e \in Events, EndLine(f, e) PROVE AllGood(entries, S)'
    <2> SUFFICES ASSUME NEW g \in Files PROVE Good(g, entries[g], S)'
        BY DEF AllGood
    <2>1. Good(g, entries[g], S)
        BY DEF AllGood
    <2>2. /\ Len(lines'[g]) >= Len(lines[g])
          /\ \A i \in 1 .. Len(lines[g]) : lines'[g][i] = lines[g][i]
        BY <1>4, EndLineAppends
    <2>3. /\ Len(lines[g]) \in Nat /\ Len(lines'[g]) \in Nat
          /\ entries[g].offset \in Nat
        BY <1>4, EndLineAppends DEF TypeOK, Entries
    <2>4. gen' = gen
        BY <1>4 DEF EndLine
    <2>5. ASSUME entries[g].gen = gen[g], entries[g].whole
          PROVE  /\ entries[g].offset <= Len(lines'[g])
                 /\ \A i \in 1 .. entries[g].offset : Accounted(lines[g][i].id, S)'
        <3>1. entries[g].offset <= Len(lines[g])
            BY <2>1, <2>5 DEF Good
        <3>2. entries[g].offset <= Len(lines'[g])
            BY <3>1, <2>2, <2>3
        <3>3. ASSUME NEW i \in 1 .. entries[g].offset
              PROVE  Accounted(lines[g][i].id, S)'
            <4>1. i \in 1 .. Len(lines[g])
                BY <3>1, <2>3
            <4>2. lines'[g][i] = lines[g][i]
                BY <4>1, <2>2
            <4>3. Accounted(lines[g][i].id, S)
                BY <2>1, <2>5 DEF Good
            <4> QED
                BY <4>2, <4>3, <1>1 DEF Accounted
        <3> QED
            BY <3>2, <3>3
    <2> QED
        BY <2>1, <2>4, <2>5 DEF Good
<1>5. CASE Rewrite(f)
    <2> SUFFICES ASSUME NEW g \in Files PROVE Good(g, entries[g], S)'
        BY DEF AllGood
    <2>1. Good(g, entries[g], S)
        BY DEF AllGood
    <2>2. gen[g] \in Nat /\ entries[g].gen \in Nat
        BY DEF TypeOK, Entries
    <2>3. CASE g = f
        <3>1. gen'[g] = gen[g] + 1
            BY <1>5, <2>3 DEF Rewrite, TypeOK
        <3>2. entries[g].gen < gen'[g]
            BY <2>1, <2>2, <3>1 DEF Good
        <3> QED
            BY <3>1, <3>2, <2>2 DEF Good
    <2>4. CASE g # f
        <3>1. gen'[g] = gen[g] /\ lines'[g] = lines[g]
            BY <1>5, <2>4 DEF Rewrite, TypeOK
        <3> QED
            BY <3>1, <2>1, <1>1 DEF Good, Accounted
    <2> QED
        BY <2>3, <2>4
<1> QED
    BY <1>3, <1>4, <1>5 DEF AgentStep

LEMMA AgentInv ==
    ASSUME IInv, TypeOK', NEW f \in Files, AgentStep(f)
    PROVE  IInv'
<1>1. /\ UNCHANGED <<disk, tmp, pc, mem, found>>
    BY DEF AgentStep, BeginLine, Rewrite, EndLine, files
<1>2. PostedFirst'
    BY <1>1 DEF IInv, PostedFirst
<1>3. ASSUME NEW entries \in [Files -> Entries], NEW S, AllGood(entries, S)
      PROVE  AllGood(entries, S)'
    BY <1>3, AgentKeeps DEF IInv
<1>4. AllGood(disk.state, {})' /\ AllGood(tmp.state, {})'
    <2>1. ASSUME NEW entries \in {disk.state, tmp.state} PROVE AllGood(entries, {})'
        BY <2>1, <1>3, OwnTypes DEF IInv
    <2> QED
        BY <1>1, <2>1 DEF AllGood
<1>5. MemoryGood'
    <2> SUFFICES ASSUME NEW c \in Collectors PROVE AllGood(mem[c], found[c])'
        BY DEF MemoryGood
    <2>1. ASSUME NEW entries, NEW S, entries = mem[c], S = found[c]
          PROVE  AllGood(entries, S)'
        BY <2>1, <1>3, OwnTypes DEF IInv, MemoryGood
    <2> QED
        BY <1>1, <2>1 DEF AllGood
<1> QED
    BY <1>2, <1>4, <1>5 DEF IInv

-----------------------------------------------------------------------------
(* Steps of a collector.                                                    *)

\* A step that stores and drops nothing.
LEMMA QuietMonotone == UNCHANGED <<ledger, dropped>> => Monotone
BY DEF Monotone

\* What Read consumes is found or was consumed before.
LEMMA ReadInv ==
    ASSUME IInv, TypeOK', NEW c \in Collectors, NEW f \in Files, Read(c, f)
    PROVE  IInv'
<1> DEFINE from == Resume(c, f)
           to == IF Len(lines[f]) > from THEN Len(lines[f]) ELSE from
           old == mem[c][f]
           new == [offset |-> to, gen |-> gen[f],
                   whole |-> from = 0 \/ (old.gen = gen[f] /\ old.whole)]
           fresh == {lines[f][i] : i \in from + 1 .. Len(lines[f])}
<1>1. /\ UNCHANGED <<lines, gen, ledger, dropped, disk, tmp, pc>>
      /\ pc[c] = "scan"
      /\ mem' = [mem EXCEPT ![c][f] = new]
      /\ found' = [found EXCEPT ![c] = found[c] \cup fresh]
    BY DEF Read, agents, files, history
<1>2. TypeOK /\ Monotone
    BY <1>1, QuietMonotone DEF IInv
<1>3. mem[c] \in [Files -> Entries] /\ old \in Entries
    BY <1>2, OwnTypes
<1>4. /\ old.offset \in Nat /\ old.gen \in Nat /\ old.whole \in BOOLEAN
      /\ gen[f] \in Nat /\ Len(lines[f]) \in Nat
    BY <1>2, <1>3 DEF Entries, TypeOK
<1>5. from = 0 \/ from = old.offset
    BY DEF Resume
<1>6. from \in Nat /\ to \in Nat
    BY <1>4, <1>5
<1>7. Good(f, old, found[c])
    BY DEF IInv, MemoryGood, AllGood
<1>8. mem'[c] = [mem[c] EXCEPT ![f] = new] /\ found'[c] = found[c] \cup fresh
    <2> HIDE DEF new, fresh
    <2> QED
        BY <1>1, <1>2 DEF TypeOK
<1>9. ASSUME NEW entry, NEW S, entry = new, S = found[c] \cup fresh
      PROVE  Good(f, entry, S)'
    <2>1. new.offset = to /\ new.gen = gen[f]
          /\ (new.whole => from = 0 \/ (old.gen = gen[f] /\ old.whole))
        OBVIOUS
    <2> HIDE DEF new
    <2>2. ASSUME new.whole PROVE from <= Len(lines[f])
        <3>1. CASE from = 0
            BY <3>1, <1>4
        <3>2. CASE from # 0
            BY <3>2, <2>1, <2>2, <1>5, <1>7 DEF Good
        <3> QED
            BY <3>1, <3>2
    <2>3. ASSUME new.whole PROVE to = Len(lines[f])
        <3> HIDE DEF from
        <3> QED
            BY <2>2, <2>3, <1>4, <1>6
    <2>4. ASSUME new.whole, NEW i \in 1 .. to
          PROVE  Accounted(lines[f][i].id, found[c] \cup fresh)
        <3>1. i \in 1 .. Len(lines[f])
            BY <2>3, <2>4
        <3>2. CASE i > from
            <4> HIDE DEF from, to
            <4>1. i \in from + 1 .. Len(lines[f])
                BY <3>1, <3>2, <1>4, <1>6
            <4>2. lines[f][i] \in fresh
                BY <4>1
            <4> QED
                BY <4>2 DEF Accounted
        <3>3. CASE ~(i > from)
            <4>1. i \in 1 .. from /\ from # 0
                <5> HIDE DEF from
                <5> QED
                    BY <3>1, <3>3, <1>4, <1>6
            <4>2. from = old.offset /\ old.gen = gen[f] /\ old.whole
                BY <4>1, <1>5, <2>1, <2>4
            <4>3. Accounted(lines[f][i].id, found[c])
                BY <4>1, <4>2, <1>7 DEF Good
            <4> HIDE DEF fresh
            <4> QED
                BY <4>3 DEF Accounted
        <3> QED
            BY <3>2, <3>3
    <2> HIDE DEF to, from, fresh
    <2> QED
        BY <1>1, <1>4, <1>6, <1>9, <2>1, <2>3, <2>4 DEF Good, Accounted
<1>10. AllGood(mem[c], found[c])'
    <2> SUFFICES ASSUME NEW g \in Files PROVE Good(g, mem[c][g], found[c])'
        BY DEF AllGood
    <2>1. CASE g = f
        <3>1. mem'[c][g] = new
            <4> HIDE DEF new
            <4> QED
                BY <2>1, <1>3, <1>8
        <3> HIDE DEF new, fresh
        <3> QED
            BY <2>1, <3>1, <1>8, <1>9 DEF Good
    <2>2. CASE g # f
        <3>1. mem'[c][g] = mem[c][g]
            <4> HIDE DEF new
            <4> QED
                BY <2>2, <1>3, <1>8
        <3>2. Good(g, mem[c][g], found[c])
            BY DEF IInv, MemoryGood, AllGood
        <3> HIDE DEF new, fresh
        <3> QED
            BY <3>1, <3>2, <1>1, <1>8 DEF Good, Accounted
    <2> QED
        BY <2>1, <2>2
<1>11. \A d \in Collectors \ {c} : mem'[d] = mem[d] /\ found'[d] = found[d]
    <2> HIDE DEF new, fresh
    <2> QED
        BY <1>1, <1>2 DEF TypeOK
<1>12. MemoryGood'
    BY <1>1, <1>2, <1>10, <1>11, MemoryKept
<1>13. PostedFirst'
    <2> HIDE DEF new, fresh
    <2> QED
        BY <1>1, <1>11 DEF IInv, PostedFirst
<1> QED
    BY <1>1, <1>2, <1>12, <1>13, FilesKept DEF IInv

LEMMA EndScanInv ==
    ASSUME IInv, TypeOK', NEW c \in Collectors, EndScan(c)
    PROVE  IInv'
<1>1. /\ UNCHANGED <<lines, gen, ledger, dropped, disk, tmp, mem>>
      /\ pc' = [pc EXCEPT ![c] = "post"]
      /\ found' = [found EXCEPT ![c] = Dedup(found[c])]
    BY DEF EndScan, agents, files, history
<1>2. TypeOK /\ Monotone
    BY <1>1, QuietMonotone DEF IInv
<1>3. found'[c] = Dedup(found[c])
    BY <1>1, <1>2 DEF TypeOK
<1>4. ASSUME NEW entries, NEW S, NEW T, entries = mem[c], S = found[c],
             T = Dedup(found[c])
      PROVE  AllGood(entries, T)'
    <2>1. \A m \in Ids : Accounted(m, S) => Accounted(m, T)'
        <3>1. \A d \in S : \E e \in T : e.id = d.id
            BY <1>2, <1>4, OwnTypes, DedupCovers
        <3> QED
            BY <3>1, <1>1 DEF Accounted
    <2>2. AllGood(entries, S)
        BY <1>4 DEF IInv, MemoryGood
    <2> QED
        BY <2>1, <2>2, <1>1, <1>2, <1>4, OwnTypes, GoodKept
<1>5. AllGood(mem[c], found[c])'
    BY <1>1, <1>3, <1>4 DEF AllGood
<1>6. \A d \in Collectors \ {c} : mem'[d] = mem[d] /\ found'[d] = found[d]
    BY <1>1, <1>2 DEF TypeOK
<1>7. PostedFirst'
    BY <1>1, <1>2, <1>6 DEF IInv, PostedFirst, TypeOK
<1> QED
    BY <1>1, <1>2, <1>5, <1>6, <1>7, MemoryKept, FilesKept DEF IInv

\* Start, Wake, Stat and its failure.
LEMMA BeginInv ==
    ASSUME IInv, TypeOK', NEW c \in Collectors,
           \/ Start(c) \/ Wake(c)
           \/ \E f \in Files : Stat(c, f) \/ StatFails(c, f)
    PROVE  IInv'
<1>1. /\ UNCHANGED <<lines, gen, ledger, dropped, disk, tmp, found>>
      /\ pc' = pc \/ pc' = [pc EXCEPT ![c] = "scan"]
    BY DEF Start, Wake, BeginScan, Stat, StatFails, agents, files, history
<1>2. TypeOK /\ Monotone
    BY <1>1, QuietMonotone DEF IInv
<1>3. \/ mem' = mem
      \/ mem' = [mem EXCEPT ![c] = disk.state] /\ pc[c] = "off"
      \/ mem' = [mem EXCEPT ![c] = mem[c]]
    BY DEF Start, Wake, BeginScan, Stat, StatFails
<1>4. \/ mem'[c] = mem[c]
      \/ mem'[c] = disk.state /\ found[c] = {}
    BY <1>2, <1>3 DEF TypeOK, IInv, PostedFirst
<1>5. ASSUME NEW entries, NEW S, S = found[c],
             entries = mem[c] \/ (entries = disk.state /\ found[c] = {})
      PROVE  AllGood(entries, S)'
    <2>1. AllGood(entries, S) /\ entries \in [Files -> Entries]
        BY <1>2, <1>5, OwnTypes DEF IInv, MemoryGood
    <2> QED
        BY <2>1, <1>1, <1>2, StillGood
<1>6. AllGood(mem[c], found[c])'
    BY <1>1, <1>4, <1>5 DEF AllGood
<1>7. \A d \in Collectors \ {c} : mem'[d] = mem[d] /\ found'[d] = found[d]
    BY <1>1, <1>2, <1>3 DEF TypeOK
<1>8. PostedFirst'
    BY <1>1, <1>2 DEF IInv, PostedFirst, TypeOK
<1> QED
    BY <1>1, <1>2, <1>6, <1>7, <1>8, MemoryKept, FilesKept DEF IInv

LEMMA UpsertKeeps ==
    ASSUME TypeOK, NEW e \in Events, Upsert(e)
    PROVE  Monotone /\ ledger'[e.id] > 0
<1>1. e.id \in Ids /\ e.out \in 1 .. MaxOut
    BY DEF Events
<1>2. e.out > 0
    BY <1>1, BoundsAssumption
<1>3. ledger'[e.id] > 0
    BY <1>1, <1>2 DEF Upsert, TypeOK
<1>4. \A m \in Ids \ {e.id} : ledger'[m] = ledger[m]
    BY DEF Upsert, TypeOK
<1> QED
    BY <1>1, <1>3, <1>4 DEF Monotone, Upsert

\* A batch that is stored, acknowledged or not.
LEMMA StoreInv ==
    ASSUME IInv, TypeOK', NEW c \in Collectors, NEW e \in Events,
           PostBatch(c, e) \/ PostUnanswered(c, e)
    PROVE  IInv'
<1>1. /\ UNCHANGED <<lines, gen, disk, tmp, mem, pc>>
      /\ pc[c] = "post"
      /\ Upsert(e)
      /\ \/ found' = found
         \/ found' = [found EXCEPT ![c] = found[c] \ {e}]
    BY DEF PostBatch, PostUnanswered, agents, files
<1>2. TypeOK
    BY DEF IInv
<1>3. Monotone /\ ledger'[e.id] > 0
    BY <1>1, <1>2, UpsertKeeps
<1>4. found'[c] = found[c] \/ found'[c] = found[c] \ {e}
    BY <1>1, <1>2 DEF TypeOK
<1>5. ASSUME NEW entries, NEW S, NEW T, entries = mem[c], S = found[c],
             T = found'[c]
      PROVE  AllGood(entries, T)'
    <2>1. \A m \in Ids : Accounted(m, S) => Accounted(m, T)'
        BY <1>3, <1>4, <1>5 DEF Accounted, Monotone
    <2>2. AllGood(entries, S)
        BY <1>5 DEF IInv, MemoryGood
    <2> QED
        BY <2>1, <2>2, <1>1, <1>2, <1>5, OwnTypes, GoodKept
<1>6. AllGood(mem[c], found[c])'
    BY <1>1, <1>5 DEF AllGood
<1>7. \A d \in Collectors \ {c} : mem'[d] = mem[d] /\ found'[d] = found[d]
    BY <1>1, <1>2 DEF TypeOK
<1>8. PostedFirst'
    BY <1>1, <1>7 DEF IInv, PostedFirst
<1> QED
    BY <1>1, <1>2, <1>3, <1>6, <1>7, <1>8, MemoryKept, FilesKept DEF IInv

\* The end of a cycle, when nothing is left or what is left is dropped.
LEMMA EndCycleKeeps ==
    ASSUME IInv, TypeOK', NEW c \in Collectors, EndCycle(c),
           UNCHANGED <<lines, gen, ledger>>, Monotone,
           setup.watch => \A d \in found[c] : d.id \in dropped'
    PROVE  MemoryGood' /\ PostedFirst'
<1>1. TypeOK
    BY DEF IInv
<1>2. /\ found'[c] = {}
      /\ mem'[c] = IF setup.watch THEN mem[c] ELSE NoEntries
      /\ \A d \in Collectors \ {c} : /\ mem'[d] = mem[d] /\ found'[d] = found[d]
                                     /\ pc'[d] = pc[d]
    BY <1>1 DEF EndCycle, TypeOK
<1>3. ASSUME NEW entries, entries = mem'[c] PROVE AllGood(entries, {})'
    <2>1. CASE setup.watch
        <3>1. ASSUME NEW S, S = found[c]
              PROVE  \A m \in Ids : Accounted(m, S) => Accounted(m, {})'
            BY <2>1, <3>1 DEF Accounted, Monotone
        <3>2. AllGood(entries, found[c])
            BY <2>1, <1>2, <1>3 DEF IInv, MemoryGood
        <3> QED
            BY <2>1, <3>1, <3>2, <1>1, <1>2, <1>3, OwnTypes, GoodKept
    <2>2. CASE ~setup.watch
        <3>1. entries = NoEntries
            BY <2>2, <1>2, <1>3
        <3>2. NoEntries \in [Files -> Entries]
            BY DEF NoEntries, NoEntry, Entries
        <3> QED
            BY <3>1, <3>2, <1>1, NoEntriesGood, StillGood
    <2> QED
        BY <2>1, <2>2
<1>4. AllGood(mem[c], found[c])'
    BY <1>2, <1>3 DEF AllGood
<1>5. MemoryGood'
    BY <1>2, <1>4, MemoryKept
<1>6. PostedFirst'
    BY <1>2 DEF IInv, PostedFirst
<1> QED
    BY <1>5, <1>6

LEMMA PostFailsInv ==
    ASSUME IInv, TypeOK', NEW c \in Collectors, PostFails(c)
    PROVE  IInv'
<1>1. /\ UNCHANGED <<lines, gen, ledger, disk, tmp>>
      /\ EndCycle(c)
      /\ dropped \subseteq dropped'
      /\ setup.watch => \A d \in found[c] : d.id \in dropped'
    BY DEF PostFails, agents, files
<1>2. Monotone
    BY <1>1 DEF Monotone
<1> QED
    BY <1>1, <1>2, EndCycleKeeps, FilesKept DEF IInv

LEMMA SaveOpenInv ==
    ASSUME IInv, TypeOK', NEW c \in Collectors, SaveOpen(c)
    PROVE  IInv'
<1>1. /\ UNCHANGED <<lines, gen, ledger, dropped, disk, mem, found>>
      /\ pc' = [pc EXCEPT ![c] = "write"]
      /\ found[c] = {}
      /\ tmp' = Empty
    BY DEF SaveOpen, agents, history
<1>2. TypeOK /\ Monotone
    BY <1>1, QuietMonotone DEF IInv
<1>3. AllGood(tmp.state, {})'
    <2>1. NoEntries \in [Files -> Entries]
        BY DEF NoEntries, NoEntry, Entries
    <2>2. AllGood(NoEntries, {})'
        BY <2>1, <1>1, <1>2, NoEntriesGood, StillGood
    <2>3. tmp'.state = NoEntries
        BY <1>1 DEF Empty
    <2>4. NoEntries' = NoEntries
        BY DEF NoEntries, NoEntry
    <2> QED
        BY <2>2, <2>3, <2>4 DEF AllGood
<1>4. AllGood(mem[c], found[c])'
    <2>1. ASSUME NEW entries, NEW S, entries = mem[c], S = found[c]
          PROVE  AllGood(entries, S)'
        BY <2>1, <1>1, <1>2, OwnTypes, StillGood DEF IInv, MemoryGood
    <2> QED
        BY <2>1, <1>1 DEF AllGood
<1>5. MemoryGood'
    BY <1>1, <1>2, <1>4, MemoryKept
<1>6. PostedFirst'
    BY <1>1, <1>2 DEF IInv, PostedFirst, TypeOK
<1> QED
    BY <1>1, <1>2, <1>3, <1>5, <1>6, FilesKept DEF IInv

\* What is written is the State in memory, all of it posted, or no State.
LEMMA WriteKeeps ==
    ASSUME IInv, NEW c \in Collectors, NEW content, WriteTo(c, content),
           content.state = NoEntries \/ (content.state = mem[c] /\ found[c] = {}),
           UNCHANGED <<lines, gen, ledger, dropped>>
    PROVE  AllGood(disk.state, {})' /\ AllGood(tmp.state, {})'
<1>1. TypeOK /\ Monotone
    BY QuietMonotone DEF IInv
<1>2. NoEntries \in [Files -> Entries]
    BY DEF NoEntries, NoEntry, Entries
<1>3. ASSUME NEW entries \in {disk.state, tmp.state, content.state}
      PROVE  AllGood(entries, {})'
    <2>1. AllGood(entries, {}) /\ entries \in [Files -> Entries]
        BY <1>1, <1>2, OwnTypes, NoEntriesGood DEF IInv, MemoryGood
    <2> QED
        BY <2>1, <1>1, StillGood
<1>4. disk' \in {disk, content} /\ tmp' \in {tmp, content}
    BY DEF WriteTo
<1> QED
    BY <1>3, <1>4 DEF AllGood

LEMMA SaveWriteInv ==
    ASSUME IInv, TypeOK', NEW c \in Collectors, SaveWrite(c)
    PROVE  IInv'
<1>1. /\ UNCHANGED <<lines, gen, ledger, dropped, mem, found>>
      /\ pc[c] = "write" /\ pc' = [pc EXCEPT ![c] = "rename"]
    BY DEF SaveWrite, agents, history
<1>2. PICK content \in Written(c) : WriteTo(c, content)
    BY DEF SaveWrite
<1>3. found[c] = {}
    BY <1>1 DEF IInv, PostedFirst
<1>4. content.state = NoEntries \/ content.state = mem[c]
    BY DEF Written, Whole, Mixed
<1>5. AllGood(disk.state, {})' /\ AllGood(tmp.state, {})'
    BY <1>1, <1>2, <1>3, <1>4, WriteKeeps
<1>6. TypeOK /\ Monotone
    BY <1>1, QuietMonotone DEF IInv
<1>7. AllGood(mem[c], found[c])'
    <2>1. ASSUME NEW entries, NEW S, entries = mem[c], S = found[c]
          PROVE  AllGood(entries, S)'
        BY <2>1, <1>1, <1>6, OwnTypes, StillGood DEF IInv, MemoryGood
    <2> QED
        BY <2>1, <1>1 DEF AllGood
<1>8. MemoryGood'
    BY <1>1, <1>6, <1>7, MemoryKept
<1>9. PostedFirst'
    BY <1>1, <1>3, <1>6 DEF IInv, PostedFirst, TypeOK
<1> QED
    BY <1>5, <1>8, <1>9 DEF IInv

LEMMA SaveWriteFailsInv ==
    ASSUME IInv, TypeOK', NEW c \in Collectors, SaveWriteFails(c)
    PROVE  IInv'
<1>1. /\ UNCHANGED <<lines, gen, ledger, dropped>>
      /\ pc[c] = "write" /\ WriteTo(c, Mixed) /\ EndCycle(c)
    BY DEF SaveWriteFails, agents, history
<1>2. found[c] = {} /\ Mixed.state = NoEntries
    BY <1>1 DEF IInv, PostedFirst, Mixed
<1>3. AllGood(disk.state, {})' /\ AllGood(tmp.state, {})'
    BY <1>1, <1>2, WriteKeeps
<1> QED
    BY <1>1, <1>2, <1>3, QuietMonotone, EndCycleKeeps DEF IInv

LEMMA SaveRenameInv ==
    ASSUME IInv, TypeOK', NEW c \in Collectors, SaveRename(c)
    PROVE  IInv'
<1>1. /\ UNCHANGED <<lines, gen, ledger, dropped>>
      /\ pc[c] = "rename" /\ EndCycle(c)
      /\ \/ disk' = disk /\ tmp' = tmp
         \/ disk' = tmp /\ tmp' = NoFile
    BY DEF SaveRename, agents, history, files
<1>2. found[c] = {}
    BY <1>1 DEF IInv, PostedFirst
<1>3. TypeOK /\ Monotone
    BY <1>1, QuietMonotone DEF IInv
<1>4. MemoryGood' /\ PostedFirst'
    BY <1>1, <1>2, <1>3, EndCycleKeeps
<1>5. CASE disk' = disk /\ tmp' = tmp
    BY <1>1, <1>3, <1>4, <1>5, FilesKept DEF IInv
<1>6. CASE disk' = tmp /\ tmp' = NoFile
    <2>1. NoEntries \in [Files -> Entries] /\ NoEntries' = NoEntries
        BY DEF NoEntries, NoEntry, Entries
    <2>2. AllGood(NoEntries, {})'
        BY <2>1, <1>1, <1>3, NoEntriesGood, StillGood
    <2>3. AllGood(tmp.state, {})'
        BY <2>1, <2>2, <1>6 DEF AllGood, NoFile
    <2> QED
        BY <2>3, <1>1, <1>3, <1>4, <1>6, FilesKept DEF IInv
<1> QED
    BY <1>1, <1>5, <1>6

\* What a killed collector had in memory is gone, the offsets with the events.
LEMMA CrashInv ==
    ASSUME IInv, TypeOK', NEW c \in Collectors, Crash(c)
    PROVE  IInv'
<1>1. /\ UNCHANGED <<lines, gen, ledger, dropped, disk, tmp>>
      /\ pc' = [pc EXCEPT ![c] = "off"]
      /\ found' = [found EXCEPT ![c] = {}]
      /\ mem' = [mem EXCEPT ![c] = NoEntries]
    BY DEF Crash, agents, history
<1>2. TypeOK /\ Monotone
    BY <1>1, QuietMonotone DEF IInv
<1>3. /\ found'[c] = {} /\ mem'[c] = NoEntries
      /\ \A d \in Collectors \ {c} : /\ mem'[d] = mem[d] /\ found'[d] = found[d]
                                     /\ pc'[d] = pc[d]
    BY <1>1, <1>2 DEF TypeOK
<1>4. AllGood(mem[c], found[c])'
    <2>1. NoEntries \in [Files -> Entries]
        BY DEF NoEntries, NoEntry, Entries
    <2>2. AllGood(NoEntries, {})'
        BY <2>1, <1>1, <1>2, NoEntriesGood, StillGood
    <2>3. NoEntries' = NoEntries
        BY DEF NoEntries, NoEntry
    <2> QED
        BY <2>2, <2>3, <1>3 DEF AllGood
<1>5. MemoryGood'
    BY <1>1, <1>2, <1>3, <1>4, MemoryKept
<1>6. PostedFirst'
    BY <1>3 DEF IInv, PostedFirst
<1> QED
    BY <1>1, <1>2, <1>5, <1>6, FilesKept DEF IInv

LEMMA InvNext == IInv /\ [Next]_vars => IInv'
<1> SUFFICES ASSUME IInv, [Next]_vars PROVE IInv'
    OBVIOUS
<1>1. TypeOK'
    BY TypeNext DEF IInv
<1>2. CASE UNCHANGED vars
    BY <1>2 DEF vars, files, agents, history, IInv, TypeOK, PostedFirst,
                MemoryGood, AllGood, Good, Accounted
<1>3. ASSUME NEW f \in Files, AgentStep(f) PROVE IInv'
    BY <1>1, <1>3, AgentInv
<1>4. ASSUME NEW c \in Collectors, CollectorStep(c) PROVE IInv'
    BY <1>1, <1>4, BeginInv, ReadInv, EndScanInv, StoreInv, SaveOpenInv, SaveWriteInv,
       SaveRenameInv
    DEF CollectorStep
<1>5. ASSUME NEW c \in Collectors, CollectorFault(c) PROVE IInv'
    BY <1>1, <1>5, BeginInv, StoreInv, PostFailsInv, SaveWriteFailsInv, CrashInv
    DEF CollectorFault
<1> QED
    BY <1>2, <1>3, <1>4, <1>5 DEF Next

\* Whatever the state file says is consumed, the server has, or a watch has
\* dropped it, for any number of collectors that overlap, crash, and fail to
\* post or to save.
THEOREM SavedMeansStoredAlways == Spec => []SavedMeansStored
<1> QED
    BY InvInit, InvNext, InvImplies, PTL DEF Spec
-----------------------------------------------------------------------------
(* The counts and the form of the state file, unless collectors overlap.     *)

\* A transcript has events of its own, with growing counts.
AtHome == \A f \in Files : \A i \in 1 .. Len(lines[f]) : Home[lines[f][i].id] = f

Growing ==
    \A f \in Files : \A i, j \in 1 .. Len(lines[f]) :
        i <= j /\ lines[f][i].id = lines[f][j].id => lines[f][i].out <= lines[f][j].out

\* One collector runs at a time.
Alone == \A c, d \in Collectors : pc[c] # "off" /\ pc[d] # "off" => c = d

\* The server has as much of an event, or a watch has dropped it.
Final(e) == ledger[e.id] >= e.out \/ e.id \in dropped

\* S has as much of the event, or more.
Reached(e, S) == \E d \in S : d.id = e.id /\ e.out <= d.out

\* What entries say is consumed is counted, S being what is still to be posted.
CountedBut(entries, S) ==
    \A f \in Files : \A e \in Consumed(f, entries[f]) : Final(e) \/ Reached(e, S)

\* Posting the largest of S lowers no count of what entries say is consumed.
Raises(entries, S) ==
    \A f \in Files : \A e \in Consumed(f, entries[f]) : \A d \in S :
        d.id = e.id => Reached(e, S)

\* A collector that ended, or was killed, has nothing left; the temporary file
\* is written by one, from its start, and then renamed; after Dedup there is one
\* event of each id.
Own(c) ==
    /\ pc[c] = "off" => mem[c] = NoEntries /\ found[c] = {}
    /\ fd[c] = IF pc[c] = "write" THEN "tmp" ELSE "none"
    /\ pc[c] = "write" => tmp = Empty
    /\ pc[c] = "rename" => tmp = Whole(mem[c])
    /\ pc[c] = "post" => \A d, e \in found[c] : d.id = e.id => d = e
    /\ CountedBut(mem[c], found[c])
    /\ Raises(mem[c], found[c]) /\ Raises(disk.state, found[c])

Counts ==
    /\ Alone
    /\ disk.kind # "mixed" /\ CountedBut(disk.state, {})
    /\ \A c \in Collectors : Own(c)

CountsInv == IInv /\ AtHome /\ Growing /\ (overlapped \/ Counts)

LEMMA NothingConsumed == \A f \in Files : Consumed(f, NoEntries[f]) = {}
BY DEF NoEntries, NoEntry, Consumed

LEMMA CountsInit == Init => CountsInv
<1> SUFFICES ASSUME Init PROVE CountsInv
    OBVIOUS
<1>1. IInv
    BY InvInit
<1>2. AtHome /\ Growing
    BY DEF Init, AtHome, Growing
<1>3. disk.state = NoEntries /\ disk.kind = "empty"
    BY DEF Init, Empty
<1>4. ASSUME NEW c \in Collectors PROVE Own(c)
    <2>1. mem[c] = NoEntries /\ found[c] = {} /\ pc[c] = "off" /\ fd[c] = "none"
        BY DEF Init
    <2> QED
        BY <2>1, NothingConsumed DEF Own, CountedBut, Raises
<1>5. Alone
    BY DEF Init, Alone
<1> QED
    BY <1>1, <1>2, <1>3, <1>4, <1>5, NothingConsumed DEF CountsInv, Counts, CountedBut

LEMMA CountsImply ==
    CountsInv => CountsFinalUnlessOverlapped /\ StateReadableUnlessOverlapped
BY DEF CountsInv, Counts, CountedBut, Final, Reached, CountsFinalUnlessOverlapped,
       StateReadableUnlessOverlapped

\* The consumed lines of a good entry are lines of the transcript.
LEMMA ConsumedLines ==
    ASSUME TypeOK, NEW f \in Files, NEW entry \in Entries, NEW S, Good(f, entry, S),
           NEW e \in Consumed(f, entry)
    PROVE  /\ entry.gen = gen[f] /\ entry.whole
           /\ e \in Events
           /\ \E i \in 1 .. Len(lines[f]) : i <= entry.offset /\ e = lines[f][i]
<1>1. entry.gen = gen[f] /\ entry.whole
    BY DEF Consumed
<1>2. PICK i \in 1 .. entry.offset : e = lines[f][i]
    BY <1>1 DEF Consumed
<1>3. entry.offset \in Nat /\ entry.offset <= Len(lines[f]) /\ Len(lines[f]) \in Nat
    BY <1>1 DEF Good, Entries, TypeOK
<1>4. i \in 1 .. Len(lines[f]) /\ i <= entry.offset
    BY <1>3
<1>5. lines[f] \in Seq(Events)
    BY DEF TypeOK
<1>6. lines[f][i] \in Events
    BY <1>4, <1>5
<1> QED
    BY <1>1, <1>2, <1>4, <1>6

\* An agent's step adds nothing to what an entry says is consumed.
LEMMA AgentConsumes ==
    ASSUME TypeOK, NEW f \in Files, NEW entry \in Entries, NEW S, Good(f, entry, S),
           NEW g \in Files, AgentStep(g)
    PROVE  Consumed(f, entry)' \subseteq Consumed(f, entry)
<1>1. CASE BeginLine(g)
    BY <1>1 DEF BeginLine, Consumed
<1>2. ASSUME NEW e \in Events, EndLine(g, e)
      PROVE  Consumed(f, entry)' \subseteq Consumed(f, entry)
    <2>1. gen' = gen
        BY <1>2 DEF EndLine
    <2> SUFFICES ASSUME entry.gen = gen[f], entry.whole,
                        NEW i \in 1 .. entry.offset
                 PROVE  lines'[f][i] = lines[f][i]
        BY <2>1 DEF Consumed
    <2>2. entry.offset <= Len(lines[f]) /\ Len(lines[f]) \in Nat /\ entry.offset \in Nat
        BY DEF Good, TypeOK, Entries
    <2>3. i \in 1 .. Len(lines[f])
        BY <2>2
    <2> QED
        BY <1>2, <2>3, EndLineAppends
<1>3. CASE Rewrite(g)
    <2>1. gen[f] \in Nat /\ entry.gen \in Nat /\ entry.gen <= gen[f]
        BY DEF TypeOK, Entries, Good
    <2>2. CASE f = g
        <3>1. gen'[f] = gen[f] + 1
            BY <1>3, <2>2 DEF Rewrite, TypeOK
        <3>2. entry.gen # gen'[f]
            BY <2>1, <3>1
        <3> QED
            BY <3>2 DEF Consumed
    <2>3. CASE f # g
        <3>1. gen'[f] = gen[f] /\ lines'[f] = lines[f]
            BY <1>3, <2>3 DEF Rewrite, TypeOK
        <3> QED
            BY <3>1 DEF Consumed
    <2> QED
        BY <2>2, <2>3
<1> QED
    BY <1>1, <1>2, <1>3 DEF AgentStep

\* An agent appends to the events of its transcript no smaller count.
LEMMA LinesGrow ==
    ASSUME TypeOK, AtHome, Growing, NEW g \in Files, AgentStep(g)
    PROVE  AtHome' /\ Growing'
<1>1. CASE BeginLine(g)
    BY <1>1 DEF BeginLine, AtHome, Growing
<1>2. ASSUME NEW e \in Events, EndLine(g, e) PROVE AtHome' /\ Growing'
    <2>1. lines[g] \in Seq(Events) /\ lines' = [lines EXCEPT ![g] = Append(lines[g], e)]
        BY <1>2 DEF EndLine, TypeOK
    <2>2. /\ Len(Append(lines[g], e)) = Len(lines[g]) + 1
          /\ \A i \in 1 .. Len(lines[g]) : Append(lines[g], e)[i] = lines[g][i]
          /\ Append(lines[g], e)[Len(lines[g]) + 1] = e
        BY <2>1, AppendProperties
    <2>3. /\ Home[e.id] = g
          /\ \A i \in 1 .. Len(lines[g]) : lines[g][i].id = e.id => lines[g][i].out <= e.out
        BY <1>2 DEF EndLine
    <2>4. Len(lines[g]) \in Nat /\ e.out \in Nat
        BY <2>1 DEF Events
    <2>5. ASSUME NEW i \in 1 .. Len(lines[g]) + 1
          PROVE  i \in 1 .. Len(lines[g]) \/ i = Len(lines[g]) + 1
        BY <2>4
    <2>6. lines'[g] = Append(lines[g], e) /\ \A f \in Files \ {g} : lines'[f] = lines[f]
        BY <2>1 DEF TypeOK
    <2>7. AtHome'
        BY <2>2, <2>3, <2>5, <2>6 DEF AtHome
    <2>8. ASSUME NEW i \in 1 .. Len(lines'[g]), NEW j \in 1 .. Len(lines'[g]), i <= j,
                 lines'[g][i].id = lines'[g][j].id
          PROVE  lines'[g][i].out <= lines'[g][j].out
        <3>1. CASE j = Len(lines[g]) + 1
            <4>1. lines'[g][j] = e
                BY <3>1, <2>2, <2>6
            <4>2. CASE i = Len(lines[g]) + 1
                BY <4>1, <4>2, <2>4, <3>1
            <4>3. CASE i \in 1 .. Len(lines[g])
                BY <4>1, <4>3, <2>2, <2>3, <2>6, <2>8
            <4> QED
                BY <4>2, <4>3, <2>2, <2>5, <2>6
        <3>2. CASE j \in 1 .. Len(lines[g])
            <4>1. i \in 1 .. Len(lines[g])
                BY <3>2, <2>4, <2>8
            <4> QED
                BY <4>1, <3>2, <2>2, <2>6, <2>8 DEF Growing
        <3> QED
            BY <3>1, <3>2, <2>2, <2>5, <2>6
    <2>9. Growing'
        BY <2>6, <2>8 DEF Growing
    <2> QED
        BY <2>7, <2>9
<1>3. CASE Rewrite(g)
    <2>1. lines'[g] = << >> /\ \A f \in Files \ {g} : lines'[f] = lines[f]
        BY <1>3 DEF Rewrite, TypeOK
    <2> QED
        BY <2>1 DEF AtHome, Growing
<1> QED
    BY <1>1, <1>2, <1>3 DEF AgentStep

LEMMA AgentCounts ==
    ASSUME IInv, Counts, NEW g \in Files, AgentStep(g)
    PROVE  Counts'
<1>1. UNCHANGED <<ledger, dropped, disk, tmp, pc, mem, found, fd>>
    BY DEF AgentStep, BeginLine, Rewrite, EndLine, files, history
<1>2. ASSUME NEW entries \in [Files -> Entries], NEW S, AllGood(entries, S), NEW f \in Files
      PROVE  Consumed(f, entries[f])' \subseteq Consumed(f, entries[f])
    BY <1>2, AgentConsumes DEF IInv, AllGood
<1>3. \A f \in Files : Consumed(f, disk.state[f])' \subseteq Consumed(f, disk.state[f])
    BY <1>1, <1>2, OwnTypes DEF IInv, Consumed
<1>4. \A c \in Collectors : \A f \in Files :
          Consumed(f, mem[c][f])' \subseteq Consumed(f, mem[c][f])
    BY <1>1, <1>2, OwnTypes DEF IInv, MemoryGood, Consumed
<1>5. CountedBut(disk.state, {})'
    BY <1>1, <1>3 DEF Counts, CountedBut, Final, Reached
<1>6. ASSUME NEW c \in Collectors PROVE Own(c)'
    <2>1. Own(c)
        BY DEF Counts
    <2>2. CountedBut(mem[c], found[c])'
        BY <2>1, <1>1, <1>4 DEF Own, CountedBut, Final, Reached
    <2>3. Raises(mem[c], found[c])' /\ Raises(disk.state, found[c])'
        BY <2>1, <1>1, <1>3, <1>4 DEF Own, Raises, Reached
    <2> QED
        BY <2>1, <2>2, <2>3, <1>1 DEF Own
<1>7. Alone'
    BY <1>1 DEF Counts, Alone
<1> QED
    BY <1>1, <1>5, <1>6, <1>7 DEF Counts

\* A step that leaves transcripts and server alone keeps what is counted.
LEMMA CountsQuiet ==
    ASSUME UNCHANGED <<lines, gen, ledger, dropped>>, NEW entries, NEW S
    PROVE  /\ CountedBut(entries, S) => CountedBut(entries, S)'
           /\ Raises(entries, S) => Raises(entries, S)'
BY DEF CountedBut, Raises, Consumed, Final, Reached

\* A collector at rest.
LEMMA AtRest ==
    ASSUME NEW c \in Collectors, pc'[c] = "off", mem'[c] = NoEntries, found'[c] = {},
           fd'[c] = "none"
    PROVE  Own(c)'
<1>1. NoEntries' = NoEntries
    BY DEF NoEntries, NoEntry
<1>2. \A f \in Files : Consumed(f, mem[c][f])' = {}
    BY DEF NoEntries, NoEntry, Consumed
<1> QED
    BY <1>1, <1>2 DEF Own, CountedBut, Raises

\* While one collector runs, only its own part can change.
LEMMA OneRuns ==
    ASSUME TypeOK, Counts, NEW c \in Collectors,
           \A d \in Collectors \ {c} :
               /\ pc[d] = "off" /\ pc'[d] = pc[d]
               /\ mem'[d] = mem[d] /\ found'[d] = found[d] /\ fd'[d] = fd[d],
           disk'.kind # "mixed", CountedBut(disk.state, {})', Own(c)'
    PROVE  Counts'
<1>1. ASSUME NEW d \in Collectors \ {c} PROVE Own(d)'
    <2>1. Own(d)
        BY DEF Counts
    <2>2. /\ pc'[d] = "off" /\ mem'[d] = NoEntries /\ found'[d] = {} /\ fd'[d] = "none"
        BY <2>1 DEF Own
    <2> QED
        BY <2>2, AtRest
<1>2. Alone'
    BY DEF Alone
<1> QED
    BY <1>1, <1>2 DEF Counts

\* The others rest while c runs.
LEMMA OthersRest ==
    ASSUME Counts, NEW c \in Collectors, pc[c] # "off"
    PROVE  \A d \in Collectors \ {c} : pc[d] = "off"
BY DEF Counts, Alone

\* What Read finds of a file: every line behind the offset, which no consumed
\* line of its event exceeds that is not found itself.
LEMMA ReadFinds ==
    ASSUME IInv, AtHome, Growing, NEW f \in Files, NEW from \in Nat,
           NEW g \in Files, NEW entry \in Entries, NEW S, Good(g, entry, S),
           NEW e \in Consumed(g, entry),
           NEW k \in from + 1 .. Len(lines[f]), lines[f][k].id = e.id
    PROVE  \/ e \in {lines[f][i] : i \in from + 1 .. Len(lines[f])}
           \/ e.out <= lines[f][k].out
<1>1. PICK i \in 1 .. Len(lines[g]) : e = lines[g][i]
    BY ConsumedLines DEF IInv
<1>2. Len(lines[f]) \in Nat /\ k \in 1 .. Len(lines[f])
    BY DEF IInv, TypeOK
<1>3. f = g
    BY <1>1, <1>2 DEF AtHome
<1>4. CASE i <= from
    <2>1. i <= k
        BY <1>2, <1>4, <1>1
    <2> QED
        BY <2>1, <1>1, <1>2, <1>3 DEF Growing
<1>5. CASE ~(i <= from)
    <2>1. i \in from + 1 .. Len(lines[f])
        BY <1>1, <1>2, <1>3, <1>5
    <2> QED
        BY <2>1, <1>1, <1>3
<1> QED
    BY <1>4, <1>5

LEMMA ReadCounts ==
    ASSUME IInv, TypeOK', AtHome, Growing, Counts,
           NEW c \in Collectors, NEW f \in Files, Read(c, f)
    PROVE  Counts'
<1> DEFINE from == Resume(c, f)
           to == IF Len(lines[f]) > from THEN Len(lines[f]) ELSE from
           old == mem[c][f]
           new == [offset |-> to, gen |-> gen[f],
                   whole |-> from = 0 \/ (old.gen = gen[f] /\ old.whole)]
           fresh == {lines[f][i] : i \in from + 1 .. Len(lines[f])}
           all == found[c] \cup fresh
<1>1. /\ UNCHANGED <<lines, gen, ledger, dropped, disk, tmp, pc, fd>>
      /\ pc[c] = "scan"
      /\ mem' = [mem EXCEPT ![c][f] = new]
      /\ found' = [found EXCEPT ![c] = all]
    BY DEF Read, agents, files, history
<1>2. TypeOK /\ Own(c) /\ disk.kind # "mixed" /\ CountedBut(disk.state, {})
    BY DEF IInv, Counts
<1>3. mem[c] \in [Files -> Entries] /\ old \in Entries /\ disk.state \in [Files -> Entries]
    BY <1>2, OwnTypes
<1>4. /\ old.offset \in Nat /\ old.gen \in Nat /\ old.whole \in BOOLEAN
      /\ gen[f] \in Nat /\ Len(lines[f]) \in Nat
    BY <1>2, <1>3 DEF Entries, TypeOK
<1>5. from = 0 \/ from = old.offset
    BY DEF Resume
<1>6. from \in Nat /\ to \in Nat
    BY <1>4, <1>5
<1>7. \A g \in Files : Good(g, mem[c][g], found[c]) /\ Good(g, disk.state[g], {})
    BY DEF IInv, MemoryGood, AllGood
<1>8. mem'[c] = [mem[c] EXCEPT ![f] = new] /\ found'[c] = all
    <2> HIDE DEF new, all
    <2> QED
        BY <1>1, <1>2 DEF TypeOK
<1>9. /\ \A g \in Files \ {f} : mem'[c][g] = mem[c][g]
      /\ mem'[c][f] = new
    <2> HIDE DEF new, all
    <2> QED
        BY <1>3, <1>8
\* A line that the new entry says is consumed was so before or is fresh.
<1>10. \A e \in Consumed(f, new) : e \in fresh \/ e \in Consumed(f, old)
    <2> SUFFICES ASSUME NEW e \in Consumed(f, new)
                 PROVE  e \in fresh \/ e \in Consumed(f, old)
        OBVIOUS
    <2>1. new.offset = to /\ new.gen = gen[f]
          /\ new.whole = (from = 0 \/ (old.gen = gen[f] /\ old.whole))
        OBVIOUS
    <2> HIDE DEF new
    <2>2. new.whole
        BY DEF Consumed
    <2>3. PICK i \in 1 .. to : e = lines[f][i]
        BY <2>1, <2>2 DEF Consumed
    <2>4. CASE i > from
        <3> HIDE DEF from
        <3>1. i \in from + 1 .. Len(lines[f])
            BY <2>4, <1>4, <1>6
        <3> QED
            BY <3>1, <2>3
    <2>5. CASE ~(i > from)
        <3>1. i \in 1 .. from /\ from # 0
            <4> HIDE DEF from, to
            <4> QED
                BY <2>5, <1>6
        <3>2. old.gen = gen[f] /\ old.whole /\ from = old.offset
            BY <2>1, <2>2, <3>1, <1>5
        <3> QED
            BY <2>3, <3>1, <3>2 DEF Consumed
    <2> QED
        BY <2>4, <2>5
<1> HIDE DEF new, from
\* Behind the offset is found whatever exceeds what is consumed.
<1>11. ASSUME NEW g \in Files, NEW entry \in Entries, NEW S, Good(g, entry, S),
              NEW e \in Consumed(g, entry), NEW d \in fresh, d.id = e.id
       PROVE  Reached(e, all)
    <2>1. PICK k \in from + 1 .. Len(lines[f]) : d = lines[f][k]
        OBVIOUS
    <2>2. e \in fresh \/ e.out <= d.out
        BY <2>1, <1>6, <1>11, ReadFinds
    <2>3. e \in Events
        BY <1>2, <1>11, ConsumedLines
    <2>4. e.out <= e.out
        BY <2>3 DEF Events
    <2> HIDE DEF fresh
    <2> QED
        BY <2>2, <2>4, <1>11 DEF Reached
<1>12. \A g \in Files : \A e \in Consumed(g, mem'[c][g]) :
            \/ e \in Consumed(g, mem[c][g])
            \/ e \in fresh /\ e.out <= e.out
    <2> SUFFICES ASSUME NEW g \in Files, NEW e \in Consumed(g, mem'[c][g]),
                        e \notin Consumed(g, mem[c][g])
                 PROVE  e \in fresh /\ e.out <= e.out
        OBVIOUS
    <2>1. g = f
        BY <1>9
    <2>2. e \in fresh
        BY <2>1, <1>9, <1>10
    <2>3. PICK i \in from + 1 .. Len(lines[f]) : e = lines[f][i]
        BY <2>2
    <2>4. i \in 1 .. Len(lines[f]) /\ lines[f] \in Seq(Events)
        BY <1>2, <1>4, <1>6 DEF TypeOK
    <2>5. e \in Events
        BY <2>3, <2>4
    <2> QED
        BY <2>2, <2>5 DEF Events
<1>13. \A entries : Raises(entries, found[c]) =>
            \A g \in Files : \A e \in Consumed(g, entries[g]) : \A d \in found[c] :
                d.id = e.id => Reached(e, all)
    BY DEF Raises, Reached
<1>14. \A g \in Files : \A e \in Consumed(g, mem[c][g]) \cup Consumed(g, disk.state[g]) :
            \A d \in all : d.id = e.id => Reached(e, all)
    <2> SUFFICES ASSUME NEW g \in Files,
                        NEW e \in Consumed(g, mem[c][g]) \cup Consumed(g, disk.state[g]),
                        NEW d \in all, d.id = e.id
                 PROVE  Reached(e, all)
        OBVIOUS
    <2>1. CASE d \in found[c]
        BY <2>1, <1>2, <1>13 DEF Own
    <2>2. CASE d \in fresh
        BY <2>2, <1>3, <1>7, <1>11
    <2> QED
        BY <2>1, <2>2
<1>15. \A g \in Files : \A e \in Consumed(g, mem[c][g]) : Final(e) \/ Reached(e, all)
    BY <1>2 DEF Own, CountedBut, Reached
<1> HIDE DEF fresh
<1>16. \A e \in fresh : e.out <= e.out => Reached(e, all)
    BY DEF Reached
<1>17. CountedBut(mem'[c], all) /\ Raises(mem'[c], all) /\ Raises(disk.state, all)
    BY <1>12, <1>14, <1>15, <1>16 DEF CountedBut, Raises
<1> HIDE DEF all
<1>18. /\ CountedBut(mem[c], found[c])' /\ Raises(mem[c], found[c])'
       /\ Raises(disk.state, found[c])'
    BY <1>1, <1>8, <1>17 DEF CountedBut, Raises, Consumed, Final, Reached
<1>19. Own(c)'
    BY <1>1, <1>2, <1>18 DEF Own
<1>20. CountedBut(disk.state, {})'
    BY <1>1, <1>2 DEF CountedBut, Consumed, Final, Reached
<1>21. \A d \in Collectors \ {c} : mem'[d] = mem[d] /\ found'[d] = found[d]
    BY <1>1, <1>2 DEF TypeOK
<1> QED
    BY <1>1, <1>2, <1>19, <1>20, <1>21, OneRuns, OthersRest

\* Start, Wake, Stat and its failure: a cycle begins with what the state file,
\* or the last cycle, says.
LEMMA BeginCounts ==
    ASSUME IInv, Counts, NEW c \in Collectors, ~overlapped',
           \/ Start(c) \/ Wake(c)
           \/ \E f \in Files : Stat(c, f) \/ StatFails(c, f)
    PROVE  Counts'
<1>1. /\ UNCHANGED <<lines, gen, ledger, dropped, disk, tmp, found, fd>>
      /\ \/ pc' = pc
         \/ pc' = [pc EXCEPT ![c] = "scan"] /\ pc[c] \in {"off", "sleep"}
    BY DEF Start, Wake, BeginScan, Stat, StatFails, agents, files, history
<1>2. TypeOK /\ Own(c) /\ disk.kind # "mixed" /\ CountedBut(disk.state, {})
    BY DEF IInv, Counts
<1>3. \/ mem' = mem
      \/ mem' = [mem EXCEPT ![c] = disk.state] /\ found[c] = {}
      \/ mem' = [mem EXCEPT ![c] = mem[c]]
    BY <1>2 DEF Start, Wake, BeginScan, Stat, StatFails, Own
<1>4. \A d \in Collectors \ {c} : pc[d] = "off"
    <2>1. CASE Start(c)
        BY <2>1 DEF Start
    <2>2. CASE ~Start(c)
        <3>1. pc[c] # "off"
            BY <2>2 DEF Wake, Stat, StatFails
        <3> QED
            BY <3>1, OthersRest
    <2> QED
        BY <2>1, <2>2
<1>5. \/ mem'[c] = mem[c]
      \/ mem'[c] = disk.state /\ found[c] = {}
    BY <1>2, <1>3 DEF TypeOK
<1>6. ASSUME NEW entries, entries = mem'[c]
      PROVE  CountedBut(entries, found[c]) /\ Raises(entries, found[c])
    BY <1>2, <1>5, <1>6 DEF Own, Raises
<1>7. ASSUME NEW entries, entries = mem'[c], NEW S, S = found[c]
      PROVE  CountedBut(entries, S)' /\ Raises(entries, S)'
    BY <1>1, <1>6, <1>7, CountsQuiet
<1>8. CountedBut(mem[c], found[c])' /\ Raises(mem[c], found[c])'
    BY <1>1, <1>7 DEF CountedBut, Raises
<1>9. Raises(disk.state, found[c])' /\ CountedBut(disk.state, {})'
    BY <1>1, <1>2 DEF Own, CountedBut, Raises, Consumed, Final, Reached
<1>10. \/ pc'[c] = pc[c] /\ mem'[c] = mem[c]
       \/ pc'[c] = "scan" /\ pc[c] \in {"off", "sleep"}
    BY <1>1, <1>2 DEF TypeOK, Start, Wake, BeginScan, Stat, StatFails
<1>11. Own(c)'
    BY <1>1, <1>2, <1>8, <1>9, <1>10 DEF Own
<1>12. \A d \in Collectors \ {c} : pc'[d] = pc[d] /\ mem'[d] = mem[d]
    BY <1>1, <1>2, <1>3 DEF TypeOK
<1> QED
    BY <1>1, <1>2, <1>4, <1>9, <1>11, <1>12, OneRuns

\* Dedup leaves one event of an id, and the largest.
LEMMA DedupLargest ==
    ASSUME NEW S \in SUBSET Events
    PROVE  /\ \A d, e \in Dedup(S) : d.id = e.id => d = e
           /\ \A d \in S : \E e \in Dedup(S) : e.id = d.id /\ d.out <= e.out
<1>1. ASSUME NEW d \in Dedup(S), NEW e \in Dedup(S), d.id = e.id PROVE d = e
    <2>1. d \in Events /\ e \in Events /\ d.out <= e.out /\ e.out <= d.out
        BY <1>1 DEF Dedup
    <2> QED
        BY <2>1, <1>1 DEF Events
<1>2. ASSUME NEW d \in S PROVE \E e \in Dedup(S) : e.id = d.id /\ d.out <= e.out
    <2>1. PICK e \in Dedup(S) : e.id = d.id
        BY DedupCovers
    <2> QED
        BY <2>1 DEF Dedup
<1> QED
    BY <1>1, <1>2

LEMMA EndScanCounts ==
    ASSUME IInv, Counts, NEW c \in Collectors, EndScan(c)
    PROVE  Counts'
<1> DEFINE S == found[c]
           T == Dedup(found[c])
<1>1. /\ UNCHANGED <<lines, gen, ledger, dropped, disk, tmp, mem, fd>>
      /\ pc[c] = "scan" /\ pc' = [pc EXCEPT ![c] = "post"]
      /\ found' = [found EXCEPT ![c] = T]
    BY DEF EndScan, agents, files, history
<1>2. TypeOK /\ Own(c) /\ disk.kind # "mixed" /\ CountedBut(disk.state, {})
    BY DEF IInv, Counts
<1>3. S \in SUBSET Events /\ T \subseteq S
    BY <1>2, OwnTypes DEF Dedup
<1>4. /\ \A d, e \in T : d.id = e.id => d = e
      /\ \A d \in S : \E e \in T : e.id = d.id /\ d.out <= e.out
    BY <1>3, DedupLargest
<1>5. found'[c] = T /\ pc'[c] = "post"
    BY <1>1, <1>2 DEF TypeOK
<1> HIDE DEF S, T
<1>6. ASSUME NEW e \in Events, Reached(e, S) PROVE Reached(e, T)
    <2>1. PICK d \in S : d.id = e.id /\ e.out <= d.out
        BY <1>6 DEF Reached
    <2>2. PICK g \in T : g.id = d.id /\ d.out <= g.out
        BY <1>4
    <2>3. e.out <= g.out
        BY <1>3, <2>1, <2>2 DEF Events
    <2> QED
        BY <2>1, <2>2, <2>3 DEF Reached
<1>7. ASSUME NEW entries \in {mem[c], disk.state}
      PROVE  \A f \in Files : Consumed(f, entries[f]) \subseteq Events
    <2> SUFFICES ASSUME NEW f \in Files, NEW e \in Consumed(f, entries[f])
                 PROVE  e \in Events
        OBVIOUS
    <2>1. entries[f] \in Entries
        BY <1>2, OwnTypes
    <2>2. Good(f, entries[f], found[c]) \/ Good(f, entries[f], {})
        BY DEF IInv, MemoryGood, AllGood
    <2> QED
        BY <1>2, <2>1, <2>2, ConsumedLines
<1>8. CountedBut(mem[c], T) /\ Raises(mem[c], T) /\ Raises(disk.state, T)
    BY <1>2, <1>3, <1>6, <1>7 DEF Own, CountedBut, Raises, S
<1>9. /\ CountedBut(mem[c], found[c])' /\ Raises(mem[c], found[c])'
      /\ Raises(disk.state, found[c])'
    BY <1>1, <1>5, <1>8 DEF CountedBut, Raises, Consumed, Final, Reached
<1>10. CountedBut(disk.state, {})'
    BY <1>1, <1>2 DEF CountedBut, Consumed, Final, Reached
<1>11. Own(c)'
    BY <1>1, <1>2, <1>4, <1>5, <1>9 DEF Own
<1>12. \A d \in Collectors \ {c} : pc'[d] = pc[d] /\ found'[d] = found[d]
    BY <1>1, <1>2 DEF TypeOK
<1> QED
    BY <1>1, <1>2, <1>10, <1>11, <1>12, OneRuns, OthersRest

\* A batch that is stored, acknowledged or not, is the largest of its event.
LEMMA StoreCounts ==
    ASSUME IInv, Counts, NEW c \in Collectors, NEW e \in Events,
           PostBatch(c, e) \/ PostUnanswered(c, e)
    PROVE  Counts'
<1>1. /\ UNCHANGED <<lines, gen, disk, tmp, mem, pc, fd>>
      /\ pc[c] = "post" /\ e \in found[c]
      /\ Upsert(e)
      /\ \/ found' = found
         \/ found' = [found EXCEPT ![c] = found[c] \ {e}]
    BY DEF PostBatch, PostUnanswered, agents, files
<1>2. TypeOK /\ Own(c) /\ disk.kind # "mixed" /\ CountedBut(disk.state, {})
    BY DEF IInv, Counts
<1>3. found'[c] = found[c] \/ found'[c] = found[c] \ {e}
    BY <1>1, <1>2 DEF TypeOK
<1>4. \A d \in found[c] : d.id = e.id => d = e
    BY <1>1, <1>2 DEF Own
<1>5. /\ e.id \in Ids /\ ledger'[e.id] = e.out
      /\ \A m \in Ids \ {e.id} : /\ ledger'[m] = ledger[m]
                                 /\ m \in dropped => m \in dropped'
    BY <1>1, <1>2 DEF Upsert, Events, TypeOK
<1>6. ASSUME NEW entries \in {mem[c], disk.state}, NEW f \in Files,
             NEW x \in Consumed(f, entries[f])
      PROVE  /\ x \in Events
             /\ x.id = e.id => x.out <= e.out
    <2>1. entries[f] \in Entries
        BY <1>2, OwnTypes
    <2>2. Good(f, entries[f], found[c]) \/ Good(f, entries[f], {})
        BY DEF IInv, MemoryGood, AllGood
    <2>3. x \in Events
        BY <1>2, <2>1, <2>2, ConsumedLines
    <2>4. Raises(entries, found[c])
        BY <1>2 DEF Own
    <2>5. x.id = e.id => Reached(x, found[c])
        BY <2>4, <1>1 DEF Raises
    <2> QED
        BY <2>3, <2>5, <1>4 DEF Reached
<1>7. ASSUME NEW x \in Events, x.id = e.id => x.out <= e.out
      PROVE  /\ Final(x) => Final(x)'
             /\ x.id = e.id => Final(x)'
             /\ Reached(x, found[c]) => Final(x)' \/ Reached(x, found'[c])
    <2>1. x.id \in Ids /\ x.out \in Nat /\ e.out \in Nat
        BY DEF Events
    <2>2. CASE x.id = e.id
        BY <2>1, <2>2, <1>5, <1>7 DEF Final
    <2>3. CASE x.id # e.id
        <3>1. Final(x) => Final(x)'
            BY <2>1, <2>3, <1>5 DEF Final
        <3>2. Reached(x, found[c]) => Reached(x, found'[c])
            BY <2>3, <1>3 DEF Reached
        <3> QED
            BY <2>3, <3>1, <3>2
    <2> QED
        BY <2>2, <2>3
<1>8. ASSUME NEW entries \in {mem[c], disk.state}, NEW T, T = found'[c]
      PROVE  Raises(entries, T)'
    <2> SUFFICES ASSUME NEW f \in Files, NEW x \in Consumed(f, entries[f]),
                        NEW d \in T, d.id = x.id
                 PROVE  Reached(x, T)
        BY <1>1 DEF Raises, Consumed, Reached
    <2>1. d \in found[c] /\ Raises(entries, found[c])
        BY <1>2, <1>3, <1>8 DEF Own
    <2>2. PICK g \in found[c] : g.id = x.id /\ x.out <= g.out
        BY <2>1 DEF Raises, Reached
    <2>3. g = d
        BY <1>1, <1>2, <2>1, <2>2 DEF Own
    <2> QED
        BY <2>2, <2>3 DEF Reached
<1>9. \A f \in Files : \A x \in Consumed(f, mem[c][f]) : Final(x)' \/ Reached(x, found'[c])
    <2> SUFFICES ASSUME NEW f \in Files, NEW x \in Consumed(f, mem[c][f])
                 PROVE  Final(x)' \/ Reached(x, found'[c])
        OBVIOUS
    <2>1. Final(x) \/ Reached(x, found[c])
        BY <1>2 DEF Own, CountedBut
    <2>2. x \in Events /\ (x.id = e.id => x.out <= e.out)
        BY <1>6
    <2> QED
        BY <2>1, <2>2, <1>7
<1>10. \A f \in Files : \A x \in Consumed(f, disk.state[f]) : Final(x)'
    <2> SUFFICES ASSUME NEW f \in Files, NEW x \in Consumed(f, disk.state[f])
                 PROVE  Final(x)'
        OBVIOUS
    <2>1. Final(x)
        BY <1>2 DEF CountedBut, Reached
    <2>2. x \in Events /\ (x.id = e.id => x.out <= e.out)
        BY <1>6
    <2> QED
        BY <2>1, <2>2, <1>7
<1>11. CountedBut(mem[c], found[c])' /\ CountedBut(disk.state, {})'
    BY <1>1, <1>9, <1>10 DEF CountedBut, Consumed, Final, Reached
<1>12. Raises(mem[c], found[c])' /\ Raises(disk.state, found[c])'
    BY <1>1, <1>8 DEF Raises
<1>13. Own(c)'
    BY <1>1, <1>2, <1>3, <1>11, <1>12 DEF Own
<1>14. \A d \in Collectors \ {c} : found'[d] = found[d]
    BY <1>1, <1>2 DEF TypeOK
<1> QED
    BY <1>1, <1>2, <1>11, <1>13, <1>14, OneRuns, OthersRest

\* The end of a cycle: what was found is posted, or dropped by a watch.
LEMMA EndCycleCounts ==
    ASSUME IInv, Counts, NEW c \in Collectors, pc[c] # "off", EndCycle(c),
           UNCHANGED <<lines, gen, ledger>>, dropped \subseteq dropped',
           setup.watch => \A d \in found[c] : d.id \in dropped',
           disk'.kind # "mixed", CountedBut(disk.state, {})',
           fd'[c] = "none", \A d \in Collectors \ {c} : fd'[d] = fd[d]
    PROVE  Counts'
<1>1. TypeOK /\ Own(c)
    BY DEF IInv, Counts
<1>2. /\ found'[c] = {}
      /\ IF setup.watch THEN pc'[c] = "sleep" /\ mem'[c] = mem[c]
         ELSE pc'[c] = "off" /\ mem'[c] = NoEntries
      /\ \A d \in Collectors \ {c} : /\ mem'[d] = mem[d] /\ found'[d] = found[d]
                                     /\ pc'[d] = pc[d]
    BY <1>1 DEF EndCycle, TypeOK
<1>3. Own(c)'
    <2>1. CASE ~setup.watch
        BY <2>1, <1>2, AtRest
    <2>2. CASE setup.watch
        <3>1. \A f \in Files : \A x \in Consumed(f, mem[c][f]) : Final(x)'
            BY <2>2, <1>1 DEF Own, CountedBut, Final, Reached
        <3>2. CountedBut(mem[c], found[c])'
            BY <2>2, <3>1, <1>2 DEF CountedBut, Consumed, Final
        <3>3. Raises(mem[c], found[c])' /\ Raises(disk.state, found[c])'
            BY <1>2 DEF Raises
        <3> QED
            BY <2>2, <3>2, <3>3, <1>2 DEF Own
    <2> QED
        BY <2>1, <2>2
<1> QED
    BY <1>1, <1>2, <1>3, OneRuns, OthersRest

LEMMA PostFailsCounts ==
    ASSUME IInv, Counts, NEW c \in Collectors, PostFails(c)
    PROVE  Counts'
<1>1. /\ UNCHANGED <<lines, gen, ledger, disk, tmp, fd>>
      /\ pc[c] = "post" /\ EndCycle(c)
      /\ dropped \subseteq dropped'
      /\ setup.watch => \A d \in found[c] : d.id \in dropped'
    BY DEF PostFails, agents, files
<1>2. fd'[c] = "none"
    BY <1>1 DEF Counts, Own
<1>3. disk'.kind # "mixed" /\ CountedBut(disk.state, {})'
    BY <1>1 DEF Counts, CountedBut, Consumed, Final, Reached
<1> QED
    BY <1>1, <1>2, <1>3, EndCycleCounts

LEMMA SaveWriteFailsCounts ==
    ASSUME IInv, Counts, NEW c \in Collectors, SaveWriteFails(c)
    PROVE  Counts'
<1>1. /\ UNCHANGED <<lines, gen, ledger, dropped>>
      /\ pc[c] = "write" /\ WriteTo(c, Mixed) /\ EndCycle(c)
    BY DEF SaveWriteFails, agents, history
<1>2. found[c] = {} /\ fd[c] = "tmp" /\ TypeOK
    BY <1>1 DEF IInv, PostedFirst, Counts, Own
<1>3. /\ disk' = disk /\ fd'[c] = "none"
      /\ \A d \in Collectors \ {c} : fd'[d] = fd[d]
    BY <1>1, <1>2 DEF WriteTo, TypeOK
<1>4. disk'.kind # "mixed" /\ CountedBut(disk.state, {})'
    BY <1>1, <1>3 DEF Counts, CountedBut, Consumed, Final, Reached
<1> QED
    BY <1>1, <1>2, <1>3, <1>4, EndCycleCounts

\* What is renamed is the State in memory, all of it counted.
LEMMA SaveRenameCounts ==
    ASSUME IInv, Counts, NEW c \in Collectors, SaveRename(c)
    PROVE  Counts'
<1>1. /\ UNCHANGED <<lines, gen, ledger, dropped>>
      /\ pc[c] = "rename" /\ EndCycle(c)
    BY DEF SaveRename, agents, history
<1>2. found[c] = {} /\ tmp = Whole(mem[c]) /\ CountedBut(mem[c], {}) /\ fd[c] = "none"
    BY <1>1 DEF IInv, PostedFirst, Counts, Own
<1>3. \A d \in Collectors : fd[d] = "none"
    <2>1. \A d \in Collectors \ {c} : pc[d] = "off"
        BY <1>1, OthersRest
    <2> QED
        BY <2>1, <1>2 DEF Counts, Own
<1>4. tmp # NoFile
    BY <1>2 DEF Whole, NoFile
<1>5. /\ disk' = Whole(mem[c])
      /\ fd' = [d \in Collectors |-> CASE fd[d] = "tmp" -> "state"
                                       [] fd[d] = "state" -> "gone"
                                       [] OTHER -> fd[d]]
    BY <1>2, <1>4 DEF SaveRename
<1>6. \A d \in Collectors : fd'[d] = fd[d]
    BY <1>3, <1>5
<1>7. disk'.kind # "mixed" /\ disk'.state = mem[c]
    BY <1>5 DEF Whole
<1>8. CountedBut(disk.state, {})'
    BY <1>1, <1>2, <1>7 DEF CountedBut, Consumed, Final, Reached
<1> QED
    BY <1>1, <1>2, <1>6, <1>7, <1>8, EndCycleCounts

\* The temporary file is opened and written by one collector.
LEMMA SaveCounts ==
    ASSUME IInv, Counts, NEW c \in Collectors, SaveOpen(c) \/ SaveWrite(c)
    PROVE  Counts'
<1>1. /\ UNCHANGED <<lines, gen, ledger, dropped, mem, found>>
      /\ pc[c] \in {"post", "write"}
    BY DEF SaveOpen, SaveWrite, agents, history
<1>2. TypeOK /\ Own(c) /\ disk.kind # "mixed" /\ CountedBut(disk.state, {})
    BY DEF IInv, Counts
<1>3. /\ disk' = disk
      /\ \A d \in Collectors \ {c} : pc'[d] = pc[d] /\ fd'[d] = fd[d]
      /\ \/ pc'[c] = "write" /\ fd'[c] = "tmp" /\ tmp' = Empty
         \/ pc'[c] = "rename" /\ fd'[c] = "none" /\ tmp' = Whole(mem[c])
    <2>1. CASE SaveOpen(c)
        BY <2>1, <1>2 DEF SaveOpen, TypeOK
    <2>2. CASE SaveWrite(c)
        <3>1. fd[c] = "tmp" /\ tmp = Empty
            BY <2>2, <1>2 DEF SaveWrite, Own
        <3>2. Written(c) = {Whole(mem[c])}
            BY <3>1 DEF Written, Empty
        <3>3. WriteTo(c, Whole(mem[c]))
            BY <2>2, <3>2 DEF SaveWrite
        <3> QED
            BY <2>2, <3>1, <3>3, <1>2 DEF SaveWrite, WriteTo, TypeOK
    <2> QED
        BY <2>1, <2>2
<1>4. /\ CountedBut(mem[c], found[c])' /\ Raises(mem[c], found[c])'
      /\ Raises(disk.state, found[c])'
    BY <1>1, <1>2, <1>3 DEF Own, CountedBut, Raises, Consumed, Final, Reached
<1>5. CountedBut(disk.state, {})'
    BY <1>1, <1>2, <1>3 DEF CountedBut, Consumed, Final, Reached
<1>6. Own(c)'
    BY <1>1, <1>3, <1>4 DEF Own
<1> QED
    BY <1>1, <1>2, <1>3, <1>5, <1>6, OneRuns, OthersRest

LEMMA CrashCounts ==
    ASSUME IInv, Counts, NEW c \in Collectors, Crash(c)
    PROVE  Counts'
<1>1. /\ UNCHANGED <<lines, gen, ledger, dropped, disk>>
      /\ pc[c] # "off"
      /\ pc' = [pc EXCEPT ![c] = "off"] /\ found' = [found EXCEPT ![c] = {}]
      /\ mem' = [mem EXCEPT ![c] = NoEntries] /\ fd' = [fd EXCEPT ![c] = "none"]
    BY DEF Crash, agents, history
<1>2. TypeOK
    BY DEF IInv
<1>3. Own(c)'
    <2>1. pc'[c] = "off" /\ mem'[c] = NoEntries /\ found'[c] = {} /\ fd'[c] = "none"
        BY <1>1, <1>2 DEF TypeOK
    <2> QED
        BY <2>1, AtRest
<1>4. \A d \in Collectors \ {c} : /\ pc'[d] = pc[d] /\ mem'[d] = mem[d]
                                  /\ found'[d] = found[d] /\ fd'[d] = fd[d]
    BY <1>1, <1>2 DEF TypeOK
<1>5. disk'.kind # "mixed" /\ CountedBut(disk.state, {})'
    BY <1>1 DEF Counts, CountedBut, Consumed, Final, Reached
<1> QED
    BY <1>1, <1>2, <1>3, <1>4, <1>5, OneRuns, OthersRest

LEMMA CountsNext == CountsInv /\ [Next]_vars => CountsInv'
<1> SUFFICES ASSUME CountsInv, [Next]_vars PROVE CountsInv'
    OBVIOUS
<1>1. IInv /\ IInv' /\ TypeOK /\ TypeOK' /\ AtHome /\ Growing
    BY InvNext DEF CountsInv, IInv
<1>2. CASE UNCHANGED vars
    <2>1. UNCHANGED <<lines, gen, ledger, disk, tmp, pc, mem, found, fd, overlapped,
                      dropped>>
        BY <1>2 DEF vars
    <2>2. AtHome' /\ Growing'
        BY <1>1, <2>1 DEF AtHome, Growing
    <2>3. Counts => Counts'
        BY <2>1 DEF Counts, Alone, Own, CountedBut, Raises, Consumed, Final, Reached
    <2> QED
        BY <1>1, <2>1, <2>2, <2>3 DEF CountsInv
<1>3. ASSUME NEW f \in Files, AgentStep(f) PROVE CountsInv'
    <2>1. overlapped' = overlapped
        BY <1>3 DEF AgentStep, BeginLine, Rewrite, EndLine, history
    <2> QED
        BY <1>1, <1>3, <2>1, LinesGrow, AgentCounts DEF CountsInv
<1>4. ASSUME NEW c \in Collectors, CollectorStep(c) \/ CollectorFault(c) PROVE CountsInv'
    <2>1. lines' = lines
        BY <1>4 DEF CollectorStep, CollectorFault, Start, Wake, BeginScan, Stat, StatFails,
                    Read, EndScan, PostBatch, PostUnanswered, PostFails, SaveOpen,
                    SaveWrite, SaveWriteFails, SaveRename, Crash, agents
    <2>2. overlapped => overlapped'
        BY <1>4 DEF CollectorStep, CollectorFault, Start, Wake, Stat, StatFails, Read,
                    EndScan, PostBatch, PostUnanswered, PostFails, SaveOpen, SaveWrite,
                    SaveWriteFails, SaveRename, Crash, history
    <2>3. AtHome' /\ Growing'
        BY <1>1, <2>1 DEF AtHome, Growing
    <2>4. ASSUME ~overlapped' PROVE Counts'
        <3>1. Counts
            BY <2>2, <2>4 DEF CountsInv
        <3>2. CASE CollectorStep(c)
            BY <3>1, <3>2, <2>4, <1>1, BeginCounts, ReadCounts, EndScanCounts, StoreCounts,
               SaveCounts, SaveRenameCounts
            DEF CollectorStep
        <3>3. CASE CollectorFault(c)
            BY <3>1, <3>3, <2>4, <1>1, BeginCounts, StoreCounts, PostFailsCounts,
               SaveWriteFailsCounts, CrashCounts
            DEF CollectorFault
        <3> QED
            BY <1>4, <3>2, <3>3
    <2> QED
        BY <1>1, <2>3, <2>4 DEF CountsInv
<1> QED
    BY <1>2, <1>3, <1>4 DEF Next

\* Unless collectors overlap, the server has the largest count of whatever the
\* state file says is consumed, through crashes, failed posts and repeated ones.
THEOREM CountsFinalAlways == Spec => []CountsFinalUnlessOverlapped
<1> QED
    BY CountsInit, CountsNext, CountsImply, PTL DEF Spec

\* Unless collectors overlap, LoadState can read the state file, whatever crash
\* or full disk cut a Save short.
THEOREM StateReadableAlways == Spec => []StateReadableUnlessOverlapped
<1> QED
    BY CountsInit, CountsNext, CountsImply, PTL DEF Spec

-----------------------------------------------------------------------------
(* Records and the events made of them *)

LEMMA FileBounds ==
    /\ Requests \subseteq Nat \ {0} /\ Requests # {} /\ Agents \subseteq DOMAIN Kind
    /\ LongRequests \subseteq Requests /\ StateRows \in Nat /\ DocumentLimit \in Nat
    /\ MaxRecords \in Nat /\ MaxWrites \in Nat /\ MaxScanFaults \in Nat
BY AgentFilesAssumption

AgentRecords ==
    {Record(PlaceOf(q), q, out, t) : q \in Requests, out \in {1, 2}, t \in Nat \ {0}}
    \cup {Record("long", q, out, t) : q \in Requests, out \in {1, 2}, t \in Nat \ {0}}
    \cup {Context}

\* What the agent's adapter makes of a record, when lines before it have told
\* the model.
MadeOf(r, model) ==
    CASE agent = "claude" -> ClaudeEvents(r)
      [] agent = "codex" -> CodexEvents(r, [model |-> model, cwd |-> NoText])
      [] agent = "copilot" -> CopilotEvents(r)
      [] agent = "openclaw" -> OpenClawEvents(r)
      [] agent = "qwen" -> QwenEvents(r)
      [] agent = "kimi" -> KimiEvents(r)
      [] agent = "factory-droid" -> FactoryDroidEvents(r)
      [] agent = "pi-agent" -> PiAgentEvents(r)
      [] agent = "roo" -> TaskEvents("roo", r)
      [] agent = "cline" -> TaskEvents("cline", r)
      [] agent = "kiro" -> KiroLineEvents(r)
      [] agent = "kilo" -> KiloLineEvents(r)
      [] agent = "goose" -> GooseEvents(r)
      [] agent = "hermes" -> HermesEvents(r)
      [] agent = "octofriend" -> OctofriendEvents(r)
      [] agent = "kiro-db" -> KiroRowEvents(r)
      [] agent = "kilo-db" -> KiloRowEvents(r)
      [] agent = "opencode" -> OpenCodeEvents(r)
      [] agent = "cursor-csv" -> CursorExportEvents(r)
      [] agent = "cursor-db" -> CursorRowEvents(r)
      [] agent = "zed" -> ZedEvents(r)
      [] agent = "gemini" -> GeminiEvents(r)
      [] agent = "amp" -> AmpEvents(r)
      [] agent = "crush" -> CrushEvents(r)

Models == {"m", NoText}

LEMMA RecordIs ==
    ASSUME named \in BOOLEAN, NEW r \in AgentRecords
    PROVE  /\ r.request \in Requests /\ r.request \in Nat /\ r.request # 0
           /\ r.place \in {"usage", "nested", "long", "context"}
           /\ r.place = "context" <=> r = Context
           /\ r # Context => r.place \in {PlaceOf(r.request), "long"} /\ r.block.out \in {1, 2}
           /\ r.block.out \in {0, 1, 2}
           /\ r.block.in = 2 /\ r.block.cached = CachedOf(r.request) /\ r.block.write = 1
           /\ r.block.w5 = 0 /\ r.block.w1 = 0 /\ r.block.reason = 1
           /\ r.msg = IF named THEN r.request ELSE NoId
           /\ r.rid = IF named THEN r.request ELSE NoId
           /\ r.session = IF r.place = "usage" THEN NoText ELSE "own"
           /\ r.cwd = NoText /\ r.model = "m" /\ r.time = r.request /\ r.cost = NoCost
           /\ r.created \in Nat /\ r.created # 0
<1>1. CASE r = Context
    <2>1. PICK q \in Requests : r = Record("context", q, 0, 1)
        BY <1>1, FileBounds DEF Context
    <2>2. q \in Nat /\ q # 0
        BY FileBounds
    <2> QED
        BY <1>1, <2>1, <2>2 DEF Record
<1>2. CASE r # Context
    <2>1. PICK q \in Requests, p \in {"usage", "nested", "long"}, out \in {1, 2}, t \in Nat \ {0} :
             p \in {PlaceOf(q), "long"} /\ r = Record(p, q, out, t)
        BY <1>2 DEF AgentRecords, PlaceOf
    <2>2. PlaceOf(q) \in {"usage", "nested"} /\ q \in Nat /\ q # 0
        BY FileBounds DEF PlaceOf
    <2>3. Context.place = "context"
        BY DEF Context, Record
    <2> QED
        BY <1>2, <2>1, <2>2, <2>3 DEF Record
<1> QED
    BY <1>1, <1>2

\* The event of a record that carries usage: for each agent, what it keeps of
\* the record's ids, where it has its session from, and how it counts.
LessAgents == {"codex", "openclaw", "qwen", "kimi", "pi-agent", "kiro", "kilo", "gemini"}

Told(e, r, model) ==
    /\ e.request = r.request /\ e.time = r.request /\ e.cost = NoCost
    /\ e.agent = IF agent = "kiro-db" THEN "kiro" ELSE IF agent = "kilo-db" THEN "kilo"
                 ELSE IF agent \in {"cursor-csv", "cursor-db"} THEN "cursor" ELSE agent
    /\ e.model = IF agent = "codex" THEN model ELSE "m"
    /\ e.msg = IF \/ agent \in {"codex", "goose", "hermes", "octofriend", "kiro-db", "kilo-db",
                                "cursor-csv", "cursor-db"}
                  \/ agent \in {"roo", "cline"} /\ r.place = "nested"
               THEN NoId ELSE r.msg
    /\ e.req = IF agent \in {"claude", "copilot", "openclaw", "factory-droid", "cursor-db"}
               THEN r.rid ELSE NoId
    /\ e.session = IF agent \in {"codex", "roo", "cline", "cursor-csv", "zed", "gemini", "amp", "crush"}
                   THEN "file"
                   ELSE IF kind \in {"rowid", "millis", "table"} \/ r.place # "usage"
                   THEN r.session ELSE "file"
    /\ e.tokens \in Tokens /\ e.tokens.output = r.block.out /\ e.tokens.read = r.block.cached
    /\ e.tokens.input = IF agent \in LessAgents THEN NotNegative(r.block.in - r.block.cached)
                        ELSE r.block.in

\* The counts of a block, by convention.
CountsOf(in, out, write, read, reasoning) ==
    [input |-> in, output |-> out, write5m |-> write, write1h |-> 0, read |-> read,
     reasoning |-> reasoning]

BlockFits(b) ==
    /\ b.in = 2 /\ b.out \in {0, 1, 2} /\ b.cached \in {1, 3} /\ b.write = 1
    /\ b.w5 = 0 /\ b.w1 = 0 /\ b.reason = 1

Less(b) == NotNegative(b.in - b.cached)

LEMMA CountsAre ==
    ASSUME NEW b, BlockFits(b)
    PROVE  /\ Plain(b) = CountsOf(2, b.out, 1, b.cached, 1)
           /\ Anthropic(b) = CountsOf(2, b.out, 1, b.cached, 0)
           /\ \A o, w, s : LessCached(CountsOf(2, o, w, b.cached, s)) = CountsOf(Less(b), o, w, b.cached, s)
           /\ OpenAI(b) = CountsOf(Less(b), b.out, 0, b.cached, 1)
           /\ Gemini(b) = CountsOf(Less(b), b.out, 0, b.cached, 1)
           /\ PiAgent(b) = CountsOf(Less(b), b.out, 1, b.cached, 1)
           /\ \A i, o, w, c, s : WithReasoning(CountsOf(i, o, w, c, s), b) = CountsOf(i, o, w, c, 1)
           /\ Less(b) \in {0, 1}
           /\ \A i \in {Less(b), 2}, w, s \in {0, 1} : CountsOf(i, b.out, w, b.cached, s) \in Tokens
<1>1. Less(b) \in {0, 1} /\ b.in = 2 /\ Less(b) = NotNegative(2 - b.cached)
    BY DEF BlockFits, NotNegative, Less
<1>2. Plain(b) = CountsOf(2, b.out, 1, b.cached, 1)
    BY DEF BlockFits, Plain, CountsOf
<1>3. Anthropic(b) = CountsOf(2, b.out, 1, b.cached, 0)
    <2>1. PICK t : t = [Plain(b) EXCEPT !.write5m = IF b.w5 # 0 \/ b.w1 # 0 THEN b.w5 ELSE b.write]
        OBVIOUS
    <2>2. t = CountsOf(2, b.out, 1, b.cached, 1)
        BY <1>2, <2>1 DEF BlockFits, CountsOf
    <2>3. PICK u : u = [t EXCEPT !.write1h = IF b.w5 # 0 \/ b.w1 # 0 THEN b.w1 ELSE 0]
        OBVIOUS
    <2>4. u = CountsOf(2, b.out, 1, b.cached, 1)
        BY <2>2, <2>3 DEF BlockFits, CountsOf
    <2>5. Anthropic(b) = [u EXCEPT !.reasoning = 0]
        BY <2>1, <2>3 DEF Anthropic
    <2> QED
        BY <2>4, <2>5 DEF CountsOf
<1>4. \A o, w, s : LessCached(CountsOf(2, o, w, b.cached, s)) = CountsOf(Less(b), o, w, b.cached, s)
    BY <1>1 DEF LessCached, CountsOf, Less
<1>5. OpenAI(b) = CountsOf(Less(b), b.out, 0, b.cached, 1) /\ Gemini(b) = CountsOf(Less(b), b.out, 0, b.cached, 1)
    <2>1. [Plain(b) EXCEPT !.write5m = 0] = CountsOf(2, b.out, 0, b.cached, 1)
        BY <1>2 DEF CountsOf
    <2> QED
        BY <1>4, <2>1 DEF OpenAI, Gemini
<1>6. PiAgent(b) = CountsOf(Less(b), b.out, 1, b.cached, 1)
    <2>1. [Anthropic(b) EXCEPT !.reasoning = b.reason] = CountsOf(2, b.out, 1, b.cached, 1)
        BY <1>3 DEF CountsOf, BlockFits
    <2> QED
        BY <1>4, <2>1 DEF PiAgent
<1>7. \A i, o, w, c, s : WithReasoning(CountsOf(i, o, w, c, s), b) = CountsOf(i, o, w, c, 1)
    BY DEF WithReasoning, CountsOf, BlockFits
<1>8. \A i \in {Less(b), 2}, w, s \in {0, 1} : CountsOf(i, b.out, w, b.cached, s) \in Tokens
    BY <1>1 DEF CountsOf, Tokens, BlockFits
<1> QED
    BY <1>1, <1>2, <1>3, <1>4, <1>5, <1>6, <1>7, <1>8

LEMMA PlainWithout ==
    ASSUME NEW b, BlockFits(b)
    PROVE  /\ [Plain(b) EXCEPT !.reasoning = 0] = CountsOf(2, b.out, 1, b.cached, 0)
           /\ [Plain(b) EXCEPT !.write5m = 0, !.reasoning = 0] = CountsOf(2, b.out, 0, b.cached, 0)
<1>1. PICK p : p = Plain(b)
    OBVIOUS
<1>2. p = CountsOf(2, b.out, 1, b.cached, 1)
    BY <1>1, CountsAre
<1>3. [p EXCEPT !.reasoning = 0] = CountsOf(2, b.out, 1, b.cached, 0)
    BY <1>2 DEF CountsOf
<1>4. [p EXCEPT !.write5m = 0, !.reasoning = 0] = CountsOf(2, b.out, 0, b.cached, 0)
    <2>1. PICK t : t = [p EXCEPT !.write5m = 0]
        OBVIOUS
    <2>2. t = CountsOf(2, b.out, 0, b.cached, 1)
        BY <1>2, <2>1 DEF CountsOf
    <2>3. [p EXCEPT !.write5m = 0, !.reasoning = 0] = [t EXCEPT !.reasoning = 0]
        BY <2>1
    <2>4. [t EXCEPT !.reasoning = 0] = CountsOf(2, b.out, 0, b.cached, 0)
        BY <2>2 DEF CountsOf
    <2> QED
        BY <2>3, <2>4
<1> QED
    BY <1>1, <1>3, <1>4

Made(S, r, model) ==
    /\ \A e \in S : Told(e, r, model)
    /\ \A e, g \in S : e = g
    /\ S # {} <=> Carries(r)

LEMMA EmitOne ==
    ASSUME named \in BOOLEAN, NEW accepted, NEW e, NEW r \in AgentRecords, NEW model,
           accepted <=> Carries(r), Carries(r) => Told(e, r, model)
    PROVE  Made(Emit(accepted, e), r, model)
<1>1. CASE ~accepted
    BY <1>1 DEF Emit, Made
<1>2. CASE accepted
    <2>1. e.tokens \in Tokens /\ e.tokens.read = CachedOf(r.request) /\ Told(e, r, model)
        BY <1>2, RecordIs DEF Told
    <2>2. CachedOf(r.request) \in {1, 3}
        BY DEF CachedOf
    <2>3. Total(e.tokens) > 0
        BY <2>1, <2>2 DEF Tokens, Total
    <2>4. Emit(accepted, e) = {e}
        BY <1>2, <2>3 DEF Emit, HasUsage
    <2> QED
        BY <1>2, <2>1, <2>4 DEF Made
<1> QED
    BY <1>1, <1>2

LEMMA BlockIs ==
    ASSUME named \in BOOLEAN, NEW r \in AgentRecords
    PROVE  BlockFits(r.block)
BY RecordIs DEF BlockFits, CachedOf

\* The event of a line.
LEMMA MadeIsLines ==
    ASSUME named \in BOOLEAN, NEW r \in AgentRecords, NEW model \in Models,
           agent \in {"claude", "codex", "copilot", "openclaw", "qwen", "kimi", "factory-droid", "pi-agent", "kiro", "kilo"}
    PROVE  Made(MadeOf(r, model), r, model)
<1>1. CASE agent = "claude"
    <2>1. PICK t : t = Anthropic(r.block)
        OBVIOUS
    <2>2. t = CountsOf(2, r.block.out, 1, r.block.cached, 0) /\ t \in Tokens
        BY <2>1, BlockIs, CountsAre
    <2>4. PICK e : e = [Event("claude", r) EXCEPT !.req = r.rid, !.cost = r.cost]
        OBVIOUS
    <2>5. /\ e.request = r.request /\ e.time = r.time /\ e.cost = r.cost
          /\ e.agent = "claude" /\ e.model = r.model /\ e.msg = r.msg /\ e.req = r.rid
          /\ e.tokens = t /\ e.session = Or(r.session, "file")
        BY <2>1, <2>4 DEF Event, Around
    <2>6. /\ e.tokens.output = r.block.out /\ e.tokens.read = r.block.cached
          /\ e.tokens.input = 2
        BY <2>2, <2>5 DEF CountsOf
    <2>7. kind = "lines" /\ Less(r.block) = NotNegative(r.block.in - r.block.cached)
          /\ r.block.in = 2
        BY <1>1, RecordIs DEF kind, Kind, Less
    <2>8. Here(r) <=> Carries(r)
        BY <1>1 DEF Carries, Here
    <2>9. Carries(r) => Told(e, r, model)
        BY <1>1, <2>2, <2>5, <2>6, <2>7, <2>8, RecordIs
           DEF Told, LessAgents, Or, OrTime, NoText, NoTime, Here
    <2>10. MadeOf(r, model) = Emit(Here(r), e)
        BY <1>1, <2>4 DEF MadeOf, ClaudeEvents
    <2> QED
        BY <2>8, <2>9, <2>10, EmitOne
<1>2. CASE agent = "codex"
    <2>1. PICK t : t = OpenAI(r.block)
        OBVIOUS
    <2>2. t = CountsOf(Less(r.block), r.block.out, 0, r.block.cached, 1) /\ t \in Tokens
        BY <2>1, BlockIs, CountsAre
    <2>4. PICK e : e = [Event("codex", r) EXCEPT 
            !.msg = NoId, !.session = Around.session, !.model = model,
            !.project = Or(NoText, Around.project), !.tokens = OpenAI(r.block)]
        OBVIOUS
    <2>5. /\ e.request = r.request /\ e.time = r.time /\ e.cost = NoCost
          /\ e.agent = "codex" /\ e.model = model /\ e.msg = NoId /\ e.req = NoId
          /\ e.tokens = t /\ e.session = "file"
        BY <2>1, <2>4 DEF Event, Around
    <2>6. /\ e.tokens.output = r.block.out /\ e.tokens.read = r.block.cached
          /\ e.tokens.input = Less(r.block)
        BY <2>2, <2>5 DEF CountsOf
    <2>7. kind = "lines" /\ Less(r.block) = NotNegative(r.block.in - r.block.cached)
          /\ r.block.in = 2
        BY <1>2, RecordIs DEF kind, Kind, Less
    <2>8. Here(r) <=> Carries(r)
        BY <1>2 DEF Carries, Here
    <2>9. Carries(r) => Told(e, r, model)
        BY <1>2, <2>2, <2>5, <2>6, <2>7, <2>8, RecordIs
           DEF Told, LessAgents, Or, OrTime, NoText, NoTime, Here
    <2>10. MadeOf(r, model) = Emit(Here(r), e)
        BY <1>2, <2>4 DEF MadeOf, CodexEvents
    <2> QED
        BY <2>8, <2>9, <2>10, EmitOne
<1>3. CASE agent = "copilot"
    <2>1. PICK t : t = Plain(r.block)
        OBVIOUS
    <2>2. t = CountsOf(2, r.block.out, 1, r.block.cached, 1) /\ t \in Tokens
        BY <2>1, BlockIs, CountsAre
    <2>4. PICK e : e = [Event("copilot", r) EXCEPT 
            !.req = r.rid, !.project = Around.project, !.tokens = Plain(r.block)]
        OBVIOUS
    <2>5. /\ e.request = r.request /\ e.time = r.time /\ e.cost = NoCost
          /\ e.agent = "copilot" /\ e.model = r.model /\ e.msg = r.msg /\ e.req = r.rid
          /\ e.tokens = t /\ e.session = Or(r.session, "file")
        BY <2>1, <2>4 DEF Event, Around
    <2>6. /\ e.tokens.output = r.block.out /\ e.tokens.read = r.block.cached
          /\ e.tokens.input = 2
        BY <2>2, <2>5 DEF CountsOf
    <2>7. kind = "lines" /\ Less(r.block) = NotNegative(r.block.in - r.block.cached)
          /\ r.block.in = 2
        BY <1>3, RecordIs DEF kind, Kind, Less
    <2>8. Here(r) <=> Carries(r)
        BY <1>3 DEF Carries, Here
    <2>9. Carries(r) => Told(e, r, model)
        BY <1>3, <2>2, <2>5, <2>6, <2>7, <2>8, RecordIs
           DEF Told, LessAgents, Or, OrTime, NoText, NoTime, Here
    <2>10. MadeOf(r, model) = Emit(Here(r), e)
        BY <1>3, <2>4 DEF MadeOf, CopilotEvents
    <2> QED
        BY <2>8, <2>9, <2>10, EmitOne
<1>4. CASE agent = "openclaw"
    <2>1. PICK t : t = WithReasoning(LessCached(Anthropic(r.block)), r.block)
        OBVIOUS
    <2>2. t = CountsOf(Less(r.block), r.block.out, 1, r.block.cached, 1) /\ t \in Tokens
        BY <2>1, BlockIs, CountsAre
    <2>4. PICK e : e = [Event("openclaw", r) EXCEPT 
            !.req = r.rid, !.tokens = WithReasoning(LessCached(Anthropic(r.block)), r.block)]
        OBVIOUS
    <2>5. /\ e.request = r.request /\ e.time = r.time /\ e.cost = NoCost
          /\ e.agent = "openclaw" /\ e.model = r.model /\ e.msg = r.msg /\ e.req = r.rid
          /\ e.tokens = t /\ e.session = Or(r.session, "file")
        BY <2>1, <2>4 DEF Event, Around
    <2>6. /\ e.tokens.output = r.block.out /\ e.tokens.read = r.block.cached
          /\ e.tokens.input = Less(r.block)
        BY <2>2, <2>5 DEF CountsOf
    <2>7. kind = "lines" /\ Less(r.block) = NotNegative(r.block.in - r.block.cached)
          /\ r.block.in = 2
        BY <1>4, RecordIs DEF kind, Kind, Less
    <2>8. Here(r) <=> Carries(r)
        BY <1>4 DEF Carries, Here
    <2>9. Carries(r) => Told(e, r, model)
        BY <1>4, <2>2, <2>5, <2>6, <2>7, <2>8, RecordIs
           DEF Told, LessAgents, Or, OrTime, NoText, NoTime, Here
    <2>10. MadeOf(r, model) = Emit(Here(r), e)
        BY <1>4, <2>4 DEF MadeOf, OpenClawEvents
    <2> QED
        BY <2>8, <2>9, <2>10, EmitOne
<1>5. CASE agent = "qwen"
    <2>1. PICK t : t = Gemini(r.block)
        OBVIOUS
    <2>2. t = CountsOf(Less(r.block), r.block.out, 0, r.block.cached, 1) /\ t \in Tokens
        BY <2>1, BlockIs, CountsAre
    <2>4. PICK e : e = [Event("qwen", r) EXCEPT !.tokens = Gemini(r.block)]
        OBVIOUS
    <2>5. /\ e.request = r.request /\ e.time = r.time /\ e.cost = NoCost
          /\ e.agent = "qwen" /\ e.model = r.model /\ e.msg = r.msg /\ e.req = NoId
          /\ e.tokens = t /\ e.session = Or(r.session, "file")
        BY <2>1, <2>4 DEF Event, Around
    <2>6. /\ e.tokens.output = r.block.out /\ e.tokens.read = r.block.cached
          /\ e.tokens.input = Less(r.block)
        BY <2>2, <2>5 DEF CountsOf
    <2>7. kind = "lines" /\ Less(r.block) = NotNegative(r.block.in - r.block.cached)
          /\ r.block.in = 2
        BY <1>5, RecordIs DEF kind, Kind, Less
    <2>8. Anywhere(r) <=> Carries(r)
        BY <1>5 DEF Carries, Anywhere
    <2>9. Carries(r) => Told(e, r, model)
        BY <1>5, <2>2, <2>5, <2>6, <2>7, <2>8, RecordIs
           DEF Told, LessAgents, Or, OrTime, NoText, NoTime, Here
    <2>10. MadeOf(r, model) = Emit(Anywhere(r), e)
        BY <1>5, <2>4 DEF MadeOf, QwenEvents
    <2> QED
        BY <2>8, <2>9, <2>10, EmitOne
<1>6. CASE agent = "kimi"
    <2>1. PICK t : t = OpenAI(r.block)
        OBVIOUS
    <2>2. t = CountsOf(Less(r.block), r.block.out, 0, r.block.cached, 1) /\ t \in Tokens
        BY <2>1, BlockIs, CountsAre
    <2>4. PICK e : e = [Event("kimi", r) EXCEPT !.tokens = OpenAI(r.block)]
        OBVIOUS
    <2>5. /\ e.request = r.request /\ e.time = r.time /\ e.cost = NoCost
          /\ e.agent = "kimi" /\ e.model = r.model /\ e.msg = r.msg /\ e.req = NoId
          /\ e.tokens = t /\ e.session = Or(r.session, "file")
        BY <2>1, <2>4 DEF Event, Around
    <2>6. /\ e.tokens.output = r.block.out /\ e.tokens.read = r.block.cached
          /\ e.tokens.input = Less(r.block)
        BY <2>2, <2>5 DEF CountsOf
    <2>7. kind = "lines" /\ Less(r.block) = NotNegative(r.block.in - r.block.cached)
          /\ r.block.in = 2
        BY <1>6, RecordIs DEF kind, Kind, Less
    <2>8. Here(r) <=> Carries(r)
        BY <1>6 DEF Carries, Here
    <2>9. Carries(r) => Told(e, r, model)
        BY <1>6, <2>2, <2>5, <2>6, <2>7, <2>8, RecordIs
           DEF Told, LessAgents, Or, OrTime, NoText, NoTime, Here
    <2>10. MadeOf(r, model) = Emit(Here(r), e)
        BY <1>6, <2>4 DEF MadeOf, KimiEvents
    <2> QED
        BY <2>8, <2>9, <2>10, EmitOne
<1>7. CASE agent = "factory-droid"
    <2>1. PICK t : t = WithReasoning(Anthropic(r.block), r.block)
        OBVIOUS
    <2>2. t = CountsOf(2, r.block.out, 1, r.block.cached, 1) /\ t \in Tokens
        BY <2>1, BlockIs, CountsAre
    <2>4. PICK e : e = [Event("factory-droid", r) EXCEPT 
            !.req = r.rid, !.cost = r.cost,
            !.tokens = WithReasoning(Anthropic(r.block), r.block)]
        OBVIOUS
    <2>5. /\ e.request = r.request /\ e.time = r.time /\ e.cost = r.cost
          /\ e.agent = "factory-droid" /\ e.model = r.model /\ e.msg = r.msg /\ e.req = r.rid
          /\ e.tokens = t /\ e.session = Or(r.session, "file")
        BY <2>1, <2>4 DEF Event, Around
    <2>6. /\ e.tokens.output = r.block.out /\ e.tokens.read = r.block.cached
          /\ e.tokens.input = 2
        BY <2>2, <2>5 DEF CountsOf
    <2>7. kind = "lines" /\ Less(r.block) = NotNegative(r.block.in - r.block.cached)
          /\ r.block.in = 2
        BY <1>7, RecordIs DEF kind, Kind, Less
    <2>8. Here(r) <=> Carries(r)
        BY <1>7 DEF Carries, Here
    <2>9. Carries(r) => Told(e, r, model)
        BY <1>7, <2>2, <2>5, <2>6, <2>7, <2>8, RecordIs
           DEF Told, LessAgents, Or, OrTime, NoText, NoTime, Here
    <2>10. MadeOf(r, model) = Emit(Here(r), e)
        BY <1>7, <2>4 DEF MadeOf, FactoryDroidEvents
    <2> QED
        BY <2>8, <2>9, <2>10, EmitOne
<1>8. CASE agent = "pi-agent"
    <2>1. PICK t : t = PiAgent(r.block)
        OBVIOUS
    <2>2. t = CountsOf(Less(r.block), r.block.out, 1, r.block.cached, 1) /\ t \in Tokens
        BY <2>1, BlockIs, CountsAre
    <2>4. PICK e : e = [Event("pi-agent", r) EXCEPT !.cost = r.cost, !.tokens = PiAgent(r.block)]
        OBVIOUS
    <2>5. /\ e.request = r.request /\ e.time = r.time /\ e.cost = r.cost
          /\ e.agent = "pi-agent" /\ e.model = r.model /\ e.msg = r.msg /\ e.req = NoId
          /\ e.tokens = t /\ e.session = Or(r.session, "file")
        BY <2>1, <2>4 DEF Event, Around
    <2>6. /\ e.tokens.output = r.block.out /\ e.tokens.read = r.block.cached
          /\ e.tokens.input = Less(r.block)
        BY <2>2, <2>5 DEF CountsOf
    <2>7. kind = "lines" /\ Less(r.block) = NotNegative(r.block.in - r.block.cached)
          /\ r.block.in = 2
        BY <1>8, RecordIs DEF kind, Kind, Less
    <2>8. Here(r) <=> Carries(r)
        BY <1>8 DEF Carries, Here
    <2>9. Carries(r) => Told(e, r, model)
        BY <1>8, <2>2, <2>5, <2>6, <2>7, <2>8, RecordIs
           DEF Told, LessAgents, Or, OrTime, NoText, NoTime, Here
    <2>10. MadeOf(r, model) = Emit(Here(r), e)
        BY <1>8, <2>4 DEF MadeOf, PiAgentEvents
    <2> QED
        BY <2>8, <2>9, <2>10, EmitOne
<1>9. CASE agent = "kiro"
    <2>1. PICK t : t = LessCached(Anthropic(r.block))
        OBVIOUS
    <2>2. t = CountsOf(Less(r.block), r.block.out, 1, r.block.cached, 0) /\ t \in Tokens
        BY <2>1, BlockIs, CountsAre
    <2>4. PICK e : e = [Event("kiro", r) EXCEPT 
            !.project = NoText, !.tokens = LessCached(Anthropic(r.block))]
        OBVIOUS
    <2>5. /\ e.request = r.request /\ e.time = r.time /\ e.cost = NoCost
          /\ e.agent = "kiro" /\ e.model = r.model /\ e.msg = r.msg /\ e.req = NoId
          /\ e.tokens = t /\ e.session = Or(r.session, "file")
        BY <2>1, <2>4 DEF Event, Around
    <2>6. /\ e.tokens.output = r.block.out /\ e.tokens.read = r.block.cached
          /\ e.tokens.input = Less(r.block)
        BY <2>2, <2>5 DEF CountsOf
    <2>7. kind = "lines" /\ Less(r.block) = NotNegative(r.block.in - r.block.cached)
          /\ r.block.in = 2
        BY <1>9, RecordIs DEF kind, Kind, Less
    <2>8. Anywhere(r) <=> Carries(r)
        BY <1>9 DEF Carries, Anywhere
    <2>9. Carries(r) => Told(e, r, model)
        BY <1>9, <2>2, <2>5, <2>6, <2>7, <2>8, RecordIs
           DEF Told, LessAgents, Or, OrTime, NoText, NoTime, Here
    <2>10. MadeOf(r, model) = Emit(Anywhere(r), e)
        BY <1>9, <2>4 DEF MadeOf, KiroLineEvents
    <2> QED
        BY <2>8, <2>9, <2>10, EmitOne
<1>10. CASE agent = "kilo"
    <2>1. PICK t : t = LessCached(Anthropic(r.block))
        OBVIOUS
    <2>2. t = CountsOf(Less(r.block), r.block.out, 1, r.block.cached, 0) /\ t \in Tokens
        BY <2>1, BlockIs, CountsAre
    <2>4. PICK e : e = [Event("kilo", r) EXCEPT 
            !.project = NoText, !.tokens = LessCached(Anthropic(r.block))]
        OBVIOUS
    <2>5. /\ e.request = r.request /\ e.time = r.time /\ e.cost = NoCost
          /\ e.agent = "kilo" /\ e.model = r.model /\ e.msg = r.msg /\ e.req = NoId
          /\ e.tokens = t /\ e.session = Or(r.session, "file")
        BY <2>1, <2>4 DEF Event, Around
    <2>6. /\ e.tokens.output = r.block.out /\ e.tokens.read = r.block.cached
          /\ e.tokens.input = Less(r.block)
        BY <2>2, <2>5 DEF CountsOf
    <2>7. kind = "lines" /\ Less(r.block) = NotNegative(r.block.in - r.block.cached)
          /\ r.block.in = 2
        BY <1>10, RecordIs DEF kind, Kind, Less
    <2>8. Anywhere(r) <=> Carries(r)
        BY <1>10 DEF Carries, Anywhere
    <2>9. Carries(r) => Told(e, r, model)
        BY <1>10, <2>2, <2>5, <2>6, <2>7, <2>8, RecordIs
           DEF Told, LessAgents, Or, OrTime, NoText, NoTime, Here
    <2>10. MadeOf(r, model) = Emit(Anywhere(r), e)
        BY <1>10, <2>4 DEF MadeOf, KiloLineEvents
    <2> QED
        BY <2>8, <2>9, <2>10, EmitOne
<1> QED
    BY <1>1, <1>2, <1>3, <1>4, <1>5, <1>6, <1>7, <1>8, <1>9, <1>10

\* A message of Roo or Cline has its id; a request that started has none.
LEMMA MadeIsTask ==
    ASSUME named \in BOOLEAN, NEW r \in AgentRecords, NEW model \in Models, NEW a, a = agent,
           a \in {"roo", "cline"}
    PROVE  Made(MadeOf(r, model), r, model)
<1>1. PICK e : e = [Event(a, r) EXCEPT
                        !.session = Around.session, !.project = Around.project, !.cost = r.cost]
    OBVIOUS
<1>2. PICK g : g = [e EXCEPT !.msg = NoId, !.tokens = [Plain(r.block) EXCEPT !.reasoning = 0]]
    OBVIOUS
<1>3. PICK t : t = Anthropic(r.block)
    OBVIOUS
<1>4. PICK u : u = [Plain(r.block) EXCEPT !.reasoning = 0]
    OBVIOUS
<1>5. /\ t = CountsOf(2, r.block.out, 1, r.block.cached, 0) /\ u = t /\ t \in Tokens
    BY <1>3, <1>4, BlockIs, CountsAre, PlainWithout
<1>6. /\ e.request = r.request /\ e.time = r.time /\ e.cost = r.cost /\ e.agent = a
      /\ e.model = r.model /\ e.msg = r.msg /\ e.req = NoId /\ e.tokens = t /\ e.session = "file"
    BY <1>1, <1>3 DEF Event, Around
<1>7. /\ g.request = r.request /\ g.time = r.time /\ g.cost = r.cost /\ g.agent = a
      /\ g.model = r.model /\ g.msg = NoId /\ g.req = NoId /\ g.tokens = u /\ g.session = "file"
    BY <1>1, <1>2, <1>4 DEF Event, Around
<1>8. /\ t.output = r.block.out /\ t.read = r.block.cached /\ t.input = 2
    BY <1>5 DEF CountsOf
<1>9. /\ kind = "lines" /\ r.block.in = 2
      /\ Here(r) <=> r.place = "usage"
      /\ Anywhere(r) <=> Carries(r)
      /\ Here(r) => Carries(r)
    BY RecordIs DEF kind, Kind, Here, Anywhere, Carries
<1>10. Here(r) => Told(e, r, model)
    BY <1>5, <1>6, <1>8, <1>9, RecordIs DEF Told, LessAgents
<1>11. Carries(r) /\ ~Here(r) => Told(g, r, model)
    BY <1>5, <1>7, <1>8, <1>9, RecordIs DEF Told, LessAgents, Carries
<1>12. MadeOf(r, model) = IF Here(r) THEN Emit(TRUE, e) ELSE Emit(Anywhere(r), g)
    BY <1>1, <1>2 DEF MadeOf, TaskEvents
<1>13. CASE Here(r)
    BY <1>9, <1>10, <1>12, <1>13, EmitOne
<1>14. CASE ~Here(r)
    BY <1>9, <1>11, <1>12, <1>14, EmitOne
<1> QED
    BY <1>13, <1>14

\* The event of a row of a database or an export.
LEMMA MadeIsRows ==
    ASSUME named \in BOOLEAN, NEW r \in AgentRecords, NEW model \in Models,
           agent \in {"goose", "hermes", "octofriend", "kiro-db", "kilo-db", "opencode", "cursor-csv", "cursor-db"}
    PROVE  Made(MadeOf(r, model), r, model)
<1>1. CASE agent = "goose"
    <2>1. PICK t : t = [Plain(r.block) EXCEPT !.write5m = 0, !.reasoning = 0]
        OBVIOUS
    <2>2. t = CountsOf(2, r.block.out, 0, r.block.cached, 0) /\ t \in Tokens
        BY <2>1, BlockIs, CountsAre, PlainWithout
    <2>3. PICK p : p = RowEvent("goose", r)
        OBVIOUS
    <2>4. PICK e : e = [p EXCEPT 
            !.tokens = [Plain(r.block) EXCEPT !.write5m = 0, !.reasoning = 0]]
        OBVIOUS
    <2>5. /\ e.request = r.request /\ e.time = r.time /\ e.cost = NoCost
          /\ e.agent = "goose" /\ e.model = r.model /\ e.msg = NoId /\ e.req = NoId
          /\ e.tokens = t /\ e.session = r.session
        BY <2>1, <2>3, <2>4 DEF Event, Around, RowEvent
    <2>6. /\ e.tokens.output = r.block.out /\ e.tokens.read = r.block.cached
          /\ e.tokens.input = 2
        BY <2>2, <2>5 DEF CountsOf
    <2>7. kind = "rowid" /\ Less(r.block) = NotNegative(r.block.in - r.block.cached)
          /\ r.block.in = 2
        BY <1>1, RecordIs DEF kind, Kind, Less
    <2>8. Anywhere(r) <=> Carries(r)
        BY <1>1 DEF Carries, Anywhere
    <2>9. Carries(r) => Told(e, r, model)
        BY <1>1, <2>2, <2>5, <2>6, <2>7, <2>8, RecordIs
           DEF Told, LessAgents, Or, OrTime, NoText, NoTime, Here
    <2>10. MadeOf(r, model) = Emit(Anywhere(r), e)
        BY <1>1, <2>3, <2>4 DEF MadeOf, GooseEvents
    <2> QED
        BY <2>8, <2>9, <2>10, EmitOne
<1>2. CASE agent = "hermes"
    <2>1. PICK t : t = Plain(r.block)
        OBVIOUS
    <2>2. t = CountsOf(2, r.block.out, 1, r.block.cached, 1) /\ t \in Tokens
        BY <2>1, BlockIs, CountsAre
    <2>4. PICK e : e = RowEvent("hermes", r)
        OBVIOUS
    <2>5. /\ e.request = r.request /\ e.time = r.time /\ e.cost = NoCost
          /\ e.agent = "hermes" /\ e.model = r.model /\ e.msg = NoId /\ e.req = NoId
          /\ e.tokens = t /\ e.session = r.session
        BY <2>1, <2>4 DEF Event, Around, RowEvent
    <2>6. /\ e.tokens.output = r.block.out /\ e.tokens.read = r.block.cached
          /\ e.tokens.input = 2
        BY <2>2, <2>5 DEF CountsOf
    <2>7. kind = "rowid" /\ Less(r.block) = NotNegative(r.block.in - r.block.cached)
          /\ r.block.in = 2
        BY <1>2, RecordIs DEF kind, Kind, Less
    <2>8. Anywhere(r) <=> Carries(r)
        BY <1>2 DEF Carries, Anywhere
    <2>9. Carries(r) => Told(e, r, model)
        BY <1>2, <2>2, <2>5, <2>6, <2>7, <2>8, RecordIs
           DEF Told, LessAgents, Or, OrTime, NoText, NoTime, Here
    <2>10. MadeOf(r, model) = Emit(Anywhere(r), e)
        BY <1>2, <2>4 DEF MadeOf, HermesEvents
    <2> QED
        BY <2>8, <2>9, <2>10, EmitOne
<1>3. CASE agent = "octofriend"
    <2>1. PICK t : t = Plain(r.block)
        OBVIOUS
    <2>2. t = CountsOf(2, r.block.out, 1, r.block.cached, 1) /\ t \in Tokens
        BY <2>1, BlockIs, CountsAre
    <2>4. PICK e : e = RowEvent("octofriend", r)
        OBVIOUS
    <2>5. /\ e.request = r.request /\ e.time = r.time /\ e.cost = NoCost
          /\ e.agent = "octofriend" /\ e.model = r.model /\ e.msg = NoId /\ e.req = NoId
          /\ e.tokens = t /\ e.session = r.session
        BY <2>1, <2>4 DEF Event, Around, RowEvent
    <2>6. /\ e.tokens.output = r.block.out /\ e.tokens.read = r.block.cached
          /\ e.tokens.input = 2
        BY <2>2, <2>5 DEF CountsOf
    <2>7. kind = "rowid" /\ Less(r.block) = NotNegative(r.block.in - r.block.cached)
          /\ r.block.in = 2
        BY <1>3, RecordIs DEF kind, Kind, Less
    <2>8. Anywhere(r) <=> Carries(r)
        BY <1>3 DEF Carries, Anywhere
    <2>9. Carries(r) => Told(e, r, model)
        BY <1>3, <2>2, <2>5, <2>6, <2>7, <2>8, RecordIs
           DEF Told, LessAgents, Or, OrTime, NoText, NoTime, Here
    <2>10. MadeOf(r, model) = Emit(Anywhere(r), e)
        BY <1>3, <2>4 DEF MadeOf, OctofriendEvents
    <2> QED
        BY <2>8, <2>9, <2>10, EmitOne
<1>4. CASE agent = "kiro-db"
    <2>1. PICK t : t = Plain(r.block)
        OBVIOUS
    <2>2. t = CountsOf(2, r.block.out, 1, r.block.cached, 1) /\ t \in Tokens
        BY <2>1, BlockIs, CountsAre
    <2>4. PICK e : e = RowEvent("kiro", r)
        OBVIOUS
    <2>5. /\ e.request = r.request /\ e.time = r.time /\ e.cost = NoCost
          /\ e.agent = "kiro" /\ e.model = r.model /\ e.msg = NoId /\ e.req = NoId
          /\ e.tokens = t /\ e.session = r.session
        BY <2>1, <2>4 DEF Event, Around, RowEvent
    <2>6. /\ e.tokens.output = r.block.out /\ e.tokens.read = r.block.cached
          /\ e.tokens.input = 2
        BY <2>2, <2>5 DEF CountsOf
    <2>7. kind = "rowid" /\ Less(r.block) = NotNegative(r.block.in - r.block.cached)
          /\ r.block.in = 2
        BY <1>4, RecordIs DEF kind, Kind, Less
    <2>8. Anywhere(r) <=> Carries(r)
        BY <1>4 DEF Carries, Anywhere
    <2>9. Carries(r) => Told(e, r, model)
        BY <1>4, <2>2, <2>5, <2>6, <2>7, <2>8, RecordIs
           DEF Told, LessAgents, Or, OrTime, NoText, NoTime, Here
    <2>10. MadeOf(r, model) = Emit(Anywhere(r), e)
        BY <1>4, <2>4 DEF MadeOf, KiroRowEvents
    <2> QED
        BY <2>8, <2>9, <2>10, EmitOne
<1>5. CASE agent = "kilo-db"
    <2>1. PICK t : t = Plain(r.block)
        OBVIOUS
    <2>2. t = CountsOf(2, r.block.out, 1, r.block.cached, 1) /\ t \in Tokens
        BY <2>1, BlockIs, CountsAre
    <2>4. PICK e : e = RowEvent("kilo", r)
        OBVIOUS
    <2>5. /\ e.request = r.request /\ e.time = r.time /\ e.cost = NoCost
          /\ e.agent = "kilo" /\ e.model = r.model /\ e.msg = NoId /\ e.req = NoId
          /\ e.tokens = t /\ e.session = r.session
        BY <2>1, <2>4 DEF Event, Around, RowEvent
    <2>6. /\ e.tokens.output = r.block.out /\ e.tokens.read = r.block.cached
          /\ e.tokens.input = 2
        BY <2>2, <2>5 DEF CountsOf
    <2>7. kind = "rowid" /\ Less(r.block) = NotNegative(r.block.in - r.block.cached)
          /\ r.block.in = 2
        BY <1>5, RecordIs DEF kind, Kind, Less
    <2>8. Anywhere(r) <=> Carries(r)
        BY <1>5 DEF Carries, Anywhere
    <2>9. Carries(r) => Told(e, r, model)
        BY <1>5, <2>2, <2>5, <2>6, <2>7, <2>8, RecordIs
           DEF Told, LessAgents, Or, OrTime, NoText, NoTime, Here
    <2>10. MadeOf(r, model) = Emit(Anywhere(r), e)
        BY <1>5, <2>4 DEF MadeOf, KiloRowEvents
    <2> QED
        BY <2>8, <2>9, <2>10, EmitOne
<1>6. CASE agent = "opencode"
    <2>1. PICK t : t = Plain(r.block)
        OBVIOUS
    <2>2. t = CountsOf(2, r.block.out, 1, r.block.cached, 1) /\ t \in Tokens
        BY <2>1, BlockIs, CountsAre
    <2>3. PICK p : p = RowEvent("opencode", r)
        OBVIOUS
    <2>4. PICK e : e = [p EXCEPT 
            !.msg = r.msg, !.project = r.cwd, !.cost = r.cost,
            !.time = OrTime(r.time, r.created)]
        OBVIOUS
    <2>5. /\ e.request = r.request /\ e.time = OrTime(r.time, r.created) /\ e.cost = r.cost
          /\ e.agent = "opencode" /\ e.model = r.model /\ e.msg = r.msg /\ e.req = NoId
          /\ e.tokens = t /\ e.session = r.session
        BY <2>1, <2>3, <2>4 DEF Event, Around, RowEvent
    <2>6. /\ e.tokens.output = r.block.out /\ e.tokens.read = r.block.cached
          /\ e.tokens.input = 2
        BY <2>2, <2>5 DEF CountsOf
    <2>7. kind = "millis" /\ Less(r.block) = NotNegative(r.block.in - r.block.cached)
          /\ r.block.in = 2
        BY <1>6, RecordIs DEF kind, Kind, Less
    <2>8. Here(r) <=> Carries(r)
        BY <1>6 DEF Carries, Here
    <2>9. Carries(r) => Told(e, r, model)
        BY <1>6, <2>2, <2>5, <2>6, <2>7, <2>8, RecordIs
           DEF Told, LessAgents, Or, OrTime, NoText, NoTime, Here
    <2>10. MadeOf(r, model) = Emit(Here(r), e)
        BY <1>6, <2>3, <2>4 DEF MadeOf, OpenCodeEvents
    <2> QED
        BY <2>8, <2>9, <2>10, EmitOne
<1>7. CASE agent = "cursor-csv"
    <2>1. PICK t : t = [Plain(r.block) EXCEPT !.reasoning = 0]
        OBVIOUS
    <2>2. t = CountsOf(2, r.block.out, 1, r.block.cached, 0) /\ t \in Tokens
        BY <2>1, BlockIs, CountsAre, PlainWithout
    <2>3. PICK p : p = RowEvent("cursor", r)
        OBVIOUS
    <2>4. PICK e : e = [p EXCEPT 
            !.session = Around.session, !.cost = r.cost,
            !.tokens = [Plain(r.block) EXCEPT !.reasoning = 0]]
        OBVIOUS
    <2>5. /\ e.request = r.request /\ e.time = r.time /\ e.cost = r.cost
          /\ e.agent = "cursor" /\ e.model = r.model /\ e.msg = NoId /\ e.req = NoId
          /\ e.tokens = t /\ e.session = "file"
        BY <2>1, <2>3, <2>4 DEF Event, Around, RowEvent
    <2>6. /\ e.tokens.output = r.block.out /\ e.tokens.read = r.block.cached
          /\ e.tokens.input = 2
        BY <2>2, <2>5 DEF CountsOf
    <2>7. kind = "count" /\ Less(r.block) = NotNegative(r.block.in - r.block.cached)
          /\ r.block.in = 2
        BY <1>7, RecordIs DEF kind, Kind, Less
    <2>8. Here(r) <=> Carries(r)
        BY <1>7 DEF Carries, Here
    <2>9. Carries(r) => Told(e, r, model)
        BY <1>7, <2>2, <2>5, <2>6, <2>7, <2>8, RecordIs
           DEF Told, LessAgents, Or, OrTime, NoText, NoTime, Here
    <2>10. MadeOf(r, model) = Emit(Here(r), e)
        BY <1>7, <2>3, <2>4 DEF MadeOf, CursorExportEvents
    <2> QED
        BY <2>8, <2>9, <2>10, EmitOne
<1>8. CASE agent = "cursor-db"
    <2>1. PICK t : t = [Plain(r.block) EXCEPT !.reasoning = 0]
        OBVIOUS
    <2>2. t = CountsOf(2, r.block.out, 1, r.block.cached, 0) /\ t \in Tokens
        BY <2>1, BlockIs, CountsAre, PlainWithout
    <2>3. PICK p : p = RowEvent("cursor", r)
        OBVIOUS
    <2>4. PICK e : e = [p EXCEPT 
            !.req = r.rid, !.session = NoText, !.cost = r.cost,
            !.tokens = [Plain(r.block) EXCEPT !.reasoning = 0]]
        OBVIOUS
    <2>5. /\ e.request = r.request /\ e.time = r.time /\ e.cost = r.cost
          /\ e.agent = "cursor" /\ e.model = r.model /\ e.msg = NoId /\ e.req = r.rid
          /\ e.tokens = t /\ e.session = NoText
        BY <2>1, <2>3, <2>4 DEF Event, Around, RowEvent
    <2>6. /\ e.tokens.output = r.block.out /\ e.tokens.read = r.block.cached
          /\ e.tokens.input = 2
        BY <2>2, <2>5 DEF CountsOf
    <2>7. kind = "table" /\ Less(r.block) = NotNegative(r.block.in - r.block.cached)
          /\ r.block.in = 2
        BY <1>8, RecordIs DEF kind, Kind, Less
    <2>8. Here(r) <=> Carries(r)
        BY <1>8 DEF Carries, Here
    <2>9. Carries(r) => Told(e, r, model)
        BY <1>8, <2>2, <2>5, <2>6, <2>7, <2>8, RecordIs
           DEF Told, LessAgents, Or, OrTime, NoText, NoTime, Here
    <2>10. MadeOf(r, model) = Emit(Here(r), e)
        BY <1>8, <2>3, <2>4 DEF MadeOf, CursorRowEvents
    <2> QED
        BY <2>8, <2>9, <2>10, EmitOne
<1> QED
    BY <1>1, <1>2, <1>3, <1>4, <1>5, <1>6, <1>7, <1>8

\* The event of a message of a document.
LEMMA MadeIsDocuments ==
    ASSUME named \in BOOLEAN, NEW r \in AgentRecords, NEW model \in Models,
           agent \in {"zed", "gemini", "amp", "crush"}
    PROVE  Made(MadeOf(r, model), r, model)
<1>1. CASE agent = "zed"
    <2>1. PICK t : t = Anthropic(r.block)
        OBVIOUS
    <2>2. t = CountsOf(2, r.block.out, 1, r.block.cached, 0) /\ t \in Tokens
        BY <2>1, BlockIs, CountsAre
    <2>4. PICK e : e = [Event("zed", r) EXCEPT 
            !.session = Around.session, !.project = Around.project]
        OBVIOUS
    <2>5. /\ e.request = r.request /\ e.time = r.time /\ e.cost = NoCost
          /\ e.agent = "zed" /\ e.model = r.model /\ e.msg = r.msg /\ e.req = NoId
          /\ e.tokens = t /\ e.session = "file"
        BY <2>1, <2>4 DEF Event, Around
    <2>6. /\ e.tokens.output = r.block.out /\ e.tokens.read = r.block.cached
          /\ e.tokens.input = 2
        BY <2>2, <2>5 DEF CountsOf
    <2>7. kind = "whole" /\ Less(r.block) = NotNegative(r.block.in - r.block.cached)
          /\ r.block.in = 2
        BY <1>1, RecordIs DEF kind, Kind, Less
    <2>8. Anywhere(r) <=> Carries(r)
        BY <1>1 DEF Carries, Anywhere
    <2>9. Carries(r) => Told(e, r, model)
        BY <1>1, <2>2, <2>5, <2>6, <2>7, <2>8, RecordIs
           DEF Told, LessAgents, Or, OrTime, NoText, NoTime, Here
    <2>10. MadeOf(r, model) = Emit(Anywhere(r), e)
        BY <1>1, <2>4 DEF MadeOf, ZedEvents
    <2> QED
        BY <2>8, <2>9, <2>10, EmitOne
<1>2. CASE agent = "gemini"
    <2>1. PICK t : t = Gemini(r.block)
        OBVIOUS
    <2>2. t = CountsOf(Less(r.block), r.block.out, 0, r.block.cached, 1) /\ t \in Tokens
        BY <2>1, BlockIs, CountsAre
    <2>4. PICK e : e = [Event("gemini", r) EXCEPT 
            !.session = Around.session, !.project = Around.project,
            !.time = OrTime(r.time, Around.time), !.tokens = Gemini(r.block)]
        OBVIOUS
    <2>5. /\ e.request = r.request /\ e.time = OrTime(r.time, 1) /\ e.cost = NoCost
          /\ e.agent = "gemini" /\ e.model = r.model /\ e.msg = r.msg /\ e.req = NoId
          /\ e.tokens = t /\ e.session = "file"
        BY <2>1, <2>4 DEF Event, Around
    <2>6. /\ e.tokens.output = r.block.out /\ e.tokens.read = r.block.cached
          /\ e.tokens.input = Less(r.block)
        BY <2>2, <2>5 DEF CountsOf
    <2>7. kind = "whole" /\ Less(r.block) = NotNegative(r.block.in - r.block.cached)
          /\ r.block.in = 2
        BY <1>2, RecordIs DEF kind, Kind, Less
    <2>8. Anywhere(r) <=> Carries(r)
        BY <1>2 DEF Carries, Anywhere
    <2>9. Carries(r) => Told(e, r, model)
        BY <1>2, <2>2, <2>5, <2>6, <2>7, <2>8, RecordIs
           DEF Told, LessAgents, Or, OrTime, NoText, NoTime, Here
    <2>10. MadeOf(r, model) = Emit(Anywhere(r), e)
        BY <1>2, <2>4 DEF MadeOf, GeminiEvents
    <2> QED
        BY <2>8, <2>9, <2>10, EmitOne
<1>3. CASE agent = "amp"
    <2>1. PICK t : t = WithReasoning(Anthropic(r.block), r.block)
        OBVIOUS
    <2>2. t = CountsOf(2, r.block.out, 1, r.block.cached, 1) /\ t \in Tokens
        BY <2>1, BlockIs, CountsAre
    <2>4. PICK e : e = [Event("amp", r) EXCEPT 
            !.session = Around.session, !.project = Around.project, !.cost = r.cost,
            !.time = OrTime(r.time, Around.time),
            !.tokens = WithReasoning(Anthropic(r.block), r.block)]
        OBVIOUS
    <2>5. /\ e.request = r.request /\ e.time = OrTime(r.time, 1) /\ e.cost = r.cost
          /\ e.agent = "amp" /\ e.model = r.model /\ e.msg = r.msg /\ e.req = NoId
          /\ e.tokens = t /\ e.session = "file"
        BY <2>1, <2>4 DEF Event, Around
    <2>6. /\ e.tokens.output = r.block.out /\ e.tokens.read = r.block.cached
          /\ e.tokens.input = 2
        BY <2>2, <2>5 DEF CountsOf
    <2>7. kind = "whole" /\ Less(r.block) = NotNegative(r.block.in - r.block.cached)
          /\ r.block.in = 2
        BY <1>3, RecordIs DEF kind, Kind, Less
    <2>8. Here(r) <=> Carries(r)
        BY <1>3 DEF Carries, Here
    <2>9. Carries(r) => Told(e, r, model)
        BY <1>3, <2>2, <2>5, <2>6, <2>7, <2>8, RecordIs
           DEF Told, LessAgents, Or, OrTime, NoText, NoTime, Here
    <2>10. MadeOf(r, model) = Emit(Here(r), e)
        BY <1>3, <2>4 DEF MadeOf, AmpEvents
    <2> QED
        BY <2>8, <2>9, <2>10, EmitOne
<1>4. CASE agent = "crush"
    <2>1. PICK t : t = Plain(r.block)
        OBVIOUS
    <2>2. t = CountsOf(2, r.block.out, 1, r.block.cached, 1) /\ t \in Tokens
        BY <2>1, BlockIs, CountsAre
    <2>4. PICK e : e = [Event("crush", r) EXCEPT 
            !.session = Around.session, !.project = Around.project, !.cost = r.cost,
            !.time = OrTime(r.time, Around.time), !.tokens = Plain(r.block)]
        OBVIOUS
    <2>5. /\ e.request = r.request /\ e.time = OrTime(r.time, 1) /\ e.cost = r.cost
          /\ e.agent = "crush" /\ e.model = r.model /\ e.msg = r.msg /\ e.req = NoId
          /\ e.tokens = t /\ e.session = "file"
        BY <2>1, <2>4 DEF Event, Around
    <2>6. /\ e.tokens.output = r.block.out /\ e.tokens.read = r.block.cached
          /\ e.tokens.input = 2
        BY <2>2, <2>5 DEF CountsOf
    <2>7. kind = "whole" /\ Less(r.block) = NotNegative(r.block.in - r.block.cached)
          /\ r.block.in = 2
        BY <1>4, RecordIs DEF kind, Kind, Less
    <2>8. Here(r) <=> Carries(r)
        BY <1>4 DEF Carries, Here
    <2>9. Carries(r) => Told(e, r, model)
        BY <1>4, <2>2, <2>5, <2>6, <2>7, <2>8, RecordIs
           DEF Told, LessAgents, Or, OrTime, NoText, NoTime, Here
    <2>10. MadeOf(r, model) = Emit(Here(r), e)
        BY <1>4, <2>4 DEF MadeOf, CrushEvents
    <2> QED
        BY <2>8, <2>9, <2>10, EmitOne
<1> QED
    BY <1>1, <1>2, <1>3, <1>4

LEMMA MadeIs ==
    ASSUME named \in BOOLEAN, agent \in Agents, NEW r \in AgentRecords, NEW model \in Models
    PROVE  Made(MadeOf(r, model), r, model)
<1>1. agent \in DOMAIN Kind
    BY FileBounds
<1> QED
    BY <1>1, MadeIsLines, MadeIsTask, MadeIsRows, MadeIsDocuments DEF Kind

-----------------------------------------------------------------------------
(* The inductive invariant *)

\* Every stored event was made of a record that carries usage, and no two have
\* one id; unless a Codex transcript was read from the middle, its model is known.
StoredFits(set, middle) ==
    /\ \A e \in set : \E r \in AgentRecords, model \in Models :
          /\ Carries(r) /\ Told(e, r, model)
          /\ agent = "codex" /\ ~middle => model = "m"
    /\ \A e, g \in set : EventId(e) = EventId(g) => e = g

\* What an agent writes: only lines repeat a request, with no less output, and
\* the rows that are read by time are in its order.
RecordsFit(recs, half) ==
    /\ recs \in Seq(AgentRecords) /\ Len(recs) <= MaxRecords
    /\ agent = "codex" /\ recs # <<>> => recs[1] = Context
    /\ \A i, j \in DOMAIN recs : i < j =>
          /\ recs[i].request = recs[j].request =>
                kind = "lines" /\ recs[i].block.out <= recs[j].block.out
          /\ kind = "millis" => recs[i].created <= recs[j].created
    /\ half => kind = "lines" /\ recs # <<>> /\ (agent = "codex" => Len(recs) > 1)

CreatedBy(recs, n) == \A i \in DOMAIN recs : recs[i].created <= n + 1

\* What the mark passes is on the server: also the line that is not complete.
Known ==
    \A i \in DOMAIN records :
        Carries(records[i]) =>
            \/ records[i].request \in behind
            \/ Counted(records[i])
            \/ Ahead(i, records, version)
            \/ kind = "table"
            \/ TooLarge

Marks == [size : -1 .. MaxRecords, version : 0 .. MaxWrites, offset : 0 .. MaxRecords,
          lines : 0 .. MaxWrites + MaxRecords + 1]

FilesTypes ==
    /\ agent \in Agents /\ place \in Places /\ named \in BOOLEAN
    /\ tail \in BOOLEAN /\ torn \in BOOLEAN /\ resumed \in BOOLEAN
    /\ writes \in 0 .. MaxWrites /\ version = writes
    /\ mark \in Marks /\ stat \in Marks
    /\ mark.version <= version /\ stat.version <= version
    /\ stat # Unseen => stat.size >= 0
    /\ torn => kind = "whole"
    /\ behind \subseteq Requests

FilesInv ==
    /\ FilesTypes
    /\ RecordsFit(records, tail)
    /\ CreatedBy(records, writes)
    /\ mark # Unseen /\ ~torn => Known
    /\ StoredFits(stored, resumed)

-----------------------------------------------------------------------------
(* Identities *)

LEMMA ToldIs ==
    ASSUME named \in BOOLEAN, NEW r \in AgentRecords, NEW model \in Models, NEW e,
           Carries(r), Told(e, r, model)
    PROVE  /\ e.request \in Requests /\ e.request \in Nat /\ e.request # 0
           /\ e.msg \in {NoId, e.request} /\ e.req \in {NoId, e.request}
           /\ e.time = e.request /\ e.tokens \in Tokens /\ HasUsage(e)
           /\ r.block.out \in {1, 2} /\ e.tokens.output = r.block.out
<1>1. /\ e.request \in Requests /\ e.request \in Nat /\ e.request # 0
      /\ e.time = e.request /\ e.tokens \in Tokens /\ e.tokens.output = r.block.out
    BY RecordIs DEF Told
<1>2. e.msg \in {NoId, r.msg} /\ e.req \in {NoId, r.rid} /\ e.request = r.request
    BY DEF Told
<1>3. r.msg \in {NoId, r.request} /\ r.rid \in {NoId, r.request}
    BY RecordIs
<1>4. e.msg \in {NoId, e.request} /\ e.req \in {NoId, e.request}
    BY <1>2, <1>3
<1>5. e.tokens.read \in {1, 3}
    BY RecordIs DEF Told, CachedOf
<1>6. HasUsage(e)
    BY <1>1, <1>5 DEF HasUsage, Total, Tokens
<1>7. r.block.out \in {1, 2}
    BY RecordIs DEF Carries
<1> QED
    BY <1>1, <1>4, <1>6, <1>7

LEMMA SameId ==
    ASSUME named \in BOOLEAN, NEW r \in AgentRecords, NEW model \in Models, NEW e,
           Carries(r), Told(e, r, model),
           NEW s \in AgentRecords, NEW other \in Models, NEW g, Carries(s), Told(g, s, other),
           EventId(e) = EventId(g)
    PROVE  e.request = g.request
<1>1. /\ e.msg \in {NoId, e.request} /\ e.req \in {NoId, e.request} /\ e.time = e.request
      /\ g.msg \in {NoId, g.request} /\ g.req \in {NoId, g.request} /\ g.time = g.request
    BY ToldIs
<1>2. CASE e.msg # NoId /\ e.req # NoId
    BY <1>1, <1>2 DEF EventId
<1>3. CASE e.msg # NoId /\ e.req = NoId
    BY <1>1, <1>3 DEF EventId
<1>4. CASE e.msg = NoId /\ e.req # NoId
    BY <1>1, <1>4 DEF EventId
<1>5. CASE e.msg = NoId /\ e.req = NoId
    BY <1>1, <1>5 DEF EventId
<1> QED
    BY <1>2, <1>3, <1>4, <1>5

\* Two events of one request differ in their ids only by counts or model, and
\* only where there is no id.
LEMMA SameRequest ==
    ASSUME named \in BOOLEAN, NEW r \in AgentRecords, NEW model \in Models, NEW e,
           Carries(r), Told(e, r, model),
           NEW s \in AgentRecords, NEW other \in Models, NEW g, Carries(s), Told(g, s, other),
           e.request = g.request,
           (e.msg = NoId /\ e.req = NoId) => (e.tokens = g.tokens /\ e.model = g.model)
    PROVE  EventId(e) = EventId(g)
<1>1. r.request = s.request /\ r.place = s.place
    <2>1. r.request = s.request
        BY DEF Told
    <2>2. r.place = PlaceOf(r.request) /\ s.place = PlaceOf(s.request)
        BY RecordIs DEF Carries
    <2> QED
        BY <2>1, <2>2
<1>2. r.msg = s.msg /\ r.rid = s.rid /\ r.session = s.session
    BY <1>1, RecordIs
<1>3. e.msg = g.msg /\ e.req = g.req /\ e.session = g.session
    BY <1>1, <1>2 DEF Told
<1>4. e.agent = g.agent /\ e.time = g.time
    BY <1>1 DEF Told
<1> QED
    BY <1>3, <1>4 DEF EventId

LEMMA FilesImply ==
    ASSUME FilesInv
    PROVE  ScanMissesOnlyPassed /\ UsageCountedOnce
<1>1. ScanMissesOnlyPassed
    <2> SUFFICES ASSUME mark # Unseen, ~torn, NEW i \in 1 .. Complete, Carries(records[i]),
                        records[i].request \notin behind
                 PROVE  \/ Counted(records[i])
                        \/ Ahead(i, records, version)
                        \/ kind = "table"
                        \/ TooLarge
        BY DEF ScanMissesOnlyPassed
    <2>1. i \in DOMAIN records
        BY DEF FilesInv, RecordsFit, Complete, Size
    <2> QED
        BY <2>1 DEF FilesInv, Known
<1>2. named \in BOOLEAN /\ StoredFits(stored, resumed)
    BY DEF FilesInv, FilesTypes
<1>3. ASSUME NEW e \in stored, NEW g \in stored, e.request = g.request, e # g
      PROVE  \/ e.msg = NoId /\ e.req = NoId /\ e.tokens # g.tokens
             \/ agent = "codex" /\ resumed
    <2>1. PICK r \in AgentRecords, model \in Models :
             Carries(r) /\ Told(e, r, model) /\ (agent = "codex" /\ ~resumed => model = "m")
        BY <1>2 DEF StoredFits
    <2>2. PICK s \in AgentRecords, other \in Models :
             Carries(s) /\ Told(g, s, other) /\ (agent = "codex" /\ ~resumed => other = "m")
        BY <1>2 DEF StoredFits
    <2>3. EventId(e) # EventId(g)
        BY <1>2, <1>3 DEF StoredFits
    <2>4. (e.msg = NoId /\ e.req = NoId) /\ ~(e.tokens = g.tokens /\ e.model = g.model)
        BY <1>2, <1>3, <2>1, <2>2, <2>3, SameRequest
    <2>5. ~(agent = "codex" /\ resumed) => e.model = g.model
        BY <2>1, <2>2 DEF Told
    <2> QED
        BY <2>4, <2>5
<1>4. CountedOnce
    BY <1>3 DEF CountedOnce
<1>5. ASSUME NEW e \in stored
      PROVE  /\ e.tokens \in Tokens /\ e.request \in Requests
             /\ IF agent \in LessAgents
                THEN e.tokens.input + e.tokens.read = Larger(2, CachedOf(e.request))
                ELSE e.tokens.input = 2
    <2>1. PICK r \in AgentRecords, model \in Models : Carries(r) /\ Told(e, r, model)
        BY <1>2 DEF StoredFits
    <2>2. r.block.in = 2 /\ r.block.cached = CachedOf(e.request) /\ r.block.cached \in {1, 3}
        BY <1>2, <2>1, RecordIs DEF Told, CachedOf
    <2>3. /\ e.tokens.read = r.block.cached
          /\ e.tokens.input = IF agent \in LessAgents THEN NotNegative(r.block.in - r.block.cached)
                              ELSE r.block.in
        BY <2>1 DEF Told
    <2>4. NotNegative(2 - r.block.cached) + r.block.cached = Larger(2, r.block.cached)
        BY <2>2 DEF NotNegative, Larger
    <2>5. e.tokens \in Tokens /\ e.request \in Requests
        BY <1>2, <2>1, ToldIs
    <2> QED
        BY <2>2, <2>3, <2>4, <2>5
<1>6. InputCountedOnce
    BY <1>5 DEF InputCountedOnce, LessAgents
<1>7. AgentFilesTypeOK
    <2>1. /\ agent \in Agents /\ place \in Places /\ named \in BOOLEAN
          /\ Len(records) <= MaxRecords
          /\ tail \in BOOLEAN /\ torn \in BOOLEAN /\ version \in 0 .. MaxWrites
          /\ behind \subseteq Requests /\ resumed \in BOOLEAN
        BY DEF FilesInv, FilesTypes, RecordsFit
    <2>2. mark \in Marks /\ stat \in Marks
        BY DEF FilesInv, FilesTypes
    <2> QED
        BY <1>5, <2>1, <2>2 DEF AgentFilesTypeOK, Marks
<1> QED
    BY <1>1, <1>4, <1>6, <1>7 DEF UsageCountedOnce

-----------------------------------------------------------------------------
(* What a scan stores *)

LEMMA LeastRow == \A S \in SUBSET Nat : S # {} => \E m \in S : \A n \in S : m <= n
<1> SUFFICES ASSUME NEW S \in SUBSET Nat, S # {}
             PROVE  \E m \in S : \A n \in S : m <= n
    OBVIOUS
<1> DEFINE R == {ss \in Nat \X Nat : ss[1] < ss[2]}
<1>1. IsWellFoundedOn(R, Nat)
    BY NatLessThanWellFounded DEF OpToRel
<1>2. \A m, n \in Nat : m < n => <<m, n>> \in R
    OBVIOUS
<1> HIDE DEF R
<1>3. PICK m \in S : \A n \in S : ~(<<n, m>> \in R)
    BY <1>1, WFMin
<1>4. \A n \in S : n \in Nat /\ m \in Nat /\ ~(n < m)
    BY <1>2, <1>3
<1> QED
    BY <1>4

\* The events made of one record.
RowFits(made, r, middle) ==
    /\ \A e \in made : \E model \in Models :
          Told(e, r, model) /\ (agent = "codex" /\ ~middle => model = "m")
    /\ \A e, g \in made : e = g
    /\ made # {} <=> Carries(r)

CountedIn(set, r) == \E e \in set : e.request = r.request /\ e.tokens.output >= r.block.out

\* Of the events with one id one is kept, and none of them had more output.
Keeps(kept, byRow, read) ==
    /\ \A e \in kept : \E i \in read : e \in byRow[i]
    /\ \A i \in read : \A e \in byRow[i] : \E g \in kept :
          EventId(g) = EventId(e) /\ g.tokens.output >= e.tokens.output
    /\ \A e, g \in kept : EventId(e) = EventId(g) => e = g

LEMMA DedupKeeps ==
    ASSUME named \in BOOLEAN, records \in Seq(AgentRecords), NEW read, read \subseteq DOMAIN records,
           NEW byRow, NEW middle, \A i \in read : RowFits(byRow[i], records[i], middle),
           NEW kept, kept = DedupEvents(EventsIn(byRow, read))
    PROVE  Keeps(kept, byRow, read)
<1>1. PICK X : X = EventsIn(byRow, read)
    OBVIOUS
<1>2. \A i, e : <<i, e>> \in X <=> i \in read /\ e \in byRow[i]
    BY <1>1 DEF EventsIn
<1>3. \A x \in X : x = <<x[1], x[2]>> /\ x[1] \in read /\ x[2] \in byRow[x[1]]
    BY <1>1 DEF EventsIn
<1>4. \A i \in read : i \in Nat /\ records[i] \in AgentRecords
    OBVIOUS
<1>5. \A i \in read : \A e \in byRow[i] : e.tokens.output \in {1, 2}
    <2> SUFFICES ASSUME NEW i \in read, NEW e \in byRow[i]
                 PROVE  e.tokens.output \in {1, 2}
        OBVIOUS
    <2>1. PICK model \in Models : Told(e, records[i], model)
        BY DEF RowFits
    <2>2. Carries(records[i])
        BY DEF RowFits
    <2> QED
        BY <1>4, <2>1, <2>2, ToldIs
<1> DEFINE best(x) == \A y \in X : EventId(y[2]) = EventId(x[2]) =>
                \/ y[2].tokens.output < x[2].tokens.output
                \/ y[2].tokens.output = x[2].tokens.output /\ y[1] >= x[1]
<1>6. kept = {x[2] : x \in {x \in X : best(x)}}
    BY <1>1 DEF DedupEvents
<1>7. \A e \in kept : \E x \in X : best(x) /\ e = x[2]
    BY <1>6
<1>8. \A e \in kept : \E i \in read : e \in byRow[i]
    BY <1>3, <1>7
<1>9. ASSUME NEW i \in read, NEW e \in byRow[i]
      PROVE  \E g \in kept : EventId(g) = EventId(e) /\ g.tokens.output >= e.tokens.output
    <2> DEFINE same == {y \in X : EventId(y[2]) = EventId(e)}
    <2>1. <<i, e>> \in X /\ <<i, e>>[2] = e
        BY <1>2
    <2>2. <<i, e>> \in same
        BY <2>1
    <2>3. \A y \in same : y \in X /\ y[2].tokens.output \in {1, 2} /\ y[1] \in Nat
                          /\ EventId(y[2]) = EventId(e)
        BY <1>3, <1>4, <1>5
    <2>4. PICK o \in {1, 2} : /\ \A y \in same : y[2].tokens.output <= o
                              /\ \E y \in same : y[2].tokens.output = o
        <3>1. CASE \E y \in same : y[2].tokens.output = 2
            BY <2>3, <3>1
        <3>2. CASE \A y \in same : y[2].tokens.output # 2
            BY <2>2, <2>3, <3>2
        <3> QED
            BY <3>1, <3>2
    <2> DEFINE rows == {y[1] : y \in {y \in same : y[2].tokens.output = o}}
    <2>5. rows \in SUBSET Nat /\ rows # {}
        BY <2>3, <2>4
    <2>6. PICK m \in rows : \A n \in rows : m <= n
        BY <2>5, LeastRow
    <2>7. PICK y \in same : y[2].tokens.output = o /\ y[1] = m
        BY <2>6
    <2>8. ASSUME NEW z \in X, EventId(z[2]) = EventId(y[2])
          PROVE  \/ z[2].tokens.output < y[2].tokens.output
                 \/ z[2].tokens.output = y[2].tokens.output /\ z[1] >= y[1]
        <3>1. z \in same
            BY <2>3, <2>7, <2>8
        <3>2. z[2].tokens.output <= o /\ z[2].tokens.output \in {1, 2} /\ z[1] \in Nat
            BY <2>3, <2>4, <3>1
        <3>3. z[2].tokens.output = o => z[1] \in rows
            BY <3>1
        <3>4. z[2].tokens.output = o => m <= z[1]
            BY <2>6, <3>3
        <3>5. m \in Nat /\ o \in Nat
            BY <2>5, <2>6
        <3> QED
            BY <2>7, <3>2, <3>4, <3>5
    <2>9. y[2] \in kept
        BY <1>6, <2>3, <2>7, <2>8
    <2>10. y[2].tokens.output >= e.tokens.output
        BY <1>5, <2>1, <2>2, <2>4, <2>7
    <2> QED
        BY <2>3, <2>7, <2>9, <2>10
<1>10. ASSUME NEW e \in kept, NEW g \in kept, EventId(e) = EventId(g)
       PROVE  e = g
    <2>1. PICK x \in X : best(x) /\ e = x[2]
        BY <1>7
    <2>2. PICK y \in X : best(y) /\ g = y[2]
        BY <1>7
    <2>3. /\ x[2].tokens.output \in {1, 2} /\ y[2].tokens.output \in {1, 2}
          /\ x[1] \in Nat /\ y[1] \in Nat
        BY <1>3, <1>4, <1>5
    <2>4. \/ y[2].tokens.output < x[2].tokens.output
          \/ y[2].tokens.output = x[2].tokens.output /\ y[1] >= x[1]
        BY <1>10, <2>1, <2>2
    <2>5. \/ x[2].tokens.output < y[2].tokens.output
          \/ x[2].tokens.output = y[2].tokens.output /\ x[1] >= y[1]
        BY <1>10, <2>1, <2>2
    <2>6. x[1] = y[1]
        BY <2>3, <2>4, <2>5
    <2>7. x[1] \in read /\ e \in byRow[x[1]] /\ g \in byRow[x[1]]
        BY <1>3, <2>1, <2>2, <2>6
    <2> QED
        BY <2>7 DEF RowFits
<1> QED
    BY <1>8, <1>9, <1>10 DEF Keeps

LEMMA FinishStores ==
    ASSUME named \in BOOLEAN, records \in Seq(AgentRecords), NEW read, read \subseteq DOMAIN records,
           NEW byRow, NEW middle, \A i \in read : RowFits(byRow[i], records[i], middle),
           StoredFits(stored, middle),
           NEW after, after = Ingest(DedupEvents(EventsIn(byRow, read)))
    PROVE  /\ StoredFits(after, middle)
           /\ \A i \in read : Carries(records[i]) => CountedIn(after, records[i])
           /\ \A r \in AgentRecords :
                /\ CountedIn(stored, r)
                /\ \A i \in read : records[i].request = r.request => r.block.out <= records[i].block.out
                => CountedIn(after, r)
<1>1. PICK kept : kept = DedupEvents(EventsIn(byRow, read))
    OBVIOUS
<1>2. /\ \A e \in kept : \E i \in read : e \in byRow[i]
      /\ \A i \in read : \A e \in byRow[i] : \E g \in kept :
            EventId(g) = EventId(e) /\ g.tokens.output >= e.tokens.output
      /\ \A e, g \in kept : EventId(e) = EventId(g) => e = g
    <2>1. Keeps(kept, byRow, read)
        BY <1>1, DedupKeeps
    <2> QED
        BY <2>1 DEF Keeps
<1>3. \A i \in read : records[i] \in AgentRecords
    OBVIOUS
<1>4. ASSUME NEW i \in read, NEW e \in byRow[i]
      PROVE  /\ Carries(records[i])
             /\ \E model \in Models : /\ Told(e, records[i], model)
                                      /\ agent = "codex" /\ ~middle => model = "m"
             /\ HasUsage(e) /\ e.time # NoTime /\ e.tokens.output \in Nat
             /\ e.request = records[i].request /\ e.tokens.output = records[i].block.out
    <2>1. PICK model \in Models :
             Told(e, records[i], model) /\ (agent = "codex" /\ ~middle => model = "m")
        BY DEF RowFits
    <2>2. Carries(records[i])
        BY DEF RowFits
    <2>3. /\ HasUsage(e) /\ e.time = e.request /\ e.request # 0 /\ e.tokens \in Tokens
          /\ e.tokens.output = records[i].block.out
        BY <1>3, <2>1, <2>2, ToldIs
    <2>4. e.tokens.output \in Nat
        BY <2>3 DEF Tokens
    <2>5. e.request = records[i].request
        BY <2>1 DEF Told
    <2> QED
        BY <2>1, <2>2, <2>3, <2>4, <2>5 DEF NoTime
<1>5. \A e \in kept : HasUsage(e) /\ e.time # NoTime
    BY <1>2, <1>4
<1>6. after = kept \cup {s \in stored : \A e \in kept : EventId(e) # EventId(s)}
    <2>1. {e \in kept : HasUsage(e) /\ e.time # NoTime} = kept
        BY <1>5
    <2> QED
        BY <1>1, <2>1 DEF Ingest
<1>7. ASSUME NEW e \in after
      PROVE  \E r \in AgentRecords, model \in Models :
                /\ Carries(r) /\ Told(e, r, model)
                /\ agent = "codex" /\ ~middle => model = "m"
    <2>1. CASE e \in kept
        <3>1. PICK i \in read : e \in byRow[i]
            BY <1>2, <2>1
        <3> QED
            BY <1>3, <1>4, <3>1
    <2>2. CASE e \in stored
        BY <2>2 DEF StoredFits
    <2> QED
        BY <1>6, <2>1, <2>2
<1>8. ASSUME NEW e \in after, NEW g \in after, EventId(e) = EventId(g)
      PROVE  e = g
    BY <1>2, <1>6, <1>8 DEF StoredFits
<1>9. StoredFits(after, middle)
    BY <1>7, <1>8 DEF StoredFits
<1>10. ASSUME NEW e, NEW g \in kept, EventId(g) = EventId(e),
              \E r \in AgentRecords, model \in Models : Carries(r) /\ Told(e, r, model)
       PROVE  g.request = e.request
    <2>1. g \in after
        BY <1>6
    <2>2. PICK r \in AgentRecords, model \in Models : Carries(r) /\ Told(e, r, model)
        BY <1>10
    <2>3. PICK s \in AgentRecords, other \in Models : Carries(s) /\ Told(g, s, other)
        BY <1>7, <2>1
    <2> QED
        BY <1>10, <2>2, <2>3, SameId
<1>11. ASSUME NEW i \in read, Carries(records[i])
       PROVE  CountedIn(after, records[i])
    <2>1. PICK e \in byRow[i] : TRUE
        BY <1>11 DEF RowFits
    <2>2. PICK g \in kept : EventId(g) = EventId(e) /\ g.tokens.output >= e.tokens.output
        BY <1>2
    <2>3. g.request = e.request
        BY <1>3, <1>4, <1>10, <2>2
    <2> QED
        BY <1>4, <1>6, <2>2, <2>3 DEF CountedIn
<1>12. ASSUME NEW r \in AgentRecords, CountedIn(stored, r),
              \A i \in read : records[i].request = r.request => r.block.out <= records[i].block.out
       PROVE  CountedIn(after, r)
    <2>1. PICK e \in stored : e.request = r.request /\ e.tokens.output >= r.block.out
        BY <1>12 DEF CountedIn
    <2>2. CASE \A g \in kept : EventId(g) # EventId(e)
        BY <1>6, <2>1, <2>2 DEF CountedIn
    <2>3. CASE \E g \in kept : EventId(g) = EventId(e)
        <3>1. PICK g \in kept : EventId(g) = EventId(e)
            BY <2>3
        <3>2. g.request = e.request
            BY <1>10, <3>1 DEF StoredFits
        <3>3. PICK i \in read : g \in byRow[i]
            BY <1>2
        <3>4. g.request = records[i].request /\ g.tokens.output = records[i].block.out
            BY <1>4, <3>3
        <3>5. r.block.out <= records[i].block.out /\ r.block.out \in Int /\ records[i].block.out \in Int
            BY <1>3, <1>12, <2>1, <3>2, <3>4, RecordIs
        <3> QED
            BY <1>6, <2>1, <3>2, <3>4, <3>5 DEF CountedIn
    <2> QED
        BY <2>2, <2>3
<1> QED
    BY <1>9, <1>11, <1>12

-----------------------------------------------------------------------------
(* The agent writes *)

LEMMA AgentSame ==
    ASSUME UNCHANGED <<agent, named>>
    PROVE  /\ AgentRecords' = AgentRecords
           /\ kind' = kind
           /\ \A r : Carries(r)' <=> Carries(r)
           /\ \A set, middle : StoredFits(set, middle)' <=> StoredFits(set, middle)
           /\ \A recs, half : RecordsFit(recs, half)' <=> RecordsFit(recs, half)
           /\ records' = records => TooLarge' = TooLarge
<1>1. kind' = kind
    BY DEF kind
<1>2. AgentRecords' = AgentRecords /\ Context' = Context
    BY DEF AgentRecords, Context, Record
<1>3. \A r : Carries(r)' <=> Carries(r)
    BY DEF Carries
<1>4. \A e, r, model : Told(e, r, model)' <=> Told(e, r, model)
    BY <1>1 DEF Told
<1>5. \A set, middle : StoredFits(set, middle)' <=> StoredFits(set, middle)
    BY <1>2, <1>3, <1>4 DEF StoredFits
<1>6. \A recs, half : RecordsFit(recs, half)' <=> RecordsFit(recs, half)
    BY <1>1, <1>2 DEF RecordsFit
<1>7. records' = records => TooLarge' = TooLarge
    BY <1>1 DEF TooLarge, Document, InDatabase, Size
<1> QED
    BY <1>1, <1>2, <1>3, <1>5, <1>6, <1>7

LEMMA WriteKeepsFiles ==
    ASSUME FilesInv, NEW new, NEW half \in BOOLEAN, Write(new, half),
           RecordsFit(new, half), CreatedBy(new, writes + 1)
    PROVE  FilesInv'
<1>1. /\ writes < MaxWrites /\ writes' = writes + 1 /\ version' = version + 1
      /\ records' = new /\ tail' = half /\ torn' = FALSE
      /\ UNCHANGED <<agent, place, named, mark, stat, stored, resumed>>
    BY DEF Write
<1>2. behind' = behind \cup {new[i].request : i \in {i \in DOMAIN new :
          /\ ~Ahead(i, new, version + 1)
          /\ i \in DOMAIN records /\ new[i] = records[i] => Ahead(i, records, version)}}
    BY DEF Write
<1>3. FilesTypes /\ RecordsFit(records, tail) /\ StoredFits(stored, resumed)
    BY DEF FilesInv
<1>4. writes \in Nat /\ MaxWrites \in Nat /\ version = writes /\ named \in BOOLEAN
    BY <1>3, FileBounds DEF FilesTypes
<1>5. AgentRecords' = AgentRecords /\ kind' = kind
    BY <1>1, AgentSame
<1>6. RecordsFit(records, tail)'
    BY <1>1, AgentSame
<1>7. \A i \in DOMAIN new : new[i] \in AgentRecords
    BY DEF RecordsFit
<1>8. behind' \subseteq Requests
    <2>1. \A i \in DOMAIN new : new[i].request \in Requests
        BY <1>4, <1>7, RecordIs
    <2>2. behind \subseteq Requests
        BY <1>3 DEF FilesTypes
    <2> QED
        BY <1>2, <2>1, <2>2
<1>9. FilesTypes'
    <2>1. /\ mark \in Marks /\ stat \in Marks /\ mark.version <= version /\ stat.version <= version
          /\ stat # Unseen => stat.size >= 0
        BY <1>3 DEF FilesTypes
    <2>2. mark.version \in Int /\ stat.version \in Int
        BY <2>1 DEF Marks
    <2>3. mark.version <= version' /\ stat.version <= version'
        BY <1>1, <1>4, <2>1, <2>2
    <2>4. /\ agent \in Agents /\ place \in Places /\ named \in BOOLEAN /\ resumed \in BOOLEAN
        BY <1>3 DEF FilesTypes
    <2>5. writes' \in 0 .. MaxWrites /\ version' = writes'
        BY <1>1, <1>4
    <2>6. Unseen' = Unseen
        BY DEF Unseen
    <2>7. torn' => kind' = "whole"
        BY <1>1
    <2> QED
        BY <1>1, <1>8, <2>1, <2>3, <2>4, <2>5, <2>6, <2>7 DEF FilesTypes, Marks
<1>10. CreatedBy(records, writes)'
    BY <1>1 DEF CreatedBy
<1>11. StoredFits(stored, resumed)'
    BY <1>1, <1>3, AgentSame
<1>12. ASSUME mark # Unseen
       PROVE  Known'
    <2> SUFFICES ASSUME NEW i \in DOMAIN new, Carries(new[i]), new[i].request \notin behind',
                        ~Ahead(i, new, version + 1), kind # "table"
                 PROVE  Counted(new[i])
        <3>1. \A i \in DOMAIN new : /\ Carries(new[i])' <=> Carries(new[i])
                                    /\ Counted(new[i])' <=> Counted(new[i])
            BY <1>1, AgentSame DEF Counted
        <3>2. \A i \in DOMAIN new : Ahead(i, records, version)' <=> Ahead(i, new, version + 1)
            BY <1>1, <1>5 DEF Ahead
        <3> QED
            BY <1>1, <1>5, <3>1, <3>2, AgentSame DEF Known, Counted, Ahead, Carries
    <2>1. i \in DOMAIN records /\ new[i] = records[i] /\ ~Ahead(i, records, version)
        BY <1>2
    <2>2. ~torn /\ ~TooLarge
        <3>1. SUFFICES ASSUME kind = "whole"
                       PROVE  FALSE
            BY <1>3 DEF FilesTypes, TooLarge, Document
        <3>2. mark.version = version + 1
            BY <3>1 DEF Ahead
        <3>3. mark \in Marks /\ mark.version <= version
            BY <1>3 DEF FilesTypes
        <3> QED
            BY <1>4, <3>2, <3>3 DEF Marks
    <2>3. Known
        BY <1>12, <2>2 DEF FilesInv
    <2>4. records[i].request \notin behind
        BY <1>2, <2>1
    <2> QED
        BY <2>1, <2>2, <2>3, <2>4 DEF Known
<1> QED
    BY <1>1, <1>6, <1>9, <1>10, <1>11, <1>12 DEF FilesInv

LEMMA NewRecord ==
    ASSUME NEW q \in Requests, NEW p, p \in {PlaceOf(q), "long"}, NEW out \in {1, 2},
           NEW t \in Nat \ {0}, NEW r, r = Record(p, q, out, t)
    PROVE  r \in AgentRecords /\ r.request = q /\ r.block.out = out /\ r.created = t
<1>1. r \in AgentRecords
    BY DEF AgentRecords
<1>2. r.request = q /\ r.block.out = out /\ r.created = t
    BY DEF Record
<1> QED
    BY <1>1, <1>2

LEMMA ContextIs ==
    Context \in AgentRecords /\ Context.created = 1 /\ Context.block.out = 0
BY DEF AgentRecords, Context, Record

LEMMA OneFits ==
    ASSUME FilesInv, writes < MaxWrites, MaxRecords >= 1, NEW r \in AgentRecords,
           agent = "codex" => r = Context
    PROVE  RecordsFit(<<r>>, FALSE)
<1>1. <<r>> \in Seq(AgentRecords) /\ Len(<<r>>) = 1 /\ DOMAIN <<r>> = {1} /\ <<r>>[1] = r
    OBVIOUS
<1> QED
    BY <1>1, FileBounds DEF RecordsFit

LEMMA AppendFits ==
    ASSUME FilesInv, Size < MaxRecords, NEW r \in AgentRecords, NEW half \in BOOLEAN,
           agent = "codex" => records # <<>>,
           half => kind = "lines",
           \A i \in DOMAIN records : records[i].request = r.request =>
                kind = "lines" /\ records[i].block.out <= r.block.out,
           kind = "millis" => \A i \in DOMAIN records : records[i].created <= r.created,
           r.created <= writes + 2
    PROVE  /\ RecordsFit(Append(records, r), half)
           /\ CreatedBy(Append(records, r), writes + 1)
<1>1. /\ records \in Seq(AgentRecords) /\ CreatedBy(records, writes) /\ named \in BOOLEAN
      /\ Len(records) < MaxRecords /\ MaxRecords \in Nat /\ writes \in Nat
    BY FileBounds DEF FilesInv, RecordsFit, FilesTypes, Size
<1>2. PICK new : new = Append(records, r)
    OBVIOUS
<1>3. /\ new \in Seq(AgentRecords) /\ Len(new) = Len(records) + 1
      /\ DOMAIN new = DOMAIN records \cup {Len(records) + 1}
      /\ \A i \in DOMAIN records : new[i] = records[i] /\ i \in 1 .. Len(records)
      /\ new[Len(records) + 1] = r
    BY <1>1, <1>2
<1>4. /\ agent = "codex" /\ records # <<>> => records[1] = Context
      /\ \A i, j \in DOMAIN records : i < j =>
          /\ records[i].request = records[j].request =>
                kind = "lines" /\ records[i].block.out <= records[j].block.out
          /\ kind = "millis" => records[i].created <= records[j].created
    BY DEF FilesInv, RecordsFit
<1>5. ASSUME NEW i \in DOMAIN new, NEW j \in DOMAIN new, i < j
      PROVE  /\ new[i].request = new[j].request =>
                  kind = "lines" /\ new[i].block.out <= new[j].block.out
             /\ kind = "millis" => new[i].created <= new[j].created
    <2>1. i \in DOMAIN records
        BY <1>1, <1>3, <1>5
    <2>2. CASE j \in DOMAIN records
        BY <1>3, <1>4, <1>5, <2>1, <2>2
    <2>3. CASE j = Len(records) + 1
        BY <1>3, <1>5, <2>1, <2>3
    <2> QED
        BY <1>3, <2>2, <2>3
<1>6. agent = "codex" => new[1] = Context /\ Len(new) > 1
    <2> SUFFICES ASSUME agent = "codex"
                 PROVE  new[1] = Context /\ Len(new) > 1
        OBVIOUS
    <2>1. Len(records) \in Nat /\ Len(records) # 0 /\ 1 \in DOMAIN records
        BY <1>1
    <2> QED
        BY <1>3, <1>4, <2>1
<1>7. new # <<>> /\ Len(new) <= MaxRecords
    BY <1>1, <1>3
<1>8. RecordsFit(new, half)
    BY <1>3, <1>5, <1>6, <1>7 DEF RecordsFit
<1>9. CreatedBy(new, writes + 1)
    <2>1. \A i \in DOMAIN records : records[i].created \in Int /\ records[i].created <= writes + 1
        BY <1>1, RecordIs DEF CreatedBy
    <2>2. r.created \in Int
        BY <1>1, RecordIs
    <2> QED
        BY <1>1, <1>3, <2>1, <2>2 DEF CreatedBy
<1> QED
    BY <1>2, <1>8, <1>9

LEMMA LatestIs ==
    ASSUME FilesInv
    PROVE  /\ Latest \in Nat \ {0} /\ Latest <= writes + 1
           /\ kind = "millis" => \A i \in DOMAIN records : records[i].created <= Latest
<1>1. /\ records \in Seq(AgentRecords) /\ CreatedBy(records, writes) /\ named \in BOOLEAN
      /\ writes \in Nat
    BY FileBounds DEF FilesInv, RecordsFit, FilesTypes
<1>2. CASE records = <<>>
    BY <1>1, <1>2 DEF Latest
<1>3. CASE records # <<>>
    <2>1. Len(records) \in DOMAIN records /\ Latest = records[Len(records)].created
        BY <1>1, <1>3 DEF Latest
    <2>2. \A i \in DOMAIN records : records[i].created \in Nat /\ records[i].created # 0
        BY <1>1, RecordIs
    <2>3. kind = "millis" => \A i, j \in DOMAIN records : i < j => records[i].created <= records[j].created
        BY DEF FilesInv, RecordsFit
    <2>4. \A i \in DOMAIN records : i = Len(records) \/ i < Len(records)
        BY <1>1
    <2> QED
        BY <1>1, <2>1, <2>2, <2>3, <2>4 DEF CreatedBy
<1> QED
    BY <1>2, <1>3

LEMMA AppendRecordKeeps ==
    ASSUME FilesInv, AppendRecord
    PROVE  FilesInv'
<1>1. /\ agent = "codex" => records # <<>>
      /\ Size < MaxRecords
    BY DEF AppendRecord
<1>2. PICK q \in Requests, tooLong \in BOOLEAN, half \in BOOLEAN, t \in {Latest, Latest + 1} :
        /\ half => kind = "lines"
        /\ kind # "lines" => \A i \in DOMAIN records : records[i].request # q
        /\ Write(Append(records, Record(IF tooLong THEN "long" ELSE PlaceOf(q), q, OutputOf(q), t)), half)
    BY DEF AppendRecord
<1>3. Latest \in Nat \ {0} /\ Latest <= writes + 1
    BY LatestIs
<1>4. writes \in Nat /\ t \in Nat \ {0} /\ t <= writes + 2 /\ Latest <= t
    BY <1>3 DEF FilesInv, FilesTypes
<1>5. PICK out : out = OutputOf(q)
    OBVIOUS
<1>14. PICK p : p = IF tooLong THEN "long" ELSE PlaceOf(q)
    OBVIOUS
<1>6. PICK r : r = Record(p, q, out, t)
    OBVIOUS
<1>7. out \in {1, 2} /\ p \in {PlaceOf(q), "long"}
    BY <1>5, <1>14 DEF OutputOf
<1>8. r \in AgentRecords /\ r.request = q /\ r.block.out = out /\ r.created = t
    BY <1>4, <1>6, <1>7, NewRecord
<1>9. \A i \in DOMAIN records : records[i] \in AgentRecords
    BY DEF FilesInv, RecordsFit
<1>10. ASSUME NEW i \in DOMAIN records, records[i].request = r.request
       PROVE  kind = "lines" /\ records[i].block.out <= r.block.out
    <2>1. records[i].block.out \in {0, 1, 2}
        BY <1>9, RecordIs DEF FilesInv, FilesTypes
    <2>2. records[i].block.out = 2 => out = 2
        BY <1>5, <1>8, <1>10 DEF OutputOf
    <2> QED
        BY <1>2, <1>7, <1>8, <1>10, <2>1, <2>2
<1>11. kind = "millis" => \A i \in DOMAIN records : records[i].created <= r.created
    <2> SUFFICES ASSUME kind = "millis", NEW i \in DOMAIN records
                 PROVE  records[i].created <= r.created
        OBVIOUS
    <2>1. records[i].created <= Latest
        BY LatestIs
    <2>2. records[i].created \in Nat
        BY <1>9, RecordIs DEF FilesInv, FilesTypes
    <2> QED
        BY <1>3, <1>4, <1>8, <2>1, <2>2
<1>12. RecordsFit(Append(records, r), half) /\ CreatedBy(Append(records, r), writes + 1)
    BY <1>1, <1>2, <1>4, <1>8, <1>10, <1>11, AppendFits
<1>13. PICK new : new = Append(records, r)
    OBVIOUS
<1> QED
    BY <1>2, <1>5, <1>6, <1>12, <1>13, <1>14, WriteKeepsFiles

LEMMA AppendContextKeeps ==
    ASSUME FilesInv, AppendContext
    PROVE  FilesInv'
<1>1. PICK c : c = Context
    OBVIOUS
<1>2. agent = "codex" /\ Write(<<c>>, FALSE)
    BY <1>1 DEF AppendContext
<1>3. writes \in Nat /\ writes < MaxWrites
    BY <1>2 DEF FilesInv, FilesTypes, Write
<1>4. MaxRecords >= 1
    BY FileBounds DEF AppendContext, Size
<1>5. RecordsFit(<<c>>, FALSE)
    BY <1>1, <1>3, <1>4, ContextIs, OneFits
<1>6. CreatedBy(<<c>>, writes + 1)
    BY <1>1, <1>3, ContextIs DEF CreatedBy
<1>7. PICK new : new = <<c>>
    OBVIOUS
<1> QED
    BY <1>2, <1>5, <1>6, <1>7, WriteKeepsFiles

LEMMA TerminateKeeps ==
    ASSUME FilesInv, Terminate
    PROVE  FilesInv'
<1>1. PICK new : new = records
    OBVIOUS
<1>2. Write(new, FALSE)
    BY <1>1 DEF Terminate
<1>3. RecordsFit(new, FALSE)
    BY <1>1 DEF FilesInv, RecordsFit
<1>4. CreatedBy(new, writes + 1)
    <2>1. /\ \A i \in DOMAIN records : records[i].created <= writes + 1 /\ records[i] \in AgentRecords
          /\ named \in BOOLEAN /\ writes \in Nat
        BY DEF FilesInv, CreatedBy, RecordsFit, FilesTypes
    <2>2. \A i \in DOMAIN records : records[i].created \in Nat
        BY <2>1, RecordIs
    <2> QED
        BY <1>1, <2>1, <2>2 DEF CreatedBy
<1> QED
    BY <1>2, <1>3, <1>4, WriteKeepsFiles

\* A record whose output has grown.
LEMMA GrownIs ==
    ASSUME named \in BOOLEAN, NEW r \in AgentRecords, r.place # "context"
    PROVE  \E g \in AgentRecords :
              /\ g = [r EXCEPT !.block.out = 2]
              /\ g.request = r.request /\ g.block.out = 2 /\ g.created = r.created
<1>1. PICK q \in Requests, p \in {"usage", "nested", "long"}, out \in {1, 2}, t \in Nat \ {0} :
         p \in {PlaceOf(q), "long"} /\ r = Record(p, q, out, t)
    BY RecordIs DEF AgentRecords, PlaceOf
<1>2. [r EXCEPT !.block.out = 2] = Record(p, q, 2, t)
    BY <1>1 DEF Record
<1>3. r.request = q /\ r.created = t
    BY <1>1, NewRecord
<1>4. PICK two \in {1, 2} : two = 2
    OBVIOUS
<1>5. PICK g : g = Record(p, q, two, t)
    OBVIOUS
<1>6. g \in AgentRecords /\ g.request = q /\ g.block.out = two /\ g.created = t
    BY <1>1, <1>4, <1>5, NewRecord
<1>7. g = [r EXCEPT !.block.out = 2]
    BY <1>2, <1>4, <1>5
<1> QED
    BY <1>3, <1>4, <1>6, <1>7

LEMMA GrowKeeps ==
    ASSUME FilesInv, Grow
    PROVE  FilesInv'
<1>1. PICK i \in DOMAIN records :
        LET r == [records[i] EXCEPT !.block.out = 2] IN
        /\ r.place # "context" /\ r # records[i] /\ ~tail
        /\ IF kind = "lines"
           THEN Size < MaxRecords /\ Write(Append(records, r), FALSE)
           ELSE Write([records EXCEPT ![i] = r], FALSE)
    BY DEF Grow
<1>2. PICK r : r = [records[i] EXCEPT !.block.out = 2]
    OBVIOUS
<1>3. /\ records \in Seq(AgentRecords) /\ named \in BOOLEAN /\ writes \in Nat
      /\ \A j \in DOMAIN records : records[j] \in AgentRecords /\ records[j].created <= writes + 1
    BY DEF FilesInv, RecordsFit, FilesTypes, CreatedBy
<1>4. \A j \in DOMAIN records : records[j].created \in Nat /\ records[j].block.out \in {0, 1, 2}
    BY <1>3, RecordIs
<1>5. records[i].place # "context"
    BY <1>1, <1>3 DEF AgentRecords, Record, Context
<1>6. /\ r \in AgentRecords /\ r.request = records[i].request /\ r.block.out = 2
      /\ r.created = records[i].created
    <2>1. PICK g \in AgentRecords :
             /\ g = [records[i] EXCEPT !.block.out = 2]
             /\ g.request = records[i].request /\ g.block.out = 2 /\ g.created = records[i].created
        BY <1>3, <1>5, GrownIs
    <2>2. g = r
        BY <1>2, <2>1
    <2> QED
        BY <2>1, <2>2
<1>7. CASE kind = "lines"
    <2>1. Size < MaxRecords /\ Write(Append(records, r), FALSE)
        BY <1>1, <1>2, <1>7
    <2>2. agent = "codex" => records # <<>>
        BY <1>1
    <2>3. \A j \in DOMAIN records : records[j].request = r.request =>
                kind = "lines" /\ records[j].block.out <= r.block.out
        BY <1>4, <1>6, <1>7
    <2>4. kind # "millis" /\ r.created <= writes + 2
        BY <1>3, <1>4, <1>6, <1>7
    <2>5. RecordsFit(Append(records, r), FALSE) /\ CreatedBy(Append(records, r), writes + 1)
        BY <1>6, <2>1, <2>2, <2>3, <2>4, AppendFits
    <2>6. PICK new : new = Append(records, r)
        OBVIOUS
    <2> QED
        BY <2>1, <2>5, <2>6, WriteKeepsFiles
<1>8. CASE kind # "lines"
    <2>1. PICK new : new = [records EXCEPT ![i] = r]
        OBVIOUS
    <2>2. Write(new, FALSE)
        BY <1>1, <1>2, <1>8, <2>1
    <2>3. /\ new \in Seq(AgentRecords) /\ Len(new) = Len(records) /\ DOMAIN new = DOMAIN records
        BY <1>3, <1>6, <2>1
    <2>4. \A j \in DOMAIN new : /\ new[j].request = records[j].request
                               /\ new[j].created = records[j].created
        BY <1>6, <2>1, <2>3
    <2>5. agent # "codex"
        BY <1>8 DEF kind, Kind
    <2>6. /\ Len(records) <= MaxRecords
          /\ \A j, k \in DOMAIN records : j < k =>
                /\ records[j].request # records[k].request
                /\ kind = "millis" => records[j].created <= records[k].created
        BY <1>8 DEF FilesInv, RecordsFit
    <2>7. RecordsFit(new, FALSE)
        BY <2>3, <2>4, <2>5, <2>6 DEF RecordsFit
    <2>8. CreatedBy(new, writes + 1)
        BY <1>3, <1>4, <2>3, <2>4 DEF CreatedBy
    <2> QED
        BY <2>2, <2>7, <2>8, WriteKeepsFiles
<1> QED
    BY <1>7, <1>8

LEMMA ReplaceKeeps ==
    ASSUME FilesInv, Replace
    PROVE  FilesInv'
<1>1. PICK q \in Requests :
        LET r == IF agent = "codex" THEN Context
                 ELSE Record(PlaceOf(q), q, OutputOf(q), Latest + 1) IN
        /\ records # <<>>
        /\ \/ Write(<<r>>, FALSE)
           \/ /\ kind = "count" /\ Size < MaxRecords
              /\ \A i \in DOMAIN records : records[i].request # q
              /\ Write(<<r>> \o records, FALSE)
    BY DEF Replace
<1>2. PICK r : r = IF agent = "codex" THEN Context
                   ELSE Record(PlaceOf(q), q, OutputOf(q), Latest + 1)
    OBVIOUS
<1>3. /\ records \in Seq(AgentRecords) /\ named \in BOOLEAN /\ writes \in Nat
      /\ Len(records) <= MaxRecords /\ MaxRecords \in Nat
      /\ \A j \in DOMAIN records : records[j] \in AgentRecords /\ records[j].created <= writes + 1
    BY FileBounds DEF FilesInv, RecordsFit, FilesTypes, CreatedBy
<1>4. /\ r \in AgentRecords /\ r.created \in Nat /\ r.created <= writes + 2
      /\ agent = "codex" => r = Context
      /\ agent # "codex" => r.request = q
    <2>1. CASE agent = "codex"
        BY <1>2, <1>3, <2>1, ContextIs
    <2>2. CASE agent # "codex"
        <3>1. PICK out : out = OutputOf(q)
            OBVIOUS
        <3>2. PICK t : t = Latest + 1
            OBVIOUS
        <3>3. out \in {1, 2}
            BY <3>1 DEF OutputOf
        <3>4. t \in Nat \ {0} /\ t <= writes + 2
            BY <1>3, <3>2, LatestIs
        <3>7. PICK p : p = PlaceOf(q)
            OBVIOUS
        <3>5. r = Record(p, q, out, t) /\ p \in {PlaceOf(q), "long"}
            BY <1>2, <2>2, <3>1, <3>2, <3>7
        <3>6. r \in AgentRecords /\ r.request = q /\ r.created = t
            BY <3>3, <3>4, <3>5, NewRecord
        <3> QED
            BY <2>2, <3>4, <3>6
    <2> QED
        BY <2>1, <2>2
<1>5. MaxRecords >= 1
    BY <1>1, <1>3
<1>6. CASE Write(<<r>>, FALSE)
    <2>1. writes < MaxWrites
        BY <1>6 DEF Write
    <2>2. RecordsFit(<<r>>, FALSE)
        BY <1>4, <1>5, <2>1, OneFits
    <2>3. CreatedBy(<<r>>, writes + 1)
        BY <1>3, <1>4 DEF CreatedBy
    <2>4. PICK new : new = <<r>>
        OBVIOUS
    <2> QED
        BY <1>6, <2>2, <2>3, <2>4, WriteKeepsFiles
<1>7. CASE /\ kind = "count" /\ Size < MaxRecords
           /\ \A i \in DOMAIN records : records[i].request # q
           /\ Write(<<r>> \o records, FALSE)
    <2>1. agent # "codex" /\ r.request = q
        BY <1>4, <1>7 DEF kind, Kind
    <2>2. PICK new : new = <<r>> \o records
        OBVIOUS
    <2>3. /\ new \in Seq(AgentRecords) /\ Len(new) = Len(records) + 1
          /\ \A j \in DOMAIN new : \/ j = 1 /\ new[j] = r
                                   \/ j > 1 /\ j - 1 \in DOMAIN records /\ new[j] = records[j - 1]
        <3>1. PICK one : one = <<r>>
            OBVIOUS
        <3>2. one \in Seq(AgentRecords) /\ Len(one) = 1 /\ one[1] = r
            BY <1>4, <3>1
        <3>3. PICK S : S = AgentRecords
            OBVIOUS
        <3>4. PICK rs : rs = records
            OBVIOUS
        <3>5. one \in Seq(S) /\ rs \in Seq(S)
            BY <1>3, <3>2, <3>3, <3>4
        <3>6. /\ one \o rs \in Seq(S)
              /\ Len(one \o rs) = Len(one) + Len(rs)
              /\ \A i \in 1 .. Len(one) + Len(rs) : (one \o rs)[i] =
                     IF i <= Len(one) THEN one[i] ELSE rs[i - Len(one)]
            BY <3>5, ConcatProperties
        <3>7. new = one \o records
            BY <2>2, <3>1
        <3>8. new \in Seq(AgentRecords) /\ Len(new) = Len(records) + 1 /\ DOMAIN new = 1 .. Len(records) + 1
            BY <1>3, <3>2, <3>7, <3>3, <3>4, <3>6
        <3>9. \A j \in 1 .. Len(records) + 1 : new[j] = IF j <= 1 THEN one[j] ELSE records[j - 1]
            BY <1>3, <3>2, <3>7, <3>3, <3>4, <3>6
        <3>10. Len(records) \in Nat /\ DOMAIN records = 1 .. Len(records)
            BY <1>3
        <3>11. \A j \in DOMAIN new : j = 1 \/ (j > 1 /\ j - 1 \in DOMAIN records)
            BY <3>8, <3>10
        <3> DEFINE at(j) == \/ j = 1 /\ new[j] = r
                            \/ j > 1 /\ j - 1 \in DOMAIN records /\ new[j] = records[j - 1]
        <3>12. ASSUME NEW j \in DOMAIN new
               PROVE  at(j)
            <4>1. CASE j = 1
                BY <3>2, <3>8, <3>9, <3>10, <4>1
            <4>2. CASE j > 1 /\ j - 1 \in DOMAIN records
                BY <3>8, <3>9, <3>10, <4>2
            <4> QED
                BY <3>11, <4>1, <4>2
        <3> HIDE DEF at
        <3>13. \A j \in DOMAIN new : at(j)
            BY <3>12
        <3> QED
            BY <3>8, <3>13 DEF at
    <2>4. Len(new) <= MaxRecords
        BY <1>3, <1>7, <2>3 DEF Size
    <2>5. \A j, k \in DOMAIN records : j < k => records[j].request # records[k].request
        BY <1>7 DEF FilesInv, RecordsFit
    <2>6. ASSUME NEW j \in DOMAIN new, NEW k \in DOMAIN new, j < k
          PROVE  new[j].request # new[k].request
        <3>1. j \in Nat /\ k \in Nat
            BY <2>3
        <3>2. k > 1 /\ k - 1 \in DOMAIN records /\ new[k] = records[k - 1]
            BY <2>3, <2>6, <3>1
        <3>3. CASE j = 1
            BY <1>7, <2>1, <2>3, <3>2, <3>3
        <3>4. CASE j > 1
            <4>1. j - 1 \in DOMAIN records /\ new[j] = records[j - 1] /\ j - 1 < k - 1
                BY <2>3, <2>6, <3>1, <3>4
            <4> QED
                BY <2>5, <3>2, <4>1
        <3> QED
            BY <2>3, <3>3, <3>4
    <2>7. RecordsFit(new, FALSE)
        BY <1>7, <2>1, <2>3, <2>4, <2>6 DEF RecordsFit
    <2>8. \A j \in DOMAIN records : records[j].created \in Nat
        BY <1>3, RecordIs
    <2>9. CreatedBy(new, writes + 1)
        BY <1>3, <1>4, <2>3, <2>8 DEF CreatedBy
    <2>10. Write(new, FALSE)
        BY <1>7, <2>2
    <2> QED
        BY <2>7, <2>9, <2>10, WriteKeepsFiles
<1> QED
    BY <1>1, <1>2, <1>6, <1>7

LEMMA TearKeeps ==
    ASSUME FilesInv, Tear
    PROVE  FilesInv'
<1>1. /\ kind = "whole" /\ writes < MaxWrites
      /\ torn' = TRUE /\ version' = version + 1 /\ writes' = writes + 1
      /\ UNCHANGED <<agent, place, named, records, tail, mark, stat, stored, behind, resumed>>
    BY DEF Tear, Document
<1>2. FilesTypes /\ RecordsFit(records, tail) /\ CreatedBy(records, writes) /\ StoredFits(stored, resumed)
    BY DEF FilesInv
<1>3. kind' = kind
    BY <1>1, AgentSame
<1>4. FilesTypes'
    <2>1. mark \in Marks /\ stat \in Marks /\ mark.version <= version /\ stat.version <= version
        BY <1>2 DEF FilesTypes
    <2>2. mark.version \in Int /\ stat.version \in Int /\ writes \in Nat /\ version = writes /\ MaxWrites \in Nat
        BY <1>2, <2>1, FileBounds DEF Marks, FilesTypes
    <2>3. /\ mark.version <= version' /\ stat.version <= version' /\ version' = writes'
          /\ writes' \in 0 .. MaxWrites
        BY <1>1, <2>1, <2>2
    <2> QED
        BY <1>1, <1>2, <1>3, <2>1, <2>3 DEF FilesTypes, Marks
<1>5. RecordsFit(records, tail)' /\ StoredFits(stored, resumed)'
    BY <1>1, <1>2, AgentSame
<1>6. CreatedBy(records, writes)'
    <2>1. \A i \in DOMAIN records : records[i].created \in Nat
        BY <1>2, RecordIs DEF RecordsFit, FilesTypes
    <2> QED
        BY <1>1, <1>2, <2>1 DEF CreatedBy, FilesTypes
<1> QED
    BY <1>1, <1>4, <1>5, <1>6 DEF FilesInv

LEMMA AgentWritesKeep ==
    ASSUME FilesInv, AgentWrites
    PROVE  FilesInv'
BY AppendRecordKeeps, AppendContextKeeps, TerminateKeeps, GrowKeeps, ReplaceKeeps, TearKeeps
   DEF AgentWrites

-----------------------------------------------------------------------------
(* Scans *)

LEMMA StatFileKeeps ==
    ASSUME FilesInv, StatFile
    PROVE  FilesInv'
<1>1. /\ stat' = [size |-> Size, version |-> version, offset |-> 0, lines |-> 0]
      /\ UNCHANGED <<agent, place, named, records, tail, torn, version, writes, mark, stored,
                     behind, resumed>>
    BY DEF StatFile, written
<1>2. FilesTypes /\ RecordsFit(records, tail) /\ CreatedBy(records, writes) /\ StoredFits(stored, resumed)
    BY DEF FilesInv
<1>3. kind' = kind /\ RecordsFit(records, tail)' /\ StoredFits(stored, resumed)'
    BY <1>1, <1>2, AgentSame
<1>4. stat' \in Marks /\ stat'.version <= version /\ stat'.size >= 0
    <2>1. /\ Size \in 0 .. MaxRecords /\ version \in 0 .. MaxWrites
          /\ MaxRecords \in Nat /\ MaxWrites \in Nat
        BY <1>2, FileBounds DEF FilesTypes, RecordsFit, Size
    <2> QED
        BY <1>1, <2>1 DEF Marks
<1>5. FilesTypes'
    BY <1>1, <1>2, <1>3, <1>4 DEF FilesTypes, Marks
<1>6. CreatedBy(records, writes)'
    BY <1>1, <1>2 DEF CreatedBy
<1>7. ASSUME Known
      PROVE  Known'
    BY <1>1, <1>3, <1>7, AgentSame DEF Known, Carries, Counted, Ahead
<1> QED
    BY <1>1, <1>3, <1>5, <1>6, <1>7 DEF FilesInv

LEMMA OpenFailsKeeps ==
    ASSUME FilesInv, OpenFails
    PROVE  FilesInv'
<1>1. /\ stat' = Unseen
      /\ UNCHANGED <<agent, place, named, records, tail, torn, version, writes, mark, stored,
                     behind, resumed>>
    BY DEF OpenFails, written
<1>2. FilesTypes /\ RecordsFit(records, tail) /\ CreatedBy(records, writes) /\ StoredFits(stored, resumed)
    BY DEF FilesInv
<1>3. kind' = kind /\ RecordsFit(records, tail)' /\ StoredFits(stored, resumed)'
    BY <1>1, <1>2, AgentSame
<1>4. stat' \in Marks /\ stat'.version <= version
    BY <1>1, <1>2, FileBounds DEF Marks, Unseen, FilesTypes
<1>5. FilesTypes'
    BY <1>1, <1>2, <1>3, <1>4 DEF FilesTypes, Marks
<1>6. CreatedBy(records, writes)'
    BY <1>1, <1>2 DEF CreatedBy
<1>7. ASSUME Known
      PROVE  Known'
    BY <1>1, <1>3, <1>7, AgentSame DEF Known, Carries, Counted, Ahead
<1> QED
    BY <1>1, <1>3, <1>5, <1>6, <1>7 DEF FilesInv

LEMMA LoseStateKeeps ==
    ASSUME FilesInv, LoseState
    PROVE  FilesInv'
<1>1. /\ mark' = Unseen /\ behind' = {}
      /\ UNCHANGED <<agent, place, named, records, tail, torn, version, writes, stat, stored, resumed>>
    BY DEF LoseState, written
<1>2. FilesTypes /\ RecordsFit(records, tail) /\ CreatedBy(records, writes) /\ StoredFits(stored, resumed)
    BY DEF FilesInv
<1>3. kind' = kind /\ RecordsFit(records, tail)' /\ StoredFits(stored, resumed)'
    BY <1>1, <1>2, AgentSame
<1>4. mark' \in Marks /\ mark'.version <= version
    BY <1>1, <1>2, FileBounds DEF Marks, Unseen, FilesTypes
<1>5. FilesTypes'
    BY <1>1, <1>2, <1>3, <1>4 DEF FilesTypes, Marks
<1>6. CreatedBy(records, writes)'
    BY <1>1, <1>2 DEF CreatedBy
<1>7. Unseen' = Unseen
    BY DEF Unseen
<1> QED
    BY <1>1, <1>3, <1>5, <1>6, <1>7 DEF FilesInv

\* A scan keeps the invariant if every row it leaves is known already, was
\* written where the mark had passed, or is still ahead of the new mark.
RestKnown(read) ==
    \A i \in DOMAIN records :
        /\ i \notin read /\ ~torn /\ ~TooLarge
        /\ Carries(records[i]) /\ records[i].request \notin behind'
        /\ ~Ahead(i, records, version)' /\ kind # "table"
        => /\ CountedIn(stored, records[i])
           /\ \A j \in read : records[j].request = records[i].request =>
                 records[i].block.out <= records[j].block.out

RowsFit(byRow, read, middle) == \A i \in read : RowFits(byRow[i], records[i], middle)

LEMMA FinishKeeps ==
    ASSUME FilesInv, NEW byRow, NEW read, read \subseteq DOMAIN records,
           NEW middle \in BOOLEAN, resumed => middle, resumed' = middle,
           RowsFit(byRow, read, middle),
           NEW newMark \in Marks, newMark.version <= version,
           Finish(EventsIn(byRow, read), newMark),
           NEW passed, passed \subseteq Requests, behind' = behind \cup passed,
           RestKnown(read)
    PROVE  FilesInv'
<1>1. /\ stored' = Ingest(DedupEvents(EventsIn(byRow, read)))
      /\ mark' = newMark /\ stat' = Unseen
      /\ UNCHANGED <<agent, place, named, records, tail, torn, version, writes>>
    BY DEF Finish, written
<1>2. FilesTypes /\ RecordsFit(records, tail) /\ CreatedBy(records, writes) /\ StoredFits(stored, resumed)
    BY DEF FilesInv
<1>3. kind' = kind /\ RecordsFit(records, tail)'
    BY <1>1, <1>2, AgentSame
<1>4. stat' \in Marks /\ stat'.version <= version
    BY <1>1, <1>2, FileBounds DEF Marks, Unseen, FilesTypes
<1>5. FilesTypes'
    BY <1>1, <1>2, <1>3, <1>4 DEF FilesTypes, Marks
<1>6. CreatedBy(records, writes)'
    BY <1>1, <1>2 DEF CreatedBy
<1>7. StoredFits(stored, middle)
    BY <1>2 DEF StoredFits
<1>8. PICK after : after = stored'
    OBVIOUS
<1>9. /\ StoredFits(after, middle)
      /\ \A i \in read : Carries(records[i]) => CountedIn(after, records[i])
      /\ \A r \in AgentRecords :
           /\ CountedIn(stored, r)
           /\ \A i \in read : records[i].request = r.request => r.block.out <= records[i].block.out
           => CountedIn(after, r)
    <2>1. named \in BOOLEAN /\ records \in Seq(AgentRecords)
        BY <1>2 DEF FilesTypes, RecordsFit
    <2>2. after = Ingest(DedupEvents(EventsIn(byRow, read)))
        BY <1>1, <1>8
    <2> QED
        BY <1>7, <2>1, <2>2, FinishStores DEF RowsFit
<1>10. StoredFits(stored, resumed)'
    BY <1>1, <1>8, <1>9, AgentSame
<1>11. \A i \in DOMAIN records : Counted(records[i])' <=> CountedIn(after, records[i])
    BY <1>1, <1>8 DEF Counted, CountedIn
<1>12. ASSUME ~torn
       PROVE  Known'
    <2> SUFFICES ASSUME NEW i \in DOMAIN records, Carries(records[i]), records[i].request \notin behind',
                        ~Ahead(i, records, version)', kind # "table", ~TooLarge
                 PROVE  CountedIn(after, records[i])
        <3>1. /\ \A i \in DOMAIN records : Carries(records[i])' <=> Carries(records[i])
              /\ TooLarge' = TooLarge
            BY <1>1, AgentSame
        <3> QED
            BY <1>1, <1>3, <1>11, <3>1 DEF Known, Carries, Counted, Ahead
    <2>1. CASE i \in read
        BY <1>9, <2>1
    <2>2. CASE i \notin read
        <3>1. /\ CountedIn(stored, records[i])
              /\ \A j \in read : records[j].request = records[i].request =>
                    records[i].block.out <= records[j].block.out
            BY <1>12, <2>2 DEF RestKnown
        <3>2. records[i] \in AgentRecords
            BY <1>2 DEF RecordsFit
        <3> QED
            BY <1>9, <3>1, <3>2
    <2> QED
        BY <2>1, <2>2
<1> QED
    BY <1>1, <1>3, <1>5, <1>6, <1>10, <1>12 DEF FilesInv

LEMMA RowMade ==
    ASSUME FilesTypes, NEW r \in AgentRecords, NEW model \in Models, NEW middle,
           agent = "codex" /\ ~middle => model = "m",
           NEW made, made = MadeOf(r, model)
    PROVE  RowFits(made, r, middle)
<1>1. Made(made, r, model)
    BY MadeIs DEF FilesTypes
<1> QED
    BY <1>1 DEF Made, RowFits

\* Rows of one request: the later has no less output.
LEMMA LaterHasMore ==
    ASSUME FilesInv, NEW i \in DOMAIN records, NEW j \in DOMAIN records,
           records[i].request = records[j].request, (kind = "lines" /\ i # j) => i < j
    PROVE  records[i].block.out <= records[j].block.out
<1>1. /\ records[i].block.out \in Nat /\ i \in Nat /\ j \in Nat
    BY RecordIs DEF FilesInv, FilesTypes, RecordsFit
<1>2. \A m, n \in DOMAIN records : m < n /\ records[m].request = records[n].request =>
          kind = "lines" /\ records[m].block.out <= records[n].block.out
    BY DEF FilesInv, RecordsFit
<1>3. CASE i = j
    BY <1>1, <1>3
<1>4. CASE i < j
    BY <1>2, <1>4
<1>5. CASE j < i
    BY <1>1, <1>2, <1>5
<1> QED
    BY <1>1, <1>3, <1>4, <1>5

\* What a scan leaves because the mark has passed it is known.
LEMMA PassedKnown ==
    ASSUME FilesInv, mark # Unseen, ~torn, NEW i \in DOMAIN records, Carries(records[i]),
           records[i].request \notin behind, ~Ahead(i, records, version), kind \notin {"table", "whole"}
    PROVE  CountedIn(stored, records[i])
BY DEF FilesInv, Known, Counted, CountedIn, TooLarge, Document

\* The lines after the offset are read, and the offset moves behind them.
LEMMA LinesKeep ==
    ASSUME FilesInv, kind = "lines", NEW byLine, NEW first, first = ByteOffset(stat.size),
           NEW middle \in BOOLEAN, resumed => middle, resumed' = middle,
           \A i \in first + 1 .. Complete : RowFits(byLine[i], records[i], middle),
           Finish(EventsIn(byLine, first + 1 .. Complete), Commit(Larger(first, Complete), 0)),
           behind' = behind
    PROVE  FilesInv'
<1>1. FilesTypes /\ RecordsFit(records, tail)
    BY DEF FilesInv
<1>2. /\ mark \in Marks /\ stat \in Marks /\ stat.version <= version
      /\ MaxRecords \in Nat /\ MaxWrites \in Nat
    BY <1>1, FileBounds DEF FilesTypes
<1>3. first \in 0 .. MaxRecords /\ mark.offset \in Nat /\ (first # 0 => first = mark.offset)
    BY <1>2 DEF ByteOffset, Marks
<1>4. /\ Len(records) \in Nat /\ Len(records) <= MaxRecords /\ DOMAIN records = 1 .. Len(records)
      /\ tail => Len(records) # 0
    BY <1>1 DEF RecordsFit
<1>5. Complete \in 0 .. Len(records)
    BY <1>4 DEF Complete, Size
<1>6. PICK read : read = first + 1 .. Complete
    OBVIOUS
<1>7. read \subseteq DOMAIN records
    BY <1>3, <1>4, <1>5, <1>6
<1>8. PICK next : next = Larger(first, Complete)
    OBVIOUS
<1>9. next \in 0 .. MaxRecords /\ first <= next /\ Complete <= next /\ (next = first \/ next = Complete)
    BY <1>2, <1>3, <1>4, <1>5, <1>8 DEF Larger
<1>10. PICK newMark : newMark = Commit(next, 0)
    OBVIOUS
<1>11. newMark.offset = next /\ newMark.version = stat.version
    BY <1>10 DEF Commit
<1>12. newMark \in Marks /\ newMark.version <= version
    BY <1>2, <1>9, <1>10 DEF Commit, Marks
<1>13. Finish(EventsIn(byLine, read), newMark)
    BY <1>6, <1>8, <1>10
<1>14. mark' = newMark /\ records' = records /\ agent' = agent
    BY <1>13 DEF Finish, written
<1>15. kind' = "lines" /\ ~torn
    BY <1>1, <1>14 DEF kind, FilesTypes
<1>16. \A i \in DOMAIN records :
            Ahead(i, records, version)' <=> Len(records) < next \/ i > next
    BY <1>11, <1>14, <1>15 DEF Ahead
<1>17. ASSUME NEW i \in DOMAIN records, i \notin read, Carries(records[i]),
              records[i].request \notin behind, ~Ahead(i, records, version)'
       PROVE  /\ CountedIn(stored, records[i])
              /\ \A j \in read : records[j].request = records[i].request =>
                    records[i].block.out <= records[j].block.out
    <2>1. i \in Nat /\ i # 0 /\ i <= Len(records) /\ ~(Len(records) < next) /\ ~(i > next)
        BY <1>4, <1>16, <1>17
    <2>2. i <= first
        BY <1>3, <1>4, <1>5, <1>6, <1>9, <1>17, <2>1
    <2>3. first = mark.offset /\ mark.offset # 0
        BY <1>3, <2>1, <2>2
    <2>4. mark # Unseen
        BY <2>3 DEF Unseen
    <2>5. ~Ahead(i, records, version)
        BY <1>3, <1>4, <1>9, <2>1, <2>2, <2>3 DEF Ahead
    <2>6. CountedIn(stored, records[i])
        BY <1>15, <1>17, <2>4, <2>5, PassedKnown
    <2>7. \A j \in read : j \in DOMAIN records /\ i < j
        BY <1>3, <1>5, <1>6, <1>7, <2>1, <2>2
    <2> QED
        BY <2>6, <2>7, LaterHasMore
<1>18. PICK passed : passed = {}
    OBVIOUS
<1>19. passed \subseteq Requests /\ behind' = behind \cup passed
    BY <1>18
<1>20. RowsFit(byLine, read, middle)
    BY <1>6 DEF RowsFit
<1>21. RestKnown(read)
    BY <1>17, <1>18, <1>19 DEF RestKnown
<1> QED
    BY <1>7, <1>12, <1>13, <1>19, <1>20, <1>21, FinishKeeps

\* The transcripts of lines but Codex's.
LEMMA ScanLinesKeeps ==
    ASSUME FilesInv, kind = "lines", agent # "codex", NEW byLine, ScanLines(byLine),
           \A i \in 1 .. Complete : byLine[i] = MadeOf(records[i], "m")
    PROVE  FilesInv'
<1>1. PICK first : first = ByteOffset(stat.size)
    OBVIOUS
<1>2. PICK middle : middle = resumed
    OBVIOUS
<1>3. /\ Finish(EventsIn(byLine, first + 1 .. Complete), Commit(Larger(first, Complete), 0))
      /\ behind' = behind /\ resumed' = middle
    BY <1>1, <1>2 DEF ScanLines
<1>4. /\ first \in Nat /\ middle \in BOOLEAN /\ FilesTypes
      /\ records \in Seq(AgentRecords)
    BY <1>1, <1>2, FileBounds DEF ByteOffset, FilesInv, FilesTypes, Marks, RecordsFit
<1>5. Complete \in 0 .. Len(records)
    BY <1>4 DEF Complete, Size, FilesInv, RecordsFit
<1>6. ASSUME NEW i \in first + 1 .. Complete
      PROVE  RowFits(byLine[i], records[i], middle)
    <2>1. i \in 1 .. Complete
        BY <1>4, <1>5
    <2>2. records[i] \in AgentRecords
        BY <1>4, <1>5, <2>1
    <2>3. PICK model \in Models : model = "m"
        BY DEF Models
    <2>4. PICK made : made = byLine[i]
        OBVIOUS
    <2>5. PICK r \in AgentRecords : r = records[i]
        BY <2>2
    <2>6. made = MadeOf(r, model)
        BY <2>1, <2>3, <2>4, <2>5
    <2> QED
        BY <1>4, <2>3, <2>4, <2>5, <2>6, RowMade
<1> QED
    BY <1>1, <1>2, <1>3, <1>4, <1>6, LinesKeep

LEMMA LinesAre ==
    ASSUME FilesInv
    PROVE  /\ DOMAIN Lines = DOMAIN records
           /\ \A i \in 1 .. Complete : i \in DOMAIN records /\ Lines[i] = records[i]
<1>1. records \in Seq(AgentRecords) /\ (tail => Len(records) # 0)
    BY DEF FilesInv, RecordsFit
<1>2. PICK n \in Nat : n = Len(records) /\ DOMAIN records = 1 .. n /\ n = Size
    BY <1>1 DEF Size
<1>3. PICK m : m = Complete
    OBVIOUS
<1>4. m = IF tail THEN n - 1 ELSE n
    BY <1>2, <1>3 DEF Complete
<1>5. ASSUME NEW i \in 1 .. m
      PROVE  i \in DOMAIN records /\ ~(tail /\ i = Size)
    <2>1. CASE tail
        BY <1>2, <1>4, <2>1
    <2>2. CASE ~tail
        BY <1>2, <1>4, <2>2
    <2> QED
        BY <2>1, <2>2
<1> QED
    BY <1>3, <1>5 DEF Lines

LEMMA ScanTranscriptKeeps ==
    ASSUME FilesInv,
           \/ ScanClaude \/ ScanCopilot \/ ScanOpenClaw \/ ScanQwen \/ ScanKimi
           \/ ScanFactoryDroid \/ ScanPiAgent \/ ScanRoo \/ ScanCline
           \/ ScanKiroLines \/ ScanKiloLines
    PROVE  FilesInv'
<1>1. \A i \in 1 .. Complete : i \in DOMAIN Lines /\ Lines[i] = records[i]
    BY LinesAre
<1>2. CASE ScanClaude
    <2>1. PICK byLine : byLine = EventsByRow(Lines, ClaudeEvents)
        OBVIOUS
    <2>2. agent = "claude" /\ ScanLines(byLine)
        BY <1>2, <2>1 DEF ScanClaude
    <2>3. \A i \in 1 .. Complete : byLine[i] = MadeOf(records[i], "m")
        BY <1>1, <2>1, <2>2 DEF EventsByRow, MadeOf
    <2>4. kind = "lines"
        BY <2>2 DEF kind, Kind
    <2> QED
        BY <2>2, <2>3, <2>4, ScanLinesKeeps
<1>3. CASE ScanCopilot
    <2>1. PICK byLine : byLine = EventsByRow(Lines, CopilotEvents)
        OBVIOUS
    <2>2. agent = "copilot" /\ ScanLines(byLine)
        BY <1>3, <2>1 DEF ScanCopilot
    <2>3. \A i \in 1 .. Complete : byLine[i] = MadeOf(records[i], "m")
        BY <1>1, <2>1, <2>2 DEF EventsByRow, MadeOf
    <2>4. kind = "lines"
        BY <2>2 DEF kind, Kind
    <2> QED
        BY <2>2, <2>3, <2>4, ScanLinesKeeps
<1>4. CASE ScanOpenClaw
    <2>1. PICK byLine : byLine = EventsByRow(Lines, OpenClawEvents)
        OBVIOUS
    <2>2. agent = "openclaw" /\ ScanLines(byLine)
        BY <1>4, <2>1 DEF ScanOpenClaw
    <2>3. \A i \in 1 .. Complete : byLine[i] = MadeOf(records[i], "m")
        BY <1>1, <2>1, <2>2 DEF EventsByRow, MadeOf
    <2>4. kind = "lines"
        BY <2>2 DEF kind, Kind
    <2> QED
        BY <2>2, <2>3, <2>4, ScanLinesKeeps
<1>5. CASE ScanQwen
    <2>1. PICK byLine : byLine = EventsByRow(Lines, QwenEvents)
        OBVIOUS
    <2>2. agent = "qwen" /\ ScanLines(byLine)
        BY <1>5, <2>1 DEF ScanQwen
    <2>3. \A i \in 1 .. Complete : byLine[i] = MadeOf(records[i], "m")
        BY <1>1, <2>1, <2>2 DEF EventsByRow, MadeOf
    <2>4. kind = "lines"
        BY <2>2 DEF kind, Kind
    <2> QED
        BY <2>2, <2>3, <2>4, ScanLinesKeeps
<1>6. CASE ScanKimi
    <2>1. PICK byLine : byLine = EventsByRow(Lines, KimiEvents)
        OBVIOUS
    <2>2. agent = "kimi" /\ ScanLines(byLine)
        BY <1>6, <2>1 DEF ScanKimi
    <2>3. \A i \in 1 .. Complete : byLine[i] = MadeOf(records[i], "m")
        BY <1>1, <2>1, <2>2 DEF EventsByRow, MadeOf
    <2>4. kind = "lines"
        BY <2>2 DEF kind, Kind
    <2> QED
        BY <2>2, <2>3, <2>4, ScanLinesKeeps
<1>7. CASE ScanFactoryDroid
    <2>1. PICK byLine : byLine = EventsByRow(Lines, FactoryDroidEvents)
        OBVIOUS
    <2>2. agent = "factory-droid" /\ ScanLines(byLine)
        BY <1>7, <2>1 DEF ScanFactoryDroid
    <2>3. \A i \in 1 .. Complete : byLine[i] = MadeOf(records[i], "m")
        BY <1>1, <2>1, <2>2 DEF EventsByRow, MadeOf
    <2>4. kind = "lines"
        BY <2>2 DEF kind, Kind
    <2> QED
        BY <2>2, <2>3, <2>4, ScanLinesKeeps
<1>8. CASE ScanPiAgent
    <2>1. PICK byLine : byLine = EventsByRow(Lines, PiAgentEvents)
        OBVIOUS
    <2>2. agent = "pi-agent" /\ ScanLines(byLine)
        BY <1>8, <2>1 DEF ScanPiAgent
    <2>3. \A i \in 1 .. Complete : byLine[i] = MadeOf(records[i], "m")
        BY <1>1, <2>1, <2>2 DEF EventsByRow, MadeOf
    <2>4. kind = "lines"
        BY <2>2 DEF kind, Kind
    <2> QED
        BY <2>2, <2>3, <2>4, ScanLinesKeeps
<1>9. CASE ScanKiroLines
    <2>1. PICK byLine : byLine = EventsByRow(Lines, KiroLineEvents)
        OBVIOUS
    <2>2. agent = "kiro" /\ ScanLines(byLine)
        BY <1>9, <2>1 DEF ScanKiroLines
    <2>3. \A i \in 1 .. Complete : byLine[i] = MadeOf(records[i], "m")
        BY <1>1, <2>1, <2>2 DEF EventsByRow, MadeOf
    <2>4. kind = "lines"
        BY <2>2 DEF kind, Kind
    <2> QED
        BY <2>2, <2>3, <2>4, ScanLinesKeeps
<1>10. CASE ScanKiloLines
    <2>1. PICK byLine : byLine = EventsByRow(Lines, KiloLineEvents)
        OBVIOUS
    <2>2. agent = "kilo" /\ ScanLines(byLine)
        BY <1>10, <2>1 DEF ScanKiloLines
    <2>3. \A i \in 1 .. Complete : byLine[i] = MadeOf(records[i], "m")
        BY <1>1, <2>1, <2>2 DEF EventsByRow, MadeOf
    <2>4. kind = "lines"
        BY <2>2 DEF kind, Kind
    <2> QED
        BY <2>2, <2>3, <2>4, ScanLinesKeeps
<1>11. CASE ScanRoo
    <2>1. PICK byLine : byLine = EventsByRow(Lines, LAMBDA r : TaskEvents("roo", r))
        OBVIOUS
    <2>2. agent = "roo" /\ ScanLines(byLine)
        BY <1>11, <2>1 DEF ScanRoo
    <2>3. \A i \in 1 .. Complete : byLine[i] = MadeOf(records[i], "m")
        BY <1>1, <2>1, <2>2 DEF EventsByRow, MadeOf
    <2>4. kind = "lines"
        BY <2>2 DEF kind, Kind
    <2> QED
        BY <2>2, <2>3, <2>4, ScanLinesKeeps
<1>12. CASE ScanCline
    <2>1. PICK byLine : byLine = EventsByRow(Lines, LAMBDA r : TaskEvents("cline", r))
        OBVIOUS
    <2>2. agent = "cline" /\ ScanLines(byLine)
        BY <1>12, <2>1 DEF ScanCline
    <2>3. \A i \in 1 .. Complete : byLine[i] = MadeOf(records[i], "m")
        BY <1>1, <2>1, <2>2 DEF EventsByRow, MadeOf
    <2>4. kind = "lines"
        BY <2>2 DEF kind, Kind
    <2> QED
        BY <2>2, <2>3, <2>4, ScanLinesKeeps
<1> QED
    BY <1>2, <1>3, <1>4, <1>5, <1>6, <1>7, <1>8, <1>9, <1>10, <1>11, <1>12

LEMMA GreatestRow ==
    ASSUME NEW n \in Nat, NEW S, S \subseteq 0 .. n, S # {}
    PROVE  Max(S) \in S
<1> DEFINE T == {n - k : k \in S}
<1>1. T \in SUBSET Nat /\ T # {}
    <2>1. \A k \in S : k \in 0 .. n
        OBVIOUS
    <2>2. \A k \in S : n - k \in Nat
        BY <2>1
    <2> QED
        BY <2>2
<1>2. PICK t \in T : \A u \in T : t <= u
    BY <1>1, LeastRow
<1>3. PICK x \in S : t = n - x
    BY <1>2
<1>4. \A y \in S : x >= y
    <2> SUFFICES ASSUME NEW y \in S
                 PROVE  x >= y
        OBVIOUS
    <2>1. n - y \in T
        OBVIOUS
    <2>2. n - x <= n - y
        BY <1>2, <1>3, <2>1
    <2> QED
        BY <2>2
<1> QED
    BY <1>4 DEF Max

\* The lines from the start of the file tell the model; those from the middle
\* may not, and none tells a directory.
LEMMA ContextTold ==
    ASSUME FilesInv, agent = "codex", NEW first \in Nat, NEW i \in first + 1 .. Complete,
           NEW context, context = CodexContext(Lines, first + 1 .. i)
    PROVE  \E model \in Models : /\ context = [model |-> model, cwd |-> NoText]
                                 /\ first = 0 => model = "m"
<1>1. /\ named \in BOOLEAN /\ records \in Seq(AgentRecords)
      /\ records # <<>> => records[1] = Context
    BY DEF FilesInv, FilesTypes, RecordsFit
<1>2. Complete \in Int
    BY <1>1 DEF Complete, Size
<1>3. i \in Nat /\ first + 1 .. i \subseteq 1 .. Complete /\ first + 1 .. i \subseteq 0 .. i
      /\ 1 \in 1 .. Complete
    BY <1>2
<1>4. \A k \in first + 1 .. i : Lines[k] = records[k] /\ k \in DOMAIN records
    BY <1>3, LinesAre
<1>5. \A k \in first + 1 .. i : Lines[k]["cwd"] = NoText /\ Lines[k]["model"] = "m"
    <2>1. \A k \in first + 1 .. i : records[k] \in AgentRecords
        BY <1>1, <1>4
    <2>2. \A k \in first + 1 .. i : records[k].cwd = NoText /\ records[k].model = "m"
        BY <1>1, <2>1, RecordIs
    <2> QED
        BY <1>4, <2>2
<1>6. LastText(Lines, first + 1 .. i, "cwd") = NoText
    <2>1. {k \in first + 1 .. i : Lines[k].place = "context" /\ Lines[k]["cwd"] # NoText} = {}
        BY <1>5
    <2> QED
        BY <2>1 DEF LastText
<1>7. PICK with : with = {k \in first + 1 .. i : Lines[k].place = "context" /\ Lines[k]["model"] # NoText}
    OBVIOUS
<1>8. PICK model : model = IF with = {} THEN NoText ELSE Lines[Max(with)]["model"]
    OBVIOUS
<1>9. LastText(Lines, first + 1 .. i, "model") = model
    BY <1>7, <1>8 DEF LastText
<1>10. with # {} => model = "m"
    <2> SUFFICES ASSUME with # {}
                 PROVE  model = "m"
        OBVIOUS
    <2>1. with \subseteq 0 .. i
        BY <1>3, <1>7
    <2>2. Max(with) \in with
        BY <1>3, <2>1, GreatestRow
    <2>3. Max(with) \in first + 1 .. i
        BY <1>7, <2>2
    <2> QED
        BY <1>5, <1>8, <2>3
<1>11. first = 0 => with # {}
    <2> SUFFICES ASSUME first = 0
                 PROVE  1 \in with
        OBVIOUS
    <2>1. 1 \in first + 1 .. i
        BY <1>3
    <2>2. Lines[1] = records[1] /\ 1 \in DOMAIN records
        BY <1>4, <2>1
    <2>3. Lines[1] = Context
        BY <1>1, <2>2
    <2>4. Lines[1].place = "context"
        BY <2>3 DEF Context, Record
    <2> QED
        BY <1>5, <1>7, <2>1, <2>4 DEF NoText
<1>12. context = [model |-> model, cwd |-> NoText]
    BY <1>6, <1>9 DEF CodexContext
<1>13. model \in Models
    BY <1>8, <1>10 DEF Models
<1> QED
    BY <1>10, <1>11, <1>12, <1>13

LEMMA ScanCodexKeeps ==
    ASSUME FilesInv, ScanCodex
    PROVE  FilesInv'
<1>1. PICK first : first = ByteOffset(stat.size)
    OBVIOUS
<1>2. PICK byLine : byLine = [i \in DOMAIN Lines |-> CodexEvents(Lines[i], CodexContext(Lines, first + 1 .. i))]
    OBVIOUS
<1>3. PICK middle : middle = (resumed \/ (first > 0 /\ first < Complete))
    OBVIOUS
<1>4. /\ agent = "codex"
      /\ Finish(EventsIn(byLine, first + 1 .. Complete), Commit(Larger(first, Complete), 0))
      /\ resumed' = middle /\ behind' = behind
    BY <1>1, <1>2, <1>3 DEF ScanCodex
<1>5. /\ first \in Nat /\ FilesTypes /\ resumed \in BOOLEAN /\ records \in Seq(AgentRecords)
    BY <1>1, FileBounds DEF ByteOffset, FilesInv, FilesTypes, Marks, RecordsFit
<1>6. middle \in BOOLEAN /\ (resumed => middle)
    BY <1>3
<1>7. Complete \in Int /\ DOMAIN records = 1 .. Len(records) /\ kind = "lines"
    BY <1>4, <1>5 DEF Complete, Size, kind, Kind
<1>8. ASSUME NEW i \in first + 1 .. Complete
      PROVE  RowFits(byLine[i], records[i], middle)
    <2>1. i \in 1 .. Complete
        BY <1>5, <1>7
    <2>2. i \in DOMAIN Lines /\ Lines[i] = records[i] /\ i \in DOMAIN records
        BY <2>1, LinesAre
    <2>3. PICK context : context = CodexContext(Lines, first + 1 .. i)
        OBVIOUS
    <2>4. PICK model \in Models : /\ context = [model |-> model, cwd |-> NoText]
                                  /\ first = 0 => model = "m"
        BY <1>4, <1>5, <2>3, ContextTold
    <2>5. ~middle => model = "m"
        <3>1. first < Complete
            BY <1>5, <1>7
        <3>2. ~middle => ~(first > 0)
            BY <1>3, <3>1
        <3>3. first > 0 \/ first = 0
            BY <1>5
        <3> QED
            BY <2>4, <3>2, <3>3
    <2>6. PICK r \in AgentRecords : r = records[i]
        BY <1>5, <2>2
    <2>7. PICK made : made = byLine[i]
        OBVIOUS
    <2>8. made = MadeOf(r, model)
        BY <1>2, <1>4, <2>2, <2>3, <2>4, <2>6, <2>7 DEF MadeOf
    <2> QED
        BY <1>5, <2>4, <2>5, <2>6, <2>7, <2>8, RowMade
<1> QED
    BY <1>1, <1>4, <1>6, <1>7, <1>8, LinesKeep

LEMMA RowsMade ==
    ASSUME FilesInv, agent # "codex", NEW middle,
           NEW byRow, \A i \in DOMAIN records : byRow[i] = MadeOf(records[i], "m")
    PROVE  \A i \in DOMAIN records : RowFits(byRow[i], records[i], middle)
<1> SUFFICES ASSUME NEW i \in DOMAIN records
             PROVE  RowFits(byRow[i], records[i], middle)
    OBVIOUS
<1>1. FilesTypes /\ records[i] \in AgentRecords
    BY DEF FilesInv, RecordsFit
<1>2. PICK model \in Models : model = "m"
    BY DEF Models
<1>3. PICK made : made = byRow[i]
    OBVIOUS
<1>4. PICK r \in AgentRecords : r = records[i]
    BY <1>1
<1>5. made = MadeOf(r, model)
    BY <1>2, <1>3, <1>4
<1> QED
    BY <1>1, <1>2, <1>3, <1>4, <1>5, RowMade

LEMMA SizeIs ==
    ASSUME FilesInv
    PROVE  /\ FilesTypes /\ records \in Seq(AgentRecords)
           /\ Size \in Nat /\ Size <= MaxRecords /\ MaxRecords \in Nat /\ MaxWrites \in Nat
           /\ DOMAIN records = 1 .. Size
           /\ mark \in Marks /\ stat \in Marks /\ stat.version <= version /\ resumed \in BOOLEAN
           /\ \A i \in DOMAIN records : records[i] \in AgentRecords /\ records[i].request \in Requests
           /\ \A i \in DOMAIN records : records[i].created \in Nat /\ records[i].created # 0
BY RecordIs, FileBounds DEF FilesInv, FilesTypes, RecordsFit, Size

\* The rows after the largest row id are read, and the mark keeps the largest.
LEMMA ScanRowsKeeps ==
    ASSUME FilesInv, kind = "rowid", NEW byRow, ScanRows(byRow),
           \A i \in DOMAIN records : byRow[i] = MadeOf(records[i], "m")
    PROVE  FilesInv'
<1>1. PICK n \in 0 .. Size :
        /\ Finish(EventsIn(byRow, Rowid + 1 .. n), Commit(Larger(Rowid, n), 0))
        /\ behind' = behind /\ resumed' = resumed
    BY DEF ScanRows
<1>2. PICK middle : middle = resumed
    OBVIOUS
<1>3. PICK first : first = Rowid
    OBVIOUS
<1>4. PICK next : next = Larger(first, n)
    OBVIOUS
<1>5. PICK newMark : newMark = Commit(next, 0)
    OBVIOUS
<1>6. PICK read : read = first + 1 .. n
    OBVIOUS
<1>7. PICK passed : passed = {}
    OBVIOUS
<1>8. /\ first \in 0 .. MaxRecords /\ n \in Nat /\ n <= MaxRecords /\ first = mark.offset
    BY <1>3, SizeIs DEF Rowid, Marks
<1>9. next \in 0 .. MaxRecords /\ first <= next /\ n <= next
    BY <1>4, <1>8, SizeIs DEF Larger
<1>10. newMark.offset = next /\ newMark \in Marks /\ newMark.version <= version
    BY <1>5, <1>9, SizeIs, FileBounds DEF Commit, Marks
<1>11. read \subseteq DOMAIN records
    BY <1>6, <1>8, SizeIs
<1>12. Finish(EventsIn(byRow, read), newMark)
    BY <1>1, <1>3, <1>4, <1>5, <1>6
<1>13. mark' = newMark /\ kind' = "rowid" /\ agent # "codex"
    BY <1>12 DEF Finish, written, kind, Kind
<1>14. RowsFit(byRow, read, middle)
    BY <1>11, <1>13, RowsMade DEF RowsFit
<1>15. ASSUME NEW i \in DOMAIN records, i \notin read, ~torn, Carries(records[i]),
              records[i].request \notin behind, ~Ahead(i, records, version)'
       PROVE  /\ CountedIn(stored, records[i])
              /\ \A j \in read : records[j].request = records[i].request =>
                    records[i].block.out <= records[j].block.out
    <2>1. ~(i > next) /\ i \in Nat /\ i # 0
        BY <1>10, <1>13, <1>15, SizeIs DEF Ahead
    <2>2. i <= first
        BY <1>4, <1>6, <1>8, <1>15, <2>1 DEF Larger
    <2>3. mark.offset # 0 /\ mark # Unseen
        BY <1>8, <2>1, <2>2 DEF Unseen
    <2>4. ~Ahead(i, records, version)
        BY <1>8, <2>1, <2>2 DEF Ahead
    <2>5. CountedIn(stored, records[i])
        BY <1>15, <2>3, <2>4, PassedKnown
    <2>6. \A j \in read : j \in DOMAIN records
        BY <1>11
    <2> QED
        BY <2>5, <2>6, LaterHasMore
<1>16. passed \subseteq Requests /\ behind' = behind \cup passed /\ middle \in BOOLEAN /\ resumed' = middle
    BY <1>1, <1>2, <1>7, SizeIs
<1>17. resumed => middle
    BY <1>2
<1>18. RestKnown(read)
    BY <1>1, <1>15 DEF RestKnown
<1> QED
    BY <1>10, <1>11, <1>12, <1>14, <1>16, <1>17, <1>18, FinishKeeps

\* The first rows of the table are read each time.
LEMMA ScanCursorTableKeeps ==
    ASSUME FilesInv, ScanCursorTable
    PROVE  FilesInv'
<1>1. PICK n \in 0 .. Size :
        /\ agent = "cursor-db"
        /\ Finish(EventsIn(EventsByRow(records, CursorRowEvents),
                           1 .. IF n < StateRows THEN n ELSE StateRows), Commit(0, 0))
        /\ behind' = behind /\ resumed' = resumed
    BY DEF ScanCursorTable
<1>2. PICK middle : middle = resumed
    OBVIOUS
<1>3. PICK byRow : byRow = EventsByRow(records, CursorRowEvents)
    OBVIOUS
<1>4. PICK read : read = 1 .. IF n < StateRows THEN n ELSE StateRows
    OBVIOUS
<1>5. PICK newMark : newMark = Commit(0, 0)
    OBVIOUS
<1>6. PICK passed : passed = {}
    OBVIOUS
<1>7. newMark \in Marks /\ newMark.version <= version
    BY <1>5, SizeIs DEF Commit, Marks
<1>8. read \subseteq DOMAIN records
    BY <1>4, SizeIs, FileBounds
<1>9. Finish(EventsIn(byRow, read), newMark)
    BY <1>1, <1>3, <1>4, <1>5
<1>10. \A i \in DOMAIN records : byRow[i] = MadeOf(records[i], "m")
    BY <1>1, <1>3 DEF EventsByRow, MadeOf
<1>11. RowsFit(byRow, read, middle)
    BY <1>1, <1>8, <1>10, RowsMade DEF RowsFit
<1>12. RestKnown(read)
    BY <1>1 DEF kind, Kind, RestKnown
<1>13. passed \subseteq Requests /\ behind' = behind \cup passed /\ middle \in BOOLEAN /\ resumed' = middle
    BY <1>1, <1>2, <1>6, SizeIs
<1>14. resumed => middle
    BY <1>2
<1> QED
    BY <1>7, <1>8, <1>9, <1>11, <1>12, <1>13, <1>14, FinishKeeps

\* An export's rows after those counted are read.
LEMMA ScanCursorExportKeeps ==
    ASSUME FilesInv, ScanCursorExport
    PROVE  FilesInv'
<1>1. PICK first : first = RowCount(stat.size)
    OBVIOUS
<1>2. PICK byRow : byRow = EventsByRow(records, CursorExportEvents)
    OBVIOUS
<1>3. PICK middle : middle = resumed
    OBVIOUS
<1>4. PICK read : read = first + 1 .. Size
    OBVIOUS
<1>5. PICK newMark : newMark = IF Size > first THEN Commit(0, Size) ELSE mark
    OBVIOUS
<1>6. PICK passed : passed = {}
    OBVIOUS
<1>7. /\ agent = "cursor-csv" /\ Finish(EventsIn(byRow, read), newMark)
      /\ behind' = behind /\ resumed' = resumed
    BY <1>1, <1>2, <1>4, <1>5 DEF ScanCursorExport
<1>8. /\ mark.lines \in Nat /\ mark.size \in Int /\ stat.size \in Int /\ first \in Nat
      /\ first # 0 => first = mark.lines /\ stat.size >= mark.size
    BY <1>1, SizeIs, FileBounds DEF RowCount, Marks
<1>9. newMark \in Marks /\ newMark.version <= version
    <2>1. Commit(0, Size) \in Marks /\ Commit(0, Size).version <= version
        BY SizeIs DEF Commit, Marks
    <2>2. mark \in Marks /\ mark.version <= version
        BY DEF FilesInv, FilesTypes
    <2> QED
        BY <1>5, <2>1, <2>2
<1>10. read \subseteq DOMAIN records
    BY <1>4, <1>8, SizeIs
<1>11. \A i \in DOMAIN records : byRow[i] = MadeOf(records[i], "m")
    BY <1>2, <1>7 DEF EventsByRow, MadeOf
<1>12. RowsFit(byRow, read, middle)
    BY <1>7, <1>10, <1>11, RowsMade DEF RowsFit
<1>13. mark' = newMark /\ records' = records /\ kind = "count" /\ kind' = "count"
    BY <1>7 DEF Finish, written, kind, Kind
<1>14. ASSUME NEW i \in DOMAIN records, i \notin read, ~torn, Carries(records[i]),
              records[i].request \notin behind, ~Ahead(i, records, version)'
       PROVE  /\ CountedIn(stored, records[i])
              /\ \A j \in read : records[j].request = records[i].request =>
                    records[i].block.out <= records[j].block.out
    <2>1. i \in Nat /\ i # 0 /\ i <= Size /\ i <= first /\ Size \in Nat
        BY <1>4, <1>8, <1>14, SizeIs
    <2>2. first = mark.lines /\ stat.size >= mark.size /\ mark.lines # 0
        BY <1>8, <2>1
    <2>3. mark # Unseen
        BY <2>2 DEF Unseen
    <2>4. ~(Size < newMark.size)
        BY <1>13, <1>14 DEF Ahead, Size
    <2>5. ~(Size < mark.size)
        <3>1. CASE Size > first
            <4>1. newMark.size = stat.size
                BY <1>5, <3>1 DEF Commit
            <4> QED
                BY <1>8, <2>1, <2>2, <2>4, <4>1
        <3>2. CASE ~(Size > first)
            BY <1>5, <2>4, <3>2
        <3> QED
            BY <3>1, <3>2
    <2>6. ~Ahead(i, records, version)
        BY <1>8, <1>13, <2>1, <2>2, <2>5 DEF Ahead, Size
    <2>7. CountedIn(stored, records[i])
        BY <1>13, <1>14, <2>3, <2>6, PassedKnown
    <2>8. \A j \in read : j \in DOMAIN records
        BY <1>10
    <2> QED
        BY <1>13, <2>7, <2>8, LaterHasMore
<1>15. passed \subseteq Requests /\ behind' = behind \cup passed /\ middle \in BOOLEAN /\ resumed' = middle
    BY <1>3, <1>6, <1>7, SizeIs
<1>16. resumed => middle
    BY <1>3
<1>17. RestKnown(read)
    BY <1>7, <1>14 DEF RestKnown
<1> QED
    BY <1>7, <1>9, <1>10, <1>12, <1>15, <1>16, <1>17, FinishKeeps

\* The rows later than the latest time read are read, in the order of time; of
\* those with the time of the last one the rest is passed.
LEMMA ScanOpenCodeKeeps ==
    ASSUME FilesInv, ScanOpenCode
    PROVE  FilesInv'
<1>1. PICK n \in 0 .. Size :
        /\ agent = "opencode"
        /\ Finish(EventsIn(EventsByRow(records, OpenCodeEvents),
                           {i \in 1 .. n : records[i].created > MaxUnixMillis(stat.size)}),
                  Commit(0, Watermark(n)))
        /\ resumed' = resumed
        /\ behind' = behind \cup {records[i].request :
                        i \in {i \in n + 1 .. Size : n > 0 /\ records[i].created = records[n].created}}
    BY DEF ScanOpenCode
<1>2. PICK first : first = MaxUnixMillis(stat.size)
    OBVIOUS
<1>3. PICK byRow : byRow = EventsByRow(records, OpenCodeEvents)
    OBVIOUS
<1>4. PICK read : read = {i \in 1 .. n : records[i].created > first}
    OBVIOUS
<1>5. PICK last : last = IF n = 0 THEN 0 ELSE records[n].created
    OBVIOUS
<1>6. PICK next : next = Larger(first, last)
    OBVIOUS
<1>7. PICK newMark : newMark = Commit(0, next)
    OBVIOUS
<1>8. PICK passed : passed = {records[i].request :
            i \in {i \in n + 1 .. Size : n > 0 /\ records[i].created = records[n].created}}
    OBVIOUS
<1>9. PICK middle : middle = resumed
    OBVIOUS
<1>10. n \in Nat /\ n <= Size /\ Size \in Nat /\ DOMAIN records = 1 .. Size
    BY <1>1, SizeIs
<1>11. /\ mark.lines \in 0 .. MaxWrites + MaxRecords + 1 /\ mark.size \in Int /\ stat.size \in Int
       /\ first \in {0, mark.lines} /\ MaxWrites \in Nat /\ MaxRecords \in Nat
       /\ first # 0 => first = mark.lines /\ stat.size >= mark.size
    BY <1>2, SizeIs DEF MaxUnixMillis, Marks
<1>12. last \in 0 .. MaxWrites + 1
    <2>1. CASE n = 0
        BY <1>5, <1>11, <2>1
    <2>2. CASE n # 0
        <3>1. n \in DOMAIN records /\ last = records[n].created
            BY <1>5, <1>10, <2>2
        <3>2. records[n].created \in Nat /\ records[n].created <= writes + 1
            BY <3>1, SizeIs DEF FilesInv, CreatedBy
        <3>3. writes \in 0 .. MaxWrites
            BY SizeIs DEF FilesTypes
        <3> QED
            BY <1>11, <3>1, <3>2, <3>3
    <2> QED
        BY <2>1, <2>2
<1>13. /\ next \in 0 .. MaxWrites + MaxRecords + 1 /\ next \in {first, last}
       /\ first <= next /\ last <= next
    BY <1>6, <1>11, <1>12 DEF Larger
<1>14. newMark \in Marks /\ newMark.version <= version /\ newMark.lines = next /\ newMark.size = stat.size
    BY <1>7, <1>13, SizeIs DEF Commit, Marks
<1>15. read \subseteq DOMAIN records
    BY <1>4, <1>10
<1>16. Finish(EventsIn(byRow, read), newMark)
    BY <1>1, <1>2, <1>3, <1>4, <1>5, <1>6, <1>7 DEF Watermark
<1>17. \A i \in DOMAIN records : byRow[i] = MadeOf(records[i], "m")
    BY <1>1, <1>3 DEF EventsByRow, MadeOf
<1>18. RowsFit(byRow, read, middle)
    BY <1>1, <1>15, <1>17, RowsMade DEF RowsFit
<1>19. mark' = newMark /\ records' = records /\ kind = "millis" /\ kind' = "millis"
    BY <1>1, <1>16 DEF Finish, written, kind, Kind
<1>20. passed \subseteq Requests /\ behind' = behind \cup passed
    <2>1. \A i \in n + 1 .. Size : i \in DOMAIN records
        BY <1>10
    <2>2. \A i \in n + 1 .. Size : records[i].request \in Requests
        BY <2>1, SizeIs
    <2> QED
        BY <1>1, <1>8, <2>2
<1>21. ASSUME NEW i \in DOMAIN records, i \notin read, ~torn, Carries(records[i]),
              records[i].request \notin behind', ~Ahead(i, records, version)'
       PROVE  /\ CountedIn(stored, records[i])
              /\ \A j \in read : records[j].request = records[i].request =>
                    records[i].block.out <= records[j].block.out
    <2>1. i \in Nat /\ i # 0 /\ i <= Size /\ records[i].created \in Nat /\ records[i].created # 0
        BY <1>10, SizeIs
    <2>2. ~(Size < stat.size) /\ records[i].created <= next
        BY <1>11, <1>13, <1>14, <1>19, <1>21, <2>1 DEF Ahead, Size
    <2>3. records[i].created <= first
        <3>1. CASE i <= n
            BY <1>4, <1>10, <1>11, <1>21, <2>1, <3>1
        <3>2. CASE i > n /\ n = 0
            BY <1>5, <1>11, <1>13, <2>1, <2>2, <3>2
        <3>3. CASE i > n /\ n # 0
            <4>1. n \in DOMAIN records /\ records[n].created \in Nat /\ last = records[n].created
                BY <1>5, <1>10, <3>3, SizeIs
            <4>2. records[n].created <= records[i].created
                BY <1>19, <3>3, <4>1 DEF FilesInv, RecordsFit
            <4>3. records[i].created # records[n].created
                <5>1. i \in n + 1 .. Size /\ n > 0
                    BY <1>10, <2>1, <3>3
                <5>2. records[i].request \notin passed
                    BY <1>20, <1>21
                <5> QED
                    BY <1>8, <5>1, <5>2
            <4> QED
                BY <1>13, <2>1, <2>2, <4>1, <4>2, <4>3
        <3> QED
            BY <1>10, <2>1, <3>1, <3>2, <3>3
    <2>4. first = mark.lines /\ stat.size >= mark.size /\ mark.lines # 0
        BY <1>11, <2>1, <2>3
    <2>5. mark # Unseen
        BY <2>4 DEF Unseen
    <2>6. ~(Size < mark.size)
        BY <1>10, <1>11, <2>2, <2>4
    <2>7. ~(records[i].created > mark.lines)
        BY <1>11, <2>1, <2>3, <2>4
    <2>8. ~Ahead(i, records, version)
        BY <1>19, <2>6, <2>7 DEF Ahead, Size
    <2>9. CountedIn(stored, records[i])
        BY <1>19, <1>20, <1>21, <2>5, <2>8, PassedKnown
    <2>10. \A j \in read : j \in DOMAIN records
        BY <1>15
    <2> QED
        BY <1>19, <2>9, <2>10, LaterHasMore
<1>22. middle \in BOOLEAN /\ resumed' = middle /\ (resumed => middle)
    BY <1>1, <1>9, SizeIs
<1>23. RestKnown(read)
    BY <1>21 DEF RestKnown
<1> QED
    BY <1>14, <1>15, <1>16, <1>18, <1>20, <1>22, <1>23, FinishKeeps

\* A query for threads that fails passes the rest of them.
LEMMA ScanZedKeeps ==
    ASSUME FilesInv, ScanZed
    PROVE  FilesInv'
<1>1. PICK n \in 0 .. Size :
        /\ agent = "zed" /\ stat # Unseen
        /\ Finish(EventsIn(EventsByRow(records, ZedEvents), 1 .. n), Commit(stat.size, 0))
        /\ resumed' = resumed
        /\ behind' = behind \cup {records[i].request : i \in n + 1 .. Size}
    BY DEF ScanZed
<1>2. PICK byRow : byRow = EventsByRow(records, ZedEvents)
    OBVIOUS
<1>3. PICK read : read = 1 .. n
    OBVIOUS
<1>4. PICK newMark : newMark = Commit(stat.size, 0)
    OBVIOUS
<1>5. PICK passed : passed = {records[i].request : i \in n + 1 .. Size}
    OBVIOUS
<1>6. PICK middle : middle = resumed
    OBVIOUS
<1>7. n \in Nat /\ n <= Size /\ Size \in Nat /\ DOMAIN records = 1 .. Size
    BY <1>1, SizeIs
<1>8. newMark \in Marks /\ newMark.version <= version
    BY <1>1, <1>4, SizeIs DEF Commit, Marks, FilesTypes
<1>9. read \subseteq DOMAIN records
    BY <1>3, <1>7
<1>10. Finish(EventsIn(byRow, read), newMark)
    BY <1>1, <1>2, <1>3, <1>4
<1>11. \A i \in DOMAIN records : byRow[i] = MadeOf(records[i], "m")
    BY <1>1, <1>2 DEF EventsByRow, MadeOf
<1>12. RowsFit(byRow, read, middle)
    BY <1>1, <1>9, <1>11, RowsMade DEF RowsFit
<1>13. passed \subseteq Requests /\ behind' = behind \cup passed
    <2>1. \A i \in n + 1 .. Size : i \in DOMAIN records
        BY <1>7
    <2>2. \A i \in n + 1 .. Size : records[i].request \in Requests
        BY <2>1, SizeIs
    <2> QED
        BY <1>1, <1>5, <2>2
<1>14. \A i \in DOMAIN records : i \in read \/ records[i].request \in behind'
    <2>1. \A i \in DOMAIN records : i \in read \/ i \in n + 1 .. Size
        BY <1>3, <1>7
    <2> QED
        BY <1>5, <1>13, <2>1
<1>15. middle \in BOOLEAN /\ resumed' = middle /\ (resumed => middle)
    BY <1>1, <1>6, SizeIs
<1>16. RestKnown(read)
    BY <1>14 DEF RestKnown
<1> QED
    BY <1>8, <1>9, <1>10, <1>12, <1>13, <1>15, <1>16, FinishKeeps

\* A document is read whole, or not at all while it does not parse or is too large.
LEMMA ScanDocumentKeeps ==
    ASSUME FilesInv, agent # "codex", NEW byRow, DOMAIN byRow = DOMAIN records, ScanDocument(byRow),
           \A i \in DOMAIN records : byRow[i] = MadeOf(records[i], "m")
    PROVE  FilesInv'
<1>1. PICK read : read = IF torn \/ TooLarge THEN {} ELSE DOMAIN records
    OBVIOUS
<1>2. PICK newMark : newMark = Commit(stat.size, 0)
    OBVIOUS
<1>3. PICK middle : middle = resumed
    OBVIOUS
<1>4. PICK passed : passed = {}
    OBVIOUS
<1>5. EventsIn(byRow, read) = IF torn \/ TooLarge THEN {} ELSE EventsIn(byRow, DOMAIN byRow)
    <2>1. CASE torn \/ TooLarge
        BY <1>1, <2>1 DEF EventsIn
    <2>2. CASE ~(torn \/ TooLarge)
        BY <1>1, <2>2
    <2> QED
        BY <2>1, <2>2
<1>6. /\ stat # Unseen /\ Finish(EventsIn(byRow, read), newMark)
      /\ behind' = behind /\ resumed' = resumed
    BY <1>2, <1>5 DEF ScanDocument
<1>7. newMark \in Marks /\ newMark.version <= version
    BY <1>2, <1>6, SizeIs DEF Commit, Marks, FilesTypes
<1>8. read \subseteq DOMAIN records /\ \A i \in DOMAIN records : i \notin read => torn \/ TooLarge
    BY <1>1
<1>9. RowsFit(byRow, read, middle)
    BY <1>8, RowsMade DEF RowsFit
<1>10. passed \subseteq Requests /\ behind' = behind \cup passed
    BY <1>4, <1>6
<1>11. middle \in BOOLEAN /\ resumed' = middle /\ (resumed => middle)
    BY <1>3, <1>6, SizeIs
<1>12. RestKnown(read)
    BY <1>8 DEF RestKnown
<1> QED
    BY <1>6, <1>7, <1>8, <1>9, <1>10, <1>11, <1>12, FinishKeeps

\* A document that cannot be read is passed.
LEMMA DecodeFailsKeeps ==
    ASSUME FilesInv, DecodeFails
    PROVE  FilesInv'
<1>1. PICK byRow : byRow = <<>>
    OBVIOUS
<1>2. PICK read : read = {}
    OBVIOUS
<1>3. PICK newMark : newMark = Commit(stat.size, 0)
    OBVIOUS
<1>4. PICK middle : middle = resumed
    OBVIOUS
<1>5. PICK passed : passed = {records[i].request : i \in DOMAIN records}
    OBVIOUS
<1>6. EventsIn(byRow, read) = {}
    BY <1>2 DEF EventsIn
<1>7. /\ stat # Unseen /\ Finish(EventsIn(byRow, read), newMark)
      /\ behind' = behind \cup passed /\ resumed' = middle
    BY <1>3, <1>4, <1>5, <1>6 DEF DecodeFails
<1>8. newMark \in Marks /\ newMark.version <= version
    BY <1>3, <1>7, SizeIs DEF Commit, Marks, FilesTypes
<1>9. passed \subseteq Requests /\ middle \in BOOLEAN /\ (resumed => middle)
    BY <1>4, <1>5, SizeIs
<1>10. read \subseteq DOMAIN records /\ RowsFit(byRow, read, middle)
    BY <1>2 DEF RowsFit
<1>11. RestKnown(read)
    BY <1>5, <1>7 DEF RestKnown
<1> QED
    BY <1>7, <1>8, <1>9, <1>10, <1>11, FinishKeeps

LEMMA ScanDatabaseKeeps ==
    ASSUME FilesInv,
           ScanGoose \/ ScanHermes \/ ScanOctofriend \/ ScanKiroRows \/ ScanKiloRows
    PROVE  FilesInv'
<1>1. CASE ScanGoose
    <2>1. PICK byRow : byRow = EventsByRow(records, GooseEvents)
        OBVIOUS
    <2>2. agent = "goose" /\ ScanRows(byRow)
        BY <1>1, <2>1 DEF ScanGoose
    <2>3. \A i \in DOMAIN records : byRow[i] = MadeOf(records[i], "m")
        BY <2>1, <2>2 DEF EventsByRow, MadeOf
    <2>4. kind = "rowid"
        BY <2>1, <2>2 DEF kind, Kind, EventsByRow
    <2> QED
        BY <2>2, <2>3, <2>4, ScanRowsKeeps
<1>2. CASE ScanHermes
    <2>1. PICK byRow : byRow = EventsByRow(records, HermesEvents)
        OBVIOUS
    <2>2. agent = "hermes" /\ ScanRows(byRow)
        BY <1>2, <2>1 DEF ScanHermes
    <2>3. \A i \in DOMAIN records : byRow[i] = MadeOf(records[i], "m")
        BY <2>1, <2>2 DEF EventsByRow, MadeOf
    <2>4. kind = "rowid"
        BY <2>1, <2>2 DEF kind, Kind, EventsByRow
    <2> QED
        BY <2>2, <2>3, <2>4, ScanRowsKeeps
<1>3. CASE ScanOctofriend
    <2>1. PICK byRow : byRow = EventsByRow(records, OctofriendEvents)
        OBVIOUS
    <2>2. agent = "octofriend" /\ ScanRows(byRow)
        BY <1>3, <2>1 DEF ScanOctofriend
    <2>3. \A i \in DOMAIN records : byRow[i] = MadeOf(records[i], "m")
        BY <2>1, <2>2 DEF EventsByRow, MadeOf
    <2>4. kind = "rowid"
        BY <2>1, <2>2 DEF kind, Kind, EventsByRow
    <2> QED
        BY <2>2, <2>3, <2>4, ScanRowsKeeps
<1>4. CASE ScanKiroRows
    <2>1. PICK byRow : byRow = EventsByRow(records, KiroRowEvents)
        OBVIOUS
    <2>2. agent = "kiro-db" /\ ScanRows(byRow)
        BY <1>4, <2>1 DEF ScanKiroRows
    <2>3. \A i \in DOMAIN records : byRow[i] = MadeOf(records[i], "m")
        BY <2>1, <2>2 DEF EventsByRow, MadeOf
    <2>4. kind = "rowid"
        BY <2>1, <2>2 DEF kind, Kind, EventsByRow
    <2> QED
        BY <2>2, <2>3, <2>4, ScanRowsKeeps
<1>5. CASE ScanKiloRows
    <2>1. PICK byRow : byRow = EventsByRow(records, KiloRowEvents)
        OBVIOUS
    <2>2. agent = "kilo-db" /\ ScanRows(byRow)
        BY <1>5, <2>1 DEF ScanKiloRows
    <2>3. \A i \in DOMAIN records : byRow[i] = MadeOf(records[i], "m")
        BY <2>1, <2>2 DEF EventsByRow, MadeOf
    <2>4. kind = "rowid"
        BY <2>1, <2>2 DEF kind, Kind, EventsByRow
    <2> QED
        BY <2>2, <2>3, <2>4, ScanRowsKeeps
<1> QED
    BY <1>1, <1>2, <1>3, <1>4, <1>5

LEMMA ScanJSONKeeps ==
    ASSUME FilesInv,
           ScanGemini \/ ScanAmp \/ ScanCrush
    PROVE  FilesInv'
<1>1. CASE ScanGemini
    <2>1. PICK byRow : byRow = EventsByRow(records, GeminiEvents)
        OBVIOUS
    <2>2. agent = "gemini" /\ ScanDocument(byRow)
        BY <1>1, <2>1 DEF ScanGemini
    <2>3. \A i \in DOMAIN records : byRow[i] = MadeOf(records[i], "m")
        BY <2>1, <2>2 DEF EventsByRow, MadeOf
    <2>4. DOMAIN byRow = DOMAIN records
        BY <2>1, <2>2 DEF kind, Kind, EventsByRow
    <2> QED
        BY <2>2, <2>3, <2>4, ScanDocumentKeeps
<1>2. CASE ScanAmp
    <2>1. PICK byRow : byRow = EventsByRow(records, AmpEvents)
        OBVIOUS
    <2>2. agent = "amp" /\ ScanDocument(byRow)
        BY <1>2, <2>1 DEF ScanAmp
    <2>3. \A i \in DOMAIN records : byRow[i] = MadeOf(records[i], "m")
        BY <2>1, <2>2 DEF EventsByRow, MadeOf
    <2>4. DOMAIN byRow = DOMAIN records
        BY <2>1, <2>2 DEF kind, Kind, EventsByRow
    <2> QED
        BY <2>2, <2>3, <2>4, ScanDocumentKeeps
<1>3. CASE ScanCrush
    <2>1. PICK byRow : byRow = EventsByRow(records, CrushEvents)
        OBVIOUS
    <2>2. agent = "crush" /\ ScanDocument(byRow)
        BY <1>3, <2>1 DEF ScanCrush
    <2>3. \A i \in DOMAIN records : byRow[i] = MadeOf(records[i], "m")
        BY <2>1, <2>2 DEF EventsByRow, MadeOf
    <2>4. DOMAIN byRow = DOMAIN records
        BY <2>1, <2>2 DEF kind, Kind, EventsByRow
    <2> QED
        BY <2>2, <2>3, <2>4, ScanDocumentKeeps
<1> QED
    BY <1>1, <1>2, <1>3

-----------------------------------------------------------------------------
(* Theorems *)

LEMMA FilesInit ==
    ASSUME AgentFilesInit
    PROVE  FilesInv
<1>1. Unseen \in Marks
    BY FileBounds DEF Unseen, Marks
<1>2. FilesTypes
    <2>1. /\ mark = Unseen /\ stat = Unseen /\ version = 0 /\ writes = 0 /\ torn = FALSE
          /\ agent \in Agents /\ place \in Places /\ named \in BOOLEAN /\ tail \in BOOLEAN
          /\ resumed \in BOOLEAN /\ behind \subseteq Requests
        BY DEF AgentFilesInit
    <2>2. Unseen.version = 0
        BY DEF Unseen
    <2>3. writes \in 0 .. MaxWrites
        BY <2>1, FileBounds
    <2>4. mark.version <= version /\ stat.version <= version /\ version = writes
        BY <2>1, <2>2
    <2>5. mark \in Marks /\ stat \in Marks /\ ~(stat # Unseen) /\ ~torn
        BY <1>1, <2>1
    <2>6. tail \in BOOLEAN /\ torn \in BOOLEAN /\ resumed \in BOOLEAN /\ behind \subseteq Requests
        BY <2>1
    <2> QED
        BY <2>1, <2>3, <2>4, <2>5, <2>6 DEF FilesTypes
<1>3. RecordsFit(records, tail)
    BY FileBounds DEF AgentFilesInit, RecordsFit
<1>4. CreatedBy(records, writes) /\ StoredFits(stored, resumed) /\ mark = Unseen
    BY DEF AgentFilesInit, CreatedBy, StoredFits
<1> QED
    BY <1>2, <1>3, <1>4 DEF FilesInv

LEMMA FilesStep ==
    ASSUME FilesInv, [AgentFilesNext]_agentFileVars
    PROVE  FilesInv'
<1>1. CASE AgentWrites
    BY <1>1, AgentWritesKeep
<1>2. CASE StatFile
    BY <1>2, StatFileKeeps
<1>3. CASE OpenFails \/ DecodeFails
    BY <1>3, OpenFailsKeeps, DecodeFailsKeeps
<1>4. CASE LoseState
    BY <1>4, LoseStateKeeps
<1>5. CASE ScanFile
    BY <1>5, ScanTranscriptKeeps, ScanCodexKeeps, ScanDatabaseKeeps, ScanOpenCodeKeeps,
       ScanCursorExportKeeps, ScanCursorTableKeeps, ScanZedKeeps, ScanJSONKeeps DEF ScanFile
<1>6. CASE UNCHANGED agentFileVars
    <2>1. UNCHANGED <<agent, place, named, records, tail, torn, version, mark, stat, stored,
                      behind, resumed, writes>>
        BY <1>6 DEF agentFileVars
    <2>2. FilesTypes /\ RecordsFit(records, tail) /\ CreatedBy(records, writes) /\ StoredFits(stored, resumed)
        BY DEF FilesInv
    <2>3. kind' = kind /\ RecordsFit(records, tail)' /\ StoredFits(stored, resumed)'
        BY <2>1, <2>2, AgentSame
    <2>4. FilesTypes' /\ CreatedBy(records, writes)'
        BY <2>1, <2>2, <2>3 DEF FilesTypes, Marks, CreatedBy
    <2>5. ASSUME Known
          PROVE  Known'
        BY <2>1, <2>3, <2>5, AgentSame DEF Known, Carries, Counted, Ahead
    <2> QED
        BY <2>1, <2>3, <2>4, <2>5 DEF FilesInv
<1> QED
    BY <1>1, <1>2, <1>3, <1>4, <1>5, <1>6 DEF AgentFilesNext

LEMMA FilesAlways == AgentFilesSpec => []FilesInv
<1>1. AgentFilesInit => FilesInv
    BY FilesInit
<1>2. FilesInv /\ [AgentFilesNext]_agentFileVars => FilesInv'
    BY FilesStep
<1> QED
    BY <1>1, <1>2, PTL DEF AgentFilesSpec

\* What the mark of a file passes is stored with its present output or will be
\* read again, whatever the agent writes and whenever, but for what it wrote
\* where the mark had passed, what a failing read passed, and the lines,
\* documents and rows beyond the collector's limits.
THEOREM ScanMissesOnlyPassedAlways == AgentFilesSpec => []ScanMissesOnlyPassed
<1>1. FilesInv => ScanMissesOnlyPassed
    BY FilesImply
<1> QED
    BY <1>1, FilesAlways, PTL

\* A request is stored once and its input is counted once, however often its
\* records are read, copied or lost from the collector's state.
THEOREM UsageCountedOnceAlways == AgentFilesSpec => []UsageCountedOnce
<1>1. FilesInv => UsageCountedOnce
    BY FilesImply
<1> QED
    BY <1>1, FilesAlways, PTL
=============================================================================
