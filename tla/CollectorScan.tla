---------------------------- MODULE CollectorScan ---------------------------
(***************************************************************************)
(* The usage collector (cmd/collect): agents append usage lines to their    *)
(* JSONL transcripts, a collector reads what lies behind the byte offset it *)
(* remembers for each file, posts the deduplicated events, and then saves   *)
(* the offsets for its next run.  Collectors may overlap: they share the    *)
(* state file, the temporary file it is written to, and the server.         *)
(*                                                                          *)
(* All lines are equally long, so an offset counts lines; an unterminated   *)
(* line is half of one.  A batch of Post is one event: a larger batch is    *)
(* stored in one statement.                                                 *)
(***************************************************************************)
EXTENDS Integers, Sequences

CONSTANTS
    Collectors,  \* collector processes that may run at the same time
    Files,       \* transcripts, all in the directories of adapters
    Ids,         \* event ids
    Home,        \* Home[m]: the transcript the event m is written to
    MaxOut,      \* bound on the output tokens of an event
    MaxLines,    \* bound on the length of a transcript; starting over uses up one
    MaxRewrites, \* bound on how often a transcript starts over
    MaxFaults,   \* bound on the number of faults
    Setups       \* [collectors, ids, watch]: who runs, what the agents write, and
                 \* whether with --watch --once=false, cycle after cycle

ASSUME HomeAssumption == Home \in [Ids -> Files]
ASSUME SetupsAssumption ==
    Setups \subseteq [collectors : SUBSET Collectors, ids : SUBSET Ids,
                      watch : BOOLEAN]
ASSUME BoundsAssumption ==
    /\ MaxOut \in Nat \ {0} /\ MaxLines \in Nat
    /\ MaxRewrites \in Nat /\ MaxFaults \in Nat

VARIABLES
    setup,     \* the setup that is checked
    lines,     \* lines[f]: the complete lines of a transcript
    partial,   \* partial[f]: a line without its newline follows
    gen,       \* history: how often a transcript was started over
    ledger,    \* usage_events: the output tokens stored for an event, or 0
    disk,      \* the content of the state file
    tmp,       \* the content of its temporary file, or NoFile
    pc,        \* what each collector does
    mem,       \* mem[c]: the entries of the State in memory
    size,      \* size[c][f]: the size scanJSONLIncremental took
    todo,      \* todo[c][f]: the rest of the scan of a file
    found,     \* found[c]: events read and not yet acknowledged
    fd,        \* where the file is that each collector has opened to write
    overlapped, \* history: two collectors have run at the same time
    dropped,   \* history: ids a watch went on without after a failed post
    faults

agents == <<setup, lines, partial, gen>>
files == <<disk, tmp, fd>>
history == <<overlapped, dropped>>
scan == <<size, todo>>
vars == <<setup, lines, partial, gen, ledger, disk, tmp, pc, mem, size, todo, found,
          fd, overlapped, dropped, faults>>

Events == [id : Ids, out : 1 .. MaxOut]
\* FileState.  gen and whole are history: the start of the transcript the entry
\* was last read from, and whether all lines before the offset were read then.
Entries == [offset : Nat, gen : Nat, whole : BOOLEAN]
NoEntry == [offset |-> 0, gen |-> 0, whole |-> TRUE]
NoEntries == [f \in Files |-> NoEntry]

\* What a state file holds: nothing, a State, or bytes that are none.
Empty == [kind |-> "empty", state |-> NoEntries]
Mixed == [kind |-> "mixed", state |-> NoEntries]
NoFile == [kind |-> "none", state |-> NoEntries]
Whole(S) == [kind |-> "state", state |-> S]
Contents == [kind : {"empty", "mixed", "state"}, state : [Files -> Entries]]

TypeOK ==
    /\ setup \in Setups
    /\ lines \in [Files -> Seq(Events)]
    /\ partial \in [Files -> BOOLEAN]
    /\ gen \in [Files -> Nat]
    /\ ledger \in [Ids -> 0 .. MaxOut]
    /\ disk \in Contents
    /\ tmp \in Contents \cup {NoFile}
    /\ pc \in [Collectors -> {"off", "scan", "post", "write", "rename", "sleep"}]
    /\ mem \in [Collectors -> [Files -> Entries]]
    /\ size \in [Collectors -> [Files -> Nat]]
    /\ todo \in [Collectors -> [Files -> {"stat", "read", "done"}]]
    /\ found \in [Collectors -> SUBSET Events]
    /\ fd \in [Collectors -> {"none", "tmp", "state", "gone"}]
    /\ overlapped \in BOOLEAN
    /\ dropped \subseteq Ids
    /\ faults \in Nat

Init ==
    /\ setup \in Setups
    /\ lines = [f \in Files |-> << >>]
    /\ partial = [f \in Files |-> FALSE]
    /\ gen = [f \in Files |-> 0]
    /\ ledger = [m \in Ids |-> 0]
    /\ disk = Empty
    /\ tmp = NoFile
    /\ pc = [c \in Collectors |-> "off"]
    /\ mem = [c \in Collectors |-> NoEntries]
    /\ size = [c \in Collectors |-> [f \in Files |-> 0]]
    /\ todo = [c \in Collectors |-> [f \in Files |-> "done"]]
    /\ found = [c \in Collectors |-> {}]
    /\ fd = [c \in Collectors |-> "none"]
    /\ overlapped = FALSE
    /\ dropped = {}
    /\ faults = 0

-----------------------------------------------------------------------------
(* The agents.                                                              *)

BeginLine(f) ==
    /\ ~partial[f]
    /\ Len(lines[f]) + gen[f] < MaxLines
    /\ partial' = [partial EXCEPT ![f] = TRUE]
    /\ UNCHANGED <<setup, lines, gen, ledger, files, pc, mem, scan, found, history,
                   faults>>

\* An agent writes an event several times, with more and more output tokens.
EndLine(f, e) ==
    /\ partial[f]
    /\ e.id \in setup.ids /\ Home[e.id] = f
    /\ \A i \in 1 .. Len(lines[f]) : lines[f][i].id = e.id => lines[f][i].out <= e.out
    /\ lines' = [lines EXCEPT ![f] = Append(@, e)]
    /\ partial' = [partial EXCEPT ![f] = FALSE]
    /\ UNCHANGED <<setup, gen, ledger, files, pc, mem, scan, found, history, faults>>

\* The transcript is replaced by a new one.
Rewrite(f) ==
    /\ lines[f] # << >>
    /\ gen[f] < MaxRewrites
    /\ gen' = [gen EXCEPT ![f] = @ + 1]
    /\ lines' = [lines EXCEPT ![f] = << >>]
    /\ partial' = [partial EXCEPT ![f] = FALSE]
    /\ UNCHANGED <<setup, ledger, files, pc, mem, scan, found, history, faults>>

FileSize(f) == 2 * Len(lines[f]) + (IF partial[f] THEN 1 ELSE 0)

-----------------------------------------------------------------------------
(* A cycle: scan, post, save.                                               *)

BeginScan(c, entries) ==
    /\ pc' = [pc EXCEPT ![c] = "scan"]
    /\ mem' = [mem EXCEPT ![c] = entries]
    /\ todo' = [todo EXCEPT ![c] = [f \in Files |-> "stat"]]
    /\ UNCHANGED <<agents, ledger, files, size, found, dropped, faults>>

\* LoadState fails on a file that is not JSON; an empty one is a fresh start.
Start(c) ==
    /\ pc[c] = "off" /\ c \in setup.collectors
    /\ disk.kind # "mixed"
    /\ BeginScan(c, disk.state)
    /\ overlapped' = (overlapped \/ \E d \in Collectors \ {c} : pc[d] # "off")

\* The next cycle of a watch uses the State the last one left in memory.
Wake(c) ==
    /\ pc[c] = "sleep"
    /\ BeginScan(c, mem[c])
    /\ UNCHANGED overlapped

\* A cycle ends; only a watch goes on.
EndCycle(c) ==
    /\ pc' = [pc EXCEPT ![c] = IF setup.watch THEN "sleep" ELSE "off"]
    /\ found' = [found EXCEPT ![c] = {}]
    /\ mem' = [mem EXCEPT ![c] = IF setup.watch THEN @ ELSE NoEntries]

Fault == faults < MaxFaults /\ faults' = faults + 1

Stat(c, f) ==
    /\ pc[c] = "scan" /\ todo[c][f] = "stat"
    /\ size' = [size EXCEPT ![c][f] = FileSize(f)]
    /\ todo' = [todo EXCEPT ![c][f] = "read"]
    /\ UNCHANGED <<agents, ledger, files, pc, mem, found, history, faults>>

\* os.Stat or os.Open fails: an error in the report, and no entry.
StatFails(c, f) ==
    /\ pc[c] = "scan" /\ todo[c][f] = "stat"
    /\ Fault
    /\ todo' = [todo EXCEPT ![c][f] = "done"]
    /\ UNCHANGED <<agents, ledger, files, pc, mem, size, found, history>>

\* Mutant: the size of the file is not looked at.
ResumeAtOffset(c, f) == mem[c][f].offset

\* ByteOffset: a file smaller than what was consumed is read from its start.
Resume(c, f) ==
    IF size[c][f] < 2 * mem[c][f].offset THEN 0 ELSE mem[c][f].offset

\* The complete lines behind the offset, and CommitBytes; the offset stays
\* behind the end of a file that has shrunk since it was stat'ed.
Read(c, f) ==
    LET from == Resume(c, f)
        to == IF Len(lines[f]) > from THEN Len(lines[f]) ELSE from
        old == mem[c][f]
    IN  /\ pc[c] = "scan" /\ todo[c][f] = "read"
        /\ found' = [found EXCEPT ![c] =
                        @ \cup {lines[f][i] : i \in from + 1 .. Len(lines[f])}]
        /\ mem' = [mem EXCEPT ![c][f] =
                [offset |-> to, gen |-> gen[f],
                 whole |-> \/ from = 0
                           \/ old.gen = gen[f] /\ old.whole]]
        /\ todo' = [todo EXCEPT ![c][f] = "done"]
        /\ size' = [size EXCEPT ![c][f] = 0]
        /\ UNCHANGED <<agents, ledger, files, pc, history, faults>>

\* Mutant: the first event of an id is kept, which is the smallest.
DedupKeepsFirst(S) == {e \in S : \A d \in S : d.id = e.id => d.out >= e.out}

\* Dedup keeps one event for each id, with the most output tokens.
Dedup(S) == {e \in S : \A d \in S : d.id = e.id => d.out <= e.out}

\* All adapters are done.
EndScan(c) ==
    /\ pc[c] = "scan"
    /\ \A f \in Files : todo[c][f] = "done"
    /\ pc' = [pc EXCEPT ![c] = "post"]
    /\ found' = [found EXCEPT ![c] = Dedup(@)]
    /\ UNCHANGED <<agents, ledger, files, mem, scan, history, faults>>

\* The server's upsert: the last write wins.
Upsert(e) ==
    /\ ledger' = [ledger EXCEPT ![e.id] = e.out]
    /\ dropped' = dropped \ {e.id}

\* A batch is stored and acknowledged.
PostBatch(c, e) ==
    /\ pc[c] = "post" /\ e \in found[c]
    /\ Upsert(e)
    /\ found' = [found EXCEPT ![c] = @ \ {e}]
    /\ UNCHANGED <<agents, files, pc, mem, scan, overlapped, faults>>

\* A batch is stored but the answer is lost: it is sent again, or Post fails.
PostUnanswered(c, e) ==
    /\ pc[c] = "post" /\ e \in found[c]
    /\ Fault
    /\ Upsert(e)
    /\ UNCHANGED <<agents, files, pc, mem, scan, found, overlapped>>

\* The retries of a batch are used up, or its status is final: the other
\* batches are cancelled, and the state is not saved.
PostFails(c) ==
    /\ pc[c] = "post" /\ found[c] # {}
    /\ Fault
    /\ EndCycle(c)
    /\ dropped' = IF setup.watch THEN dropped \cup {e.id : e \in found[c]}
                  ELSE dropped
    /\ UNCHANGED <<agents, ledger, files, scan, overlapped>>

\* Mutant: the state is saved after the scan, whatever is not posted yet.
SaveBeforePost(c) ==
    /\ pc[c] = "post"
    /\ pc' = [pc EXCEPT ![c] = "write"]
    /\ tmp' = Empty
    /\ fd' = [fd EXCEPT ![c] = "tmp"]
    /\ UNCHANGED <<agents, ledger, disk, mem, scan, found, history, faults>>

\* Save: WriteFile opens and truncates the temporary file, ...
SaveOpen(c) ==
    /\ pc[c] = "post" /\ found[c] = {}
    /\ pc' = [pc EXCEPT ![c] = "write"]
    /\ tmp' = Empty
    /\ fd' = [fd EXCEPT ![c] = "tmp"]
    /\ UNCHANGED <<agents, ledger, disk, mem, scan, found, history, faults>>

\* ... writes it (another collector may have renamed it), ...
WriteTo(c, content) ==
    /\ tmp' = IF fd[c] = "tmp" THEN content ELSE tmp
    /\ disk' = IF fd[c] = "state" THEN content ELSE disk
    /\ fd' = [fd EXCEPT ![c] = "none"]

\* What another collector has written to the same file may show behind it.
Written(c) ==
    LET before == IF fd[c] = "state" THEN disk ELSE tmp
    IN  IF before.kind = "empty" THEN {Whole(mem[c])} ELSE {Whole(mem[c]), Mixed}

SaveWrite(c) ==
    /\ pc[c] = "write"
    /\ \E content \in Written(c) : WriteTo(c, content)
    /\ pc' = [pc EXCEPT ![c] = "rename"]
    /\ UNCHANGED <<agents, ledger, mem, scan, found, history, faults>>

\* Mutant: the error of WriteFile is not looked at.
SaveWriteFailsUnnoticed(c) ==
    /\ pc[c] = "write"
    /\ Fault
    /\ WriteTo(c, Mixed)
    /\ pc' = [pc EXCEPT ![c] = "rename"]
    /\ UNCHANGED <<agents, ledger, mem, scan, found, history>>

\* ... or some of it, when the disk is full; ...
SaveWriteFails(c) ==
    /\ pc[c] = "write"
    /\ Fault
    /\ WriteTo(c, Mixed)
    /\ EndCycle(c)
    /\ UNCHANGED <<agents, ledger, scan, history>>

\* ... and renames it.  A failed Save is a warning.
SaveRename(c) ==
    /\ pc[c] = "rename"
    /\ IF tmp = NoFile
       THEN UNCHANGED files
       ELSE /\ disk' = tmp
            /\ tmp' = NoFile
            /\ fd' = [d \in Collectors |-> CASE fd[d] = "tmp" -> "state"
                                             [] fd[d] = "state" -> "gone"
                                             [] OTHER -> fd[d]]
    /\ EndCycle(c)
    /\ UNCHANGED <<agents, ledger, scan, history, faults>>

\* A collector is killed.
Crash(c) ==
    /\ pc[c] # "off"
    /\ Fault
    /\ pc' = [pc EXCEPT ![c] = "off"]
    /\ found' = [found EXCEPT ![c] = {}]
    /\ mem' = [mem EXCEPT ![c] = NoEntries]
    /\ size' = [size EXCEPT ![c] = [f \in Files |-> 0]]
    /\ todo' = [todo EXCEPT ![c] = [f \in Files |-> "done"]]
    /\ fd' = [fd EXCEPT ![c] = "none"]
    /\ UNCHANGED <<agents, ledger, disk, tmp, history>>

-----------------------------------------------------------------------------

AgentStep(f) == BeginLine(f) \/ Rewrite(f) \/ \E e \in Events : EndLine(f, e)

CollectorStep(c) ==
    \/ Start(c) \/ Wake(c)
    \/ \E f \in Files : Stat(c, f) \/ Read(c, f)
    \/ EndScan(c)
    \/ \E e \in Events : PostBatch(c, e)
    \/ SaveOpen(c) \/ SaveWrite(c) \/ SaveRename(c)

CollectorFault(c) ==
    \/ \E f \in Files : StatFails(c, f)
    \/ \E e \in Events : PostUnanswered(c, e)
    \/ PostFails(c) \/ SaveWriteFails(c) \/ Crash(c)

Next ==
    \/ \E f \in Files : AgentStep(f)
    \/ \E c \in Collectors : CollectorStep(c) \/ CollectorFault(c)

Spec == Init /\ [][Next]_vars

\* Collectors are run again and again, by a schedule or a watch.
FairSpec == Spec /\ \A c \in Collectors : WF_vars(CollectorStep(c))

-----------------------------------------------------------------------------
(* Properties.                                                              *)

\* The lines an entry says are consumed, if the entry is of the transcript as
\* it is now and no line was jumped over.
Consumed(f, entry) ==
    IF entry.gen = gen[f] /\ entry.whole
    THEN {lines[f][i] : i \in 1 .. entry.offset}
    ELSE {}

\* What the state file says is consumed, the server has, however collectors
\* overlap, crash and fail to post or save: main.go saves after the post only.
\* The exception are the events of a post that failed in a watch.
SavedMeansStored ==
    \A f \in Files : \A e \in Consumed(f, disk.state[f]) :
        ledger[e.id] > 0 \/ e.id \in dropped

\* "Persist state only after a successful post so a failed post is retried"
\* (main.go), without the exception.
FailedPostRetried ==
    \A f \in Files : \A e \in Consumed(f, disk.state[f]) : ledger[e.id] > 0

\* Unless collectors overlap, the server has the largest count of every event
\* the state file says is consumed, whatever posts failed or were repeated:
\* Dedup keeps the largest count, and later scans find larger ones.
CountsFinalUnlessOverlapped ==
    overlapped \/ \A f \in Files : \A e \in Consumed(f, disk.state[f]) :
        ledger[e.id] >= e.out \/ e.id \in dropped

\* Save writes and renames: unless collectors overlap, no crash and no full
\* disk leaves a state file that LoadState refuses.
StateReadableUnlessOverlapped == overlapped \/ disk.kind # "mixed"

\* A transcript that was started over and has grown past the offset of the
\* one before is taken for its continuation.
Jumped(f) ==
    LET entry == disk.state[f]
    IN  entry.gen = gen[f] /\ ~entry.whole /\ entry.offset <= Len(lines[f])

\* Every complete line of every transcript is counted in the end, unless
\* collectors have overlapped, the transcript was taken for another one, or a
\* watch has dropped the event.  This is for a transcript that started over,
\* too: ByteOffset notices that it has shrunk.
EventuallyCounted ==
    <>[](\/ overlapped
         \/ \A f \in Files : \/ Jumped(f)
                             \/ \A i \in 1 .. Len(lines[f]) :
                                    LET e == lines[f][i]
                                    IN  ledger[e.id] >= e.out \/ e.id \in dropped)
=============================================================================
