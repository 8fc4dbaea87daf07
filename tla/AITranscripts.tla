--------------------------- MODULE AITranscripts ---------------------------
(***************************************************************************)
(* The AI activity that stint sends with its heartbeats (internal/stintcli, *)
(* ai_*.go): a scan reads the transcripts of coding agents from a mark on,  *)
(* sends a heartbeat for each session with what was counted, and records    *)
(* the newest activity it has seen as the next mark.  Editors start stint   *)
(* for every heartbeat, so scans overlap.                                   *)
(*                                                                          *)
(* A transcript holds entries: lines, messages, rows, tool calls.  What a   *)
(* heartbeat says of a session is abstracted to the entries whose tokens or *)
(* edits it counts.  Time is in ticks, Second of which make the second that *)
(* a mark is cut to.  The server keeps one heartbeat of an entity and time. *)
(*                                                                          *)
(* Not here: beside the heartbeat of a session there is one for each file   *)
(* it edited, but none after the twentieth.                                 *)
(***************************************************************************)
EXTENDS Integers, FiniteSets, Sequences, FiniteSetsExt

CONSTANTS
    Transcripts, \* files and databases of the agents, numbered as they are read
    Others,      \* transcripts of one line of JSON with a time: a bound
    Scans,       \* invocations of stint at a time, numbered: the first free number starts
    Overlapping, \* formats for which scans overlap: a bound
    Second,      \* ticks in a second
    Lookback,    \* ticks a first scan goes back
    TokenWindow,      \* ticks between a chat of Continue and its tokens
    Delay,       \* ticks until an entry is written: a bound
    Earliest,    \* the first tick of an entry: a bound
    Limit,       \* rows a database query returns: 5000
    MaxTime,     \* bound on the clock
    MaxStops,    \* bound on the scans that are stopped
    MaxEntries   \* bound on the entries

ASSUME TranscriptsAssumption ==
    /\ Transcripts \subseteq Nat \ {0} /\ Transcripts # {} /\ Others \subseteq Transcripts
    /\ \A n \in {Second, Lookback, Limit, Earliest, MaxTime, MaxEntries} : n \in Nat \ {0}
    /\ 2 * Second - 1 <= MaxTime
    /\ TokenWindow \in Nat /\ Delay \in Nat /\ MaxStops \in Nat /\ Scans \subseteq Nat

VARIABLES
    kind,     \* the format of each transcript
    names,    \* the session ids each transcript carries, under several keys
    entries,  \* the entries, in the order they appeared
    mtime,    \* when each transcript was last written
    torn,     \* transcripts that a scan fails on: see Torn
    over,     \* files that a scan passes over: see Outgrow
    now,
    mark,     \* ai_logs_last_parsed_at
    scan,     \* what each scan does
    sent,     \* the heartbeats of sessions that the server stored
    stops,    \* scans that were stopped
    behind,   \* history: entries the mark has passed, or the server took for known
    loose     \* history: entries counted by scans that overlapped or recorded no mark

scanVars == <<kind, names, entries, mtime, torn, over, now, mark, scan, sent, stops, behind, loose>>

Databases == {"bubbles", "messages", "totals", "chats"}

\* The formats in which something may fail a scan: files of lines, and documents.
Strict == {"lines", "calls", "continue", "document"}

\* The formats that updateAISummary reads.
Summarised == {"lines", "document"}

Formats == {"lines", "calls", "document", "continue", "kiro"} \cup Databases

\* Entries without a time, and no mark or entry.
None == 0

Entry == [in : Transcripts, time : 0 .. MaxTime, role : {"plain", "call", "end", "chat", "tokens"},
          call : 0 .. MaxEntries]
Heartbeat == [in : Transcripts, name : 1 .. 2, last : 0 .. MaxTime,
              counts : SUBSET ((1 .. MaxEntries) \X (0 .. MaxEntries))]
NoScan == [at |-> "idle", after |-> 0, todo |-> {}, found |-> {}, unseen |-> {}, alone |-> TRUE]

TranscriptsTypeOK ==
    /\ kind \in [Transcripts -> Formats]
    /\ names \in [Transcripts -> 1 .. 2]
    /\ entries \in Seq(Entry) /\ Len(entries) <= MaxEntries
    /\ mtime \in [Transcripts -> 0 .. MaxTime]
    /\ torn \subseteq {x \in Transcripts : kind[x] \in Strict}
    /\ over \subseteq {x \in Transcripts : kind[x] \notin Databases}
    /\ now \in 1 .. MaxTime /\ mark \in 0 .. now
    /\ \A s \in Scans :
        /\ scan[s].at \in {"idle", "read", "send", "record"}
        /\ scan[s].todo \subseteq Transcripts
        /\ scan[s].found \subseteq Heartbeat
        /\ scan[s].unseen \subseteq DOMAIN entries
        /\ scan[s].after \in 0 .. now
    /\ sent \subseteq Heartbeat
    /\ stops \in 0 .. MaxStops
    /\ behind \subseteq DOMAIN entries /\ loose \subseteq DOMAIN entries

TranscriptsInit ==
    /\ kind \in {k \in [Transcripts -> Formats] : \A x \in Others : k[x] = "lines"}
    /\ names \in {n \in [Transcripts -> 1 .. 2] :
                    \A x \in Transcripts : x \in Others \/ kind[x] \notin Summarised => n[x] = 1}
    /\ entries = <<>> /\ mtime = [x \in Transcripts |-> 0]
    /\ torn = {} /\ over = {}
    /\ now = 2 * Second - 1 /\ mark = None
    /\ scan = [s \in Scans |-> NoScan]
    /\ sent = {} /\ stops = 0 /\ behind = {} /\ loose = {}

-----------------------------------------------------------------------------
(* The agents write.                                                        *)

Tick ==
    /\ now < MaxTime
    /\ now' = now + 1
    /\ UNCHANGED <<kind, names, entries, mtime, torn, over, mark, scan, sent, stops, behind, loose>>

EntriesIn(x) == {e \in DOMAIN entries : entries[e].in = x}

Roles(x) ==
    CASE kind[x] = "calls" -> {"plain", "call", "end"}
      [] kind[x] = "continue" -> {"chat", "tokens"}
      [] OTHER -> {"plain"}

\* The times an entry may bear: an agent writes it at once or up to Delay ticks
\* later; a line need not have a time.  (A bound: the Others write at once,
\* and one line.)
Stamps(x) ==
    IF x \in Others THEN {now}
    ELSE {t \in Earliest .. now : now - t <= Delay} \cup (IF kind[x] = "lines" THEN {None} ELSE {})

\* A patch ends after its call.
Calls(x, role) ==
    IF role = "end" THEN {e \in EntriesIn(x) : entries[e].role = "call"} ELSE {None}

\* History: the mark m has passed an entry, or the call that it ends.
Passed(entry, m) ==
    \/ entry.time # None /\ entry.time < m
    \/ entry.call # None /\ entries[entry.call].time < m

\* What is written while a scan reads: it does not come to it any more, or its
\* time is one the scan does not look back to.
Unread(s, x, entry) == x \notin scan[s].todo \/ Passed(entry, scan[s].after)

\* What a write may leave that a scan fails on: a document that does not parse,
\* until it is complete, or a line longer than the 4 MiB of the buffer it is
\* read with, for good.
Torn(x) ==
    CASE kind[x] = "document" -> {torn \ {x}, torn \cup {x}}
      [] kind[x] \in Strict \ {"document"} /\ x \notin Others -> {torn, torn \cup {x}}
      [] OTHER -> {torn}

Write(x) ==
    /\ Len(entries) < MaxEntries /\ (x \in Others => EntriesIn(x) = {})
    /\ \E role \in Roles(x), time \in Stamps(x) : \E call \in Calls(x, role) :
        LET e == Len(entries) + 1
            entry == [in |-> x, time |-> time, role |-> role, call |-> call]
        IN  /\ entries' = Append(entries, entry)
            /\ behind' = IF Passed(entry, mark) THEN behind \cup {e} ELSE behind
            /\ scan' = [s \in Scans |->
                    IF scan[s].at # "idle" /\ Unread(s, x, entry)
                    THEN [scan[s] EXCEPT !.unseen = @ \cup {e}] ELSE scan[s]]
    /\ mtime' = [mtime EXCEPT ![x] = now]
    /\ torn' \in Torn(x)
    /\ UNCHANGED <<kind, names, over, now, mark, sent, stops, loose>>

\* A document is complete.
Mend(x) ==
    /\ x \in torn /\ kind[x] = "document"
    /\ torn' = torn \ {x}
    /\ UNCHANGED <<kind, names, entries, mtime, over, now, mark, scan, sent, stops, behind, loose>>

\* A file grows past 32 MiB, comes after the 10000th of its tool, or is one of
\* Kiro that does not parse; or it no longer does.  (A bound: none of the Others, and
\* none without an entry.)
Outgrow(x) ==
    /\ kind[x] \notin Databases /\ x \notin Others /\ EntriesIn(x) # {}
    /\ over' = IF x \in over THEN over \ {x} ELSE over \cup {x}
    /\ UNCHANGED <<kind, names, entries, mtime, torn, now, mark, scan, sent, stops, behind, loose>>

-----------------------------------------------------------------------------
(* The formats.  Each yields the heartbeats of what x says from after on.   *)

Time(x, e) == IF entries[e].time = None THEN mtime[x] ELSE entries[e].time
Times(x, set) == {Time(x, e) : e \in set}
Itself(set) == {<<e, e>> : e \in set}

\* Mutant: what has the time of the mark is left out.
FromAfter(x, set, after) == {e \in set : Time(x, e) > after}

\* What is not before the mark.
From(x, set, after) == {e \in set : Time(x, e) >= after}

Last(times) == Max(times)

\* The heartbeats of one session, which has none without an entry.
Session(x, set, counts) ==
    IF set = {} THEN {}
    ELSE {[in |-> x, name |-> n, last |-> Last(Times(x, set)), counts |-> counts] : n \in 1 .. names[x]}

\* An edit counts when its call is read with its end.
WholeEdits(read) ==
    {e \in read : entries[e].role # "call" /\ (entries[e].call # None => entries[e].call \in read)}

\* Lines of JSON.
ReadLines(x, after) ==
    LET read == From(x, EntriesIn(x), after) IN Session(x, read, Itself(WholeEdits(read)))

\* A JSON document, counted as a whole each time it has changed.
ReadDocument(x, after) ==
    LET last == Last({mtime[x]} \cup Times(x, EntriesIn(x))) IN
    IF last < after \/ EntriesIn(x) = {} THEN {}
    ELSE {[in |-> x, name |-> n, last |-> last, counts |-> Itself(EntriesIn(x))] : n \in 1 .. names[x]}

\* The tokens nearest to a chat of Continue, in a file of their own.
Apart(e, f) == IF entries[e].time > entries[f].time THEN entries[e].time - entries[f].time
               ELSE entries[f].time - entries[e].time

MatchContinueTokens(x, chat) ==
    LET near == {f \in EntriesIn(x) : entries[f].role = "tokens" /\ Apart(chat, f) <= TokenWindow} IN
    IF near = {} THEN None
    ELSE Min({f \in near : \A g \in near : Apart(chat, f) <= Apart(chat, g)})

ReadContinue(x, after) ==
    LET chats == From(x, {e \in EntriesIn(x) : entries[e].role = "chat"}, after) IN
    Session(x, chats, {<<e, MatchContinueTokens(x, e)>> : e \in chats})

\* The accepted actions of Kiro.
ReadKiro(x, after) ==
    LET read == From(x, EntriesIn(x), after) IN Session(x, read, Itself(read))

\* Cursor and Windsurf: the newest rows, each with a heartbeat of its own.
Newest(x) == {e \in EntriesIn(x) : Cardinality({f \in EntriesIn(x) : f > e}) < Limit}

ReadBubbles(x, after) ==
    UNION {Session(x, {e}, Itself({e})) : e \in From(x, Newest(x), after)}

\* Qoder and OpenCode: the oldest rows.
Oldest(x) ==
    LET Before(e) ==
            {f \in EntriesIn(x) : \/ entries[f].time < entries[e].time
                                  \/ entries[f].time = entries[e].time /\ f < e}
    IN {e \in EntriesIn(x) : Cardinality(Before(e)) < Limit}

ReadMessages(x, after) ==
    LET read == From(x, Oldest(x), after) IN Session(x, read, Itself(read))

\* Goose: the totals of a session.
ReadTotals(x, after) ==
    IF From(x, EntriesIn(x), after) = {} THEN {} ELSE Session(x, EntriesIn(x), Itself(EntriesIn(x)))

\* Cody: the last interaction of a chat.
ReadChats(x, after) ==
    LET newest == {e \in EntriesIn(x) : \A f \in EntriesIn(x) : f <= e} IN
    IF From(x, EntriesIn(x), after) = {} THEN {} ELSE Session(x, EntriesIn(x), Itself(newest))

\* The file is not looked at: it was not written after the mark, or is passed
\* over.
Skipped(x, after) ==
    x \in over \/ (kind[x] \notin {"continue", "kiro"} /\ mtime[x] < after)

ReadFrom(x, after) ==
    IF Skipped(x, after) THEN {} ELSE
    CASE kind[x] = "continue" -> ReadContinue(x, after)
      [] kind[x] = "kiro" -> ReadKiro(x, after)
      [] kind[x] \in {"lines", "calls"} -> ReadLines(x, after)
      [] kind[x] = "document" -> ReadDocument(x, after)
      [] kind[x] = "bubbles" -> ReadBubbles(x, after)
      [] kind[x] = "messages" -> ReadMessages(x, after)
      [] kind[x] = "totals" -> ReadTotals(x, after)
      [] kind[x] = "chats" -> ReadChats(x, after)

\* The id of a session that is found under several keys is the one the walk
\* over the object comes to last, and its order is random.
OneName(heartbeats) == {f \in SUBSET heartbeats :
    /\ \A h \in heartbeats : \E g \in f : g.last = h.last /\ g.counts = h.counts
    /\ \A g, h \in f : g.last = h.last /\ g.counts = h.counts => g = h}

-----------------------------------------------------------------------------
(* A scan.                                                                  *)

Busy == {s \in Scans : scan[s].at # "idle"}

\* Without a mark a scan goes back a day.
After == IF mark # None THEN mark ELSE IF now > Lookback THEN now - Lookback ELSE 0

StartScan(s) ==
    /\ s \notin Busy /\ s = Min(Scans \ Busy)
    /\ (Busy # {}) => \A x \in Transcripts \ Others : kind[x] \in Overlapping
    /\ scan' = [q \in Scans |->
            IF q = s THEN [NoScan EXCEPT !.at = "read", !.after = After, !.todo = Transcripts,
                                         !.alone = (Busy = {})]
            ELSE [scan[q] EXCEPT !.alone = FALSE]]
    /\ behind' = behind \cup {e \in DOMAIN entries :
            mark = None /\ (Time(entries[e].in, e) < After \/ Passed(entries[e], After))}
    /\ UNCHANGED <<kind, names, entries, mtime, torn, over, now, mark, sent, stops, loose>>

\* The files come before the databases.
First(todo) ==
    LET files == {x \in todo : kind[x] \notin Databases} IN Min(IF files # {} THEN files ELSE todo)

\* A document that does not parse, or too long a line, ends the scan; without a
\* heartbeat nothing is recorded.
ReadTranscript(s) ==
    /\ scan[s].at = "read"
    /\ UNCHANGED <<kind, names, entries, mtime, torn, over, now, mark, sent, stops, behind, loose>>
    /\ LET x == First(scan[s].todo)
           rest == scan[s].todo \ {x}
       IN  \/ /\ x \in torn /\ ~Skipped(x, scan[s].after)
              /\ scan' = [scan EXCEPT ![s] = NoScan]
           \/ /\ x \notin torn \/ Skipped(x, scan[s].after)
              /\ \E found \in OneName(ReadFrom(x, scan[s].after)) :
                    LET all == scan[s].found \cup found
                        unseen == scan[s].unseen \cup IF x \in over THEN EntriesIn(x) ELSE {}
                    IN  scan' = [scan EXCEPT ![s] =
                        IF rest # {} THEN [@ EXCEPT !.todo = rest, !.found = all, !.unseen = unseen]
                        ELSE IF all = {} THEN NoScan
                        ELSE [@ EXCEPT !.at = "send", !.todo = {}, !.found = all, !.unseen = unseen]]

\* The server knows an entity and a time already.
Known(h) == \E g \in sent : g.in = h.in /\ g.name = h.name /\ g.last = h.last

Counted(heartbeats) == UNION {{c[1] : c \in h.counts} \cup ({c[2] : c \in h.counts} \ {None}) :
                              h \in heartbeats}

\* What arrives of a scan is stored unless it is known; two rows of a session
\* with one time are one heartbeat.
Arrive(heartbeats) ==
    \E new \in SUBSET {h \in heartbeats : ~Known(h)} :
        /\ \A h \in heartbeats : ~Known(h) =>
            \E g \in new : g.in = h.in /\ g.name = h.name /\ g.last = h.last
        /\ \A g, h \in new : g.in = h.in /\ g.name = h.name /\ g.last = h.last => g = h
        /\ sent' = sent \cup new
        /\ behind' = behind \cup (Counted(heartbeats) \ Counted(sent \cup new))

\* Sent, or left to the offline queue, which sends it later.
Send(s) ==
    /\ scan[s].at = "send"
    /\ scan' = [scan EXCEPT ![s].at = "record"]
    /\ UNCHANGED <<kind, names, entries, mtime, torn, over, now, mark, stops>>
    /\ Arrive(scan[s].found)
    /\ loose' = IF scan[s].alone THEN loose ELSE loose \cup Counted(scan[s].found)

\* Mutant: the mark is set a second back.
FloorBefore(t) == IF t < 2 * Second THEN t ELSE (t \div Second - 1) * Second

\* The mark has whole seconds.
Floor(t) == (t \div Second) * Second

Record(s) ==
    /\ scan[s].at = "record"
    /\ mark' = Floor(Last({h.last : h \in scan[s].found}))
    /\ behind' = behind \cup {e \in scan[s].unseen : Passed(entries[e], mark')}
    /\ scan' = [scan EXCEPT ![s] = NoScan]
    /\ loose' = IF scan[s].alone THEN loose ELSE loose \cup Counted(scan[s].found)
    /\ UNCHANGED <<kind, names, entries, mtime, torn, over, now, sent, stops>>

\* The server refuses, stint is killed, or the mark cannot be written.
Stop(s) ==
    /\ s \in Busy
    /\ stops < MaxStops /\ stops' = stops + 1
    /\ scan' = [scan EXCEPT ![s] = NoScan]
    /\ IF scan[s].at = "send"
       THEN \E some \in SUBSET scan[s].found :
                /\ sent' = sent \cup {h \in some : ~Known(h)}
                /\ loose' = loose \cup Counted(some)
       ELSE /\ UNCHANGED sent
            /\ loose' = IF scan[s].at = "record" THEN loose \cup Counted(scan[s].found) ELSE loose
    /\ UNCHANGED <<kind, names, entries, mtime, torn, over, now, mark, behind>>

ScanStep(s) == ReadTranscript(s) \/ Send(s) \/ Record(s)

TranscriptsNext ==
    \/ Tick
    \/ \E x \in Transcripts : Write(x) \/ Mend(x) \/ Outgrow(x)
    \/ \E s \in Scans : StartScan(s) \/ ScanStep(s) \/ Stop(s)

TranscriptsSpec == TranscriptsInit /\ [][TranscriptsNext]_scanVars

\* Editors keep starting stint, and a scan is stopped only MaxStops times.
TranscriptsFairness ==
    \A s \in Scans : WF_scan(StartScan(s) \/ ScanStep(s))

TranscriptsFairSpec == TranscriptsSpec /\ TranscriptsFairness

-----------------------------------------------------------------------------
(* Properties.                                                              *)

\* What a scan can count at all: the row limit of a query leaves the others
\* out, Cody has the last interaction only, and tokens and calls belong to
\* another entry.
Countable(e) ==
    LET x == entries[e].in IN
    /\ entries[e].role \notin {"call", "tokens"}
    /\ (kind[x] = "messages") => e \in Oldest(x)
    /\ (kind[x] = "bubbles") => e \in Newest(x)
    /\ (kind[x] = "chats") => \A f \in EntriesIn(x) : f <= e

\* An entry that the mark has passed was counted, unless it appeared in a
\* transcript that the scan had read already or passed over (too large, one too
\* many, or of Kiro and not parsing), it bears a time before a mark that was
\* recorded, or the server took its heartbeat for one it knew: a mark is the
\* newest of what all the transcripts say (collectAIHeartbeats,
\* recordAISyncAfter), and nothing before it is read again.
MissedOnlyIfPassed ==
    \A e \in DOMAIN entries :
        (Countable(e) /\ entries[e].time # None /\ entries[e].time < mark)
            => e \in Counted(sent) \cup behind

\* Two heartbeats count one entry only if it falls in the second that the mark
\* was cut to, or if scans overlapped or ended before they recorded a mark
\* (recordAISyncAfter).  Documents and totals are counted as a whole each time.
RecountedInItsSecond ==
    \A g, h \in sent : (g # h /\ g.in = h.in /\ g.last <= h.last) =>
        \A e \in (Counted({g}) \cap Counted({h})) \ loose :
            \/ kind[g.in] \in {"document", "totals", "continue", "chats"}
            \/ entries[e].time = None
            \/ entries[e].time \div Second = g.last \div Second

\* Once nothing more is written, what could be counted is, or the mark has passed
\* it, unless a document does not parse, a file holds a line longer than the
\* buffer (after which no scan ends any more), or the file is passed over:
\* editors start scans again and again, and one that ends records its mark
\* (runSyncAIActivity).
TranscriptsEventuallyCounted ==
    []<>(torn = {} => \A e \in DOMAIN entries :
            (Countable(e) /\ entries[e].time # None /\ entries[e].in \notin over)
                => e \in Counted(sent) \cup behind)

\* The mark tells what is counted: nothing before it is missed, nothing before
\* its second is counted again.
MarkTellsCounted == TranscriptsTypeOK /\ MissedOnlyIfPassed /\ RecountedInItsSecond
=============================================================================
