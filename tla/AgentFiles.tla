----------------------------- MODULE AgentFiles -----------------------------
(***************************************************************************)
(* Reading one file of a coding agent while the agent writes it             *)
(* (internal/collector): what each kind of adapter remembers of the file,   *)
(* which records a scan takes and which events reach the server.            *)
(*                                                                          *)
(* A scan looks at the file's size and time first and reads its records     *)
(* later, so the agent may write in between.  Posting the events and saving *)
(* the state is the subject of CollectorScan; here a scan's events arrive   *)
(* and its mark is kept.                                                    *)
(***************************************************************************)
EXTENDS UsageEvents, FiniteSets

CONSTANTS
    Agents,      \* the agents whose files are read, a subset of Kind's domain
    Places,      \* where the file may lie under the directory given to the adapter
    Requests,    \* the requests an agent makes, positive numbers
    LongRequests,    \* those whose lines may exceed maxJSONLLineBytes
    StateRows,   \* cursorMaxStateRows
    DocumentLimit,   \* maxCollectorJSONFileBytes, in records
    MaxRecords,  \* bound on the records in the file
    MaxWrites,   \* bound on the agent's writes
    MaxScanFaults    \* bound on the number of scans cut short and states lost

VARIABLES
    agent,     \* whose file it is
    place,     \* where it lies
    named,     \* whether the agent writes provider ids
    records,   \* the file's records
    tail,      \* whether the last line has no newline yet
    torn,      \* whether a document is being rewritten and does not parse
    version,   \* the file's modification time
    mark,      \* the FileState of the file, or Unseen
    stat,      \* what the scan under way saw of the file, or Unseen
    stored,    \* the usage events on the server
    behind,    \* history: requests that a write put where the mark had passed, or
               \* that a failing read passed
    resumed,   \* history: whether a Codex transcript was read from the middle
    writes, scanFaults

written == <<agent, place, named, records, tail, torn, version, writes>>
agentFileVars == <<agent, place, named, records, tail, torn, version, mark,
                   stat, stored, behind, resumed, writes, scanFaults>>

Unseen == [size |-> -1, version |-> 0, offset |-> 0, lines |-> 0]

\* How an adapter remembers what it has read: the bytes, the largest row id,
\* the latest time, the number of rows, or the file's size and time.  A
\* "table" is read from the start each time.
Kind == [a \in {"claude", "codex", "copilot", "openclaw", "qwen", "kimi",
                "factory-droid", "pi-agent", "roo", "cline", "kiro", "kilo",
                "goose", "hermes", "octofriend", "kiro-db", "kilo-db",
                "opencode", "cursor-csv", "cursor-db", "zed", "gemini", "amp", "crush"} |->
    CASE a \in {"goose", "hermes", "octofriend", "kiro-db", "kilo-db"} -> "rowid"
      [] a = "opencode" -> "millis"
      [] a = "cursor-csv" -> "count"
      [] a = "cursor-db" -> "table"
      [] a \in {"zed", "gemini", "amp", "crush"} -> "whole"
      [] OTHER -> "lines"]

ASSUME AgentFilesAssumption ==
    /\ Agents \subseteq DOMAIN Kind
    /\ Requests \subseteq Nat \ {0} /\ Requests # {} /\ LongRequests \subseteq Requests
    /\ StateRows \in Nat /\ DocumentLimit \in Nat /\ MaxRecords \in Nat /\ MaxWrites \in Nat /\ MaxScanFaults \in Nat

kind == Kind[agent]
InDatabase == kind \in {"rowid", "millis", "table"} \/ agent = "zed"
Size == Len(records)

\* A document is decoded whole, up to a limit: decodeJSONFile.
Document == kind = "whole" /\ ~InDatabase
TooLarge == Document /\ Size > DocumentLimit

\* Some agents report more tokens read from the cache than input.
CachedOf(q) == IF q % 2 = 1 THEN 1 ELSE 3

Record(p, q, out, created) ==
    [place |-> p, request |-> q, msg |-> IF named THEN q ELSE NoId,
     rid |-> IF named THEN q ELSE NoId, session |-> IF p = "usage" THEN NoText ELSE "own",
     cwd |-> NoText, model |-> "m", created |-> created,
     time |-> q, cost |-> NoCost,
     block |-> [in |-> 2, out |-> out, cached |-> CachedOf(q), write |-> 1,
                w5 |-> 0, w1 |-> 0, reason |-> 1]]

\* A request is always logged in one place of the format.
PlaceOf(q) == IF q % 2 = 1 THEN "usage" ELSE "nested"

Latest == IF records = <<>> THEN 1 ELSE records[Len(records)].created

AgentFilesTypeOK ==
    /\ agent \in Agents /\ place \in Places /\ named \in BOOLEAN
    /\ Len(records) <= MaxRecords
    /\ tail \in BOOLEAN /\ torn \in BOOLEAN /\ version \in 0 .. MaxWrites
    /\ {mark.offset, stat.offset} \subseteq 0 .. MaxRecords
    /\ {mark.size, stat.size} \subseteq -1 .. MaxRecords
    /\ {mark.version, stat.version} \subseteq 0 .. MaxWrites
    /\ mark.lines \in 0 .. MaxWrites + MaxRecords + 1
    /\ \A e \in stored : e.tokens \in Tokens /\ e.request \in Requests
    /\ behind \subseteq Requests
    /\ resumed \in BOOLEAN

AgentFilesInit ==
    /\ agent \in Agents /\ place \in Places /\ named \in BOOLEAN
    /\ records = <<>> /\ tail = FALSE /\ torn = FALSE /\ version = 0
    /\ mark = Unseen /\ stat = Unseen
    /\ stored = {}
    /\ behind = {} /\ resumed = FALSE
    /\ writes = 0 /\ scanFaults = 0

-----------------------------------------------------------------------------
(* What a mark tells the next scan (state.go).                              *)

\* Mutant: a file shorter than what was read is not read again.
ByteOffsetEvenIfShort(size) == IF mark = Unseen THEN 0 ELSE mark.offset

\* A file shorter than what was read starts over.
ByteOffset(size) == IF mark = Unseen \/ size < mark.offset THEN 0 ELSE mark.offset

Rowid == mark.offset

\* Lines holds the latest time, or the number of rows; a file shorter than
\* before starts over.
MaxUnixMillis(size) == IF size < mark.size THEN 0 ELSE mark.lines
RowCount(size) == IF size < mark.size THEN 0 ELSE mark.lines

FileUnchanged(size, time) == mark # Unseen /\ mark.size = size /\ mark.version = time

Commit(offset, lines) ==
    [size |-> stat.size, version |-> stat.version, offset |-> offset, lines |-> lines]

-----------------------------------------------------------------------------
(* The agent writes.                                                        *)

\* Whether the next scan would read row i of recs, written at time v.
Ahead(i, recs, v) ==
    CASE kind = "lines" -> Len(recs) < mark.offset \/ i > mark.offset
      [] kind = "rowid" -> i > mark.offset
      [] kind = "millis" -> Len(recs) < mark.size \/ recs[i].created > mark.lines
      [] kind = "count" -> Len(recs) < mark.size \/ i > mark.lines
      [] kind = "table" -> i <= StateRows
      [] OTHER -> mark.version # v

Write(new, halfLine) ==
    /\ writes < MaxWrites
    /\ writes' = writes + 1
    /\ version' = version + 1
    /\ records' = new
    /\ tail' = halfLine
    /\ torn' = FALSE
    /\ behind' = behind \cup {new[i].request : i \in {i \in DOMAIN new :
          /\ ~Ahead(i, new, version + 1)
          /\ i \in DOMAIN records /\ new[i] = records[i] => Ahead(i, records, version)}}
    /\ UNCHANGED <<agent, place, named, mark, stat, stored, resumed, scanFaults>>

\* The counts of a request never shrink.
OutputOf(q) ==
    IF \E i \in DOMAIN records : records[i].request = q /\ records[i].block.out = 2 THEN 2 ELSE 1

\* A new record; a line may arrive without its newline first, and may be longer
\* than maxJSONLLineBytes.  Only transcripts of lines repeat a request.
AppendRecord ==
    /\ ~tail
    /\ agent = "codex" => records # <<>>
    /\ Size < MaxRecords
    /\ \E q \in Requests, tooLong, half \in BOOLEAN, t \in {Latest, Latest + 1} :
        /\ half => kind = "lines"
        /\ tooLong => kind = "lines" /\ q \in LongRequests
        /\ t = Latest => kind = "millis"
        /\ kind # "lines" => \A i \in DOMAIN records : records[i].request # q
        /\ Write(Append(records, Record(IF tooLong THEN "long" ELSE PlaceOf(q), q, OutputOf(q), t)), half)

\* Codex writes its model and directory on a line before any request, a short one.
Context == Record("context", CHOOSE q \in Requests : TRUE, 0, 1)
AppendContext ==
    /\ agent = "codex" /\ records = <<>> /\ Size < MaxRecords
    /\ Write(<<Context>>, FALSE)

Terminate == tail /\ Write(records, FALSE)

\* The output of a request grows: in place, or as another line.
Grow ==
    \E i \in DOMAIN records :
        LET r == [records[i] EXCEPT !.block.out = 2] IN
        /\ r.place # "context" /\ r # records[i] /\ ~tail
        /\ IF kind = "lines"
           THEN Size < MaxRecords /\ Write(Append(records, r), FALSE)
           ELSE Write([records EXCEPT ![i] = r], FALSE)

\* The file is replaced by one with a single record, or an export by one that
\* lists a newer record first.
Replace ==
    \E q \in Requests :
        LET r == IF agent = "codex" THEN Context
                 ELSE Record(PlaceOf(q), q, OutputOf(q), Latest + 1) IN
        /\ records # <<>>
        /\ \/ Write(<<r>>, FALSE)
           \/ /\ kind = "count" /\ Size < MaxRecords
              /\ \A i \in DOMAIN records : records[i].request # q
              /\ Write(<<r>> \o records, FALSE)

\* A JSON document is written over in place.
Tear ==
    /\ Document /\ ~torn /\ writes < MaxWrites
    /\ torn' = TRUE
    /\ version' = version + 1 /\ writes' = writes + 1
    /\ UNCHANGED <<agent, place, named, records, tail, mark, stat, stored, behind,
                   resumed, scanFaults>>

AgentWrites == AppendRecord \/ AppendContext \/ Terminate \/ Grow \/ Replace \/ Tear

-----------------------------------------------------------------------------
(* A scan.  place.base is what the adapter was given: the file itself, or a *)
(* directory with the file in it or below it; place.named says whether the  *)
(* file has one of the names the adapter knows.                             *)

\* Any file of the right suffix at or below the base.
Walked == TRUE
\* The base itself, or a file of a known name directly in it.
WellKnown == place.base = "file" \/ (place.base = "in" /\ place.known)
\* A document of a known name or in a chats directory.
Session == place.known

Found ==
    CASE agent \in {"hermes", "octofriend", "kiro-db", "kilo-db", "opencode"} -> WellKnown
      [] agent = "gemini" -> Session
      [] OTHER -> Walked

StatFile ==
    /\ stat = Unseen
    /\ Found
    /\ kind = "whole" =>
        ~(FileUnchanged(Size, version) /\ (agent = "zed" => Size > 0))
    /\ stat' = [size |-> Size, version |-> version, offset |-> 0, lines |-> 0]
    /\ UNCHANGED <<written, mark, stored, behind, resumed, scanFaults>>

\* InsertUsageEvents: an event with usage and a time replaces the one stored
\* with its id.
Ingest(events) ==
    LET valid == {e \in events : HasUsage(e) /\ e.time # NoTime} IN
    valid \cup {s \in stored : \A e \in valid : EventId(e) # EventId(s)}

\* The scan's events are stored and its mark is kept.
Finish(events, newMark) ==
    /\ stored' = Ingest(DedupEvents(events))
    /\ mark' = newMark
    /\ stat' = Unseen
    /\ UNCHANGED written

EventsByRow(rows, EventsOf(_)) == [i \in DOMAIN rows |-> EventsOf(rows[i])]
EventsIn(byRow, read) == UNION {{i} \X byRow[i] : i \in read}
Complete == IF tail THEN Size - 1 ELSE Size
Larger(m, n) == IF m > n THEN m ELSE n

\* A line that is not complete does not parse; one that is too long is "long"
\* already, and its adapter is not given it.
Lines == [i \in DOMAIN records |->
    IF tail /\ i = Size THEN [records[i] EXCEPT !.place = "bad"] ELSE records[i]]

\* scanJSONLIncremental: the complete lines after the offset, the long ones too,
\* are consumed.
ScanLines(byLine) ==
    LET first == ByteOffset(stat.size) IN
    /\ stat # Unseen
    /\ Finish(EventsIn(byLine, first + 1 .. Complete),
              Commit(Larger(first, Complete), 0))
    /\ UNCHANGED <<behind, resumed, scanFaults>>

\* The number of rows a query returns: all, or fewer with an error.
Cut(n) ==
    /\ n \in 0 .. Size
    /\ IF n = Size THEN UNCHANGED scanFaults
       ELSE scanFaults < MaxScanFaults /\ scanFaults' = scanFaults + 1

\* The rows after the largest row id read.
ScanRows(byRow) ==
    \E n \in 0 .. Size :
        /\ stat # Unseen
        /\ Cut(n)
        /\ Finish(EventsIn(byRow, Rowid + 1 .. n),
                  Commit(Larger(Rowid, n), 0))
        /\ UNCHANGED <<behind, resumed>>

\* A document read whole.  One that does not parse, or is larger than the limit,
\* is marked as read.
ScanDocument(byRow) ==
    /\ stat # Unseen
    /\ Finish(IF torn \/ TooLarge THEN {} ELSE EventsIn(byRow, DOMAIN byRow), Commit(stat.size, 0))
    /\ UNCHANGED <<behind, resumed, scanFaults>>

ScanClaude == agent = "claude" /\ ScanLines(EventsByRow(Lines, ClaudeEvents))

\* The context is that of the lines read in this scan.
ScanCodex ==
    LET first == ByteOffset(stat.size)
        byLine == [i \in DOMAIN Lines |-> CodexEvents(Lines[i], CodexContext(Lines, first + 1 .. i))]
    IN  /\ agent = "codex" /\ stat # Unseen
        /\ Finish(EventsIn(byLine, first + 1 .. Complete), Commit(Larger(first, Complete), 0))
        /\ resumed' = (resumed \/ (first > 0 /\ first < Complete))
        /\ UNCHANGED <<behind, scanFaults>>

ScanCopilot == agent = "copilot" /\ ScanLines(EventsByRow(Lines, CopilotEvents))
ScanOpenClaw == agent = "openclaw" /\ ScanLines(EventsByRow(Lines, OpenClawEvents))
ScanQwen == agent = "qwen" /\ ScanLines(EventsByRow(Lines, QwenEvents))
ScanKimi == agent = "kimi" /\ ScanLines(EventsByRow(Lines, KimiEvents))
ScanFactoryDroid == agent = "factory-droid" /\ ScanLines(EventsByRow(Lines, FactoryDroidEvents))
ScanPiAgent == agent = "pi-agent" /\ ScanLines(EventsByRow(Lines, PiAgentEvents))
ScanRoo == agent = "roo" /\ ScanLines(EventsByRow(Lines, LAMBDA r : TaskEvents("roo", r)))
ScanCline == agent = "cline" /\ ScanLines(EventsByRow(Lines, LAMBDA r : TaskEvents("cline", r)))
ScanKiroLines == agent = "kiro" /\ ScanLines(EventsByRow(Lines, KiroLineEvents))
ScanKiloLines == agent = "kilo" /\ ScanLines(EventsByRow(Lines, KiloLineEvents))

ScanGoose == agent = "goose" /\ ScanRows(EventsByRow(records, GooseEvents))
ScanHermes == agent = "hermes" /\ ScanRows(EventsByRow(records, HermesEvents))
ScanOctofriend == agent = "octofriend" /\ ScanRows(EventsByRow(records, OctofriendEvents))
ScanKiroRows == agent = "kiro-db" /\ ScanRows(EventsByRow(records, KiroRowEvents))
ScanKiloRows == agent = "kilo-db" /\ ScanRows(EventsByRow(records, KiloRowEvents))

\* Mutant: the latest time of all rows is remembered, whatever was read.
WatermarkOfAll(n) == IF Size = 0 THEN 0 ELSE records[Size].created

\* The latest time among the first n rows, those that do not parse included.
Watermark(n) ==
    Larger(MaxUnixMillis(stat.size), IF n = 0 THEN 0 ELSE records[n].created)

\* The rows later than the latest time read, in the order of time.
ScanOpenCode ==
    \E n \in 0 .. Size :
        /\ agent = "opencode" /\ stat # Unseen
        /\ Cut(n)
        /\ Finish(EventsIn(EventsByRow(records, OpenCodeEvents),
                           {i \in 1 .. n : records[i].created > MaxUnixMillis(stat.size)}),
                  Commit(0, Watermark(n)))
        /\ UNCHANGED resumed
        /\ behind' = behind \cup {records[i].request :
                        i \in {i \in n + 1 .. Size :
                            n > 0 /\ records[i].created = records[n].created}}

\* Rows of an export after those counted; without new rows nothing is marked.
ScanCursorExport ==
    LET read == RowCount(stat.size) IN
    /\ agent = "cursor-csv" /\ stat # Unseen
    /\ Finish(EventsIn(EventsByRow(records, CursorExportEvents), read + 1 .. Size),
              IF Size > read THEN Commit(0, Size) ELSE mark)
    /\ UNCHANGED <<behind, resumed, scanFaults>>

\* The first rows of the table, each time.
ScanCursorTable ==
    \E n \in 0 .. Size :
        /\ agent = "cursor-db" /\ stat # Unseen
        /\ Cut(n)
        /\ Finish(EventsIn(EventsByRow(records, CursorRowEvents),
                           1 .. IF n < StateRows THEN n ELSE StateRows),
                  Commit(0, 0))
        /\ UNCHANGED <<behind, resumed>>

\* Threads; a query that fails in the middle still marks the file as read, and a
\* database without a column to read is marked like one that fails at once.
ScanZed ==
    \E n \in 0 .. Size :
        /\ agent = "zed" /\ stat # Unseen
        /\ Cut(n)
        /\ Finish(EventsIn(EventsByRow(records, ZedEvents), 1 .. n), Commit(stat.size, 0))
        /\ UNCHANGED resumed
        /\ behind' = behind \cup {records[i].request : i \in n + 1 .. Size}

ScanGemini == agent = "gemini" /\ ScanDocument(EventsByRow(records, GeminiEvents))
ScanAmp == agent = "amp" /\ ScanDocument(EventsByRow(records, AmpEvents))
ScanCrush == agent = "crush" /\ ScanDocument(EventsByRow(records, CrushEvents))

ScanFile ==
    \/ ScanClaude \/ ScanCodex \/ ScanCopilot \/ ScanOpenClaw \/ ScanQwen \/ ScanKimi
    \/ ScanFactoryDroid \/ ScanPiAgent \/ ScanRoo \/ ScanCline
    \/ ScanKiroLines \/ ScanKiloLines \/ ScanKiroRows \/ ScanKiloRows
    \/ ScanGoose \/ ScanHermes \/ ScanOctofriend
    \/ ScanOpenCode \/ ScanCursorExport \/ ScanCursorTable
    \/ ScanZed \/ ScanGemini \/ ScanAmp \/ ScanCrush

\* The file cannot be opened: nothing is marked.
OpenFails ==
    /\ stat # Unseen /\ ~Document /\ scanFaults < MaxScanFaults
    /\ scanFaults' = scanFaults + 1
    /\ stat' = Unseen
    /\ UNCHANGED <<written, mark, stored, behind, resumed>>

\* A document that cannot be opened or read is marked as read.
DecodeFails ==
    /\ stat # Unseen /\ Document /\ scanFaults < MaxScanFaults
    /\ scanFaults' = scanFaults + 1
    /\ Finish({}, Commit(stat.size, 0))
    /\ behind' = behind \cup {records[i].request : i \in DOMAIN records}
    /\ UNCHANGED resumed

\* The collector's state file is gone: everything is read again.
LoseState ==
    /\ stat = Unseen /\ mark # Unseen /\ scanFaults < MaxScanFaults
    /\ scanFaults' = scanFaults + 1
    /\ mark' = Unseen
    /\ behind' = {}
    /\ UNCHANGED <<written, stat, stored, resumed>>

AgentFilesNext == AgentWrites \/ StatFile \/ ScanFile \/ OpenFails \/ DecodeFails \/ LoseState

AgentFilesSpec == AgentFilesInit /\ [][AgentFilesNext]_agentFileVars

\* The watch loop scans again and again, and every scan ends: by ScanFile, which
\* is enabled while one is under way, or by OpenFails or DecodeFails.
ScanEnds == stat # Unseen /\ stat' = Unseen

AgentFilesFairSpec == AgentFilesSpec /\ WF_stat(StatFile) /\ WF_stat(ScanEnds)

-----------------------------------------------------------------------------
(* Properties.                                                              *)

\* Whether record r carries usage in a place the adapter reads: not in a line of
\* more than maxJSONLLineBytes, which is consumed and never parsed.
Carries(r) ==
    \/ r.place = "usage"
    \/ r.place = "nested" /\ agent \notin
          {"claude", "codex", "copilot", "openclaw", "kimi", "factory-droid", "pi-agent",
           "opencode", "cursor-csv", "cursor-db", "amp", "crush"}

Counted(r) ==
    \E e \in stored : e.request = r.request /\ e.tokens.output >= r.block.out

\* What a scan's mark passes is on the server: every complete record with its
\* present output is there, or the next scan reads it, or the agent wrote it
\* where the mark had passed already, or the read of it failed.  (A partial line
\* or a document that is being written over is not there yet.  Never read are
\* rows beyond cursorMaxStateRows, lines longer than maxJSONLLineBytes, which
\* carry no usage here, and documents over maxCollectorJSONFileBytes: the mark
\* passes those without a trace but a count of errors.)
ScanMissesOnlyPassed ==
    mark # Unseen /\ ~torn =>
        \A i \in 1 .. Complete :
            Carries(records[i]) /\ records[i].request \notin behind =>
                \/ Counted(records[i])
                \/ Ahead(i, records, version)
                \/ kind = "table"
                \/ TooLarge

\* Reading a request again, from any copy of its record and after any loss of
\* state, does not count it twice: two stored events of one request differ in
\* their counts and carry no id, or a Codex file was read from the middle.
CountedOnce ==
    \A e, g \in stored : e.request = g.request /\ e # g =>
        \/ e.msg = NoId /\ e.req = NoId /\ e.tokens # g.tokens
        \/ agent = "codex" /\ resumed

\* The tokens an agent reports as input, cached ones included where its format
\* includes them, are counted once: as input or as read from the cache.
InputCountedOnce ==
    \A e \in stored :
        IF agent \in {"codex", "openclaw", "qwen", "kimi", "pi-agent", "kiro", "kilo", "gemini"}
        THEN e.tokens.input + e.tokens.read = Larger(2, CachedOf(e.request))
        ELSE e.tokens.input = 2

\* A request that stays in a file within the limits reaches the server, with the
\* last output on a line that is not too long.
RecordsEventuallyCounted ==
    []<>(Found /\ ~torn /\ ~tail /\ ~TooLarge /\ (kind = "table" => Size <= StateRows) =>
            \A i \in 1 .. Complete :
                Carries(records[i]) => Counted(records[i]) \/ records[i].request \in behind)

\* What is stored counts each request, and each of its tokens, once.
UsageCountedOnce == AgentFilesTypeOK /\ CountedOnce /\ InputCountedOnce
=============================================================================
