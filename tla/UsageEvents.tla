---------------------------- MODULE UsageEvents -----------------------------
(***************************************************************************)
(* What the collector makes of the records coding agents keep on disk       *)
(* (internal/collector, internal/usage): one operator per agent gives the   *)
(* usage events of one record, with the identity, the session and the token *)
(* counts that agent's format has.                                          *)
(*                                                                          *)
(* A record is a transcript line, a database row or a message of a JSON     *)
(* file.  Its usage block is where the agent's current format has it        *)
(* ("usage"), where another format the adapter accepts has it ("nested"),   *)
(* or absent ("other"); a "context" record carries the model of later ones, *)
(* a "bad" one does not parse, and a "long" one is a line that no adapter    *)
(* is given.  Alternative spellings of a field are one field.               *)
(***************************************************************************)
EXTENDS Integers, Sequences, FiniteSetsExt

NoId == 0      \* an absent message or request id
NoTime == 0    \* an absent or unreadable timestamp
NoText == ""   \* an absent session, project or model
NoCost == -1   \* an absent cost, which is not a cost of zero

Block == [in : Nat, out : Nat, cached : Nat, write : Nat, w5 : Nat, w1 : Nat, reason : Nat]
Tokens == [input : Nat, output : Nat, write5m : Nat, write1h : Nat, read : Nat, reasoning : Nat]

\* The fields of the file around a record: its path and, where the file is
\* one object, that object's own fields.
Around == [session |-> "file", project |-> "dir", time |-> 1]

Or(a, b) == IF a # NoText THEN a ELSE b
OrTime(a, b) == IF a # NoTime THEN a ELSE b
NotNegative(n) == IF n < 0 THEN 0 ELSE n

-----------------------------------------------------------------------------
(* The token conventions (usage_block.go).                                  *)

\* The counts as they are.
Plain(b) ==
    [input |-> b.in, output |-> b.out, write5m |-> b.write, write1h |-> 0,
     read |-> b.cached, reasoning |-> b.reason]

\* The cache writes by lifetime where the block has them, else all as short.
Anthropic(b) ==
    [Plain(b) EXCEPT
        !.write5m = IF b.w5 # 0 \/ b.w1 # 0 THEN b.w5 ELSE b.write,
        !.write1h = IF b.w5 # 0 \/ b.w1 # 0 THEN b.w1 ELSE 0,
        !.reasoning = 0]

\* An input that includes the tokens read from the cache.
LessCached(t) == [t EXCEPT !.input = NotNegative(t.input - t.read)]

OpenAI(b) == LessCached([Plain(b) EXCEPT !.write5m = 0])
Gemini(b) == LessCached([Plain(b) EXCEPT !.write5m = 0])
PiAgent(b) == LessCached([Anthropic(b) EXCEPT !.reasoning = b.reason])
WithReasoning(t, b) == [t EXCEPT !.reasoning = b.reason]

-----------------------------------------------------------------------------
(* Events (usage/event.go).  The field request is not part of the program's *)
(* event: it names the request the agent made, for the properties.          *)

Total(t) == t.input + t.output + t.write5m + t.write1h + t.read + t.reasoning

HasUsage(e) == Total(e.tokens) > 0 \/ e.cost # NoCost

\* Mutant: the output is part of an id made of the provider's ids.
EventIdWithOutput(e) == <<"id", e.msg, e.req, e.tokens.output>>

EventId(e) ==
    CASE e.msg # NoId /\ e.req # NoId -> <<"id", e.msg, e.req>>
      [] e.msg # NoId /\ e.req = NoId -> <<"msg", e.agent, e.msg>>
      [] e.msg = NoId /\ e.req # NoId -> <<"req", e.agent, e.req>>
      [] OTHER -> <<"h", e.agent, e.session, e.time, e.model, e.tokens>>

\* Of the events with one id the first with the largest output is kept; each
\* comes with the number of the row it was read from.
DedupEvents(numbered) ==
    {x[2] : x \in {x \in numbered :
        \A y \in numbered : EventId(y[2]) = EventId(x[2]) =>
            \/ y[2].tokens.output < x[2].tokens.output
            \/ y[2].tokens.output = x[2].tokens.output /\ y[1] >= x[1]}}

\* An event is emitted for a record the adapter accepts that carries usage.
Emit(accepted, e) == IF accepted /\ HasUsage(e) THEN {e} ELSE {}

\* The event of a record in the common case: its own message id, session,
\* working directory, model, time and counts.
Event(agent, r) ==
    [agent |-> agent, request |-> r.request, msg |-> r.msg, req |-> NoId,
     session |-> Or(r.session, Around.session), project |-> Or(r.cwd, Around.project),
     model |-> r.model, time |-> r.time, cost |-> NoCost, tokens |-> Anthropic(r.block)]

Here(r) == r.place = "usage"
Anywhere(r) == r.place \in {"usage", "nested"}

-----------------------------------------------------------------------------
(* Transcripts of lines.                                                    *)

ClaudeEvents(r) ==
    Emit(Here(r), [Event("claude", r) EXCEPT !.req = r.rid, !.cost = r.cost])

\* The model and directory are those of earlier lines; there are no ids.
CodexEvents(r, context) ==
    Emit(Here(r), [Event("codex", r) EXCEPT
        !.msg = NoId, !.session = Around.session, !.model = context.model,
        !.project = Or(context.cwd, Around.project), !.tokens = OpenAI(r.block)])

\* The last text of a field that the lines of read tell the later ones.
LastText(lines, read, field) ==
    LET with == {i \in read : lines[i].place = "context" /\ lines[i][field] # NoText} IN
    IF with = {} THEN NoText ELSE lines[Max(with)][field]

CodexContext(lines, read) ==
    [model |-> LastText(lines, read, "model"), cwd |-> LastText(lines, read, "cwd")]

\* A record is one span: the response and the span identify it.
CopilotEvents(r) ==
    Emit(Here(r), [Event("copilot", r) EXCEPT
        !.req = r.rid, !.project = Around.project, !.tokens = Plain(r.block)])

OpenClawEvents(r) ==
    Emit(Here(r), [Event("openclaw", r) EXCEPT
        !.req = r.rid, !.tokens = WithReasoning(LessCached(Anthropic(r.block)), r.block)])

QwenEvents(r) ==
    Emit(Anywhere(r), [Event("qwen", r) EXCEPT !.tokens = Gemini(r.block)])

KimiEvents(r) ==
    Emit(Here(r), [Event("kimi", r) EXCEPT !.tokens = OpenAI(r.block)])

FactoryDroidEvents(r) ==
    Emit(Here(r), [Event("factory-droid", r) EXCEPT
        !.req = r.rid, !.cost = r.cost,
        !.tokens = WithReasoning(Anthropic(r.block), r.block)])

PiAgentEvents(r) ==
    Emit(Here(r), [Event("pi-agent", r) EXCEPT
        !.cost = r.cost, !.tokens = PiAgent(r.block)])

\* Roo and Cline: a message with its id, or the counts of a request that
\* started, in which case there is no id.
TaskEvents(agent, r) ==
    LET e == [Event(agent, r) EXCEPT
                !.session = Around.session, !.project = Around.project, !.cost = r.cost]
    IN  IF Here(r) THEN Emit(TRUE, e)
        ELSE Emit(Anywhere(r), [e EXCEPT
            !.msg = NoId, !.tokens = [Plain(r.block) EXCEPT !.reasoning = 0]])

KiroLineEvents(r) ==
    Emit(Anywhere(r), [Event("kiro", r) EXCEPT
        !.project = NoText, !.tokens = LessCached(Anthropic(r.block))])

\* The message object has the id and the model, wherever the counts are.
KiloLineEvents(r) ==
    Emit(Anywhere(r), [Event("kilo", r) EXCEPT
        !.project = NoText, !.tokens = LessCached(Anthropic(r.block))])

-----------------------------------------------------------------------------
(* Rows of databases and of exports: columns, or a JSON blob for those that *)
(* are zero.  The rows have no provider ids but those noted.                *)

RowEvent(agent, r) ==
    [Event(agent, r) EXCEPT
        !.msg = NoId, !.session = r.session, !.project = NoText, !.tokens = Plain(r.block)]

GooseEvents(r) ==
    Emit(Anywhere(r), [RowEvent("goose", r) EXCEPT
        !.tokens = [Plain(r.block) EXCEPT !.write5m = 0, !.reasoning = 0]])

HermesEvents(r) == Emit(Anywhere(r), RowEvent("hermes", r))
OctofriendEvents(r) == Emit(Anywhere(r), RowEvent("octofriend", r))
KiroRowEvents(r) == Emit(Anywhere(r), RowEvent("kiro", r))
KiloRowEvents(r) == Emit(Anywhere(r), RowEvent("kilo", r))

\* The row's id is the message's.
OpenCodeEvents(r) ==
    Emit(Here(r), [RowEvent("opencode", r) EXCEPT
        !.msg = r.msg, !.project = r.cwd, !.cost = r.cost,
        !.time = OrTime(r.time, r.created)])

\* The file is the session; cache writes are one input column less the other.
CursorExportEvents(r) ==
    Emit(Here(r), [RowEvent("cursor", r) EXCEPT
        !.session = Around.session, !.cost = r.cost,
        !.tokens = [Plain(r.block) EXCEPT !.reasoning = 0]])

CursorRowEvents(r) ==
    Emit(Here(r), [RowEvent("cursor", r) EXCEPT
        !.req = r.rid, !.session = NoText, !.cost = r.cost,
        !.tokens = [Plain(r.block) EXCEPT !.reasoning = 0]])

-----------------------------------------------------------------------------
(* Messages of JSON documents, which have the session, project and time the *)
(* messages fall back to.                                                   *)

ZedEvents(r) ==
    Emit(Anywhere(r), [Event("zed", r) EXCEPT !.session = Around.session, !.project = Around.project])

GeminiEvents(r) ==
    Emit(Anywhere(r), [Event("gemini", r) EXCEPT
        !.session = Around.session, !.project = Around.project,
        !.time = OrTime(r.time, Around.time), !.tokens = Gemini(r.block)])

AmpEvents(r) ==
    Emit(Here(r), [Event("amp", r) EXCEPT
        !.session = Around.session, !.project = Around.project, !.cost = r.cost,
        !.time = OrTime(r.time, Around.time),
        !.tokens = WithReasoning(Anthropic(r.block), r.block)])

CrushEvents(r) ==
    Emit(Here(r), [Event("crush", r) EXCEPT
        !.session = Around.session, !.project = Around.project, !.cost = r.cost,
        !.time = OrTime(r.time, Around.time), !.tokens = Plain(r.block)])
=============================================================================
