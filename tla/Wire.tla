-------------------------------- MODULE Wire --------------------------------
(***************************************************************************)
(* A Kimi session, in the kimi-code or the legacy format, as it is written *)
(* and as parse_kimi.py reads it.  A request is a step: it answers what    *)
(* reached the model before it began, and its usage is written after its   *)
(* tool calls.  A steer that comes during a step waits for its end.        *)
(***************************************************************************)
EXTENDS Lanes

CONSTANTS
  WireModels,      \* names a usage record may give; Nothing is none
  Known,           \* those that name one model
  OldCutoff, NewCutoff,  \* MODEL_CUTOFF_DT and K3_CUTOFF_DT
  Steers,          \* texts a steer may have
  MaxWire          \* bound: lines

VARIABLES
  dialect,     \* "kimi-code" or "legacy"
  wire,        \* the parser's state after the lines
  line,        \* number of the next line
  step,        \* "idle", "running", "answered" (results came), "done"
  queued,      \* steers not yet in context
  heard,       \* line of the newest input no step has answered, or Nothing
  replying,    \* what the step answers, and its first output, or Nothing
  requests,    \* the steps that ended: [record, asked, first, model, calls]
  calls,       \* tool calls of the step
  failedAt     \* lines of failed attempts

wireVars == <<dialect, wire, line, step, queued, heard, replying, requests, calls, failedAt>>

(***************************************************************************)
(* The parser.                                                             *)
(***************************************************************************)
\* _model_for: the wire's name decides if it is known, else the time.
ModelFor(name, ts) ==
  IF name \in Known THEN name
  ELSE IF ts < OldCutoff THEN "k2.6"
  ELSE IF name # Nothing \/ ts < NewCutoff THEN "k2.7"
  ELSE "k3"

Empty == Joined(Lane, [steers |-> <<>>, turnId |-> Nothing])

\* Mutant: a steer arms the reply anchor.
SteerArms(st, n, text) == ArmReplyAnchor([StartTurn(CloseTurn(st), n) EXCEPT !.steers = Append(@, text)], n)
Steer(st, n, text) == [StartTurn(CloseTurn(st), n) EXCEPT !.steers = Append(@, text)]
\* The first queued steer of that text, and those before it, are delivered.
Queued(steers, text) == SelectInSeq(steers, LAMBDA s : s = text)
DeliverSteer(st, n, text) ==
  LET i == Queued(st.steers, text)
  IN  IF i = 0 THEN st
      ELSE AnchorLine(ArmReplyAnchor([st EXCEPT !.steers = SubSeq(@, i + 1, Len(@))], n), n)
StepBegin(st, n, turn) ==
  IF turn = st.turnId THEN st ELSE [StartTurn(CloseTurn(st), n) EXCEPT !.turnId = turn]
ContentPart(st, n) == MarkAssistantEvent(ResponseLine(st, n), n)
ToolCall(st, n) == MarkAssistantEvent(AppendToolUse(ResponseLine(st, n), n, [model |-> Nothing]), n)
ToolResult(st, n, call, error) == SettleToolResult(AnchorLine(st, n), call, error)
UsageRecord(st, n, name) == AppendUsageRecord(st, n, [model |-> ModelFor(name, n)], TRUE)
LlmError(st, n, kind) ==
  [FailWindow(st) EXCEPT !.limits = IF kind = "quota_exhausted" THEN Append(@, n) ELSE @]
Prompt(st, n) == TurnBoundary(AnchorLine(st, n), n)

\* _attribute_tool_models: a call's model is that of the next usage record.
FirstAfter(records, n) == SelectInSeq(records, LAMBDA r : r.line > n)
ToolModel(st, i) ==
  LET after == FirstAfter(st.records, st.tools[i].line)
  IN  IF after # 0 THEN st.records[after].model
      ELSE IF st.records # <<>> THEN Last(st.records).model ELSE ModelFor(Nothing, st.tools[i].line)

(***************************************************************************)
(* The session.                                                            *)
(***************************************************************************)
WireTypeOK ==
  /\ dialect \in {"kimi-code", "legacy"} /\ line \in 1..MaxWire + 1
  /\ step \in {"idle", "running", "answered", "done"}
  /\ Len(requests) = Len(wire.records)
  /\ queued = wire.steers

WireInit ==
  /\ dialect \in {"kimi-code", "legacy"}
  /\ wire = Empty /\ line = 1 /\ step = "idle" /\ queued = <<>>
  /\ heard = Nothing /\ replying = Nothing /\ requests = <<>> /\ calls = {} /\ failedAt = {}

Writes(st) == line <= MaxWire /\ line' = line + 1 /\ wire' = st /\ UNCHANGED dialect
Replied == IF replying.first = Nothing THEN [replying EXCEPT !.first = line] ELSE replying
Begun == [asked |-> heard, first |-> Nothing]

\* turn.prompt, TurnBegin.
Ask ==
  /\ step = "idle" /\ queued = <<>> /\ heard = Nothing
  /\ Writes(Prompt(wire, line))
  /\ heard' = line
  /\ UNCHANGED <<step, queued, replying, requests, calls, failedAt>>
\* A text typed while the agent works.
Interject(text) ==
  /\ dialect = "kimi-code" /\ (step # "idle" \/ heard # Nothing)
  /\ Writes(Steer(wire, line, text))
  /\ queued' = Append(queued, text)
  /\ UNCHANGED <<step, heard, replying, requests, calls, failedAt>>
\* Queued steers enter the context between two steps, in their order.
Deliver ==
  /\ queued # <<>> /\ step \in {"idle", "done"}
  /\ Writes(DeliverSteer(wire, line, Head(queued)))
  /\ queued' = Tail(queued)
  /\ heard' = line
  /\ UNCHANGED <<step, replying, requests, calls, failedAt>>
\* A message of the harness enters the context, at any time.
Inject ==
  /\ dialect = "kimi-code"
  /\ Writes(DeliverSteer(wire, line, Nothing))
  /\ UNCHANGED <<step, queued, heard, replying, requests, calls, failedAt>>
BeginStep ==
  /\ step = "done" \/ (step = "idle" /\ heard # Nothing)
  /\ IF dialect = "legacy" THEN UNCHANGED <<line, wire, dialect>>
     ELSE Writes(StepBegin(wire, line, IF heard = Nothing THEN wire.turnId ELSE line))
  /\ step' = "running" /\ replying' = Begun /\ heard' = Nothing /\ calls' = {}
  /\ UNCHANGED <<queued, requests, failedAt>>
Say ==
  /\ step = "running" /\ Writes(ContentPart(wire, line)) /\ replying' = Replied
  /\ UNCHANGED <<step, queued, heard, requests, calls, failedAt>>
Call ==
  /\ step = "running" /\ Writes(ToolCall(wire, line)) /\ replying' = Replied
  /\ calls' = calls \cup {Len(wire.tools) + 1}
  /\ UNCHANGED <<step, queued, heard, requests, failedAt>>
Result(call, error) ==
  /\ step \in {"running", "answered"} /\ call \in calls
  /\ \A o \in wire.outcomes : o.call # call
  /\ Writes(ToolResult(wire, line, call, error))
  /\ step' = "answered"
  /\ UNCHANGED <<queued, heard, replying, requests, calls, failedAt>>
\* The attempt of the step failed; the step tries again.
Fail(kind) ==
  /\ step = "running" /\ dialect = "kimi-code"
  /\ Writes(LlmError(wire, line, kind))
  /\ failedAt' = failedAt \cup {line}
  /\ UNCHANGED <<step, queued, heard, replying, requests, calls>>
\* usage.record, StatusUpdate.
Usage(name) ==
  /\ step \in {"running", "answered"} /\ replying.first # Nothing
  /\ dialect = "legacy" => name = Nothing
  /\ Writes(UsageRecord(wire, line, name))
  /\ requests' = Append(requests, Joined(replying, [model |-> ModelFor(name, line), calls |-> calls]))
  /\ step' = "done" /\ replying' = Nothing /\ calls' = {}
  /\ UNCHANGED <<queued, heard, failedAt>>
\* The turn is over; the legacy format says so.
Rest ==
  /\ step = "done" /\ queued = <<>> /\ heard = Nothing
  /\ IF dialect = "legacy" THEN Writes(EndTurn(wire)) ELSE UNCHANGED <<line, wire, dialect>>
  /\ step' = "idle"
  /\ UNCHANGED <<queued, heard, replying, requests, calls, failedAt>>

WireNext ==
  \/ Ask \/ Deliver \/ Inject \/ BeginStep \/ Say \/ Call \/ Rest
  \/ \E text \in Steers : Interject(text)
  \/ \E call \in calls, error \in BOOLEAN : Result(call, error)
  \/ \E kind \in {"quota_exhausted", "other"} : Fail(kind)
  \/ \E name \in WireModels \cup {Nothing} : Usage(name)

WireSpec == WireInit /\ [][WireNext]_wireVars

(***************************************************************************)
(* Properties.                                                             *)
(***************************************************************************)
\* A usage record is timed from the input its step answers to the step's first
\* output, and a step that answers no new input has no latency; a steer typed
\* meanwhile, or a text the harness injects, moves neither.  The calls of the
\* step carry its model (parse_kimi.py:213-322, parse_common.py:92-143).
StepsOwnTheirRows ==
  \A i \in DOMAIN requests :
    LET q == requests[i]
    IN  /\ wire.records[i].latency = IF q.asked = Nothing THEN Nothing ELSE q.first - q.asked
        /\ wire.records[i].model = q.model
        /\ \A c \in q.calls : ToolModel(wire, c) = q.model

\* The windows of two requests share no second, and none holds a failed
\* attempt (lane_generation.py:9-46, parse_kimi.py:389-409).
WireTimesUnbroken ==
  /\ WindowsApart(wire)
  /\ \A i \in DOMAIN wire.records, n \in failedAt :
       LET w == wire.records[i].window IN w # Nothing => ~(w.start < n /\ n < w.end)

(***************************************************************************)
(* The inductive invariant.  The reply anchor is what the step answers;    *)
(* a step's calls lie between the record before theirs and their own; and  *)
(* what may become the next window begins behind every window and failure. *)
(***************************************************************************)
Moments == Nat \cup {Nothing}
Windows == [start : Moments, end : Nat]
Names == Known \cup {"k2.6", "k2.7", "k3"}
UsageRows == [model : Names, line : Nat, latency : Int \cup {Nothing}, window : Windows \cup {Nothing}]
CallRows == [model : {Nothing}, line : Nat]
Steps == [asked : Moments, first : Moments, model : Names, calls : SUBSET (Nat \ {0})]

StateInv ==
  /\ line \in Nat /\ heard \in Moments /\ calls \subseteq Nat \ {0} /\ failedAt \subseteq 0..line - 1
  /\ step \in {"idle", "running", "answered", "done"}
  /\ wire = [f \in DOMAIN Empty |-> wire[f]]
  /\ wire.steers = queued /\ queued \in Seq(Steers)
  /\ wire.records \in Seq(UsageRows) /\ wire.tools \in Seq(CallRows) /\ requests \in Seq(Steps)
  /\ wire.anchor \in Moments /\ {wire.open, wire.closed} \subseteq Windows \cup {Nothing}

ReplyInv ==
  /\ step \in {"idle", "done"} => wire.pending = heard /\ wire.first = Nothing
  /\ step \in {"running", "answered"} =>
       /\ heard = Nothing /\ replying \in [asked : Moments, first : Moments]
       /\ wire.pending = replying.asked
       /\ wire.first = IF replying.asked = Nothing THEN Nothing ELSE replying.first

\* Call c is on a line behind the records before the i-th, and before n.
CallBetween(st, c, i, n) ==
  /\ c \in DOMAIN st.tools /\ st.tools[c].line < n
  /\ \A j \in DOMAIN st.records : j < i => st.records[j].line < st.tools[c].line
CallsInv ==
  /\ DOMAIN requests = DOMAIN wire.records
  /\ \A i \in DOMAIN wire.records :
       LET q == requests[i]
           r == wire.records[i]
       IN  /\ r.line < line /\ r.model = q.model
           /\ r.latency = IF q.asked = Nothing THEN Nothing ELSE q.first - q.asked
           /\ \A c \in q.calls : CallBetween(wire, c, i, r.line)
  /\ \A c \in calls : CallBetween(wire, c, Len(wire.records) + 1, line)

\* No recorded window ends after ts; no attempt failed after it.
Apart(ts) ==
  ts # Nothing => \A i \in DOMAIN wire.records :
    wire.records[i].window # Nothing => wire.records[i].window.end <= ts
Behind(ts) == Apart(ts) /\ (ts # Nothing => \A n \in failedAt : n <= ts)
Unfailed(w) == w.start # Nothing => \A n \in failedAt : ~(w.start < n /\ n < w.end)
AnchorInv ==
  /\ Behind(line) /\ Behind(wire.anchor)
  /\ wire.anchor # Nothing =>
       wire.open = Nothing /\ (wire.closed # Nothing => wire.closed.end <= wire.anchor)
OpenInv == wire.open # Nothing => Behind(wire.open.start) /\ wire.open.end < line
ClosedInv ==
  wire.closed # Nothing => Apart(wire.closed.start) /\ Unfailed(wire.closed) /\ wire.closed.end < line
RecordedInv ==
  \A i \in DOMAIN wire.records :
    LET w == wire.records[i].window
    IN  w # Nothing => w.start # Nothing /\ w.end < line /\ Unfailed(w)
WindowsInv == AnchorInv /\ OpenInv /\ ClosedInv /\ RecordedInv /\ WindowsApart(wire)

WireInv == StateInv /\ ReplyInv /\ CallsInv /\ WindowsInv
=============================================================================
