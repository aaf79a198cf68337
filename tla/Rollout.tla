------------------------------ MODULE Rollout ------------------------------
(***************************************************************************)
(* A Codex thread: the rollout of a parent and of one fork of it, which    *)
(* opens on a stretch of the parent's history, and what parse_codex.py and *)
(* codex_fork.py book of the two.  Codex writes no usage of a request but  *)
(* a running total, repeats it, and lets a fork start from the parent's.   *)
(* The canonical row of a request is chosen over both files                *)
(* (ingest_rollup_state.py).  The six counters are one.                    *)
(***************************************************************************)
EXTENDS Lanes

CONSTANTS
  Models, Usages,       \* what a request may cost
  Spoken,               \* bound: the other lines sessions write
  MaxWritten,           \* bound: lines the two sessions write
  MaxRequests           \* bound: requests

VARIABLES
  rollout,     \* the lines of each file; <<>> until the fork is made
  total, last, \* each session's running total and its last request
  model,       \* each session's model in force
  searching,   \* searches of each session since its last count
  served,      \* the requests made: [file, total, tokens, model]
  parsed,      \* what the parser makes of each file
  written      \* bound counter

rolloutVars == <<rollout, total, last, model, searching, served, parsed, written>>

RolloutFiles == {"fork", "parent"}

(***************************************************************************)
(* The parser.                                                             *)
(***************************************************************************)
Count(t, l, reached) == [kind |-> "count", total |-> t, last |-> l, reached |-> reached]
Item(kind) == [kind |-> kind]
Declare(m) == [kind |-> "declare", model |-> m]
Patch(turn) == [kind |-> "patch", turn |-> turn]

\* head_scan: the first declaration, and in a fork the end of the replay.
DeclaredAt(lines) == SelectInSeq(lines, LAMBDA l : l.kind = "declare")
FirstModel(lines) == IF DeclaredAt(lines) = 0 THEN Nothing ELSE lines[DeclaredAt(lines)].model

Codex(lines) ==
  Joined(Lane, [prev |-> Nothing, searches |-> 0, model |-> FirstModel(lines), target |-> Nothing, limit |-> Nothing])

RateLimit(st, n, line) ==
  IF line.reached = Nothing THEN [st EXCEPT !.limit = Nothing]
  ELSE IF line.reached = st.limit THEN st
  ELSE [st EXCEPT !.limit = line.reached, !.limits = Append(@, n)]

\* Mutant: every thread starts from zero.
BaselineZero(st, line) == IF st.prev = Nothing THEN 0 ELSE st.prev
\* The baseline of the first count is what was spent before its request.
Baseline(st, line) == IF st.prev = Nothing THEN line.total - line.last ELSE st.prev
TokenCount(st, n, line) ==
  LET delta == line.total - Baseline(st, line)
      row == [uuid |-> line.total, tokens |-> delta, model |-> st.model, searches |-> st.searches]
      seen == [st EXCEPT !.prev = line.total]
  IN  IF delta <= 0 /\ st.searches = 0 THEN seen
      ELSE [AppendUsageRecord(seen, n, row, delta > 0) EXCEPT !.searches = 0]

ToolCall(st, n, patches) ==
  LET called == AppendToolUse(st, n, [model |-> st.model, churn |-> 0])
  IN  MarkAssistantEvent([called EXCEPT !.target = IF patches THEN [row |-> Len(called.tools), turn |-> 1] ELSE @], n)
\* The end of a patch is added to the call that made it, in the same turn.
PatchEnd(st, n, line) ==
  IF st.target # Nothing /\ st.target.turn = line.turn THEN [st EXCEPT !.tools[st.target.row].churn = @ + 1]
  ELSE AppendToolUse(st, n, [model |-> st.model, churn |-> 1])

Dispatch(st, n, line) ==
  CASE line.kind = "count" -> TokenCount(RateLimit(st, n, line), n, line)
    [] line.kind = "begin" -> TurnBoundary(st, n)
    [] line.kind = "end" -> EndTurn(st)
    [] line.kind = "declare" -> [st EXCEPT !.model = line.model]
    [] line.kind = "message" -> MarkAssistantEvent(ResponseLine(st, n), n)
    [] line.kind = "call" -> ToolCall(ResponseLine(st, n), n, FALSE)
    [] line.kind = "apply_patch" -> ToolCall(ResponseLine(st, n), n, TRUE)
    [] line.kind = "search" -> MarkAssistantEvent([ResponseLine(st, n) EXCEPT !.searches = @ + 1], n)
    [] line.kind = "output" -> SettleToolResult(AnchorLine(st, n), Len(st.tools), FALSE)
    [] line.kind = "user" -> AnchorLine(st, n)
    [] line.kind = "patch" -> PatchEnd(st, n, line)

\* A file with a row of no model is refused.
Refused(st) == \E r \in Range(st.records) \cup Range(st.tools) : r.model = Nothing
Replay(f, lines, r) == f = "fork" /\ r.line < DeclaredAt(lines)
Parse(f, lines) ==
  LET st == FinishParse(FoldLeft(LAMBDA s, n : Dispatch(s, n, lines[n]), Codex(lines), [n \in DOMAIN lines |-> n]))
  IN  IF Refused(st) THEN FinishParse(Codex(<<>>))
      ELSE [st EXCEPT !.records = [i \in DOMAIN @ |-> Joined(@[i], [file |-> f, replay |-> Replay(f, lines, @[i])])]]

(***************************************************************************)
(* The canonical rows: an original before a replay, then by key and line.  *)
(***************************************************************************)
\* Mutant: a replay is ranked like an original.
RankByKey(r) == <<0, IF r.file = "fork" THEN 0 ELSE 1, r.line>>
Rank(r) == <<IF r.replay THEN 1 ELSE 0, IF r.file = "fork" THEN 0 ELSE 1, r.line>>
Lower(a, b) == \E i \in DOMAIN a : a[i] < b[i] /\ \A j \in 1..i - 1 : a[j] = b[j]
Rows(files) == UNION {Range(parsed[f].records) : f \in files}
CanonicalRows(files) ==
  {r \in Rows(files) : ~\E o \in Rows(files) : o.uuid = r.uuid /\ Lower(Rank(o), Rank(r))}

(***************************************************************************)
(* The sessions.                                                           *)
(***************************************************************************)
RolloutTypeOK ==
  /\ \A f \in RolloutFiles : total[f] >= last[f] /\ model[f] \in Models \cup {Nothing}
  /\ \A s \in served : s.total <= total[s.file]
  /\ written \in 0..MaxWritten

RolloutInit ==
  /\ \E m \in Models :
       /\ rollout = [fork |-> <<>>, parent |-> <<Declare(m)>>]
       /\ model = [fork |-> Nothing, parent |-> m]
       /\ parsed = [fork |-> Parse("fork", <<>>), parent |-> Parse("parent", <<Declare(m)>>)]
  /\ total = [f \in RolloutFiles |-> 0] /\ last = [f \in RolloutFiles |-> 0] /\ searching = [f \in RolloutFiles |-> 0]
  /\ served = {}
  /\ written = 0

Writes(f, lines) ==
  /\ rollout' = [rollout EXCEPT ![f] = lines]
  /\ parsed' = [parsed EXCEPT ![f] = Parse(f, lines)]
Writing(f, line) ==
  /\ rollout[f] # <<>>
  /\ written < MaxWritten /\ written' = written + 1
  /\ Writes(f, Append(rollout[f], line))

Request(f, tokens) ==
  LET sum == total[f] + tokens
  IN  /\ model[f] # Nothing /\ Cardinality(served) < MaxRequests
      /\ \A s \in served : s.total # sum      \* totals tell requests apart
      /\ Writing(f, Count(sum, tokens, Nothing))
      /\ total' = [total EXCEPT ![f] = sum] /\ last' = [last EXCEPT ![f] = tokens]
      /\ served' = served \cup {[file |-> f, total |-> sum, tokens |-> tokens, model |-> model[f]]}
      /\ searching' = [searching EXCEPT ![f] = 0]
      /\ UNCHANGED model
\* The same total again: with a limit, or after a compaction, its last zeroed.
Repeat(f, l, reached) ==
  /\ total[f] > 0
  /\ Writing(f, Count(total[f], l, reached))
  /\ searching' = [searching EXCEPT ![f] = 0]
  /\ UNCHANGED <<total, last, model, served>>
SettingLines(f, m) ==
  /\ Writing(f, Declare(m)) /\ model' = [model EXCEPT ![f] = m]
  /\ UNCHANGED <<total, last, searching, served>>
Search(f) ==
  /\ Writing(f, Item("search")) /\ searching' = [searching EXCEPT ![f] = @ + 1]
  /\ UNCHANGED <<total, last, model, served>>
Other(f, line) ==
  /\ Writing(f, line)
  /\ UNCHANGED <<total, last, model, searching, served>>

\* A fork replays the parent's history, or its end, without declarations; it
\* has its total from a count in there.
Fork(from) ==
  LET replay == SelectSeq(SubSeq(rollout["parent"], from, Len(rollout["parent"])), LAMBDA l : l.kind # "declare")
  IN  /\ rollout["fork"] = <<>> /\ replay # <<>>
      /\ total["parent"] > 0 => \E line \in Range(replay) : line.kind = "count"
      /\ Writes("fork", replay)
      /\ total' = [total EXCEPT !["fork"] = total["parent"]]
      /\ last' = [last EXCEPT !["fork"] = last["parent"]]
      /\ UNCHANGED <<model, searching, served, written>>

Others == {Item(k) : k \in {"begin", "end", "message", "call", "apply_patch", "output", "user"}} \cup {Patch(1), Patch(2)}
RolloutNext ==
  \/ \E f \in RolloutFiles :
       \/ \E tokens \in Usages : Request(f, tokens)
       \/ \E l \in {0, last[f]}, reached \in {Nothing, "primary"} : Repeat(f, l, reached)
       \/ \E m \in Models : SettingLines(f, m)
       \/ Search(f)
       \/ \E line \in Others \cap Spoken : Other(f, line)
  \/ \E from \in DOMAIN rollout["parent"] : Fork(from)

RolloutSpec == RolloutInit /\ [][RolloutNext]_rolloutVars

(***************************************************************************)
(* Properties.                                                             *)
(***************************************************************************)
OwnRow(s) == \E r \in CanonicalRows(RolloutFiles) : r.uuid = s.total /\ r.tokens = s.tokens /\ r.model = s.model
\* Every request of the thread is in a canonical row, with its own tokens and
\* the model in force when it was made, however the totals were repeated and
\* wherever the fork's replay begins, and no other canonical row carries
\* tokens, also when the parent's file is not there (parse_codex.py:83-133,
\* codex_fork.py:50-125, ingest_rollup_state.py:44-70).  Not claimed of a request after which a
\* total was repeated with searches to book: see OneRowPerRequest.
RequestsOnce ==
  /\ \A s \in served : OwnRow(s) \/ \E r \in Rows(RolloutFiles) : r.uuid = s.total /\ r.tokens = 0
  /\ \A files \in {RolloutFiles, {"fork"}} : \A r \in CanonicalRows(files) :
       r.tokens > 0 => \E s \in served : s.total = r.uuid /\ s.tokens = r.tokens

\* Each request keeps a row of its own: "Book ONE billing record per real
\* request" (parse_codex.py:85), "Ingest resolves this uuid to one
\* is_canonical row" (parse_codex.py:75).  A repeated total that books the
\* searches of an aborted request takes the uuid of the request before it.
OneRowPerRequest == \A s \in served : OwnRow(s)

\* The generation windows of a file's requests do not overlap
\* (lane_generation.py:9-46).
RolloutWindowsApart == \A f \in RolloutFiles : WindowsApart(parsed[f])
=============================================================================
