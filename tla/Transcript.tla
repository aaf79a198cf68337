----------------------------- MODULE Transcript -----------------------------
(***************************************************************************)
(* One Claude transcript and the walk over its lines (parse.py,            *)
(* turn_flags.py, reply_timing.py, ctx_turns.py).  A session appends       *)
(* lines; a resume appends the lines so far once more, as they were, with  *)
(* their uuids, request ids and timestamps.                                *)
(*                                                                         *)
(* "walk" is the state of the walk after the lines of the file, "clean"    *)
(* what it would be had no line been repeated.  A line's timestamp and     *)
(* uuid are its place among the lines written first: "at".                 *)
(***************************************************************************)
EXTENDS Integers, Sequences, FiniteSets, SequencesExt

CONSTANTS
  Requests, Outputs, Settings, Tools, Snapshots,
  Nothing,               \* None
  Spoken,                \* bound: the shapes lines are chosen from
  MaxLines, MaxResumes   \* bounds

VARIABLES lines, walk, clean, resumes

transcriptVars == <<lines, walk, clean, resumes>>

\* What a line can say.  A failed attempt is an assistant record with
\* isApiErrorMessage; its "limit" is "hit" or "transient" for a rate limit.
Shapes ==
  [kind : {"user"}, says : {"prompt", "data", "interrupt"}]
    \cup [kind : {"result"}, tool : Tools, error : BOOLEAN]
    \cup [kind : {"system"}, subtype : {"api_error", "compact_boundary"}]
    \cup [kind : {"snapshot"}, digest : Snapshots]
    \cup [kind : {"assistant"}, request : Requests, output : Outputs, setting : Settings,
          tool : Tools \cup {Nothing}]
    \cup [kind : {"failed"}, limit : {"hit", "transient", "other"}]
Line(shape, at) == [shape |-> shape, at |-> at]
Assistant(s) == s.kind \in {"assistant", "failed"}
FromUser(s) == s.kind \in {"user", "result"}

Empty ==
  [flags |-> {}, results |-> 0, setting |-> Nothing, opener |-> Nothing, snapshot |-> Nothing,
   requests |-> <<>>, reply |-> Nothing, anchor |-> Nothing, epoch |-> 0,
   spans |-> [r \in Requests |-> Nothing], users |-> {},
   tools |-> <<>>, outcomes |-> [t \in Tools |-> Nothing], prompts |-> {}, limits |-> <<>>]

(***************************************************************************)
(* The window of flags since the last new request (TurnWindow).            *)
(***************************************************************************)
SnapshotFlag(w, digest) ==
  IF w.snapshot = Nothing THEN {} ELSE IF w.snapshot = digest THEN {"rerender"} ELSE {"change"}
\* Mutant: a snapshot amends the next request.
BackfillAhead(w, flags) == [w EXCEPT !.flags = @ \cup flags]
\* A snapshot amends the flags the last request took.
Backfill(w, flags) ==
  IF w.requests = <<>> THEN [w EXCEPT !.flags = @ \cup flags]
  ELSE [w EXCEPT !.requests[Len(w.requests)].flags = @ \cup flags]
Observe(w, s) ==
  IF s.kind = "snapshot" THEN [Backfill(w, SnapshotFlag(w, s.digest)) EXCEPT !.snapshot = s.digest]
  ELSE IF s.kind = "system" THEN [w EXCEPT !.flags = @ \cup {s.subtype}]
  ELSE IF s.kind = "user" /\ s.says # "data" THEN [w EXCEPT !.flags = @ \cup {s.says}]
  ELSE IF s.kind = "result" THEN [w EXCEPT !.results = @ + 1]
  ELSE w

Switched(w, s) ==
  (IF w.setting \notin {Nothing, s.setting} THEN {"switch"} ELSE {})
    \cup (IF w.results = 0 /\ w.opener \notin {Nothing, s.setting} THEN {"rebuild"} ELSE {})
Taken(w, s) ==
  [w EXCEPT !.flags = {}, !.results = 0, !.setting = s.setting,
            !.opener = IF w.results = 0 THEN s.setting ELSE @]

(***************************************************************************)
(* Reply and generation timing.                                            *)
(***************************************************************************)
\* Mutant: a failed attempt only drops the anchor.
FailingQuietly(w) == [w EXCEPT !.anchor = Nothing]
Failing(w) == [w EXCEPT !.anchor = Nothing, !.epoch = @ + 1]
FailedAttempt(w) == [Failing(w) EXCEPT !.reply = Nothing]

\* A user line whose uuid was seen anchors nothing.
Replayed(w, line) == line.at \in w.users
AnchorGeneration(w, line) == IF Replayed(w, line) THEN w ELSE [w EXCEPT !.anchor = line.at]

Latency(w, line) == IF w.reply = Nothing \/ line.at < w.reply THEN Nothing ELSE line.at - w.reply
\* The span of the line's message: begun by its first line, ended by its last.
Spanning(w, line) ==
  LET r == line.shape.request
      span == IF w.spans[r] = Nothing THEN [start |-> w.anchor, first |-> w.epoch] ELSE w.spans[r]
  IN  [w EXCEPT !.anchor = IF w.spans[r] = Nothing THEN Nothing ELSE @,
                !.spans[r] = [start |-> span.start, first |-> span.first, last |-> w.epoch,
                              end |-> line.at, output |-> line.shape.output]]
GenerationValues(span) ==
  IF span = Nothing \/ span.start = Nothing \/ span.first # span.last \/ span.end <= span.start
  THEN Nothing
  ELSE [start |-> span.start, end |-> span.end, output |-> span.output]

(***************************************************************************)
(* Lines.                                                                  *)
(***************************************************************************)
UserLine(w, line, n) ==
  LET s == line.shape
      anchored == IF Replayed(w, line) THEN w.reply ELSE line.at
  IN  IF s.kind = "result" THEN [w EXCEPT !.outcomes[s.tool] = s.error]
      ELSE IF s.says = "interrupt" THEN [w EXCEPT !.reply = IF Replayed(w, line) THEN @ ELSE Nothing]
      ELSE [w EXCEPT !.reply = anchored,
                     !.prompts = IF s.says = "prompt" THEN @ \cup {n} ELSE @]

\* Mutant: the outputs of one request's lines add up.
MergeAdd(old, line) == [old EXCEPT !.output = @ + line.shape.output]
Merge(old, line) == [old EXCEPT !.output = IF line.shape.output > @ THEN line.shape.output ELSE @]
RecordTool(w, line) ==
  LET t == line.shape.tool
  IN  IF t = Nothing \/ \E i \in DOMAIN w.tools : w.tools[i].tool = t THEN w
      ELSE [w EXCEPT !.tools = Append(@, [tool |-> t, at |-> line.at])]
\* "latency" is what consuming the reply anchor gave.
AssistantLine(w, line, n, latency) ==
  LET s == line.shape
      known == {i \in DOMAIN w.requests : w.requests[i].request = s.request}
      new == [request |-> s.request, line |-> n, at |-> line.at, output |-> s.output,
              latency |-> latency, flags |-> w.flags \cup Switched(w, s), results |-> w.results]
      booked == IF known = {} THEN [Taken(w, s) EXCEPT !.requests = Append(@, new)]
                ELSE [w EXCEPT !.requests = [i \in DOMAIN @ |-> IF i \in known THEN Merge(@[i], line) ELSE @[i]]]
  IN  RecordTool(booked, line)

\* handle_rate_limit: every hit has the line it stands in; no uuid is looked at.
LimitHit(w, line, n) == [w EXCEPT !.limits = Append(@, [line |-> n, at |-> line.at])]

Read(w, line, n) ==
  LET s == line.shape
      seen == Observe(w, s)
      consumed == [seen EXCEPT !.reply = Nothing]
  IN  IF s.kind = "system" /\ s.subtype = "api_error" THEN FailedAttempt(seen)
      ELSE IF s.kind = "failed" THEN
        Failing(IF s.limit = "hit" THEN LimitHit(consumed, line, n) ELSE consumed)
      ELSE IF s.kind = "assistant" THEN
        AssistantLine(Spanning(consumed, line), line, n, Latency(seen, line))
      ELSE IF FromUser(s) THEN
        [UserLine(AnchorGeneration(seen, line), line, n) EXCEPT !.users = @ \cup {line.at}]
      ELSE seen

\* _build_ctx_turns: the last request before each prompt, and the last one.
CtxTurns(w) ==
  {w.requests[i].at : i \in
     {i \in DOMAIN w.requests :
        i < Len(w.requests) =>
          \E b \in w.prompts : w.requests[i].line < b /\ b <= w.requests[i + 1].line}}

(***************************************************************************)
(* The session.                                                            *)
(***************************************************************************)
TranscriptTypeOK ==
  /\ lines \in Seq([shape : Shapes, at : 1..MaxLines])
  /\ walk.epoch \in 0..Len(lines) /\ clean.epoch <= walk.epoch
  /\ DOMAIN walk.requests = DOMAIN clean.requests

TranscriptInit == lines = <<>> /\ walk = Empty /\ clean = Empty /\ resumes = 0

Written == Cardinality({lines[i].at : i \in DOMAIN lines})
Write(shape) ==
  LET line == Line(shape, Written + 1)
  IN  /\ Written < MaxLines
      /\ lines' = Append(lines, line)
      /\ walk' = Read(walk, line, Len(lines) + 1)
      /\ clean' = Read(clean, line, Written + 1)
      /\ UNCHANGED resumes

Resume ==
  /\ resumes < MaxResumes /\ resumes' = resumes + 1 /\ lines # <<>>
  /\ lines' = lines \o lines
  /\ walk' = FoldLeft(LAMBDA w, i : Read(w, lines[i], Len(lines) + i), walk, [i \in DOMAIN lines |-> i])
  /\ UNCHANGED clean

TranscriptNext == Resume \/ \E shape \in Shapes \cap Spoken : Write(shape)

TranscriptSpec == TranscriptInit /\ [][TranscriptNext]_transcriptVars

(***************************************************************************)
(* Properties.                                                             *)
(***************************************************************************)
Values(w, i) == GenerationValues(w.spans[w.requests[i].request])

\* Lines repeated by a resume book no request, token or tool call a second
\* time and lose none; they can hide a latency or a generation time but never
\* give one a reply did not have, and they only split context turns
\* (parse.py:241-262, 300-371, reply_timing.py:48-76).  Rate limits are
\* excepted: a repeated hit is a hit of its own, under its line
\* (parse.py:221-225), and is counted twice.
ReplaysOnlyForget ==
  /\ DOMAIN walk.requests = DOMAIN clean.requests
  /\ \A i \in DOMAIN walk.requests :
       /\ walk.requests[i].request = clean.requests[i].request
       /\ walk.requests[i].at = clean.requests[i].at
       /\ walk.requests[i].output = clean.requests[i].output
       /\ walk.requests[i].latency \in {Nothing, clean.requests[i].latency}
       /\ Values(walk, i) \in {Nothing, Values(clean, i)}
  /\ walk.tools = clean.tools /\ walk.outcomes = clean.outcomes
  /\ CtxTurns(clean) \subseteq CtxTurns(walk)

\* No generation time or latency spans a failed attempt: the seconds a retry
\* waited are in neither (reply_timing.py:37-90, 125-129).
Failure(l) == l.shape.kind = "failed" \/ (l.shape.kind = "system" /\ l.shape.subtype = "api_error")
TimesUnbroken ==
  \A i \in DOMAIN walk.requests, l \in Range(lines) :
    Failure(l) =>
      /\ Values(walk, i) # Nothing => ~(Values(walk, i).start < l.at /\ l.at < Values(walk, i).end)
      /\ walk.requests[i].latency # Nothing =>
           ~(walk.requests[i].at - walk.requests[i].latency < l.at /\ l.at < walk.requests[i].at)

\* Every event and tool result is in exactly the request it led to, and every
\* change of the prompt in the request it was noted after, also when the flags
\* a request took are amended later (turn_flags.py:67-224).
FlagOf(s) ==
  IF s.kind = "system" THEN {s.subtype} ELSE IF s.kind = "user" /\ s.says # "data" THEN {s.says} ELSE {}
Snaps == {n \in DOMAIN lines : lines[n].shape.kind = "snapshot"}
SnapFlags(n) ==
  LET before == {m \in Snaps : m < n}
      last == CHOOSE m \in before : \A k \in before : k <= m
  IN  IF before = {} THEN {} ELSE IF lines[last].shape = lines[n].shape THEN {"rerender"} ELSE {"change"}
FlagsLand ==
  \A i \in DOMAIN walk.requests :
    LET r == walk.requests[i]
        from == IF i = 1 THEN 0 ELSE walk.requests[i - 1].line
        to == IF i = Len(walk.requests) THEN Len(lines) ELSE walk.requests[i + 1].line
        window == from + 1..r.line
        amended == Snaps \cap ((IF i = 1 THEN 1 ELSE r.line)..to)
    IN  /\ r.results = Cardinality({n \in window : lines[n].shape.kind = "result"})
        /\ r.flags \ {"switch", "rebuild"} =
             UNION {FlagOf(lines[n].shape) : n \in window} \cup UNION {SnapFlags(n) : n \in amended}
=============================================================================
