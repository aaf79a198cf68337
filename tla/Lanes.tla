------------------------------- MODULE Lanes -------------------------------
(***************************************************************************)
(* What the Codex and Kimi parsers share (parse_common.py, lane_state.py,  *)
(* lane_generation.py, ctx_turns.py): turns, the reply anchor, the window  *)
(* of the request being generated, tool calls and their results, and the   *)
(* booking of a usage record.  A parser state is a record that has at      *)
(* least the fields of Lane; a line's number stands for its timestamp.     *)
(***************************************************************************)
EXTENDS Integers, Sequences, FiniteSets, SequencesExt

CONSTANT Nothing   \* None

\* A record with the fields of both, the first's where both have one.
Joined(r, s) == [f \in DOMAIN r \cup DOMAIN s |-> IF f \in DOMAIN r THEN r[f] ELSE s[f]]

Lane ==
  [records |-> <<>>, tools |-> <<>>, outcomes |-> {}, limits |-> <<>>,
   turns |-> <<>>, turn |-> Nothing, pending |-> Nothing, first |-> Nothing,
   anchor |-> Nothing, open |-> Nothing, closed |-> Nothing]

(***************************************************************************)
(* Turns and the reply anchor.                                             *)
(***************************************************************************)
CloseTurn(st) ==
  IF st.turn = Nothing THEN st ELSE [st EXCEPT !.turns = Append(@, st.turn), !.turn = Nothing]
StartTurn(st, n) == [st EXCEPT !.turn = [begin |-> n, status |-> <<>>]]
ArmReplyAnchor(st, ts) == [st EXCEPT !.pending = ts, !.first = Nothing]
TurnBoundary(st, n) == ArmReplyAnchor(StartTurn(CloseTurn(st), n), n)
EndTurn(st) == IF st.turn = Nothing THEN st ELSE ArmReplyAnchor(CloseTurn(st), Nothing)
MarkAssistantEvent(st, ts) ==
  IF st.pending # Nothing /\ st.first = Nothing THEN [st EXCEPT !.first = ts] ELSE st
ReplyLatency(st, ts) ==
  LET end == IF st.first # Nothing THEN st.first ELSE ts
  IN  IF st.pending = Nothing THEN Nothing ELSE end - st.pending

(***************************************************************************)
(* The window of a request: opened by its first response line, from the    *)
(* input before it, and closed by the next input.                          *)
(***************************************************************************)
Window(start, end) == [start |-> start, end |-> end]
AnchorLine(st, ts) ==
  [st EXCEPT !.closed = IF st.open # Nothing THEN st.open ELSE @, !.open = Nothing, !.anchor = ts]
ResponseLine(st, ts) ==
  IF st.open = Nothing THEN [st EXCEPT !.open = Window(st.anchor, ts), !.anchor = Nothing]
  ELSE [st EXCEPT !.open.end = ts]
\* Mutant: a failure leaves the open window.
FailAnchor(st) == [st EXCEPT !.anchor = Nothing]
FailWindow(st) ==
  [st EXCEPT !.anchor = Nothing,
             !.open = IF @ = Nothing THEN Nothing ELSE Window(Nothing, @.end)]
BoundWindow(st) ==
  LET w == IF st.open # Nothing THEN st.open ELSE st.closed
  IN  IF w = Nothing THEN Nothing
      ELSE IF w.start = Nothing \/ w.end <= w.start THEN Nothing ELSE w
Unbound(st) == [st EXCEPT !.open = Nothing, !.closed = Nothing]

(***************************************************************************)
(* Rows.                                                                   *)
(***************************************************************************)
AppendToolUse(st, n, row) == [st EXCEPT !.tools = Append(@, Joined(row, [line |-> n]))]
\* The last result of a call decides.
SettleToolResult(st, call, error) ==
  [st EXCEPT !.outcomes = {o \in @ : o.call # call} \cup {[call |-> call, error |-> error]}]

Listed(turn, n) == [turn EXCEPT !.status = Append(@, n)]

\* The record takes the reply latency, and the window of a request that moved
\* the counters ("bind").
AppendUsageRecord(st, n, row, bind) ==
  LET record == Joined(row, [line |-> n, latency |-> ReplyLatency(st, n),
                             window |-> IF bind THEN BoundWindow(st) ELSE Nothing])
      booked == [ArmReplyAnchor(st, Nothing) EXCEPT
                   !.records = Append(@, record),
                   !.turn = IF @ = Nothing THEN Nothing ELSE Listed(@, n)]
  IN  IF bind THEN Unbound(booked) ELSE booked

FinishParse(st) == CloseTurn(st)
\* _ctx_turns_from_turns: the last record of every turn that has one.
CtxTurns(st) == {Last(t.status) : t \in {t \in Range(st.turns) : t.status # <<>>}}

(***************************************************************************)
(* No second is in two requests' windows.                                  *)
(***************************************************************************)
WindowsApart(st) ==
  \A i, j \in DOMAIN st.records :
    (i < j /\ st.records[i].window # Nothing /\ st.records[j].window # Nothing) =>
      st.records[i].window.end <= st.records[j].window.start
=============================================================================
