---------------------------- MODULE Kimi_proofs -----------------------------
(***************************************************************************)
(* What the parser of Kimi sessions books, for every text, model and       *)
(* length of a session (module Wire, as KimiPart has it).                  *)
(*                                                                         *)
(* The reply anchor is what the step under way answers (ReplyInv); calls   *)
(* lie between the record before theirs and their own (CallsInv); and the  *)
(* open window, the closed one and the anchor of the next lie behind each  *)
(* other and behind every record's and every failure (WindowsInv).         *)
(***************************************************************************)
EXTENDS KimiPart, SequenceTheorems, TLAPS

\* A state of the parser: its fields, and the types of those that matter here.
Fields == {"records", "tools", "outcomes", "limits", "turns", "turn", "pending", "first", "anchor",
           "open", "closed", "steers", "turnId"}
IsWire(st) == st = [x \in Fields |-> st[x]]

-----------------------------------------------------------------------------
\* What the operators do to a state.

LEMMA EmptyIs ==
  /\ IsWire(K!Empty)
  /\ K!Empty.records = <<>> /\ K!Empty.tools = <<>> /\ K!Empty.steers = <<>>
  /\ K!Empty.pending = Nothing /\ K!Empty.first = Nothing
  /\ K!Empty.anchor = Nothing /\ K!Empty.open = Nothing /\ K!Empty.closed = Nothing
BY DEF K!Empty, K!Lane, K!Joined, IsWire, Fields

\* Turns are no matter of rows and windows.
Kept(s, st) ==
  /\ s.records = st.records /\ s.tools = st.tools
  /\ s.anchor = st.anchor /\ s.open = st.open /\ s.closed = st.closed
LEMMA CloseTurnIs ==
  ASSUME NEW st, IsWire(st)
  PROVE  LET s == K!CloseTurn(st)
         IN  IsWire(s) /\ Kept(s, st) /\ s.pending = st.pending /\ s.first = st.first
             /\ s.steers = st.steers
BY DEF K!CloseTurn, IsWire, Fields, Kept

LEMMA StartTurnIs ==
  ASSUME NEW st, IsWire(st), NEW n
  PROVE  LET s == K!StartTurn(st, n)
         IN  IsWire(s) /\ Kept(s, st) /\ s.pending = st.pending /\ s.first = st.first
             /\ s.steers = st.steers
BY DEF K!StartTurn, IsWire, Fields, Kept

LEMMA ArmIs ==
  ASSUME NEW st, IsWire(st), NEW n
  PROVE  LET s == K!ArmReplyAnchor(st, n)
         IN  IsWire(s) /\ Kept(s, st) /\ s.pending = n /\ s.first = Nothing
             /\ s.steers = st.steers
BY DEF K!ArmReplyAnchor, IsWire, Fields, Kept

LEMMA AnchorIs ==
  ASSUME NEW st, IsWire(st), NEW n
  PROVE  LET s == K!AnchorLine(st, n)
         IN  /\ IsWire(s) /\ s.records = st.records /\ s.tools = st.tools /\ s.steers = st.steers
             /\ s.pending = st.pending /\ s.first = st.first
             /\ s.anchor = n /\ s.open = Nothing
             /\ s.closed = IF st.open # Nothing THEN st.open ELSE st.closed
BY DEF K!AnchorLine, IsWire, Fields

\* Prompts and delivered steers: input that a step will answer.
Heard(s, st, n) ==
  /\ IsWire(s) /\ s.records = st.records /\ s.tools = st.tools
  /\ s.pending = n /\ s.first = Nothing /\ s.anchor = n /\ s.open = Nothing
  /\ s.closed = IF st.open # Nothing THEN st.open ELSE st.closed

LEMMA PromptIs ==
  ASSUME NEW st, IsWire(st), NEW n
  PROVE  Heard(K!Prompt(st, n), st, n) /\ K!Prompt(st, n).steers = st.steers
<1> DEFINE a == K!AnchorLine(st, n)
           c == K!CloseTurn(a)
           s == K!StartTurn(c, n)
<1>1. K!Prompt(st, n) = K!ArmReplyAnchor(s, n)
  BY DEF K!Prompt, K!TurnBoundary
<1>2. IsWire(a)
  BY AnchorIs
<1>3. IsWire(c) /\ Kept(c, a) /\ c.steers = a.steers
  BY <1>2, CloseTurnIs
<1>4. IsWire(s) /\ Kept(s, c) /\ s.steers = c.steers
  BY <1>3, StartTurnIs
<1> HIDE DEF s, c
<1>5. LET p == K!ArmReplyAnchor(s, n)
      IN  IsWire(p) /\ Kept(p, s) /\ p.pending = n /\ p.first = Nothing /\ p.steers = s.steers
  BY <1>4, ArmIs
<1>6. /\ a.records = st.records /\ a.tools = st.tools /\ a.steers = st.steers
      /\ a.anchor = n /\ a.open = Nothing
      /\ a.closed = IF st.open # Nothing THEN st.open ELSE st.closed
  BY AnchorIs
<1> HIDE DEF a
<1> QED BY <1>1, <1>3, <1>4, <1>5, <1>6 DEF Heard, Kept

\* The first of the queued steers is delivered alone; a text that no steer has
\* moves nothing.
LEMMA QueuedIs ==
  ASSUME NEW steers \in Seq(Steers)
  PROVE  /\ steers # <<>> => K!Queued(steers, Head(steers)) = 1
         /\ K!Queued(steers, Nothing) = 0
<1>1. ASSUME steers # <<>> PROVE K!Queued(steers, Head(steers)) = 1
  <2> DEFINE I == {i \in 1..Len(steers) : steers[i] = Head(steers)}
  <2>1. 1 \in I /\ \A i \in I : 1 <= i
    BY <1>1
  <2> QED BY <2>1 DEF K!Queued, K!SelectInSeq, K!Min
<1>2. {i \in 1..Len(steers) : steers[i] = Nothing} = {}
  BY KimiAssumption DEF KimiAssumption
<1>3. K!Queued(steers, Nothing) = 0
  BY <1>2 DEF K!Queued, K!SelectInSeq
<1> QED BY <1>1, <1>3

LEMMA DeliverIs ==
  ASSUME NEW st, IsWire(st), st.steers \in Seq(Steers), NEW n
  PROVE  /\ K!DeliverSteer(st, n, Nothing) = st
         /\ st.steers # <<>> =>
              /\ Heard(K!DeliverSteer(st, n, Head(st.steers)), st, n)
              /\ K!DeliverSteer(st, n, Head(st.steers)).steers = Tail(st.steers)
<1>1. K!DeliverSteer(st, n, Nothing) = st
  BY QueuedIs DEF K!DeliverSteer
<1>2. ASSUME st.steers # <<>>
      PROVE  /\ Heard(K!DeliverSteer(st, n, Head(st.steers)), st, n)
             /\ K!DeliverSteer(st, n, Head(st.steers)).steers = Tail(st.steers)
  <2> DEFINE d == [st EXCEPT !.steers = SubSeq(st.steers, 2, Len(st.steers))]
             a == K!ArmReplyAnchor(d, n)
  <2>1. K!Queued(st.steers, Head(st.steers)) = 1
    BY <1>2, QueuedIs
  <2>2. K!DeliverSteer(st, n, Head(st.steers)) = K!AnchorLine(a, n)
    <3> DEFINE i == K!Queued(st.steers, Head(st.steers))
               e(j) == [st EXCEPT !.steers = SubSeq(st.steers, j + 1, Len(st.steers))]
    <3>1. K!DeliverSteer(st, n, Head(st.steers)) =
            IF i = 0 THEN st ELSE K!AnchorLine(K!ArmReplyAnchor(e(i), n), n)
      BY Zenon DEF K!DeliverSteer
    <3>2. i = 1
      BY <2>1
    <3>3. e(1) = d
      OBVIOUS
    <3> HIDE DEF i, e, d
    <3> QED BY <3>1, <3>2, <3>3
  <2>3. IsWire(d) /\ Kept(d, st) /\ d.steers = Tail(st.steers)
    <3>1. SubSeq(st.steers, 2, Len(st.steers)) = Tail(st.steers)
      BY <1>2
    <3>2. IsWire(d) /\ Kept(d, st) /\ d.steers = SubSeq(st.steers, 2, Len(st.steers))
      BY DEF IsWire, Fields, Kept
    <3> QED BY <3>1, <3>2
  <2> HIDE DEF d
  <2>4. IsWire(a) /\ Kept(a, d) /\ a.pending = n /\ a.first = Nothing /\ a.steers = d.steers
    BY <2>3, ArmIs
  <2> HIDE DEF a
  <2>5. LET s == K!AnchorLine(a, n)
        IN  /\ IsWire(s) /\ s.records = a.records /\ s.tools = a.tools /\ s.steers = a.steers
            /\ s.pending = a.pending /\ s.first = a.first
            /\ s.anchor = n /\ s.open = Nothing
            /\ s.closed = IF a.open # Nothing THEN a.open ELSE a.closed
    BY <2>4, AnchorIs
  <2> QED BY <2>2, <2>3, <2>4, <2>5 DEF Heard, Kept
<1> QED BY <1>1, <1>2

\* The answer's first line.
LEMMA ResponseIs ==
  ASSUME NEW st, IsWire(st), NEW n,
         st.open # Nothing => st.open = [start |-> st.open.start, end |-> st.open.end]
  PROVE  LET s == K!ResponseLine(st, n)
         IN  /\ IsWire(s) /\ s.records = st.records /\ s.tools = st.tools /\ s.steers = st.steers
             /\ s.pending = st.pending /\ s.first = st.first /\ s.closed = st.closed
             /\ s.anchor = IF st.open = Nothing THEN Nothing ELSE st.anchor
             /\ s.open = IF st.open = Nothing THEN [start |-> st.anchor, end |-> n]
                         ELSE [start |-> st.open.start, end |-> n]
<1>1. CASE st.open = Nothing
  <2> DEFINE s == [st EXCEPT !.open = [start |-> st.anchor, end |-> n], !.anchor = Nothing]
  <2>1. K!ResponseLine(st, n) = s
    BY <1>1 DEF K!ResponseLine, K!Window
  <2>2. /\ IsWire(s) /\ s.records = st.records /\ s.tools = st.tools /\ s.steers = st.steers
        /\ s.pending = st.pending /\ s.first = st.first /\ s.closed = st.closed
        /\ s.anchor = Nothing /\ s.open = [start |-> st.anchor, end |-> n]
    BY DEF IsWire, Fields
  <2> QED BY <1>1, <2>1, <2>2
<1>2. CASE st.open # Nothing
  <2> DEFINE w == [start |-> st.open.start, end |-> n]
             s == [st EXCEPT !.open = w]
  <2>1. [st.open EXCEPT !.end = n] = w
    BY <1>2
  <2>2. K!ResponseLine(st, n) = s
    BY <1>2, <2>1, Zenon DEF K!ResponseLine
  <2> HIDE DEF w
  <2>3. /\ IsWire(s) /\ s.records = st.records /\ s.tools = st.tools /\ s.steers = st.steers
        /\ s.pending = st.pending /\ s.first = st.first /\ s.closed = st.closed
        /\ s.anchor = st.anchor /\ s.open = w
    BY DEF IsWire, Fields
  <2> QED BY <1>2, <2>2, <2>3 DEF w
<1> QED BY <1>1, <1>2

LEMMA MarkIs ==
  ASSUME NEW st, IsWire(st), NEW n
  PROVE  LET s == K!MarkAssistantEvent(st, n)
         IN  /\ IsWire(s) /\ Kept(s, st) /\ s.steers = st.steers /\ s.pending = st.pending
             /\ s.first = IF st.pending # Nothing /\ st.first = Nothing THEN n ELSE st.first
BY DEF K!MarkAssistantEvent, IsWire, Fields, Kept

\* Output of the step under way.
Spoke(s, st, n) ==
  /\ IsWire(s) /\ s.records = st.records /\ s.steers = st.steers
  /\ s.pending = st.pending /\ s.closed = st.closed
  /\ s.first = IF st.pending # Nothing /\ st.first = Nothing THEN n ELSE st.first
  /\ s.anchor = IF st.open = Nothing THEN Nothing ELSE st.anchor
  /\ s.open = IF st.open = Nothing THEN [start |-> st.anchor, end |-> n]
              ELSE [start |-> st.open.start, end |-> n]

LEMMA SaidIs ==
  ASSUME NEW st, IsWire(st), NEW n,
         st.open # Nothing => st.open = [start |-> st.open.start, end |-> st.open.end]
  PROVE  Spoke(K!ContentPart(st, n), st, n) /\ K!ContentPart(st, n).tools = st.tools
<1> DEFINE r == K!ResponseLine(st, n)
<1>1. /\ IsWire(r) /\ r.records = st.records /\ r.tools = st.tools /\ r.steers = st.steers
      /\ r.pending = st.pending /\ r.first = st.first /\ r.closed = st.closed
      /\ r.anchor = IF st.open = Nothing THEN Nothing ELSE st.anchor
      /\ r.open = IF st.open = Nothing THEN [start |-> st.anchor, end |-> n]
                  ELSE [start |-> st.open.start, end |-> n]
  BY ResponseIs
<1>2. K!ContentPart(st, n) = K!MarkAssistantEvent(r, n)
  BY DEF K!ContentPart
<1> HIDE DEF r
<1>3. LET s == K!MarkAssistantEvent(r, n)
      IN  /\ IsWire(s) /\ Kept(s, r) /\ s.steers = r.steers /\ s.pending = r.pending
          /\ s.first = IF r.pending # Nothing /\ r.first = Nothing THEN n ELSE r.first
  BY <1>1, MarkIs
<1> QED BY <1>1, <1>2, <1>3 DEF Spoke, Kept

LEMMA AppendToolIs ==
  ASSUME NEW st, IsWire(st), NEW n
  PROVE  LET s == K!AppendToolUse(st, n, [model |-> Nothing])
         IN  /\ IsWire(s) /\ s.records = st.records /\ s.steers = st.steers
             /\ s.pending = st.pending /\ s.first = st.first
             /\ s.anchor = st.anchor /\ s.open = st.open /\ s.closed = st.closed
             /\ s.tools = Append(st.tools, [model |-> Nothing, line |-> n])
<1>1. K!Joined([model |-> Nothing], [line |-> n]) = [model |-> Nothing, line |-> n]
  BY DEF K!Joined
<1> DEFINE s == [st EXCEPT !.tools = Append(st.tools, [model |-> Nothing, line |-> n])]
<1>2. K!AppendToolUse(st, n, [model |-> Nothing]) = s
  BY <1>1 DEF K!AppendToolUse
<1>3. /\ IsWire(s) /\ s.records = st.records /\ s.steers = st.steers
      /\ s.pending = st.pending /\ s.first = st.first
      /\ s.anchor = st.anchor /\ s.open = st.open /\ s.closed = st.closed
      /\ s.tools = Append(st.tools, [model |-> Nothing, line |-> n])
  BY DEF IsWire, Fields
<1> QED BY <1>2, <1>3

LEMMA CalledIs ==
  ASSUME NEW st, IsWire(st), NEW n,
         st.open # Nothing => st.open = [start |-> st.open.start, end |-> st.open.end]
  PROVE  /\ Spoke(K!ToolCall(st, n), st, n)
         /\ K!ToolCall(st, n).tools = Append(st.tools, [model |-> Nothing, line |-> n])
<1> DEFINE r == K!ResponseLine(st, n)
           t == K!AppendToolUse(r, n, [model |-> Nothing])
<1>1. /\ IsWire(r) /\ r.records = st.records /\ r.tools = st.tools /\ r.steers = st.steers
      /\ r.pending = st.pending /\ r.first = st.first /\ r.closed = st.closed
      /\ r.anchor = IF st.open = Nothing THEN Nothing ELSE st.anchor
      /\ r.open = IF st.open = Nothing THEN [start |-> st.anchor, end |-> n]
                  ELSE [start |-> st.open.start, end |-> n]
  BY ResponseIs
<1>2. K!ToolCall(st, n) = K!MarkAssistantEvent(t, n)
  BY DEF K!ToolCall
<1> HIDE DEF r
<1>3. /\ IsWire(t) /\ t.records = r.records /\ t.steers = r.steers
      /\ t.pending = r.pending /\ t.first = r.first
      /\ t.anchor = r.anchor /\ t.open = r.open /\ t.closed = r.closed
      /\ t.tools = Append(r.tools, [model |-> Nothing, line |-> n])
  <2>1. IsWire(r)
    BY <1>1
  <2> QED BY <2>1, AppendToolIs, Zenon
<1> HIDE DEF t
<1>4. LET s == K!MarkAssistantEvent(t, n)
      IN  /\ IsWire(s) /\ Kept(s, t) /\ s.steers = t.steers /\ s.pending = t.pending
          /\ s.first = IF t.pending # Nothing /\ t.first = Nothing THEN n ELSE t.first
  BY <1>3, MarkIs
<1> QED BY <1>1, <1>2, <1>3, <1>4 DEF Spoke, Kept

\* A result, a failed attempt, and the other lines.
LEMMA ResultIs ==
  ASSUME NEW st, IsWire(st), NEW n, NEW call, NEW error
  PROVE  LET s == K!ToolResult(st, n, call, error)
         IN  /\ IsWire(s) /\ s.records = st.records /\ s.tools = st.tools /\ s.steers = st.steers
             /\ s.pending = st.pending /\ s.first = st.first
             /\ s.anchor = n /\ s.open = Nothing
             /\ s.closed = IF st.open # Nothing THEN st.open ELSE st.closed
<1> DEFINE a == K!AnchorLine(st, n)
<1>1. /\ IsWire(a) /\ a.records = st.records /\ a.tools = st.tools /\ a.steers = st.steers
      /\ a.pending = st.pending /\ a.first = st.first
      /\ a.anchor = n /\ a.open = Nothing
      /\ a.closed = IF st.open # Nothing THEN st.open ELSE st.closed
  BY AnchorIs
<1> HIDE DEF a
<1>2. LET s == K!SettleToolResult(a, call, error)
      IN  IsWire(s) /\ Kept(s, a) /\ s.steers = a.steers /\ s.pending = a.pending
          /\ s.first = a.first
  BY <1>1 DEF K!SettleToolResult, IsWire, Fields, Kept
<1>3. K!ToolResult(st, n, call, error) = K!SettleToolResult(a, call, error)
  BY DEF K!ToolResult, a
<1> QED BY <1>1, <1>2, <1>3 DEF Kept

LEMMA ErrorIs ==
  ASSUME NEW st, IsWire(st), NEW n, NEW kind
  PROVE  LET s == K!LlmError(st, n, kind)
         IN  /\ IsWire(s) /\ s.records = st.records /\ s.tools = st.tools /\ s.steers = st.steers
             /\ s.pending = st.pending /\ s.first = st.first /\ s.closed = st.closed
             /\ s.anchor = Nothing
             /\ s.open = IF st.open = Nothing THEN Nothing
                         ELSE [start |-> Nothing, end |-> st.open.end]
<1> DEFINE f == K!FailWindow(st)
<1>1. /\ IsWire(f) /\ f.records = st.records /\ f.tools = st.tools /\ f.steers = st.steers
      /\ f.pending = st.pending /\ f.first = st.first /\ f.closed = st.closed
      /\ f.anchor = Nothing
      /\ f.open = IF st.open = Nothing THEN Nothing ELSE [start |-> Nothing, end |-> st.open.end]
  BY DEF K!FailWindow, K!Window, IsWire, Fields
<1> HIDE DEF f
<1>2. K!LlmError(st, n, kind) =
        [f EXCEPT !.limits = IF kind = "quota_exhausted" THEN Append(f.limits, n) ELSE f.limits]
  BY DEF K!LlmError, f
<1> DEFINE s == [f EXCEPT !.limits = IF kind = "quota_exhausted" THEN Append(f.limits, n) ELSE f.limits]
<1>3. /\ IsWire(s) /\ Kept(s, f) /\ s.steers = f.steers
      /\ s.pending = f.pending /\ s.first = f.first
  BY <1>1 DEF IsWire, Fields, Kept
<1> QED BY <1>1, <1>2, <1>3 DEF Kept

LEMMA SteerIs ==
  ASSUME NEW st, IsWire(st), NEW n, NEW text
  PROVE  LET s == K!Steer(st, n, text)
         IN  IsWire(s) /\ Kept(s, st) /\ s.pending = st.pending /\ s.first = st.first
             /\ s.steers = Append(st.steers, text)
<1> DEFINE c == K!CloseTurn(st)
           t == K!StartTurn(c, n)
<1>1. IsWire(c) /\ Kept(c, st) /\ c.pending = st.pending /\ c.first = st.first /\ c.steers = st.steers
  BY CloseTurnIs
<1> HIDE DEF c
<1>2. IsWire(t) /\ Kept(t, c) /\ t.pending = c.pending /\ t.first = c.first /\ t.steers = c.steers
  BY <1>1, StartTurnIs
<1> HIDE DEF t
<1>3. K!Steer(st, n, text) = [t EXCEPT !.steers = Append(t.steers, text)]
  BY DEF K!Steer, t, c
<1> DEFINE s == [t EXCEPT !.steers = Append(t.steers, text)]
<1>4. IsWire(s) /\ Kept(s, t) /\ s.pending = t.pending /\ s.first = t.first
      /\ s.steers = Append(t.steers, text)
  BY <1>2 DEF IsWire, Fields, Kept
<1> QED BY <1>1, <1>2, <1>3, <1>4 DEF Kept

LEMMA StepBeginIs ==
  ASSUME NEW st, IsWire(st), NEW n, NEW turn
  PROVE  LET s == K!StepBegin(st, n, turn)
         IN  IsWire(s) /\ Kept(s, st) /\ s.pending = st.pending /\ s.first = st.first
             /\ s.steers = st.steers
<1> DEFINE c == K!CloseTurn(st)
           t == K!StartTurn(c, n)
           s == [t EXCEPT !.turnId = turn]
<1>1. IsWire(c) /\ Kept(c, st) /\ c.pending = st.pending /\ c.first = st.first /\ c.steers = st.steers
  BY CloseTurnIs
<1> HIDE DEF c
<1>2. IsWire(t) /\ Kept(t, c) /\ t.pending = c.pending /\ t.first = c.first /\ t.steers = c.steers
  BY <1>1, StartTurnIs
<1> HIDE DEF t
<1>3. IsWire(s) /\ Kept(s, t) /\ s.pending = t.pending /\ s.first = t.first /\ s.steers = t.steers
  BY <1>2 DEF IsWire, Fields, Kept
<1>4. K!StepBegin(st, n, turn) = IF turn = st.turnId THEN st ELSE s
  BY DEF K!StepBegin, t, c
<1> HIDE DEF s
<1> QED BY <1>1, <1>2, <1>3, <1>4 DEF Kept

LEMMA EndTurnIs ==
  ASSUME NEW st, IsWire(st), st.pending = Nothing, st.first = Nothing
  PROVE  LET s == K!EndTurn(st)
         IN  IsWire(s) /\ Kept(s, st) /\ s.pending = Nothing /\ s.first = Nothing
             /\ s.steers = st.steers
<1> DEFINE c == K!CloseTurn(st)
<1>1. IsWire(c) /\ Kept(c, st) /\ c.steers = st.steers
  BY CloseTurnIs
<1> HIDE DEF c
<1>2. LET s == K!ArmReplyAnchor(c, Nothing)
      IN  IsWire(s) /\ Kept(s, c) /\ s.pending = Nothing /\ s.first = Nothing
          /\ s.steers = c.steers
  BY <1>1, ArmIs
<1>3. K!EndTurn(st) = IF st.turn = Nothing THEN st ELSE K!ArmReplyAnchor(c, Nothing)
  BY DEF K!EndTurn, c
<1> QED BY <1>1, <1>2, <1>3 DEF Kept

\* A usage record.
LEMMA UsageIs ==
  ASSUME NEW st, IsWire(st), NEW n, NEW name
  PROVE  LET s == K!UsageRecord(st, n, name)
         IN  /\ IsWire(s) /\ s.tools = st.tools /\ s.steers = st.steers
             /\ s.pending = Nothing /\ s.first = Nothing /\ s.anchor = st.anchor
             /\ s.open = Nothing /\ s.closed = Nothing
             /\ s.records = Append(st.records,
                  [model |-> K!ModelFor(name, n), line |-> n, latency |-> K!ReplyLatency(st, n),
                   window |-> K!BoundWindow(st)])
<1> DEFINE m == K!ModelFor(name, n)
           l == K!ReplyLatency(st, n)
           w == K!BoundWindow(st)
           row == [model |-> m, line |-> n, latency |-> l, window |-> w]
           a == K!ArmReplyAnchor(st, Nothing)
           b == [a EXCEPT !.records = Append(a.records, row),
                          !.turn = IF a.turn = Nothing THEN Nothing ELSE K!Listed(a.turn, n)]
<1>1. K!UsageRecord(st, n, name) = K!AppendUsageRecord(st, n, [model |-> m], TRUE)
  BY DEF K!UsageRecord
<1> HIDE DEF m
<1>2. K!Joined([model |-> m], [line |-> n, latency |-> l, window |-> w]) = row
  <2> HIDE DEF l, w
  <2> QED BY DEF K!Joined
<1>3. K!AppendUsageRecord(st, n, [model |-> m], TRUE) = K!Unbound(b)
  <2> DEFINE Bound(bind) == K!Joined([model |-> m],
               [line |-> n, latency |-> l, window |-> IF bind THEN w ELSE Nothing])
             Book(r) == [a EXCEPT !.records = Append(@, r),
                                  !.turn = IF @ = Nothing THEN Nothing ELSE K!Listed(@, n)]
  <2>1. K!AppendUsageRecord(st, n, [model |-> m], TRUE) =
          IF TRUE THEN K!Unbound(Book(Bound(TRUE))) ELSE Book(Bound(TRUE))
    BY DEF K!AppendUsageRecord
  <2>2. Bound(TRUE) = row
    BY <1>2, Zenon
  <2>3. Book(row) = b
    BY Zenon
  <2> HIDE DEF Book, Bound, row, b
  <2> QED BY <2>1, <2>2, <2>3
<1>4. IsWire(a) /\ Kept(a, st) /\ a.pending = Nothing /\ a.first = Nothing /\ a.steers = st.steers
  BY ArmIs
<1> HIDE DEF a, row
<1>5. /\ IsWire(b) /\ b.records = Append(a.records, row) /\ b.tools = a.tools /\ b.steers = a.steers
      /\ b.pending = a.pending /\ b.first = a.first /\ b.anchor = a.anchor
  BY <1>4 DEF IsWire, Fields
<1> HIDE DEF b
<1>6. LET s == K!Unbound(b)
      IN  /\ IsWire(s) /\ s.tools = b.tools /\ s.steers = b.steers /\ s.records = b.records
          /\ s.pending = b.pending /\ s.first = b.first /\ s.anchor = b.anchor
          /\ s.open = Nothing /\ s.closed = Nothing
  BY <1>5 DEF K!Unbound, IsWire, Fields
<1> QED BY <1>1, <1>3, <1>4, <1>5, <1>6 DEF Kept, row, m

-----------------------------------------------------------------------------
\* The windows: what WindowsInv says of the recorded ones, and of what may
\* become the next.
LEMMA WindowsAre ==
  ASSUME K!StateInv, K!WindowsInv
  PROVE  /\ line \in Nat /\ \A n \in failedAt : n \in Nat /\ n < line
         /\ Nothing \notin Nat
         /\ \A i \in DOMAIN wire.records : wire.records[i].window # Nothing =>
              /\ wire.records[i].window.start \in Nat /\ wire.records[i].window.end \in Nat
              /\ wire.records[i].window.end < line /\ K!Unfailed(wire.records[i].window)
         /\ wire.anchor # Nothing => wire.anchor \in Nat
         /\ wire.open # Nothing => wire.open \in K!Windows
         /\ wire.closed # Nothing => wire.closed \in K!Windows
<1>1. \A i \in DOMAIN wire.records : wire.records[i] \in K!UsageRows
  <2>1. wire.records \in Seq(K!UsageRows)
    BY DEF K!StateInv
  <2> HIDE DEF K!UsageRows
  <2> QED BY <2>1
<1>2. \A i \in DOMAIN wire.records : wire.records[i].window \in K!Windows \cup {Nothing}
  BY <1>1 DEF K!UsageRows
<1>3. \A i \in DOMAIN wire.records : wire.records[i].window # Nothing =>
        /\ wire.records[i].window.start # Nothing
        /\ wire.records[i].window.end < line /\ K!Unfailed(wire.records[i].window)
  BY DEF K!WindowsInv, K!RecordedInv
<1>4. \A w \in K!Windows : w.end \in Nat /\ (w.start # Nothing => w.start \in Nat)
  BY DEF K!Windows, K!Moments
<1>5. /\ line \in Nat /\ failedAt \subseteq 0..line - 1 /\ wire.anchor \in K!Moments
      /\ {wire.open, wire.closed} \subseteq K!Windows \cup {Nothing}
  BY DEF K!StateInv
<1>6. \A n \in failedAt : n \in Nat /\ n < line
  BY <1>5
<1>7. Nothing \notin Nat
  BY KimiAssumption DEF KimiAssumption
<1> HIDE DEF K!Unfailed
<1> QED BY <1>2, <1>3, <1>4, <1>5, <1>6, <1>7 DEF K!Moments

\* What leaves the windows alone.
LEMMA SameWindows ==
  ASSUME K!StateInv, K!WindowsInv, Kept(wire', wire), failedAt' = failedAt,
         line' \in {line, line + 1}
  PROVE  K!WindowsInv'
<1>1. line \in Nat /\ line' \in Nat /\ line <= line'
  BY WindowsAre
<1>2. /\ wire'.records = wire.records /\ wire'.open = wire.open /\ wire'.closed = wire.closed
      /\ wire'.anchor = wire.anchor
  BY DEF Kept
<1>3. K!AnchorInv'
  <2>1. K!Behind(line)'
    BY <1>1, <1>2, WindowsAre DEF K!Behind, K!Apart
  <2> QED BY <1>2, <2>1 DEF K!WindowsInv, K!AnchorInv, K!Behind, K!Apart
<1>4. K!OpenInv'
  <2>1. wire.open # Nothing => wire.open.end \in Nat /\ wire.open.end < line
    BY WindowsAre DEF K!Windows, K!WindowsInv, K!OpenInv
  <2> QED BY <1>1, <1>2, <2>1 DEF K!WindowsInv, K!OpenInv, K!Behind, K!Apart
<1>5. K!ClosedInv'
  <2>1. wire.closed # Nothing => wire.closed.end \in Nat /\ wire.closed.end < line
    BY WindowsAre DEF K!Windows, K!WindowsInv, K!ClosedInv
  <2> QED BY <1>1, <1>2, <2>1 DEF K!WindowsInv, K!ClosedInv, K!Apart, K!Unfailed
<1>6. K!RecordedInv'
  <2>1. \A i \in DOMAIN wire.records : wire.records[i].window # Nothing =>
          wire.records[i].window.start # Nothing /\ wire.records[i].window.end < line'
    BY <1>1, WindowsAre
  <2> QED BY <1>2, <2>1 DEF K!WindowsInv, K!RecordedInv, K!Unfailed
<1>7. K!WindowsApart(wire)'
  BY <1>2 DEF K!WindowsInv, K!WindowsApart
<1> QED BY <1>3, <1>4, <1>5, <1>6, <1>7 DEF K!WindowsInv

\* Input: the open window closes and the line is the next anchor.
LEMMA InputWindows ==
  ASSUME K!StateInv, K!WindowsInv, wire'.records = wire.records, failedAt' = failedAt,
         line' = line + 1, wire'.anchor = line, wire'.open = Nothing,
         wire'.closed = IF wire.open # Nothing THEN wire.open ELSE wire.closed
  PROVE  K!WindowsInv'
<1>1. line \in Nat /\ line' \in Nat /\ line < line' /\ line # Nothing
  BY WindowsAre
<1>2. K!Behind(line) /\ K!Behind(wire.anchor)'
  BY DEF K!WindowsInv, K!AnchorInv, K!Behind, K!Apart
<1>3. K!AnchorInv'
  <2>1. K!Behind(line)'
    BY <1>1, <1>2, WindowsAre DEF K!Behind, K!Apart
  <2>2. /\ wire.open # Nothing => wire.open.end \in Nat /\ wire.open.end < line
        /\ wire.closed # Nothing => wire.closed.end \in Nat /\ wire.closed.end < line
    BY WindowsAre DEF K!Windows, K!WindowsInv, K!OpenInv, K!ClosedInv
  <2> QED BY <1>1, <1>2, <2>1, <2>2 DEF K!AnchorInv
<1>4. K!OpenInv'
  BY DEF K!OpenInv
<1>5. K!ClosedInv'
  <2>1. CASE wire.open # Nothing
    <3>1. /\ wire.open.end \in Nat /\ wire.open.end < line /\ wire.open.start \in K!Moments
          /\ K!Behind(wire.open.start)
      BY <2>1, WindowsAre DEF K!Windows, K!WindowsInv, K!OpenInv
    <3>2. wire.open.start # Nothing => \A n \in failedAt : ~(wire.open.start < n)
      BY <3>1, WindowsAre DEF K!Behind, K!Moments
    <3>3. wire'.closed = wire.open
      BY <2>1
    <3> QED BY <1>1, <3>1, <3>2, <3>3 DEF K!ClosedInv, K!Behind, K!Apart, K!Unfailed
  <2>2. CASE wire.open = Nothing
    <3>1. wire'.closed = wire.closed
      BY <2>2
    <3>2. wire.closed # Nothing => wire.closed.end \in Nat /\ wire.closed.end < line
      BY WindowsAre DEF K!Windows, K!WindowsInv, K!ClosedInv
    <3> QED BY <1>1, <3>1, <3>2 DEF K!WindowsInv, K!ClosedInv, K!Apart, K!Unfailed
  <2> QED BY <2>1, <2>2
<1>6. K!RecordedInv'
  <2>1. \A i \in DOMAIN wire.records : wire.records[i].window # Nothing =>
          wire.records[i].window.start # Nothing /\ wire.records[i].window.end < line'
    BY <1>1, WindowsAre DEF K!WindowsInv, K!RecordedInv
  <2> QED BY <2>1 DEF K!WindowsInv, K!RecordedInv, K!Unfailed
<1>7. K!WindowsApart(wire)'
  BY DEF K!WindowsInv, K!WindowsApart
<1> QED BY <1>3, <1>4, <1>5, <1>6, <1>7 DEF K!WindowsInv

\* Output: it opens the window from the anchor, or lengthens it.
LEMMA OutputWindows ==
  ASSUME K!StateInv, K!WindowsInv, wire'.records = wire.records, failedAt' = failedAt,
         line' = line + 1, wire'.closed = wire.closed,
         wire'.anchor = IF wire.open = Nothing THEN Nothing ELSE wire.anchor,
         wire'.open = IF wire.open = Nothing THEN [start |-> wire.anchor, end |-> line]
                      ELSE [start |-> wire.open.start, end |-> line]
  PROVE  K!WindowsInv'
<1>1. line \in Nat /\ line' \in Nat /\ line < line'
  BY WindowsAre
<1>2. wire'.anchor = Nothing
  BY DEF K!WindowsInv, K!AnchorInv
<1>3. K!AnchorInv'
  <2>1. K!Behind(line)'
    BY <1>1, WindowsAre DEF K!Behind, K!Apart
  <2>2. K!Behind(wire.anchor)'
    BY <1>2 DEF K!Behind, K!Apart
  <2> QED BY <1>2, <2>1, <2>2 DEF K!AnchorInv
<1>4. K!OpenInv'
  <2>1. wire'.open.end = line
    OBVIOUS
  <2>2. K!Behind(wire.open.start)'
    <3>1. wire'.open.start = IF wire.open = Nothing THEN wire.anchor ELSE wire.open.start
      OBVIOUS
    <3>2. IF wire.open = Nothing THEN K!Behind(wire.anchor) ELSE K!Behind(wire.open.start)
      BY DEF K!WindowsInv, K!AnchorInv, K!OpenInv
    <3> QED BY <3>1, <3>2 DEF K!Behind, K!Apart
  <2> QED BY <1>1, <2>1, <2>2 DEF K!OpenInv
<1>5. K!ClosedInv'
  <2>1. wire.closed # Nothing => wire.closed.end \in Nat /\ wire.closed.end < line
    BY WindowsAre DEF K!Windows, K!WindowsInv, K!ClosedInv
  <2> QED BY <1>1, <2>1 DEF K!WindowsInv, K!ClosedInv, K!Apart, K!Unfailed
<1>6. K!RecordedInv'
  <2>1. \A i \in DOMAIN wire.records : wire.records[i].window # Nothing =>
          wire.records[i].window.start # Nothing /\ wire.records[i].window.end < line'
    BY <1>1, WindowsAre DEF K!WindowsInv, K!RecordedInv
  <2> QED BY <2>1 DEF K!WindowsInv, K!RecordedInv, K!Unfailed
<1>7. K!WindowsApart(wire)'
  BY DEF K!WindowsInv, K!WindowsApart
<1> QED BY <1>3, <1>4, <1>5, <1>6, <1>7 DEF K!WindowsInv

\* A failed attempt: the open window and the anchor have no start.
LEMMA FailedWindows ==
  ASSUME K!StateInv, K!WindowsInv, wire'.records = wire.records, failedAt' = failedAt \cup {line},
         line' = line + 1, wire'.closed = wire.closed, wire'.anchor = Nothing,
         wire'.open = IF wire.open = Nothing THEN Nothing
                      ELSE [start |-> Nothing, end |-> wire.open.end]
  PROVE  K!WindowsInv'
<1>1. line \in Nat /\ line' \in Nat /\ line < line'
  BY WindowsAre
<1>2. K!AnchorInv'
  <2>1. K!Behind(line)'
    BY <1>1, WindowsAre DEF K!Behind, K!Apart
  <2> QED BY <2>1 DEF K!AnchorInv, K!Behind, K!Apart
<1>3. K!OpenInv'
  <2>1. wire.open # Nothing => wire.open.end \in Nat /\ wire.open.end < line
    BY WindowsAre DEF K!Windows, K!WindowsInv, K!OpenInv
  <2>2. wire'.open # Nothing => wire'.open.start = Nothing /\ wire'.open.end = wire.open.end
                                /\ wire.open # Nothing
    OBVIOUS
  <2> QED BY <1>1, <2>1, <2>2 DEF K!OpenInv, K!Behind, K!Apart
<1>4. K!ClosedInv'
  <2>1. wire.closed # Nothing => wire.closed.end \in Nat /\ wire.closed.end < line
    BY WindowsAre DEF K!Windows, K!WindowsInv, K!ClosedInv
  <2> QED BY <1>1, <2>1 DEF K!WindowsInv, K!ClosedInv, K!Apart, K!Unfailed
<1>5. K!RecordedInv'
  <2>1. \A i \in DOMAIN wire.records : wire.records[i].window # Nothing =>
          /\ wire.records[i].window.start # Nothing /\ wire.records[i].window.end < line'
          /\ ~(line < wire.records[i].window.end)
    BY <1>1, WindowsAre DEF K!WindowsInv, K!RecordedInv
  <2> QED BY <2>1 DEF K!WindowsInv, K!RecordedInv, K!Unfailed
<1>6. K!WindowsApart(wire)'
  BY DEF K!WindowsInv, K!WindowsApart
<1> QED BY <1>2, <1>3, <1>4, <1>5, <1>6 DEF K!WindowsInv

\* A usage record takes the open window, or the closed one, if it is a time.
LEMMA BoundIs ==
  ASSUME K!StateInv, K!WindowsInv, NEW w, w = K!BoundWindow(wire), w # Nothing
  PROVE  /\ w.start \in Nat /\ w.end \in Nat /\ w.start < w.end /\ w.end < line
         /\ K!Apart(w.start) /\ K!Unfailed(w)
         /\ wire.anchor # Nothing => w.end <= wire.anchor
<1>1. /\ w = IF wire.open # Nothing THEN wire.open ELSE wire.closed
      /\ w.start # Nothing /\ ~(w.end <= w.start)
  BY DEF K!BoundWindow
<1>2. CASE wire.open # Nothing
  <2>1. w = wire.open /\ w \in K!Windows
    BY <1>1, <1>2, WindowsAre
  <2>2. w.start \in Nat /\ w.end \in Nat
    BY <1>1, <2>1 DEF K!Windows, K!Moments
  <2>3. K!Behind(w.start) /\ w.end < line /\ wire.anchor = Nothing
    BY <1>2, <2>1 DEF K!WindowsInv, K!OpenInv, K!AnchorInv
  <2>4. \A n \in failedAt : ~(w.start < n)
    BY <1>1, <2>2, <2>3, WindowsAre DEF K!Behind
  <2> QED BY <1>1, <2>2, <2>3, <2>4 DEF K!Behind, K!Unfailed
<1>3. CASE wire.open = Nothing
  <2>1. w = wire.closed /\ w \in K!Windows
    BY <1>1, <1>3, WindowsAre
  <2>2. w.start \in Nat /\ w.end \in Nat
    BY <1>1, <2>1 DEF K!Windows, K!Moments
  <2>3. K!Apart(w.start) /\ K!Unfailed(w) /\ w.end < line
        /\ (wire.anchor # Nothing => w.end <= wire.anchor)
    BY <2>1 DEF K!WindowsInv, K!ClosedInv, K!AnchorInv
  <2> QED BY <1>1, <2>2, <2>3
<1> QED BY <1>2, <1>3

\* A row more.
LEMMA AppendIs ==
  ASSUME NEW S, NEW seq \in Seq(S), NEW r
  PROVE  LET new == Append(seq, r)
         IN  /\ DOMAIN new = DOMAIN seq \cup {Len(seq) + 1}
             /\ \A i \in DOMAIN seq : new[i] = seq[i] /\ i \in Nat \ {0} /\ i < Len(seq) + 1
             /\ new[Len(seq) + 1] = r /\ Len(seq) + 1 \in Nat \ {0} /\ Len(seq) \in Nat
             /\ r \in S => new \in Seq(S)
<1>1. seq \in Seq(S \cup {r})
  OBVIOUS
<1>2. /\ Append(seq, r) \in Seq(S \cup {r}) /\ Len(Append(seq, r)) = Len(seq) + 1
      /\ \A i \in 1..Len(seq) : Append(seq, r)[i] = seq[i]
      /\ Append(seq, r)[Len(seq) + 1] = r
  BY <1>1, AppendProperties
<1>3. DOMAIN seq = 1..Len(seq) /\ Len(seq) \in Nat
  OBVIOUS
<1>4. DOMAIN Append(seq, r) = 1..Len(seq) + 1
  BY <1>2
<1>5. r \in S => Append(seq, r) \in Seq(S)
  BY AppendProperties
<1> QED BY <1>2, <1>3, <1>4, <1>5

LEMMA UsageWindows ==
  ASSUME K!StateInv, K!WindowsInv, NEW r, wire'.records = Append(wire.records, r),
         r.window = K!BoundWindow(wire), failedAt' = failedAt, line' = line + 1,
         wire'.anchor = wire.anchor, wire'.open = Nothing, wire'.closed = Nothing
  PROVE  K!WindowsInv'
<1> DEFINE last == Len(wire.records) + 1
           w == r.window
<1>1. line \in Nat /\ line' \in Nat /\ line < line'
  BY WindowsAre
<1>2. /\ DOMAIN wire'.records = DOMAIN wire.records \cup {last}
      /\ \A i \in DOMAIN wire.records : wire'.records[i] = wire.records[i] /\ i \in Nat /\ i < last
      /\ wire'.records[last] = r /\ last \in Nat
  <2>1. wire.records \in Seq(K!UsageRows)
    BY DEF K!StateInv
  <2> QED BY <2>1, AppendIs
<1>3. w # Nothing =>
        /\ w.start \in Nat /\ w.end \in Nat /\ w.start < w.end /\ w.end < line
        /\ K!Apart(w.start) /\ K!Unfailed(w)
        /\ wire.anchor # Nothing => w.end <= wire.anchor
  BY BoundIs
<1> HIDE DEF last, w
<1>4. K!AnchorInv'
  <2>1. K!Behind(line)'
    BY <1>1, <1>2, <1>3, WindowsAre DEF K!Behind, K!Apart, w
  <2>2. K!Behind(wire.anchor)'
    BY <1>2, <1>3 DEF K!WindowsInv, K!AnchorInv, K!Behind, K!Apart, w
  <2> QED BY <2>1, <2>2 DEF K!AnchorInv
<1>5. K!OpenInv' /\ K!ClosedInv'
  BY DEF K!OpenInv, K!ClosedInv
<1>6. K!RecordedInv'
  <2>1. \A i \in DOMAIN wire.records : wire.records[i].window # Nothing =>
          wire.records[i].window.start # Nothing /\ wire.records[i].window.end < line'
          /\ K!Unfailed(wire.records[i].window)
    <3>1. \A i \in DOMAIN wire.records : wire.records[i].window # Nothing =>
            /\ wire.records[i].window.start # Nothing /\ wire.records[i].window.end \in Nat
            /\ wire.records[i].window.end < line /\ K!Unfailed(wire.records[i].window)
      BY WindowsAre
    <3> QED BY <1>1, <3>1
  <2>2. w # Nothing => w.start # Nothing /\ w.end < line' /\ K!Unfailed(w)
    BY <1>1, <1>3, WindowsAre
  <2> QED BY <1>2, <2>1, <2>2 DEF K!RecordedInv, K!Unfailed, w
<1>7. K!WindowsApart(wire)'
  <2>1. \A i, j \in DOMAIN wire.records :
          (i < j /\ wire.records[i].window # Nothing /\ wire.records[j].window # Nothing) =>
            wire.records[i].window.end <= wire.records[j].window.start
    BY DEF K!WindowsInv, K!WindowsApart
  <2>2. w # Nothing => \A i \in DOMAIN wire.records :
          wire.records[i].window # Nothing => wire.records[i].window.end <= w.start
    BY <1>3, WindowsAre DEF K!Apart
  <2>3. \A j \in DOMAIN wire'.records : ~(last < j)
    BY <1>2
  <2> QED BY <1>2, <2>1, <2>2, <2>3 DEF K!WindowsApart, w
<1> QED BY <1>4, <1>5, <1>6, <1>7 DEF K!WindowsInv

-----------------------------------------------------------------------------
\* The calls: what leaves the rows alone, a call, and a usage record.
LEMMA CallsAre ==
  ASSUME K!StateInv
  PROVE  /\ line \in Nat
         /\ \A i \in DOMAIN wire.records : wire.records[i].line \in Nat /\ i \in Nat \ {0}
         /\ \A c \in DOMAIN wire.tools : wire.tools[c].line \in Nat
<1>1. \A i \in DOMAIN wire.records : wire.records[i] \in K!UsageRows /\ i \in Nat \ {0}
  <2>1. wire.records \in Seq(K!UsageRows)
    BY DEF K!StateInv
  <2> HIDE DEF K!UsageRows
  <2> QED BY <2>1
<1>2. \A c \in DOMAIN wire.tools : wire.tools[c] \in K!CallRows
  <2>1. wire.tools \in Seq(K!CallRows)
    BY DEF K!StateInv
  <2> HIDE DEF K!CallRows
  <2> QED BY <2>1
<1> QED BY <1>1, <1>2 DEF K!UsageRows, K!CallRows, K!StateInv

LEMMA LaterCall ==
  ASSUME K!StateInv, NEW c, NEW i, NEW n \in Nat, NEW m \in Nat, n <= m,
         K!CallBetween(wire, c, i, n)
  PROVE  K!CallBetween(wire, c, i, m)
<1>1. c \in DOMAIN wire.tools /\ wire.tools[c].line < n
  BY DEF K!CallBetween
<1>2. wire.tools[c].line \in Nat
  BY <1>1, CallsAre
<1> QED BY <1>1, <1>2 DEF K!CallBetween

\* The requests and their records, whatever happens to the calls of the step.
Answered(reqs, st, n) ==
  /\ DOMAIN reqs = DOMAIN st.records
  /\ \A i \in DOMAIN st.records :
       /\ st.records[i].line < n /\ st.records[i].model = reqs[i].model
       /\ st.records[i].latency = IF reqs[i].asked = Nothing THEN Nothing
                                  ELSE reqs[i].first - reqs[i].asked
       /\ \A c \in reqs[i].calls : K!CallBetween(st, c, i, st.records[i].line)

LEMMA CallsInvIs ==
  /\ K!CallsInv <=> /\ Answered(requests, wire, line)
                    /\ \A c \in calls : K!CallBetween(wire, c, Len(wire.records) + 1, line)
  /\ K!CallsInv' <=> /\ Answered(requests', wire', line')
                     /\ \A c \in calls' : K!CallBetween(wire', c, Len(wire'.records) + 1, line')
BY DEF K!CallsInv, Answered

LEMMA SameCalls ==
  ASSUME K!StateInv, K!CallsInv, wire'.records = wire.records, wire'.tools = wire.tools,
         requests' = requests, calls' \in {calls, {}}, line' \in {line, line + 1}
  PROVE  K!CallsInv'
<1>1. line \in Nat /\ line' \in Nat /\ line <= line'
  BY CallsAre
<1>2. \A c, i, n : K!CallBetween(wire', c, i, n) <=> K!CallBetween(wire, c, i, n)
  BY DEF K!CallBetween
<1>3. Answered(requests', wire', line')
  <2>1. Answered(requests, wire, line)
    BY CallsInvIs
  <2> QED BY <1>1, <1>2, <2>1, CallsAre DEF Answered
<1>4. \A c \in calls : K!CallBetween(wire, c, Len(wire.records) + 1, line)
  BY CallsInvIs
<1>5. \A c \in calls : K!CallBetween(wire, c, Len(wire.records) + 1, line')
  BY <1>1, <1>4, LaterCall
<1> QED BY <1>2, <1>3, <1>5, CallsInvIs

LEMMA NextCall ==
  ASSUME K!StateInv, K!CallsInv, wire'.records = wire.records, requests' = requests,
         wire'.tools = Append(wire.tools, [model |-> Nothing, line |-> line]),
         calls' = calls \cup {Len(wire.tools) + 1}, line' = line + 1
  PROVE  K!CallsInv'
<1> DEFINE call == Len(wire.tools) + 1
           n == Len(wire.records) + 1
<1>1. line \in Nat /\ line' \in Nat /\ line < line'
  BY CallsAre
<1>2. /\ DOMAIN wire'.tools = DOMAIN wire.tools \cup {call}
      /\ \A c \in DOMAIN wire.tools : wire'.tools[c] = wire.tools[c]
      /\ wire'.tools[call] = [model |-> Nothing, line |-> line]
  <2>1. wire.tools \in Seq(K!CallRows)
    BY DEF K!StateInv
  <2> QED BY <2>1, AppendIs
<1>3. wire'.tools[call].line = line
  BY <1>2
<1>4. /\ Answered(requests, wire, line)
      /\ \A c \in calls : K!CallBetween(wire, c, n, line)
  BY CallsInvIs
<1> HIDE DEF call, n
<1>5. \A c, i, m : K!CallBetween(wire, c, i, m) => K!CallBetween(wire', c, i, m)
  BY <1>2 DEF K!CallBetween
<1>6. Answered(requests', wire', line')
  BY <1>1, <1>4, <1>5, CallsAre DEF Answered
<1>7. \A c \in calls : K!CallBetween(wire', c, n, line')
  BY <1>1, <1>4, <1>5, LaterCall
<1>8. K!CallBetween(wire', call, n, line')
  <2>1. \A i \in DOMAIN wire.records : wire.records[i].line < line
    BY <1>4 DEF Answered
  <2> QED BY <1>1, <1>2, <1>3, <2>1 DEF K!CallBetween
<1> QED BY <1>6, <1>7, <1>8, CallsInvIs DEF call, n

\* The calls of the step become those of its record.
LEMMA UsageCalls ==
  ASSUME K!StateInv, K!CallsInv, NEW r, NEW q,
         wire'.records = Append(wire.records, r), wire'.tools = wire.tools,
         requests' = Append(requests, q), calls' = {}, line' = line + 1,
         r.line = line, r.model = q.model, q.calls = calls,
         r.latency = IF q.asked = Nothing THEN Nothing ELSE q.first - q.asked
  PROVE  K!CallsInv'
<1> DEFINE n == Len(wire.records) + 1
<1>1. line \in Nat /\ line' \in Nat /\ line < line'
  BY CallsAre
<1>2. /\ DOMAIN wire'.records = DOMAIN wire.records \cup {n}
      /\ \A i \in DOMAIN wire.records : wire'.records[i] = wire.records[i] /\ i \in Nat \ {0} /\ i < n
      /\ wire'.records[n] = r /\ n \in Nat
  <2>1. wire.records \in Seq(K!UsageRows)
    BY DEF K!StateInv
  <2> QED BY <2>1, AppendIs
<1>3. Len(requests) = Len(wire.records) /\ DOMAIN requests = DOMAIN wire.records
  <2>1. wire.records \in Seq(K!UsageRows) /\ requests \in Seq(K!Steps)
    BY DEF K!StateInv
  <2>2. DOMAIN requests = DOMAIN wire.records
    BY CallsInvIs DEF Answered
  <2> HIDE DEF K!UsageRows, K!Steps
  <2> QED BY <2>1, <2>2, LenProperties
<1>4. /\ DOMAIN requests' = DOMAIN requests \cup {n}
      /\ \A i \in DOMAIN requests : requests'[i] = requests[i]
      /\ requests'[n] = q
  <2>1. requests \in Seq(K!Steps)
    BY DEF K!StateInv
  <2> QED BY <1>3, <2>1, AppendIs
<1>5. /\ Answered(requests, wire, line)
      /\ \A c \in calls : K!CallBetween(wire, c, n, line)
  BY CallsInvIs
<1> HIDE DEF n
<1>6. \A c, m : \A i \in Nat :
        i <= n /\ K!CallBetween(wire, c, i, m) => K!CallBetween(wire', c, i, m)
  BY <1>2 DEF K!CallBetween
<1>7. \A i \in DOMAIN wire'.records :
        /\ wire'.records[i].line < line' /\ wire'.records[i].model = requests'[i].model
        /\ wire'.records[i].latency = IF requests'[i].asked = Nothing THEN Nothing
                                      ELSE requests'[i].first - requests'[i].asked
        /\ \A c \in requests'[i].calls : K!CallBetween(wire', c, i, wire'.records[i].line)
  <2> SUFFICES ASSUME NEW i \in DOMAIN wire'.records
               PROVE  /\ wire'.records[i].line < line' /\ wire'.records[i].model = requests'[i].model
                      /\ wire'.records[i].latency = IF requests'[i].asked = Nothing THEN Nothing
                                                    ELSE requests'[i].first - requests'[i].asked
                      /\ \A c \in requests'[i].calls :
                           K!CallBetween(wire', c, i, wire'.records[i].line)
    OBVIOUS
  <2>1. CASE i = n
    BY <1>1, <1>2, <1>4, <1>5, <1>6, <2>1
  <2>2. CASE i \in DOMAIN wire.records
    <3>1. wire'.records[i] = wire.records[i] /\ requests'[i] = requests[i] /\ i \in Nat /\ i <= n
      BY <1>2, <1>3, <1>4, <2>2
    <3> QED BY <1>1, <1>5, <1>6, <2>2, <3>1, CallsAre DEF Answered
  <2> QED BY <1>2, <2>1, <2>2
<1>8. DOMAIN requests' = DOMAIN wire'.records
  BY <1>2, <1>3, <1>4
<1>9. Answered(requests', wire', line')
  BY <1>7, <1>8 DEF Answered
<1> QED BY <1>9, CallsInvIs

-----------------------------------------------------------------------------
\* The invariant, action by action.
LEMMA FieldsOf == DOMAIN K!Empty = Fields
BY DEF K!Empty, K!Lane, K!Joined, Fields

LEMMA StateIs ==
  ASSUME K!StateInv
  PROVE  /\ IsWire(wire) /\ line \in Nat /\ line \in K!Moments /\ Nothing \in K!Moments
         /\ Nothing \notin Nat
         /\ heard \in K!Moments /\ calls \subseteq Nat \ {0} /\ wire.steers = queued
         /\ queued \in Seq(Steers) /\ wire.anchor \in K!Moments
         /\ wire.open \in K!Windows \cup {Nothing} /\ wire.closed \in K!Windows \cup {Nothing}
         /\ wire.open # Nothing => wire.open = [start |-> wire.open.start, end |-> wire.open.end]
         /\ Nothing \notin K!Windows
<1>1. wire = [f \in DOMAIN K!Empty |-> wire[f]]
  BY DEF K!StateInv
<1>2. IsWire(wire)
  BY <1>1, FieldsOf DEF IsWire
<1>3. Nothing \notin K!Windows /\ Nothing \notin Nat
  BY KimiAssumption DEF KimiAssumption, K!Windows, K!Moments
<1>4. wire.open \in K!Windows \cup {Nothing} /\ wire.closed \in K!Windows \cup {Nothing}
  BY DEF K!StateInv
<1>5. \A w \in K!Windows : w = [start |-> w.start, end |-> w.end]
  BY DEF K!Windows
<1>6. /\ line \in Nat /\ heard \in K!Moments /\ calls \subseteq Nat \ {0} /\ wire.steers = queued
      /\ queued \in Seq(Steers) /\ wire.anchor \in K!Moments
  BY DEF K!StateInv
<1> QED BY <1>2, <1>3, <1>4, <1>5, <1>6 DEF K!Moments

LEMMA StateNext ==
  ASSUME K!StateInv, IsWire(wire'), line' \in {line, line + 1}, heard' \in K!Moments,
         calls' \subseteq Nat \ {0}, step' \in {"idle", "running", "answered", "done"},
         failedAt' = failedAt \/ (line' = line + 1 /\ failedAt' = failedAt \cup {line}),
         wire'.steers = queued', queued' \in Seq(Steers),
         wire'.records \in Seq(K!UsageRows), wire'.tools \in Seq(K!CallRows),
         requests' \in Seq(K!Steps), wire'.anchor \in K!Moments,
         wire'.open \in K!Windows \cup {Nothing}, wire'.closed \in K!Windows \cup {Nothing}
  PROVE  K!StateInv'
<1>1. wire' = [f \in DOMAIN K!Empty |-> wire'[f]]
  BY FieldsOf DEF IsWire
<1>2. line' \in Nat /\ failedAt' \subseteq 0..line' - 1
  <2>1. line \in Nat /\ failedAt \subseteq 0..line - 1
    BY DEF K!StateInv
  <2>2. line' \in Nat /\ 0..line - 1 \subseteq 0..line' - 1
    <3>1. \A m, n \in Nat : m <= n => 0..m - 1 \subseteq 0..n - 1
      OBVIOUS
    <3>2. line' \in Nat /\ line <= line'
      BY <2>1
    <3> QED BY <2>1, <3>1, <3>2
  <2>3. line' = line + 1 => line \in 0..line' - 1
    BY <2>1
  <2> QED BY <2>1, <2>2, <2>3, Zenon
<1>3. DOMAIN K!Empty = DOMAIN K!Empty'
  OBVIOUS
<1> HIDE DEF K!UsageRows, K!CallRows, K!Steps, K!Windows, K!Moments, K!Empty
<1> QED BY <1>1, <1>2 DEF K!StateInv

LEMMA Typed ==
  ASSUME K!StateInv
  PROVE  /\ wire.records \in Seq(K!UsageRows) /\ wire.tools \in Seq(K!CallRows)
         /\ requests \in Seq(K!Steps)
BY DEF K!StateInv

LEMMA AskStep ==
  ASSUME K!WireInv, K!Ask
  PROVE  K!WireInv'
<1> DEFINE s == K!Prompt(wire, line)
<1>1. /\ step = "idle" /\ queued = <<>> /\ heard = Nothing
      /\ line' = line + 1 /\ wire' = s /\ heard' = line
      /\ UNCHANGED <<step, queued, replying, requests, calls, failedAt>>
  BY DEF K!Ask, K!Writes
<1>2. K!StateInv /\ K!ReplyInv /\ K!CallsInv /\ K!WindowsInv
  BY DEF K!WireInv
<1>3. Heard(wire', wire, line) /\ wire'.steers = wire.steers
  BY <1>1, <1>2, StateIs, PromptIs
<1> HIDE DEF s
<1>4. K!StateInv'
  <2>1. /\ IsWire(wire') /\ wire'.steers = queued' /\ queued' \in Seq(Steers)
        /\ wire'.records = wire.records /\ wire'.tools = wire.tools
        /\ wire'.anchor \in K!Moments /\ heard' \in K!Moments /\ calls' \subseteq Nat \ {0}
        /\ wire'.open \in K!Windows \cup {Nothing} /\ wire'.closed \in K!Windows \cup {Nothing}
    BY <1>1, <1>2, <1>3, StateIs DEF Heard
  <2> QED BY <1>1, <1>2, <2>1, Typed, StateNext
<1>5. K!ReplyInv'
  BY <1>1, <1>3 DEF Heard, K!ReplyInv
<1>6. K!CallsInv'
  BY <1>1, <1>2, <1>3, SameCalls DEF Heard
<1>7. K!WindowsInv'
  BY <1>1, <1>2, <1>3, InputWindows DEF Heard
<1> QED BY <1>4, <1>5, <1>6, <1>7 DEF K!WireInv

LEMMA InterjectStep ==
  ASSUME K!WireInv, NEW text \in Steers, K!Interject(text)
  PROVE  K!WireInv'
<1> DEFINE s == K!Steer(wire, line, text)
<1>1. /\ line' = line + 1 /\ wire' = s /\ queued' = Append(queued, text)
      /\ UNCHANGED <<step, heard, replying, requests, calls, failedAt>>
  BY DEF K!Interject, K!Writes
<1>2. K!StateInv /\ K!ReplyInv /\ K!CallsInv /\ K!WindowsInv
  BY DEF K!WireInv
<1>3. /\ IsWire(wire') /\ Kept(wire', wire) /\ wire'.pending = wire.pending
      /\ wire'.first = wire.first /\ wire'.steers = Append(wire.steers, text)
  BY <1>1, <1>2, StateIs, SteerIs
<1> HIDE DEF s
<1>4. K!StateInv'
  <2>1. /\ wire'.steers = queued' /\ queued' \in Seq(Steers)
        /\ wire'.records = wire.records /\ wire'.tools = wire.tools
        /\ wire'.anchor \in K!Moments /\ heard' \in K!Moments /\ calls' \subseteq Nat \ {0}
        /\ wire'.open \in K!Windows \cup {Nothing} /\ wire'.closed \in K!Windows \cup {Nothing}
        /\ step' \in {"idle", "running", "answered", "done"}
    <3>1. step \in {"idle", "running", "answered", "done"}
      BY <1>2 DEF K!StateInv
    <3> QED BY <1>1, <1>2, <1>3, <3>1, StateIs DEF Kept
  <2> QED BY <1>1, <1>2, <1>3, <2>1, Typed, StateNext
<1>5. K!ReplyInv'
  BY <1>1, <1>2, <1>3 DEF K!ReplyInv
<1>6. K!CallsInv'
  BY <1>1, <1>2, <1>3, SameCalls DEF Kept
<1>7. K!WindowsInv'
  BY <1>1, <1>2, <1>3, SameWindows
<1> QED BY <1>4, <1>5, <1>6, <1>7 DEF K!WireInv

LEMMA DeliverStep ==
  ASSUME K!WireInv, K!Deliver
  PROVE  K!WireInv'
<1> DEFINE s == K!DeliverSteer(wire, line, Head(queued))
<1>1. /\ queued # <<>> /\ step \in {"idle", "done"}
      /\ line' = line + 1 /\ wire' = s /\ queued' = Tail(queued) /\ heard' = line
      /\ UNCHANGED <<step, replying, requests, calls, failedAt>>
  BY DEF K!Deliver, K!Writes
<1>2. K!StateInv /\ K!ReplyInv /\ K!CallsInv /\ K!WindowsInv
  BY DEF K!WireInv
<1>3. Heard(wire', wire, line) /\ wire'.steers = Tail(wire.steers)
  BY <1>1, <1>2, StateIs, DeliverIs
<1> HIDE DEF s
<1>4. K!StateInv'
  <2>1. /\ IsWire(wire') /\ wire'.steers = queued' /\ queued' \in Seq(Steers)
        /\ wire'.records = wire.records /\ wire'.tools = wire.tools
        /\ wire'.anchor \in K!Moments /\ heard' \in K!Moments /\ calls' \subseteq Nat \ {0}
        /\ wire'.open \in K!Windows \cup {Nothing} /\ wire'.closed \in K!Windows \cup {Nothing}
    BY <1>1, <1>2, <1>3, StateIs DEF Heard
  <2> QED BY <1>1, <1>2, <2>1, Typed, StateNext
<1>5. K!ReplyInv'
  BY <1>1, <1>3 DEF Heard, K!ReplyInv
<1>6. K!CallsInv'
  BY <1>1, <1>2, <1>3, SameCalls DEF Heard
<1>7. K!WindowsInv'
  BY <1>1, <1>2, <1>3, InputWindows DEF Heard
<1> QED BY <1>4, <1>5, <1>6, <1>7 DEF K!WireInv

\* A line that moves nothing (a message of the harness, a step of the legacy
\* format, no line at all), and one of the turn alone.
LEMMA TurnStep ==
  ASSUME K!WireInv, IsWire(wire'), Kept(wire', wire), wire'.pending = wire.pending,
         wire'.first = wire.first, wire'.steers = wire.steers, line' \in {line, line + 1},
         UNCHANGED <<queued, requests, failedAt>>, calls' \in {calls, {}}, heard' \in {heard, Nothing},
         step' \in {"idle", "running", "answered", "done"}, K!ReplyInv'
  PROVE  K!WireInv'
<1>1. K!StateInv /\ K!CallsInv /\ K!WindowsInv
  BY DEF K!WireInv
<1>2. K!StateInv'
  <2>1. /\ wire'.steers = queued' /\ queued' \in Seq(Steers)
        /\ wire'.records = wire.records /\ wire'.tools = wire.tools
        /\ wire'.anchor \in K!Moments /\ heard' \in K!Moments /\ calls' \subseteq Nat \ {0}
        /\ wire'.open \in K!Windows \cup {Nothing} /\ wire'.closed \in K!Windows \cup {Nothing}
    BY <1>1, StateIs DEF Kept
  <2>2. requests' \in Seq(K!Steps) /\ wire'.records \in Seq(K!UsageRows) /\ wire'.tools \in Seq(K!CallRows)
    BY <1>1, <2>1, Typed
  <2> QED BY <1>1, <2>1, <2>2, StateNext
<1>3. K!CallsInv'
  BY <1>1, SameCalls DEF Kept
<1>4. K!WindowsInv'
  BY <1>1, SameWindows
<1> QED BY <1>2, <1>3, <1>4 DEF K!WireInv

LEMMA InjectStep ==
  ASSUME K!WireInv, K!Inject
  PROVE  K!WireInv'
<1>1. /\ line' = line + 1 /\ wire' = K!DeliverSteer(wire, line, Nothing)
      /\ UNCHANGED <<step, queued, heard, replying, requests, calls, failedAt>>
  BY DEF K!Inject, K!Writes
<1>2. K!StateInv /\ K!ReplyInv
  BY DEF K!WireInv
<1>3. wire' = wire
  BY <1>1, <1>2, StateIs, DeliverIs
<1>4. K!ReplyInv'
  BY <1>1, <1>2, <1>3 DEF K!ReplyInv
<1>5. step' \in {"idle", "running", "answered", "done"}
  BY <1>1, <1>2 DEF K!StateInv
<1> QED BY <1>1, <1>2, <1>3, <1>4, <1>5, StateIs, TurnStep DEF Kept

LEMMA BeginStep ==
  ASSUME K!WireInv, K!BeginStep
  PROVE  K!WireInv'
<1> DEFINE s == K!StepBegin(wire, line, IF heard = Nothing THEN wire.turnId ELSE line)
<1>1. /\ step \in {"idle", "done"} /\ step' = "running" /\ replying' = K!Begun /\ heard' = Nothing
      /\ calls' = {} /\ UNCHANGED <<queued, requests, failedAt>>
      /\ (line' = line /\ wire' = wire) \/ (line' = line + 1 /\ wire' = s)
  BY DEF K!BeginStep, K!Writes
<1>2. K!StateInv /\ K!ReplyInv
  BY DEF K!WireInv
<1>3. /\ IsWire(wire') /\ Kept(wire', wire) /\ wire'.pending = wire.pending
      /\ wire'.first = wire.first /\ wire'.steers = wire.steers
  BY <1>1, <1>2, StateIs, StepBeginIs DEF Kept
<1> HIDE DEF s
<1>4. K!ReplyInv'
  <2>1. replying' = [asked |-> heard, first |-> Nothing] /\ heard \in K!Moments /\ Nothing \in K!Moments
    BY <1>1, <1>2, StateIs DEF K!Begun
  <2>2. /\ replying' \in [asked : K!Moments, first : K!Moments]
        /\ replying'.asked = heard /\ replying'.first = Nothing
    BY <2>1
  <2>3. wire.pending = heard /\ wire.first = Nothing
    BY <1>1, <1>2 DEF K!ReplyInv
  <2> QED BY <1>1, <1>3, <2>2, <2>3 DEF K!ReplyInv
<1> QED BY <1>1, <1>3, <1>4, TurnStep

LEMMA RestStep ==
  ASSUME K!WireInv, K!Rest
  PROVE  K!WireInv'
<1>1. /\ step = "done" /\ heard = Nothing /\ step' = "idle"
      /\ UNCHANGED <<queued, heard, replying, requests, calls, failedAt>>
      /\ (line' = line /\ wire' = wire) \/ (line' = line + 1 /\ wire' = K!EndTurn(wire))
  BY DEF K!Rest, K!Writes
<1>2. K!StateInv /\ K!ReplyInv
  BY DEF K!WireInv
<1>3. wire.pending = Nothing /\ wire.first = Nothing
  BY <1>1, <1>2 DEF K!ReplyInv
<1>4. /\ IsWire(wire') /\ Kept(wire', wire) /\ wire'.pending = Nothing
      /\ wire'.first = Nothing /\ wire'.steers = wire.steers
  BY <1>1, <1>2, <1>3, StateIs, EndTurnIs DEF Kept
<1>5. K!ReplyInv'
  BY <1>1, <1>4 DEF K!ReplyInv
<1> QED BY <1>1, <1>3, <1>4, <1>5, TurnStep

\* Output.
LEMMA SpokenState ==
  ASSUME K!WireInv, Spoke(wire', wire, line), line' = line + 1, replying' = K!Replied,
         step = "running", UNCHANGED <<step, queued, heard, requests, failedAt>>,
         calls' \subseteq Nat \ {0}, wire'.tools \in Seq(K!CallRows)
  PROVE  K!StateInv' /\ K!ReplyInv' /\ K!WindowsInv'
<1>1. K!StateInv /\ K!ReplyInv /\ K!WindowsInv
  BY DEF K!WireInv
<1>2. K!StateInv'
  <2>1. /\ IsWire(wire') /\ wire'.steers = queued' /\ queued' \in Seq(Steers)
        /\ wire'.records = wire.records
        /\ wire'.anchor \in K!Moments /\ heard' \in K!Moments
        /\ wire'.closed \in K!Windows \cup {Nothing}
    BY <1>1, StateIs DEF Spoke
  <2>2. wire'.open \in K!Windows
    <3>1. \A a \in K!Moments, b \in Nat : [start |-> a, end |-> b] \in K!Windows
      BY DEF K!Windows
    <3>2. wire.open # Nothing => wire.open.start \in K!Moments
      BY <1>1, StateIs DEF K!Windows
    <3> QED BY <1>1, <3>1, <3>2, StateIs DEF Spoke
  <2> QED BY <1>1, <2>1, <2>2, Typed, StateNext
<1>3. K!ReplyInv'
  <2>1. /\ heard = Nothing /\ replying \in [asked : K!Moments, first : K!Moments]
        /\ wire.pending = replying.asked
        /\ wire.first = IF replying.asked = Nothing THEN Nothing ELSE replying.first
    BY <1>1 DEF K!ReplyInv
  <2>2. /\ replying' \in [asked : K!Moments, first : K!Moments] /\ replying'.asked = replying.asked
        /\ replying'.first = IF replying.first = Nothing THEN line ELSE replying.first
    BY <1>1, <2>1, StateIs DEF K!Replied
  <2> QED BY <2>1, <2>2 DEF K!ReplyInv, Spoke
<1>4. K!WindowsInv'
  BY <1>1, OutputWindows DEF Spoke
<1> QED BY <1>2, <1>3, <1>4

LEMMA SayStep ==
  ASSUME K!WireInv, K!Say
  PROVE  K!WireInv'
<1>1. /\ step = "running" /\ line' = line + 1 /\ wire' = K!ContentPart(wire, line)
      /\ replying' = K!Replied
      /\ UNCHANGED <<step, queued, heard, requests, calls, failedAt>>
  BY DEF K!Say, K!Writes
<1>2. K!StateInv /\ K!CallsInv
  BY DEF K!WireInv
<1>3. Spoke(wire', wire, line) /\ wire'.tools = wire.tools
  BY <1>1, <1>2, StateIs, SaidIs
<1>4. K!StateInv' /\ K!ReplyInv' /\ K!WindowsInv'
  BY <1>1, <1>2, <1>3, StateIs, Typed, SpokenState
<1>5. K!CallsInv'
  BY <1>1, <1>2, <1>3, SameCalls DEF Spoke
<1> QED BY <1>4, <1>5 DEF K!WireInv

LEMMA CallStep ==
  ASSUME K!WireInv, K!Call
  PROVE  K!WireInv'
<1>1. /\ step = "running" /\ line' = line + 1 /\ wire' = K!ToolCall(wire, line)
      /\ replying' = K!Replied /\ calls' = calls \cup {Len(wire.tools) + 1}
      /\ UNCHANGED <<step, queued, heard, requests, failedAt>>
  BY DEF K!Call, K!Writes
<1>2. K!StateInv /\ K!CallsInv
  BY DEF K!WireInv
<1>3. /\ Spoke(wire', wire, line)
      /\ wire'.tools = Append(wire.tools, [model |-> Nothing, line |-> line])
  BY <1>1, <1>2, StateIs, CalledIs
<1>4. wire'.tools \in Seq(K!CallRows) /\ Len(wire.tools) + 1 \in Nat \ {0}
  <2>1. [model |-> Nothing, line |-> line] \in K!CallRows /\ wire.tools \in Seq(K!CallRows)
    BY <1>2, StateIs, Typed DEF K!CallRows
  <2> QED BY <1>3, <2>1, AppendIs
<1>5. calls' \subseteq Nat \ {0}
  BY <1>1, <1>2, <1>4, StateIs
<1>6. K!StateInv' /\ K!ReplyInv' /\ K!WindowsInv'
  BY <1>1, <1>3, <1>4, <1>5, SpokenState
<1>7. K!CallsInv'
  BY <1>1, <1>2, <1>3, NextCall DEF Spoke
<1> QED BY <1>6, <1>7 DEF K!WireInv

LEMMA ResultStep ==
  ASSUME K!WireInv, NEW call, NEW error, K!Result(call, error)
  PROVE  K!WireInv'
<1>1. /\ step \in {"running", "answered"} /\ step' = "answered" /\ line' = line + 1
      /\ wire' = K!ToolResult(wire, line, call, error)
      /\ UNCHANGED <<queued, heard, replying, requests, calls, failedAt>>
  BY DEF K!Result, K!Writes
<1>2. K!StateInv /\ K!ReplyInv /\ K!CallsInv /\ K!WindowsInv
  BY DEF K!WireInv
<1>3. /\ IsWire(wire') /\ wire'.records = wire.records /\ wire'.tools = wire.tools
      /\ wire'.steers = wire.steers /\ wire'.pending = wire.pending /\ wire'.first = wire.first
      /\ wire'.anchor = line /\ wire'.open = Nothing
      /\ wire'.closed = IF wire.open # Nothing THEN wire.open ELSE wire.closed
  BY <1>1, <1>2, StateIs, ResultIs
<1>4. K!StateInv'
  <2>1. /\ wire'.steers = queued' /\ queued' \in Seq(Steers)
        /\ wire'.anchor \in K!Moments /\ heard' \in K!Moments /\ calls' \subseteq Nat \ {0}
        /\ wire'.open \in K!Windows \cup {Nothing} /\ wire'.closed \in K!Windows \cup {Nothing}
    BY <1>1, <1>2, <1>3, StateIs
  <2> QED BY <1>1, <1>2, <1>3, <2>1, Typed, StateNext
<1>5. K!ReplyInv'
  BY <1>1, <1>2, <1>3 DEF K!ReplyInv
<1>6. K!CallsInv'
  BY <1>1, <1>2, <1>3, SameCalls
<1>7. K!WindowsInv'
  BY <1>1, <1>2, <1>3, InputWindows
<1> QED BY <1>4, <1>5, <1>6, <1>7 DEF K!WireInv

LEMMA FailStep ==
  ASSUME K!WireInv, NEW kind, K!Fail(kind)
  PROVE  K!WireInv'
<1>1. /\ line' = line + 1 /\ wire' = K!LlmError(wire, line, kind) /\ failedAt' = failedAt \cup {line}
      /\ step = "running" /\ UNCHANGED <<step, queued, heard, replying, requests, calls>>
  BY DEF K!Fail, K!Writes
<1>2. K!StateInv /\ K!ReplyInv /\ K!CallsInv /\ K!WindowsInv
  BY DEF K!WireInv
<1>3. /\ IsWire(wire') /\ wire'.records = wire.records /\ wire'.tools = wire.tools
      /\ wire'.steers = wire.steers /\ wire'.pending = wire.pending /\ wire'.first = wire.first
      /\ wire'.closed = wire.closed /\ wire'.anchor = Nothing
      /\ wire'.open = IF wire.open = Nothing THEN Nothing
                      ELSE [start |-> Nothing, end |-> wire.open.end]
  BY <1>1, <1>2, StateIs, ErrorIs
<1>4. K!StateInv'
  <2>1. /\ wire'.steers = queued' /\ queued' \in Seq(Steers)
        /\ wire'.anchor \in K!Moments /\ heard' \in K!Moments /\ calls' \subseteq Nat \ {0}
        /\ wire'.closed \in K!Windows \cup {Nothing}
    BY <1>1, <1>2, <1>3, StateIs
  <2>2. wire'.open \in K!Windows \cup {Nothing}
    <3>1. \A b \in Nat : [start |-> Nothing, end |-> b] \in K!Windows
      BY DEF K!Windows, K!Moments
    <3>2. wire.open # Nothing => wire.open.end \in Nat
      BY <1>2, StateIs DEF K!Windows
    <3> QED BY <1>3, <3>1, <3>2
  <2> QED BY <1>1, <1>2, <1>3, <2>1, <2>2, Typed, StateNext
<1>5. K!ReplyInv'
  BY <1>1, <1>2, <1>3 DEF K!ReplyInv
<1>6. K!CallsInv'
  BY <1>1, <1>2, <1>3, SameCalls
<1>7. K!WindowsInv'
  BY <1>1, <1>2, <1>3, FailedWindows
<1> QED BY <1>4, <1>5, <1>6, <1>7 DEF K!WireInv

LEMMA UsageStep ==
  ASSUME K!WireInv, NEW name, K!Usage(name)
  PROVE  K!WireInv'
<1> DEFINE m == K!ModelFor(name, line)
           r == [model |-> m, line |-> line, latency |-> K!ReplyLatency(wire, line),
                 window |-> K!BoundWindow(wire)]
           q == K!Joined(replying, [model |-> m, calls |-> calls])
<1>1. /\ step \in {"running", "answered"} /\ replying.first # Nothing /\ step' = "done"
      /\ line' = line + 1 /\ wire' = K!UsageRecord(wire, line, name)
      /\ requests' = Append(requests, q) /\ replying' = Nothing /\ calls' = {}
      /\ UNCHANGED <<queued, heard, failedAt>>
  BY DEF K!Usage, K!Writes
<1>2. K!StateInv /\ K!ReplyInv /\ K!CallsInv /\ K!WindowsInv
  BY DEF K!WireInv
<1>3. /\ IsWire(wire') /\ wire'.tools = wire.tools /\ wire'.steers = wire.steers
      /\ wire'.pending = Nothing /\ wire'.first = Nothing /\ wire'.anchor = wire.anchor
      /\ wire'.open = Nothing /\ wire'.closed = Nothing
      /\ wire'.records = Append(wire.records, r)
  BY <1>1, <1>2, StateIs, UsageIs
<1>4. /\ heard = Nothing /\ replying \in [asked : K!Moments, first : K!Moments]
      /\ wire.pending = replying.asked
      /\ wire.first = IF replying.asked = Nothing THEN Nothing ELSE replying.first
  BY <1>1, <1>2 DEF K!ReplyInv
<1>5. m \in K!Names
  BY DEF K!ModelFor, K!Names
<1> HIDE DEF m
<1>6. /\ q = [asked |-> replying.asked, first |-> replying.first, model |-> m, calls |-> calls]
      /\ q \in K!Steps
  <2>1. q = [asked |-> replying.asked, first |-> replying.first, model |-> m, calls |-> calls]
    BY <1>4 DEF K!Joined
  <2> HIDE DEF q
  <2> QED BY <1>2, <1>4, <1>5, <2>1, StateIs DEF K!Steps
<1>7. K!ReplyLatency(wire, line) = IF q.asked = Nothing THEN Nothing ELSE q.first - q.asked
  <2>1. q.asked = replying.asked /\ q.first = replying.first
    BY <1>6
  <2> HIDE DEF q
  <2> QED BY <1>1, <1>4, <2>1 DEF K!ReplyLatency
<1>8. r \in K!UsageRows
  <2>1. K!ReplyLatency(wire, line) \in Int \cup {Nothing}
    <3>1. /\ replying.asked # Nothing => replying.asked \in Nat
          /\ replying.first \in Nat
      BY <1>1, <1>4 DEF K!Moments
    <3>2. q.asked = replying.asked /\ q.first = replying.first
      BY <1>6
    <3> HIDE DEF q
    <3> QED BY <1>7, <3>1, <3>2
  <2>2. K!BoundWindow(wire) \in K!Windows \cup {Nothing}
    BY <1>2, StateIs DEF K!BoundWindow
  <2>3. line \in Nat
    BY <1>2, StateIs
  <2> QED BY <1>5, <2>1, <2>2, <2>3 DEF K!UsageRows
<1>9. r.window = K!BoundWindow(wire) /\ r.line = line /\ r.model = m
      /\ r.latency = K!ReplyLatency(wire, line)
  OBVIOUS
<1>10. q.model = m /\ q.calls = calls
  BY <1>6
<1> HIDE DEF r, q
<1>11. K!StateInv'
  <2>1. /\ wire'.steers = queued' /\ queued' \in Seq(Steers)
        /\ wire'.anchor \in K!Moments /\ heard' \in K!Moments /\ calls' \subseteq Nat \ {0}
    BY <1>1, <1>2, <1>3, StateIs
  <2>2. wire'.records \in Seq(K!UsageRows) /\ requests' \in Seq(K!Steps)
    BY <1>1, <1>2, <1>3, <1>6, <1>8, Typed, AppendIs
  <2> QED BY <1>1, <1>2, <1>3, <2>1, <2>2, Typed, StateNext
<1>12. K!ReplyInv'
  BY <1>1, <1>3, <1>4 DEF K!ReplyInv
<1>13. K!CallsInv'
  BY <1>1, <1>2, <1>3, <1>7, <1>9, <1>10, UsageCalls
<1>14. K!WindowsInv'
  BY <1>1, <1>2, <1>3, <1>9, UsageWindows
<1> QED BY <1>11, <1>12, <1>13, <1>14 DEF K!WireInv

-----------------------------------------------------------------------------
\* The theorems.

LEMMA WireStart == K!WireInit => K!WireInv
<1> SUFFICES ASSUME K!WireInit PROVE K!WireInv
  OBVIOUS
<1>1. /\ wire = K!Empty /\ line = 1 /\ step = "idle" /\ queued = <<>>
      /\ heard = Nothing /\ replying = Nothing /\ requests = <<>> /\ calls = {} /\ failedAt = {}
  BY DEF K!WireInit
<1>2. /\ IsWire(wire) /\ wire.records = <<>> /\ wire.tools = <<>> /\ wire.steers = <<>>
      /\ wire.pending = Nothing /\ wire.first = Nothing
      /\ wire.anchor = Nothing /\ wire.open = Nothing /\ wire.closed = Nothing
  BY <1>1, EmptyIs
<1>3. K!StateInv
  <2>1. wire = [f \in DOMAIN K!Empty |-> wire[f]]
    BY <1>2, FieldsOf DEF IsWire
  <2> HIDE DEF K!UsageRows, K!CallRows, K!Steps, K!Windows, K!Empty
  <2> QED BY <1>1, <1>2, <2>1 DEF K!StateInv, K!Moments
<1>4. K!ReplyInv
  BY <1>1, <1>2 DEF K!ReplyInv
<1>5. K!CallsInv
  BY <1>1, <1>2 DEF K!CallsInv
<1>6. K!WindowsInv
  BY <1>1, <1>2 DEF K!WindowsInv, K!AnchorInv, K!OpenInv, K!ClosedInv, K!RecordedInv,
                    K!WindowsApart, K!Behind, K!Apart
<1> QED BY <1>3, <1>4, <1>5, <1>6 DEF K!WireInv

\* The invariant holds of every state of a session.
THEOREM WireInductive == K!WireSpec => []K!WireInv
<1>1. K!WireInv /\ [K!WireNext]_K!wireVars => K!WireInv'
  <2> SUFFICES ASSUME K!WireInv, [K!WireNext]_K!wireVars PROVE K!WireInv'
    OBVIOUS
  <2>1. CASE K!Ask
    BY <2>1, AskStep
  <2>2. CASE K!Deliver
    BY <2>2, DeliverStep
  <2>3. CASE K!Inject
    BY <2>3, InjectStep
  <2>4. CASE K!BeginStep
    BY <2>4, BeginStep
  <2>5. CASE K!Say
    BY <2>5, SayStep
  <2>6. CASE K!Call
    BY <2>6, CallStep
  <2>7. CASE K!Rest
    BY <2>7, RestStep
  <2>8. CASE \E text \in Steers : K!Interject(text)
    BY <2>8, InterjectStep
  <2>9. CASE \E call \in calls, error \in BOOLEAN : K!Result(call, error)
    BY <2>9, ResultStep
  <2>10. CASE \E kind \in {"quota_exhausted", "other"} : K!Fail(kind)
    BY <2>10, FailStep
  <2>11. CASE \E name \in WireModels \cup {Nothing} : K!Usage(name)
    BY <2>11, UsageStep
  <2>12. CASE UNCHANGED K!wireVars
    <3>1. UNCHANGED <<wire, line, step, queued, heard, replying, requests, calls, failedAt>>
      BY <2>12 DEF K!wireVars
    <3>2. K!StateInv /\ K!ReplyInv
      BY DEF K!WireInv
    <3>3. K!ReplyInv' /\ step' \in {"idle", "running", "answered", "done"}
      BY <3>1, <3>2 DEF K!ReplyInv, K!StateInv
    <3> QED BY <3>1, <3>2, <3>3, StateIs, TurnStep DEF Kept
  <2> QED BY <2>1, <2>2, <2>3, <2>4, <2>5, <2>6, <2>7, <2>8, <2>9, <2>10, <2>11, <2>12 DEF K!WireNext
<1> QED BY <1>1, WireStart, PTL DEF K!WireSpec

LEMMA FirstAfterIs ==
  ASSUME NEW S, NEW records \in Seq(S), NEW n, NEW i \in DOMAIN records,
         records[i].line > n,
         \A j \in DOMAIN records : j < i => ~(records[j].line > n)
  PROVE  K!FirstAfter(records, n) = i
<1> DEFINE I == {j \in 1..Len(records) : records[j].line > n}
<1>1. i \in I /\ i \in Nat \ {0}
  OBVIOUS
<1>2. \A j \in I : i <= j
  BY <1>1
<1>3. \A j \in I : j \in Nat
  OBVIOUS
<1>4. K!Min(I) = i
  <2>1. K!Min(I) = CHOOSE x \in I : \A y \in I : x <= y
    BY DEF K!Min
  <2>2. \A x \in I : (\A y \in I : x <= y) => x = i
    BY <1>1, <1>2, <1>3
  <2> HIDE DEF I
  <2> QED BY <1>1, <1>2, <2>1, <2>2
<1> QED BY <1>1, <1>4 DEF K!FirstAfter, K!SelectInSeq

\* A usage record is timed from the input its step answers to its first output,
\* and the calls of the step carry its model (parse_kimi.py:213-322).
THEOREM StepsAreTimed == K!WireSpec => []K!StepsOwnTheirRows
<1>1. K!WireInv => K!StepsOwnTheirRows
  <2> SUFFICES ASSUME K!WireInv PROVE K!StepsOwnTheirRows
    OBVIOUS
  <2>1. K!StateInv /\ Answered(requests, wire, line)
    BY CallsInvIs DEF K!WireInv
  <2>2. ASSUME NEW i \in DOMAIN requests, NEW c \in requests[i].calls
        PROVE  K!ToolModel(wire, c) = requests[i].model
    <3>1. /\ i \in DOMAIN wire.records /\ wire.records[i].model = requests[i].model
          /\ K!CallBetween(wire, c, i, wire.records[i].line)
      BY <2>1, <2>2 DEF Answered
    <3> DEFINE n == wire.tools[c].line
    <3>2. /\ n \in Nat /\ n < wire.records[i].line
          /\ \A j \in DOMAIN wire.records : j < i => wire.records[j].line < n
      BY <2>1, <3>1, CallsAre DEF K!CallBetween
    <3>3. \A j \in DOMAIN wire.records : wire.records[j].line \in Nat /\ j \in Nat \ {0}
      BY <2>1, CallsAre
    <3> HIDE DEF n
    <3>4. /\ wire.records[i].line > n
          /\ \A j \in DOMAIN wire.records : j < i => ~(wire.records[j].line > n)
      BY <3>1, <3>2, <3>3
    <3>5. K!FirstAfter(wire.records, n) = i
      BY <2>1, <3>1, <3>4, Typed, FirstAfterIs
    <3> QED BY <3>1, <3>3, <3>5 DEF K!ToolModel, n
  <2> QED BY <2>1, <2>2 DEF K!StepsOwnTheirRows, Answered
<1> QED BY <1>1, WireInductive, PTL

\* The windows of two requests share no second, and none holds a failed attempt
\* (lane_generation.py:9-46, parse_kimi.py:389-409).
THEOREM WindowsAreTimes == K!WireSpec => []K!WireTimesUnbroken
<1>1. K!WireInv => K!WireTimesUnbroken
  <2> SUFFICES ASSUME K!WireInv PROVE K!WireTimesUnbroken
    OBVIOUS
  <2>1. K!RecordedInv /\ K!WindowsApart(wire)
    BY DEF K!WireInv, K!WindowsInv
  <2> QED BY <2>1 DEF K!WireTimesUnbroken, K!RecordedInv, K!Unfailed
<1> QED BY <1>1, WireInductive, PTL

=============================================================================
