--------------------------- MODULE GateFreshness ---------------------------
(***************************************************************************)
(* The "gate freshness" check of open pull requests: every push to master  *)
(* starts a publisher for all open heads, every push to a pull request one *)
(* for its head; a verdict is published per commit and the last one stands *)
(* (scripts/ci/gate_freshness.py, .github/workflows/gate-freshness.yml).   *)
(***************************************************************************)
EXTENDS Integers, Sequences, FiniteSets, SequencesExt

CONSTANTS Pulls, MaxTips, MaxHeads

VARIABLES defining,    \* of each master commit, whether it changes a gate definer
          head,        \* of each pull request, its head: sha and the commits it has
          verdict,     \* of each head published on, the last conclusion and its tip
          publisher,   \* the unfinished publishers, in the order of their events
          red,         \* a publisher's run has failed
          overtaken    \* a verdict replaced one computed from a newer tip

freshVars == <<defining, head, verdict, publisher, red, overtaken>>

NoHead == [sha |-> 0, has |-> 0]
Publisher(pulls) == [pulls |-> pulls, stage |-> "queued", tip |-> 0, todo |-> {}]
Heads == {h.sha : h \in {head[p] : p \in Pulls}} \ {0}

FreshInit ==
  /\ defining = <<FALSE>>
  /\ head = [p \in Pulls |-> NoHead]
  /\ verdict = <<>>
  /\ publisher = <<>>
  /\ red = FALSE
  /\ overtaken = FALSE

PushMaster ==
  /\ Len(defining) < MaxTips
  /\ \E d \in BOOLEAN : defining' = Append(defining, d)
  /\ publisher' = Append(publisher, Publisher(Pulls))
  /\ UNCHANGED <<head, verdict, red, overtaken>>

\* A pull request is opened, pushed to or rebased; "has" is how much of master
\* its head has.
PushHead(p) ==
  /\ \A h \in Heads : h < MaxHeads
  /\ \E has \in head[p].has..Len(defining) :
       /\ has > 0
       /\ head' = [head EXCEPT ![p] =
            [sha |-> IF Heads = {} THEN 1 ELSE Max(Heads) + 1, has |-> has]]
  /\ publisher' = Append(publisher, Publisher({p}))
  /\ UNCHANGED <<defining, verdict, red, overtaken>>

\* Mutant: the tip that the heads were based on.
TipOfEvent(n) ==
  /\ publisher[n].stage = "queued"
  /\ publisher' = [publisher EXCEPT ![n].stage = "resolved",
                     ![n].tip = Max({1} \cup {head[p].has : p \in publisher[n].pulls})]
  /\ UNCHANGED <<defining, head, verdict, red, overtaken>>

\* The tip is fetched, never taken from the event.  The heads of one pull
\* request come with its event, those of all are listed after the fetch.
ResolveMasterTip(n) ==
  /\ publisher[n].stage = "queued"
  /\ publisher' = [publisher EXCEPT ![n].stage = "resolved", ![n].tip = Len(defining)]
  /\ UNCHANGED <<defining, head, verdict, red, overtaken>>

HeadsForRun(n) ==
  /\ publisher[n].stage = "resolved"
  /\ publisher' = [publisher EXCEPT ![n].stage = "publishing",
                     ![n].todo = {head[p] : p \in publisher[n].pulls} \ {NoHead}]
  /\ UNCHANGED <<defining, head, verdict, red, overtaken>>

\* Red when a commit of the tip's that the head lacks is a gate definer, and
\* when the head's objects cannot be fetched and compared.
HeadVerdict(tip, h) ==
  IF \E c \in (h.has + 1)..tip : defining[c] THEN "failure" ELSE "success"
Verdicts(tip, h) == {HeadVerdict(tip, h), "failure"}

\* A check run on a commit, in the place of the one before.
PublishCheck(sha, conclusion, tip) ==
  /\ verdict' = [s \in DOMAIN verdict \cup {sha} |->
       IF s = sha THEN [conclusion |-> conclusion, tip |-> tip] ELSE verdict[s]]
  /\ overtaken' = (overtaken \/ (sha \in DOMAIN verdict /\ verdict[sha].tip > tip))

\* One check run per head.  One that cannot be published, tried twice, fails
\* the run and leaves the other heads their turn.
PublishHead(n) ==
  /\ publisher[n].stage = "publishing"
  /\ \E h \in publisher[n].todo :
       /\ publisher' = [publisher EXCEPT ![n].todo = @ \ {h}]
       /\ \/ /\ \E conclusion \in Verdicts(publisher[n].tip, h) :
                 PublishCheck(h.sha, conclusion, publisher[n].tip)
             /\ red' = red
          \/ red' = TRUE /\ UNCHANGED <<verdict, overtaken>>
  /\ UNCHANGED <<defining, head>>

Publish(n) ==
  /\ publisher[n].stage = "publishing" /\ publisher[n].todo = {}
  /\ publisher' = RemoveAt(publisher, n)
  /\ UNCHANGED <<defining, head, verdict, red, overtaken>>

\* The tip or the list of heads cannot be read: nothing is published.
Fails(n) ==
  /\ publisher[n].stage \in {"queued", "resolved"}
  /\ publisher' = RemoveAt(publisher, n)
  /\ red' = TRUE
  /\ UNCHANGED <<defining, head, verdict, overtaken>>

FreshNext ==
  \/ PushMaster
  \/ \E p \in Pulls : PushHead(p)
  \/ \E n \in DOMAIN publisher :
       ResolveMasterTip(n) \/ HeadsForRun(n) \/ PublishHead(n) \/ Publish(n) \/ Fails(n)

FreshTypeOK ==
  /\ defining \in Seq(BOOLEAN)
  /\ \A p \in Pulls : head[p].sha \in Nat /\ head[p].has \in 0..Len(defining)
  /\ \A s \in DOMAIN verdict : verdict[s].conclusion \in {"success", "failure"}
  /\ red \in BOOLEAN /\ overtaken \in BOOLEAN

\* No head keeps a green check that master has made stale once every publisher
\* is through and none has failed.  The publishers of two events may run at
\* once: a slow one may replace a verdict from a newer tip (overtaken).
GreenIsFresh ==
  publisher = <<>> /\ ~red /\ ~overtaken =>
    \A p \in Pulls : head[p] # NoHead =>
      /\ head[p].sha \in DOMAIN verdict
      /\ verdict[head[p].sha].conclusion = "success" =>
           HeadVerdict(Len(defining), head[p]) = "success"

(***************************************************************************)
(* Why: the inductive invariant.  A head is settled against the whole of   *)
(* master, or a publisher that has yet to speak for it will compare it     *)
(* with the whole of master; no head of an older push is taken for it.     *)
(***************************************************************************)
Settled(p) ==
  LET sha == head[p].sha
  IN  /\ sha \in DOMAIN verdict
      /\ verdict[sha].tip = Len(defining)
      /\ verdict[sha].conclusion = "success" => HeadVerdict(Len(defining), head[p]) = "success"

Covers(q, p) ==
  /\ p \in q.pulls
  /\ \/ q.stage = "queued"
     \/ q.stage = "resolved" /\ q.tip = Len(defining)
     \/ q.stage = "publishing" /\ q.tip = Len(defining) /\ head[p] \in q.todo

AHead == [sha : Nat, has : Nat]
FreshInv ==
  /\ Len(defining) > 0
  /\ head \in [Pulls -> AHead]
  /\ publisher \in Seq([pulls : SUBSET Pulls, stage : {"queued", "resolved", "publishing"},
                        tip : 0..Len(defining), todo : SUBSET AHead])
  /\ \A s \in DOMAIN verdict : verdict[s].tip \in 0..Len(defining)
  /\ \A p \in Pulls : head[p].sha = 0 => head[p] = NoHead
  /\ \A p, q \in Pulls : head[p].sha = head[q].sha => head[p] = NoHead \/ p = q
  /\ \A n \in DOMAIN publisher : \A h \in publisher[n].todo :
       /\ h.sha # 0
       /\ \E p \in Pulls : h.sha <= head[p].sha
       /\ \A p \in Pulls : head[p].sha = h.sha => head[p] = h
  /\ ~red /\ ~overtaken =>
       \A p \in Pulls : head[p] # NoHead =>
         Settled(p) \/ \E n \in DOMAIN publisher : Covers(publisher[n], p)
=============================================================================
