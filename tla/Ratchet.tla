------------------------------ MODULE Ratchet ------------------------------
(***************************************************************************)
(* The CI ratchets: what people may do to the recorded thresholds, what a  *)
(* master run measures and raises, and the job that lands its data on a    *)
(* master that has moved on (scripts/ci/ratchet*.py, suite_ratchet.py,     *)
(* reparse_ratchet.py, suppression_baseline.py, thresholds*.py,            *)
(* .github/workflows/tests.yml, ratchet-push.yml).                         *)
(*                                                                         *)
(* A family stands for the records of its kind.  What is recorded is the   *)
(* measured value: floor and ceiling are the gap below and above it, and   *)
(* no document that says otherwise loads.                                  *)
(***************************************************************************)
EXTENDS Integers, Sequences, FiniteSets, SequencesExt

CONSTANTS Values, Gap, Hysteresis, UnrecordedLimit, MaxPersons, MaxPricing

Families == {"coverage", "suite_cost", "reparse", "suppressions"}

VARIABLES master,    \* the commits
          landed,    \* the code commits whose runs had their ratchet-push job
          push       \* the ratchet-push job, one at a time

ratchetVars == <<master, landed, push>>

(***************************************************************************)
(* Thresholds.                                                             *)
(***************************************************************************)
\* A document: what is recorded, and the tree the suite's budgets were seeded
\* on, if that is said.
Doc(recorded, seededOn) == [recorded |-> recorded, seededOn |-> seededOn]
With(doc, f, v) == [doc EXCEPT !.recorded = [g \in DOMAIN @ \cup {f} |-> IF g = f THEN v ELSE @[g]]]
Without(doc, f) ==
  Doc([g \in DOMAIN doc.recorded \ {f} |-> doc.recorded[g]],
      IF f = "suite_cost" THEN 0 ELSE doc.seededOn)

\* The floor of a quality, the ceiling of a cost.
Bound(f, doc) == IF f = "coverage" THEN doc.recorded[f] - Gap ELSE doc.recorded[f] + Gap

\* Suppressions have no gap, and a file without an entry has a limit.
SuppressionsHold(doc, count) ==
  IF "suppressions" \in DOMAIN doc.recorded THEN count <= doc.recorded["suppressions"]
  ELSE count < UnrecordedLimit

FamilyHolds(f, doc, values) ==
  IF f = "suppressions" THEN SuppressionsHold(doc, values[f])
  ELSE f \in DOMAIN doc.recorded =>
         IF f = "coverage" THEN values[f] >= Bound(f, doc) ELSE values[f] <= Bound(f, doc)

(***************************************************************************)
(* The direction guard, over a change by hand.                             *)
(***************************************************************************)
InBoth(f, old, new) == f \in DOMAIN old.recorded \cap DOMAIN new.recorded

CoverageMoves(f, old, new) ==
  f = "coverage" /\ InBoth(f, old, new) /\ new.recorded[f] < old.recorded[f]

\* Only a feature raises a cost, and nothing moves the tree a seed names.
SuiteCostMoves(f, old, new, feature) ==
  /\ f = "suite_cost" /\ InBoth(f, old, new)
  /\ (~feature /\ new.recorded[f] > old.recorded[f]) \/ new.seededOn # old.seededOn
ReparseMoves(f, old, new, feature) ==
  f = "reparse" /\ InBoth(f, old, new) /\ ~feature /\ new.recorded[f] > old.recorded[f]

BaselineMoves(f, old, new) ==
  /\ f = "suppressions" /\ f \in DOMAIN new.recorded
  /\ f \in DOMAIN old.recorded => new.recorded[f] > old.recorded[f]

\* A removal has a declaration, or its file is gone.
RemovalMoves(f, old, new, declared) ==
  f \in DOMAIN old.recorded /\ f \notin DOMAIN new.recorded /\ ~declared

ForbiddenMove(f, old, new, feature, declared) ==
  \/ CoverageMoves(f, old, new) \/ SuiteCostMoves(f, old, new, feature)
  \/ ReparseMoves(f, old, new, feature) \/ BaselineMoves(f, old, new)
  \/ RemovalMoves(f, old, new, declared)

(***************************************************************************)
(* What a measurement moves.                                               *)
(***************************************************************************)
\* A record is moved, or seeded, only by a measurement that beats it by more
\* than the hysteresis.
RaiseCoverage(doc, v) ==
  IF "coverage" \in DOMAIN doc.recorded /\ v - doc.recorded["coverage"] <= Hysteresis
  THEN doc ELSE With(doc, "coverage", v)

TightenCost(doc, f, v) ==
  IF doc.recorded[f] - v > Hysteresis THEN With(doc, f, v) ELSE doc

SeedReparse(doc, v) == With(doc, "reparse", v)
ReparseRatchet(doc, v) ==
  IF "reparse" \in DOMAIN doc.recorded THEN TightenCost(doc, "reparse", v) ELSE SeedReparse(doc, v)

\* A seed of the suite's budgets has to be measured on the tree it lands on,
\* and names it.
SameTree(tree, tipTree) == tree = tipTree
SeedSuite(doc, v, tree) == [With(doc, "suite_cost", v) EXCEPT !.seededOn = tree]
SuiteRatchet(doc, v, tree, tipTree) ==
  IF "suite_cost" \in DOMAIN doc.recorded THEN TightenCost(doc, "suite_cost", v)
  ELSE IF SameTree(tree, tipTree) THEN SeedSuite(doc, v, tree) ELSE doc

\* Suppressions follow their count down, leave at zero, and are seeded again
\* after a declared removal.
Tightened(doc, count) ==
  IF "suppressions" \in DOMAIN doc.recorded
  THEN IF count = 0 THEN Without(doc, "suppressions")
       ELSE IF count < doc.recorded["suppressions"] THEN With(doc, "suppressions", count)
       ELSE doc
  ELSE IF count >= UnrecordedLimit THEN With(doc, "suppressions", count) ELSE doc

\* What the ratchet job of a master run stages.
Staged(c) ==
  LET values == master[c].values
      raised == RaiseCoverage(master[c].doc, values["coverage"])
  IN  Tightened(ReparseRatchet(raised, values["reparse"]), values["suppressions"])

(***************************************************************************)
(* People and the pricing bot.                                             *)
(***************************************************************************)
Commit(kind, doc, values, tree) == [kind |-> kind, doc |-> doc, values |-> values, tree |-> tree]
Tip == Last(master)
By(kinds) == {c \in DOMAIN master : master[c].kind \in kinds}
IdleJob == [stage |-> "idle"]

Loosest == [f \in Families |->
  IF f = "coverage" THEN CHOOSE v \in Values : \A w \in Values : v <= w
  ELSE CHOOSE v \in Values : \A w \in Values : w <= v]
Best == [f \in Families |->
  IF f = "coverage" THEN Loosest["suite_cost"] ELSE Loosest["coverage"]]

RatchetInit ==
  /\ \E recorded \in {Families, Families \ {"suite_cost"}} :
       master = <<Commit("code", Doc([f \in recorded |-> Loosest[f]], 0), Best, 1)>>
  /\ landed = {}
  /\ push = IdleJob

\* A file whose entry's removal is declared may have any count until master
\* seeds it again.
Exempt(f, old, new, declared) == f = "suppressions" /\ declared /\ new = Without(old, f)

\* A change by hand of one family, of its code, its record or both, judged
\* against its parent: the gates measure it and the guard compares the documents.
PersonCommits ==
  /\ Cardinality(By({"code", "thresholds"})) <= MaxPersons
  /\ \E f \in Families :
     \E v \in Values, doc \in {Tip.doc, Without(Tip.doc, f)} \cup {With(Tip.doc, f, w) : w \in Values} :
       LET kind == IF v = Tip.values[f] /\ doc # Tip.doc THEN "thresholds" ELSE "code"
           values == [Tip.values EXCEPT ![f] = v]
       IN  /\ \E feature, declared \in BOOLEAN :
                /\ ~ForbiddenMove(f, Tip.doc, doc, feature, declared)
                /\ FamilyHolds(f, doc, values) \/ Exempt(f, Tip.doc, doc, declared)
           /\ master' = Append(master,
                Commit(kind, doc, values, IF kind = "code" THEN Len(master) + 1 ELSE Tip.tree))
  /\ UNCHANGED <<landed, push>>

PricingBotCommits ==
  /\ Cardinality(By({"pricing"})) < MaxPricing
  /\ master' = Append(master, [Tip EXCEPT !.kind = "pricing"])
  /\ UNCHANGED <<landed, push>>

(***************************************************************************)
(* The job that lands a run's data.                                        *)
(***************************************************************************)
\* Mutant: any history will do.
AnyHistory(base, tip) == base <= tip

\* Whether every commit after the measured base changes only data.
EveryDataOnly(base, tip) == \A c \in (base + 1)..tip : master[c].kind # "code"

\* The three-way merge of the documents: of each record and of the seed's tree
\* the side that changed it, and a conflict when both changed a record,
\* differently (no run stages another tree).
Record(doc, f) == IF f \in DOMAIN doc.recorded THEN {doc.recorded[f]} ELSE {}
Merges(ours, base, theirs) ==
  \A f \in Families : \/ Record(ours, f) = Record(base, f)
                      \/ Record(theirs, f) \in {Record(base, f), Record(ours, f)}

\* Mutant: the staged file replaces the tip's.
Replaced(ours, base, theirs) == theirs

Merged(ours, base, theirs) ==
  LET side(f) == IF Record(ours, f) = Record(base, f) THEN theirs ELSE ours
      kept == {f \in Families : f \in DOMAIN side(f).recorded}
  IN  Doc([f \in kept |-> side(f).recorded[f]],
          IF ours.seededOn = base.seededOn THEN theirs.seededOn ELSE ours.seededOn)

\* Only code runs the suite, and only a run that succeeds is followed, once, by
\* this job.  It merges the data that run c staged with the tip's, which may
\* refuse changes of adjacent lines too; the suite's measurement counts only if
\* the tip's document is the measured base's.
Fetch(c) ==
  /\ push.stage = "idle" /\ master[c].kind = "code" /\ c \notin landed
  /\ LET tip == Len(master)
         base == master[c].doc
         doc == IF tip = c THEN Staged(c) ELSE Merged(Tip.doc, base, Staged(c))
         final == IF Tip.doc = base
                  THEN SuiteRatchet(doc, master[c].values["suite_cost"], master[c].tree, Tip.tree)
                  ELSE doc
     IN  \/ /\ tip # c => EveryDataOnly(c, tip) /\ Merges(Tip.doc, base, Staged(c))
            /\ final # Tip.doc
            /\ push' = [stage |-> "committed", tip |-> tip, doc |-> final]
         \/ push' = IdleJob
  /\ landed' = landed \cup {c}
  /\ UNCHANGED master

\* The push lands on the fetched tip or not at all.
Push ==
  /\ push.stage = "committed"
  /\ push' = IdleJob
  /\ master' = IF push.tip = Len(master)
               THEN Append(master, Commit("bot", push.doc, Tip.values, Tip.tree))
               ELSE master
  /\ UNCHANGED landed

RatchetNext ==
  \/ PersonCommits \/ PricingBotCommits \/ Push
  \/ \E c \in DOMAIN master : Fetch(c)

RatchetTypeOK ==
  /\ \A c \in DOMAIN master :
       /\ master[c].kind \in {"code", "thresholds", "pricing", "bot"}
       /\ DOMAIN master[c].doc.recorded \subseteq Families
       /\ \A f \in DOMAIN master[c].doc.recorded : master[c].doc.recorded[f] \in Values
       /\ master[c].values \in [Families -> Values]
  /\ landed \subseteq DOMAIN master

Looser(f, new, old) == IF f = "coverage" THEN new < old ELSE new > old

\* What a bot's commit may never do, however master moved while it measured:
\* loosen or drop a record, except that a file free of suppressions loses its
\* entry, record what the tree does not hold to, or name a wrong tree.
Tightens(old, new, values, tree) ==
  LET dropped == DOMAIN old.recorded \ DOMAIN new.recorded
  IN  /\ \A f \in DOMAIN old.recorded \cap DOMAIN new.recorded :
           ~Looser(f, new.recorded[f], old.recorded[f])
      /\ dropped \subseteq IF values["suppressions"] = 0 THEN {"suppressions"} ELSE {}
      /\ \A f \in Families : Record(new, f) # Record(old, f) => FamilyHolds(f, new, values)
      /\ new.seededOn # old.seededOn => new.seededOn = tree
RatchetOnlyTightens ==
  \A c \in By({"bot"}) :
    Tightens(master[c - 1].doc, master[c].doc, master[c].values, master[c].tree)

(***************************************************************************)
(* Why: the inductive invariant.  What the job is about to push tightens   *)
(* the document of the tip it fetched, and commits of data leave the tree  *)
(* and what it measures alone.                                             *)
(***************************************************************************)
Docs == [recorded : UNION {[kept -> Values] : kept \in SUBSET Families}, seededOn : Nat]
Commits ==
  [kind : {"code", "thresholds", "pricing", "bot"}, doc : Docs, values : [Families -> Values],
   tree : Nat]

RatchetInv ==
  /\ master \in Seq(Commits) /\ Len(master) > 0 /\ master[1].kind = "code"
  /\ push.stage \in {"idle", "committed"}
  /\ push.stage = "committed" =>
       /\ push.tip \in DOMAIN master /\ push.doc \in Docs
       /\ Tightens(master[push.tip].doc, push.doc, master[push.tip].values, master[push.tip].tree)
  /\ \A c, d \in DOMAIN master :
       c <= d /\ EveryDataOnly(c, d) =>
         master[c].values = master[d].values /\ master[c].tree = master[d].tree
  /\ RatchetOnlyTightens
=============================================================================
