------------------------------- MODULE Gates -------------------------------
(***************************************************************************)
(* The gates of master: which legs a push's ci-gate run may skip, what its *)
(* aggregate makes of their results, and the refresh bot's push           *)
(* (scripts/ci/classify_*.py, setup_docs.py, aggregate_gate.py and         *)
(* .github/workflows/ci-gate.yml, refresh-pricing.yml).                    *)
(*                                                                         *)
(* A tree says of each kind of path which of a few contents it has: code 1 *)
(* fails every leg that reads code, code 2 works with data 0 only, comment *)
(* 1 is one that a scanner refuses, setup 1 contradicts the pinned facts,  *)
(* floor 1 is above what is measured; nothing is wrong with a note.        *)
(***************************************************************************)
EXTENDS Integers, Sequences, FiniteSets, SequencesExt

CONSTANTS Edits,       \* sets of paths a person's push changes together
          MaxPushes,   \* pushes by people
          MaxLost      \* legs lost to a runner or a cancellation, per run

VARIABLES master,      \* the commits, the first of them verified
          gate,        \* of each commit, its ci-gate run
          bot          \* the refresh bot's run

gateVars == <<master, gate, bot>>

Fields == {"code", "comment", "note", "setup", "data", "floor"}
ContentsOf(field) == IF field = "code" THEN 0..2 ELSE 0..1
CleanTree == [f \in Fields |-> 0]

Legs == {"tests", "slow", "cheap", "scanners", "setup-docs"}

\* What a leg that ran to its end says of a tree.  The suite covers the guard
\* of the setup documentation.
Passes(leg, tree) ==
  /\ leg # "setup-docs" => tree["code"] # 1
  /\ leg \in {"tests", "slow"} => ~(tree["code"] = 2 /\ tree["data"] = 1)
  /\ leg = "scanners" => tree["comment"] = 0
  /\ leg \in {"tests", "setup-docs"} => tree["setup"] = 0
  /\ leg = "tests" => tree["floor"] = 0

\* A push of ratchet data alone starts no run.
NoRun == [stage |-> "none"]
NewRun == [stage |-> "queued"]
Commit(tree, author, testedOn) == [tree |-> tree, author |-> author, testedOn |-> testedOn]
IdleBot == [stage |-> "idle"]

GateInit ==
  /\ master = <<Commit(CleanTree, "person", 0)>>
  /\ gate = <<[stage |-> "done", class |-> "full", base |-> 0, again |-> 0,
               green |-> TRUE, ran |-> TRUE]>>
  /\ bot = IdleBot

Changed(old, new) == {f \in Fields : old[f] # new[f]}
RunOf(paths) == IF paths = {"floor"} THEN NoRun ELSE NewRun

(***************************************************************************)
(* The classifier.                                                         *)
(***************************************************************************)
\* Mutant: a run that failed counts too.
ExercisedBase == Max({c \in 1..Len(master) : gate[c].stage = "done" /\ gate[c].ran})

\* The newest commit whose run succeeded and ran a leg: a run that failed says
\* that the code was exercised, not that it passed.
VerifiedBase ==
  LET verified == {c \in 1..Len(master) :
                     gate[c].stage = "done" /\ gate[c].green /\ gate[c].ran}
  IN  Max(verified)

\* The classes, in the order they are tried.
ThresholdsOnly(paths) == paths = {"floor"}

Documentation == {"note", "setup"}
DocumentationOnly(paths) == paths \subseteq Documentation

\* A setup section narrows like other prose while its pinned facts are the same.
SetupFactsMoved(paths, old, new) == "setup" \in paths /\ old["setup"] # new["setup"]

IsBotPush(c) == master[c].author = "bot"
DataOnly(paths) == paths = {"data"}

\* Source files that differ, and not once their comments are stripped.
Sources == {"code", "comment"}
Stripped(tree) == tree["code"]
CommentOnly(paths, old, new) ==
  /\ paths \subseteq Sources
  /\ \E f \in Sources : old[f] # new[f]
  /\ Stripped(old) = Stripped(new)

\* The class of commit c's run: the paths were read over one base, setup facts
\* and comments are read over another.
ClassOf(c, paths, again) ==
  LET old == master[again].tree
      new == master[c].tree
  IN  IF paths = {} THEN "full"
      ELSE CASE ThresholdsOnly(paths) -> "thresholds"
             [] DocumentationOnly(paths) ->
                  IF SetupFactsMoved(paths, old, new) THEN "setup" ELSE "docs"
             [] DataOnly(paths) /\ IsBotPush(c) -> "data"
             [] CommentOnly(paths, old, new) -> "comment"
             [] OTHER -> "full"

ReadPaths(c) ==
  /\ gate[c].stage = "queued"
  /\ gate' = [gate EXCEPT ![c] =
       [stage |-> "read", base |-> VerifiedBase,
        paths |-> Changed(master[VerifiedBase].tree, master[c].tree)]]
  /\ UNCHANGED <<master, bot>>

\* Anything that cannot be read runs the full set.
Classify(c) ==
  /\ gate[c].stage = "read"
  /\ \E class \in {ClassOf(c, gate[c].paths, VerifiedBase), "full"} :
       gate' = [gate EXCEPT ![c] =
         [stage |-> "classed", class |-> class, base |-> gate[c].base, again |-> VerifiedBase]]
  /\ UNCHANGED <<master, bot>>

(***************************************************************************)
(* The legs and their aggregate.                                           *)
(***************************************************************************)
\* The legs the workflow starts.
Started(class) ==
  CASE class = "docs" -> {}
    [] class = "setup" -> {"setup-docs"}
    [] class = "data" -> {"cheap"}
    [] class = "thresholds" -> {"tests"}
    [] class = "comment" -> {"tests", "cheap", "scanners"}
    [] OTHER -> Legs \ {"setup-docs"}

\* The legs the aggregate takes a skip of.
Narrowed(class) ==
  LET ordinary == Legs \ {"setup-docs"}
      byClass == CASE class \in {"docs", "setup"} -> ordinary
                   [] class = "data" -> ordinary \ {"cheap"}
                   [] class = "thresholds" -> ordinary \ {"tests"}
                   [] class = "comment" -> {"slow"}
                   [] OTHER -> {}
  IN  byClass \cup IF class = "setup" THEN {} ELSE {"setup-docs"}

Fold(results, class) ==
  \A leg \in Legs : results[leg] = "success" \/ (results[leg] = "skipped" /\ leg \in Narrowed(class))

\* A leg that was started may be lost: it fails, is cancelled, or is skipped
\* by a cancellation of the run before it began.
Aggregate(c) ==
  /\ gate[c].stage = "classed"
  /\ \E lost \in SUBSET Started(gate[c].class), how \in {"failure", "skipped"} :
       /\ Cardinality(lost) <= MaxLost
       /\ lost = {} => how = "failure"
       /\ LET class == gate[c].class
              results == [leg \in Legs |->
                IF leg \notin Started(class) THEN "skipped"
                ELSE IF leg \in lost THEN how
                ELSE IF Passes(leg, master[c].tree) THEN "success" ELSE "failure"]
          IN  gate' = [gate EXCEPT ![c] =
                [stage |-> "done", class |-> class, base |-> gate[c].base, again |-> gate[c].again,
                 green |-> Fold(results, class),
                 ran |-> \E leg \in Legs : results[leg] # "skipped"]]
  /\ UNCHANGED <<master, bot>>

(***************************************************************************)
(* Pushes.                                                                 *)
(***************************************************************************)
Push(commit, paths) ==
  /\ master' = Append(master, commit)
  /\ gate' = Append(gate, RunOf(paths))

PersonPushes ==
  /\ Cardinality({c \in DOMAIN master : master[c].author = "person"}) <= MaxPushes
  /\ \E paths \in Edits, code \in ContentsOf("code") \ {Last(master).tree["code"]} :
       LET old == Last(master).tree
           tree == [f \in Fields |-> IF f \notin paths THEN old[f]
                                     ELSE IF f = "code" THEN code ELSE 1 - old[f]]
       IN  Push(Commit(tree, "person", Len(master)), paths)
  /\ UNCHANGED bot

\* The hourly run takes the tip, changes the data and runs the suite on that.
BotTests ==
  /\ bot.stage = "idle"
  /\ LET base == Len(master)
         data == 1 - Last(master).tree["data"]
     IN  /\ Passes("tests", [Last(master).tree EXCEPT !["data"] = data])
         /\ bot' = [stage |-> "tested", base |-> base, data |-> data]
  /\ UNCHANGED <<master, gate>>

\* It asks the remote for its tip, and drops its data when that has moved.
BotCompares ==
  /\ bot.stage = "tested"
  /\ bot' = IF bot.base = Len(master)
            THEN [stage |-> "compared", base |-> bot.base, data |-> bot.data]
            ELSE [stage |-> "ended"]
  /\ UNCHANGED <<master, gate>>

\* Then it fetches the tip, which is another one if master moved since.
BotFetches ==
  /\ bot.stage = "compared"
  /\ bot' = [stage |-> "fetched", base |-> bot.base, data |-> bot.data, tip |-> Len(master)]
  /\ UNCHANGED <<master, gate>>

\* Its commit lands on the tip it fetched or is rejected; with nothing to
\* commit the job fails.
BotPushes ==
  /\ bot.stage = "fetched"
  /\ bot' = [stage |-> "ended"]
  /\ LET tree == [master[bot.tip].tree EXCEPT !["data"] = bot.data]
     IN  IF bot.tip = Len(master) /\ tree # master[bot.tip].tree
         THEN Push(Commit(tree, "bot", bot.base), {"data"})
         ELSE UNCHANGED <<master, gate>>

GateNext ==
  \/ \E c \in DOMAIN master : ReadPaths(c) \/ Classify(c) \/ Aggregate(c)
  \/ PersonPushes
  \/ BotTests \/ BotCompares \/ BotFetches \/ BotPushes

(***************************************************************************)
(* What a green aggregate says.                                            *)
(***************************************************************************)
GateTypeOK ==
  /\ \A c \in DOMAIN master :
       /\ DOMAIN master[c].tree = Fields
       /\ \A f \in Fields : master[c].tree[f] \in ContentsOf(f)
       /\ master[c].author \in {"person", "bot"}
       /\ gate[c].stage \in {"none", "queued", "read", "classed", "done"}
  /\ DOMAIN gate = DOMAIN master
  /\ bot.stage \in {"idle", "tested", "compared", "fetched", "ended"}

\* The window the code leaves open: master moves between the bot's two looks at
\* it, and data tested on one tree lands on another.
Raced == \E c \in 2..Len(master) : master[c].testedOn # c - 1

\* A push's aggregate is green only when every leg, those it skipped included,
\* passes on that tree: narrowing never hides code under a later push's
\* documentation, comments, data or thresholds (_verified_base, fold).
GreenMeansTested ==
  Raced \/ \A c \in DOMAIN gate :
    gate[c].stage = "done" /\ gate[c].green => \A leg \in Legs : Passes(leg, master[c].tree)

(***************************************************************************)
(* Why: the inductive invariant.  A run compares its commit with commits   *)
(* that are verified, and keeps what it found; what the bot pushes on the  *)
(* tree it tested passes the suite.                                        *)
(***************************************************************************)
Verified(c) == gate[c].stage = "done" /\ gate[c].green /\ gate[c].ran

Classes == {"docs", "setup", "data", "thresholds", "comment", "full"}
Runs ==
  {NoRun, NewRun}
    \cup [stage : {"read"}, base : Nat, paths : SUBSET Fields]
    \cup [stage : {"classed"}, class : Classes, base : Nat, again : Nat]
    \cup [stage : {"done"}, class : Classes, base : Nat, again : Nat, green : BOOLEAN, ran : BOOLEAN]

ComparedWell(c) ==
  LET base == gate[c].base
      paths == Changed(master[base].tree, master[c].tree)
  IN  /\ gate[c].stage \in {"read", "classed"} => base \in DOMAIN gate /\ Verified(base)
      /\ gate[c].stage = "read" => gate[c].paths = paths
      /\ gate[c].stage = "classed" =>
           /\ gate[c].again \in DOMAIN gate /\ Verified(gate[c].again)
           /\ gate[c].class \in {ClassOf(c, paths, gate[c].again), "full"}

BotTested ==
  /\ bot.stage \in {"tested", "compared", "fetched"} =>
       /\ bot.base \in DOMAIN master /\ bot.data \in 0..1
       /\ Passes("tests", [master[bot.base].tree EXCEPT !["data"] = bot.data])
  /\ bot.stage = "fetched" => bot.tip \in DOMAIN master

GateInv ==
  /\ Len(master) > 0 /\ Len(gate) = Len(master) /\ gate \in Seq(Runs)
  /\ master \in Seq([tree : [Fields -> 0..2], author : {"person", "bot"}, testedOn : Nat])
  /\ master[1].author = "person" /\ Verified(1)
  /\ \A c \in DOMAIN gate : ComparedWell(c)
  /\ \A c \in DOMAIN master :
       master[c].author = "bot" /\ master[c].testedOn = c - 1 => Passes("tests", master[c].tree)
  /\ BotTested
  /\ GreenMeansTested
=============================================================================
