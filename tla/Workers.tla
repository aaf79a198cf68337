------------------------------ MODULE Workers ------------------------------
(***************************************************************************)
(* The parse workers of a run: children of a fork server that outlives the *)
(* pools, with the deaths of service, server and workers at any moment     *)
(* (ingest_workers.parse_pool, parse_worker_init).  A pid is never reused. *)
(***************************************************************************)
EXTENDS Naturals, FiniteSets

CONSTANTS Slots,          \* parse workers of one pool
          NoPid,
          MaxServers      \* bound: fork servers started

Steps == {"none", "forked", "armed", "kin", "ready"}

VARIABLES
  service,     \* alive?
  forker,      \* [pid, alive] of the last fork server, NoPid before the first
  poolServer,  \* server pid in the pool's initargs, NoPid: no pool
  worker,      \* [step, parent, armed, holds]: holds the server's alive pipe open
  broken       \* BrokenProcessPool: a worker of this pool died

workerVars == <<service, forker, poolServer, worker, broken>>

Dead == [step |-> "none", parent |-> NoPid, armed |-> FALSE, holds |-> FALSE]
NoServer == [pid |-> 0, alive |-> FALSE]
Living(w) == worker[w].step # "none"

WorkersTypeOK ==
  /\ service \in BOOLEAN /\ broken \in BOOLEAN
  /\ forker \in {NoServer} \cup [pid : 1..MaxServers, alive : BOOLEAN]
  /\ poolServer \in {NoPid} \cup 1..MaxServers
  /\ worker \in [Slots -> {Dead} \cup
       [step : Steps \ {"none"}, parent : 1..MaxServers, armed : BOOLEAN, holds : BOOLEAN]]

WorkersInit ==
  /\ service = TRUE /\ broken = FALSE
  /\ forker = NoServer /\ poolServer = NoPid
  /\ worker = [w \in Slots |-> Dead]

\* ensure_running: the living server, or a new one.
Running ==
  IF forker.alive THEN forker ELSE [pid |-> forker.pid + 1, alive |-> TRUE]

\* parse_pool
ParsePool ==
  /\ service /\ poolServer = NoPid /\ \A w \in Slots : ~Living(w)
  /\ Running.pid <= MaxServers
  /\ forker' = Running /\ poolServer' = Running.pid /\ broken' = FALSE
  /\ UNCHANGED <<service, worker>>
\* The pool asks for a worker: the server that runs by then forks it, with the
\* pipe that tells the server its clients live.
Spawn(w) ==
  /\ service /\ poolServer # NoPid /\ ~broken /\ ~Living(w)
  /\ Running.pid <= MaxServers
  /\ forker' = Running
  /\ worker' = [worker EXCEPT ![w] =
       [step |-> "forked", parent |-> Running.pid, armed |-> FALSE, holds |-> TRUE]]
  /\ UNCHANGED <<service, poolServer, broken>>

ParentLives(w) == forker.alive /\ forker.pid = worker[w].parent
Exit(w) == worker' = [worker EXCEPT ![w] = Dead] /\ broken' = TRUE

\* parse_worker_init: PDEATHSIG is armed, on the parent there is by now.
Arm(w) ==
  /\ worker[w].step = "forked"
  /\ worker' = [worker EXCEPT ![w].step = "armed", ![w].armed = ParentLives(w)]
  /\ UNCHANGED <<service, forker, poolServer, broken>>
\* Mutant: armed is enough.
OrphanUnasked(w) == FALSE
\* os.getppid() is not the server of the initargs.
Orphan(w) == ~ParentLives(w) \/ worker[w].parent # poolServer
CheckParent(w) ==
  /\ worker[w].step = "armed"
  /\ IF Orphan(w) THEN Exit(w)
     ELSE worker' = [worker EXCEPT ![w].step = "kin"] /\ UNCHANGED broken
  /\ UNCHANGED <<service, forker, poolServer>>
\* Mutant: the inherited end of the pipe stays open.
KeptOpen(w) == [worker[w] EXCEPT !.step = "ready"]
\* The worker gives up its end of the alive pipe.
Closed(w) == [worker[w] EXCEPT !.step = "ready", !.holds = FALSE]
CheckService(w) ==
  /\ worker[w].step = "kin"
  /\ IF ~service THEN Exit(w)
     ELSE worker' = [worker EXCEPT ![w] = Closed(w)] /\ UNCHANGED broken
  /\ UNCHANGED <<service, forker, poolServer>>

\* The pool is shut down: its workers leave.
EndPool ==
  /\ service /\ poolServer # NoPid
  /\ \A w \in Slots : worker[w].step \in {"none", "ready"}
  /\ worker' = [w \in Slots |-> Dead] /\ poolServer' = NoPid
  /\ UNCHANGED <<service, forker, broken>>
ServiceKilled ==
  /\ service /\ service' = FALSE
  /\ UNCHANGED <<forker, poolServer, worker, broken>>
WorkerDies(w) ==
  /\ Living(w) /\ Exit(w)
  /\ UNCHANGED <<service, forker, poolServer>>

\* The server dies, and with it the children that armed the signal.
Bereaved == [w \in Slots |->
  IF worker[w].armed /\ worker[w].parent = forker.pid THEN Dead ELSE worker[w]]
ServerGone ==
  /\ forker.alive
  /\ forker' = [forker EXCEPT !.alive = FALSE]
  /\ worker' = Bereaved /\ broken' = (broken \/ \E w \in Slots : Bereaved[w] # worker[w])
  /\ UNCHANGED <<service, poolServer>>
\* End of file on the alive pipe: nobody holds a writing end.
Unheld == ~service /\ \A w \in Slots : worker[w].parent = forker.pid => ~worker[w].holds
ServerExits == Unheld /\ ServerGone
ServerKilled == service /\ ServerGone

WorkersNext ==
  \/ ParsePool \/ EndPool \/ ServiceKilled \/ ServerExits \/ ServerKilled
  \/ \E w \in Slots : Spawn(w) \/ Arm(w) \/ CheckParent(w) \/ CheckService(w) \/ WorkerDies(w)

WorkersSpec == WorkersInit /\ [][WorkersNext]_workerVars

\* No parse worker, and no fork server, outlives its service: once it is dead
\* what still lives is on its way out, a worker that has yet to look or the
\* server of workers that will be taken with it, and a worker whose server died
\* has yet to look, too (ingest_workers.py:100-143).
NoneOutlivesItsService ==
  LET starting == {w \in Slots : worker[w].step \in {"forked", "armed", "kin"}}
  IN  /\ \A w \in Slots : Living(w) /\ ~ParentLives(w) => w \in starting
      /\ ~service /\ forker.alive => starting # {} \/ Unheld
      /\ \A w \in Slots : worker[w].step \in {"kin", "ready"} => worker[w].armed
\* What it rests on: a worker that looked at its parent found it alive and had
\* armed the signal by then, so that it dies with it; a pid is never reused, so
\* a parent that was gone when the signal was armed is never found alive again;
\* and only a worker that is starting holds the pipe.
WorkersInv ==
  /\ \A w \in Slots :
       /\ Living(w) => worker[w].parent <= forker.pid
       /\ worker[w].step = "armed" /\ ParentLives(w) => worker[w].armed
       /\ worker[w].step \in {"kin", "ready"} => worker[w].armed /\ ParentLives(w)
       /\ worker[w].step \in {"none", "ready"} => ~worker[w].holds
=============================================================================
