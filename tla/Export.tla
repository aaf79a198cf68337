------------------------------- MODULE Export -------------------------------
(***************************************************************************)
(* GET /api/export (api_export.py): a render child per request, one at a   *)
(* time per server, writing to a temporary file that the handler reads and *)
(* unlinks; its reaping on timeout, cancellation and shutdown, and the     *)
(* sweep at startup.  Several servers may share the temporary directory.   *)
(* Time is counted in _EXPORT_TIMEOUT_S.  Spawning and registering a child *)
(* are one step: asyncio kills a child whose spawn is cancelled.           *)
(***************************************************************************)
EXTENDS Integers, FiniteSets

CONSTANTS
  Servers, Exports,   \* processes; requests, each made once
  NoFile,             \* the temporary file is not there
  RenderTimeout,      \* _EXPORT_TIMEOUT_S
  MaxClock, MaxKills  \* bounds: time, SIGKILLs and failing spawns

VARIABLES
  server,     \* "up", "stopping" or "down"
  live,       \* _live_renders of each server
  handler,    \* the handler of each request
  child,      \* its render process: "none", "running" or "ended"
  file,       \* its temporary file: the time it was last written
  clock,
  kills

exportVars == <<server, live, handler, child, file, clock, kills>>

Unmade == [stage |-> "unmade"]
InHandler(e) == handler[e].stage \in {"render", "reap"}
Busy(s) == \E e \in Exports : InHandler(e) /\ handler[e].server = s

ExportTypeOK ==
  /\ server \in [Servers -> {"up", "stopping", "down"}]
  /\ live \in [Servers -> SUBSET Exports]
  /\ handler \in [Exports -> {Unmade} \cup [stage : {"lost", "answered"}] \cup
       [stage : {"render", "reap"}, server : Servers, since : 0..MaxClock]]
  /\ child \in [Exports -> {"none", "running", "ended"}]
  /\ file \in [Exports -> 0..MaxClock \cup {NoFile}]
  /\ clock \in 0..MaxClock
  /\ \A s \in Servers : \A d, e \in live[s] : d = e

ExportInit ==
  /\ server = [s \in Servers |-> "up"]
  /\ live = [s \in Servers |-> {}]
  /\ handler = [e \in Exports |-> Unmade]
  /\ child = [e \in Exports |-> "none"]
  /\ file = [e \in Exports |-> NoFile]
  /\ clock = 0
  /\ kills = 0

\* The check of the semaphore and its acquisition have no await between
\* them, so a second request is refused and never waits.
Start(s, e) ==
  /\ server[s] = "up" /\ ~Busy(s)
  /\ handler[e] = Unmade
  /\ file' = [file EXCEPT ![e] = clock]
  /\ child' = [child EXCEPT ![e] = "running"]
  /\ live' = [live EXCEPT ![s] = @ \cup {e}]
  /\ handler' = [handler EXCEPT ![e] = [stage |-> "render", server |-> s, since |-> clock]]
  /\ UNCHANGED <<server, clock, kills>>
StartFails(s, e) ==
  /\ server[s] = "up" /\ handler[e] = Unmade
  /\ Busy(s) \/ kills < MaxKills     \* refused, or the interpreter cannot be launched
  /\ kills' = IF Busy(s) THEN kills ELSE kills + 1
  /\ handler' = [handler EXCEPT ![e] = [stage |-> "answered"]]
  /\ UNCHANGED <<server, live, child, file, clock>>

\* The child writes its output, which makes the file anew if it is gone.
ChildWrites(e) ==
  /\ child[e] = "running"
  /\ file' = [file EXCEPT ![e] = clock]
  /\ UNCHANGED <<server, live, handler, child, clock, kills>>
ChildEnds(e) ==
  /\ child[e] = "running"
  /\ child' = [child EXCEPT ![e] = "ended"]
  /\ UNCHANGED <<server, live, handler, file, clock, kills>>

Kill(e) == child' = [child EXCEPT ![e] = IF @ = "running" THEN "ended" ELSE @]

\* What the two finally blocks leave: no live entry, no lock, no file.
Leave(e) ==
  /\ live' = [live EXCEPT ![handler[e].server] = @ \ {e}]
  /\ file' = [file EXCEPT ![e] = NoFile]
  /\ handler' = [handler EXCEPT ![e] = [stage |-> "answered"]]

\* communicate() returned in time: read the file, or raise what the exit
\* code stands for.
Rendered(e) ==
  /\ handler[e].stage = "render" /\ child[e] # "running"
  /\ Leave(e)
  /\ UNCHANGED <<server, child, clock, kills>>

\* The timeout, or a cancellation of the request: kill, then drain.  A
\* cancellation while draining is only remembered, for the answer.
Reap(e) ==
  /\ handler[e].stage = "render"
  /\ Kill(e)
  /\ handler' = [handler EXCEPT ![e].stage = "reap"]
  /\ UNCHANGED <<server, live, file, clock, kills>>
TimeOut(e) == Reap(e) /\ clock - handler[e].since >= RenderTimeout
CancelRender(e) == Reap(e)
Reaped(e) ==
  /\ handler[e].stage = "reap" /\ child[e] # "running"
  /\ Leave(e)
  /\ UNCHANGED <<server, child, clock, kills>>

(***************************************************************************)
(* The server: a graceful stop kills and unlinks what is live, waiting for *)
(* the children within its budget; the handler may or may not get to run   *)
(* in that time.  A start sweeps what is too old to belong to a render.    *)
(***************************************************************************)
\* Mutant: a stop leaves the children running.
StopRegardless(s) ==
  /\ server[s] = "up"
  /\ server' = [server EXCEPT ![s] = "stopping"]
  /\ UNCHANGED <<live, child, handler, file, clock, kills>>
Stop(s) ==
  /\ server[s] = "up"
  /\ server' = [server EXCEPT ![s] = "stopping"]
  /\ child' = [e \in Exports |->
       IF e \in live[s] /\ child[e] = "running" THEN "ended" ELSE child[e]]
  /\ UNCHANGED <<live, handler, file, clock, kills>>
Stopped(s) ==
  /\ server[s] = "stopping"
  /\ server' = [server EXCEPT ![s] = "down"]
  /\ file' = [e \in Exports |-> IF e \in live[s] THEN NoFile ELSE file[e]]
  /\ live' = [live EXCEPT ![s] = {}]
  /\ handler' = [e \in Exports |-> IF InHandler(e) /\ handler[e].server = s
                                   THEN [stage |-> "answered"] ELSE handler[e]]
  /\ UNCHANGED <<child, clock, kills>>

SigKill(s) ==
  /\ server[s] # "down" /\ kills < MaxKills
  /\ kills' = kills + 1
  /\ server' = [server EXCEPT ![s] = "down"]
  /\ live' = [live EXCEPT ![s] = {}]
  /\ handler' = [e \in Exports |-> IF InHandler(e) /\ handler[e].server = s
                                   THEN [stage |-> "lost"] ELSE handler[e]]
  /\ UNCHANGED <<child, file, clock>>

StaleAge == 2 * RenderTimeout
\* Mutant: every file not of this moment is swept.
StaleSince(e) == file[e] # NoFile /\ file[e] < clock
Stale(e) == file[e] # NoFile /\ file[e] < clock - StaleAge
Boot(s) ==
  /\ server[s] = "down"
  /\ server' = [server EXCEPT ![s] = "up"]
  /\ file' = [e \in Exports |-> IF Stale(e) THEN NoFile ELSE file[e]]
  /\ UNCHANGED <<live, handler, child, clock, kills>>

\* Timers are punctual: a render that has used up its time is timed out
\* before time goes on.
Tick ==
  /\ clock < MaxClock
  /\ \A e \in Exports : handler[e].stage = "render" => clock - handler[e].since < RenderTimeout
  /\ clock' = clock + 1
  /\ UNCHANGED <<server, live, handler, child, file, kills>>

ExportNext ==
  \/ \E e \in Exports :
       \/ \E s \in Servers : Start(s, e) \/ StartFails(s, e)
       \/ ChildWrites(e) \/ ChildEnds(e) \/ Rendered(e)
       \/ TimeOut(e) \/ CancelRender(e) \/ Reaped(e)
  \/ \E s \in Servers : Stop(s) \/ Stopped(s) \/ SigKill(s) \/ Boot(s)
  \/ Tick

ExportSpec == ExportInit /\ [][ExportNext]_exportVars

(***************************************************************************)
(* Properties.                                                             *)
(***************************************************************************)
\* No start of any server sharing the directory takes the file of a render
\* that is still within its time: when its child is done the handler finds
\* it (api_export.py:52-58, 225-251, 271-272).
RenderKeepsItsFile ==
  \A e \in Exports : handler[e].stage = "render" /\ server[handler[e].server] = "up" => file[e] # NoFile

\* However a request ends (timeout, cancellations, also repeated ones, a stop
\* whose budget is used up), its child does not run on and its file is gone;
\* only a SIGKILL leaves them (api_export.py:97-121, 151-183, 186-222).
NothingLeftBehind ==
  \A e \in Exports :
    handler[e].stage = "answered" => child[e] # "running" /\ file[e] = NoFile
(***************************************************************************)
(* What these rest on: a server's live renders are those of its handlers;  *)
(* while a render is within its time its file is no older than that; what  *)
(* a stop kills stays ended; and a request not made has left nothing.      *)
(***************************************************************************)
ExportInv ==
  /\ \A s \in Servers : live[s] = {e \in Exports : InHandler(e) /\ handler[e].server = s}
  /\ \A e \in Exports : handler[e].stage = "render" =>
       /\ file[e] # NoFile /\ handler[e].since <= file[e]
       /\ handler[e].since <= clock /\ clock - handler[e].since <= RenderTimeout
  /\ \A s \in Servers, e \in Exports :
       server[s] = "stopping" /\ e \in live[s] => child[e] # "running"
  /\ \A e \in Exports : handler[e].stage = "unmade" => child[e] = "none" /\ file[e] = NoFile
=============================================================================
