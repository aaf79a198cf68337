----------------------------- MODULE Broadcast -----------------------------
(***************************************************************************)
(* How browsers learn that an ingest changed the data.  A run's thread     *)
(* hands the notice to the event loop, which puts it into the bounded      *)
(* queue of every stream that was subscribed at the call; a stream sends   *)
(* what it takes from its queue to its browser, pings it every 15 seconds, *)
(* and ends when the browser is gone or the server stops; the browser      *)
(* fetches the dashboard again, and shows an answer only if it has not     *)
(* asked anew since.                                                       *)
(*                                                                         *)
(* events.py, sse.py, src/src/app.jsx.  Notices carry no content here, and *)
(* what a fetch is answered is the response cache's.                       *)
(***************************************************************************)
EXTENDS Integers, Sequences, FiniteSets

CONSTANTS
  Browsers,
  Streams,       \* responses of /api/events
  NoStream,
  QueueSize,     \* asyncio.Queue(maxsize=...)
  MaxNotices,    \* bound: notices
  MaxEvents      \* bound: broken connections, the user's choices, server stops

ASSUME BroadcastAssumption ==
  /\ NoStream \notin Streams /\ QueueSize \in Nat \ {0}
  /\ MaxNotices \in Nat /\ MaxEvents \in Nat

VARIABLES
  \* the server
  phase,         \* up, stopping (_shutdown_event is set) or down (clear_loop)
  callbacks,     \* what call_soon_threadsafe was given and the loop has not run
  stage,         \* stage[s]: where stream s is in event_stream_body
  hand,          \* hand[s]: it has a message to send, not a ping
  queue,         \* queue[s]: messages in its queue
  \* the network
  link,          \* link[s]: the connection of s is whole
  wire,          \* wire[s]: notices on their way to the browser
  \* the browser
  conn,          \* conn[b]: the stream its EventSource reads
  dirty,         \* dirty[b]: an effect must run again
  run,           \* run[b]: its last request, the one isCurrent() holds for
  flight,        \* flight[b]: its requests not answered yet
  landed,        \* landed[b]: the request whose answer it shows
  \* history
  notices,       \* notices published
  due,           \* due[s]: the last one s was a target of, while connected
  asked,         \* asked[b]: notices published when its last request began
  eventsLeft     \* of MaxEvents

server == <<phase, callbacks>>
body == <<stage, hand, queue>>
network == <<link, wire>>
page == <<dirty, run, flight, landed, asked>>
vars == <<server, body, network, conn, page, notices, due, eventsLeft>>

Subscribed == {s \in Streams : stage[s] # "none"}
Call == [stop: BOOLEAN, targets: SUBSET Streams]

Init ==
  /\ phase = "up" /\ callbacks = <<>>
  /\ stage = [s \in Streams |-> "none"] /\ hand = [s \in Streams |-> FALSE]
  /\ queue = [s \in Streams |-> 0]
  /\ link = [s \in Streams |-> FALSE] /\ wire = [s \in Streams |-> 0]
  /\ conn = [b \in Browsers |-> NoStream]
  /\ dirty = [b \in Browsers |-> FALSE] /\ run = [b \in Browsers |-> 0]
  /\ flight = [b \in Browsers |-> {}] /\ landed = [b \in Browsers |-> 0]
  /\ notices = 0 /\ due = [s \in Streams |-> 0] /\ asked = [b \in Browsers |-> 0]
  /\ eventsLeft = MaxEvents
-----------------------------------------------------------------------------
\* Publishing.

\* broadcast_threadsafe: the targets are those subscribed now.
BroadcastThreadsafe ==
  /\ phase # "down" /\ notices < MaxNotices /\ notices' = notices + 1
  /\ callbacks' = Append(callbacks, [stop |-> FALSE, targets |-> Subscribed])
  /\ due' = [s \in Streams |-> IF s \in Subscribed /\ link[s] THEN notices + 1
                             ELSE due[s]]
  /\ UNCHANGED <<phase, body, network, conn, page, eventsLeft>>

\* signal_shutdown, from the signal handler or the teardown.
SignalShutdown ==
  /\ phase = "up" /\ eventsLeft > 0 /\ eventsLeft' = eventsLeft - 1
  /\ callbacks' = Append(callbacks, [stop |-> TRUE, targets |-> {}])
  /\ UNCHANGED <<phase, body, network, conn, page, notices, due>>

\* Mutant: put_nowait without a maxsize.
PutUnbounded(ts) == [s \in Streams |-> IF s \in ts THEN queue[s] + 1 ELSE queue[s]]
\* _put_all: a full queue keeps what it has.
PutAll(ts) ==
  [s \in Streams |-> IF s \in ts \intersect Subscribed /\ queue[s] < QueueSize
                     THEN queue[s] + 1 ELSE queue[s]]

\* The loop runs the next callback.
RunCallback ==
  /\ callbacks # <<>> /\ callbacks' = Tail(callbacks)
  /\ IF Head(callbacks).stop
     THEN phase' = "stopping" /\ UNCHANGED queue
     ELSE queue' = PutAll(Head(callbacks).targets) /\ UNCHANGED phase
  /\ UNCHANGED <<stage, hand, network, conn, page, notices, due, eventsLeft>>

\* The lifespan ends once all requests have, and another process starts.
ClearLoop ==
  /\ phase = "stopping" /\ Subscribed = {} /\ phase' = "down" /\ callbacks' = <<>>
  /\ UNCHANGED <<body, network, conn, page, notices, due, eventsLeft>>

SetLoop ==
  /\ phase = "down" /\ phase' = "up"
  /\ UNCHANGED <<callbacks, body, network, conn, page, notices, due, eventsLeft>>
-----------------------------------------------------------------------------
\* event_stream_body.

Goto(s, where) == stage' = [stage EXCEPT ![s] = where]

\* The generator ends and unsubscribes.
Leave(s) == Goto(s, "none") /\ hand' = [hand EXCEPT ![s] = FALSE]
            /\ queue' = [queue EXCEPT ![s] = 0]

\* Streams that are over, and to which nothing refers any more.
Free ==
  {s \in Streams : /\ stage[s] = "none" /\ \A b \in Browsers : conn[b] # s
                   /\ \A i \in DOMAIN callbacks : s \notin callbacks[i].targets}

\* The EventSource connects, at first and after a broken connection; the body
\* begins with a comment line.
Connect(b) ==
  LET s == CHOOSE s \in Free : TRUE
  IN  /\ run[b] > 0 /\ conn[b] = NoStream /\ phase # "down" /\ Free # {}
      /\ conn' = [conn EXCEPT ![b] = s] /\ link' = [link EXCEPT ![s] = TRUE]
      /\ Goto(s, "send")
      /\ UNCHANGED <<server, hand, queue, wire, page, notices, due, eventsLeft>>

\* Top of the loop: is the browser there, and the server not stopping?
Top(s) ==
  /\ stage[s] = "top"
  /\ IF link[s] /\ phase = "up" THEN Goto(s, "wait") /\ UNCHANGED <<hand, queue>>
     ELSE Leave(s)
  /\ UNCHANGED <<server, network, conn, page, notices, due, eventsLeft>>

\* A message arrived; the server may be stopping as well.
TakeMessage(s) ==
  /\ stage[s] = "wait" /\ queue[s] > 0
  /\ IF phase = "up" THEN /\ Goto(s, "send") /\ hand' = [hand EXCEPT ![s] = TRUE]
                          /\ queue' = [queue EXCEPT ![s] = queue[s] - 1]
     ELSE Leave(s)
  /\ UNCHANGED <<server, network, conn, page, notices, due, eventsLeft>>

Woken(s) ==
  /\ stage[s] = "wait" /\ phase # "up" /\ Leave(s)
  /\ UNCHANGED <<server, network, conn, page, notices, due, eventsLeft>>

\* Mutant: a message that comes with the timeout is taken and not sent.
TimeoutTaking(s) ==
  /\ stage[s] = "wait" /\ Goto(s, "send")
  /\ queue' = [queue EXCEPT ![s] = IF queue[s] > 0 THEN queue[s] - 1 ELSE 0]
  /\ UNCHANGED <<server, hand, network, conn, page, notices, due, eventsLeft>>

\* Mutant: asyncio.wait without a timeout.
TimeoutNever(s) == stage[s] = "wait" /\ phase = "none" /\ UNCHANGED vars

\* 15 seconds: a ping.  The cancelled get() leaves the queue as it is, also
\* when a message comes at the same moment.
Timeout(s) ==
  /\ stage[s] = "wait" /\ Goto(s, "send")
  /\ UNCHANGED <<server, hand, queue, network, conn, page, notices, due,
                 eventsLeft>>

\* What was yielded goes out, or into a broken connection.
Send(s) ==
  /\ stage[s] = "send" /\ Goto(s, "top") /\ hand' = [hand EXCEPT ![s] = FALSE]
  /\ wire' = IF hand[s] /\ link[s] THEN [wire EXCEPT ![s] = wire[s] + 1] ELSE wire
  /\ UNCHANGED <<server, queue, link, conn, page, notices, due, eventsLeft>>

\* The framework cancels the body: the browser is gone, or the graceful
\* window of a stop is over.
Cancel(s) ==
  /\ stage[s] # "none" /\ (~link[s] \/ phase # "up") /\ Leave(s)
  /\ UNCHANGED <<server, network, conn, page, notices, due, eventsLeft>>
-----------------------------------------------------------------------------
\* The browser.

\* A new request, after the effect's cleanup has aborted the one before.
Request(b) ==
  /\ run' = [run EXCEPT ![b] = run[b] + 1]
  /\ flight' = [flight EXCEPT ![b] = flight[b] \union {run[b] + 1}]
  /\ dirty' = [dirty EXCEPT ![b] = FALSE]
  /\ asked' = [asked EXCEPT ![b] = notices]

\* The page opens.
Load(b) ==
  /\ run[b] = 0 /\ Request(b)
  /\ UNCHANGED <<server, body, network, conn, landed, notices, due, eventsLeft>>

\* Mutant: an event that comes while a request is in flight is ignored.
OnIngestIdle(b) ==
  LET s == conn[b]
  IN  /\ s # NoStream /\ wire[s] > 0 /\ wire' = [wire EXCEPT ![s] = wire[s] - 1]
      /\ dirty' = [dirty EXCEPT ![b] = dirty[b] \/ flight[b] = {}]
      /\ UNCHANGED <<server, body, link, conn, run, flight, landed, asked,
                     notices, due, eventsLeft>>

\* onIngest bumps dashNonce.
OnIngest(b) ==
  LET s == conn[b]
  IN  /\ s # NoStream /\ wire[s] > 0 /\ wire' = [wire EXCEPT ![s] = wire[s] - 1]
      /\ dirty' = [dirty EXCEPT ![b] = TRUE]
      /\ UNCHANGED <<server, body, link, conn, run, flight, landed, asked,
                     notices, due, eventsLeft>>

\* The user picks a range or a project.
Choose(b) ==
  /\ run[b] > 0 /\ eventsLeft > 0 /\ eventsLeft' = eventsLeft - 1
  /\ dirty' = [dirty EXCEPT ![b] = TRUE]
  /\ UNCHANGED <<server, body, network, conn, run, flight, landed, asked,
                 notices, due>>

\* The render after it runs the effect, once for all changes batched in it.
Effect(b) ==
  /\ dirty[b] /\ Request(b)
  /\ UNCHANGED <<server, body, network, conn, landed, notices, due, eventsLeft>>

\* Mutant: any answer is shown.
LandAny(b, r) ==
  /\ r \in flight[b] /\ flight' = [flight EXCEPT ![b] = flight[b] \ {r}]
  /\ landed' = [landed EXCEPT ![b] = r]
  /\ UNCHANGED <<server, body, network, conn, dirty, run, asked, notices, due,
                 eventsLeft>>

\* An answer; it is shown unless its run was superseded.
Land(b, r) ==
  /\ r \in flight[b] /\ flight' = [flight EXCEPT ![b] = flight[b] \ {r}]
  /\ landed' = IF r = run[b] THEN [landed EXCEPT ![b] = r] ELSE landed
  /\ UNCHANGED <<server, body, network, conn, dirty, run, asked, notices, due,
                 eventsLeft>>

\* It failed or was aborted: an error next to the old numbers, or nothing.
FetchFail(b, r) ==
  /\ r \in flight[b] /\ flight' = [flight EXCEPT ![b] = flight[b] \ {r}]
  /\ UNCHANGED <<server, body, network, conn, dirty, run, landed, asked,
                 notices, due, eventsLeft>>

\* The connection breaks, or the browser has read all of a stream that ended.
Disconnect(b) ==
  LET s == conn[b]
  IN  /\ s # NoStream /\ conn' = [conn EXCEPT ![b] = NoStream]
      /\ link' = [link EXCEPT ![s] = FALSE] /\ wire' = [wire EXCEPT ![s] = 0]
      /\ due' = [due EXCEPT ![s] = 0]
      /\ \/ stage[s] = "none" /\ wire[s] = 0 /\ UNCHANGED eventsLeft
         \/ eventsLeft > 0 /\ eventsLeft' = eventsLeft - 1
      /\ UNCHANGED <<server, body, page, notices>>
-----------------------------------------------------------------------------
StreamStep(s) == Top(s) \/ TakeMessage(s) \/ Woken(s) \/ Timeout(s) \/ Send(s)

Next ==
  \/ BroadcastThreadsafe \/ SignalShutdown \/ RunCallback \/ ClearLoop \/ SetLoop
  \/ \E s \in Streams : StreamStep(s) \/ Cancel(s)
  \/ \E b \in Browsers :
       \/ Load(b) \/ Connect(b) \/ OnIngest(b) \/ Choose(b) \/ Effect(b)
       \/ Disconnect(b)
       \/ \E r \in flight[b] : Land(b, r) \/ FetchFail(b, r)

Spec == Init /\ [][Next]_vars

\* The event loop runs what it is given, and a get() on a queue that holds
\* something ends at once; a browser reads its stream or its connection dies;
\* events are handled and effects run.
FairSpec ==
  /\ Spec /\ WF_vars(RunCallback)
  /\ \A s \in Streams : WF_vars(StreamStep(s)) /\ SF_vars(TakeMessage(s))
  /\ \A b \in Browsers : WF_vars(OnIngest(b)) /\ WF_vars(Effect(b))
-----------------------------------------------------------------------------
\* Properties.

\* A whole connection is one browser's; nothing travels on a broken one; and
\* without a server there are no streams.
Links ==
  /\ \A s \in Streams :
       /\ link[s] <=> \E b \in Browsers : conn[b] = s
       /\ ~link[s] => wire[s] = 0 /\ due[s] = 0
       /\ due[s] <= notices
       /\ phase = "down" => stage[s] = "none"
  /\ \A b, c \in Browsers : conn[b] = conn[c] => b = c \/ conn[b] = NoStream

\* Every variable has its type, no queue outgrows its size, a stream without a
\* subscription holds nothing, and connections are as Links says.
TypeOK ==
  /\ phase \in {"up", "stopping", "down"} /\ callbacks \in Seq(Call)
  /\ stage \in [Streams -> {"none", "top", "wait", "send"}]
  /\ hand \in [Streams -> BOOLEAN] /\ queue \in [Streams -> 0..QueueSize]
  /\ link \in [Streams -> BOOLEAN] /\ wire \in [Streams -> Nat]
  /\ conn \in [Browsers -> Streams \union {NoStream}]
  /\ dirty \in [Browsers -> BOOLEAN] /\ run \in [Browsers -> Nat]
  /\ flight \in [Browsers -> SUBSET Nat] /\ landed \in [Browsers -> Nat]
  /\ notices \in Nat /\ due \in [Streams -> Nat] /\ asked \in [Browsers -> Nat]
  /\ eventsLeft \in Nat
  /\ \A b \in Browsers : \A r \in flight[b] \union {landed[b]} : r <= run[b]
  /\ \A s \in Streams : hand[s] => stage[s] = "send"
  /\ \A s \in Streams : stage[s] = "none" => queue[s] = 0
  /\ Links

\* Something that will make browser b fetch again is under way on stream s.
Pending(b, s) ==
  \/ \E i \in DOMAIN callbacks : s \in callbacks[i].targets
  \/ queue[s] > 0 \/ hand[s] \/ wire[s] > 0 \/ dirty[b]

\* A notice that finds a full queue is dropped, and events are batched, but
\* never so that a connected browser misses it: until it has asked again, later
\* than the notice, something that makes it ask is under way (_put_all,
\* event_stream_body, onIngest).
NoticeNotLost ==
  \A b \in Browsers : \A s \in Streams :
    conn[b] = s /\ stage[s] # "none" /\ phase = "up" /\ due[s] > asked[b] =>
      Pending(b, s)

\* What is on the screen never gives way to the answer of an earlier request
\* (app.jsx:3-4 "a stale response cannot overwrite a fresher one").
ScreenForward == [][\A b \in Browsers : landed'[b] >= landed[b]]_vars

\* Whoever is connected fetches again after every notice, also one that a full
\* queue dropped, unless the connection breaks or the server stops first
\* (broadcast_threadsafe, event_stream_body, the EventSource effect).
RefetchFollows ==
  \A b \in Browsers, s \in Streams, n \in 1..MaxNotices :
    (conn[b] = s /\ due[s] = n) ~>
      (asked[b] >= n \/ conn[b] # s \/ stage[s] = "none" \/ phase # "up")

\* A stream ends, and its queue with it, when the server stops ("otherwise
\* uvicorn's graceful-shutdown waits forever") and when its browser is gone,
\* even if nobody tells it.
StreamsEnd ==
  \A s \in Streams :
    stage[s] # "none" /\ (phase = "stopping" \/ ~link[s]) ~> stage[s] = "none"
=============================================================================
