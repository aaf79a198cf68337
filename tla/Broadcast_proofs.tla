-------------------------- MODULE Broadcast_proofs --------------------------
(***************************************************************************)
(* For any number of browsers and streams and any queue size: Broadcast is *)
(* well typed, a connected browser misses no notice, and the screen never  *)
(* goes back to the answer of an earlier request.                          *)
(***************************************************************************)
EXTENDS Broadcast, SequenceTheorems, TLAPS

\* The tuples the frame conditions name.
USE DEF server, body, network, page
-----------------------------------------------------------------------------
\* Helpers.

LEMMA FreeStream ==
  ASSUME Free # {}
  PROVE  (CHOOSE s \in Free : TRUE) \in Free
OBVIOUS

LEMMA TailTargets ==
  ASSUME callbacks \in Seq(Call), callbacks # <<>>
  PROVE  /\ Head(callbacks) \in Call /\ Tail(callbacks) \in Seq(Call)
         /\ \A s : (\E i \in DOMAIN callbacks : s \in callbacks[i].targets) =>
              \/ s \in Head(callbacks).targets
              \/ \E i \in DOMAIN Tail(callbacks) : s \in Tail(callbacks)[i].targets
<1>1. Len(callbacks) \in Nat /\ Len(callbacks) # 0 /\ DOMAIN callbacks = 1..Len(callbacks)
  OBVIOUS
<1>2. Head(callbacks) = callbacks[1] /\ Head(callbacks) \in Call
  BY <1>1
<1>3. /\ Tail(callbacks) \in Seq(Call)
      /\ DOMAIN Tail(callbacks) = 1..(Len(callbacks) - 1)
      /\ \A i \in 1..(Len(callbacks) - 1) : Tail(callbacks)[i] = callbacks[i + 1]
  BY <1>1
<1>4. ASSUME NEW s, NEW i \in DOMAIN callbacks, s \in callbacks[i].targets,
             s \notin Head(callbacks).targets
      PROVE  \E j \in DOMAIN Tail(callbacks) : s \in Tail(callbacks)[j].targets
  <2>1. i # 1 /\ i - 1 \in 1..(Len(callbacks) - 1) /\ (i - 1) + 1 = i
    BY <1>1, <1>2, <1>4
  <2>2. Tail(callbacks)[i - 1] = callbacks[i]
    BY <1>3, <2>1
  <2> QED BY <1>3, <1>4, <2>1, <2>2
<1> QED BY <1>2, <1>3, <1>4

LEMMA AppendTargets ==
  ASSUME callbacks \in Seq(Call), NEW c \in Call
  PROVE  /\ Append(callbacks, c) \in Seq(Call)
         /\ \A s : (\E i \in DOMAIN callbacks : s \in callbacks[i].targets)
                      \/ s \in c.targets =>
              \E i \in DOMAIN Append(callbacks, c) :
                s \in Append(callbacks, c)[i].targets
<1> DEFINE longer == Append(callbacks, c)
<1>1. /\ longer \in Seq(Call) /\ DOMAIN callbacks = 1..Len(callbacks)
      /\ DOMAIN longer = 1..(Len(callbacks) + 1) /\ Len(callbacks) \in Nat
      /\ \A i \in 1..Len(callbacks) : longer[i] = callbacks[i]
      /\ longer[Len(callbacks) + 1] = c
  OBVIOUS
<1> HIDE DEF longer
<1>2. \A s : (\E i \in DOMAIN callbacks : s \in callbacks[i].targets)
                \/ s \in c.targets => \E i \in DOMAIN longer : s \in longer[i].targets
  BY <1>1
<1> QED BY <1>1, <1>2 DEF longer
LEMMA PutTyped ==
  ASSUME TypeOK, NEW ts PROVE PutAll(ts) \in [Streams -> 0..QueueSize]
<1> SUFFICES ASSUME NEW s \in Streams
             PROVE  (IF s \in ts \intersect Subscribed /\ queue[s] < QueueSize
                     THEN queue[s] + 1 ELSE queue[s]) \in 0..QueueSize
  BY DEF PutAll
<1>1. QueueSize \in Nat /\ queue[s] \in 0..QueueSize
  BY BroadcastAssumption DEF BroadcastAssumption, TypeOK
<1> QED BY <1>1

LEMMA LeaveFields ==
  ASSUME TypeOK, NEW s \in Streams, Leave(s)
  PROVE  /\ stage' \in [Streams -> {"none", "top", "wait", "send"}]
         /\ hand' \in [Streams -> BOOLEAN] /\ queue' \in [Streams -> 0..QueueSize]
         /\ \A t \in Streams : hand'[t] => stage'[t] = "send"
         /\ \A t \in Streams : stage'[t] = "none" => queue'[t] = 0
<1>1. 0 \in 0..QueueSize
  BY BroadcastAssumption DEF BroadcastAssumption
<1>2. queue' \in [Streams -> 0..QueueSize]
  BY <1>1 DEF Leave, TypeOK
<1> QED BY <1>2 DEF Leave, Goto, TypeOK
-----------------------------------------------------------------------------
\* Type correctness.

LEMMA InitTyped == Init => TypeOK
BY BroadcastAssumption DEF BroadcastAssumption, Init, TypeOK, Links

LEMMA PublishTyped ==
  ASSUME TypeOK, BroadcastThreadsafe \/ SignalShutdown PROVE TypeOK'
<1>1. CASE BroadcastThreadsafe
  <2>1. [stop |-> FALSE, targets |-> Subscribed] \in Call
    BY DEF Call, Subscribed
  <2>2. callbacks' \in Seq(Call)
    BY <1>1, <2>1, AppendTargets DEF TypeOK, BroadcastThreadsafe
  <2>3. due' \in [Streams -> Nat] /\ notices' \in Nat
    BY <1>1 DEF TypeOK, BroadcastThreadsafe
  <2>4. Links'
    BY <1>1 DEF TypeOK, Links, BroadcastThreadsafe, Subscribed
  <2> QED BY <1>1, <2>2, <2>3, <2>4 DEF TypeOK, BroadcastThreadsafe
<1>2. CASE SignalShutdown
  <2>1. [stop |-> TRUE, targets |-> {}] \in Call
    BY DEF Call
  <2>2. callbacks' \in Seq(Call)
    BY <1>2, <2>1, AppendTargets DEF TypeOK, SignalShutdown
  <2>3. Links'
    BY <1>2 DEF TypeOK, Links, SignalShutdown
  <2> QED BY <1>2, <2>2, <2>3 DEF TypeOK, SignalShutdown
<1> QED BY <1>1, <1>2

LEMMA LoopTyped ==
  ASSUME TypeOK, RunCallback \/ ClearLoop \/ SetLoop PROVE TypeOK'
<1>1. CASE RunCallback
  <2>1. callbacks' \in Seq(Call)
    BY <1>1, TailTargets DEF TypeOK, RunCallback
  <2>2. queue' \in [Streams -> 0..QueueSize]
    BY <1>1, PutTyped DEF RunCallback, TypeOK
  <2>3. \A s \in Streams : stage'[s] = "none" => queue'[s] = 0
    BY <1>1 DEF TypeOK, RunCallback, PutAll, Subscribed
  <2>4. Links'
    BY <1>1 DEF TypeOK, Links, RunCallback
  <2> QED BY <1>1, <2>1, <2>2, <2>3, <2>4 DEF TypeOK, RunCallback
<1>2. CASE ClearLoop
  <2>1. Links'
    BY <1>2 DEF TypeOK, Links, ClearLoop, Subscribed
  <2> QED BY <1>2, <2>1 DEF TypeOK, ClearLoop
<1>3. CASE SetLoop
  <2>1. Links'
    BY <1>3 DEF TypeOK, Links, SetLoop
  <2> QED BY <1>3, <2>1 DEF TypeOK, SetLoop
<1> QED BY <1>1, <1>2, <1>3

LEMMA BodyTyped ==
  ASSUME TypeOK, NEW s \in Streams, StreamStep(s) \/ Cancel(s) PROVE TypeOK'
<1>1. CASE Top(s)
  <2>1. Links'
    BY <1>1 DEF TypeOK, Links, Top, Goto, Leave
  <2>2. CASE Leave(s)
    BY <1>1, <2>1, <2>2, LeaveFields DEF TypeOK, Top
  <2>3. CASE ~Leave(s)
    BY <1>1, <2>1, <2>3 DEF TypeOK, Top, Goto
  <2> QED BY <2>2, <2>3
<1>2. CASE TakeMessage(s)
  <2>1. Links'
    BY <1>2 DEF TypeOK, Links, TakeMessage, Goto, Leave
  <2>2. CASE Leave(s)
    BY <1>2, <2>1, <2>2, LeaveFields DEF TypeOK, TakeMessage
  <2>3. CASE ~Leave(s)
    <3>1. queue[s] - 1 \in 0..QueueSize
      BY <1>2, BroadcastAssumption DEF BroadcastAssumption, TakeMessage, TypeOK
    <3>2. queue' \in [Streams -> 0..QueueSize]
      BY <1>2, <2>3, <3>1 DEF TypeOK, TakeMessage
    <3> QED BY <1>2, <2>1, <2>3, <3>2 DEF TypeOK, TakeMessage, Goto
  <2> QED BY <2>2, <2>3
<1>3. CASE Woken(s) \/ Cancel(s)
  <2>1. Links'
    BY <1>3 DEF TypeOK, Links, Woken, Cancel, Goto, Leave
  <2> QED BY <1>3, <2>1, LeaveFields DEF TypeOK, Woken, Cancel
<1>4. CASE Timeout(s)
  <2>1. Links'
    BY <1>4 DEF TypeOK, Links, Timeout, Goto
  <2> QED BY <1>4, <2>1 DEF TypeOK, Timeout, Goto
<1>5. CASE Send(s)
  <2>1. Links'
    BY <1>5 DEF TypeOK, Links, Send, Goto
  <2> QED BY <1>5, <2>1 DEF TypeOK, Send, Goto
<1> QED BY <1>1, <1>2, <1>3, <1>4, <1>5 DEF StreamStep
-----------------------------------------------------------------------------
LEMMA ConnectionTyped ==
  ASSUME TypeOK, NEW b \in Browsers, Connect(b) \/ Disconnect(b) PROVE TypeOK'
<1>1. CASE Connect(b)
  <2> DEFINE s == CHOOSE s \in Free : TRUE
  <2>1. s \in Free
    BY <1>1, FreeStream DEF Connect
  <2> HIDE DEF s
  <2>2. s \in Streams /\ stage[s] = "none" /\ \A c \in Browsers : conn[c] # s
    BY <2>1 DEF Free
  <2>3. /\ conn[b] = NoStream /\ phase # "down"
        /\ conn' = [conn EXCEPT ![b] = s] /\ link' = [link EXCEPT ![s] = TRUE]
        /\ stage' = [stage EXCEPT ![s] = "send"]
        /\ UNCHANGED <<server, hand, queue, wire, page, notices, due, eventsLeft>>
    BY <1>1 DEF Connect, Goto, s
  <2>4. Links'
    <3>1. \A c, d \in Browsers : conn'[c] = conn'[d] => c = d \/ conn'[c] = NoStream
      BY <2>2, <2>3 DEF TypeOK, Links
    <3>2. \A t \in Streams : link'[t] <=> \E c \in Browsers : conn'[c] = t
      BY <2>2, <2>3, BroadcastAssumption DEF BroadcastAssumption, TypeOK, Links
    <3> QED BY <2>2, <2>3, <3>1, <3>2 DEF TypeOK, Links
  <2> QED BY <2>2, <2>3, <2>4 DEF TypeOK
<1>2. CASE Disconnect(b)
  <2>1. conn[b] \in Streams
    BY <1>2 DEF Disconnect, TypeOK
  <2>2. /\ conn' = [conn EXCEPT ![b] = NoStream]
        /\ link' = [link EXCEPT ![conn[b]] = FALSE]
        /\ wire' = [wire EXCEPT ![conn[b]] = 0]
        /\ due' = [due EXCEPT ![conn[b]] = 0]
        /\ eventsLeft' \in Nat
        /\ UNCHANGED <<server, body, page, notices>>
    BY <1>2 DEF Disconnect, TypeOK
  <2>3. Links'
    <3>1. \A c, d \in Browsers : conn'[c] = conn'[d] => c = d \/ conn'[c] = NoStream
      BY <2>1, <2>2 DEF TypeOK, Links
    <3>2. \A t \in Streams : link'[t] <=> \E c \in Browsers : conn'[c] = t
      BY <2>1, <2>2, BroadcastAssumption DEF BroadcastAssumption, TypeOK, Links
    <3> QED BY <2>1, <2>2, <3>1, <3>2 DEF TypeOK, Links
  <2> QED BY <2>1, <2>2, <2>3 DEF TypeOK
<1> QED BY <1>1, <1>2

LEMMA PageTyped ==
  ASSUME TypeOK, NEW b \in Browsers,
         \/ Load(b) \/ OnIngest(b) \/ Choose(b) \/ Effect(b)
         \/ \E r \in flight[b] : Land(b, r) \/ FetchFail(b, r)
  PROVE  TypeOK'
<1>1. CASE Load(b) \/ Effect(b)
  <2>1. Links'
    BY <1>1 DEF TypeOK, Links, Load, Effect, Request
  <2>2. /\ run' \in [Browsers -> Nat] /\ flight' \in [Browsers -> SUBSET Nat]
        /\ dirty' \in [Browsers -> BOOLEAN] /\ asked' \in [Browsers -> Nat]
        /\ landed' = landed
    <3>1. run[b] \in Nat /\ run[b] + 1 \in Nat /\ flight[b] \subseteq Nat
      BY DEF TypeOK
    <3>2. run' = [run EXCEPT ![b] = run[b] + 1] /\ landed' = landed
      BY <1>1 DEF Load, Effect, Request
    <3>3. flight' = [flight EXCEPT ![b] = flight[b] \union {run[b] + 1}]
      BY <1>1 DEF Load, Effect, Request
    <3>4. run' \in [Browsers -> Nat]
      BY <3>1, <3>2 DEF TypeOK
    <3>5. flight' \in [Browsers -> SUBSET Nat]
      BY <3>1, <3>3 DEF TypeOK
    <3>6. /\ dirty' = [dirty EXCEPT ![b] = FALSE]
          /\ asked' = [asked EXCEPT ![b] = notices]
          /\ dirty \in [Browsers -> BOOLEAN] /\ asked \in [Browsers -> Nat]
          /\ notices \in Nat
      BY <1>1 DEF TypeOK, Load, Effect, Request
    <3>7. dirty' \in [Browsers -> BOOLEAN] /\ asked' \in [Browsers -> Nat]
      BY <3>6
    <3> QED BY <3>2, <3>4, <3>5, <3>7
  <2>3. \A c \in Browsers : \A r \in flight'[c] \union {landed'[c]} : r <= run'[c]
    <3> SUFFICES ASSUME NEW c \in Browsers, NEW r \in flight'[c] \union {landed'[c]}
                 PROVE  r <= run'[c]
      OBVIOUS
    <3>1. /\ run[c] \in Nat /\ landed[c] \in Nat /\ flight[c] \subseteq Nat
          /\ \A q \in flight[c] \union {landed[c]} : q <= run[c]
      BY DEF TypeOK
    <3>2. \/ flight'[c] = flight[c] /\ run'[c] = run[c]
          \/ flight'[c] = flight[c] \union {run[c] + 1} /\ run'[c] = run[c] + 1
      <4>1. /\ run' = [run EXCEPT ![b] = run[b] + 1]
            /\ flight' = [flight EXCEPT ![b] = flight[b] \union {run[b] + 1}]
        BY <1>1 DEF Load, Effect, Request
      <4>2. run \in [Browsers -> Nat] /\ flight \in [Browsers -> SUBSET Nat]
        BY DEF TypeOK
      <4>3. CASE c = b
        BY <4>1, <4>2, <4>3
      <4>4. CASE c # b
        BY <4>1, <4>2, <4>4
      <4> QED BY <4>3, <4>4
    <3>3. landed'[c] = landed[c]
      BY <2>2
    <3>4. CASE r <= run[c]
      <4>1. run'[c] \in Nat /\ run[c] <= run'[c]
        BY <3>1, <3>2
      <4>2. r \in Nat
        BY <2>2, <3>1, <3>3
      <4> QED BY <3>1, <3>4, <4>1, <4>2
    <3>5. CASE r = run[c] + 1 /\ run'[c] = run[c] + 1
      BY <3>1, <3>5
    <3> QED BY <3>1, <3>2, <3>3, <3>4, <3>5
  <2>4. UNCHANGED <<server, body, network, conn, notices, due, eventsLeft>>
    BY <1>1 DEF Load, Effect
  <2>5. landed' \in [Browsers -> Nat]
    BY <2>2 DEF TypeOK
  <2> QED BY <2>1, <2>2, <2>3, <2>4, <2>5 DEF TypeOK
<1>2. CASE OnIngest(b)
  <2>1. conn[b] \in Streams /\ wire[conn[b]] - 1 \in Nat
    BY <1>2 DEF TypeOK, OnIngest
  <2>2. Links'
    BY <1>2, <2>1 DEF TypeOK, Links, OnIngest
  <2> QED BY <1>2, <2>1, <2>2 DEF TypeOK, OnIngest
<1>3. CASE Choose(b)
  <2>1. Links'
    BY <1>3 DEF TypeOK, Links, Choose
  <2> QED BY <1>3, <2>1 DEF TypeOK, Choose
<1>4. ASSUME NEW r \in flight[b], Land(b, r) \/ FetchFail(b, r) PROVE TypeOK'
  <2>1. Links'
    BY <1>4 DEF TypeOK, Links, Land, FetchFail
  <2>2. flight' = [flight EXCEPT ![b] = flight[b] \ {r}]
    BY <1>4 DEF Land, FetchFail
  <2>3. landed' \in [Browsers -> Nat] /\ \A c \in Browsers : landed'[c] <= run[c]
    BY <1>4 DEF TypeOK, Land, FetchFail
  <2>4. flight' \in [Browsers -> SUBSET Nat]
    BY <2>2 DEF TypeOK
  <2>5. run' = run /\ \A c \in Browsers : flight'[c] \subseteq flight[c]
    BY <1>4, <2>2 DEF TypeOK, Land, FetchFail
  <2>6. \A c \in Browsers : \A q \in flight'[c] \union {landed'[c]} : q <= run'[c]
    BY <2>3, <2>5 DEF TypeOK
  <2> QED BY <1>4, <2>1, <2>3, <2>4, <2>6 DEF TypeOK, Land, FetchFail
<1> QED BY <1>1, <1>2, <1>3, <1>4

LEMMA StepTyped == TypeOK /\ [Next]_vars => TypeOK'
<1> SUFFICES ASSUME TypeOK, [Next]_vars PROVE TypeOK'
  OBVIOUS
<1>1. CASE UNCHANGED vars
  BY <1>1 DEF vars, TypeOK, Links
<1> QED
  BY <1>1, PublishTyped, LoopTyped, BodyTyped, ConnectionTyped, PageTyped DEF Next
-----------------------------------------------------------------------------
\* No notice is lost on a connected browser.

\* A step that starts no new stream and forgets nothing on the way of a notice.
LEMMA StillPending ==
  ASSUME NoticeNotLost, conn' = conn, due' = due, asked' = asked,
         \A s \in Streams : stage'[s] # "none" => stage[s] # "none",
         phase' = "up" => phase = "up",
         phase' = "up" => \A b \in Browsers, s \in Streams :
           conn[b] = s /\ stage'[s] # "none" /\ Pending(b, s) => Pending(b, s)'
  PROVE  NoticeNotLost'
BY DEF NoticeNotLost

LEMMA LoopKeeps ==
  ASSUME TypeOK, NoticeNotLost,
         BroadcastThreadsafe \/ SignalShutdown \/ RunCallback \/ ClearLoop \/ SetLoop
  PROVE  NoticeNotLost'
<1>1. CASE BroadcastThreadsafe
  <2>1. [stop |-> FALSE, targets |-> Subscribed] \in Call
    BY DEF Call, Subscribed
  <2>2. \A s : (\E i \in DOMAIN callbacks : s \in callbacks[i].targets)
                  \/ s \in Subscribed =>
               \E i \in DOMAIN callbacks' : s \in callbacks'[i].targets
    BY <1>1, <2>1, AppendTargets DEF BroadcastThreadsafe, TypeOK
  <2> SUFFICES ASSUME NEW b \in Browsers, NEW s \in Streams,
                      conn'[b] = s, stage'[s] # "none", phase' = "up",
                      due'[s] > asked'[b]
               PROVE  Pending(b, s)'
    BY DEF NoticeNotLost
  <2>3. s \in Subscribed
    BY <1>1 DEF BroadcastThreadsafe, Subscribed
  <2> QED BY <2>2, <2>3 DEF Pending
<1>2. CASE SignalShutdown
  <2>1. [stop |-> TRUE, targets |-> {}] \in Call
    BY DEF Call
  <2>2. \A s : (\E i \in DOMAIN callbacks : s \in callbacks[i].targets) =>
               \E i \in DOMAIN callbacks' : s \in callbacks'[i].targets
    BY <1>2, <2>1, AppendTargets DEF SignalShutdown, TypeOK
  <2>3. \A b \in Browsers, s \in Streams : Pending(b, s) => Pending(b, s)'
    BY <1>2, <2>2 DEF SignalShutdown, Pending
  <2> QED BY <1>2, <2>3, StillPending DEF SignalShutdown
<1>3. CASE RunCallback
  <2>1. \A b \in Browsers, s \in Streams :
          phase' = "up" /\ stage'[s] # "none" /\ Pending(b, s) => Pending(b, s)'
    <3> SUFFICES ASSUME NEW b \in Browsers, NEW s \in Streams, phase' = "up",
                        stage[s] # "none", Pending(b, s)
                 PROVE  Pending(b, s)'
      BY <1>3 DEF RunCallback
    <3>1. queue' = PutAll(Head(callbacks).targets) /\ queue[s] \in 0..QueueSize
      BY <1>3 DEF RunCallback, TypeOK
    <3>2. queue[s] > 0 => queue'[s] > 0
      BY <3>1, BroadcastAssumption DEF BroadcastAssumption, PutAll
    <3>3. s \in Head(callbacks).targets => queue'[s] > 0
      BY <3>1, BroadcastAssumption DEF BroadcastAssumption, PutAll, Subscribed
    <3>4. CASE \E i \in DOMAIN callbacks : s \in callbacks[i].targets
      BY <1>3, <3>3, <3>4, TailTargets DEF RunCallback, TypeOK, Pending
    <3> QED BY <1>3, <3>2, <3>4 DEF RunCallback, Pending
  <2>2. phase' = "up" => phase = "up"
    BY <1>3 DEF RunCallback
  <2> QED BY <1>3, <2>1, <2>2, StillPending DEF RunCallback
<1>4. CASE ClearLoop
  BY <1>4 DEF ClearLoop, NoticeNotLost
<1>5. CASE SetLoop
  BY <1>5 DEF SetLoop, NoticeNotLost, TypeOK, Links
<1> QED BY <1>1, <1>2, <1>3, <1>4, <1>5

LEMMA BodyKeeps ==
  ASSUME TypeOK, NoticeNotLost, NEW s \in Streams, StreamStep(s) \/ Cancel(s)
  PROVE  NoticeNotLost'
<1>1. /\ UNCHANGED <<server, conn, page, due>>
      /\ \A t \in Streams : stage'[t] # "none" => stage[t] # "none"
  BY DEF StreamStep, Top, TakeMessage, Woken, Timeout, Send, Cancel, Goto, Leave, TypeOK
<1> SUFFICES ASSUME phase = "up", NEW b \in Browsers, NEW t \in Streams,
                    conn[b] = t, stage'[t] # "none", Pending(b, t)
             PROVE  Pending(b, t)'
  BY <1>1, StillPending
<1>2. CASE t # s
  <2>1. queue'[t] = queue[t] /\ hand'[t] = hand[t] /\ wire'[t] = wire[t]
    BY <1>2 DEF StreamStep, Top, TakeMessage, Woken, Timeout, Send, Cancel, Goto,
                Leave, TypeOK
  <2> QED BY <1>1, <2>1 DEF Pending
<1>3. CASE t = s
  <2>1. ~Leave(s)
    BY <1>3 DEF Leave, Goto, TypeOK
  <2>2. CASE Top(s) \/ Timeout(s)
    BY <1>1, <1>3, <2>1, <2>2 DEF Top, Timeout, Pending
  <2>3. CASE TakeMessage(s)
    BY <1>3, <2>1, <2>3 DEF TakeMessage, Pending, TypeOK
  <2>4. CASE Send(s)
    <3>1. link[s] /\ wire[s] \in Nat
      BY <1>3 DEF TypeOK, Links
    <3>2. hand[s] => wire'[s] > 0
      BY <2>4, <3>1 DEF Send, TypeOK
    <3>3. wire[s] > 0 => wire'[s] > 0
      BY <2>4, <3>1 DEF Send, TypeOK
    <3> QED BY <1>1, <1>3, <2>4, <3>2, <3>3 DEF Send, Pending
  <2> QED BY <2>1, <2>2, <2>3, <2>4 DEF StreamStep, Woken, Cancel
<1> QED BY <1>2, <1>3

LEMMA BrowserKeeps ==
  ASSUME TypeOK, NoticeNotLost, NEW b \in Browsers,
         \/ Load(b) \/ Connect(b) \/ OnIngest(b) \/ Choose(b) \/ Effect(b)
         \/ Disconnect(b)
         \/ \E r \in flight[b] : Land(b, r) \/ FetchFail(b, r)
  PROVE  NoticeNotLost'
<1>1. CASE Load(b) \/ Effect(b)
  <2> SUFFICES ASSUME NEW c \in Browsers, NEW s \in Streams,
                      conn[c] = s, stage[s] # "none", phase = "up",
                      due[s] > asked'[c]
               PROVE  Pending(c, s)'
    BY <1>1 DEF Load, Effect, NoticeNotLost
  <2>1. c # b
    <3>1. asked'[b] = notices /\ due[s] <= notices /\ due[s] \in Nat /\ notices \in Nat
      BY <1>1 DEF Load, Effect, Request, TypeOK, Links
    <3> QED BY <3>1
  <2>2. asked'[c] = asked[c] /\ dirty'[c] = dirty[c]
    BY <1>1, <2>1 DEF Load, Effect, Request, TypeOK
  <2>3. Pending(c, s)
    BY <2>2 DEF NoticeNotLost
  <2> QED BY <1>1, <2>2, <2>3 DEF Load, Effect, Pending
<1>2. CASE Connect(b)
  <2> DEFINE f == CHOOSE s \in Free : TRUE
  <2>1. f \in Free
    BY <1>2, FreeStream DEF Connect
  <2> HIDE DEF f
  <2>2. /\ conn' = [conn EXCEPT ![b] = f] /\ stage' = [stage EXCEPT ![f] = "send"]
        /\ UNCHANGED <<server, hand, queue, wire, page, notices, due>>
    BY <1>2 DEF Connect, Goto, f
  <2>3. f \in Streams /\ \A c \in Browsers : conn[c] # f
    BY <2>1 DEF Free
  <2>4. due[f] = 0
    BY <2>3 DEF TypeOK, Links
  <2> SUFFICES ASSUME NEW c \in Browsers, NEW s \in Streams,
                      conn'[c] = s, stage'[s] # "none", phase = "up",
                      due[s] > asked[c]
               PROVE  Pending(c, s)'
    BY <2>2 DEF NoticeNotLost
  <2>5. s # f
    BY <2>4 DEF TypeOK
  <2>6. conn[c] = s /\ stage[s] # "none"
    BY <2>2, <2>3, <2>5 DEF TypeOK
  <2> QED BY <2>2, <2>6 DEF NoticeNotLost, Pending
<1>3. CASE OnIngest(b) \/ Choose(b)
  <2>1. \A c \in Browsers, s \in Streams :
          conn[c] = s /\ Pending(c, s) => Pending(c, s)'
    <3> SUFFICES ASSUME NEW c \in Browsers, NEW s \in Streams, conn[c] = s,
                        Pending(c, s)
                 PROVE  Pending(c, s)'
      OBVIOUS
    <3>1. CASE c = b
      BY <1>3, <3>1 DEF OnIngest, Choose, Pending, TypeOK
    <3>2. CASE c # b
      <4>1. wire'[s] = wire[s] /\ dirty'[c] = dirty[c]
        BY <1>3, <3>2 DEF OnIngest, Choose, TypeOK, Links
      <4> QED BY <1>3, <4>1 DEF OnIngest, Choose, Pending
    <3> QED BY <3>1, <3>2
  <2> QED BY <1>3, <2>1, StillPending DEF OnIngest, Choose
<1>4. CASE Disconnect(b)
  <2> SUFFICES ASSUME NEW c \in Browsers, NEW s \in Streams,
                      conn'[c] = s, stage[s] # "none", phase = "up",
                      due'[s] > asked[c]
               PROVE  Pending(c, s)'
    BY <1>4 DEF Disconnect, NoticeNotLost
  <2>1. c # b /\ conn[c] = s
    BY <1>4, BroadcastAssumption DEF BroadcastAssumption, Disconnect, TypeOK
  <2>2. s # conn[b]
    BY <1>4, <2>1, BroadcastAssumption DEF BroadcastAssumption, TypeOK, Links
  <2>3. due'[s] = due[s] /\ wire'[s] = wire[s]
    BY <1>4, <2>2 DEF Disconnect, TypeOK
  <2> QED BY <1>4, <2>1, <2>3 DEF Disconnect, NoticeNotLost, Pending
<1>5. ASSUME NEW r \in flight[b], Land(b, r) \/ FetchFail(b, r)
      PROVE  NoticeNotLost'
  BY <1>5 DEF Land, FetchFail, NoticeNotLost, Pending
<1> QED BY <1>1, <1>2, <1>3, <1>4, <1>5

LEMMA StepKeeps == TypeOK /\ NoticeNotLost /\ [Next]_vars => NoticeNotLost'
<1> SUFFICES ASSUME TypeOK, NoticeNotLost, [Next]_vars PROVE NoticeNotLost'
  OBVIOUS
<1>1. CASE UNCHANGED vars
  BY <1>1 DEF vars, NoticeNotLost, Pending
<1> QED BY <1>1, LoopKeeps, BodyKeeps, BrowserKeeps DEF Next
-----------------------------------------------------------------------------
\* Every variable of Broadcast keeps its type, no queue outgrows QueueSize
\* (_put_all, event_stream_body), and connections stay as Links says.
THEOREM BroadcastTyped == Spec => []TypeOK
<1>1. TypeOK /\ [Next]_vars => TypeOK'
  BY StepTyped
<1> QED BY <1>1, InitTyped, PTL DEF Spec

\* Whatever queues drop and events batch, a connected browser that has not
\* asked since a notice was published will be made to (_put_all,
\* event_stream_body, onIngest and the dashboard effect of app.jsx).
THEOREM NoNoticeLost == Spec => []NoticeNotLost
<1>1. Init => NoticeNotLost
  BY BroadcastAssumption DEF BroadcastAssumption, Init, NoticeNotLost
<1>2. TypeOK /\ NoticeNotLost /\ [Next]_vars => NoticeNotLost'
  BY StepKeeps
<1> QED BY <1>1, <1>2, BroadcastTyped, PTL DEF Spec

\* What a browser shows never gives way to an earlier request's answer
\* (mintRunSignal, the dashboard effect).
THEOREM ScreenOnlyForward == Spec => ScreenForward
<1>1. TypeOK /\ [Next]_vars => [\A b \in Browsers : landed'[b] >= landed[b]]_vars
  <2> SUFFICES ASSUME TypeOK, Next, NEW c \in Browsers PROVE landed'[c] >= landed[c]
    OBVIOUS
  <2>1. landed[c] \in Nat /\ run[c] \in Nat /\ landed[c] <= run[c]
    BY DEF TypeOK
  <2>2. ASSUME NEW b \in Browsers, NEW r \in flight[b], Land(b, r)
        PROVE  landed'[c] = landed[c] \/ landed'[c] = run[c]
    BY <2>2 DEF Land, TypeOK
  <2>3. landed' = landed \/ \E b \in Browsers : \E r \in flight[b] : Land(b, r)
    BY DEF Next, BroadcastThreadsafe, SignalShutdown, RunCallback, ClearLoop, SetLoop,
           StreamStep, Top, TakeMessage, Woken, Timeout, Send, Cancel, Load, Connect,
           OnIngest, Choose, Effect, Disconnect, FetchFail
  <2> QED BY <2>1, <2>2, <2>3
<1> QED BY <1>1, BroadcastTyped, PTL DEF Spec, ScreenForward
=============================================================================
