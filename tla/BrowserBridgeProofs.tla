------------------------- MODULE BrowserBridgeProofs -------------------------
(***************************************************************************)
(* BridgeInv, NoPanic and EndIsTold of BrowserBridge hold for any captures *)
(* of the plugin, any number of events and any capacity of the queues.     *)
(***************************************************************************)
EXTENDS BrowserBridge, TLAPS

\* What is in a queue, whatever the order; and what of it is there once.
Ran(q) == {q[i] : i \in DOMAIN q}
Once(q, M) == \A i, j \in DOMAIN q : q[i] \in M /\ q[j] \in M => i = j

Ask(s) == <<"start", s>>
Answers(s) == {<<"started", s>>, <<"refused", s>>}
EndOf(s) == <<"stopped", s>>

\* Before the capture is registered: its events wait, the rest is untouched.
Early == {"idle", "waiting", "answered", "failed"}

EarlyOf(s) ==
  call[s].start \in Early =>
    /\ s \notin registered /\ call[s].stop = "no" /\ call[s].replay = <<>>
    /\ channel[s].buffer = <<>> /\ seen[s] = {}
    /\ stream # "down" => read[s] = Ran(orphans[s])

\* While it is open, every event that was read is somewhere.
KeptOf(s) ==
  stream # "down" /\ s \in registered /\ ~Closed(channel[s]) =>
    read[s] = seen[s] \cup Ran(channel[s].buffer) \cup Ran(call[s].replay)

ClosedOf(s) == call[s].stop = "done" => Closed(channel[s])

ClientOf(s) == EarlyOf(s) /\ KeptOf(s) /\ ClosedOf(s)

\* The start of a capture is in one place at a time: asked for, with the host,
\* or answered; and then the call is not past it.
TokenOf(s) ==
  /\ Once(toHost, {Ask(s)}) /\ Once(toPlugin, Answers(s))
  /\ Ask(s) \in Ran(toHost) =>
       handler[s].start = "none" /\ Answers(s) \cap Ran(toPlugin) = {}
  /\ handler[s].start # "none" => Answers(s) \cap Ran(toPlugin) = {}
  /\ call[s].start \notin {"waiting", "failed"} =>
       /\ Ask(s) \notin Ran(toHost) /\ handler[s].start = "none"
       /\ Answers(s) \cap Ran(toPlugin) = {}

\* A start that is served, answered or received, and open, is of a capture the
\* host has, or the end of which is on its way or was missed.
Begun(s) ==
  \/ handler[s].start \in {"working", "started"}
  \/ <<"started", s>> \in Ran(toPlugin)
  \/ call[s].start \notin {"idle", "waiting", "failed"} /\ ~Closed(channel[s])

Accounted(s) ==
  s \in captures \cup missed \/ EndOf(s) \in Ran(events) \cup Ran(toPlugin)

ToldOf(s) == stream = "up" /\ Begun(s) => Accounted(s)

BridgeIInv ==
  TypeOK /\ \A s \in Captures : ClientOf(s) /\ TokenOf(s) /\ ToldOf(s)


-----------------------------------------------------------------------------
(* Queues *)

LEMMA EmptyQueue == Ran(<<>>) = {} /\ \A M : Once(<<>>, M)
BY DEF Ran, Once

\* A queue as its length and its places.
LEMMA QueueIs ==
  ASSUME NEW S, NEW q \in Seq(S)
  PROVE  /\ Len(q) \in Nat /\ DOMAIN q = 1..Len(q) /\ Ran(q) \subseteq S
         /\ \A x : x \in Ran(q) <=> \E i \in 1..Len(q) : q[i] = x
BY DEF Ran

\* One more at the end.
LEMMA AppendIs ==
  ASSUME NEW S, NEW q \in Seq(S), NEW x \in S
  PROVE  /\ Append(q, x) \in Seq(S) /\ Len(Append(q, x)) = Len(q) + 1
         /\ Ran(Append(q, x)) = Ran(q) \cup {x}
         /\ \A M : Once(q, M) /\ (x \notin M \/ M \cap Ran(q) = {}) => Once(Append(q, x), M)
<1>. DEFINE a == Append(q, x)
<1>1. a \in Seq(S) /\ Len(a) = Len(q) + 1 /\ Len(q) \in Nat
  OBVIOUS
<1>2. /\ \A i \in 1..Len(q) : a[i] = q[i]
      /\ a[Len(q) + 1] = x
  OBVIOUS
<1>3. DOMAIN a = 1..(Len(q) + 1) /\ DOMAIN q = 1..Len(q)
  BY <1>1
<1>. HIDE DEF a
<1>4. Ran(a) = Ran(q) \cup {x}
  <2>1. \A i \in 1..(Len(q) + 1) : i \in 1..Len(q) \/ i = Len(q) + 1
    BY <1>1
  <2>2. ASSUME NEW y \in Ran(a) PROVE y \in Ran(q) \cup {x}
    BY <1>2, <1>3, <2>1, <2>2 DEF Ran
  <2>3. ASSUME NEW y \in Ran(q) PROVE y \in Ran(a)
    <3>1. PICK i \in 1..Len(q) : y = q[i]
      BY <1>3 DEF Ran
    <3>2. i \in DOMAIN a /\ a[i] = y
      BY <1>1, <1>2, <1>3, <3>1
    <3>. QED
      BY <3>2 DEF Ran
  <2>4. x \in Ran(a)
    <3>1. Len(q) + 1 \in DOMAIN a
      BY <1>1, <1>3
    <3>. QED
      BY <1>2, <3>1 DEF Ran
  <2>. QED
    BY <2>2, <2>3, <2>4
<1>5. ASSUME NEW M, Once(q, M), x \notin M \/ M \cap Ran(q) = {}
      PROVE  Once(a, M)
  <2>1. ASSUME NEW i \in 1..(Len(q) + 1), NEW j \in 1..(Len(q) + 1), a[i] \in M, a[j] \in M
        PROVE  i = j
    <3>1. /\ i \in 1..Len(q) \/ i = Len(q) + 1
          /\ j \in 1..Len(q) \/ j = Len(q) + 1
      BY <1>1
    <3>2. \A k \in 1..Len(q) : a[k] \in Ran(q)
      BY <1>2, <1>3 DEF Ran
    <3>3. CASE x \notin M
      BY <1>2, <1>3, <1>5, <2>1, <3>1, <3>3 DEF Once
    <3>4. CASE M \cap Ran(q) = {}
      BY <1>2, <2>1, <3>1, <3>2, <3>4
    <3>. QED
      BY <1>5, <3>3, <3>4
  <2>. QED
    BY <1>3, <2>1 DEF Once
<1>. QED
  BY <1>1, <1>4, <1>5 DEF a

\* The first taken out.
LEMMA TailIs ==
  ASSUME NEW S, NEW q \in Seq(S), q # <<>>
  PROVE  /\ Head(q) \in S /\ Tail(q) \in Seq(S) /\ Len(Tail(q)) = Len(q) - 1
         /\ Ran(q) = {Head(q)} \cup Ran(Tail(q))
         /\ \A M : Once(q, M) => /\ Once(Tail(q), M)
                                 /\ Head(q) \in M => M \cap Ran(Tail(q)) = {}
<1>. DEFINE t == Tail(q)
<1>1. /\ t \in Seq(S) /\ Len(t) = Len(q) - 1 /\ Len(q) \in Nat /\ Len(q) >= 1
      /\ Head(q) = q[1] /\ Head(q) \in S
  OBVIOUS
<1>2. \A i \in 1..(Len(q) - 1) : t[i] = q[i + 1]
  OBVIOUS
<1>3. DOMAIN t = 1..(Len(q) - 1) /\ DOMAIN q = 1..Len(q)
  BY <1>1
<1>. HIDE DEF t
<1>4. Ran(q) = {Head(q)} \cup Ran(t)
  <2>1. ASSUME NEW y \in Ran(q) PROVE y = q[1] \/ y \in Ran(t)
    <3>1. PICK i \in 1..Len(q) : y = q[i]
      BY <1>3 DEF Ran
    <3>2. CASE i # 1
      <4>1. i - 1 \in 1..(Len(q) - 1) /\ (i - 1) + 1 = i
        BY <1>1, <3>1, <3>2
      <4>. QED
        BY <1>2, <1>3, <3>1, <4>1 DEF Ran
    <3>. QED
      BY <3>1, <3>2
  <2>2. ASSUME NEW y \in Ran(t) PROVE y \in Ran(q)
    <3>1. PICK i \in 1..(Len(q) - 1) : y = t[i]
      BY <1>3 DEF Ran
    <3>2. i + 1 \in 1..Len(q) /\ y = q[i + 1]
      BY <1>1, <1>2, <3>1
    <3>. QED
      BY <1>3, <3>2 DEF Ran
  <2>3. q[1] \in Ran(q)
    <3>1. 1 \in DOMAIN q
      BY <1>1, <1>3
    <3>. QED
      BY <3>1 DEF Ran
  <2>. QED
    BY <1>1, <2>1, <2>2, <2>3
<1>5. ASSUME NEW M, Once(q, M)
      PROVE  Once(t, M) /\ (q[1] \in M => M \cap Ran(t) = {})
  <2>1. \A i \in 1..(Len(q) - 1) : i + 1 \in 1..Len(q) /\ i + 1 # 1 /\ t[i] = q[i + 1]
    BY <1>1, <1>2
  <2>2. 1 \in 1..Len(q)
    BY <1>1
  <2>3. ASSUME NEW i \in 1..(Len(q) - 1), NEW j \in 1..(Len(q) - 1), t[i] \in M, t[j] \in M
        PROVE  i = j
    <3>1. i + 1 = j + 1
      BY <1>3, <1>5, <2>1, <2>3 DEF Once
    <3>. QED
      BY <1>1, <3>1
  <2>4. ASSUME q[1] \in M, NEW y \in M \cap Ran(t) PROVE FALSE
    <3>1. PICK i \in 1..(Len(q) - 1) : y = t[i]
      BY <1>3, <2>4 DEF Ran
    <3>. QED
      BY <1>3, <1>5, <2>1, <2>2, <2>4, <3>1 DEF Once
  <2>. QED
    BY <1>3, <2>3, <2>4 DEF Once
<1>. QED
  BY <1>1, <1>4, <1>5 DEF t

-----------------------------------------------------------------------------
(* Types *)

ToHost == {"start", "stop", "cancel"} \X Captures
ToPlugin == ({"started", "refused", "stop"} \X Captures) \cup Event \cup End
HandlerType == [start : {"none", "working", "started", "refused"},
                stop : {"none", "working", "answering"}, drop : BOOLEAN]
CallType == [start : {"idle", "waiting", "answered", "replaying", "returned", "failed"},
             replay : Seq(Numbers), stop : {"no", "waiting", "ending", "done"}]
ChannelType == [buffer : Seq(Numbers), closes : Nat]

LEMMA Bounds ==
  /\ MaxEvents \in Nat /\ MaxEvents > 0 /\ SendCap \in Nat /\ SendCap > 0
  /\ EventCap \in Nat /\ EventCap > 0 /\ OrphanCap \in Nat /\ OrphanCap > 0
  /\ ChanCap \in Nat /\ ChanCap > 0
<1>1. /\ MaxEvents \in Nat \ {0} /\ SendCap \in Nat \ {0} /\ EventCap \in Nat \ {0}
      /\ OrphanCap \in Nat \ {0} /\ ChanCap \in Nat \ {0}
  BY BridgeAssumption, Zenon
<1>. QED
  BY <1>1

\* TypeOK, per capture.
LEMMA TypeParts ==
  ASSUME TypeOK
  PROVE  /\ toHost \in Seq(ToHost) /\ Len(toHost) <= SendCap /\ Len(toHost) \in Nat
         /\ toPlugin \in Seq(ToPlugin) /\ Len(toPlugin) <= SendCap /\ Len(toPlugin) \in Nat
         /\ events \in Seq(Event \cup End) /\ Len(events) <= EventCap /\ Len(events) \in Nat
         /\ call \in [Captures -> CallType] /\ handler \in [Captures -> HandlerType]
         /\ channel \in [Captures -> ChannelType]
         /\ \A s \in Captures :
              /\ call[s] \in CallType /\ handler[s] \in HandlerType
              /\ channel[s] \in ChannelType /\ orphans[s] \in Seq(Numbers)
              /\ Len(orphans[s]) <= OrphanCap /\ Len(orphans[s]) \in Nat
              /\ read[s] \subseteq Numbers /\ seen[s] \subseteq Numbers
              /\ emitted[s] \in 0..MaxEvents
<1>1. /\ toHost \in Seq(ToHost) /\ toPlugin \in Seq(ToPlugin) /\ events \in Seq(Event \cup End)
      /\ \A s \in Captures : orphans[s] \in Seq(Numbers)
  BY DEF TypeOK, ToHost, ToPlugin
<1>2. /\ Len(toHost) \in Nat /\ Len(toPlugin) \in Nat /\ Len(events) \in Nat
      /\ \A s \in Captures : Len(orphans[s]) \in Nat
  BY <1>1
<1>3. /\ call \in [Captures -> CallType] /\ handler \in [Captures -> HandlerType]
      /\ channel \in [Captures -> ChannelType]
  BY DEF TypeOK, CallType, HandlerType, ChannelType
<1>4. \A s \in Captures : /\ read[s] \subseteq Numbers /\ seen[s] \subseteq Numbers
                          /\ emitted[s] \in 0..MaxEvents
  BY DEF TypeOK
<1>5. /\ Len(toHost) <= SendCap /\ Len(toPlugin) <= SendCap /\ Len(events) <= EventCap
      /\ \A s \in Captures : Len(orphans[s]) <= OrphanCap
  BY DEF TypeOK
<1>. QED
  BY <1>1, <1>2, <1>3, <1>4, <1>5

\* The types of the two sides after a step.
ClientTyped ==
  /\ call' \in [Captures -> CallType] /\ registered' \subseteq Captures
  /\ orphans' \in [Captures -> Seq(Numbers)]
  /\ \A s \in Captures : Len(orphans'[s]) <= OrphanCap
  /\ channel' \in [Captures -> ChannelType]
  /\ read' \in [Captures -> SUBSET Numbers] /\ seen' \in [Captures -> SUBSET Numbers]

ServerTyped ==
  /\ events' \in Seq(Event \cup End) /\ Len(events') <= EventCap
  /\ captures' \subseteq Captures /\ dropped' \subseteq Captures
  /\ emitted' \in [Captures -> 0..MaxEvents] /\ handler' \in [Captures -> HandlerType]

WireTyped ==
  /\ stream' \in {"up", "lost", "down"} /\ missed' \subseteq Captures
  /\ toHost' \in Seq(ToHost) /\ Len(toHost') <= SendCap
  /\ toPlugin' \in Seq(ToPlugin) /\ Len(toPlugin') <= SendCap

LEMMA TypedParts ==
  ASSUME TypeOK
  PROVE  /\ UNCHANGED client => ClientTyped
         /\ UNCHANGED server => ServerTyped
         /\ UNCHANGED <<stream, missed, toHost, toPlugin>> => WireTyped
         /\ ClientTyped /\ ServerTyped /\ WireTyped => TypeOK'
<1>. USE TypeParts
<1>1. UNCHANGED client => ClientTyped
  BY DEF client, ClientTyped, TypeOK
<1>2. UNCHANGED server => ServerTyped
  BY DEF server, ServerTyped, TypeOK
<1>3. UNCHANGED <<stream, missed, toHost, toPlugin>> => WireTyped
  BY DEF WireTyped, TypeOK
<1>4. ClientTyped /\ ServerTyped /\ WireTyped => TypeOK'
  BY DEF ClientTyped, ServerTyped, WireTyped, TypeOK, ToHost, ToPlugin, HandlerType,
         CallType, ChannelType
<1>. QED
  BY <1>1, <1>2, <1>3, <1>4

\* What a message says.
LEMMA MessageIs ==
  /\ \A m \in ToHost : m[1] \in {"start", "stop", "cancel"} /\ m[2] \in Captures
                       /\ m = <<m[1], m[2]>>
  /\ \A m \in ToPlugin :
       /\ m[1] \in {"started", "refused", "stop", "event", "stopped"} /\ m[2] \in Captures
       /\ m[1] \in {"started", "refused", "stop", "stopped"} => m = <<m[1], m[2]>>
       /\ m[1] = "event" => m[3] \in Numbers
  /\ Event \cup End \subseteq ToPlugin
  /\ \A m \in Event \cup End : m[1] \in {"event", "stopped"}
BY DEF ToHost, ToPlugin, Event, End

-----------------------------------------------------------------------------
(* What the operators of the client and the host do *)

\* A channel after one more event: closed when it was full.
LEMMA PushIs ==
  ASSUME NEW ch \in ChannelType, NEW n \in Numbers
  PROVE  /\ Push(ch, n) \in ChannelType
         /\ Closed(ch) => Push(ch, n) = ch
         /\ ~Closed(ch) /\ ~Closed(Push(ch, n)) =>
              Ran(Push(ch, n).buffer) = Ran(ch.buffer) \cup {n}
         /\ Closed(ch) => Closed(Push(ch, n))
<1>1. ch.buffer \in Seq(Numbers) /\ ch.closes \in Nat
  BY DEF ChannelType
<1>2. PICK a : a = [ch EXCEPT !.buffer = Append(@, n)]
  OBVIOUS
<1>3. PICK b : b = [ch EXCEPT !.closes = @ + 1]
  OBVIOUS
<1>4. /\ a.buffer = Append(ch.buffer, n) /\ a.closes = ch.closes /\ a \in ChannelType
      /\ Append(ch.buffer, n) \in Seq(Numbers)
      /\ Ran(Append(ch.buffer, n)) = Ran(ch.buffer) \cup {n}
  BY <1>1, <1>2, AppendIs DEF ChannelType
<1>5. b.closes = ch.closes + 1 /\ b \in ChannelType
  BY <1>1, <1>3 DEF ChannelType
<1>6. Push(ch, n) = IF Closed(ch) THEN ch ELSE IF Len(ch.buffer) < ChanCap THEN a ELSE b
  BY <1>2, <1>3 DEF Push
<1>7. CASE Closed(ch)
  BY <1>6, <1>7
<1>8. CASE ~Closed(ch) /\ Len(ch.buffer) < ChanCap
  BY <1>4, <1>6, <1>8
<1>9. CASE ~Closed(ch) /\ ~(Len(ch.buffer) < ChanCap)
  <2>1. Push(ch, n) = b /\ Closed(b)
    BY <1>1, <1>5, <1>6, <1>9 DEF Closed
  <2>. QED
    BY <1>5, <1>9, <2>1
<1>. QED
  BY <1>7, <1>8, <1>9

LEMMA ShutIs ==
  ASSUME NEW ch \in ChannelType
  PROVE  /\ Shut(ch) \in ChannelType /\ Closed(Shut(ch)) /\ Shut(ch).buffer = ch.buffer
         /\ Closed(ch) => Shut(ch) = ch
<1>1. ch.buffer \in Seq(Numbers) /\ ch.closes \in Nat
  BY DEF ChannelType
<1>2. PICK b : b = [ch EXCEPT !.closes = @ + 1]
  OBVIOUS
<1>3. b.closes = ch.closes + 1 /\ b.buffer = ch.buffer /\ b \in ChannelType
  BY <1>1, <1>2 DEF ChannelType
<1>4. Shut(ch) = IF Closed(ch) THEN ch ELSE b
  BY <1>2 DEF Shut
<1>. QED
  BY <1>1, <1>3, <1>4 DEF Closed

\* A call of which the stop begins, if it has not begun.
LEMMA StoppingIs ==
  ASSUME NEW c \in CallType
  PROVE  /\ Stopping(c) \in CallType /\ Stopping(c).start = c.start
         /\ Stopping(c).replay = c.replay
         /\ Stopping(c).stop = "done" => c.stop = "done"
         /\ c.stop = "no" => Stopping(c).stop \in {"waiting", "ending"}
         /\ c.stop = "no" /\ Stopping(c).stop = "waiting" => Len(toHost) < SendCap
<1>1. c.start \in {"idle", "waiting", "answered", "replaying", "returned", "failed"}
      /\ c.replay \in Seq(Numbers) /\ c.stop \in {"no", "waiting", "ending", "done"}
  BY DEF CallType
<1>2. PICK w : w = IF stream # "down" /\ Len(toHost) < SendCap THEN "waiting" ELSE "ending"
  OBVIOUS
<1>3. PICK b : b = [c EXCEPT !.stop = w]
  OBVIOUS
<1>4. /\ b.start = c.start /\ b.replay = c.replay /\ b.stop = w /\ b \in CallType
      /\ w \in {"waiting", "ending"}
  BY <1>1, <1>2, <1>3 DEF CallType
<1>5. Stopping(c) = IF c.stop # "no" THEN c ELSE b
  BY <1>2, <1>3 DEF Stopping
<1>. QED
  BY <1>2, <1>4, <1>5

\* A queue of requests with as many starts as before.
AsksAsBefore ==
  /\ toHost' \in Seq(ToHost) /\ Len(toHost') <= SendCap
  /\ \A x \in Captures : /\ Ask(x) \in Ran(toHost') => Ask(x) \in Ran(toHost)
                         /\ Once(toHost, {Ask(x)}) => Once(toHost', {Ask(x)})

LEMMA RequestIs ==
  ASSUME TypeOK, NEW m \in ToHost, m[1] # "start",
         toHost' = toHost \/ (toHost' = Append(toHost, m) /\ Len(toHost) < SendCap)
  PROVE  AsksAsBefore
<1>. USE TypeParts, Bounds
<1>1. CASE toHost' = toHost
  BY <1>1 DEF AsksAsBefore
<1>2. CASE toHost' = Append(toHost, m) /\ Len(toHost) < SendCap
  <2>1. /\ Append(toHost, m) \in Seq(ToHost) /\ Len(Append(toHost, m)) = Len(toHost) + 1
        /\ Ran(Append(toHost, m)) = Ran(toHost) \cup {m}
        /\ \A M : Once(toHost, M) /\ m \notin M => Once(Append(toHost, m), M)
    BY AppendIs
  <2>2. \A x \in Captures : m # Ask(x)
    BY DEF Ask
  <2>. QED
    BY <1>2, <2>1, <2>2 DEF AsksAsBefore
<1>. QED
  BY <1>1, <1>2

LEMMA StopRequestIs ==
  ASSUME TypeOK, NEW s \in Captures, toHost' = StopRequest(s) \/ toHost' = toHost
  PROVE  AsksAsBefore
<1>1. <<"stop", s>> \in ToHost /\ <<"stop", s>>[1] # "start"
  BY DEF ToHost
<1>2. call[s] \in CallType
  BY TypeParts
<1>3. \/ toHost' = toHost
      \/ toHost' = Append(toHost, <<"stop", s>>) /\ Len(toHost) < SendCap
  BY <1>2, StoppingIs DEF StopRequest
<1>. QED
  BY <1>1, <1>3, RequestIs

\* What is published is in the subscription, or missed.
LEMMA PublishedIs ==
  ASSUME TypeOK, NEW m \in Event \cup End
  PROVE  /\ Published(m) \in Seq(Event \cup End) /\ Len(Published(m)) <= EventCap
         /\ Ran(events) \subseteq Ran(Published(m)) /\ Missing(m) \subseteq Captures
         /\ m \in Ran(Published(m)) \/ m[2] \in Missing(m)
<1>. USE TypeParts, Bounds
<1>1. /\ Append(events, m) \in Seq(Event \cup End)
      /\ Len(Append(events, m)) = Len(events) + 1
      /\ Ran(Append(events, m)) = Ran(events) \cup {m}
  BY AppendIs
<1>2. m[2] \in Captures
  BY MessageIs
<1>. QED
  BY <1>1, <1>2 DEF Published, Missing

-----------------------------------------------------------------------------
(* When a part of the invariant is kept *)

LEMMA ClientStays ==
  ASSUME NEW s \in Captures, ClientOf(s), stream' # "down" => stream # "down",
         UNCHANGED <<call, registered, channel, seen, read, orphans>>
  PROVE  ClientOf(s)'
BY DEF ClientOf, EarlyOf, KeptOf, ClosedOf, Closed

\* No start appears anywhere, and no call goes past its start.
LEMMA TokenFades ==
  ASSUME NEW s \in Captures, TokenOf(s), Once(toHost', {Ask(s)}),
         Ask(s) \in Ran(toHost') => Ask(s) \in Ran(toHost),
         Once(toPlugin', Answers(s)),
         Answers(s) \cap Ran(toPlugin') \subseteq Answers(s) \cap Ran(toPlugin),
         handler'[s].start # "none" => handler[s].start # "none",
         call'[s].start \notin {"waiting", "failed"} =>
           call[s].start \notin {"waiting", "failed"}
  PROVE  TokenOf(s)'
BY DEF TokenOf, Ask, Answers

LEMMA ToldStays ==
  ASSUME NEW s \in Captures, ToldOf(s), stream' = "up" => stream = "up",
         stream = "up" /\ Begun(s)' => Begun(s), Accounted(s) => Accounted(s)'
  PROVE  ToldOf(s)'
BY DEF ToldOf

\* A handler after a change of one of its parts.
LEMMA HandlerIs ==
  ASSUME TypeOK, NEW s \in Captures
  PROVE  /\ \A v \in {"none", "working", "started", "refused"} :
              LET h == [handler EXCEPT ![s].start = v] IN
              /\ h \in [Captures -> HandlerType] /\ h[s].start = v
              /\ \A x \in Captures \ {s} : h[x] = handler[x]
         /\ \A v \in {"none", "working", "answering"} :
              LET h == [handler EXCEPT ![s].stop = v] IN
              h \in [Captures -> HandlerType] /\ \A x \in Captures : h[x].start = handler[x].start
         /\ \A v \in BOOLEAN :
              LET h == [handler EXCEPT ![s].drop = v] IN
              h \in [Captures -> HandlerType] /\ \A x \in Captures : h[x].start = handler[x].start
<1>1. handler \in [Captures -> HandlerType] /\ handler[s] \in HandlerType
  BY TypeParts
<1>2. ASSUME NEW v \in {"none", "working", "started", "refused"}
      PROVE  LET h == [handler EXCEPT ![s].start = v] IN
             /\ h \in [Captures -> HandlerType] /\ h[s].start = v
             /\ \A x \in Captures \ {s} : h[x] = handler[x]
  <2>1. PICK d : d = [handler[s] EXCEPT !.start = v]
    OBVIOUS
  <2>2. d \in HandlerType /\ d.start = v
    BY <1>1, <2>1 DEF HandlerType
  <2>3. [handler EXCEPT ![s].start = v] = [handler EXCEPT ![s] = d]
    BY <2>1
  <2>. QED
    BY <1>1, <2>2, <2>3
<1>3. ASSUME NEW v \in {"none", "working", "answering"}
      PROVE  LET h == [handler EXCEPT ![s].stop = v] IN
             h \in [Captures -> HandlerType] /\ \A x \in Captures : h[x].start = handler[x].start
  <2>1. PICK d : d = [handler[s] EXCEPT !.stop = v]
    OBVIOUS
  <2>2. d \in HandlerType /\ d.start = handler[s].start
    BY <1>1, <2>1 DEF HandlerType
  <2>3. [handler EXCEPT ![s].stop = v] = [handler EXCEPT ![s] = d]
    BY <2>1
  <2>. QED
    BY <1>1, <2>2, <2>3
<1>4. ASSUME NEW v \in BOOLEAN
      PROVE  LET h == [handler EXCEPT ![s].drop = v] IN
             h \in [Captures -> HandlerType] /\ \A x \in Captures : h[x].start = handler[x].start
  <2>1. PICK d : d = [handler[s] EXCEPT !.drop = v]
    OBVIOUS
  <2>2. d \in HandlerType /\ d.start = handler[s].start
    BY <1>1, <2>1 DEF HandlerType
  <2>3. [handler EXCEPT ![s].drop = v] = [handler EXCEPT ![s] = d]
    BY <2>1
  <2>. QED
    BY <1>1, <2>2, <2>3
<1>. QED
  BY <1>2, <1>3, <1>4, Zenon

\* The host's part of the start of a capture ends without one.
LEMMA GoneIs ==
  ASSUME BridgeIInv, NEW s \in Captures, handler[s].start = "working",
         UNCHANGED <<toPlugin, call, channel>>, handler'[s].start = "refused"
  PROVE  ~Begun(s)'
BY DEF BridgeIInv, TokenOf, Begun, Answers

-----------------------------------------------------------------------------
(* The steps of the host and of the browser *)

LEMMA StreamEndsKeeps == ASSUME BridgeIInv, StreamEnds PROVE BridgeIInv'
<1>. USE DEF StreamEnds, server, client
<1>1. TypeOK /\ ClientTyped /\ ServerTyped
  BY TypedParts DEF BridgeIInv
<1>2. WireTyped
  BY <1>1, TypeParts DEF WireTyped, TypeOK
<1>3. TypeOK'
  BY <1>1, <1>2, TypedParts
<1>4. ASSUME NEW x \in Captures PROVE (ClientOf(x) /\ TokenOf(x) /\ ToldOf(x))'
  <2>1. ClientOf(x) /\ TokenOf(x) /\ ToldOf(x)
    BY DEF BridgeIInv
  <2>2. ClientOf(x)'
    BY <2>1, ClientStays
  <2>3. TokenOf(x)'
    BY <2>1 DEF TokenOf
  <2>. QED
    BY <2>2, <2>3 DEF ToldOf
<1>. QED
  BY <1>3, <1>4 DEF BridgeIInv

LEMMA EmitKeeps == ASSUME BridgeIInv, NEW s \in Captures, Emit(s) PROVE BridgeIInv'
<1>. USE DEF Emit, client
<1>1. TypeOK /\ ClientTyped /\ WireTyped
  BY TypedParts DEF BridgeIInv
<1>2. emitted' \in [Captures -> 0..MaxEvents] /\ emitted'[s] \in Numbers
  <2>1. emitted \in [Captures -> 0..MaxEvents] /\ emitted[s] < MaxEvents
    BY <1>1 DEF TypeOK
  <2>2. emitted[s] + 1 \in 0..MaxEvents /\ emitted[s] + 1 \in 1..MaxEvents
    BY <2>1, Bounds
  <2>. QED
    BY <2>1, <2>2 DEF Numbers
<1>3. <<"event", s, emitted'[s]>> \in Event \cup End
  BY <1>2 DEF Event
<1>4. /\ events' \in Seq(Event \cup End) /\ Len(events') <= EventCap
      /\ Ran(events) \subseteq Ran(events')
  BY <1>1, <1>3, PublishedIs
<1>5. ServerTyped
  BY <1>1, <1>2, <1>4, TypeParts DEF ServerTyped, TypeOK
<1>6. TypeOK'
  BY <1>1, <1>5, TypedParts
<1>7. ASSUME NEW x \in Captures PROVE (ClientOf(x) /\ TokenOf(x) /\ ToldOf(x))'
  <2>1. ClientOf(x) /\ TokenOf(x) /\ ToldOf(x)
    BY DEF BridgeIInv
  <2>2. ClientOf(x)'
    BY <2>1, ClientStays
  <2>3. TokenOf(x)'
    BY <2>1 DEF TokenOf
  <2>4. Begun(x)' = Begun(x)
    BY DEF Begun
  <2>5. Accounted(x) => Accounted(x)'
    BY <1>4 DEF Accounted
  <2>. QED
    BY <2>1, <2>2, <2>3, <2>4, <2>5 DEF ToldOf
<1>. QED
  BY <1>6, <1>7 DEF BridgeIInv

\* A capture that goes is accounted for by its end.
LEMMA EndedIs ==
  ASSUME TypeOK, NEW s \in Captures, captures' = captures \ {s}, UNCHANGED toPlugin,
         \/ events' = Published(EndOf(s)) /\ missed' = missed \cup Missing(EndOf(s))
         \/ s \notin captures /\ UNCHANGED <<events, missed>>
  PROVE  /\ events' \in Seq(Event \cup End) /\ Len(events') <= EventCap
         /\ captures' \subseteq Captures /\ missed' \subseteq Captures
         /\ \A x \in Captures : Accounted(x) => Accounted(x)'
<1>1. EndOf(s) \in Event \cup End /\ EndOf(s)[2] = s
  BY DEF EndOf, End
<1>2. CASE events' = Published(EndOf(s)) /\ missed' = missed \cup Missing(EndOf(s))
  <2>1. /\ events' \in Seq(Event \cup End) /\ Len(events') <= EventCap
        /\ Ran(events) \subseteq Ran(events') /\ Missing(EndOf(s)) \subseteq Captures
        /\ EndOf(s) \in Ran(events') \/ s \in Missing(EndOf(s))
    BY <1>1, <1>2, PublishedIs
  <2>. QED
    BY <1>2, <2>1 DEF Accounted, TypeOK
<1>3. CASE s \notin captures /\ UNCHANGED <<events, missed>>
  BY <1>3, TypeParts DEF Accounted, TypeOK
<1>. QED
  BY <1>2, <1>3

LEMMA EndCaptureKeeps == ASSUME BridgeIInv, NEW s \in Captures, EndCapture(s) PROVE BridgeIInv'
<1>. USE DEF EndCapture, client
<1>1. TypeOK /\ ClientTyped
  BY TypedParts DEF BridgeIInv
<1>2. /\ events' \in Seq(Event \cup End) /\ Len(events') <= EventCap
      /\ captures' \subseteq Captures /\ missed' \subseteq Captures
      /\ \A x \in Captures : Accounted(x) => Accounted(x)'
  BY <1>1, EndedIs DEF EndOf
<1>3. ServerTyped /\ WireTyped
  BY <1>1, <1>2, TypeParts DEF ServerTyped, WireTyped, TypeOK
<1>4. TypeOK'
  BY <1>1, <1>3, TypedParts
<1>5. ASSUME NEW x \in Captures PROVE (ClientOf(x) /\ TokenOf(x) /\ ToldOf(x))'
  <2>1. ClientOf(x) /\ TokenOf(x) /\ ToldOf(x)
    BY DEF BridgeIInv
  <2>2. ClientOf(x)'
    BY <2>1, ClientStays
  <2>3. TokenOf(x)'
    BY <2>1 DEF TokenOf
  <2>4. Begun(x)' = Begun(x)
    BY DEF Begun
  <2>. QED
    BY <1>2, <2>1, <2>2, <2>3, <2>4 DEF ToldOf
<1>. QED
  BY <1>4, <1>5 DEF BridgeIInv

LEMMA StoppedKeeps == ASSUME BridgeIInv, NEW s \in Captures, Stopped(s) PROVE BridgeIInv'
<1>. USE DEF Stopped, client
<1>1. TypeOK /\ ClientTyped
  BY TypedParts DEF BridgeIInv
<1>2. /\ events' \in Seq(Event \cup End) /\ Len(events') <= EventCap
      /\ captures' \subseteq Captures /\ missed' \subseteq Captures
      /\ \A x \in Captures : Accounted(x) => Accounted(x)'
  BY <1>1, EndedIs DEF EndOf, StopNetworkCapture
<1>3. handler' \in [Captures -> HandlerType] /\ \A x \in Captures : handler'[x].start = handler[x].start
  <2>1. CASE handler' = [handler EXCEPT ![s].stop = "answering"]
    BY <1>1, <2>1, HandlerIs
  <2>2. CASE handler' = [handler EXCEPT ![s].drop = FALSE]
    BY <1>1, <2>2, HandlerIs
  <2>. QED
    BY <2>1, <2>2
<1>4. ServerTyped /\ WireTyped
  BY <1>1, <1>2, <1>3, TypeParts DEF ServerTyped, WireTyped, TypeOK
<1>5. TypeOK'
  BY <1>1, <1>4, TypedParts
<1>6. ASSUME NEW x \in Captures PROVE (ClientOf(x) /\ TokenOf(x) /\ ToldOf(x))'
  <2>1. ClientOf(x) /\ TokenOf(x) /\ ToldOf(x)
    BY DEF BridgeIInv
  <2>2. ClientOf(x)'
    BY <2>1, ClientStays
  <2>3. TokenOf(x)'
    BY <1>3, <2>1 DEF TokenOf
  <2>4. Begun(x)' = Begun(x)
    BY <1>3 DEF Begun
  <2>. QED
    BY <1>2, <2>1, <2>2, <2>3, <2>4 DEF ToldOf
<1>. QED
  BY <1>5, <1>6 DEF BridgeIInv

LEMMA StartedKeeps == ASSUME BridgeIInv, NEW s \in Captures, Started(s) PROVE BridgeIInv'
<1>. USE DEF Started, client
<1>1. TypeOK /\ ClientTyped /\ WireTyped
  BY TypedParts DEF BridgeIInv
<1>2. /\ handler' \in [Captures -> HandlerType] /\ handler'[s].start \in {"started", "refused"}
      /\ \A x \in Captures \ {s} : handler'[x] = handler[x]
      /\ handler'[s].start = "started" => captures' = captures
  <2>1. CASE handler' = [handler EXCEPT ![s].start = "started"] /\ captures' = captures
    BY <1>1, <2>1, HandlerIs
  <2>2. CASE handler' = [handler EXCEPT ![s].start = "refused"]
    BY <1>1, <2>2, HandlerIs
  <2>. QED
    BY <2>1, <2>2
<1>3. captures' = captures \/ captures' = captures \ {s}
  OBVIOUS
<1>4. ServerTyped
  BY <1>1, <1>2, <1>3, TypeParts DEF ServerTyped, TypeOK
<1>5. TypeOK'
  BY <1>1, <1>4, TypedParts
<1>6. ASSUME NEW x \in Captures PROVE (ClientOf(x) /\ TokenOf(x) /\ ToldOf(x))'
  <2>1. ClientOf(x) /\ TokenOf(x) /\ ToldOf(x)
    BY DEF BridgeIInv
  <2>2. ClientOf(x)'
    BY <2>1, ClientStays
  <2>3. TokenOf(x)'
    BY <1>2, <2>1 DEF TokenOf
  <2>4. ToldOf(x)'
    <3>1. CASE x # s
      <4>1. Begun(x)' = Begun(x)
        BY <1>2, <3>1 DEF Begun
      <4>2. Accounted(x) => Accounted(x)'
        BY <1>3, <3>1 DEF Accounted
      <4>. QED
        BY <2>1, <4>1, <4>2 DEF ToldOf
    <3>2. CASE x = s /\ handler'[s].start = "started"
      <4>1. Begun(s)' => Begun(s)
        BY DEF Begun
      <4>2. Accounted(s)' = Accounted(s)
        BY <1>2, <3>2 DEF Accounted
      <4>. QED
        BY <2>1, <3>2, <4>1, <4>2 DEF ToldOf
    <3>3. CASE x = s /\ handler'[s].start = "refused"
      BY <3>3, GoneIs DEF ToldOf
    <3>. QED
      BY <1>2, <3>1, <3>2, <3>3
  <2>. QED
    BY <2>2, <2>3, <2>4
<1>. QED
  BY <1>5, <1>6 DEF BridgeIInv

LEMMA CleanUpKeeps == ASSUME BridgeIInv, CleanUp PROVE BridgeIInv'
<1>. USE DEF CleanUp, client
<1>1. TypeOK /\ ClientTyped /\ WireTyped
  BY TypedParts DEF BridgeIInv
<1>2. handler' \in [Captures -> HandlerType] /\ \A x \in Captures : handler'[x].start = "none"
  BY DEF NoHandler, HandlerType
<1>3. events' \in Seq(Event \cup End) /\ Len(events') <= EventCap
  BY Bounds
<1>4. ServerTyped
  BY <1>1, <1>2, <1>3 DEF ServerTyped, TypeOK
<1>5. TypeOK'
  BY <1>1, <1>4, TypedParts
<1>6. ASSUME NEW x \in Captures PROVE (ClientOf(x) /\ TokenOf(x) /\ ToldOf(x))'
  <2>1. ClientOf(x) /\ TokenOf(x) /\ ToldOf(x)
    BY DEF BridgeIInv
  <2>2. ClientOf(x)'
    BY <2>1, ClientStays
  <2>3. TokenOf(x)'
    BY <1>2, <2>1 DEF TokenOf
  <2>4. ToldOf(x)'
    BY DEF ToldOf
  <2>. QED
    BY <2>2, <2>3, <2>4
<1>. QED
  BY <1>5, <1>6 DEF BridgeIInv

LEMMA RespondKeeps == ASSUME BridgeIInv, NEW s \in Captures, Respond(s) PROVE BridgeIInv'
<1>. USE DEF Respond, client
<1>1. TypeOK /\ ClientTyped
  BY TypedParts DEF BridgeIInv
\* What answers, and with what.
<1>2. PICK a \in {"started", "refused", "stop"} :
        /\ toPlugin' = Append(toPlugin, <<a, s>>)
        /\ \/ a \in {"started", "refused"} /\ a = handler[s].start
              /\ handler' = [handler EXCEPT ![s].start = "none"]
           \/ a = "stop" /\ handler' = [handler EXCEPT ![s].stop = "none"]
  <2>1. CASE handler[s].start \in {"started", "refused"}
             /\ toPlugin' = Append(toPlugin, <<handler[s].start, s>>)
             /\ handler' = [handler EXCEPT ![s].start = "none"]
    BY <2>1
  <2>2. CASE toPlugin' = Append(toPlugin, <<"stop", s>>)
             /\ handler' = [handler EXCEPT ![s].stop = "none"]
    BY <2>2
  <2>. QED
    BY <2>1, <2>2
<1>3. PICK m : m = <<a, s>>
  OBVIOUS
<1>4. m \in ToPlugin /\ m[1] = a /\ m[2] = s
  BY <1>3 DEF ToPlugin
<1>5. /\ toPlugin' \in Seq(ToPlugin) /\ Len(toPlugin') = Len(toPlugin) + 1
      /\ Ran(toPlugin') = Ran(toPlugin) \cup {m}
      /\ \A M : Once(toPlugin, M) /\ (m \notin M \/ M \cap Ran(toPlugin) = {}) => Once(toPlugin', M)
  <2>1. toPlugin \in Seq(ToPlugin)
    BY <1>1, TypeParts
  <2>2. toPlugin' = Append(toPlugin, m)
    BY <1>2, <1>3
  <2>. HIDE DEF Respond
  <2>. QED
    BY <1>4, <2>1, <2>2, AppendIs
<1>6. /\ handler' \in [Captures -> HandlerType]
      /\ \A x \in Captures \ {s} : handler'[x].start = handler[x].start
      /\ handler'[s].start = IF a = "stop" THEN handler[s].start ELSE "none"
  <2>1. CASE a # "stop" /\ handler' = [handler EXCEPT ![s].start = "none"]
    <3>1. LET h == [handler EXCEPT ![s].start = "none"] IN
          /\ h \in [Captures -> HandlerType] /\ h[s].start = "none"
          /\ \A x \in Captures \ {s} : h[x] = handler[x]
      BY <1>1, HandlerIs, Zenon
    <3>. QED
      BY <2>1, <3>1
  <2>2. CASE a = "stop" /\ handler' = [handler EXCEPT ![s].stop = "none"]
    <3>1. LET h == [handler EXCEPT ![s].stop = "none"] IN
          h \in [Captures -> HandlerType] /\ \A x \in Captures : h[x].start = handler[x].start
      BY <1>1, HandlerIs, Zenon
    <3>. QED
      BY <2>2, <3>1
  <2>. QED
    BY <1>2, <2>1, <2>2
<1>7. ServerTyped
  BY <1>1, <1>6, TypeParts DEF ServerTyped, TypeOK
<1>8. WireTyped
  <2>1. Len(toPlugin') <= SendCap
    BY <1>1, <1>5, TypeParts, Bounds
  <2>. QED
    BY <1>1, <1>5, <2>1, TypeParts DEF WireTyped, TypeOK
<1>9. TypeOK'
  BY <1>1, <1>7, <1>8, TypedParts
<1>10. \A x \in Captures \ {s} : m \notin Answers(x)
  BY <1>3, <1>4 DEF Answers
<1>11. a = "stop" => m \notin Answers(s)
  BY <1>4 DEF Answers
<1>12. ASSUME NEW x \in Captures PROVE (ClientOf(x) /\ TokenOf(x) /\ ToldOf(x))'
  <2>1. ClientOf(x) /\ TokenOf(x) /\ ToldOf(x)
    BY DEF BridgeIInv
  <2>2. ClientOf(x)'
    BY <2>1, ClientStays
  <2>3. CASE x # s \/ a = "stop"
    <3>1. m \notin Answers(x) /\ handler'[x].start = handler[x].start
      BY <1>6, <1>10, <1>11, <2>3
    <3>2. Answers(x) \cap Ran(toPlugin') = Answers(x) \cap Ran(toPlugin)
          /\ Once(toPlugin', Answers(x))
      BY <1>5, <2>1, <3>1 DEF TokenOf
    <3>3. TokenOf(x)'
      BY <2>1, <3>1, <3>2 DEF TokenOf
    <3>4. Begun(x)' => Begun(x)
      BY <3>1, <3>2 DEF Begun, Answers
    <3>5. Accounted(x) => Accounted(x)'
      BY <1>5 DEF Accounted
    <3>. QED
      BY <2>1, <2>2, <3>3, <3>4, <3>5 DEF ToldOf
  <2>4. CASE x = s /\ a # "stop"
    <3>1. a = handler[s].start /\ handler[s].start # "none" /\ handler'[s].start = "none"
      BY <1>2, <1>6, <2>4
    <3>2. Answers(s) \cap Ran(toPlugin) = {} /\ Ask(s) \notin Ran(toHost)
          /\ call[s].start \in {"waiting", "failed"}
      BY <2>1, <2>4, <3>1 DEF TokenOf
    <3>3. TokenOf(s)'
      BY <1>5, <2>1, <2>4, <3>1, <3>2 DEF TokenOf
    <3>4. Begun(s)' => Begun(s)
      <4>1. a = "refused" => <<"started", s>> \notin Ran(toPlugin')
        BY <1>3, <1>5, <3>2 DEF Answers
      <4>. QED
        BY <3>1, <3>2, <4>1, <1>2, <2>4 DEF Begun
    <3>5. Accounted(s) => Accounted(s)'
      BY <1>5 DEF Accounted
    <3>. QED
      BY <2>1, <2>2, <2>4, <3>3, <3>4, <3>5 DEF ToldOf
  <2>. QED
    BY <2>3, <2>4
<1>. QED
  BY <1>9, <1>12 DEF BridgeIInv

LEMMA ServeKeeps == ASSUME BridgeIInv, Serve PROVE BridgeIInv'
<1>. USE DEF client
<1>1. TypeOK /\ ClientTyped
  BY TypedParts DEF BridgeIInv, Serve
<1>2. PICK m \in ToHost, s \in Captures : m = Head(toHost) /\ s = m[2]
  BY <1>1, TypeParts, TailIs, MessageIs DEF Serve
<1>3. /\ toHost' \in Seq(ToHost) /\ Len(toHost') = Len(toHost) - 1
      /\ Ran(toHost) = {m} \cup Ran(toHost')
      /\ \A M : Once(toHost, M) => Once(toHost', M) /\ (m \in M => M \cap Ran(toHost') = {})
  BY <1>1, <1>2, TypeParts, TailIs DEF Serve
<1>4. m = <<m[1], s>> /\ m[1] \in {"start", "stop", "cancel"}
  BY <1>2, MessageIs
<1>5. UNCHANGED <<stream, toPlugin, events, emitted, dropped, missed, call, registered,
                  channel, seen, read, orphans>>
  BY DEF Serve
<1>6. \/ /\ m = Ask(s) /\ handler' = [handler EXCEPT ![s].start = "working"]
         /\ captures' = captures \cup {s}
      \/ /\ m # Ask(s) /\ handler' = [handler EXCEPT ![s].stop = "working"]
         /\ captures' = captures
      \/ /\ m # Ask(s) /\ handler[s].start = "working"
         /\ handler' = [handler EXCEPT ![s].start = "refused"] /\ captures' = captures \ {s}
      \/ m # Ask(s) /\ handler' = handler /\ captures' = captures
  BY <1>2, <1>4 DEF Serve, Ask
<1>7. \A x \in Captures \ {s} : m # Ask(x)
  BY <1>4 DEF Ask
<1>8. WireTyped
  <2>1. Len(toHost') <= SendCap
    BY <1>1, <1>3, TypeParts, Bounds
  <2>2. /\ stream \in {"up", "lost", "down"} /\ missed \subseteq Captures
        /\ toPlugin \in Seq(ToPlugin) /\ Len(toPlugin) <= SendCap
    BY <1>1, TypeParts DEF TypeOK
  <2>. QED
    BY <1>3, <1>5, <2>1, <2>2 DEF WireTyped
\* What is left to show of each request.
<1>9. ASSUME handler' \in [Captures -> HandlerType], captures' \subseteq Captures,
             \A x \in Captures : TokenOf(x)' /\ (Begun(x)' /\ ToldOf(x) => Accounted(x)' \/ stream # "up")
      PROVE  BridgeIInv'
  <2>1. ServerTyped
    BY <1>1, <1>5, <1>9, TypeParts DEF ServerTyped, TypeOK
  <2>2. TypeOK'
    BY <1>1, <1>8, <2>1, TypedParts
  <2>3. ASSUME NEW x \in Captures PROVE (ClientOf(x) /\ TokenOf(x) /\ ToldOf(x))'
    <3>1. ClientOf(x) /\ TokenOf(x) /\ ToldOf(x)
      BY DEF BridgeIInv
    <3>2. ClientOf(x)'
      BY <1>5, <3>1, ClientStays
    <3>. QED
      BY <1>5, <1>9, <3>1, <3>2 DEF ToldOf
  <2>. QED
    BY <2>2, <2>3 DEF BridgeIInv
<1>10. \A x \in Captures : TokenOf(x) /\ ToldOf(x)
  BY DEF BridgeIInv
<1>11. \A x \in Captures : /\ Once(toHost', {Ask(x)})
                           /\ Ask(x) \in Ran(toHost') => Ask(x) \in Ran(toHost)
  BY <1>3, <1>10 DEF TokenOf
\* A request that changes no start of a handler.
<1>12. CASE /\ handler' \in [Captures -> HandlerType] /\ captures' = captures
            /\ \A x \in Captures : handler'[x].start = handler[x].start
  <2>1. ASSUME NEW x \in Captures
        PROVE  TokenOf(x)' /\ (Begun(x)' /\ ToldOf(x) => Accounted(x)' \/ stream # "up")
    <3>1. TokenOf(x)'
      BY <1>5, <1>10, <1>11, <1>12 DEF TokenOf
    <3>2. Begun(x)' = Begun(x) /\ Accounted(x)' = Accounted(x)
      BY <1>5, <1>12 DEF Begun, Accounted
    <3>. QED
      BY <3>1, <3>2 DEF ToldOf
  <2>. QED
    BY <1>1, <1>9, <1>12, <2>1 DEF TypeOK
<1>13. CASE /\ m = Ask(s) /\ handler' = [handler EXCEPT ![s].start = "working"]
            /\ captures' = captures \cup {s}
  <2>1. /\ handler' \in [Captures -> HandlerType] /\ handler'[s].start = "working"
        /\ \A x \in Captures \ {s} : handler'[x] = handler[x]
    BY <1>1, <1>13, HandlerIs
  <2>2. ASSUME NEW x \in Captures
        PROVE  TokenOf(x)' /\ (Begun(x)' /\ ToldOf(x) => Accounted(x)' \/ stream # "up")
    <3>1. CASE x # s
      <4>1. TokenOf(x)'
        BY <1>5, <1>10, <1>11, <2>1, <3>1 DEF TokenOf
      <4>2. Begun(x)' = Begun(x) /\ (Accounted(x) => Accounted(x)')
        BY <1>5, <1>13, <2>1, <3>1 DEF Begun, Accounted
      <4>. QED
        BY <4>1, <4>2 DEF ToldOf
    <3>2. CASE x = s
      <4>1. Ask(s) \in Ran(toHost) /\ Ask(s) \notin Ran(toHost')
        BY <1>3, <1>10, <1>13 DEF TokenOf
      <4>2. TokenOf(s)'
        BY <1>5, <1>10, <1>11, <2>1, <4>1 DEF TokenOf
      <4>3. Accounted(s)'
        BY <1>13 DEF Accounted
      <4>. QED
        BY <3>2, <4>2, <4>3
    <3>. QED
      BY <3>1, <3>2
  <2>. QED
    BY <1>1, <1>9, <1>13, <2>1, <2>2 DEF TypeOK
<1>14. CASE /\ handler[s].start = "working" /\ captures' = captures \ {s}
            /\ handler' = [handler EXCEPT ![s].start = "refused"]
  <2>1. /\ handler' \in [Captures -> HandlerType] /\ handler'[s].start = "refused"
        /\ \A x \in Captures \ {s} : handler'[x] = handler[x]
    BY <1>1, <1>14, HandlerIs
  <2>2. ASSUME NEW x \in Captures
        PROVE  TokenOf(x)' /\ (Begun(x)' /\ ToldOf(x) => Accounted(x)' \/ stream # "up")
    <3>1. TokenOf(x)'
      BY <1>5, <1>10, <1>11, <1>14, <2>1 DEF TokenOf
    <3>2. CASE x # s
      <4>1. Begun(x)' = Begun(x) /\ (Accounted(x) => Accounted(x)')
        BY <1>5, <1>14, <2>1, <3>2 DEF Begun, Accounted
      <4>. QED
        BY <3>1, <4>1 DEF ToldOf
    <3>3. CASE x = s
      <4>1. ~Begun(s)'
        BY <1>5, <1>14, <2>1, GoneIs
      <4>. QED
        BY <3>1, <3>3, <4>1
    <3>. QED
      BY <3>2, <3>3
  <2>. QED
    BY <1>1, <1>9, <1>14, <2>1, <2>2 DEF TypeOK
<1>15. CASE captures' = captures /\ handler' = [handler EXCEPT ![s].stop = "working"]
  <2>1. LET h == [handler EXCEPT ![s].stop = "working"] IN
        h \in [Captures -> HandlerType] /\ \A x \in Captures : h[x].start = handler[x].start
    BY <1>1, HandlerIs, Zenon
  <2>. QED
    BY <1>12, <1>15, <2>1
<1>16. CASE captures' = captures /\ handler' = handler
  BY <1>1, <1>12, <1>16, TypeParts
<1>. QED
  BY <1>6, <1>13, <1>14, <1>15, <1>16

LEMMA ForwardKeeps == ASSUME BridgeIInv, Forward PROVE BridgeIInv'
<1>. USE DEF client
<1>1. TypeOK /\ ClientTyped
  BY TypedParts DEF BridgeIInv, Forward
<1>2. PICK m \in Event \cup End, s \in Captures : m = Head(events) /\ s = m[2]
  <2>1. events \in Seq(Event \cup End) /\ events # <<>>
    BY <1>1, TypeParts DEF Forward
  <2>2. Head(events) \in Event \cup End
    BY <2>1, TailIs
  <2>. QED
    BY <2>2, MessageIs
<1>3. m \in ToPlugin /\ m[1] \in {"event", "stopped"} /\ \A x \in Captures : m \notin Answers(x)
  BY MessageIs DEF Answers
<1>4. UNCHANGED <<toHost, captures, emitted, call, registered, channel, seen, read, orphans>>
  BY DEF Forward
\* A second has passed with the queue full: the session ends.
<1>5. CASE stream' = "lost" /\ UNCHANGED <<events, toPlugin, dropped, handler, missed>>
  <2>1. ServerTyped /\ WireTyped
    BY <1>1, <1>4, <1>5, TypeParts DEF ServerTyped, WireTyped, TypeOK
  <2>2. TypeOK'
    BY <1>1, <2>1, TypedParts
  <2>3. ASSUME NEW x \in Captures PROVE (ClientOf(x) /\ TokenOf(x) /\ ToldOf(x))'
    <3>1. ClientOf(x) /\ TokenOf(x) /\ ToldOf(x)
      BY DEF BridgeIInv
    <3>2. ClientOf(x)'
      BY <1>4, <3>1, ClientStays DEF Forward
    <3>3. TokenOf(x)'
      BY <1>4, <1>5, <3>1 DEF TokenOf
    <3>. QED
      BY <1>5, <3>2, <3>3 DEF ToldOf
  <2>. QED
    BY <2>2, <2>3 DEF BridgeIInv
\* The event leaves the subscription.
<1>6. CASE /\ events' = Tail(events) /\ stream' = stream
           /\ \/ toPlugin' = Append(toPlugin, m) /\ Len(toPlugin) < SendCap
              \/ toPlugin' = toPlugin
           /\ m[1] = "stopped" => toPlugin' = Append(toPlugin, m) \/ s \in missed'
           /\ missed' = missed \cup {s} \/ missed' = missed
           /\ dropped' \in {dropped, dropped \cup {s}, dropped \ {s}}
           /\ handler' = [handler EXCEPT ![s].drop = TRUE] \/ handler' = handler
  <2>1. /\ events' \in Seq(Event \cup End) /\ Len(events') = Len(events) - 1
        /\ Ran(events) = {m} \cup Ran(events')
    BY <1>1, <1>2, <1>6, TypeParts, TailIs DEF Forward
  <2>2. /\ toPlugin' \in Seq(ToPlugin) /\ Len(toPlugin') <= SendCap
        /\ Ran(toPlugin) \subseteq Ran(toPlugin')
        /\ \A y : y \in Ran(toPlugin') /\ y # m => y \in Ran(toPlugin)
        /\ \A M : Once(toPlugin, M) /\ m \notin M => Once(toPlugin', M)
        /\ m \in Ran(toPlugin') \/ toPlugin' = toPlugin
    <3>1. CASE toPlugin' = toPlugin
      BY <1>1, <3>1, TypeParts
    <3>2. CASE toPlugin' = Append(toPlugin, m) /\ Len(toPlugin) < SendCap
      <4>1. /\ toPlugin' \in Seq(ToPlugin) /\ Len(toPlugin') = Len(toPlugin) + 1
            /\ Ran(toPlugin') = Ran(toPlugin) \cup {m}
            /\ \A M : Once(toPlugin, M) /\ m \notin M => Once(toPlugin', M)
        BY <1>1, <1>3, <3>2, TypeParts, AppendIs
      <4>2. Len(toPlugin') <= SendCap
        BY <1>1, <3>2, <4>1, TypeParts, Bounds
      <4>. QED
        BY <4>1, <4>2
    <3>. QED
      BY <1>6, <3>1, <3>2
  <2>3. handler' \in [Captures -> HandlerType] /\ \A x \in Captures : handler'[x].start = handler[x].start
    <3>1. LET h == [handler EXCEPT ![s].drop = TRUE] IN
          h \in [Captures -> HandlerType] /\ \A x \in Captures : h[x].start = handler[x].start
      <4>1. TRUE \in BOOLEAN
        OBVIOUS
      <4>. QED
        BY <1>1, <4>1, HandlerIs, Zenon
    <3>. QED
      BY <1>1, <1>6, <3>1, TypeParts
  <2>4. ServerTyped
    <3>1. dropped' \subseteq Captures
      BY <1>1, <1>6 DEF TypeOK
    <3>2. Len(events') <= EventCap
      BY <1>1, <2>1, TypeParts, Bounds
    <3>3. captures' \subseteq Captures /\ emitted' \in [Captures -> 0..MaxEvents]
      BY <1>1, <1>4 DEF TypeOK
    <3>. QED
      BY <2>1, <2>3, <3>1, <3>2, <3>3 DEF ServerTyped
  <2>5. WireTyped
    BY <1>1, <1>4, <1>6, <2>2, TypeParts DEF WireTyped, TypeOK
  <2>6. TypeOK'
    BY <1>1, <2>4, <2>5, TypedParts
  <2>7. ASSUME NEW x \in Captures PROVE (ClientOf(x) /\ TokenOf(x) /\ ToldOf(x))'
    <3>1. ClientOf(x) /\ TokenOf(x) /\ ToldOf(x)
      BY DEF BridgeIInv
    <3>2. ClientOf(x)'
      BY <1>4, <1>6, <3>1, ClientStays
    <3>3. Answers(x) \cap Ran(toPlugin') = Answers(x) \cap Ran(toPlugin)
          /\ Once(toPlugin', Answers(x))
      BY <1>3, <2>2, <3>1 DEF TokenOf
    <3>4. TokenOf(x)'
      BY <1>4, <2>3, <3>1, <3>3 DEF TokenOf
    <3>5. Begun(x)' = Begun(x)
      BY <1>4, <2>3, <3>3 DEF Begun, Answers
    <3>6. Accounted(x) => Accounted(x)'
      <4>1. CASE EndOf(x) = m
        <5>1. s = x /\ m[1] = "stopped"
          BY <1>2, <4>1 DEF EndOf
        <5>2. m \in Ran(toPlugin') \/ x \in missed'
          <6>1. Append(toPlugin, m) # toPlugin
            BY <1>1, <1>3, TypeParts
          <6>. QED
            BY <1>6, <2>2, <5>1, <6>1
        <5>. QED
          BY <4>1, <5>2 DEF Accounted
      <4>2. CASE EndOf(x) # m
        BY <1>4, <1>6, <2>1, <2>2, <4>2 DEF Accounted
      <4>. QED
        BY <4>1, <4>2
    <3>. QED
      BY <1>6, <3>1, <3>2, <3>4, <3>5, <3>6 DEF ToldOf
  <2>. QED
    BY <2>6, <2>7 DEF BridgeIInv
<1>7. Len(toPlugin) <= SendCap /\ Len(toPlugin) \in Nat /\ SendCap \in Nat
  BY <1>1, TypeParts, Bounds
<1>. DEFINE owned == m[1] = "stopped" \/ s \in captures
            full == Len(toPlugin) = SendCap
            late == m[1] = "stopped" /\ s \in dropped
<1>8. CASE owned /\ full /\ late
  BY <1>2, <1>5, <1>8 DEF Forward
<1>9. CASE ~(owned /\ full /\ late)
  <2>1. /\ events' = Tail(events) /\ stream' = stream
        /\ toPlugin' = IF owned /\ ~full THEN Append(toPlugin, m) ELSE toPlugin
        /\ dropped' \in {dropped, dropped \cup {s}, dropped \ {s}}
        /\ handler' = [handler EXCEPT ![s].drop = TRUE] \/ handler' = handler
        /\ missed' = IF owned /\ full /\ m[1] = "stopped" THEN missed \cup {s} ELSE missed
    BY <1>2, <1>9 DEF Forward
  <2>2. ~full => Len(toPlugin) < SendCap
    BY <1>7
  <2>3. m[1] = "stopped" => owned
    OBVIOUS
  <2>. QED
    BY <1>6, <2>1, <2>2, <2>3
<1>. QED
  BY <1>8, <1>9

-----------------------------------------------------------------------------
(* The calls of the plugin *)

\* A call of which only the start changes.
LEMMA CallIs ==
  ASSUME TypeOK, NEW s \in Captures,
         NEW v \in {"idle", "waiting", "answered", "replaying", "returned", "failed"},
         call' = [call EXCEPT ![s].start = v]
  PROVE  /\ call' \in [Captures -> CallType] /\ \A x \in Captures \ {s} : call'[x] = call[x]
         /\ call'[s].start = v /\ call'[s].replay = call[s].replay /\ call'[s].stop = call[s].stop
<1>1. call \in [Captures -> CallType] /\ call[s] \in CallType
  BY TypeParts
<1>2. PICK d : d = [call[s] EXCEPT !.start = v]
  OBVIOUS
<1>3. d \in CallType /\ d.start = v /\ d.replay = call[s].replay /\ d.stop = call[s].stop
  BY <1>1, <1>2 DEF CallType
<1>4. call' = [call EXCEPT ![s] = d]
  BY <1>2
<1>. QED
  BY <1>1, <1>3, <1>4

\* A step of the plugin's calls keeps the invariant if it keeps that of each
\* capture, and touches neither the host nor its answers.
LEMMA ClientStep ==
  ASSUME BridgeIInv, UNCHANGED <<stream, toPlugin, server, missed>>,
         ClientTyped, toHost' \in Seq(ToHost), Len(toHost') <= SendCap,
         \A x \in Captures : ClientOf(x)' /\ TokenOf(x)' /\ (Begun(x)' => Begun(x))
  PROVE  BridgeIInv'
<1>. USE DEF server
<1>1. TypeOK /\ ServerTyped
  BY TypedParts DEF BridgeIInv
<1>2. WireTyped
  BY <1>1, TypeParts DEF WireTyped, TypeOK
<1>3. TypeOK'
  BY <1>1, <1>2, TypedParts
<1>4. ASSUME NEW x \in Captures PROVE (ClientOf(x) /\ TokenOf(x) /\ ToldOf(x))'
  <2>1. ToldOf(x)
    BY DEF BridgeIInv
  <2>2. Accounted(x)' = Accounted(x)
    BY DEF Accounted
  <2>. QED
    BY <2>1, <2>2 DEF ToldOf
<1>. QED
  BY <1>3, <1>4 DEF BridgeIInv

\* A capture whose call, channel and orphans are as before.
LEMMA Untouched ==
  ASSUME NEW x \in Captures, ClientOf(x), TokenOf(x),
         UNCHANGED <<stream, toPlugin>>, handler'[x].start = handler[x].start,
         call'[x] = call[x], channel'[x] = channel[x], orphans'[x] = orphans[x],
         read'[x] = read[x], seen'[x] = seen[x], x \in registered' <=> x \in registered,
         Once(toHost, {Ask(x)}) => Once(toHost', {Ask(x)}),
         Ask(x) \in Ran(toHost') => Ask(x) \in Ran(toHost)
  PROVE  ClientOf(x)' /\ TokenOf(x)' /\ (Begun(x)' => Begun(x))
<1>1. ClientOf(x)'
  BY DEF ClientOf, EarlyOf, KeptOf, ClosedOf, Closed
<1>2. TokenOf(x)'
  BY DEF TokenOf
<1>3. Begun(x)' => Begun(x)
  BY DEF Begun, Closed
<1>. QED
  BY <1>1, <1>2, <1>3

LEMMA StartKeeps == ASSUME BridgeIInv, NEW s \in Captures, Start(s) PROVE BridgeIInv'
<1>1. TypeOK /\ \A x \in Captures : ClientOf(x) /\ TokenOf(x)
  BY DEF BridgeIInv
<1>2. UNCHANGED <<stream, toPlugin, server, registered, orphans, channel, read, seen, missed>>
      /\ call[s].start = "idle" /\ handler' = handler
  BY DEF Start, server
<1>3. PICK v \in {"waiting", "failed"} :
        /\ call' = [call EXCEPT ![s].start = v]
        /\ toHost' = IF v = "waiting" THEN Append(toHost, Ask(s)) ELSE toHost
        /\ v = "waiting" => Len(toHost) < SendCap
  <2>1. CASE Len(toHost) < SendCap /\ call' = [call EXCEPT ![s].start = "waiting"]
             /\ toHost' = Append(toHost, Ask(s))
    BY <2>1
  <2>2. CASE call' = [call EXCEPT ![s].start = "failed"] /\ toHost' = toHost
    BY <2>2
  <2>. QED
    BY <2>1, <2>2 DEF Start, Ask
<1>4. /\ call' \in [Captures -> CallType] /\ \A x \in Captures \ {s} : call'[x] = call[x]
      /\ call'[s].start = v /\ call'[s].replay = call[s].replay /\ call'[s].stop = call[s].stop
  BY <1>1, <1>3, CallIs
<1>5. Ask(s) \in ToHost /\ \A x \in Captures \ {s} : Ask(s) \notin {Ask(x)}
  BY DEF Ask, ToHost
<1>6. Ask(s) \notin Ran(toHost) /\ handler[s].start = "none" /\ Answers(s) \cap Ran(toPlugin) = {}
  BY <1>1, <1>2 DEF TokenOf
<1>7. /\ toHost' \in Seq(ToHost) /\ Len(toHost') <= SendCap
      /\ Ran(toHost') \subseteq Ran(toHost) \cup {Ask(s)}
      /\ \A x \in Captures : Once(toHost, {Ask(x)}) => Once(toHost', {Ask(x)})
  <2>1. CASE toHost' = toHost
    BY <1>1, <2>1, TypeParts
  <2>2. CASE toHost' = Append(toHost, Ask(s)) /\ Len(toHost) < SendCap
    <3>1. /\ toHost' \in Seq(ToHost) /\ Len(toHost') = Len(toHost) + 1
          /\ Ran(toHost') = Ran(toHost) \cup {Ask(s)}
          /\ \A M : Once(toHost, M) /\ (Ask(s) \notin M \/ M \cap Ran(toHost) = {}) =>
                    Once(toHost', M)
      BY <1>1, <1>5, <2>2, TypeParts, AppendIs
    <3>2. Len(toHost') <= SendCap
      BY <1>1, <2>2, <3>1, TypeParts, Bounds
    <3>3. \A x \in Captures : Ask(s) \notin {Ask(x)} \/ {Ask(x)} \cap Ran(toHost) = {}
      BY <1>5, <1>6
    <3>. QED
      BY <3>1, <3>2, <3>3
  <2>. QED
    BY <1>3, <2>1, <2>2
<1>8. ClientTyped
  BY <1>1, <1>2, <1>4, TypeParts DEF ClientTyped, TypeOK
<1>9. ASSUME NEW x \in Captures PROVE ClientOf(x)' /\ TokenOf(x)' /\ (Begun(x)' => Begun(x))
  <2>1. CASE x # s
    <3>1. Ask(x) \in Ran(toHost') => Ask(x) \in Ran(toHost)
      BY <1>5, <1>7, <2>1
    <3>. QED
      BY <1>1, <1>2, <1>4, <1>7, <2>1, <3>1, Untouched
  <2>2. CASE x = s
    <3>1. ClientOf(s)'
      BY <1>1, <1>2, <1>4 DEF ClientOf, EarlyOf, KeptOf, ClosedOf, Early
    <3>2. TokenOf(s)'
      BY <1>1, <1>2, <1>4, <1>6, <1>7 DEF TokenOf
    <3>3. ~Begun(s)'
      BY <1>2, <1>3, <1>4, <1>6 DEF Begun, Answers
    <3>. QED
      BY <2>2, <3>1, <3>2, <3>3
  <2>. QED
    BY <2>1, <2>2
<1>. QED
  BY <1>2, <1>7, <1>8, <1>9, ClientStep

LEMMA CancelKeeps == ASSUME BridgeIInv, NEW s \in Captures, Cancel(s) PROVE BridgeIInv'
<1>1. TypeOK /\ \A x \in Captures : ClientOf(x) /\ TokenOf(x)
  BY DEF BridgeIInv
<1>2. UNCHANGED <<stream, toPlugin, server, registered, orphans, channel, read, seen, missed>>
      /\ call[s].start = "waiting" /\ handler' = handler
  BY DEF Cancel, server
<1>3. /\ call' \in [Captures -> CallType] /\ \A x \in Captures \ {s} : call'[x] = call[x]
      /\ call'[s].start = "failed" /\ call'[s].replay = call[s].replay
      /\ call'[s].stop = call[s].stop
  BY <1>1, CallIs DEF Cancel
<1>4. AsksAsBefore
  <2>1. <<"cancel", s>> \in ToHost /\ <<"cancel", s>>[1] # "start"
    BY DEF ToHost
  <2>. QED
    BY <1>1, <2>1, RequestIs DEF Cancel
<1>5. ClientTyped
  BY <1>1, <1>2, <1>3, TypeParts DEF ClientTyped, TypeOK
<1>6. ASSUME NEW x \in Captures PROVE ClientOf(x)' /\ TokenOf(x)' /\ (Begun(x)' => Begun(x))
  <2>1. CASE x # s
    BY <1>1, <1>2, <1>3, <1>4, <2>1, Untouched DEF AsksAsBefore
  <2>2. CASE x = s
    <3>1. ClientOf(s)'
      BY <1>1, <1>2, <1>3 DEF ClientOf, EarlyOf, KeptOf, ClosedOf, Early
    <3>2. TokenOf(s)'
      BY <1>1, <1>2, <1>3, <1>4 DEF TokenOf, AsksAsBefore
    <3>3. Begun(s)' => Begun(s)
      BY <1>2, <1>3 DEF Begun
    <3>. QED
      BY <2>2, <3>1, <3>2, <3>3
  <2>. QED
    BY <2>1, <2>2
<1>. QED
  BY <1>2, <1>4, <1>5, <1>6, ClientStep DEF AsksAsBefore

LEMMA RegisterKeeps == ASSUME BridgeIInv, NEW s \in Captures, Register(s) PROVE BridgeIInv'
<1>1. TypeOK /\ \A x \in Captures : ClientOf(x) /\ TokenOf(x)
  BY DEF BridgeIInv
<1>2. /\ UNCHANGED <<stream, toPlugin, server, channel, read, seen, missed, toHost, handler>>
      /\ call[s].start = "answered" /\ registered' = registered \cup {s}
      /\ orphans' = [orphans EXCEPT ![s] = <<>>]
  BY DEF Register, server
<1>3. /\ call' \in [Captures -> CallType] /\ \A x \in Captures \ {s} : call'[x] = call[x]
      /\ call'[s].start = "replaying" /\ call'[s].replay = orphans[s]
      /\ call'[s].stop = call[s].stop
  <2>1. /\ call \in [Captures -> CallType] /\ call[s] \in CallType /\ orphans[s] \in Seq(Numbers)
    BY <1>1, TypeParts
  <2>2. PICK d : d = [call[s] EXCEPT !.start = "replaying", !.replay = orphans[s]]
    OBVIOUS
  <2>3. /\ d \in CallType /\ d.start = "replaying" /\ d.replay = orphans[s]
        /\ d.stop = call[s].stop
    BY <2>1, <2>2 DEF CallType
  <2>4. call' = [call EXCEPT ![s] = d]
    BY <2>1, <2>2 DEF Register, CallType
  <2>. QED
    BY <2>1, <2>3, <2>4
<1>4. /\ orphans' \in [Captures -> Seq(Numbers)] /\ orphans'[s] = <<>>
      /\ \A x \in Captures \ {s} : orphans'[x] = orphans[x]
      /\ \A x \in Captures : Len(orphans'[x]) <= OrphanCap
  <2>1. /\ orphans \in [Captures -> Seq(Numbers)]
        /\ \A x \in Captures : Len(orphans[x]) <= OrphanCap
    BY <1>1 DEF TypeOK
  <2>2. <<>> \in Seq(Numbers) /\ Len(<<>>) <= OrphanCap
    BY Bounds
  <2>. QED
    BY <1>2, <2>1, <2>2
<1>5. ClientTyped
  BY <1>1, <1>2, <1>3, <1>4, TypeParts DEF ClientTyped, TypeOK
<1>6. toHost' \in Seq(ToHost) /\ Len(toHost') <= SendCap
  BY <1>1, <1>2, TypeParts
<1>7. ASSUME NEW x \in Captures PROVE ClientOf(x)' /\ TokenOf(x)' /\ (Begun(x)' => Begun(x))
  <2>1. CASE x # s
    BY <1>1, <1>2, <1>3, <1>4, <2>1, Untouched
  <2>2. CASE x = s
    <3>1. EarlyOf(s)' /\ ClosedOf(s)'
      BY <1>1, <1>2, <1>3 DEF ClientOf, EarlyOf, ClosedOf, Early, Closed
    <3>2. KeptOf(s)'
      <4>1. /\ channel[s].buffer = <<>> /\ seen[s] = {}
            /\ stream # "down" => read[s] = Ran(orphans[s])
        BY <1>1, <1>2 DEF ClientOf, EarlyOf, Early
      <4>. QED
        BY <1>2, <1>3, <4>1, EmptyQueue DEF KeptOf
    <3>3. TokenOf(s)'
      BY <1>1, <1>2, <1>3 DEF TokenOf
    <3>4. Begun(s)' => Begun(s)
      BY <1>2, <1>3 DEF Begun
    <3>. QED
      BY <2>2, <3>1, <3>2, <3>3, <3>4 DEF ClientOf
  <2>. QED
    BY <2>1, <2>2
<1>. QED
  BY <1>2, <1>5, <1>6, <1>7, ClientStep

LEMMA ReplayKeeps == ASSUME BridgeIInv, NEW s \in Captures, Replay(s) PROVE BridgeIInv'
<1>1. TypeOK /\ \A x \in Captures : ClientOf(x) /\ TokenOf(x)
  BY DEF BridgeIInv
<1>2. /\ UNCHANGED <<stream, toPlugin, server, registered, orphans, read, seen, missed, handler>>
      /\ call[s].start = "replaying"
  BY DEF Replay, server
<1>3. /\ call \in [Captures -> CallType] /\ call[s] \in CallType /\ call[s].replay \in Seq(Numbers)
      /\ channel \in [Captures -> ChannelType] /\ channel[s] \in ChannelType
  BY <1>1, TypeParts DEF CallType
\* What is left to show of the two branches.
<1>4. ASSUME AsksAsBefore,
             call' \in [Captures -> CallType], \A x \in Captures \ {s} : call'[x] = call[x],
             channel' \in [Captures -> ChannelType],
             \A x \in Captures \ {s} : channel'[x] = channel[x],
             call'[s].start \in {"replaying", "returned"},
             Closed(channel[s]) => Closed(channel'[s]),
             call'[s].stop = "done" => call[s].stop = "done",
             ~Closed(channel'[s]) => Ran(channel'[s].buffer) \cup Ran(call'[s].replay)
                                       = Ran(channel[s].buffer) \cup Ran(call[s].replay)
      PROVE  BridgeIInv'
  <2>1. ClientTyped
    BY <1>1, <1>2, <1>4, TypeParts DEF ClientTyped, TypeOK
  <2>2. ASSUME NEW x \in Captures PROVE ClientOf(x)' /\ TokenOf(x)' /\ (Begun(x)' => Begun(x))
    <3>1. CASE x # s
      BY <1>1, <1>2, <1>4, <3>1, Untouched DEF AsksAsBefore
    <3>2. CASE x = s
      <4>1. EarlyOf(s)' /\ ClosedOf(s)'
        BY <1>1, <1>2, <1>4 DEF ClientOf, EarlyOf, ClosedOf, Early, Closed
      <4>2. KeptOf(s)'
        BY <1>1, <1>2, <1>4 DEF ClientOf, KeptOf, Closed
      <4>3. TokenOf(s)'
        BY <1>1, <1>2, <1>4 DEF TokenOf, AsksAsBefore
      <4>4. Begun(s)' => Begun(s)
        BY <1>2, <1>4 DEF Begun, Closed
      <4>. QED
        BY <3>2, <4>1, <4>2, <4>3, <4>4 DEF ClientOf
    <3>. QED
      BY <3>1, <3>2
  <2>. QED
    BY <1>2, <1>4, <2>1, <2>2, ClientStep DEF AsksAsBefore
<1>5. CASE call[s].replay = <<>>
  <2>1. channel' = channel /\ toHost' = toHost /\ call' = [call EXCEPT ![s].start = "returned"]
    BY <1>5 DEF Replay
  <2>2. /\ call' \in [Captures -> CallType] /\ \A x \in Captures \ {s} : call'[x] = call[x]
        /\ call'[s].start = "returned" /\ call'[s].replay = call[s].replay
        /\ call'[s].stop = call[s].stop
    BY <1>1, <2>1, CallIs
  <2>3. AsksAsBefore
    BY <1>1, <2>1, StopRequestIs
  <2>. QED
    BY <1>3, <1>4, <2>1, <2>2, <2>3
<1>6. CASE call[s].replay # <<>>
  <2>1. PICK rest : rest = [call[s] EXCEPT !.replay = Tail(@)]
    OBVIOUS
  <2>2. /\ Head(call[s].replay) \in Numbers /\ Tail(call[s].replay) \in Seq(Numbers)
        /\ Ran(call[s].replay) = {Head(call[s].replay)} \cup Ran(Tail(call[s].replay))
    BY <1>3, <1>6, TailIs
  <2>3. /\ rest \in CallType /\ rest.start = call[s].start /\ rest.stop = call[s].stop
        /\ rest.replay = Tail(call[s].replay)
    BY <1>3, <2>1, <2>2 DEF CallType
  <2>4. PICK d : d = IF Overflows(s) THEN Stopping(rest) ELSE rest
    OBVIOUS
  <2>5. /\ d \in CallType /\ d.start = "replaying" /\ d.replay = Tail(call[s].replay)
        /\ d.stop = "done" => call[s].stop = "done"
    BY <1>2, <2>3, <2>4, StoppingIs
  <2>6. /\ channel' = [channel EXCEPT ![s] = Push(channel[s], Head(call[s].replay))]
        /\ call' = [call EXCEPT ![s] = d]
        /\ toHost' = StopRequest(s) \/ toHost' = toHost
    BY <1>6, <2>1, <2>4 DEF Replay
  <2>7. /\ call' \in [Captures -> CallType] /\ call'[s] = d
        /\ \A x \in Captures \ {s} : call'[x] = call[x]
    BY <1>3, <2>5, <2>6
  <2>8. PICK p : p = Push(channel[s], Head(call[s].replay))
    OBVIOUS
  <2>9. /\ p \in ChannelType
        /\ Closed(channel[s]) => Closed(p)
        /\ ~Closed(channel[s]) /\ ~Closed(p) =>
             Ran(p.buffer) = Ran(channel[s].buffer) \cup {Head(call[s].replay)}
    BY <1>3, <2>2, <2>8, PushIs
  <2>10. /\ channel' \in [Captures -> ChannelType] /\ channel'[s] = p
         /\ \A x \in Captures \ {s} : channel'[x] = channel[x]
    BY <1>3, <2>6, <2>8, <2>9
  <2>11. AsksAsBefore
    BY <1>1, <2>6, StopRequestIs
  <2>12. ~Closed(channel'[s]) => Ran(channel'[s].buffer) \cup Ran(call'[s].replay)
                                   = Ran(channel[s].buffer) \cup Ran(call[s].replay)
    BY <2>2, <2>5, <2>7, <2>9, <2>10
  <2>13. Closed(channel[s]) => Closed(channel'[s])
    BY <2>9, <2>10
  <2>14. call'[s].start \in {"replaying", "returned"} /\ (call'[s].stop = "done" => call[s].stop = "done")
    BY <2>5, <2>7
  <2>. QED
    BY <1>4, <2>7, <2>10, <2>11, <2>12, <2>13, <2>14
<1>. QED
  BY <1>5, <1>6

LEMMA ConsumeKeeps == ASSUME BridgeIInv, NEW s \in Captures, Consume(s) PROVE BridgeIInv'
<1>1. TypeOK /\ \A x \in Captures : ClientOf(x) /\ TokenOf(x)
  BY DEF BridgeIInv
<1>2. /\ UNCHANGED <<stream, toHost, toPlugin, server, call, registered, orphans, read, missed,
                     handler>>
      /\ call[s].start = "returned"
  BY DEF Consume, server
<1>3. channel \in [Captures -> ChannelType] /\ channel[s] \in ChannelType
      /\ channel[s].buffer \in Seq(Numbers)
  BY <1>1, TypeParts DEF ChannelType
<1>4. PICK d : d = [channel[s] EXCEPT !.buffer = Tail(channel[s].buffer)]
  OBVIOUS
<1>5. /\ Head(channel[s].buffer) \in Numbers /\ Tail(channel[s].buffer) \in Seq(Numbers)
      /\ Ran(channel[s].buffer) = {Head(channel[s].buffer)} \cup Ran(Tail(channel[s].buffer))
  BY <1>3, TailIs DEF Consume
<1>6. d \in ChannelType /\ d.closes = channel[s].closes /\ d.buffer = Tail(channel[s].buffer)
  BY <1>3, <1>4, <1>5 DEF ChannelType
<1>7. channel' = [channel EXCEPT ![s] = d]
  BY <1>3, <1>4 DEF Consume
<1>8. /\ channel' \in [Captures -> ChannelType] /\ channel'[s] = d
      /\ \A x \in Captures \ {s} : channel'[x] = channel[x]
  BY <1>3, <1>6, <1>7
<1>9. /\ seen' \in [Captures -> SUBSET Numbers]
      /\ seen'[s] = seen[s] \cup {Head(channel[s].buffer)}
      /\ \A x \in Captures \ {s} : seen'[x] = seen[x]
  BY <1>1, <1>5 DEF Consume, TypeOK
<1>10. ClientTyped
  BY <1>1, <1>2, <1>8, <1>9, TypeParts DEF ClientTyped, TypeOK
<1>11. toHost' \in Seq(ToHost) /\ Len(toHost') <= SendCap
  BY <1>1, <1>2, TypeParts
<1>12. ASSUME NEW x \in Captures PROVE ClientOf(x)' /\ TokenOf(x)' /\ (Begun(x)' => Begun(x))
  <2>1. CASE x # s
    BY <1>1, <1>2, <1>8, <1>9, <2>1, Untouched
  <2>2. CASE x = s
    <3>1. EarlyOf(s)' /\ ClosedOf(s)'
      BY <1>1, <1>2, <1>6, <1>8 DEF ClientOf, EarlyOf, ClosedOf, Early, Closed
    <3>2. KeptOf(s)'
      <4>1. seen'[s] \cup Ran(channel'[s].buffer) = seen[s] \cup Ran(channel[s].buffer)
        BY <1>5, <1>6, <1>8, <1>9
      <4>. QED
        BY <1>1, <1>2, <1>6, <1>8, <4>1 DEF ClientOf, KeptOf, Closed
    <3>3. TokenOf(s)'
      BY <1>1, <1>2 DEF TokenOf
    <3>4. Begun(s)' => Begun(s)
      BY <1>2, <1>6, <1>8 DEF Begun, Closed
    <3>. QED
      BY <2>2, <3>1, <3>2, <3>3, <3>4 DEF ClientOf
  <2>. QED
    BY <2>1, <2>2
<1>. QED
  BY <1>2, <1>10, <1>11, <1>12, ClientStep

LEMMA StopKeeps == ASSUME BridgeIInv, NEW s \in Captures, Stop(s) PROVE BridgeIInv'
<1>1. TypeOK /\ \A x \in Captures : ClientOf(x) /\ TokenOf(x)
  BY DEF BridgeIInv
<1>2. UNCHANGED <<stream, toPlugin, server, registered, orphans, channel, read, seen, missed, handler>>
  BY DEF Stop, server
<1>3. call \in [Captures -> CallType] /\ call[s] \in CallType
  BY <1>1, TypeParts
<1>4. PICK d : d = Stopping(call[s])
  OBVIOUS
<1>5. /\ d \in CallType /\ d.start = call[s].start /\ d.replay = call[s].replay
      /\ d.stop = "done" => call[s].stop = "done"
  BY <1>3, <1>4, StoppingIs
<1>6. /\ call' \in [Captures -> CallType] /\ call'[s] = d
      /\ \A x \in Captures \ {s} : call'[x] = call[x]
  BY <1>3, <1>4, <1>5 DEF Stop
<1>7. AsksAsBefore
  BY <1>1, StopRequestIs DEF Stop
<1>8. ClientTyped
  BY <1>1, <1>2, <1>6, TypeParts DEF ClientTyped, TypeOK
<1>9. call[s].start = "returned"
  BY DEF Stop
<1>10. ASSUME NEW x \in Captures PROVE ClientOf(x)' /\ TokenOf(x)' /\ (Begun(x)' => Begun(x))
  <2>1. CASE x # s
    BY <1>1, <1>2, <1>6, <1>7, <2>1, Untouched DEF AsksAsBefore
  <2>2. CASE x = s
    <3>1. ClientOf(s)'
      BY <1>1, <1>2, <1>5, <1>6, <1>9 DEF ClientOf, EarlyOf, KeptOf, ClosedOf, Early, Closed
    <3>2. TokenOf(s)'
      BY <1>1, <1>2, <1>5, <1>6, <1>7 DEF TokenOf, AsksAsBefore
    <3>3. Begun(s)' => Begun(s)
      BY <1>2, <1>5, <1>6 DEF Begun
    <3>. QED
      BY <2>2, <3>1, <3>2, <3>3
  <2>. QED
    BY <2>1, <2>2
<1>. QED
  BY <1>2, <1>7, <1>8, <1>10, ClientStep DEF AsksAsBefore

LEMMA EndStopKeeps == ASSUME BridgeIInv, NEW s \in Captures, EndStop(s) PROVE BridgeIInv'
<1>1. TypeOK /\ \A x \in Captures : ClientOf(x) /\ TokenOf(x)
  BY DEF BridgeIInv
<1>2. /\ UNCHANGED <<stream, toHost, toPlugin, server, orphans, read, seen, missed, handler>>
      /\ call[s].stop \in {"ending", "waiting"} /\ registered' = registered \ {s}
  BY DEF EndStop, server
<1>3. /\ call \in [Captures -> CallType] /\ call[s] \in CallType
      /\ channel \in [Captures -> ChannelType] /\ channel[s] \in ChannelType
  BY <1>1, TypeParts
<1>4. PICK d : d = [call[s] EXCEPT !.stop = "done"]
  OBVIOUS
<1>5. d \in CallType /\ d.start = call[s].start /\ d.replay = call[s].replay /\ d.stop = "done"
  BY <1>3, <1>4 DEF CallType
<1>6. call' = [call EXCEPT ![s] = d]
  BY <1>4 DEF EndStop
<1>7. /\ call' \in [Captures -> CallType] /\ call'[s] = d
      /\ \A x \in Captures \ {s} : call'[x] = call[x]
  BY <1>3, <1>5, <1>6
<1>8. PICK p : p = Shut(channel[s])
  OBVIOUS
<1>9. p \in ChannelType /\ Closed(p)
  BY <1>3, <1>8, ShutIs
<1>10. /\ channel' \in [Captures -> ChannelType] /\ channel'[s] = p
       /\ \A x \in Captures \ {s} : channel'[x] = channel[x]
  BY <1>3, <1>8, <1>9 DEF EndStop
<1>11. ClientTyped
  BY <1>1, <1>2, <1>7, <1>10, TypeParts DEF ClientTyped, TypeOK
<1>12. toHost' \in Seq(ToHost) /\ Len(toHost') <= SendCap
  BY <1>1, <1>2, TypeParts
<1>13. call[s].start \notin Early
  BY <1>1, <1>2 DEF ClientOf, EarlyOf
<1>14. ASSUME NEW x \in Captures PROVE ClientOf(x)' /\ TokenOf(x)' /\ (Begun(x)' => Begun(x))
  <2>1. CASE x # s
    BY <1>1, <1>2, <1>7, <1>10, <2>1, Untouched
  <2>2. CASE x = s
    <3>1. ClientOf(s)'
      BY <1>2, <1>5, <1>7, <1>9, <1>10, <1>13 DEF ClientOf, EarlyOf, KeptOf, ClosedOf, Closed, Early
    <3>2. TokenOf(s)'
      BY <1>1, <1>2, <1>5, <1>7 DEF TokenOf
    <3>3. Begun(s)' => Begun(s)
      BY <1>2, <1>9, <1>10 DEF Begun, Closed
    <3>. QED
      BY <2>2, <3>1, <3>2, <3>3
  <2>. QED
    BY <2>1, <2>2
<1>. QED
  BY <1>2, <1>11, <1>12, <1>14, ClientStep

-----------------------------------------------------------------------------
(* The reader of the client *)

\* What the reader takes from the stream.
LEMMA ReadsIs ==
  ASSUME BridgeIInv, NEW kinds, Reads(kinds)
  PROVE  /\ Head(toPlugin) \in ToPlugin /\ Head(toPlugin)[2] \in Captures
         /\ Head(toPlugin)[1] \in kinds
         /\ Ran(toPlugin) = {Head(toPlugin)} \cup Ran(toPlugin')
         /\ toPlugin' \in Seq(ToPlugin) /\ Len(toPlugin') <= SendCap
         /\ \A M : Once(toPlugin, M) =>
              /\ Once(toPlugin', M)
              /\ Head(toPlugin) \in M => M \cap Ran(toPlugin') = {}
         /\ UNCHANGED <<stream, events, captures, emitted, handler, dropped, seen>>
<1>1. TypeOK /\ toPlugin \in Seq(ToPlugin) /\ toPlugin # <<>> /\ toPlugin' = Tail(toPlugin)
  BY TypeParts DEF BridgeIInv, Reads
<1>2. /\ Head(toPlugin) \in ToPlugin /\ toPlugin' \in Seq(ToPlugin)
      /\ Len(toPlugin') = Len(toPlugin) - 1
      /\ Ran(toPlugin) = {Head(toPlugin)} \cup Ran(toPlugin')
      /\ \A M : Once(toPlugin, M) =>
           /\ Once(toPlugin', M)
           /\ Head(toPlugin) \in M => M \cap Ran(toPlugin') = {}
  BY <1>1, TailIs
<1>3. Len(toPlugin') <= SendCap
  BY <1>1, <1>2, TypeParts, Bounds
<1>4. Head(toPlugin)[2] \in Captures
  BY <1>2, MessageIs
<1>. QED
  BY <1>2, <1>3, <1>4 DEF Reads, server

\* A step of the reader keeps the invariant if it keeps that of each capture.
LEMMA ReaderStep ==
  ASSUME BridgeIInv, NEW kinds, Reads(kinds), ClientTyped,
         toHost' \in Seq(ToHost), Len(toHost') <= SendCap, missed' \subseteq Captures,
         \A x \in Captures : ClientOf(x)' /\ TokenOf(x)' /\ ToldOf(x)'
  PROVE  BridgeIInv'
<1>1. TypeOK
  BY DEF BridgeIInv
<1>2. UNCHANGED server
  BY DEF Reads
<1>3. ServerTyped
  BY <1>1, <1>2, TypedParts
<1>4. stream' \in {"up", "lost", "down"}
  BY <1>1 DEF Reads, TypeOK
<1>5. WireTyped
  BY <1>4, ReadsIs DEF WireTyped
<1>6. TypeOK'
  BY <1>1, <1>3, <1>5, TypedParts
<1>. QED
  BY <1>6 DEF BridgeIInv

\* Of a capture the message is not about, everything stays as it was.
LEMMA OthersStay ==
  ASSUME BridgeIInv, NEW kinds, Reads(kinds), NEW x \in Captures, Head(toPlugin)[2] # x,
         call'[x] = call[x], channel'[x] = channel[x], orphans'[x] = orphans[x],
         read'[x] = read[x], x \in registered' <=> x \in registered,
         x \in missed => x \in missed',
         Once(toHost, {Ask(x)}) => Once(toHost', {Ask(x)}),
         Ask(x) \in Ran(toHost') => Ask(x) \in Ran(toHost)
  PROVE  ClientOf(x)' /\ TokenOf(x)' /\ ToldOf(x)'
<1>1. ClientOf(x) /\ TokenOf(x) /\ ToldOf(x)
  BY DEF BridgeIInv
<1>2. Head(toPlugin) \notin Answers(x) /\ Head(toPlugin) # EndOf(x)
  BY DEF Answers, EndOf
<1>3. Ran(toPlugin) = {Head(toPlugin)} \cup Ran(toPlugin')
      /\ UNCHANGED <<stream, events, captures, handler, seen>>
      /\ \A M : Once(toPlugin, M) => Once(toPlugin', M)
  BY ReadsIs
<1>4. ClientOf(x)'
  BY <1>1, <1>3 DEF ClientOf, EarlyOf, KeptOf, ClosedOf, Closed
<1>5. TokenOf(x)'
  BY <1>1, <1>2, <1>3 DEF TokenOf
<1>6. Begun(x)' => Begun(x)
  BY <1>3 DEF Begun, Closed
<1>7. Accounted(x) => Accounted(x)'
  BY <1>2, <1>3 DEF Accounted
<1>8. ToldOf(x)'
  BY <1>1, <1>3, <1>6, <1>7 DEF ToldOf
<1>. QED
  BY <1>4, <1>5, <1>8

LEMMA ReadAnswerKeeps == ASSUME BridgeIInv, ReadAnswer PROVE BridgeIInv'
<1>. DEFINE kinds == {"started", "refused", "stop"}
<1>1. TypeOK /\ \A x \in Captures : ClientOf(x) /\ TokenOf(x) /\ ToldOf(x)
  BY DEF BridgeIInv
<1>2. Reads(kinds) /\ UNCHANGED <<toHost, registered, orphans, channel, read, missed>>
  BY DEF ReadAnswer
<1>3. PICK m \in ToPlugin, s \in Captures : m = Head(toPlugin) /\ s = m[2]
  BY <1>2, ReadsIs
<1>4. /\ m[1] \in kinds /\ m = <<m[1], s>>
      /\ Ran(toPlugin) = {m} \cup Ran(toPlugin')
      /\ \A M : Once(toPlugin, M) =>
           /\ Once(toPlugin', M)
           /\ m \in M => M \cap Ran(toPlugin') = {}
      /\ UNCHANGED <<stream, events, captures, emitted, handler, dropped, seen>>
  <2>1. m[1] \in kinds
    BY <1>2, <1>3, ReadsIs
  <2>2. m = <<m[1], s>>
    BY <1>3, <2>1, MessageIs
  <2>. QED
    BY <1>2, <1>3, <2>1, <2>2, ReadsIs
<1>5. call \in [Captures -> CallType] /\ call[s] \in CallType
  BY <1>1, TypeParts
<1>6. PICK d : /\ call' = [call EXCEPT ![s] = d]
               /\ \/ /\ m[1] = "started" /\ call[s].start = "waiting"
                     /\ d = [call[s] EXCEPT !.start = "answered"]
                  \/ /\ m[1] = "refused" /\ call[s].start = "waiting"
                     /\ d = [call[s] EXCEPT !.start = "failed"]
                  \/ /\ m[1] = "stop" /\ call[s].stop = "waiting"
                     /\ d = [call[s] EXCEPT !.stop = "ending"]
                  \/ d = call[s]
  <2>1. CASE m[1] = "started" /\ call[s].start = "waiting"
    BY <1>3, <2>1 DEF ReadAnswer
  <2>2. CASE m[1] = "refused" /\ call[s].start = "waiting"
    BY <1>3, <2>2 DEF ReadAnswer
  <2>3. CASE m[1] = "stop" /\ call[s].stop = "waiting"
    BY <1>3, <2>3 DEF ReadAnswer
  <2>4. CASE /\ ~(m[1] = "started" /\ call[s].start = "waiting")
             /\ ~(m[1] = "refused" /\ call[s].start = "waiting")
             /\ ~(m[1] = "stop" /\ call[s].stop = "waiting")
    BY <1>3, <2>4 DEF ReadAnswer
  <2>. QED
    BY <2>1, <2>2, <2>3, <2>4
<1>7. /\ d \in CallType /\ d.replay = call[s].replay
      /\ d.stop = call[s].stop \/ (call[s].stop = "waiting" /\ d.stop = "ending")
      /\ \/ d.start = call[s].start
         \/ call[s].start = "waiting" /\ d.start = "answered" /\ m = <<"started", s>>
         \/ call[s].start = "waiting" /\ d.start = "failed"
  BY <1>4, <1>5, <1>6 DEF CallType
<1>8. /\ call' \in [Captures -> CallType] /\ call'[s] = d
      /\ \A x \in Captures \ {s} : call'[x] = call[x]
  BY <1>5, <1>6, <1>7
<1>9. ClientTyped
  BY <1>1, <1>2, <1>4, <1>8, TypeParts DEF ClientTyped, TypeOK
<1>10. toHost' \in Seq(ToHost) /\ Len(toHost') <= SendCap /\ missed' \subseteq Captures
  BY <1>1, <1>2, TypeParts DEF TypeOK
<1>11. ASSUME NEW x \in Captures PROVE ClientOf(x)' /\ TokenOf(x)' /\ ToldOf(x)'
  <2>1. CASE x # s
    BY <1>2, <1>3, <1>8, <2>1, OthersStay
  <2>2. CASE x = s
    <3>1. ClientOf(s)'
      BY <1>1, <1>2, <1>4, <1>7, <1>8 DEF ClientOf, EarlyOf, KeptOf, ClosedOf, Closed, Early
    <3>2. TokenOf(s)'
      <4>1. Once(toPlugin', Answers(s)) /\ Answers(s) \cap Ran(toPlugin') \subseteq Answers(s) \cap Ran(toPlugin)
        BY <1>1, <1>4 DEF TokenOf
      <4>2. CASE d.start = "answered" /\ m = <<"started", s>>
        <5>1. m \in Answers(s) /\ m \in Ran(toPlugin)
          BY <1>4, <4>2 DEF Answers
        <5>2. Answers(s) \cap Ran(toPlugin') = {}
          BY <1>1, <1>4, <5>1 DEF TokenOf
        <5>3. Ask(s) \notin Ran(toHost) /\ handler[s].start = "none"
          BY <1>1, <5>1 DEF TokenOf
        <5>. QED
          BY <1>1, <1>2, <1>4, <4>1, <5>2, <5>3 DEF TokenOf
      <4>3. CASE d.start = call[s].start \/ d.start = "failed"
        BY <1>1, <1>2, <1>4, <1>8, <4>1, <4>3 DEF TokenOf
      <4>. QED
        BY <1>7, <4>2, <4>3
    <3>3. Begun(s)' => Begun(s)
      BY <1>2, <1>4, <1>7, <1>8 DEF Begun, Closed
    <3>4. Accounted(s) => Accounted(s)'
      <4>1. m # EndOf(s)
        BY <1>4 DEF EndOf
      <4>. QED
        BY <1>2, <1>4, <4>1 DEF Accounted
    <3>. QED
      BY <1>1, <1>4, <2>2, <3>1, <3>2, <3>3, <3>4 DEF ToldOf
  <2>. QED
    BY <2>1, <2>2
<1>. QED
  BY <1>2, <1>9, <1>10, <1>11, ReaderStep

\* A message that is no answer leaves the starts alone.
LEMMA NoAnswer ==
  ASSUME BridgeIInv, NEW kinds, Reads(kinds), NEW s \in Captures,
         kinds \cap {"started", "refused", "stop"} = {},
         Once(toHost, {Ask(s)}) => Once(toHost', {Ask(s)}),
         Ask(s) \in Ran(toHost') => Ask(s) \in Ran(toHost), call'[s].start = call[s].start
  PROVE  TokenOf(s)' /\ Answers(s) \cap Ran(toPlugin') = Answers(s) \cap Ran(toPlugin)
<1>1. /\ Head(toPlugin)[1] \in kinds /\ handler' = handler
      /\ Ran(toPlugin) = {Head(toPlugin)} \cup Ran(toPlugin')
      /\ \A M : Once(toPlugin, M) => Once(toPlugin', M)
  BY ReadsIs
<1>2. Head(toPlugin) \notin Answers(s)
  BY <1>1 DEF Answers
<1>3. Answers(s) \cap Ran(toPlugin') = Answers(s) \cap Ran(toPlugin)
  BY <1>1, <1>2
<1>4. TokenOf(s)
  BY DEF BridgeIInv
<1>. QED
  BY <1>1, <1>3, <1>4 DEF TokenOf

LEMMA ReadEndKeeps == ASSUME BridgeIInv, ReadEnd PROVE BridgeIInv'
<1>1. TypeOK /\ \A x \in Captures : ClientOf(x) /\ TokenOf(x) /\ ToldOf(x)
  BY DEF BridgeIInv
<1>2. Reads({"stopped"}) /\ UNCHANGED <<toHost, call, orphans, read>>
  BY DEF ReadEnd
<1>3. PICK s \in Captures : s = Head(toPlugin)[2]
  BY <1>2, ReadsIs
<1>4. /\ Ran(toPlugin) = {Head(toPlugin)} \cup Ran(toPlugin')
      /\ UNCHANGED <<stream, events, captures, emitted, handler, dropped, seen>>
  BY <1>2, ReadsIs
<1>5. TokenOf(s)' /\ Answers(s) \cap Ran(toPlugin') = Answers(s) \cap Ran(toPlugin)
  <2>1. {"stopped"} \cap {"started", "refused", "stop"} = {}
    OBVIOUS
  <2>2. toHost' = toHost /\ call'[s].start = call[s].start
    BY <1>2
  <2>. QED
    BY <1>2, <2>1, <2>2, NoAnswer
<1>6. CASE s \in registered
  <2>1. /\ registered' = registered \ {s} /\ missed' = missed
        /\ channel' = [channel EXCEPT ![s] = Shut(channel[s])]
    BY <1>3, <1>6 DEF ReadEnd
  <2>2. PICK p : p = Shut(channel[s])
    OBVIOUS
  <2>3. channel \in [Captures -> ChannelType] /\ p \in ChannelType /\ Closed(p)
    BY <1>1, <2>2, TypeParts, ShutIs
  <2>4. /\ channel' \in [Captures -> ChannelType] /\ channel'[s] = p
        /\ \A x \in Captures \ {s} : channel'[x] = channel[x]
    BY <2>1, <2>2, <2>3
  <2>5. ClientTyped
    BY <1>1, <1>2, <1>4, <2>1, <2>4, TypeParts DEF ClientTyped, TypeOK
  <2>6. ASSUME NEW x \in Captures PROVE ClientOf(x)' /\ TokenOf(x)' /\ ToldOf(x)'
    <3>1. CASE x # s
      BY <1>2, <1>3, <2>1, <2>4, <3>1, OthersStay
    <3>2. CASE x = s
      <4>1. call[s].start \notin Early
        BY <1>1, <1>6 DEF ClientOf, EarlyOf
      <4>2. ClientOf(s)'
        BY <1>2, <2>1, <2>3, <2>4, <4>1 DEF ClientOf, EarlyOf, KeptOf, ClosedOf, Closed
      <4>3. Answers(s) \cap Ran(toPlugin) = {} /\ handler[s].start = "none"
        BY <1>1, <4>1 DEF TokenOf, Early
      <4>4. ~Begun(s)'
        BY <1>4, <1>5, <2>3, <2>4, <4>3 DEF Begun, Answers, Closed
      <4>. QED
        BY <1>5, <3>2, <4>2, <4>4 DEF ToldOf
    <3>. QED
      BY <3>1, <3>2
  <2>7. toHost' \in Seq(ToHost) /\ Len(toHost') <= SendCap /\ missed' \subseteq Captures
    BY <1>1, <1>2, <2>1, TypeParts DEF TypeOK
  <2>. QED
    BY <1>2, <2>5, <2>6, <2>7, ReaderStep
<1>7. CASE s \notin registered
  <2>1. missed' = missed \cup {s} /\ UNCHANGED <<registered, channel>>
    BY <1>3, <1>7 DEF ReadEnd
  <2>2. UNCHANGED client
    BY <1>2, <1>4, <2>1 DEF client
  <2>3. ClientTyped
    BY <1>1, <2>2, TypedParts
  <2>4. ASSUME NEW x \in Captures PROVE ClientOf(x)' /\ TokenOf(x)' /\ ToldOf(x)'
    <3>1. CASE x # s
      BY <1>2, <1>3, <2>1, <3>1, OthersStay
    <3>2. CASE x = s
      <4>1. ClientOf(s)'
        BY <1>1, <1>2, <1>4, <2>1 DEF ClientOf, EarlyOf, KeptOf, ClosedOf, Closed
      <4>2. Accounted(s)'
        BY <2>1 DEF Accounted
      <4>. QED
        BY <1>5, <3>2, <4>1, <4>2 DEF ToldOf
    <3>. QED
      BY <3>1, <3>2
  <2>5. toHost' \in Seq(ToHost) /\ Len(toHost') <= SendCap /\ missed' \subseteq Captures
    BY <1>1, <1>2, <2>1, TypeParts DEF TypeOK
  <2>. QED
    BY <1>2, <2>3, <2>4, <2>5, ReaderStep
<1>. QED
  BY <1>6, <1>7

LEMMA ReadEventKeeps == ASSUME BridgeIInv, ReadEvent PROVE BridgeIInv'
<1>1. TypeOK /\ \A x \in Captures : ClientOf(x) /\ TokenOf(x) /\ ToldOf(x)
  BY DEF BridgeIInv
<1>2. Reads({"event"}) /\ UNCHANGED <<registered, missed>>
  BY DEF ReadEvent
<1>3. PICK s \in Captures, n \in Numbers : s = Head(toPlugin)[2] /\ n = Head(toPlugin)[3]
  <2>1. Head(toPlugin) \in ToPlugin /\ Head(toPlugin)[1] = "event" /\ Head(toPlugin)[2] \in Captures
    BY <1>2, ReadsIs
  <2>. QED
    BY <2>1, MessageIs
<1>4. /\ Ran(toPlugin) = {Head(toPlugin)} \cup Ran(toPlugin') /\ Head(toPlugin)[1] = "event"
      /\ UNCHANGED <<stream, events, captures, emitted, handler, dropped, seen>>
  BY <1>2, ReadsIs
<1>5. call \in [Captures -> CallType] /\ channel \in [Captures -> ChannelType]
      /\ call[s] \in CallType /\ channel[s] \in ChannelType
  BY <1>1, TypeParts
<1>6. read \in [Captures -> SUBSET Numbers]
  BY <1>1 DEF TypeOK
\* What is left to show of the two branches.
<1>7. ASSUME ClientTyped, AsksAsBefore, call'[s].start = call[s].start, ClientOf(s)',
             Closed(channel[s]) => Closed(channel'[s]),
             \A x \in Captures \ {s} : /\ call'[x] = call[x] /\ channel'[x] = channel[x]
                                       /\ orphans'[x] = orphans[x] /\ read'[x] = read[x]
      PROVE  BridgeIInv'
  <2>1. ASSUME NEW x \in Captures PROVE ClientOf(x)' /\ TokenOf(x)' /\ ToldOf(x)'
    <3>1. CASE x # s
      BY <1>2, <1>3, <1>7, <3>1, OthersStay DEF AsksAsBefore
    <3>2. CASE x = s
      <4>1. TokenOf(s)' /\ Answers(s) \cap Ran(toPlugin') = Answers(s) \cap Ran(toPlugin)
        <5>1. {"event"} \cap {"started", "refused", "stop"} = {}
          OBVIOUS
        <5>. QED
          BY <1>2, <1>7, <5>1, NoAnswer DEF AsksAsBefore
      <4>2. Begun(s)' => Begun(s)
        <5>1. <<"started", s>> \in Ran(toPlugin') => <<"started", s>> \in Ran(toPlugin)
          BY <4>1 DEF Answers
        <5>2. ~Closed(channel'[s]) => ~Closed(channel[s])
          BY <1>7
        <5>3. handler' = handler /\ call'[s].start = call[s].start
          BY <1>4, <1>7
        <5>. QED
          BY <5>1, <5>2, <5>3 DEF Begun, Closed
      <4>3. Head(toPlugin) # EndOf(s)
        BY <1>4 DEF EndOf
      <4>4. Accounted(s) => Accounted(s)'
        BY <1>2, <1>4, <4>3 DEF Accounted
      <4>. QED
        BY <1>1, <1>4, <1>7, <3>2, <4>1, <4>2, <4>4 DEF ToldOf
    <3>. QED
      BY <3>1, <3>2
  <2>2. missed' \subseteq Captures
    BY <1>1, <1>2 DEF TypeOK
  <2>. QED
    BY <1>2, <1>7, <2>1, <2>2, ReaderStep DEF AsksAsBefore
<1>8. CASE s \in registered
  <2>1. /\ channel' = [channel EXCEPT ![s] = Push(channel[s], n)]
        /\ call' = IF Overflows(s) THEN [call EXCEPT ![s] = Stopping(call[s])] ELSE call
        /\ toHost' = IF Overflows(s) THEN StopRequest(s) ELSE toHost
        /\ read' = [read EXCEPT ![s] = read[s] \cup {n}]
        /\ orphans' = orphans
    BY <1>3, <1>8 DEF ReadEvent
  <2>2. PICK p : p = Push(channel[s], n)
    OBVIOUS
  <2>3. /\ p \in ChannelType
        /\ Closed(channel[s]) => Closed(p)
        /\ ~Closed(channel[s]) /\ ~Closed(p) => Ran(p.buffer) = Ran(channel[s].buffer) \cup {n}
    BY <1>5, <2>2, PushIs
  <2>4. /\ channel' \in [Captures -> ChannelType] /\ channel'[s] = p
        /\ \A x \in Captures \ {s} : channel'[x] = channel[x]
    BY <1>5, <2>1, <2>2, <2>3
  <2>5. PICK d : d = IF Overflows(s) THEN Stopping(call[s]) ELSE call[s]
    OBVIOUS
  <2>6. /\ d \in CallType /\ d.start = call[s].start /\ d.replay = call[s].replay
        /\ d.stop = "done" => call[s].stop = "done"
    BY <1>5, <2>5, StoppingIs
  <2>7. /\ call' \in [Captures -> CallType] /\ call'[s] = d
        /\ \A x \in Captures \ {s} : call'[x] = call[x]
    BY <1>5, <2>1, <2>5, <2>6
  <2>8. /\ read' \in [Captures -> SUBSET Numbers] /\ read'[s] = read[s] \cup {n}
        /\ \A x \in Captures \ {s} : read'[x] = read[x]
    BY <1>6, <2>1
  <2>9. AsksAsBefore
    BY <1>1, <2>1, StopRequestIs
  <2>10. ClientTyped
    BY <1>1, <1>2, <1>4, <2>1, <2>4, <2>7, <2>8, TypeParts DEF ClientTyped, TypeOK
  <2>11. call[s].start \notin Early
    BY <1>1, <1>8 DEF ClientOf, EarlyOf
  <2>12. EarlyOf(s)' /\ ClosedOf(s)'
    BY <1>1, <2>3, <2>4, <2>6, <2>7, <2>11 DEF ClientOf, EarlyOf, ClosedOf, Closed, Early
  <2>13. KeptOf(s)'
    <3>1. ASSUME stream # "down", ~Closed(p)
          PROVE  read[s] \cup {n} = seen[s] \cup Ran(p.buffer) \cup Ran(d.replay)
      BY <1>1, <1>8, <2>3, <2>6, <3>1 DEF ClientOf, KeptOf
    <3>. QED
      BY <1>4, <2>4, <2>7, <2>8, <3>1 DEF KeptOf
  <2>. QED
    BY <1>7, <2>1, <2>3, <2>4, <2>6, <2>7, <2>8, <2>9, <2>10, <2>12, <2>13 DEF ClientOf
<1>9. CASE s \notin registered
  <2>1. /\ UNCHANGED <<channel, call, toHost>>
        /\ \/ /\ Len(orphans[s]) < OrphanCap
              /\ orphans' = [orphans EXCEPT ![s] = Append(orphans[s], n)]
              /\ read' = [read EXCEPT ![s] = read[s] \cup {n}]
           \/ UNCHANGED <<orphans, read>>
    BY <1>3, <1>9 DEF ReadEvent
  <2>2. AsksAsBefore
    BY <1>1, <2>1, StopRequestIs
  <2>3. KeptOf(s)' /\ ClosedOf(s)'
    BY <1>1, <1>2, <1>9, <2>1 DEF ClientOf, KeptOf, ClosedOf
  <2>4. CASE UNCHANGED <<orphans, read>>
    <3>1. UNCHANGED client
      BY <1>2, <1>4, <2>1, <2>4 DEF client
    <3>2. ClientTyped
      BY <1>1, <3>1, TypedParts
    <3>3. ClientOf(s)'
      BY <1>1, <1>2, <1>4, <2>1, <2>4, ClientStays
    <3>. QED
      BY <1>7, <2>1, <2>2, <2>4, <3>2, <3>3
  <2>5. CASE /\ Len(orphans[s]) < OrphanCap
             /\ orphans' = [orphans EXCEPT ![s] = Append(orphans[s], n)]
             /\ read' = [read EXCEPT ![s] = read[s] \cup {n}]
    <3>1. PICK o : o = Append(orphans[s], n)
      OBVIOUS
    <3>2. orphans[s] \in Seq(Numbers)
      BY <1>1, TypeParts
    <3>3. o \in Seq(Numbers) /\ Len(o) = Len(orphans[s]) + 1 /\ Ran(o) = Ran(orphans[s]) \cup {n}
      BY <3>1, <3>2, AppendIs
    <3>4. Len(o) <= OrphanCap
      BY <1>1, <2>5, <3>3, TypeParts, Bounds
    <3>5. /\ orphans \in [Captures -> Seq(Numbers)]
          /\ \A x \in Captures : Len(orphans[x]) <= OrphanCap
      BY <1>1 DEF TypeOK
    <3>6. /\ orphans' \in [Captures -> Seq(Numbers)] /\ orphans'[s] = o
          /\ \A x \in Captures \ {s} : orphans'[x] = orphans[x]
          /\ \A x \in Captures : Len(orphans'[x]) <= OrphanCap
      BY <2>5, <3>1, <3>3, <3>4, <3>5
    <3>7. /\ read' \in [Captures -> SUBSET Numbers] /\ read'[s] = read[s] \cup {n}
          /\ \A x \in Captures \ {s} : read'[x] = read[x]
      BY <1>6, <2>5
    <3>8. ClientTyped
      BY <1>1, <1>2, <1>4, <2>1, <3>6, <3>7, TypeParts DEF ClientTyped, TypeOK
    <3>9. EarlyOf(s)'
      BY <1>1, <1>2, <1>4, <2>1, <3>3, <3>6, <3>7 DEF ClientOf, EarlyOf
    <3>. QED
      BY <1>7, <2>1, <2>2, <2>3, <3>6, <3>7, <3>8, <3>9 DEF ClientOf
  <2>. QED
    BY <2>1, <2>4, <2>5
<1>. QED
  BY <1>8, <1>9

LEMMA DisconnectKeeps == ASSUME BridgeIInv, Disconnect PROVE BridgeIInv'
<1>. USE DEF server
<1>1. TypeOK /\ \A x \in Captures : ClientOf(x) /\ TokenOf(x) /\ ToldOf(x)
  BY DEF BridgeIInv
<1>2. /\ UNCHANGED <<events, captures, emitted, handler, dropped, read, seen, missed>>
      /\ stream' = "down" /\ toHost' = <<>> /\ toPlugin' = <<>> /\ registered' = {}
      /\ orphans' = [x \in Captures |-> <<>>]
  BY DEF Disconnect
<1>3. \A x \in Captures : /\ call[x] \in CallType /\ channel[x] \in ChannelType
  BY <1>1, TypeParts
<1>4. /\ call' \in [Captures -> CallType]
      /\ \A x \in Captures :
           /\ call'[x].start = IF call[x].start = "waiting" THEN "failed" ELSE call[x].start
           /\ call'[x].stop = IF call[x].stop = "waiting" THEN "ending" ELSE call[x].stop
           /\ call'[x].replay = call[x].replay
  <2>1. ASSUME NEW x \in Captures,
               NEW d, d = [call[x] EXCEPT !.start = IF @ = "waiting" THEN "failed" ELSE @,
                                          !.stop = IF @ = "waiting" THEN "ending" ELSE @]
        PROVE  /\ d \in CallType
               /\ d.start = IF call[x].start = "waiting" THEN "failed" ELSE call[x].start
               /\ d.stop = IF call[x].stop = "waiting" THEN "ending" ELSE call[x].stop
               /\ d.replay = call[x].replay
    BY <1>3, <2>1 DEF CallType
  <2>2. call' = [x \in Captures |->
                  [call[x] EXCEPT !.start = IF @ = "waiting" THEN "failed" ELSE @,
                                  !.stop = IF @ = "waiting" THEN "ending" ELSE @]]
    BY DEF Disconnect
  <2>. QED
    BY <2>1, <2>2
<1>5. /\ channel' \in [Captures -> ChannelType]
      /\ \A x \in Captures : /\ Closed(channel[x]) => Closed(channel'[x])
                             /\ x \notin registered => channel'[x] = channel[x]
  <2>1. channel' = [x \in Captures |-> IF x \in registered THEN Shut(channel[x]) ELSE channel[x]]
    BY DEF Disconnect
  <2>. QED
    BY <1>3, <2>1, ShutIs
<1>6. ClientTyped
  <2>1. /\ orphans' \in [Captures -> Seq(Numbers)]
        /\ \A x \in Captures : Len(orphans'[x]) <= OrphanCap
    BY <1>2, Bounds
  <2>2. read \in [Captures -> SUBSET Numbers] /\ seen \in [Captures -> SUBSET Numbers]
    BY <1>1 DEF TypeOK
  <2>. QED
    BY <1>2, <1>4, <1>5, <2>1, <2>2 DEF ClientTyped
<1>7. ServerTyped
  BY <1>1, <1>2, TypedParts
<1>8. WireTyped
  <2>1. Len(toHost') <= SendCap /\ Len(toPlugin') <= SendCap
    BY <1>2, Bounds
  <2>. QED
    BY <1>1, <1>2, <2>1 DEF WireTyped, TypeOK
<1>9. TypeOK'
  BY <1>1, <1>6, <1>7, <1>8, TypedParts
<1>10. ASSUME NEW x \in Captures PROVE (ClientOf(x) /\ TokenOf(x) /\ ToldOf(x))'
  <2>1. ClientOf(x)'
    BY <1>1, <1>2, <1>4, <1>5 DEF ClientOf, EarlyOf, KeptOf, ClosedOf, Early
  <2>2. TokenOf(x)'
    <3>1. Ran(toHost') = {} /\ Ran(toPlugin') = {} /\ Once(toHost', {Ask(x)})
          /\ Once(toPlugin', Answers(x))
      BY <1>2, EmptyQueue
    <3>. QED
      BY <1>1, <1>2, <1>4, <3>1 DEF TokenOf
  <2>3. ToldOf(x)'
    BY <1>2 DEF ToldOf
  <2>. QED
    BY <2>1, <2>2, <2>3
<1>. QED
  BY <1>9, <1>10 DEF BridgeIInv

-----------------------------------------------------------------------------
(* The theorems *)

\* What BridgeIInv says of the properties of the runs.
LEMMA BridgeIInvSays == ASSUME BridgeIInv PROVE BridgeInv /\ EndIsTold
<1>1. TypeOK /\ \A s \in Captures : ClientOf(s) /\ ToldOf(s)
  BY DEF BridgeIInv
<1>2. \A s \in Captures : /\ call[s].start \in {"idle", "waiting", "answered", "replaying",
                                                "returned", "failed"}
                          /\ registered \subseteq Captures
  BY <1>1, TypeParts DEF CallType, TypeOK
<1>3. NothingIsMissed
  <2>1. \A s \in Captures :
          /\ Ran(channel[s].buffer) = {channel[s].buffer[i] : i \in DOMAIN channel[s].buffer}
          /\ Ran(call[s].replay) = {call[s].replay[i] : i \in DOMAIN call[s].replay}
    BY DEF Ran
  <2>2. ASSUME stream # "down", NEW s \in registered, ~Closed(channel[s])
        PROVE  read[s] = seen[s] \cup Ran(channel[s].buffer) \cup Ran(call[s].replay)
    BY <1>1, <1>2, <2>2 DEF ClientOf, KeptOf, TypeOK
  <2>3. registered \subseteq Captures
    BY <1>1 DEF TypeOK
  <2>. QED
    BY <2>1, <2>2, <2>3 DEF NothingIsMissed
<1>4. StopCloses
  BY <1>1 DEF StopCloses, ClientOf, ClosedOf
<1>5. EndIsTold
  <2>1. SUFFICES ASSUME stream = "up", events = <<>>, toPlugin = <<>>, NEW s \in Captures,
                        call[s].start = "returned", ~Closed(channel[s])
                 PROVE  s \in captures \cup missed
    BY DEF EndIsTold
  <2>2. Ran(events) = {} /\ Ran(toPlugin) = {}
    BY <2>1, EmptyQueue
  <2>3. Begun(s)
    BY <2>1 DEF Begun
  <2>. QED
    BY <1>1, <2>1, <2>2, <2>3 DEF ToldOf, Accounted
<1>. QED
  BY <1>1, <1>3, <1>4, <1>5 DEF BridgeInv

LEMMA BridgeInit == Init => BridgeIInv
<1>. SUFFICES ASSUME Init PROVE BridgeIInv
  OBVIOUS
<1>. USE DEF Init
<1>1. TypeOK
  <2>1. /\ Len(toHost) <= SendCap /\ Len(toPlugin) <= SendCap /\ Len(events) <= EventCap
        /\ \A s \in Captures : Len(orphans[s]) <= OrphanCap
    BY Bounds
  <2>2. /\ handler \in [Captures ->
             [start : {"none", "working", "started", "refused"},
              stop : {"none", "working", "answering"}, drop : BOOLEAN]]
        /\ call \in [Captures ->
             [start : {"idle", "waiting", "answered", "replaying", "returned", "failed"},
              replay : Seq(Numbers), stop : {"no", "waiting", "ending", "done"}]]
        /\ channel \in [Captures -> [buffer : Seq(Numbers), closes : Nat]]
    BY DEF NoHandler, Idle
  <2>3. emitted \in [Captures -> 0..MaxEvents]
    BY Bounds
  <2>4. /\ orphans \in [Captures -> Seq(Numbers)]
        /\ read \in [Captures -> SUBSET Numbers] /\ seen \in [Captures -> SUBSET Numbers]
    OBVIOUS
  <2>. QED
    BY <2>1, <2>2, <2>3, <2>4 DEF TypeOK
<1>2. ASSUME NEW s \in Captures PROVE ClientOf(s) /\ TokenOf(s) /\ ToldOf(s)
  <2>1. /\ call[s] = Idle /\ handler[s] = NoHandler /\ orphans[s] = <<>>
        /\ channel[s].buffer = <<>> /\ read[s] = {} /\ seen[s] = {}
    BY DEF Init
  <2>2. /\ Ran(toHost) = {} /\ Ran(toPlugin) = {} /\ Ran(orphans[s]) = {}
        /\ \A M : Once(toHost, M) /\ Once(toPlugin, M)
    BY <2>1, EmptyQueue
  <2>3. ClientOf(s)
    BY <2>1, <2>2 DEF ClientOf, EarlyOf, KeptOf, ClosedOf, Idle
  <2>4. TokenOf(s)
    BY <2>1, <2>2 DEF TokenOf, NoHandler
  <2>5. ~Begun(s)
    BY <2>1, <2>2 DEF Begun, NoHandler, Idle
  <2>. QED
    BY <2>3, <2>4, <2>5 DEF ToldOf
<1>. QED
  BY <1>1, <1>2 DEF BridgeIInv

LEMMA BridgeNext == ASSUME BridgeIInv, [Next]_vars PROVE BridgeIInv'
<1>1. CASE Host
  BY <1>1, ServeKeeps, ForwardKeeps, CleanUpKeeps, StartedKeeps, StoppedKeeps, RespondKeeps
     DEF Host
<1>2. CASE Client
  BY <1>2, ReadAnswerKeeps, ReadEventKeeps, ReadEndKeeps, DisconnectKeeps, RegisterKeeps,
     ReplayKeeps, EndStopKeeps DEF Client
<1>3. CASE Environment
  BY <1>3, StreamEndsKeeps, StartKeeps, CancelKeeps, ConsumeKeeps, StopKeeps, EmitKeeps,
     EndCaptureKeeps DEF Environment
<1>4. CASE UNCHANGED vars
  <2>. USE <1>4 DEF vars
  <2>1. TypeOK'
    <3>1. UNCHANGED <<client, server>> /\ UNCHANGED <<stream, missed, toHost, toPlugin>>
      BY DEF client, server
    <3>. QED
      BY <3>1, TypedParts DEF BridgeIInv
  <2>2. ASSUME NEW s \in Captures PROVE (ClientOf(s) /\ TokenOf(s) /\ ToldOf(s))'
    <3>1. ClientOf(s) /\ TokenOf(s) /\ ToldOf(s)
      BY DEF BridgeIInv
    <3>2. ClientOf(s)'
      BY <3>1, ClientStays
    <3>3. TokenOf(s)'
      BY <3>1 DEF TokenOf
    <3>4. Begun(s)' = Begun(s) /\ Accounted(s)' = Accounted(s)
      BY DEF Begun, Accounted
    <3>. QED
      BY <3>1, <3>2, <3>3, <3>4 DEF ToldOf
  <2>. QED
    BY <2>1, <2>2 DEF BridgeIInv
<1>. QED
  BY <1>1, <1>2, <1>3, <1>4 DEF Next

\* The starts of the captures, their events and their ends, through the queues of
\* both sides (ServePluginBridge, internal/browser/manager.go; sdk/browser.go).
THEOREM BridgeInvariance == Spec => []BridgeIInv
<1>1. Init => BridgeIInv
  BY BridgeInit
<1>2. BridgeIInv /\ [Next]_vars => BridgeIInv'
  BY BridgeNext
<1>. QED
  BY <1>1, <1>2, PTL DEF Spec

\* No event is skipped in front of one that was delivered, those that came before
\* the answer included, and a stop that has ended has closed the channel
\* (publish, registerCapture and beginStop, sdk/browser.go).
THEOREM BridgeHolds == Spec => []BridgeInv
<1>1. BridgeIInv => BridgeInv
  BY BridgeIInvSays
<1>. QED
  BY <1>1, BridgeInvariance, PTL

\* A capture that is open in the plugin when everything sent has been received is
\* one the host has, or its end found no room or no registration (EndCapture,
\* StopNetworkCapture and the goroutine that forwards events).
THEOREM EndsAreTold == Spec => []EndIsTold
<1>1. BridgeIInv => EndIsTold
  BY BridgeIInvSays
<1>. QED
  BY <1>1, BridgeInvariance, PTL

\* What a step may make of a channel.
LEMMA ChannelStep ==
  ASSUME TypeOK, Next, NEW s \in Captures
  PROVE  \/ channel'[s] \in {channel[s], Shut(channel[s])}
         \/ \E n : channel'[s] = Push(channel[s], n)
         \/ /\ channel[s].buffer # <<>>
            /\ channel'[s] = [channel[s] EXCEPT !.buffer = Tail(channel[s].buffer)]
<1>. USE DEF client
<1>1. channel \in [Captures -> ChannelType]
  BY TypeParts
<1>2. CASE Host
  BY <1>2 DEF Host, Serve, Forward, CleanUp, Started, Stopped, Respond
<1>3. CASE ReadEvent
  BY <1>1, <1>3 DEF ReadEvent
<1>4. CASE ReadEnd
  BY <1>1, <1>4 DEF ReadEnd
<1>5. CASE Disconnect
  BY <1>1, <1>5 DEF Disconnect
<1>6. CASE ReadAnswer \/ StreamEnds
  BY <1>6 DEF ReadAnswer, StreamEnds
<1>7. ASSUME NEW x \in Captures, Replay(x)
      PROVE  channel'[s] = channel[s] \/ \E n : channel'[s] = Push(channel[s], n)
  BY <1>1, <1>7 DEF Replay
<1>8. ASSUME NEW x \in Captures, EndStop(x) PROVE channel'[s] \in {channel[s], Shut(channel[s])}
  BY <1>1, <1>8 DEF EndStop
<1>9. ASSUME NEW x \in Captures, Consume(x)
      PROVE  \/ channel'[s] = channel[s]
             \/ /\ channel[s].buffer # <<>>
                /\ channel'[s] = [channel[s] EXCEPT !.buffer = Tail(channel[s].buffer)]
  BY <1>1, <1>9 DEF Consume
<1>10. ASSUME NEW x \in Captures,
              Register(x) \/ Start(x) \/ Cancel(x) \/ Stop(x) \/ Emit(x) \/ EndCapture(x)
       PROVE  channel'[s] = channel[s]
  BY <1>10 DEF Register, Start, Cancel, Stop, Emit, EndCapture
<1>. QED
  BY <1>2, <1>3, <1>4, <1>5, <1>6, <1>7, <1>8, <1>9, <1>10 DEF Next, Client, Environment

\* A channel is closed once, and nothing is sent on it after that, whichever of a
\* full channel, the end of the capture, Stop and the end of the session comes
\* first (publish and closeWithError, sdk/browser.go).
THEOREM ChannelsDoNotPanic == Spec => NoPanic
<1>1. ASSUME BridgeIInv, [Next]_vars, NEW s \in Captures, Closed(channel[s])
      PROVE  channel'[s].closes = channel[s].closes
             /\ Len(channel'[s].buffer) <= Len(channel[s].buffer)
  <2>1. TypeOK
    BY <1>1 DEF BridgeIInv
  <2>2. channel[s] \in ChannelType /\ channel[s].buffer \in Seq(Numbers)
    BY <2>1, TypeParts DEF ChannelType
  <2>3. Len(channel[s].buffer) \in Nat
    BY <2>2
  <2>4. CASE channel'[s] = channel[s]
    BY <2>3, <2>4
  <2>5. CASE channel'[s] = Shut(channel[s]) \/ \E n : channel'[s] = Push(channel[s], n)
    BY <1>1, <2>3, <2>5 DEF Shut, Push
  <2>6. CASE /\ channel[s].buffer # <<>>
             /\ channel'[s] = [channel[s] EXCEPT !.buffer = Tail(channel[s].buffer)]
    <3>1. Len(Tail(channel[s].buffer)) = Len(channel[s].buffer) - 1
      BY <2>2, <2>6
    <3>2. channel'[s].closes = channel[s].closes /\ channel'[s].buffer = Tail(channel[s].buffer)
      BY <2>2, <2>6 DEF ChannelType
    <3>. QED
      BY <2>3, <3>1, <3>2
  <2>7. CASE UNCHANGED vars
    BY <2>4, <2>7 DEF vars
  <2>. QED
    BY <1>1, <2>1, <2>4, <2>5, <2>6, <2>7, ChannelStep
<1>2. BridgeIInv /\ [Next]_vars =>
        [\A s \in Captures : Closed(channel[s]) =>
           /\ channel'[s].closes = channel[s].closes
           /\ Len(channel'[s].buffer) <= Len(channel[s].buffer)]_vars
  BY <1>1
<1>. QED
  BY <1>2, BridgeInvariance, PTL DEF Spec, NoPanic
=============================================================================
