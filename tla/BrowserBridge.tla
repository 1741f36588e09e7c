---------------------------- MODULE BrowserBridge ----------------------------
(***************************************************************************)
(* The browser bridge of one plugin process: the session the host serves   *)
(* (ServePluginBridge in internal/browser/manager.go) and the client in    *)
(* the plugin (sdk/browser.go), with the network captures the plugin owns. *)
(*                                                                         *)
(* Start, stop and cancel go to the host through a queue of the client;    *)
(* answers, events of captures and their end come back through a queue of  *)
(* the host, the latter two by way of the host's subscription, which drops *)
(* what it has no room for.  Whoever publishes never blocks.               *)
(*                                                                         *)
(* Abstracted: agents, connections and commands (BrowserAgents): the       *)
(* browser takes or refuses a start, emits events and ends a capture when  *)
(* it likes; actions and targets, which are requests without a capture; a  *)
(* queue and the gRPC stream behind it are one queue.  A capture is named  *)
(* by the request that starts it, and its events are numbered.             *)
(***************************************************************************)
EXTENDS Naturals, Sequences, FiniteSets

CONSTANTS
  Captures,
  MaxEvents,  \* bound: events of a capture
  SendCap,    \* capacity of the queues of the session, 256 on both sides
  EventCap,   \* capacity of the host's subscription, 128
  OrphanCap,  \* early events kept for a capture, 128
  ChanCap,    \* capacity of Events(), 128
  Faults      \* "refuse", "end", "stream", "cancel"

ASSUME BridgeAssumption ==
  /\ {MaxEvents, SendCap, EventCap, OrphanCap, ChanCap} \subseteq Nat \ {0}
  /\ Faults \subseteq {"refuse", "end", "stream", "cancel"}

VARIABLES
  stream,    \* "up"; "lost"; "down" when the client has noticed
  toHost,    \* queue of requests
  toPlugin,  \* queue of answers and events
  events,    \* the host's subscription
  captures,  \* Manager.captures of this plugin
  emitted,   \* events the browser has reported of a capture
  handler,   \* goroutines of the host that serve a start or a stop
  dropped,   \* captures an event of which found the queue full
  call,      \* StartNetworkCapture and Stop of the plugin
  registered,\* sessionBrowserClient.captures
  orphans,   \* sessionBrowserClient.orphanEvents
  channel,   \* Events(): buffered numbers, how often closed
  read,      \* history: events of a capture the client has taken from the stream
  seen,      \* history: events the plugin has taken from the channel
  missed     \* history: captures whose end found no room or no registration

vars == <<stream, toHost, toPlugin, events, captures, emitted, handler, dropped,
          call, registered, orphans, channel, read, seen, missed>>
server == <<events, captures, emitted, handler, dropped>>
client == <<call, registered, orphans, channel, read, seen>>

Idle == [start |-> "idle", replay |-> <<>>, stop |-> "no"]
NoHandler == [start |-> "none", stop |-> "none", drop |-> FALSE]
Numbers == 1..MaxEvents
Event == {"event"} \X Captures \X Numbers
End == {"stopped"} \X Captures

TypeOK ==
  /\ stream \in {"up", "lost", "down"}
  /\ toHost \in Seq({"start", "stop", "cancel"} \X Captures)
  /\ toPlugin \in Seq(({"started", "refused", "stop"} \X Captures)
                      \cup Event \cup End)
  /\ Len(toHost) <= SendCap /\ Len(toPlugin) <= SendCap
  /\ events \in Seq(Event \cup End) /\ Len(events) <= EventCap
  /\ captures \subseteq Captures /\ dropped \subseteq Captures
  /\ emitted \in [Captures -> 0..MaxEvents]
  /\ handler \in [Captures ->
       [start : {"none", "working", "started", "refused"},
        stop : {"none", "working", "answering"}, drop : BOOLEAN]]
  /\ call \in [Captures ->
       [start : {"idle", "waiting", "answered", "replaying", "returned",
                 "failed"},
        replay : Seq(Numbers),
        stop : {"no", "waiting", "ending", "done"}]]
  /\ registered \subseteq Captures
  /\ orphans \in [Captures -> Seq(Numbers)]
  /\ \A s \in Captures : Len(orphans[s]) <= OrphanCap
  /\ channel \in [Captures -> [buffer : Seq(Numbers), closes : Nat]]
  /\ read \in [Captures -> SUBSET Numbers] /\ seen \in [Captures -> SUBSET Numbers]
  /\ missed \subseteq Captures

----------------------------------------------------------------------------
(* The host *)

\* publish: a subscriber without room misses the event.
Published(m) == IF Len(events) < EventCap THEN Append(events, m) ELSE events
Missing(m) == IF Len(events) < EventCap THEN {} ELSE {m[2]}

\* ServePluginBridge takes a request. A capture is registered, with its owner,
\* before the browser knows of it.
Serve ==
  /\ stream = "up" /\ toHost # <<>>
  /\ toHost' = Tail(toHost)
  /\ LET s == Head(toHost)[2] IN
     CASE Head(toHost)[1] = "start" ->
            /\ handler' = [handler EXCEPT ![s].start = "working"]
            /\ captures' = captures \cup {s}
       [] Head(toHost)[1] = "stop" ->
            /\ handler' = [handler EXCEPT ![s].stop = "working"]
            /\ UNCHANGED captures
       \* The context of the start ends; what the browser does is not undone.
       [] Head(toHost)[1] = "cancel" /\ handler[s].start = "working" ->
            /\ handler' = [handler EXCEPT ![s].start = "refused"]
            /\ captures' = captures \ {s}
       [] OTHER -> UNCHANGED <<handler, captures>>
  /\ UNCHANGED <<stream, toPlugin, events, emitted, dropped, client, missed>>

\* Fault: a request that failed is not answered.
FaultStarted(s) ==
  /\ handler[s].start = "working" /\ stream = "up"
  /\ \/ /\ handler' = [handler EXCEPT ![s].start = "started"]
        /\ UNCHANGED captures
     \/ /\ "refuse" \in Faults
        /\ handler' = [handler EXCEPT ![s].start = "none"]
        /\ captures' = captures \ {s}
  /\ UNCHANGED <<stream, toHost, toPlugin, events, emitted, dropped, client,
                 missed>>

Started(s) ==
  /\ handler[s].start = "working" /\ stream = "up"
  /\ \/ /\ handler' = [handler EXCEPT ![s].start = "started"]
        /\ UNCHANGED captures
     \/ /\ "refuse" \in Faults
        /\ handler' = [handler EXCEPT ![s].start = "refused"]
        /\ captures' = captures \ {s}
  /\ UNCHANGED <<stream, toHost, toPlugin, events, emitted, dropped, client,
                 missed>>

\* StopNetworkCapture: the capture goes, and its end is published to its owner.
StopNetworkCapture(s) ==
  /\ captures' = captures \ {s}
  /\ IF s \in captures
     THEN /\ events' = Published(<<"stopped", s>>)
          /\ missed' = missed \cup Missing(<<"stopped", s>>)
     ELSE UNCHANGED <<events, missed>>

\* Of a request, or of a capture an event of which was dropped.
Stopped(s) ==
  /\ stream = "up" /\ StopNetworkCapture(s)
  /\ \/ /\ handler[s].stop = "working"
        /\ handler' = [handler EXCEPT ![s].stop = "answering"]
     \/ /\ handler[s].drop
        /\ handler' = [handler EXCEPT ![s].drop = FALSE]
  /\ UNCHANGED <<stream, toHost, toPlugin, emitted, dropped, client>>

\* A handler waits until the queue takes its answer.
Respond(s) ==
  /\ stream = "up" /\ Len(toPlugin) < SendCap
  /\ \/ /\ handler[s].start \in {"started", "refused"}
        /\ toPlugin' = Append(toPlugin, <<handler[s].start, s>>)
        /\ handler' = [handler EXCEPT ![s].start = "none"]
     \/ /\ handler[s].stop = "answering"
        /\ toPlugin' = Append(toPlugin, <<"stop", s>>)
        /\ handler' = [handler EXCEPT ![s].stop = "none"]
  /\ UNCHANGED <<stream, toHost, events, captures, emitted, dropped, client,
                 missed>>

\* The browser reports an event of a capture, possibly before its start is
\* answered.
Emit(s) ==
  /\ s \in captures /\ emitted[s] < MaxEvents
  /\ emitted' = [emitted EXCEPT ![s] = @ + 1]
  /\ events' = Published(<<"event", s, emitted'[s]>>)
  /\ UNCHANGED <<stream, toHost, toPlugin, captures, handler, dropped, client,
                 missed>>

\* Fault: the end is published without the owner, and filtered out.
FaultEndCapture(s) ==
  /\ "end" \in Faults /\ s \in captures
  /\ captures' = captures \ {s}
  /\ UNCHANGED <<stream, toHost, toPlugin, events, emitted, handler, dropped,
                 client, missed>>

\* The tab is closed or the agent is gone: the end is published to the owner.
EndCapture(s) ==
  /\ "end" \in Faults /\ s \in captures
  /\ captures' = captures \ {s}
  /\ events' = Published(<<"stopped", s>>)
  /\ missed' = missed \cup Missing(<<"stopped", s>>)
  /\ UNCHANGED <<stream, toHost, toPlugin, emitted, handler, dropped, client>>

\* The goroutine that forwards events. Those of a capture that is gone have no
\* owner any more. With the queue full an event is dropped and its capture
\* stopped; the end of such a capture is given a second, then the session ends.
Forward ==
  LET m == Head(events)
      s == m[2]
      owned == m[1] = "stopped" \/ s \in captures
      full == Len(toPlugin) = SendCap
      late == m[1] = "stopped" /\ s \in dropped
  IN
  /\ stream = "up" /\ events # <<>>
  /\ IF owned /\ full /\ late
     THEN stream' = "lost" /\ UNCHANGED <<events, toPlugin, dropped, handler,
                                          missed>>
     ELSE /\ events' = Tail(events)
          /\ toPlugin' = IF owned /\ ~full THEN Append(toPlugin, m)
                                           ELSE toPlugin
          /\ dropped' = CASE owned /\ full -> dropped \cup {s}
                          [] late /\ ~full -> dropped \ {s}
                          [] OTHER         -> dropped
          /\ handler' = IF owned /\ full /\ s \notin dropped
                        THEN [handler EXCEPT ![s].drop = TRUE] ELSE handler
          /\ missed' = IF owned /\ full /\ m[1] = "stopped"
                       THEN missed \cup {s} ELSE missed
          /\ UNCHANGED stream
  /\ UNCHANGED <<toHost, captures, emitted, client>>

\* The stream breaks, or the plugin is stopped.
StreamEnds ==
  /\ "stream" \in Faults /\ stream = "up"
  /\ stream' = "lost"
  /\ UNCHANGED <<toHost, toPlugin, server, client, missed>>

\* The deferred calls of ServePluginBridge: requests are cancelled, the
\* subscription ends, the captures of the plugin are stopped or removed.
CleanUp ==
  /\ stream # "up" /\ captures # {}
  /\ captures' = {} /\ events' = <<>> /\ dropped' = {}
  /\ handler' = [s \in Captures |-> NoHandler]
  /\ UNCHANGED <<stream, toHost, toPlugin, emitted, client, missed>>

----------------------------------------------------------------------------
(* The client: Events() *)

Closed(ch) == ch.closes > 0

\* Fault: the channel is closed whether it is closed or not.
FaultShut(ch) == [ch EXCEPT !.closes = @ + 1]

\* closeWithError.
Shut(ch) == IF Closed(ch) THEN ch ELSE [ch EXCEPT !.closes = @ + 1]

\* sessionCapture.publish: a full channel is closed.
Push(ch, n) ==
  IF Closed(ch) THEN ch
  ELSE IF Len(ch.buffer) < ChanCap THEN [ch EXCEPT !.buffer = Append(@, n)]
  ELSE [ch EXCEPT !.closes = @ + 1]

\* publish stops a capture whose channel was full.
Overflows(s) == ~Closed(channel[s]) /\ Len(channel[s].buffer) = ChanCap

\* The state of the call after beginStop, once; the request waits in toHost.
Stopping(c) ==
  IF c.stop # "no" THEN c
  ELSE [c EXCEPT !.stop = IF stream # "down" /\ Len(toHost) < SendCap
                          THEN "waiting" ELSE "ending"]
StopRequest(s) ==
  IF call[s].stop = "no" /\ Stopping(call[s]).stop = "waiting"
  THEN Append(toHost, <<"stop", s>>) ELSE toHost

----------------------------------------------------------------------------
(* The client: calls of the plugin *)

\* StartNetworkCapture: with the queue full, or without a session, it fails.
Start(s) ==
  /\ call[s].start = "idle" /\ stream # "down"
  /\ IF Len(toHost) < SendCap
     THEN /\ toHost' = Append(toHost, <<"start", s>>)
          /\ call' = [call EXCEPT ![s].start = "waiting"]
     ELSE /\ call' = [call EXCEPT ![s].start = "failed"]
          /\ UNCHANGED toHost
  /\ UNCHANGED <<stream, toPlugin, server, registered, orphans, channel, read,
                 seen, missed>>

\* The context of the caller ends: the host is told if the queue takes it.
Cancel(s) ==
  /\ "cancel" \in Faults /\ call[s].start = "waiting"
  /\ call' = [call EXCEPT ![s].start = "failed"]
  /\ toHost' = IF stream # "down" /\ Len(toHost) < SendCap
               THEN Append(toHost, <<"cancel", s>>) ELSE toHost
  /\ UNCHANGED <<stream, toPlugin, server, registered, orphans, channel, read,
                 seen, missed>>

\* Fault: what came early is thrown away.
FaultRegister(s) ==
  /\ call[s].start = "answered"
  /\ registered' = registered \cup {s}
  /\ orphans' = [orphans EXCEPT ![s] = <<>>]
  /\ call' = [call EXCEPT ![s].start = "replaying"]
  /\ UNCHANGED <<stream, toHost, toPlugin, server, channel, read, seen, missed>>

\* The capture is registered, also when the session is gone by now; the early
\* events are handed over next.
Register(s) ==
  /\ call[s].start = "answered"
  /\ registered' = registered \cup {s}
  /\ orphans' = [orphans EXCEPT ![s] = <<>>]
  /\ call' = [call EXCEPT ![s].start = "replaying", ![s].replay = orphans[s]]
  /\ UNCHANGED <<stream, toHost, toPlugin, server, channel, read, seen, missed>>

\* Without the lock: the reader may publish newer events in between.
Replay(s) ==
  /\ call[s].start = "replaying"
  /\ IF call[s].replay = <<>>
     THEN /\ call' = [call EXCEPT ![s].start = "returned"]
          /\ UNCHANGED <<channel, toHost>>
     ELSE LET rest == [call[s] EXCEPT !.replay = Tail(@)] IN
          /\ channel' = [channel EXCEPT ![s] = Push(@, Head(call[s].replay))]
          /\ call' = [call EXCEPT ![s] =
                        IF Overflows(s) THEN Stopping(rest) ELSE rest]
          /\ toHost' = IF Overflows(s) THEN StopRequest(s) ELSE toHost
  /\ UNCHANGED <<stream, toPlugin, server, registered, orphans, read, seen,
                 missed>>

Consume(s) ==
  /\ call[s].start = "returned" /\ channel[s].buffer # <<>>
  /\ channel' = [channel EXCEPT ![s].buffer = Tail(channel[s].buffer)]
  /\ seen' = [seen EXCEPT ![s] = @ \cup {Head(channel[s].buffer)}]
  /\ UNCHANGED <<stream, toHost, toPlugin, server, call, registered, orphans,
                 read, missed>>

Stop(s) ==
  /\ call[s].start = "returned" /\ call[s].stop = "no"
  /\ call' = [call EXCEPT ![s] = Stopping(@)]
  /\ toHost' = StopRequest(s)
  /\ UNCHANGED <<stream, toPlugin, server, registered, orphans, channel, read,
                 seen, missed>>

\* The goroutine of beginStop: answered, disconnected or after 10 seconds.
EndStop(s) ==
  /\ call[s].stop \in {"ending", "waiting"}
  /\ call' = [call EXCEPT ![s].stop = "done"]
  /\ registered' = registered \ {s}
  /\ channel' = [channel EXCEPT ![s] = Shut(@)]
  /\ UNCHANGED <<stream, toHost, toPlugin, server, orphans, read, seen, missed>>

----------------------------------------------------------------------------
(* The client: its reader *)

\* What was in the stream when it broke may still be read.
Reads(kinds) ==
  /\ stream # "down" /\ toPlugin # <<>> /\ Head(toPlugin)[1] \in kinds
  /\ toPlugin' = Tail(toPlugin)
  /\ UNCHANGED <<stream, server, seen>>

\* A late answer, to nobody, is dropped.
ReadAnswer ==
  /\ Reads({"started", "refused", "stop"})
  /\ LET m == Head(toPlugin)  s == m[2]  c == call[s] IN
     call' = [call EXCEPT ![s] =
       CASE m[1] = "started" /\ c.start = "waiting" -> [c EXCEPT !.start = "answered"]
         [] m[1] = "refused" /\ c.start = "waiting" -> [c EXCEPT !.start = "failed"]
         [] m[1] = "stop" /\ c.stop = "waiting"     -> [c EXCEPT !.stop = "ending"]
         [] OTHER -> c]
  /\ UNCHANGED <<toHost, registered, orphans, channel, read, missed>>

ReadEvent ==
  /\ Reads({"event"})
  /\ LET s == Head(toPlugin)[2]  n == Head(toPlugin)[3] IN
     IF s \in registered
     THEN /\ channel' = [channel EXCEPT ![s] = Push(@, n)]
          /\ call' = IF Overflows(s) THEN [call EXCEPT ![s] = Stopping(@)]
                                     ELSE call
          /\ toHost' = IF Overflows(s) THEN StopRequest(s) ELSE toHost
          /\ read' = [read EXCEPT ![s] = @ \cup {n}]
          /\ UNCHANGED orphans
     ELSE /\ IF Len(orphans[s]) < OrphanCap
             THEN /\ orphans' = [orphans EXCEPT ![s] = Append(@, n)]
                  /\ read' = [read EXCEPT ![s] = @ \cup {n}]
             ELSE UNCHANGED <<orphans, read>>
          /\ UNCHANGED <<channel, call, toHost>>
  /\ UNCHANGED <<registered, missed>>

\* The end of a capture that is not registered yet is not kept.
ReadEnd ==
  /\ Reads({"stopped"})
  /\ LET s == Head(toPlugin)[2] IN
     IF s \in registered
     THEN /\ registered' = registered \ {s}
          /\ channel' = [channel EXCEPT ![s] = Shut(@)]
          /\ UNCHANGED missed
     ELSE /\ missed' = missed \cup {s}
          /\ UNCHANGED <<registered, channel>>
  /\ UNCHANGED <<toHost, call, orphans, read>>

\* disconnect, under the lock of the client: calls fail, captures are closed.
Disconnect ==
  /\ stream = "lost"
  /\ stream' = "down"
  /\ toHost' = <<>> /\ toPlugin' = <<>>
  /\ call' = [s \in Captures |->
       [call[s] EXCEPT !.start = IF @ = "waiting" THEN "failed" ELSE @,
                       !.stop = IF @ = "waiting" THEN "ending" ELSE @]]
  /\ channel' = [s \in Captures |->
       IF s \in registered THEN Shut(channel[s]) ELSE channel[s]]
  /\ registered' = {}
  /\ orphans' = [s \in Captures |-> <<>>]
  /\ UNCHANGED <<server, read, seen, missed>>

----------------------------------------------------------------------------
Init ==
  /\ stream = "up" /\ toHost = <<>> /\ toPlugin = <<>> /\ events = <<>>
  /\ captures = {} /\ dropped = {} /\ registered = {} /\ missed = {}
  /\ emitted = [s \in Captures |-> 0]
  /\ handler = [s \in Captures |-> NoHandler]
  /\ call = [s \in Captures |-> Idle]
  /\ orphans = [s \in Captures |-> <<>>]
  /\ channel = [s \in Captures |-> [buffer |-> <<>>, closes |-> 0]]
  /\ read = [s \in Captures |-> {}] /\ seen = [s \in Captures |-> {}]

Host ==
  \/ Serve \/ Forward \/ CleanUp
  \/ \E s \in Captures : Started(s) \/ Stopped(s) \/ Respond(s)

Client ==
  \/ ReadAnswer \/ ReadEvent \/ ReadEnd \/ Disconnect
  \/ \E s \in Captures : Register(s) \/ Replay(s) \/ EndStop(s)

Environment ==
  \/ StreamEnds
  \/ \E s \in Captures : \/ Start(s) \/ Cancel(s) \/ Consume(s) \/ Stop(s)
                         \/ Emit(s) \/ EndCapture(s)

Next == Host \/ Client \/ Environment

\* The goroutines of both sides are scheduled, and the browser answers a start.
Fairness ==
  /\ WF_vars(Serve) /\ WF_vars(Forward)
  /\ WF_vars(ReadAnswer \/ ReadEvent \/ ReadEnd) /\ WF_vars(Disconnect)
  /\ \A s \in Captures :
       /\ WF_vars(Started(s)) /\ WF_vars(Register(s)) /\ WF_vars(Replay(s))
       /\ SF_vars(Respond(s))

Spec == Init /\ [][Next]_vars
FairSpec == Spec /\ Fairness

----------------------------------------------------------------------------
(* Properties *)

\* Neither "close of closed channel" nor "send on closed channel", both of
\* which end the plugin process: a full channel, the end of the capture, Stop
\* and the end of the session close it from different goroutines.
NoPanic ==
  [][\A s \in Captures : Closed(channel[s]) =>
       /\ channel'[s].closes = channel[s].closes
       /\ Len(channel'[s].buffer) <= Len(channel[s].buffer)]_vars

\* Every event the client has taken from the stream is on its way to the
\* plugin as long as session and channel are open, also those that came before the
\* answer to the start ("kept by session ID", docs/development/
\* browser-automation.md).
NothingIsMissed ==
  stream # "down" => \A s \in registered : ~Closed(channel[s]) =>
    read[s] = seen[s] \cup {channel[s].buffer[i] : i \in DOMAIN channel[s].buffer}
              \cup {call[s].replay[i] : i \in DOMAIN call[s].replay}

\* When everything sent has been received, a capture that is open in the plugin
\* is one the host has registered. The exceptions are its end finding a full
\* queue, or arriving before the plugin has registered the capture.
EndIsTold ==
  stream = "up" /\ events = <<>> /\ toPlugin = <<>> =>
    \A s \in Captures :
      call[s].start = "returned" /\ ~Closed(channel[s]) =>
        s \in captures \cup missed

\* After Stop, the channel is closed: a plugin may wait for its consumer, as the
\* example in docs/development/browser-plugin.md does.
StopCloses ==
  \A s \in Captures : call[s].stop = "done" => Closed(channel[s])

\* StartNetworkCapture needs no time limit: it returns although queues fill up,
\* the browser refuses, and the session ends at any time.
StartsReturn ==
  \A s \in Captures :
    call[s].start = "waiting" ~> call[s].start \in {"returned", "failed"}

\* What every state of a plugin's captures keeps: values of their type, no event
\* skipped in front of one that was delivered, and a channel that is closed once
\* a stop has ended (publish, closeWithError and beginStop,
\* sdk/browser.go:485-568).
BridgeInv == TypeOK /\ NothingIsMissed /\ StopCloses
=============================================================================
