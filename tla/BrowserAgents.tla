---------------------------- MODULE BrowserAgents ----------------------------
(***************************************************************************)
(* A browser extension (browser-extension/background.js), its WebSocket    *)
(* connections, and the host that sends it commands and keeps the network  *)
(* captures it runs (internal/browser/manager.go).                         *)
(*                                                                         *)
(* The extension reconnects whenever it likes; the host notices later that *)
(* a connection is gone, and a newer one of the same agent replaces the    *)
(* older.  Every goroutine of the host (handler and reader of a connection,*)
(* caller of a command) and every callback of the extension is an action.  *)
(* The extension answers over the socket it has when it answers, which may *)
(* not be the one the command came by.                                     *)
(*                                                                         *)
(* Abstracted: one agent, for agents share nothing; payloads; pairing      *)
(* tokens (a connection that is refused changes nothing, a rotation closes *)
(* connections); heartbeats (a broken link is noticed at some time); the   *)
(* events of captures and their subscribers (BrowserBridge).               *)
(***************************************************************************)
EXTENDS Naturals, Sequences, FiniteSets

CONSTANTS
  Commands,       \* commands the host sends; a capture has the name of its start
  MaxConns,       \* bound: connections
  MaxConcurrent,  \* most commands the options let the extension execute at once
  Total,          \* chunks of a large answer
  Faults,         \* "cut", "close", "cancel", "tab", "user"
  None

Conns == 1..MaxConns

ASSUME AgentAssumption ==
  /\ MaxConns \in Nat \ {0} /\ MaxConcurrent \in Nat \ {0} /\ Total \in Nat \ {0}
  /\ Faults \subseteq {"cut", "close", "cancel", "tab", "user"}
  /\ None \notin Conns

VARIABLES
  link,      \* the connections: queues both ways, and whether they still work
  host,      \* the handlers of the connections in the host
  agents,    \* Manager.agents: the connection commands are sent by
  pending,   \* agentConnection.pending and chunks, per connection
  cmd,       \* commands and their callers
  captures,  \* Manager.captures
  socket,    \* the extension's current socket
  run,       \* commands the extension executes
  sessions,  \* networkSessions
  ending     \* sessions that stopAllNetworkSessions took and has not reported

vars == <<link, host, agents, pending, cmd, captures, socket, run, sessions,
          ending>>
extension == <<socket, run, sessions, ending>>
manager == <<host, agents, pending, cmd, captures>>

NoLink == [alive |-> FALSE, shut |-> FALSE, up |-> <<>>, down |-> <<>>]
NoHost == [pc |-> "none", close |-> "open", prev |-> None]
NoPending == [waiting |-> {}, next |-> [k \in Commands |-> 0]]
NoCommand == [pc |-> "idle", kind |-> "none", of |-> None, conn |-> None,
              addressed |-> TRUE, result |-> "none"]
Idle == [pc |-> "none", sent |-> 0]

Up == {<<"hello">>} \cup ({"answer", "refusal", "stopped"} \X Commands)
      \cup ({"chunk"} \X Commands \X (0..Total - 1))

TypeOK ==
  /\ link \in [Conns -> [alive : BOOLEAN, shut : BOOLEAN, up : Seq(Up),
                         down : Seq(Commands)]]
  /\ host \in [Conns -> [pc : {"none", "replacing", "serving"},
                         close : {"open", "captures", "socket", "drain", "closed"},
                         prev : Conns \cup {None}]]
  /\ agents \in Conns \cup {None}
  /\ pending \in [Conns -> [waiting : SUBSET Commands,
                            next : [Commands -> 0..Total - 1]]]
  /\ cmd \in [Commands -> [pc : {"idle", "selecting", "writing", "waiting",
                                 "done"},
                           kind : {"none", "start", "stop", "action"},
                           of : Commands \cup {None},
                           conn : Conns \cup {None}, addressed : BOOLEAN,
                           result : {"none", "ok", "error", "cancelled"}]]
  /\ captures \in [Commands -> {"none", "starting", "running"}]
  /\ socket \in Conns \cup {None}
  /\ run \in [Commands -> [pc : {"none", "working", "stopping", "sending"},
                           sent : 0..Total - 1]]
  /\ sessions \subseteq Commands /\ ending \subseteq Commands

----------------------------------------------------------------------------
(* The extension *)

\* send: over the current socket; what is sent into a dead link is lost.
Sent(ms) ==
  IF socket # None /\ link[socket].alive
  THEN [link EXCEPT ![socket].up = @ \o ms] ELSE link

\* connect, and the hello once the socket is open.
Connect(c) ==
  /\ socket = None /\ link[c] = NoLink /\ host[c] = NoHost
  /\ \A d \in Conns : d < c => host[d] # NoHost
  /\ socket' = c
  /\ link' = [link EXCEPT ![c] = [NoLink EXCEPT !.alive = TRUE,
                                          !.up = <<<<"hello">>>>]]
  /\ UNCHANGED <<manager, run, sessions, ending>>

\* stopAllNetworkSessions: the sessions are forgotten at once, and reported
\* when they have stopped.
StopAll ==
  /\ sessions' = {}
  /\ ending' = ending \cup sessions

\* The close event of the current socket. What was under way to it is lost.
CloseEvent ==
  /\ socket # None /\ ~link[socket].alive
  /\ StopAll
  /\ link' = [link EXCEPT ![socket].down = <<>>]
  /\ socket' = None
  /\ UNCHANGED <<manager, run>>

\* requestDisconnect and restartConnection: the host still reads what was sent.
Disconnect ==
  /\ "user" \in Faults /\ socket # None /\ host[socket] # NoHost
  /\ StopAll
  /\ link' = [link EXCEPT ![socket].alive = FALSE, ![socket].down = <<>>]
  /\ socket' = None
  /\ UNCHANGED <<manager, run>>

\* The reports of stopAllNetworkSessions, over whatever socket there is now.
EndSession(s) ==
  /\ s \in ending
  /\ ending' = ending \ {s}
  /\ link' = Sent(<<<<"stopped", s>>>>)
  /\ UNCHANGED <<manager, socket, run, sessions>>

\* The tab is closed or the debugger detached.
TabClosed(s) ==
  /\ "tab" \in Faults /\ s \in sessions
  /\ sessions' = sessions \ {s}
  /\ link' = Sent(<<<<"stopped", s>>>>)
  /\ UNCHANGED <<manager, socket, run, ending>>

ActiveRuns == Cardinality({k \in Commands : run[k].pc # "none"})

\* handleMessage: a command, unless too many are executed for the limit of the
\* options, which are read at every message.
HandleMessage ==
  /\ socket # None /\ link[socket].down # <<>>
  /\ LET k == Head(link[socket].down)
         rest == [link EXCEPT ![socket].down = Tail(@)]
     IN \E limit \in 1..MaxConcurrent :
          IF ActiveRuns < limit
          THEN run' = [run EXCEPT ![k].pc = "working"] /\ link' = rest
          ELSE /\ link' = IF rest[socket].alive
                          THEN [rest EXCEPT ![socket].up =
                                  Append(@, <<"refusal", k>>)]
                          ELSE rest
               /\ UNCHANGED run
  /\ UNCHANGED <<manager, socket, sessions, ending>>

Reply(k, m) ==
  /\ run' = [run EXCEPT ![k] = Idle]
  /\ link' = Sent(<<<<m, k>>>>)

\* The command fails in the browser.
WorkFails(k) ==
  /\ run[k].pc = "working"
  /\ cmd[k].kind = "stop" => cmd[k].of \notin sessions
  /\ Reply(k, "refusal")
  /\ UNCHANGED <<manager, socket, sessions, ending>>

StartNetworkSession(k) ==
  /\ run[k].pc = "working" /\ cmd[k].kind = "start"
  /\ sessions' = sessions \cup {k}
  /\ Reply(k, "answer")
  /\ UNCHANGED <<manager, socket, ending>>

\* stopNetworkSession finds the session, then waits for its last bodies.
FindSession(k) ==
  /\ run[k].pc = "working" /\ cmd[k].kind = "stop" /\ cmd[k].of \in sessions
  /\ run' = [run EXCEPT ![k].pc = "stopping"]
  /\ UNCHANGED <<link, manager, socket, sessions, ending>>

StopNetworkSession(k) ==
  /\ run[k].pc = "stopping"
  /\ sessions' = sessions \ {cmd[k].of}
  /\ Reply(k, "answer")
  /\ UNCHANGED <<manager, socket, ending>>

\* A small answer, or the beginning of a large one.
Act(k) ==
  /\ run[k].pc = "working" /\ cmd[k].kind = "action"
  /\ \/ Reply(k, "answer")
     \/ run' = [run EXCEPT ![k].pc = "sending"] /\ UNCHANGED link
  /\ UNCHANGED <<manager, socket, sessions, ending>>

\* sendCommandResult sends the chunks as the socket takes them; without an
\* open socket it gives up, and with another one it goes on.
SendChunk(k) ==
  /\ run[k].pc = "sending"
  /\ run' = [run EXCEPT ![k] = IF socket = None \/ @.sent + 1 = Total THEN Idle
                               ELSE [pc |-> "sending", sent |-> @.sent + 1]]
  /\ link' = Sent(<<<<"chunk", k, run[k].sent>>>>)
  /\ UNCHANGED <<manager, socket, sessions, ending>>

\* The network fails; both sides notice later.
Cut(c) ==
  /\ "cut" \in Faults /\ link[c].alive /\ host[c] # NoHost
  /\ link' = [link EXCEPT ![c] = [NoLink EXCEPT !.shut = link[c].shut]]
  /\ UNCHANGED <<manager, extension>>

----------------------------------------------------------------------------
(* The host: connections *)

\* HandleExtension reads the hello; addAgent swaps the entry of the map.
AddAgent(c) ==
  /\ host[c].pc = "none" /\ link[c].up # <<>>
  /\ link' = [link EXCEPT ![c].up = Tail(@)]
  /\ host' = [host EXCEPT ![c].pc = "replacing", ![c].prev = agents]
  /\ agents' = c
  /\ UNCHANGED <<pending, cmd, captures, extension>>

\* close, once: done, and removeAgent, which takes the entry of the map away
\* only if it is still this connection's.
StartClose(c) ==
  /\ agents' = IF agents = c THEN None ELSE agents
  /\ host' = [host EXCEPT ![c].close = "captures"]
  /\ UNCHANGED <<link, pending, cmd, captures, extension>>

\* It closes the connection it replaced, and waits until that is closed.
ClosePrevious(c) ==
  /\ host[c].pc = "replacing" /\ host[c].prev # None
  /\ host[host[c].prev].close = "open"
  /\ StartClose(host[c].prev)

Welcome(c) ==
  /\ host[c].pc = "replacing"
  /\ host[c].prev # None => host[host[c].prev].close = "closed"
  /\ host' = [host EXCEPT ![c].pc = "serving"]
  /\ UNCHANGED <<link, agents, pending, cmd, captures, extension>>

\* A read or a ping fails on a dead link.
Disconnected(c) ==
  /\ host[c].close = "open" /\ host[c].pc = "serving" /\ ~link[c].alive
  /\ StartClose(c)

\* A new pairing token closes the connections the map holds, not one whose
\* hello was read and that is not in the map yet.
RotatePairingToken(c) ==
  /\ "close" \in Faults /\ host[c].close = "open" /\ agents = c
  /\ StartClose(c)

\* The agent of a capture is known if the caller named it, or from the answer.
Addressed(s) == cmd[s].addressed \/ captures[s] = "running"

RemoveCaptures(c) ==
  /\ host[c].close = "captures"
  /\ captures' = [s \in Commands |->
                    IF Addressed(s) THEN "none" ELSE captures[s]]
  /\ host' = [host EXCEPT ![c].close = "socket"]
  /\ UNCHANGED <<link, agents, pending, cmd, extension>>

\* Fault: the socket stays open.
FaultCloseSocket(c) ==
  /\ host[c].close = "socket"
  /\ host' = [host EXCEPT ![c].close = "drain"]
  /\ UNCHANGED <<link, agents, pending, cmd, captures, extension>>

CloseSocket(c) ==
  /\ host[c].close = "socket"
  /\ link' = [link EXCEPT ![c] = [@ EXCEPT !.alive = FALSE, !.shut = TRUE,
                                           !.up = <<>>]]
  /\ host' = [host EXCEPT ![c].close = "drain"]
  /\ UNCHANGED <<agents, pending, cmd, captures, extension>>

\* notifyPending: the channel holds one result.
Notified(ks, result) ==
  [k \in Commands |-> IF k \in ks /\ cmd[k].pc # "done"
                         /\ cmd[k].result = "none"
                      THEN [cmd[k] EXCEPT !.result = result] ELSE cmd[k]]

Drain(c) ==
  /\ host[c].close = "drain"
  /\ cmd' = Notified(pending[c].waiting, "error")
  /\ pending' = [pending EXCEPT ![c] = NoPending]
  /\ host' = [host EXCEPT ![c].close = "closed"]
  /\ UNCHANGED <<link, agents, captures, extension>>

----------------------------------------------------------------------------
(* The host: the reader of a connection *)

Reads(c, kinds) ==
  /\ host[c].pc = "serving" /\ link[c].up # <<>>
  /\ Head(link[c].up)[1] \in kinds
  /\ link' = [link EXCEPT ![c].up = Tail(@)]
  /\ UNCHANGED <<host, agents, extension>>

Forget(c, k) ==
  [pending EXCEPT ![c].waiting = @ \ {k}, ![c].next[k] = 0]

\* A response of one piece. One that nobody waits for is dropped.
ReadResponse(c) ==
  /\ Reads(c, {"answer", "refusal"})
  /\ LET message == Head(link[c].up)  k == message[2] IN
     /\ cmd' = IF k \in pending[c].waiting
               THEN Notified({k}, IF message[1] = "answer" THEN "ok"
                                                           ELSE "error")
               ELSE cmd
     /\ pending' = Forget(c, k)
  /\ UNCHANGED captures

\* Fault: complete with the last chunk but one.
FaultReadChunk(c) ==
  /\ Reads(c, {"chunk"})
  /\ LET message == Head(link[c].up)  k == message[2]
         waits == k \in pending[c].waiting
         complete == waits /\ message[3] + 2 = Total
     IN /\ cmd' = IF complete THEN Notified({k}, "ok") ELSE cmd
        /\ pending' = IF ~waits \/ complete THEN Forget(c, k)
                      ELSE [pending EXCEPT ![c].next[k] = @ + 1]
  /\ UNCHANGED captures

\* handleResponseChunk: the chunks of an answer come in order and complete.
ReadChunk(c) ==
  /\ Reads(c, {"chunk"})
  /\ LET message == Head(link[c].up)  k == message[2]
         waits == k \in pending[c].waiting
         ordered == message[3] = pending[c].next[k]
         complete == ordered /\ message[3] + 1 = Total
     IN /\ cmd' = CASE waits /\ complete -> Notified({k}, "ok")
                    [] waits /\ ~ordered -> Notified({k}, "error")
                    [] OTHER             -> cmd
        /\ pending' = IF waits /\ ordered /\ ~complete
                      THEN [pending EXCEPT ![c].next[k] = @ + 1]
                      ELSE Forget(c, k)
  /\ UNCHANGED captures

\* Fault: a status does not end the capture.
FaultReadStopped(c) ==
  /\ Reads(c, {"stopped"})
  /\ UNCHANGED <<captures, cmd, pending>>

\* handleEvent: the extension has ended a capture by itself.
ReadStopped(c) ==
  /\ Reads(c, {"stopped"})
  /\ LET s == Head(link[c].up)[2] IN
     captures' = IF Addressed(s) THEN [captures EXCEPT ![s] = "none"]
                                 ELSE captures
  /\ UNCHANGED <<cmd, pending>>

----------------------------------------------------------------------------
(* The host: commands *)

NewCommand(kind) == [NoCommand EXCEPT !.kind = kind, !.pc = "selecting"]

\* Without an agent the two fail and leave nothing behind.
ExecuteAction(k) ==
  /\ cmd[k].pc = "idle" /\ agents # None
  /\ cmd' = [cmd EXCEPT ![k] = [NewCommand("action") EXCEPT
                                  !.pc = "writing", !.conn = agents]]
  /\ UNCHANGED <<link, host, agents, pending, captures, extension>>

StopNetworkCapture(k, s) ==
  /\ cmd[k].pc = "idle" /\ agents # None /\ captures[s] # "none"
  /\ cmd' = [cmd EXCEPT ![k] = [NewCommand("stop") EXCEPT
                                  !.pc = "writing", !.conn = agents, !.of = s]]
  /\ UNCHANGED <<link, host, agents, pending, captures, extension>>

\* The capture is registered before an agent is looked for.
StartNetworkCapture(k, addressed) ==
  /\ cmd[k].pc = "idle"
  /\ captures' = [captures EXCEPT ![k] = "starting"]
  /\ cmd' = [cmd EXCEPT ![k] = [NewCommand("start") EXCEPT
                                  !.addressed = addressed]]
  /\ UNCHANGED <<link, host, agents, pending, extension>>

\* Kept of a command that is over: the connection of a capture, and whether the
\* caller gave up.
Finished(k, result) ==
  [cmd[k] EXCEPT !.pc = "done",
                 !.result = IF result = "cancelled" THEN result ELSE "none",
                 !.conn = IF cmd[k].kind = "start" /\ result = "ok"
                          THEN @ ELSE None]

\* Fault: the session is put into the map whether its entry is there or not.
FaultFinish(k, result) ==
  LET ok == result = "ok" IN
  /\ cmd' = [cmd EXCEPT ![k] = Finished(k, result)]
  /\ pending' = IF cmd[k].conn = None THEN pending ELSE Forget(cmd[k].conn, k)
  /\ captures' =
       CASE cmd[k].kind = "start" -> [captures EXCEPT ![k] =
                                        IF ok THEN "running" ELSE "none"]
         [] cmd[k].kind = "stop" /\ ok
                                    -> [captures EXCEPT ![cmd[k].of] = "none"]
         [] OTHER -> captures

\* What the caller does with the result, after the deferred clean-up.
Finish(k, result) ==
  LET ok == result = "ok" IN
  /\ cmd' = [cmd EXCEPT ![k] = Finished(k, result)]
  /\ pending' = IF cmd[k].conn = None THEN pending ELSE Forget(cmd[k].conn, k)
  /\ captures' =
       CASE cmd[k].kind = "start" /\ ~ok -> [captures EXCEPT ![k] = "none"]
         [] cmd[k].kind = "start" /\ ok /\ captures[k] # "none"
                                    -> [captures EXCEPT ![k] = "running"]
         [] cmd[k].kind = "stop" /\ ok
                                    -> [captures EXCEPT ![cmd[k].of] = "none"]
         [] OTHER -> captures

Select(k) ==
  /\ cmd[k].pc = "selecting"
  /\ IF agents = None
     THEN Finish(k, "error")
     ELSE /\ cmd' = [cmd EXCEPT ![k].pc = "writing", ![k].conn = agents]
          /\ UNCHANGED <<pending, captures>>
  /\ UNCHANGED <<link, host, agents, extension>>

\* The command is pending, then written. The write fails once this side has
\* closed the socket; a link that is dead without the host knowing takes it.
Write(k) ==
  LET c == cmd[k].conn IN
  /\ cmd[k].pc = "writing"
  /\ IF link[c].shut
     THEN Finish(k, "error") /\ UNCHANGED link
     ELSE /\ pending' = [pending EXCEPT ![c].waiting = @ \cup {k}]
          /\ link' = IF link[c].alive
                     THEN [link EXCEPT ![c].down = Append(@, k)]
                     ELSE link
          /\ cmd' = [cmd EXCEPT ![k].pc = "waiting"]
          /\ UNCHANGED captures
  /\ UNCHANGED <<host, agents, extension>>

Result(k) ==
  /\ cmd[k].pc = "waiting" /\ cmd[k].result # "none"
  /\ Finish(k, cmd[k].result)
  /\ UNCHANGED <<link, host, agents, extension>>

\* The context of the caller ends first.
Cancel(k) ==
  /\ "cancel" \in Faults /\ cmd[k].pc = "waiting"
  /\ Finish(k, "cancelled")
  /\ UNCHANGED <<link, host, agents, extension>>

----------------------------------------------------------------------------
Init ==
  /\ link = [c \in Conns |-> NoLink]
  /\ host = [c \in Conns |-> NoHost]
  /\ agents = None
  /\ pending = [c \in Conns |-> NoPending]
  /\ cmd = [k \in Commands |-> NoCommand]
  /\ captures = [k \in Commands |-> "none"]
  /\ socket = None
  /\ run = [k \in Commands |-> Idle]
  /\ sessions = {} /\ ending = {}

Extension ==
  \/ CloseEvent \/ Disconnect \/ HandleMessage
  \/ \E c \in Conns : Connect(c) \/ Cut(c)
  \/ \E k \in Commands :
       \/ EndSession(k) \/ TabClosed(k) \/ WorkFails(k) \/ Act(k)
       \/ StartNetworkSession(k) \/ FindSession(k) \/ StopNetworkSession(k)
       \/ SendChunk(k)

Connection(c) ==
  \/ AddAgent(c) \/ ClosePrevious(c) \/ Welcome(c) \/ Disconnected(c)
  \/ RotatePairingToken(c)
  \/ RemoveCaptures(c) \/ CloseSocket(c) \/ Drain(c)
  \/ ReadResponse(c) \/ ReadChunk(c) \/ ReadStopped(c)

Command(k) ==
  \/ ExecuteAction(k) \/ \E b \in BOOLEAN : StartNetworkCapture(k, b)
  \/ \E s \in Commands : StopNetworkCapture(k, s)
  \/ Select(k) \/ Write(k) \/ Result(k) \/ Cancel(k)

Next ==
  \/ Extension
  \/ \E c \in Conns : Connection(c)
  \/ \E k \in Commands : Command(k)

Spec == Init /\ [][Next]_vars

----------------------------------------------------------------------------
(* Properties *)

\* Messages of the extension about command or session k that are under way.
Coming(c, k) ==
  \E i \in DOMAIN link[c].up :
    Len(link[c].up[i]) > 1 /\ link[c].up[i][2] = k

Ordered(c, k) == \E i \in DOMAIN link[c].down : link[c].down[i] = k

\* sendCommand has no time limit of its own. A caller that waits has its
\* result already, or the extension will answer over the connection the
\* command went by, or that connection's close, which fails the commands that
\* are pending, is still to come: whatever the moment at which the connection
\* broke, was replaced or was closed between selectAgent, pending and write.
NobodyWaitsInVain ==
  \A k \in Commands : cmd[k].pc = "waiting" /\ cmd[k].result = "none" =>
    LET c == cmd[k].conn IN
    /\ k \in pending[c].waiting /\ host[c].close # "closed"
    /\ \/ ~link[c].alive
       \/ Ordered(c, k) \/ Coming(c, k)
       \/ run[k].pc # "none" /\ socket = c

\* The connection commands go to is one that is not closed, and the newest
\* connection stays it until it is closed: the late clean-up of a connection
\* that was replaced neither takes the new one away nor leaves its own behind.
CurrentIsOpen ==
  /\ agents # None => host[agents].close = "open"
  /\ \A c \in Conns : host[c].pc # "none" /\ host[c].close = "open" =>
       agents = c \/ \E d \in Conns : host[d].prev = c

\* The extension is welcomed when the connection it replaced is gone, with
\* its captures and commands, as docs/development/browser-automation.md says.
WelcomedAlone ==
  \A c \in Conns : host[c].pc = "serving" /\ host[c].prev # None =>
    host[host[c].prev].close = "closed"

\* An answer in chunks is given to its caller when all its chunks have been
\* received by the connection the command was sent by, however the extension
\* changed sockets while it sent them.
AnswerIsWhole ==
  \A k \in Commands :
    cmd[k].kind = "action" /\ cmd[k].result = "ok" =>
      /\ run[k].pc = "none"
      /\ ~ \E c \in Conns : Coming(c, k)

\* A capture that its caller started on a named agent is not registered any
\* more once the connection it was started on has removed its captures.
CapturesHaveTheirAgent ==
  \A s \in Commands : captures[s] = "running" /\ cmd[s].addressed =>
    host[cmd[s].conn].close \in {"open", "captures"}

\* A capture the host calls running is one the extension runs, as far as the
\* host can know: unless the report of its end is under way, the connection it
\* ran on broke, or the caller of the stop that ended it gave up or has yet to
\* learn of it, its own connection being perhaps the one that broke.
RunningIsReal ==
  \A s \in Commands : captures[s] = "running" /\ cmd[s].addressed =>
    \/ s \in sessions \/ Coming(cmd[s].conn, s)
    \/ ~link[cmd[s].conn].alive
    \/ \E k \in Commands :
         cmd[k].kind = "stop" /\ cmd[k].of = s
         /\ \/ cmd[k].result \in {"ok", "cancelled"}
            \/ /\ cmd[k].pc = "waiting"
               /\ Coming(cmd[k].conn, k) \/ ~link[cmd[k].conn].alive

\* The table of agents and that of captures agree with the sockets: the current
\* connection is open, a connection is welcomed when no other serves the agent,
\* a capture has an agent, and one called running runs (Handle,
\* removeConnection and execute, manager.go:139-420).
AgentsInv ==
  /\ TypeOK /\ CurrentIsOpen /\ WelcomedAlone
  /\ CapturesHaveTheirAgent /\ RunningIsReal
=============================================================================
