------------------------- MODULE BrowserAgentsProofs -------------------------
(***************************************************************************)
(* AgentsInv, NobodyWaitsInVain and AnswerIsWhole of BrowserAgents hold    *)
(* for any commands, connections, chunks of an answer and limit of the     *)
(* commands the extension executes at once.                                *)
(***************************************************************************)
EXTENDS BrowserAgents, TLAPS

\* What is in a queue, whatever the order; and what of it is there once.
Ran(q) == {q[i] : i \in DOMAIN q}
Once(q, M) == \A i, j \in DOMAIN q : q[i] \in M /\ q[j] \in M => i = j

UpOf(c) == Ran(link[c].up)
DownOf(c) == Ran(link[c].down)

\* The messages about a command or a session.
Numbers == 0..Total - 1
Answers(k) == {<<"answer", k>>, <<"refusal", k>>}
ChunkOf(k, i) == <<"chunk", k, i>>
Chunks(k) == {ChunkOf(k, i) : i \in Numbers}
EndOf(k) == <<"stopped", k>>

\* None of the messages is under way; at most one of them is.
Nowhere(M) == \A c \in Conns : M \cap UpOf(c) = {}
Lone(M) ==
  /\ \A c \in Conns : Once(link[c].up, M)
  /\ \A c, d \in Conns : M \cap UpOf(c) # {} /\ M \cap UpOf(d) # {} => c = d

-----------------------------------------------------------------------------
(* The inductive invariant *)

\* A connection: what works is the socket of the extension, and closed is what
\* the host has closed.
LinkOf(c) ==
  /\ link[c].alive => socket = c
  /\ link[c].down # <<>> => socket = c
  /\ link[c].shut <=> host[c].close \in {"drain", "closed"}
  /\ link[c].shut => ~link[c].alive

\* Its handler: the newest is the one of the agent, and serves when the one it
\* replaced is closed.
HostOf(c) ==
  /\ host[c].pc = "none" => host[c] = NoHost
  /\ agents = c => host[c].pc # "none" /\ host[c].close = "open"
  /\ host[c].prev # None => host[host[c].prev].pc # "none"
  /\ host[c].pc # "none" /\ host[c].close = "open" =>
       agents = c \/ \E d \in Conns : host[d].prev = c
  /\ host[c].pc = "serving" /\ host[c].prev # None => host[host[c].prev].close = "closed"

\* Its commands: they wait for it, until it is closed.
WaitingOf(c) ==
  /\ host[c].close = "closed" => pending[c].waiting = {}
  /\ \A k \in Commands :
       IF k \in pending[c].waiting THEN cmd[k].pc = "waiting" /\ cmd[k].conn = c
                                   ELSE pending[c].next[k] = 0

\* A command: what its place says of its other fields.
CallOf(k) ==
  /\ cmd[k].pc \in {"idle", "selecting"} => cmd[k].conn = None
  /\ cmd[k].pc \in {"writing", "waiting"} => cmd[k].conn # None
  /\ cmd[k].conn # None => host[cmd[k].conn].pc # "none"
  /\ cmd[k].pc = "idle" <=> cmd[k].kind = "none"
  /\ cmd[k].pc = "selecting" => cmd[k].kind = "start"
  /\ cmd[k].kind = "stop" =>
       cmd[k].of \in Commands /\ cmd[cmd[k].of].kind = "start"
  /\ cmd[k].pc \notin {"waiting", "done"} => cmd[k].result = "none"
  /\ cmd[k].result \in {"ok", "error"} => cmd[k].pc = "waiting"
  /\ cmd[k].result = "cancelled" => cmd[k].pc = "done"
  /\ captures[k] # "none" => cmd[k].kind = "start"
  /\ captures[k] = "running" => cmd[k].conn # None /\ cmd[k].pc = "done"

Written(k) == cmd[k].pc \in {"waiting", "done"}
Queued(k) == \E c \in Conns : k \in DownOf(c)
Silent(k) == Nowhere(Answers(k)) /\ Nowhere(Chunks(k))
Over(k) == run[k].pc = "none" /\ ~Queued(k) /\ Silent(k)
NoSession(k) == k \notin sessions \cup ending /\ Nowhere({EndOf(k)})

\* A command is in one place at a time: on the way, with the extension, or
\* answered; what it starts lives after that.
TokenOf(k) ==
  /\ ~Written(k) => Over(k) /\ NoSession(k)
  /\ Queued(k) => run[k].pc = "none" /\ Silent(k) /\ NoSession(k)
  /\ \A c \in Conns : Once(link[c].down, {k})
  /\ run[k].pc # "none" => Nowhere(Answers(k)) /\ NoSession(k)
  /\ run[k].pc \in {"working", "stopping"} => Nowhere(Chunks(k))
  /\ Lone(Answers(k)) /\ (Nowhere(Answers(k)) \/ Nowhere(Chunks(k)))
  /\ \A i \in Numbers : Lone({ChunkOf(k, i)})

\* And it is of the kind that says so.
KindOf(k) ==
  /\ run[k].pc = "stopping" => cmd[k].kind = "stop"
  /\ run[k].pc = "sending" \/ ~Nowhere(Chunks(k)) => cmd[k].kind = "action"
  /\ ~NoSession(k) => cmd[k].kind = "start"

\* The chunks of an answer are sent once each, in order.
ChunksOf(k) ==
  /\ \A c \in Conns, i \in Numbers :
       ChunkOf(k, i) \in UpOf(c) => run[k].pc = "none" \/ i < run[k].sent
  /\ \A c \in Conns : k \in pending[c].waiting =>
       /\ Queued(k) => pending[c].next[k] = 0
       /\ run[k].pc # "none" => pending[c].next[k] <= run[k].sent
       /\ \A d \in Conns, i \in Numbers : ChunkOf(k, i) \in UpOf(d) => pending[c].next[k] <= i

\* Who waits for a connection that works waits for the command or its answer.
WaitOf(k) ==
  cmd[k].pc = "waiting" /\ cmd[k].result = "none" =>
    LET c == cmd[k].conn IN
    /\ k \in pending[c].waiting
    /\ \/ ~link[c].alive
       \/ k \in DownOf(c)
       \/ Answers(k) \cap UpOf(c) # {}
       \/ ChunkOf(k, Total - 1) \in UpOf(c)
       \/ run[k].pc # "none" /\ socket = c

\* What is answered is over.
ResultOf(k) ==
  /\ cmd[k].result = "ok" => Over(k)
  /\ cmd[k].kind = "stop" /\ cmd[k].result = "error" =>
       Over(k) \/ host[cmd[k].conn].close = "closed"

Attached == {"open", "captures"}
Lives(s) == cmd[s].addressed /\ captures[s] # "none"

CaptureOf(s) ==
  Lives(s) /\ cmd[s].conn # None => host[cmd[s].conn].close \in Attached

\* A stop of a capture that is registered.
StopOf(k) ==
  cmd[k].kind = "stop" /\ Lives(cmd[k].of) =>
    /\ cmd[k].pc \in {"writing", "waiting"} => host[cmd[k].conn].close \in Attached
    /\ cmd[k].pc = "done" /\ cmd[k].result = "none" => run[k].pc = "none" /\ ~Queued(k)

\* The stop has ended the session, which the host does not know or will forget.
Excuse(k, s) ==
  /\ cmd[k].kind = "stop" /\ cmd[k].of = s
  /\ \/ cmd[k].result \in {"ok", "cancelled"}
     \/ /\ cmd[k].pc = "waiting" /\ cmd[k].result = "none"
        /\ \/ <<"answer", k>> \in UpOf(cmd[k].conn)
           \/ /\ ~link[cmd[k].conn].alive /\ run[k].pc = "none" /\ ~Queued(k)
              /\ <<"refusal", k>> \notin UpOf(cmd[k].conn)

Started(s) ==
  \/ captures[s] = "running" \/ cmd[s].result = "ok"
  \/ cmd[s].conn # None /\ <<"answer", s>> \in UpOf(cmd[s].conn)

RealOf(s) ==
  cmd[s].kind = "start" /\ Lives(s) /\ Started(s) =>
    \/ s \in sessions \/ EndOf(s) \in UpOf(cmd[s].conn)
    \/ ~link[cmd[s].conn].alive
    \/ \E k \in Commands : Excuse(k, s)

\* The two halves, and all of it.
TableInv == \A c \in Conns : LinkOf(c) /\ HostOf(c) /\ WaitingOf(c)
CommandInv ==
  \A k \in Commands :
    /\ CallOf(k) /\ TokenOf(k) /\ KindOf(k) /\ ChunksOf(k) /\ WaitOf(k)
    /\ ResultOf(k) /\ CaptureOf(k) /\ StopOf(k) /\ RealOf(k)
AgentsIInv == TypeOK /\ TableInv /\ CommandInv

-----------------------------------------------------------------------------
(* Queues *)

\* One more at the end.
LEMMA AppendIs ==
  ASSUME NEW S, NEW q \in Seq(S), NEW x \in S
  PROVE  /\ Append(q, x) \in Seq(S) /\ Len(Append(q, x)) = Len(q) + 1
         /\ Ran(Append(q, x)) = Ran(q) \cup {x}
         /\ \A M : Once(q, M) /\ (x \notin M \/ M \cap Ran(q) = {}) => Once(Append(q, x), M)
<1>. DEFINE a == Append(q, x)
<1>1. a \in Seq(S) /\ Len(a) = Len(q) + 1 /\ Len(q) \in Nat
  OBVIOUS
<1>2. /\ \A i \in 1..Len(q) : a[i] = q[i]
      /\ a[Len(q) + 1] = x
  OBVIOUS
<1>3. DOMAIN a = 1..(Len(q) + 1) /\ DOMAIN q = 1..Len(q)
  BY <1>1
<1>. HIDE DEF a
<1>4. Ran(a) = Ran(q) \cup {x}
  <2>1. \A i \in 1..(Len(q) + 1) : i \in 1..Len(q) \/ i = Len(q) + 1
    BY <1>1
  <2>2. ASSUME NEW y \in Ran(a) PROVE y \in Ran(q) \cup {x}
    BY <1>2, <1>3, <2>1, <2>2 DEF Ran
  <2>3. ASSUME NEW y \in Ran(q) PROVE y \in Ran(a)
    <3>1. PICK i \in 1..Len(q) : y = q[i]
      BY <1>3 DEF Ran
    <3>2. i \in DOMAIN a /\ a[i] = y
      BY <1>1, <1>2, <1>3, <3>1
    <3>. QED
      BY <3>2 DEF Ran
  <2>4. x \in Ran(a)
    <3>1. Len(q) + 1 \in DOMAIN a
      BY <1>1, <1>3
    <3>. QED
      BY <1>2, <3>1 DEF Ran
  <2>. QED
    BY <2>2, <2>3, <2>4
<1>5. ASSUME NEW M, Once(q, M), x \notin M \/ M \cap Ran(q) = {}
      PROVE  Once(a, M)
  <2>1. ASSUME NEW i \in 1..(Len(q) + 1), NEW j \in 1..(Len(q) + 1), a[i] \in M, a[j] \in M
        PROVE  i = j
    <3>1. /\ i \in 1..Len(q) \/ i = Len(q) + 1
          /\ j \in 1..Len(q) \/ j = Len(q) + 1
      BY <1>1
    <3>2. \A k \in 1..Len(q) : a[k] \in Ran(q)
      BY <1>2, <1>3 DEF Ran
    <3>3. CASE x \notin M
      BY <1>2, <1>3, <1>5, <2>1, <3>1, <3>3 DEF Once
    <3>4. CASE M \cap Ran(q) = {}
      BY <1>2, <2>1, <3>1, <3>2, <3>4
    <3>. QED
      BY <1>5, <3>3, <3>4
  <2>. QED
    BY <1>3, <2>1 DEF Once
<1>. QED
  BY <1>1, <1>4, <1>5 DEF a

\* The first taken out.
LEMMA TailIs ==
  ASSUME NEW S, NEW q \in Seq(S), q # <<>>
  PROVE  /\ Head(q) \in S /\ Tail(q) \in Seq(S) /\ Len(Tail(q)) = Len(q) - 1
         /\ Ran(q) = {Head(q)} \cup Ran(Tail(q))
         /\ \A M : Once(q, M) => /\ Once(Tail(q), M)
                                 /\ Head(q) \in M => M \cap Ran(Tail(q)) = {}
<1>. DEFINE t == Tail(q)
<1>1. /\ t \in Seq(S) /\ Len(t) = Len(q) - 1 /\ Len(q) \in Nat /\ Len(q) >= 1
      /\ Head(q) = q[1] /\ Head(q) \in S
  OBVIOUS
<1>2. \A i \in 1..(Len(q) - 1) : t[i] = q[i + 1]
  OBVIOUS
<1>3. DOMAIN t = 1..(Len(q) - 1) /\ DOMAIN q = 1..Len(q)
  BY <1>1
<1>. HIDE DEF t
<1>4. Ran(q) = {Head(q)} \cup Ran(t)
  <2>1. ASSUME NEW y \in Ran(q) PROVE y = q[1] \/ y \in Ran(t)
    <3>1. PICK i \in 1..Len(q) : y = q[i]
      BY <1>3 DEF Ran
    <3>2. CASE i # 1
      <4>1. i - 1 \in 1..(Len(q) - 1) /\ (i - 1) + 1 = i
        BY <1>1, <3>1, <3>2
      <4>. QED
        BY <1>2, <1>3, <3>1, <4>1 DEF Ran
    <3>. QED
      BY <3>1, <3>2
  <2>2. ASSUME NEW y \in Ran(t) PROVE y \in Ran(q)
    <3>1. PICK i \in 1..(Len(q) - 1) : y = t[i]
      BY <1>3 DEF Ran
    <3>2. i + 1 \in 1..Len(q) /\ y = q[i + 1]
      BY <1>1, <1>2, <3>1
    <3>. QED
      BY <1>3, <3>2 DEF Ran
  <2>3. q[1] \in Ran(q)
    <3>1. 1 \in DOMAIN q
      BY <1>1, <1>3
    <3>. QED
      BY <3>1 DEF Ran
  <2>. QED
    BY <1>1, <2>1, <2>2, <2>3
<1>5. ASSUME NEW M, Once(q, M)
      PROVE  Once(t, M) /\ (q[1] \in M => M \cap Ran(t) = {})
  <2>1. \A i \in 1..(Len(q) - 1) : i + 1 \in 1..Len(q) /\ i + 1 # 1 /\ t[i] = q[i + 1]
    BY <1>1, <1>2
  <2>2. 1 \in 1..Len(q)
    BY <1>1
  <2>3. ASSUME NEW i \in 1..(Len(q) - 1), NEW j \in 1..(Len(q) - 1), t[i] \in M, t[j] \in M
        PROVE  i = j
    <3>1. i + 1 = j + 1
      BY <1>3, <1>5, <2>1, <2>3 DEF Once
    <3>. QED
      BY <1>1, <3>1
  <2>4. ASSUME q[1] \in M, NEW y \in M \cap Ran(t) PROVE FALSE
    <3>1. PICK i \in 1..(Len(q) - 1) : y = t[i]
      BY <1>3, <2>4 DEF Ran
    <3>. QED
      BY <1>3, <1>5, <2>1, <2>2, <2>4, <3>1 DEF Once
  <2>. QED
    BY <1>3, <2>3, <2>4 DEF Once
<1>. QED
  BY <1>1, <1>4, <1>5 DEF t

\* The same as a concatenation, which is how the extension sends.
LEMMA ConcatIs ==
  ASSUME NEW S, NEW q \in Seq(S), NEW x \in S
  PROVE  q \o <<x>> = Append(q, x)
OBVIOUS

LEMMA EmptyQueue ==
  Ran(<<>>) = {} /\ (\A M : Once(<<>>, M)) /\ <<>> \in Seq(Up) /\ <<>> \in Seq(Commands)
BY DEF Ran, Once

-----------------------------------------------------------------------------
(* Types *)

LinkType == [alive : BOOLEAN, shut : BOOLEAN, up : Seq(Up), down : Seq(Commands)]
HostType == [pc : {"none", "replacing", "serving"},
             close : {"open", "captures", "socket", "drain", "closed"},
             prev : Conns \cup {None}]
PendingType == [waiting : SUBSET Commands, next : [Commands -> Numbers]]
CallType == [pc : {"idle", "selecting", "writing", "waiting", "done"},
             kind : {"none", "start", "stop", "action"}, of : Commands \cup {None},
             conn : Conns \cup {None}, addressed : BOOLEAN,
             result : {"none", "ok", "error", "cancelled"}]
RunType == [pc : {"none", "working", "stopping", "sending"}, sent : Numbers]

LEMMA Bounds == /\ Total \in Nat /\ Total > 0 /\ 0 \in Numbers /\ Total - 1 \in Numbers
                /\ Numbers \subseteq Nat /\ None \notin Conns
<1>1. Total \in Nat \ {0} /\ None \notin Conns
  BY AgentAssumption, Zenon
<1>. QED
  BY <1>1 DEF Numbers

\* TypeOK, per variable and per element.
LEMMA TypeParts ==
  ASSUME TypeOK
  PROVE  /\ link \in [Conns -> LinkType] /\ host \in [Conns -> HostType]
         /\ agents \in Conns \cup {None} /\ pending \in [Conns -> PendingType]
         /\ cmd \in [Commands -> CallType]
         /\ captures \in [Commands -> {"none", "starting", "running"}]
         /\ socket \in Conns \cup {None} /\ run \in [Commands -> RunType]
         /\ sessions \subseteq Commands /\ ending \subseteq Commands
BY DEF TypeOK, LinkType, HostType, PendingType, CallType, RunType, Numbers

LinkTyped == link' \in [Conns -> LinkType]
ManagerTyped ==
  /\ host' \in [Conns -> HostType] /\ agents' \in Conns \cup {None}
  /\ pending' \in [Conns -> PendingType] /\ cmd' \in [Commands -> CallType]
  /\ captures' \in [Commands -> {"none", "starting", "running"}]
ExtensionTyped ==
  /\ socket' \in Conns \cup {None} /\ run' \in [Commands -> RunType]
  /\ sessions' \subseteq Commands /\ ending' \subseteq Commands

LEMMA TypedParts ==
  ASSUME TypeOK
  PROVE  /\ UNCHANGED link => LinkTyped
         /\ UNCHANGED manager => ManagerTyped
         /\ UNCHANGED extension => ExtensionTyped
         /\ LinkTyped /\ ManagerTyped /\ ExtensionTyped => TypeOK'
<1>1. UNCHANGED link => LinkTyped
  BY TypeParts DEF LinkTyped
<1>2. UNCHANGED manager => ManagerTyped
  BY TypeParts DEF ManagerTyped, manager
<1>3. UNCHANGED extension => ExtensionTyped
  BY TypeParts DEF ExtensionTyped, extension
<1>4. LinkTyped /\ ManagerTyped /\ ExtensionTyped => TypeOK'
  BY DEF LinkTyped, ManagerTyped, ExtensionTyped, TypeOK, LinkType, HostType, PendingType,
         CallType, RunType, Numbers
<1>. QED
  BY <1>1, <1>2, <1>3, <1>4

\* A message is the hello or about a command.
LEMMA MessageIs ==
  /\ \A k \in Commands : /\ <<"answer", k>> \in Up /\ <<"refusal", k>> \in Up /\ EndOf(k) \in Up
                         /\ \A i \in Numbers : ChunkOf(k, i) \in Up
  /\ <<"hello">> \in Up
  /\ \A k : /\ <<"hello">> \notin Answers(k) /\ <<"hello">> \notin Chunks(k)
            /\ <<"hello">> # EndOf(k)
BY DEF Up, EndOf, ChunkOf, Answers, Chunks, Numbers

-----------------------------------------------------------------------------
(* What a step makes of the queues *)

\* A connection after a change of one queue.
LEMMA UpSet ==
  ASSUME TypeOK, NEW d \in Conns, NEW q \in Seq(Up), link' = [link EXCEPT ![d].up = q]
  PROVE  /\ LinkTyped /\ link'[d].up = q /\ \A c \in Conns \ {d} : link'[c] = link[c]
         /\ \A c \in Conns : /\ link'[c].alive = link[c].alive /\ link'[c].shut = link[c].shut
                             /\ link'[c].down = link[c].down
<1>1. link \in [Conns -> LinkType] /\ link[d] \in LinkType
  BY TypeParts
<1>2. PICK r : r = [link[d] EXCEPT !.up = q]
  OBVIOUS
<1>3. /\ r \in LinkType /\ r.up = q /\ r.alive = link[d].alive /\ r.shut = link[d].shut
      /\ r.down = link[d].down
  BY <1>1, <1>2 DEF LinkType
<1>4. link' = [link EXCEPT ![d] = r]
  BY <1>2
<1>. QED
  BY <1>1, <1>3, <1>4 DEF LinkTyped

LEMMA DownSet ==
  ASSUME TypeOK, NEW d \in Conns, NEW q \in Seq(Commands), link' = [link EXCEPT ![d].down = q]
  PROVE  /\ LinkTyped /\ link'[d].down = q /\ \A c \in Conns \ {d} : link'[c] = link[c]
         /\ \A c \in Conns : /\ link'[c].alive = link[c].alive /\ link'[c].shut = link[c].shut
                             /\ link'[c].up = link[c].up
<1>1. link \in [Conns -> LinkType] /\ link[d] \in LinkType
  BY TypeParts
<1>2. PICK r : r = [link[d] EXCEPT !.down = q]
  OBVIOUS
<1>3. /\ r \in LinkType /\ r.down = q /\ r.alive = link[d].alive /\ r.shut = link[d].shut
      /\ r.up = link[d].up
  BY <1>1, <1>2 DEF LinkType
<1>4. link' = [link EXCEPT ![d] = r]
  BY <1>2
<1>. QED
  BY <1>1, <1>3, <1>4 DEF LinkTyped

\* What comes up: m is new at most, at one connection, the rest was there.
Flow(m) ==
  /\ \A c \in Conns : UpOf(c)' \subseteq UpOf(c) \cup {m}
  /\ \E d : \A c \in Conns \ {d} : UpOf(c)' \subseteq UpOf(c)
  /\ \A c \in Conns : \A M :
       Once(link[c].up, M) /\ (m \notin M \/ M \cap UpOf(c) = {}) => Once(link'[c].up, M)

LEMMA FlowIs ==
  ASSUME NEW m, Flow(m), NEW M
  PROVE  /\ m \notin M => (Nowhere(M) => Nowhere(M)') /\ (Lone(M) => Lone(M)')
         /\ Nowhere(M) /\ Lone(M) => Lone(M)'
<1>1. ASSUME m \notin M, Nowhere(M) PROVE Nowhere(M)'
  BY <1>1 DEF Flow, Nowhere
<1>2. ASSUME m \notin M, Lone(M) PROVE Lone(M)'
  <2>1. \A c \in Conns : M \cap UpOf(c)' \subseteq M \cap UpOf(c)
    BY <1>2 DEF Flow
  <2>2. \A c \in Conns : Once(link'[c].up, M)
    BY <1>2 DEF Flow, Lone
  <2>. QED
    BY <1>2, <2>1, <2>2 DEF Lone
<1>3. ASSUME Nowhere(M), Lone(M) PROVE Lone(M)'
  <2>1. PICK d : \A c \in Conns \ {d} : UpOf(c)' \subseteq UpOf(c)
    BY DEF Flow
  <2>2. \A c \in Conns : M \cap UpOf(c)' # {} => c = d
    BY <1>3, <2>1 DEF Nowhere
  <2>3. \A c \in Conns : Once(link'[c].up, M)
    BY <1>3 DEF Flow, Lone, Nowhere
  <2>. QED
    BY <2>2, <2>3 DEF Lone
<1>. QED
  BY <1>1, <1>2, <1>3

\* Nothing new.
LEMMA NoNews ==
  ASSUME \A c \in Conns : link'[c].up = link[c].up \/ link'[c].up = <<>>
  PROVE  Flow(<<"hello">>)
<1>1. \A c \in Conns : UpOf(c)' = UpOf(c) \/ UpOf(c)' = {}
  BY EmptyQueue DEF UpOf
<1>. QED
  BY <1>1, EmptyQueue DEF Flow

\* What the extension sends.
LEMMA SentIs ==
  ASSUME TypeOK, NEW m \in Up, link' = Sent(<<m>>)
  PROVE  /\ LinkTyped /\ Flow(m)
         /\ \A c \in Conns :
              /\ link'[c].alive = link[c].alive /\ link'[c].shut = link[c].shut
              /\ link'[c].down = link[c].down
              /\ UpOf(c)' = IF c = socket /\ link[c].alive THEN UpOf(c) \cup {m} ELSE UpOf(c)
<1>1. CASE ~(socket # None /\ link[socket].alive)
  <2>1. link' = link
    BY <1>1 DEF Sent
  <2>2. \A c \in Conns : c = socket => ~link[c].alive
    BY <1>1, Bounds
  <2>3. Flow(m)
    BY <2>1 DEF Flow, UpOf
  <2>. QED
    BY <2>1, <2>2, <2>3, TypedParts DEF UpOf
<1>2. CASE socket # None /\ link[socket].alive
  <2>1. socket \in Conns /\ link[socket].up \in Seq(Up)
    BY <1>2, TypeParts DEF LinkType
  <2>2. PICK q : q = Append(link[socket].up, m)
    OBVIOUS
  <2>3. /\ q \in Seq(Up) /\ Ran(q) = UpOf(socket) \cup {m}
        /\ \A M : Once(link[socket].up, M) /\ (m \notin M \/ M \cap UpOf(socket) = {}) => Once(q, M)
    BY <2>1, <2>2, AppendIs DEF UpOf
  <2>4. link' = [link EXCEPT ![socket].up = link[socket].up \o <<m>>]
    BY <1>2 DEF Sent
  <2>5. link[socket].up \o <<m>> = q
    BY <2>1, <2>2, ConcatIs
  <2>6. link' = [link EXCEPT ![socket].up = q]
    BY <2>4, <2>5
  <2>7. /\ LinkTyped /\ link'[socket].up = q /\ \A c \in Conns \ {socket} : link'[c] = link[c]
        /\ \A c \in Conns : /\ link'[c].alive = link[c].alive /\ link'[c].shut = link[c].shut
                            /\ link'[c].down = link[c].down
    BY <2>1, <2>3, <2>6, UpSet
  <2>8. \A c \in Conns : UpOf(c)' = Ran(link'[c].up)
    BY DEF UpOf
  <2>9. \A c \in Conns : UpOf(c)' = IF c = socket /\ link[c].alive THEN UpOf(c) \cup {m} ELSE UpOf(c)
    BY <1>2, <2>3, <2>7, <2>8 DEF UpOf
  <2>10. Flow(m)
    <3>1. \A c \in Conns \ {socket} : UpOf(c)' \subseteq UpOf(c)
      BY <2>9
    <3>2. \A c \in Conns : \A M :
            Once(link[c].up, M) /\ (m \notin M \/ M \cap UpOf(c) = {}) => Once(link'[c].up, M)
      BY <2>3, <2>7
    <3>. QED
      BY <2>9, <3>1, <3>2 DEF Flow
  <2>. QED
    BY <2>7, <2>9, <2>10
<1>. QED
  BY <1>1, <1>2

\* What a handler or a reader of the host takes.
LEMMA TakenIs ==
  ASSUME TypeOK, NEW d \in Conns, link[d].up # <<>>,
         link' = [link EXCEPT ![d].up = Tail(link[d].up)]
  PROVE  /\ LinkTyped /\ Flow(<<"hello">>) /\ Head(link[d].up) \in Up
         /\ \A c \in Conns : /\ link'[c].alive = link[c].alive /\ link'[c].shut = link[c].shut
                             /\ link'[c].down = link[c].down
                             /\ c # d => UpOf(c)' = UpOf(c)
         /\ UpOf(d) = {Head(link[d].up)} \cup UpOf(d)'
         /\ \A M : Lone(M) /\ Head(link[d].up) \in M => \A c \in Conns : M \cap UpOf(c)' = {}
<1>1. link[d].up \in Seq(Up)
  BY TypeParts DEF LinkType
<1>2. PICK q : q = Tail(link[d].up)
  OBVIOUS
<1>3. /\ Head(link[d].up) \in Up /\ q \in Seq(Up) /\ UpOf(d) = {Head(link[d].up)} \cup Ran(q)
      /\ \A M : Once(link[d].up, M) => /\ Once(q, M)
                                       /\ Head(link[d].up) \in M => M \cap Ran(q) = {}
  BY <1>1, <1>2, TailIs DEF UpOf
<1>4. link' = [link EXCEPT ![d].up = q]
  BY <1>2
<1>5. /\ LinkTyped /\ link'[d].up = q /\ \A c \in Conns \ {d} : link'[c] = link[c]
      /\ \A c \in Conns : /\ link'[c].alive = link[c].alive /\ link'[c].shut = link[c].shut
                          /\ link'[c].down = link[c].down
  BY <1>3, <1>4, UpSet
<1>6. UpOf(d)' = Ran(q) /\ \A c \in Conns \ {d} : UpOf(c)' = UpOf(c)
  BY <1>5 DEF UpOf
<1>7. Flow(<<"hello">>)
  <2>1. \A c \in Conns : UpOf(c)' \subseteq UpOf(c)
    BY <1>3, <1>6
  <2>2. \A c \in Conns : \A M : Once(link[c].up, M) => Once(link'[c].up, M)
    BY <1>3, <1>5
  <2>. QED
    BY <2>1, <2>2 DEF Flow
<1>8. ASSUME NEW M, Lone(M), Head(link[d].up) \in M, NEW c \in Conns PROVE M \cap UpOf(c)' = {}
  <2>1. M \cap UpOf(d) # {}
    BY <1>3, <1>8
  <2>2. CASE c = d
    BY <1>3, <1>6, <1>8, <2>2 DEF Lone
  <2>3. CASE c # d
    BY <1>6, <1>8, <2>1, <2>3 DEF Lone
  <2>. QED
    BY <2>2, <2>3
<1>. QED
  BY <1>3, <1>5, <1>6, <1>7, <1>8

\* What the other connections and the queues of commands keep.
DownShrinks(k) ==
  \A c \in Conns : /\ k \in DownOf(c)' => k \in DownOf(c)
                   /\ Once(link[c].down, {k}) => Once(link'[c].down, {k})

LEMMA DownIs ==
  ASSUME \A c \in Conns : link'[c].down = link[c].down \/ link'[c].down = <<>>, NEW k
  PROVE  DownShrinks(k)
<1>1. \A c \in Conns : DownOf(c)' = DownOf(c) \/ DownOf(c)' = {}
  BY EmptyQueue DEF DownOf
<1>2. \A c \in Conns : Once(link[c].down, {k}) => Once(link'[c].down, {k})
  BY EmptyQueue
<1>. QED
  BY <1>1, <1>2 DEF DownShrinks

-----------------------------------------------------------------------------
(* What a step keeps of a command it is not about *)

Messages(k) == Answers(k) \cup Chunks(k) \cup {EndOf(k)}

LEMMA HelloIsNoMessage == \A k : <<"hello">> \notin Messages(k)
BY MessageIs DEF Messages

\* Messages of one command are not another's.
LEMMA MessagesDiffer ==
  ASSUME NEW j, NEW k, j # k
  PROVE  Messages(j) \cap Messages(k) = {}
BY DEF Messages, Answers, Chunks, ChunkOf, EndOf

LEMMA OwnMessages ==
  ASSUME NEW k
  PROVE  /\ Answers(k) \subseteq Messages(k) /\ Chunks(k) \subseteq Messages(k)
         /\ EndOf(k) \in Messages(k)
         /\ \A i \in Numbers : ChunkOf(k, i) \in Chunks(k) /\ ChunkOf(k, i) \in Messages(k)
         /\ <<"answer", k>> \in Answers(k) /\ <<"refusal", k>> \in Answers(k)
         /\ Answers(k) \cap Chunks(k) = {}
         /\ EndOf(k) \notin Answers(k) /\ EndOf(k) \notin Chunks(k)
BY DEF Messages, Answers, Chunks, ChunkOf, EndOf

\* Over stays, once it is.
LEMMA OverStays ==
  ASSUME NEW k \in Commands, NEW m, Flow(m), m \notin Answers(k) \cup Chunks(k), DownShrinks(k),
         run'[k].pc = run[k].pc, Over(k)
  PROVE  Over(k)'
<1>1. Nowhere(Answers(k))' /\ Nowhere(Chunks(k))'
  BY FlowIs DEF Over, Silent
<1>. QED
  BY <1>1 DEF Over, Silent, Queued, DownShrinks

LEMMA TokenStays ==
  ASSUME NEW k \in Commands, NEW m, Flow(m), m \notin Messages(k), DownShrinks(k),
         run'[k] = run[k], k \in sessions' \cup ending' => k \in sessions \cup ending,
         Written(k) => Written(k)' /\ cmd'[k].kind = cmd[k].kind, TokenOf(k), KindOf(k)
  PROVE  TokenOf(k)' /\ KindOf(k)'
<1>1. /\ Nowhere(Answers(k)) => Nowhere(Answers(k))'
      /\ Nowhere(Chunks(k)) => Nowhere(Chunks(k))'
      /\ Nowhere({EndOf(k)}) => Nowhere({EndOf(k)})'
      /\ Lone(Answers(k)) => Lone(Answers(k))'
      /\ \A i \in Numbers : Lone({ChunkOf(k, i)}) => Lone({ChunkOf(k, i)})'
  <2>1. /\ m \notin Answers(k) /\ m \notin Chunks(k) /\ m \notin {EndOf(k)}
        /\ \A i \in Numbers : m \notin {ChunkOf(k, i)}
    BY OwnMessages
  <2>2. \A i \in Numbers : Lone({ChunkOf(k, i)}) => Lone({ChunkOf(k, i)})'
    BY <2>1, FlowIs
  <2>. QED
    BY <2>1, <2>2, FlowIs
<1>2. Queued(k)' => Queued(k)
  BY DEF Queued, DownShrinks
<1>3. \A c \in Conns : Once(link[c].down, {k}) => Once(link'[c].down, {k})
  BY DEF DownShrinks
<1>4. NoSession(k) => NoSession(k)'
  BY <1>1 DEF NoSession
<1>5. Silent(k) => Silent(k)'
  BY <1>1 DEF Silent
<1>6. Over(k) => Over(k)'
  BY <1>2, <1>5 DEF Over
<1>7. TokenOf(k)'
  BY <1>1, <1>2, <1>3, <1>4, <1>5, <1>6 DEF TokenOf
<1>8. KindOf(k)'
  <2>1. CASE Written(k)
    BY <1>1, <1>4, <2>1 DEF KindOf
  <2>2. CASE ~Written(k)
    <3>1. run[k].pc = "none" /\ Nowhere(Chunks(k))' /\ NoSession(k)'
      BY <1>1, <1>4, <2>2 DEF TokenOf, Over, Silent
    <3>. QED
      BY <3>1 DEF KindOf
  <2>. QED
    BY <2>1, <2>2
<1>. QED
  BY <1>7, <1>8

\* So do the chunks, when whoever waits for k goes on with its count.
LEMMA ChunksStay ==
  ASSUME NEW k \in Commands, NEW m, Flow(m), m \notin Messages(k), DownShrinks(k),
         run'[k] = run[k], ChunksOf(k),
         \A c \in Conns : k \in pending'[c].waiting =>
           k \in pending[c].waiting /\ pending'[c].next[k] = pending[c].next[k]
  PROVE  ChunksOf(k)'
<1>1. \A c \in Conns, i \in Numbers : ChunkOf(k, i) \in UpOf(c)' => ChunkOf(k, i) \in UpOf(c)
  BY OwnMessages DEF Flow
<1>2. Queued(k)' => Queued(k)
  BY DEF Queued, DownShrinks
<1>3. \A c \in Conns, i \in Numbers :
        ChunkOf(k, i) \in UpOf(c)' => run'[k].pc = "none" \/ i < run'[k].sent
  BY <1>1 DEF ChunksOf
<1>4. ASSUME NEW c \in Conns, k \in pending'[c].waiting
      PROVE  /\ Queued(k)' => pending'[c].next[k] = 0
             /\ run'[k].pc # "none" => pending'[c].next[k] <= run'[k].sent
             /\ \A d \in Conns, i \in Numbers : ChunkOf(k, i) \in UpOf(d)' => pending'[c].next[k] <= i
  <2>1. k \in pending[c].waiting /\ pending'[c].next[k] = pending[c].next[k]
    BY <1>4
  <2>. QED
    BY <1>1, <1>2, <2>1 DEF ChunksOf
<1>. QED
  BY <1>3, <1>4 DEF ChunksOf


-----------------------------------------------------------------------------
(* The steps of the extension *)

\* They leave the host alone.
LEMMA HostRests ==
  ASSUME AgentsIInv, UNCHANGED manager
  PROVE  /\ \A c \in Conns : HostOf(c)' /\ WaitingOf(c)'
         /\ \A k \in Commands : CallOf(k)' /\ CaptureOf(k)'
<1>. USE DEF manager
<1>1. \A c \in Conns : HostOf(c)'
  BY DEF AgentsIInv, TableInv, HostOf
<1>2. \A c \in Conns : WaitingOf(c)'
  BY DEF AgentsIInv, TableInv, WaitingOf
<1>3. \A k \in Commands : CallOf(k)'
  BY DEF AgentsIInv, CommandInv, CallOf
<1>4. \A k \in Commands : CaptureOf(k)'
  BY DEF AgentsIInv, CommandInv, CaptureOf, Lives
<1>. QED
  BY <1>1, <1>2, <1>3, <1>4

\* The extension says m, which is about k, and does nothing about the others.
Tells(k, m) ==
  /\ UNCHANGED <<manager, socket>> /\ Flow(m)
  /\ \A c \in Conns :
       /\ link'[c].alive = link[c].alive /\ link'[c].shut = link[c].shut
       /\ link'[c].down # <<>> => link[c].down # <<>>
       /\ UpOf(c) \subseteq UpOf(c)'
       /\ DownOf(c) \ {k} \subseteq DownOf(c)'
  /\ \A j \in Commands : DownShrinks(j)
  /\ \A j \in Commands \ {k} :
       /\ m \notin Messages(j) /\ run'[j] = run[j]
       /\ j \in sessions' \cup ending' => j \in sessions \cup ending

LEMMA TellsOthers ==
  ASSUME AgentsIInv, NEW k, NEW m, Tells(k, m)
  PROVE  /\ TableInv'
         /\ \A j \in Commands : CallOf(j)' /\ CaptureOf(j)'
         /\ \A j \in Commands \ {k} : /\ TokenOf(j)' /\ KindOf(j)' /\ ChunksOf(j)' /\ WaitOf(j)'
                                      /\ ResultOf(j)' /\ StopOf(j)'
                                      /\ \A s : Excuse(j, s) => Excuse(j, s)'
<1>1. UNCHANGED manager
  BY DEF Tells
<1>2. TableInv'
  <2>1. \A c \in Conns : LinkOf(c)'
    BY DEF Tells, LinkOf, AgentsIInv, TableInv, manager
  <2>. QED
    BY <1>1, <2>1, HostRests DEF TableInv
<1>3. \A j \in Commands : CallOf(j)' /\ CaptureOf(j)'
  BY <1>1, HostRests
<1>4. ASSUME NEW j \in Commands \ {k}
      PROVE  /\ TokenOf(j)' /\ KindOf(j)' /\ ChunksOf(j)' /\ WaitOf(j)'
             /\ ResultOf(j)' /\ StopOf(j)'
             /\ \A s : Excuse(j, s) => Excuse(j, s)'
  <2>1. /\ UNCHANGED <<host, agents, pending, cmd, captures, socket>> /\ Flow(m)
        /\ m \notin Messages(j) /\ DownShrinks(j) /\ run'[j] = run[j]
        /\ j \in sessions' \cup ending' => j \in sessions \cup ending
    BY DEF Tells, manager
  <2>2. /\ CallOf(j) /\ TokenOf(j) /\ KindOf(j) /\ ChunksOf(j) /\ WaitOf(j) /\ ResultOf(j)
        /\ StopOf(j)
    BY DEF AgentsIInv, CommandInv
  <2>3. TokenOf(j)' /\ KindOf(j)'
    BY <2>1, <2>2, TokenStays DEF Written
  <2>4. ChunksOf(j)'
    BY <2>1, <2>2, ChunksStay
  <2>5. /\ \A c \in Conns : /\ link'[c].alive = link[c].alive /\ UpOf(c) \subseteq UpOf(c)'
                            /\ j \in DownOf(c) => j \in DownOf(c)'
        /\ \A c \in Conns : \A x \in Messages(j) : x \in UpOf(c)' => x \in UpOf(c)
    BY <2>1 DEF Tells, Flow
  <2>6. Over(j) => Over(j)'
    BY <2>1, OverStays, OwnMessages
  <2>7. cmd[j].pc = "waiting" => cmd[j].conn \in Conns
    BY <2>2, TypeParts DEF CallOf, AgentsIInv, CallType
  <2>8. WaitOf(j)'
    <3>1. ASSUME cmd[j].pc = "waiting", cmd[j].result = "none" PROVE WaitOf(j)'
      <4>1. PICK c : c = cmd[j].conn
        OBVIOUS
      <4>2. c \in Conns
        BY <2>7, <3>1, <4>1
      <4>3. /\ j \in pending[c].waiting
            /\ \/ ~link[c].alive
               \/ j \in DownOf(c)
               \/ Answers(j) \cap UpOf(c) # {}
               \/ ChunkOf(j, Total - 1) \in UpOf(c)
               \/ run[j].pc # "none" /\ socket = c
        BY <2>2, <3>1, <4>1 DEF WaitOf
      <4>4. /\ link'[c].alive = link[c].alive /\ UpOf(c) \subseteq UpOf(c)'
            /\ j \in DownOf(c) => j \in DownOf(c)'
        BY <2>5, <4>2
      <4>. QED
        BY <2>1, <4>1, <4>3, <4>4 DEF WaitOf, UpOf, DownOf
    <3>. QED
      BY <2>1, <3>1 DEF WaitOf
  <2>9. ResultOf(j)'
    BY <2>1, <2>2, <2>6 DEF ResultOf
  <2>10. StopOf(j)'
    <3>1. Queued(j)' => Queued(j)
      BY <2>1 DEF Queued, DownShrinks
    <3>. QED
      BY <2>1, <2>2, <3>1 DEF StopOf, Lives
  <2>11. ASSUME NEW s, Excuse(j, s) PROVE Excuse(j, s)'
    <3>1. Queued(j)' => Queued(j)
      BY <2>1 DEF Queued, DownShrinks
    <3>2. CASE cmd[j].result \in {"ok", "cancelled"}
      BY <2>1, <2>11, <3>2 DEF Excuse
    <3>3. CASE cmd[j].pc = "waiting" /\ cmd[j].result = "none"
      <4>1. PICK c : c = cmd[j].conn
        OBVIOUS
      <4>2. c \in Conns
        BY <2>7, <3>3, <4>1
      <4>3. <<"refusal", j>> \in Messages(j)
        BY OwnMessages
      <4>4. /\ link'[c].alive = link[c].alive
            /\ <<"answer", j>> \in UpOf(c) => <<"answer", j>> \in UpOf(c)'
            /\ <<"refusal", j>> \in UpOf(c)' => <<"refusal", j>> \in UpOf(c)
        BY <2>5, <4>2, <4>3
      <4>. QED
        BY <2>1, <2>11, <3>1, <3>3, <4>1, <4>4 DEF Excuse, UpOf
    <3>. QED
      BY <2>11, <3>2, <3>3 DEF Excuse
  <2>. QED
    BY <2>3, <2>4, <2>8, <2>9, <2>10, <2>11
<1>. QED
  BY <1>2, <1>3, <1>4


\* A running capture stays one, unless the step is about its end.
LEMMA TellsReal ==
  ASSUME AgentsIInv, NEW k \in Commands, NEW m, Tells(k, m), NEW s \in Commands,
         m # <<"answer", s>>, s \in sessions => s \in sessions', Excuse(k, s) => Excuse(k, s)'
  PROVE  RealOf(s)'
<1>1. RealOf(s) /\ CallOf(s)
  BY DEF AgentsIInv, CommandInv
<1>2. UNCHANGED <<cmd, captures>>
  BY DEF Tells, manager
<1>3. \A j \in Commands : Excuse(j, s) => Excuse(j, s)'
  BY TellsOthers
<1>4. ASSUME (cmd[s].kind = "start" /\ Lives(s) /\ Started(s))' PROVE RealOf(s)'
  <2>1. PICK c : c = cmd[s].conn
    OBVIOUS
  <2>2. /\ UpOf(c)' = Ran(link'[cmd'[s].conn].up) /\ UpOf(c)' = Ran(link'[c].up)
        /\ UpOf(c) = Ran(link[cmd[s].conn].up)
    BY <1>2, <2>1 DEF UpOf
  <2>3. c \in Conns
    <3>1. cmd[s].conn # None
      BY <1>1, <1>2, <1>4 DEF Started, CallOf
    <3>. QED
      BY <2>1, <3>1, TypeParts DEF AgentsIInv, CallType
  <2>4. /\ link'[c].alive = link[c].alive /\ UpOf(c) \subseteq UpOf(c)'
        /\ UpOf(c)' \subseteq UpOf(c) \cup {m}
    BY <2>3 DEF Tells, Flow
  <2>5. Started(s)
    BY <1>2, <1>4, <2>1, <2>2, <2>4 DEF Started, UpOf
  <2>6. \/ s \in sessions \/ EndOf(s) \in UpOf(c)
        \/ ~link[c].alive
        \/ \E j \in Commands : Excuse(j, s)
    BY <1>1, <1>2, <1>4, <2>1, <2>5 DEF RealOf, Lives
  <2>7. \/ s \in sessions' \/ EndOf(s) \in UpOf(c)'
        \/ ~link'[c].alive
        \/ \E j \in Commands : Excuse(j, s)'
    BY <1>3, <2>4, <2>6
  <2>. QED
    BY <1>2, <2>1, <2>2, <2>7 DEF RealOf, UpOf
<1>. QED
  BY <1>4 DEF RealOf

\* Sending is telling.
LEMMA SentTells ==
  ASSUME AgentsIInv, NEW k \in Commands, NEW m \in Messages(k), m \in Up, link' = Sent(<<m>>),
         UNCHANGED <<manager, socket>>,
         \A j \in Commands \ {k} : /\ run'[j] = run[j]
                                   /\ j \in sessions' \cup ending' => j \in sessions \cup ending
  PROVE  /\ Tells(k, m) /\ LinkTyped
         /\ \A c \in Conns : c = socket /\ link[c].alive => m \in UpOf(c)'
<1>1. /\ LinkTyped /\ Flow(m)
      /\ \A c \in Conns :
           /\ link'[c].alive = link[c].alive /\ link'[c].shut = link[c].shut
           /\ link'[c].down = link[c].down
           /\ UpOf(c)' = IF c = socket /\ link[c].alive THEN UpOf(c) \cup {m} ELSE UpOf(c)
  BY SentIs DEF AgentsIInv
<1>2. \A j \in Commands : DownShrinks(j)
  BY <1>1, DownIs
<1>3. \A j \in Commands \ {k} : m \notin Messages(j)
  BY MessagesDiffer
<1>4. \A c \in Conns : DownOf(c)' = DownOf(c)
  BY <1>1 DEF DownOf
<1>5. \A c \in Conns : UpOf(c) \subseteq UpOf(c)'
  BY <1>1
<1>6. Tells(k, m)
  BY <1>1, <1>2, <1>3, <1>4, <1>5 DEF Tells
<1>. QED
  BY <1>1, <1>6

\* Nothing is said.
LEMMA SilenceTells ==
  ASSUME AgentsIInv, NEW k \in Commands, UNCHANGED <<link, manager, socket>>,
         \A j \in Commands \ {k} : /\ run'[j] = run[j]
                                   /\ j \in sessions' \cup ending' => j \in sessions \cup ending
  PROVE  Tells(k, <<"hello">>) /\ LinkTyped
<1>1. \A j \in Commands : DownShrinks(j)
  BY DownIs
<1>2. Flow(<<"hello">>)
  BY NoNews
<1>3. \A c \in Conns : UpOf(c)' = UpOf(c) /\ DownOf(c)' = DownOf(c)
  BY DEF UpOf, DownOf
<1>4. LinkTyped
  BY TypedParts DEF AgentsIInv
<1>. QED
  BY <1>1, <1>2, <1>3, <1>4, HelloIsNoMessage DEF Tells

\* The report of an end is no answer: the command it names is as it was.
LEMMA EndTells ==
  ASSUME AgentsIInv, NEW s \in Commands, s \in sessions \cup ending, link' = Sent(<<EndOf(s)>>),
         UNCHANGED <<manager, socket, run>>,
         sessions' \subseteq sessions, ending' \subseteq ending,
         \A j \in Commands \ {s} : j \in sessions => j \in sessions'
  PROVE  TableInv' /\ CommandInv' /\ LinkTyped
<1>1. EndOf(s) \in Messages(s) /\ EndOf(s) \in Up /\ EndOf(s) \notin Answers(s) \cup Chunks(s)
  BY OwnMessages, MessageIs
<1>2. /\ Tells(s, EndOf(s)) /\ LinkTyped
      /\ \A c \in Conns : c = socket /\ link[c].alive => EndOf(s) \in UpOf(c)'
  BY <1>1, SentTells
<1>3. /\ TableInv' /\ \A j \in Commands : CallOf(j)' /\ CaptureOf(j)'
      /\ \A j \in Commands \ {s} : /\ TokenOf(j)' /\ KindOf(j)' /\ ChunksOf(j)' /\ WaitOf(j)'
                                   /\ ResultOf(j)' /\ StopOf(j)'
  BY <1>2, TellsOthers
<1>4. /\ TokenOf(s) /\ KindOf(s) /\ ChunksOf(s) /\ WaitOf(s) /\ ResultOf(s) /\ StopOf(s)
      /\ CallOf(s)
  BY DEF AgentsIInv, CommandInv
<1>5. /\ UNCHANGED <<host, agents, pending, cmd, captures, socket>> /\ Flow(EndOf(s))
      /\ DownShrinks(s)
  BY <1>2 DEF Tells, manager
<1>6. /\ cmd[s].kind = "start" /\ Written(s) /\ run[s].pc = "none" /\ ~Queued(s)
      /\ Nowhere(Chunks(s))
  BY <1>4 DEF KindOf, TokenOf, NoSession
<1>7. /\ ~Queued(s)' /\ Written(s)' /\ run'[s].pc = "none"
      /\ \A c \in Conns : Once(link'[c].down, {s})
  BY <1>2, <1>4, <1>5, <1>6 DEF DownShrinks, Tells, Queued, Written, TokenOf
<1>8. /\ Nowhere(Chunks(s))' /\ (Nowhere(Answers(s)) => Nowhere(Answers(s))') /\ Lone(Answers(s))'
      /\ \A i \in Numbers : Lone({ChunkOf(s, i)})'
  <2>1. \A i \in Numbers : EndOf(s) \notin {ChunkOf(s, i)}
    BY <1>1, OwnMessages
  <2>2. Lone(Answers(s)) /\ \A i \in Numbers : Lone({ChunkOf(s, i)})
    BY <1>4 DEF TokenOf
  <2>. QED
    BY <1>1, <1>5, <1>6, <2>1, <2>2, FlowIs
<1>9. TokenOf(s)'
  BY <1>7, <1>8 DEF TokenOf
<1>10. KindOf(s)'
  BY <1>5, <1>6, <1>7, <1>8 DEF KindOf
<1>11. ChunksOf(s)'
  BY <1>7, <1>8, OwnMessages DEF ChunksOf, Nowhere
<1>12. WaitOf(s)'
  <2>1. ASSUME cmd[s].pc = "waiting", cmd[s].result = "none" PROVE WaitOf(s)'
    <3>1. PICK c : c = cmd[s].conn
      OBVIOUS
    <3>2. c \in Conns
      BY <1>4, <2>1, <3>1, TypeParts DEF CallOf, AgentsIInv, CallType
    <3>3. s \in pending[c].waiting /\ (~link[c].alive \/ Answers(s) \cap UpOf(c) # {})
      BY <1>4, <1>6, <2>1, <3>1, <3>2, OwnMessages, Bounds DEF WaitOf, Queued, Nowhere
    <3>4. link'[c].alive = link[c].alive /\ UpOf(c) \subseteq UpOf(c)'
      BY <1>2, <3>2 DEF Tells
    <3>. QED
      BY <1>5, <3>1, <3>3, <3>4 DEF WaitOf, UpOf
  <2>. QED
    BY <1>5, <2>1 DEF WaitOf
<1>13. ResultOf(s)'
  <2>1. Over(s) => Over(s)'
    BY <1>1, <1>2, <1>5, OverStays DEF Tells
  <2>. QED
    BY <1>4, <1>5, <2>1 DEF ResultOf
<1>14. StopOf(s)' /\ \A r : ~Excuse(s, r)
  BY <1>5, <1>6 DEF StopOf, Excuse
<1>15. ASSUME NEW r \in Commands PROVE RealOf(r)'
  <2>1. EndOf(s) # <<"answer", r>>
    BY DEF EndOf
  <2>2. CASE r \in sessions => r \in sessions'
    BY <1>2, <1>14, <2>1, <2>2, TellsReal
  <2>3. CASE r = s
    <3>1. ASSUME (cmd[s].kind = "start" /\ Lives(s) /\ Started(s))' PROVE RealOf(s)'
      <4>1. PICK c : c = cmd[s].conn
        OBVIOUS
      <4>2. c \in Conns
        <5>1. cmd[s].conn # None
          BY <1>4, <1>5, <3>1 DEF Started, CallOf
        <5>. QED
          BY <4>1, <5>1, TypeParts DEF AgentsIInv, CallType
      <4>3. link[c].alive => socket = c
        BY <4>2 DEF AgentsIInv, TableInv, LinkOf
      <4>4. link'[c].alive = link[c].alive
        BY <1>2, <4>2 DEF Tells
      <4>5. EndOf(s) \in UpOf(c)' \/ ~link'[c].alive
        BY <1>2, <4>2, <4>3, <4>4
      <4>. QED
        BY <1>5, <4>1, <4>5 DEF RealOf, UpOf
    <3>. QED
      BY <2>3, <3>1 DEF RealOf
  <2>. QED
    BY <2>2, <2>3
<1>16. CommandInv'
  BY <1>3, <1>9, <1>10, <1>11, <1>12, <1>13, <1>14, <1>15 DEF CommandInv
<1>. QED
  BY <1>2, <1>3, <1>16


LEMMA StepEndSession ==
  ASSUME AgentsIInv, NEW s \in Commands, EndSession(s)
  PROVE  AgentsIInv'
<1>1. /\ s \in ending /\ ending' = ending \ {s} /\ link' = Sent(<<EndOf(s)>>)
      /\ UNCHANGED <<manager, socket, run, sessions>>
  BY DEF EndSession, EndOf
<1>2. TableInv' /\ CommandInv' /\ LinkTyped
  BY <1>1, EndTells
<1>3. ManagerTyped /\ ExtensionTyped
  BY <1>1, TypedParts, TypeParts DEF AgentsIInv, ExtensionTyped
<1>. QED
  BY <1>2, <1>3, TypedParts DEF AgentsIInv

LEMMA StepTabClosed ==
  ASSUME AgentsIInv, NEW s \in Commands, TabClosed(s)
  PROVE  AgentsIInv'
<1>1. /\ s \in sessions /\ sessions' = sessions \ {s} /\ link' = Sent(<<EndOf(s)>>)
      /\ UNCHANGED <<manager, socket, run, ending>>
  BY DEF TabClosed, EndOf
<1>2. TableInv' /\ CommandInv' /\ LinkTyped
  BY <1>1, EndTells
<1>3. ManagerTyped /\ ExtensionTyped
  BY <1>1, TypedParts, TypeParts DEF AgentsIInv, ExtensionTyped
<1>. QED
  BY <1>2, <1>3, TypedParts DEF AgentsIInv

\* What is known of a command the extension executes.
LEMMA Running ==
  ASSUME AgentsIInv, NEW k \in Commands, run[k].pc # "none"
  PROVE  /\ Written(k) /\ ~Queued(k) /\ Nowhere(Answers(k)) /\ NoSession(k) /\ ~Over(k)
         /\ cmd[k].result # "ok"
         /\ run[k].pc \in {"working", "stopping"} => Nowhere(Chunks(k))
         /\ \A s : Excuse(k, s) => cmd[k].result = "cancelled"
<1>1. TokenOf(k) /\ CallOf(k) /\ ResultOf(k)
  BY DEF AgentsIInv, CommandInv
<1>2. /\ Written(k) /\ ~Queued(k) /\ Nowhere(Answers(k)) /\ NoSession(k) /\ ~Over(k)
      /\ cmd[k].result # "ok"
      /\ run[k].pc \in {"working", "stopping"} => Nowhere(Chunks(k))
  BY <1>1 DEF TokenOf, Over, ResultOf
<1>3. ASSUME NEW s, Excuse(k, s) PROVE cmd[k].result = "cancelled"
  <2>1. ASSUME cmd[k].pc = "waiting" PROVE <<"answer", k>> \notin UpOf(cmd[k].conn)
    <3>1. cmd[k].conn \in Conns
      BY <1>1, <2>1, TypeParts DEF CallOf, AgentsIInv, CallType
    <3>. QED
      BY <1>2, <3>1, OwnMessages DEF Nowhere
  <2>. QED
    BY <1>2, <1>3, <2>1 DEF Excuse
<1>. QED
  BY <1>2, <1>3

\* A command is executed and answered.
LEMMA Replies ==
  ASSUME AgentsIInv, NEW k \in Commands, NEW m \in Answers(k), link' = Sent(<<m>>),
         UNCHANGED <<manager, socket, ending>>, run' = [run EXCEPT ![k] = Idle],
         run[k].pc \in {"working", "stopping"},
         sessions' \subseteq sessions \cup {k},
         k \in sessions' => cmd[k].kind = "start",
         \A s \in Commands : RealOf(s)'
  PROVE  AgentsIInv'
<1>1. m \in Messages(k) /\ m \in Up /\ m \notin Chunks(k) /\ m # EndOf(k)
  BY OwnMessages, MessageIs DEF Answers
<1>2. run \in [Commands -> RunType] /\ Idle \in RunType
  BY TypeParts, Bounds DEF AgentsIInv, RunType, Idle
<1>3. /\ \A j \in Commands \ {k} : /\ run'[j] = run[j]
                                   /\ j \in sessions' \cup ending' => j \in sessions \cup ending
      /\ run'[k].pc = "none" /\ run' \in [Commands -> RunType]
  BY <1>2 DEF Idle
<1>4. /\ Tells(k, m) /\ LinkTyped
      /\ \A c \in Conns : c = socket /\ link[c].alive => m \in UpOf(c)'
  BY <1>1, <1>3, SentTells
<1>5. /\ TableInv' /\ \A j \in Commands : CallOf(j)' /\ CaptureOf(j)'
      /\ \A j \in Commands \ {k} : /\ TokenOf(j)' /\ KindOf(j)' /\ ChunksOf(j)' /\ WaitOf(j)'
                                   /\ ResultOf(j)' /\ StopOf(j)'
  BY <1>4, TellsOthers
<1>6. /\ TokenOf(k) /\ KindOf(k) /\ ChunksOf(k) /\ WaitOf(k) /\ ResultOf(k) /\ StopOf(k)
      /\ CallOf(k)
  BY DEF AgentsIInv, CommandInv
<1>7. /\ Written(k) /\ ~Queued(k) /\ Nowhere(Answers(k)) /\ NoSession(k) /\ ~Over(k)
      /\ cmd[k].result # "ok" /\ Nowhere(Chunks(k))
  BY Running
<1>8. /\ UNCHANGED <<host, agents, pending, cmd, captures, socket>> /\ Flow(m)
      /\ DownShrinks(k)
  BY <1>4 DEF Tells, manager
<1>9. /\ ~Queued(k)' /\ Written(k)'
      /\ \A c \in Conns : Once(link'[c].down, {k})
  BY <1>6, <1>7, <1>8 DEF DownShrinks, Queued, Written, TokenOf
<1>10. /\ Nowhere(Chunks(k))' /\ Lone(Answers(k))' /\ Nowhere({EndOf(k)})'
       /\ \A i \in Numbers : Lone({ChunkOf(k, i)})'
  <2>1. \A i \in Numbers : m \notin {ChunkOf(k, i)}
    BY <1>1, OwnMessages
  <2>2. Lone(Answers(k)) /\ (\A i \in Numbers : Lone({ChunkOf(k, i)})) /\ Nowhere({EndOf(k)})
    BY <1>6, <1>7 DEF TokenOf, NoSession
  <2>. QED
    BY <1>1, <1>7, <1>8, <2>1, <2>2, FlowIs
<1>11. TokenOf(k)'
  BY <1>3, <1>9, <1>10 DEF TokenOf
<1>12. KindOf(k)'
  <2>1. ~NoSession(k)' => k \in sessions'
    BY <1>7, <1>10 DEF NoSession
  <2>. QED
    BY <1>3, <1>8, <1>10, <2>1 DEF KindOf
<1>13. ChunksOf(k)'
  BY <1>3, <1>9, <1>10, OwnMessages DEF ChunksOf, Nowhere
<1>14. WaitOf(k)'
  <2>1. ASSUME cmd[k].pc = "waiting", cmd[k].result = "none" PROVE WaitOf(k)'
    <3>1. PICK c : c = cmd[k].conn
      OBVIOUS
    <3>2. c \in Conns
      BY <1>6, <2>1, <3>1, TypeParts DEF CallOf, AgentsIInv, CallType
    <3>3. k \in pending[c].waiting /\ (link[c].alive => socket = c)
      BY <1>6, <2>1, <3>1, <3>2 DEF WaitOf, AgentsIInv, TableInv, LinkOf
    <3>4. link'[c].alive = link[c].alive
      BY <1>4, <3>2 DEF Tells
    <3>5. ~link'[c].alive \/ m \in UpOf(c)'
      BY <1>4, <3>2, <3>3, <3>4
    <3>. QED
      BY <1>8, <3>1, <3>3, <3>5 DEF WaitOf, UpOf
  <2>. QED
    BY <1>8, <2>1 DEF WaitOf
<1>15. ResultOf(k)'
  BY <1>6, <1>7, <1>8 DEF ResultOf
<1>16. StopOf(k)'
  BY <1>3, <1>6, <1>8, <1>9 DEF StopOf, Lives
<1>17. CommandInv'
  BY <1>5, <1>11, <1>12, <1>13, <1>14, <1>15, <1>16 DEF CommandInv
<1>18. ManagerTyped /\ ExtensionTyped
  BY <1>3, TypedParts, TypeParts DEF AgentsIInv, ExtensionTyped
<1>. QED
  BY <1>4, <1>5, <1>17, <1>18, TypedParts DEF AgentsIInv


LEMMA RunningReal ==
  ASSUME AgentsIInv, NEW k \in Commands, run[k].pc # "none", NEW m, Tells(k, m),
         NEW s \in Commands, m # <<"answer", s>>, s \in sessions => s \in sessions'
  PROVE  RealOf(s)'
<1>1. Excuse(k, s) => Excuse(k, s)'
  BY Running DEF Excuse, Tells, manager
<1>. QED
  BY <1>1, TellsReal

\* What a reply is, before its effect on the captures is known.
LEMMA ReplyIs ==
  ASSUME AgentsIInv, NEW k \in Commands, NEW m, Reply(k, m), m \in {"answer", "refusal"},
         UNCHANGED <<manager, socket, ending>>, sessions' \subseteq sessions \cup {k}
  PROVE  /\ <<m, k>> \in Answers(k) /\ link' = Sent(<<<<m, k>>>>) /\ run' = [run EXCEPT ![k] = Idle]
         /\ Tells(k, <<m, k>>) /\ LinkTyped
         /\ \A c \in Conns : c = socket /\ link[c].alive => <<m, k>> \in UpOf(c)'
         /\ run'[k].pc = "none"
<1>1. /\ <<m, k>> \in Answers(k) /\ link' = Sent(<<<<m, k>>>>) /\ run' = [run EXCEPT ![k] = Idle]
  BY DEF Reply, Answers
<1>2. <<m, k>> \in Messages(k) /\ <<m, k>> \in Up
  BY <1>1, OwnMessages, MessageIs DEF Answers
<1>3. run \in [Commands -> RunType]
  BY TypeParts DEF AgentsIInv
<1>4. /\ \A j \in Commands \ {k} : /\ run'[j] = run[j]
                                   /\ j \in sessions' \cup ending' => j \in sessions \cup ending
      /\ run'[k].pc = "none"
  BY <1>1, <1>3 DEF Idle
<1>. QED
  BY <1>1, <1>2, <1>4, SentTells

LEMMA StepWorkFails ==
  ASSUME AgentsIInv, NEW k \in Commands, WorkFails(k)
  PROVE  AgentsIInv'
<1>1. /\ run[k].pc = "working" /\ Reply(k, "refusal")
      /\ UNCHANGED <<manager, socket, sessions, ending>>
  BY DEF WorkFails
<1>2. /\ <<"refusal", k>> \in Answers(k) /\ link' = Sent(<<<<"refusal", k>>>>)
      /\ run' = [run EXCEPT ![k] = Idle] /\ Tells(k, <<"refusal", k>>)
  BY <1>1, ReplyIs
<1>3. \A s \in Commands : RealOf(s)'
  BY <1>1, <1>2, RunningReal
<1>4. k \notin sessions
  BY <1>1, Running DEF NoSession
<1>. QED
  BY <1>1, <1>2, <1>3, <1>4, Replies

LEMMA StepStartNetworkSession ==
  ASSUME AgentsIInv, NEW k \in Commands, StartNetworkSession(k)
  PROVE  AgentsIInv'
<1>1. /\ run[k].pc = "working" /\ Reply(k, "answer") /\ cmd[k].kind = "start"
      /\ sessions' = sessions \cup {k} /\ UNCHANGED <<manager, socket, ending>>
  BY DEF StartNetworkSession
<1>2. /\ <<"answer", k>> \in Answers(k) /\ link' = Sent(<<<<"answer", k>>>>)
      /\ run' = [run EXCEPT ![k] = Idle] /\ Tells(k, <<"answer", k>>)
  BY <1>1, ReplyIs
<1>3. \A s \in Commands : RealOf(s)'
  <2>1. ASSUME NEW s \in Commands, s # k PROVE RealOf(s)'
    <3>1. <<"answer", k>> # <<"answer", s>>
      BY <2>1
    <3>. QED
      BY <1>1, <1>2, <3>1, RunningReal
  <2>2. RealOf(k)'
    BY <1>1 DEF RealOf
  <2>. QED
    BY <2>1, <2>2
<1>. QED
  BY <1>1, <1>2, <1>3, Replies

LEMMA StepStopNetworkSession ==
  ASSUME AgentsIInv, NEW k \in Commands, StopNetworkSession(k)
  PROVE  AgentsIInv'
<1>1. /\ run[k].pc = "stopping" /\ Reply(k, "answer") /\ sessions' = sessions \ {cmd[k].of}
      /\ UNCHANGED <<manager, socket, ending>>
  BY DEF StopNetworkSession
<1>2. /\ <<"answer", k>> \in Answers(k) /\ link' = Sent(<<<<"answer", k>>>>)
      /\ run' = [run EXCEPT ![k] = Idle] /\ Tells(k, <<"answer", k>>)
      /\ \A c \in Conns : c = socket /\ link[c].alive => <<"answer", k>> \in UpOf(c)'
      /\ run'[k].pc = "none"
  BY <1>1, ReplyIs
<1>3. /\ cmd[k].kind = "stop" /\ cmd[k].of \in Commands /\ cmd[cmd[k].of].kind = "start"
      /\ CallOf(k) /\ StopOf(k) /\ ResultOf(k)
  BY <1>1 DEF AgentsIInv, CommandInv, KindOf, CallOf
<1>4. /\ Written(k) /\ ~Queued(k) /\ Nowhere(Answers(k)) /\ NoSession(k) /\ ~Over(k)
      /\ cmd[k].result # "ok"
  BY <1>1, Running
<1>5. UNCHANGED <<cmd, captures>> /\ \A j \in Commands : DownShrinks(j)
  BY <1>2 DEF Tells, manager
<1>6. ASSUME NEW s \in Commands PROVE RealOf(s)'
  <2>1. CASE s # cmd[k].of
    <3>1. (s \in sessions => s \in sessions')
      BY <1>1, <2>1
    <3>2. s # k => <<"answer", k>> # <<"answer", s>>
      OBVIOUS
    <3>3. s # k => RealOf(s)'
      BY <1>1, <1>2, <3>1, <3>2, RunningReal
    <3>4. RealOf(k)'
      BY <1>3, <1>5 DEF RealOf
    <3>. QED
      BY <3>3, <3>4
  <2>2. CASE s = cmd[k].of
    <3>1. ASSUME Lives(s) PROVE Excuse(k, s)'
      <4>1. CASE cmd[k].pc = "done"
        BY <1>1, <1>3, <1>4, <1>5, <2>2, <3>1, <4>1, TypeParts DEF StopOf, CallOf, Excuse, AgentsIInv, CallType
      <4>2. CASE cmd[k].pc = "waiting"
        <5>1. PICK c : c = cmd[k].conn
          OBVIOUS
        <5>2. c \in Conns
          BY <1>3, <4>2, <5>1, TypeParts DEF CallOf, AgentsIInv, CallType
        <5>3. host[c].close # "closed"
          BY <1>3, <2>2, <3>1, <4>2, <5>1 DEF StopOf, Attached
        <5>4. cmd[k].result = "none"
          BY <1>3, <1>4, <4>2, <5>1, <5>3, TypeParts DEF ResultOf, CallOf, AgentsIInv, CallType
        <5>5. ~Queued(k)'
          BY <1>4, <1>5 DEF Queued, DownShrinks
        <5>6. <<"refusal", k>> \notin UpOf(c)'
          <6>1. <<"refusal", k>> \notin UpOf(c) /\ <<"refusal", k>> # <<"answer", k>>
            BY <1>4, <5>2, OwnMessages DEF Nowhere
          <6>. QED
            BY <1>2, <5>2, <6>1 DEF Tells, Flow
        <5>7. link'[c].alive => <<"answer", k>> \in UpOf(c)'
          BY <1>2, <5>2 DEF Tells, AgentsIInv, TableInv, LinkOf
        <5>. QED
          BY <1>2, <1>3, <1>5, <2>2, <4>2, <5>1, <5>4, <5>5, <5>6, <5>7 DEF Excuse, UpOf
      <4>. QED
        BY <1>4, <4>1, <4>2 DEF Written
    <3>. QED
      BY <1>5, <3>1 DEF RealOf, Lives
  <2>. QED
    BY <2>1, <2>2
<1>. QED
  BY <1>1, <1>2, <1>4, <1>6, Replies DEF NoSession


\* A command that is executed goes on: it stops a session or sends its chunks.
LEMMA Proceeds ==
  ASSUME AgentsIInv, NEW k \in Commands, run[k].pc = "working",
         NEW p \in {"stopping", "sending"}, run' = [run EXCEPT ![k].pc = p],
         p = "stopping" => cmd[k].kind = "stop", p = "sending" => cmd[k].kind = "action",
         UNCHANGED <<link, manager, socket, sessions, ending>>
  PROVE  AgentsIInv'
<1>1. run \in [Commands -> RunType] /\ run[k] \in RunType
  BY TypeParts DEF AgentsIInv
<1>2. PICK r : r = [run[k] EXCEPT !.pc = p]
  OBVIOUS
<1>3. r \in RunType /\ r.pc = p /\ r.sent = run[k].sent
  BY <1>1, <1>2 DEF RunType
<1>4. run' = [run EXCEPT ![k] = r]
  BY <1>2
<1>5. /\ run'[k].pc = p /\ run'[k].sent = run[k].sent /\ run' \in [Commands -> RunType]
      /\ \A j \in Commands \ {k} : /\ run'[j] = run[j]
                                   /\ j \in sessions' \cup ending' => j \in sessions \cup ending
  BY <1>1, <1>3, <1>4
<1>6. Tells(k, <<"hello">>) /\ LinkTyped
  BY <1>5, SilenceTells
<1>7. /\ TableInv' /\ \A j \in Commands : CallOf(j)' /\ CaptureOf(j)'
      /\ \A j \in Commands \ {k} : /\ TokenOf(j)' /\ KindOf(j)' /\ ChunksOf(j)' /\ WaitOf(j)'
                                   /\ ResultOf(j)' /\ StopOf(j)'
  BY <1>6, TellsOthers
<1>8. \A s \in Commands : RealOf(s)'
  BY <1>6, RunningReal
<1>9. /\ TokenOf(k) /\ KindOf(k) /\ ChunksOf(k) /\ WaitOf(k) /\ ResultOf(k) /\ StopOf(k)
      /\ CallOf(k)
  BY DEF AgentsIInv, CommandInv
<1>10. /\ Written(k) /\ ~Queued(k) /\ Nowhere(Answers(k)) /\ NoSession(k) /\ ~Over(k)
       /\ cmd[k].result # "ok" /\ Nowhere(Chunks(k))
  BY Running
<1>11. /\ UNCHANGED <<host, agents, pending, cmd, captures, socket, link, sessions, ending>>
       /\ \A c \in Conns : UpOf(c)' = UpOf(c) /\ DownOf(c)' = DownOf(c)
  BY DEF manager, UpOf, DownOf
<1>12. /\ Written(k)' /\ ~Queued(k)' /\ Nowhere(Answers(k))' /\ NoSession(k)'
       /\ Nowhere(Chunks(k))'
  BY <1>10, <1>11 DEF Written, Queued, Nowhere, NoSession
<1>13. Lone(Answers(k))' /\ \A i \in Numbers : Lone({ChunkOf(k, i)})'
  BY <1>9, <1>11 DEF TokenOf, Lone
<1>14. TokenOf(k)'
  BY <1>9, <1>11, <1>12, <1>13 DEF TokenOf
<1>15. KindOf(k)'
  BY <1>5, <1>11, <1>12 DEF KindOf
<1>16. ChunksOf(k)'
  <2>1. ASSUME NEW c \in Conns, k \in pending'[c].waiting PROVE pending'[c].next[k] <= run'[k].sent
    BY <1>5, <1>9, <1>11, <2>1 DEF ChunksOf
  <2>. QED
    BY <1>12, <2>1, OwnMessages DEF ChunksOf, Nowhere
<1>17. WaitOf(k)'
  <2>1. ASSUME cmd[k].pc = "waiting", cmd[k].result = "none" PROVE WaitOf(k)'
    <3>1. PICK c : c = cmd[k].conn
      OBVIOUS
    <3>2. c \in Conns
      BY <1>9, <2>1, <3>1, TypeParts DEF CallOf, AgentsIInv, CallType
    <3>3. k \in pending[c].waiting /\ (link[c].alive => socket = c)
      BY <1>9, <2>1, <3>1, <3>2 DEF WaitOf, AgentsIInv, TableInv, LinkOf
    <3>. QED
      BY <1>5, <1>11, <3>1, <3>3 DEF WaitOf
  <2>. QED
    BY <1>11, <2>1 DEF WaitOf
<1>18. ResultOf(k)'
  BY <1>9, <1>10, <1>11 DEF ResultOf
<1>19. StopOf(k)'
  BY <1>9, <1>11 DEF StopOf, Lives
<1>20. CommandInv'
  BY <1>7, <1>8, <1>14, <1>15, <1>16, <1>17, <1>18, <1>19 DEF CommandInv
<1>21. ManagerTyped /\ ExtensionTyped
  BY <1>5, TypedParts, TypeParts DEF AgentsIInv, ExtensionTyped
<1>. QED
  BY <1>6, <1>7, <1>20, <1>21, TypedParts DEF AgentsIInv

LEMMA StepFindSession ==
  ASSUME AgentsIInv, NEW k \in Commands, FindSession(k)
  PROVE  AgentsIInv'
BY Proceeds DEF FindSession

LEMMA StepAct ==
  ASSUME AgentsIInv, NEW k \in Commands, Act(k)
  PROVE  AgentsIInv'
<1>1. /\ run[k].pc = "working" /\ cmd[k].kind = "action"
      /\ UNCHANGED <<manager, socket, sessions, ending>>
      /\ \/ Reply(k, "answer")
         \/ run' = [run EXCEPT ![k].pc = "sending"] /\ UNCHANGED link
  BY DEF Act
<1>2. CASE Reply(k, "answer")
  <2>1. /\ <<"answer", k>> \in Answers(k) /\ link' = Sent(<<<<"answer", k>>>>)
        /\ run' = [run EXCEPT ![k] = Idle] /\ Tells(k, <<"answer", k>>)
    BY <1>1, <1>2, ReplyIs
  <2>2. ASSUME NEW s \in Commands PROVE RealOf(s)'
    <3>1. CASE s = k
      BY <1>1, <3>1 DEF RealOf, manager
    <3>2. CASE s # k
      <4>1. <<"answer", k>> # <<"answer", s>>
        BY <3>2
      <4>. QED
        BY <1>1, <2>1, <4>1, RunningReal
    <3>. QED
      BY <3>1, <3>2
  <2>3. k \notin sessions
    BY <1>1, Running DEF NoSession
  <2>. QED
    BY <1>1, <2>1, <2>2, <2>3, Replies
<1>3. CASE run' = [run EXCEPT ![k].pc = "sending"] /\ UNCHANGED link
  BY <1>1, <1>3, Proceeds
<1>. QED
  BY <1>1, <1>2, <1>3

\* The next chunk, or the last, is sent, or lost with the socket.
LEMMA StepSendChunk ==
  ASSUME AgentsIInv, NEW k \in Commands, SendChunk(k)
  PROVE  AgentsIInv'
<1>1. /\ run[k].pc = "sending" /\ UNCHANGED <<manager, socket, sessions, ending>>
      /\ link' = Sent(<<ChunkOf(k, run[k].sent)>>)
      /\ run' = [run EXCEPT ![k] = IF socket = None \/ run[k].sent + 1 = Total THEN Idle
                                   ELSE [pc |-> "sending", sent |-> run[k].sent + 1]]
  BY DEF SendChunk, ChunkOf
<1>2. run \in [Commands -> RunType] /\ run[k] \in RunType
  BY TypeParts DEF AgentsIInv
<1>3. PICK n : n = run[k].sent
  OBVIOUS
<1>4. n \in Numbers /\ n \in Nat
  BY <1>2, <1>3, Bounds DEF RunType
<1>5. PICK r : r = IF socket = None \/ n + 1 = Total THEN Idle ELSE [pc |-> "sending", sent |-> n + 1]
  OBVIOUS
<1>6. /\ r \in RunType
      /\ \/ r.pc = "none" /\ (socket = None \/ n + 1 = Total)
         \/ r.pc = "sending" /\ r.sent = n + 1
  <2>1. CASE socket = None \/ n + 1 = Total
    BY <1>5, <2>1, Bounds DEF Idle, RunType
  <2>2. CASE ~(socket = None \/ n + 1 = Total)
    <3>1. n + 1 \in Numbers
      BY <1>4, <2>2, Bounds DEF Numbers
    <3>. QED
      BY <1>1, <1>2, <1>5, <2>2, <3>1 DEF RunType
  <2>. QED
    BY <2>1, <2>2
<1>7. run' = [run EXCEPT ![k] = r]
  BY <1>1, <1>3, <1>5
<1>8. /\ run'[k] = r /\ run' \in [Commands -> RunType]
      /\ \A j \in Commands \ {k} : /\ run'[j] = run[j]
                                   /\ j \in sessions' \cup ending' => j \in sessions \cup ending
  BY <1>1, <1>2, <1>6, <1>7
<1>9. /\ ChunkOf(k, n) \in Messages(k) /\ ChunkOf(k, n) \in Up
      /\ ChunkOf(k, n) \notin Answers(k) /\ ChunkOf(k, n) # EndOf(k)
      /\ \A i \in Numbers \ {n} : ChunkOf(k, n) # ChunkOf(k, i)
  <2>1. \A i \in Numbers \ {n} : ChunkOf(k, n) # ChunkOf(k, i)
    BY DEF ChunkOf
  <2>. QED
    BY <1>4, <2>1, OwnMessages, MessageIs
<1>10. /\ Tells(k, ChunkOf(k, n)) /\ LinkTyped
       /\ \A c \in Conns : c = socket /\ link[c].alive => ChunkOf(k, n) \in UpOf(c)'
  BY <1>1, <1>3, <1>8, <1>9, SentTells
<1>11. /\ TableInv' /\ \A j \in Commands : CallOf(j)' /\ CaptureOf(j)'
       /\ \A j \in Commands \ {k} : /\ TokenOf(j)' /\ KindOf(j)' /\ ChunksOf(j)' /\ WaitOf(j)'
                                    /\ ResultOf(j)' /\ StopOf(j)'
  BY <1>10, TellsOthers
<1>12. \A s \in Commands : RealOf(s)'
  <2>1. \A s \in Commands : ChunkOf(k, n) # <<"answer", s>>
    BY DEF ChunkOf
  <2>. QED
    BY <1>1, <1>10, <2>1, RunningReal
<1>13. /\ TokenOf(k) /\ KindOf(k) /\ ChunksOf(k) /\ WaitOf(k) /\ ResultOf(k) /\ StopOf(k)
       /\ CallOf(k)
  BY DEF AgentsIInv, CommandInv
<1>14. /\ Written(k) /\ ~Queued(k) /\ Nowhere(Answers(k)) /\ NoSession(k) /\ ~Over(k)
       /\ cmd[k].result # "ok"
  BY <1>1, Running
<1>15. /\ UNCHANGED <<host, agents, pending, cmd, captures, socket, sessions, ending>>
       /\ Flow(ChunkOf(k, n)) /\ DownShrinks(k)
  BY <1>1, <1>10 DEF Tells, manager
<1>16. /\ ~Queued(k)' /\ Written(k)'
       /\ \A c \in Conns : Once(link'[c].down, {k})
  BY <1>13, <1>14, <1>15 DEF DownShrinks, Queued, Written, TokenOf
<1>17. \A c \in Conns, i \in Numbers : ChunkOf(k, i) \in UpOf(c) => i < n
  BY <1>1, <1>3, <1>13 DEF ChunksOf
<1>18. Nowhere(Answers(k))' /\ Lone(Answers(k))' /\ NoSession(k)'
  <2>1. ChunkOf(k, n) \notin {EndOf(k)} /\ Nowhere({EndOf(k)}) /\ Lone(Answers(k))
    BY <1>9, <1>13, <1>14 DEF NoSession, TokenOf
  <2>. QED
    BY <1>9, <1>14, <1>15, <2>1, FlowIs DEF NoSession
<1>19. ASSUME NEW i \in Numbers PROVE Lone({ChunkOf(k, i)})'
  <2>1. Lone({ChunkOf(k, i)})
    BY <1>13 DEF TokenOf
  <2>2. CASE i = n
    <3>1. Nowhere({ChunkOf(k, n)})
      BY <1>4, <1>17 DEF Nowhere
    <3>. QED
      BY <1>15, <2>1, <2>2, <3>1, FlowIs
  <2>3. CASE i # n
    <3>1. ChunkOf(k, n) \notin {ChunkOf(k, i)}
      BY <1>9, <2>3
    <3>. QED
      BY <1>15, <2>1, <3>1, FlowIs
  <2>. QED
    BY <2>2, <2>3
<1>20. run'[k].pc \in {"none", "sending"}
  BY <1>6, <1>8
<1>21. TokenOf(k)'
  BY <1>16, <1>18, <1>19, <1>20 DEF TokenOf
<1>22. KindOf(k)'
  BY <1>1, <1>13, <1>15, <1>18, <1>20 DEF KindOf
<1>23. ASSUME NEW c \in Conns, NEW i \in Numbers, ChunkOf(k, i) \in UpOf(c)' PROVE i <= n
  <2>1. CASE i # n
    <3>1. ChunkOf(k, i) \in UpOf(c)
      BY <1>9, <1>15, <1>23, <2>1 DEF Flow
    <3>. QED
      BY <1>4, <1>17, <3>1, Bounds
  <2>2. CASE i = n
    BY <1>4, <2>2
  <2>. QED
    BY <2>1, <2>2
<1>24. ChunksOf(k)'
  <2>1. ASSUME NEW c \in Conns, NEW i \in Numbers, ChunkOf(k, i) \in UpOf(c)'
        PROVE  run'[k].pc = "none" \/ i < run'[k].sent
    <3>1. i <= n /\ i \in Nat
      BY <1>23, <2>1, Bounds
    <3>. QED
      BY <1>4, <1>6, <1>8, <3>1
  <2>2. ASSUME NEW c \in Conns, k \in pending'[c].waiting
        PROVE  /\ run'[k].pc # "none" => pending'[c].next[k] <= run'[k].sent
               /\ \A d \in Conns, i \in Numbers : ChunkOf(k, i) \in UpOf(d)' => pending'[c].next[k] <= i
    <3>1. PICK x : x = pending[c].next[k]
      OBVIOUS
    <3>2. x \in Nat
      <4>1. pending[c] \in PendingType
        BY TypeParts DEF AgentsIInv
      <4>. QED
        BY <3>1, <4>1, Bounds DEF PendingType
    <3>3. /\ x <= n
          /\ \A d \in Conns, i \in Numbers : ChunkOf(k, i) \in UpOf(d) => x <= i
      BY <1>1, <1>3, <1>13, <1>15, <2>2, <3>1 DEF ChunksOf
    <3>4. run'[k].pc # "none" => x <= run'[k].sent
      BY <1>4, <1>6, <1>8, <3>2, <3>3
    <3>5. ASSUME NEW d \in Conns, NEW i \in Numbers, ChunkOf(k, i) \in UpOf(d)' PROVE x <= i
      <4>1. CASE i = n
        BY <3>3, <4>1
      <4>2. CASE i # n
        BY <1>9, <1>15, <3>3, <3>5, <4>2 DEF Flow
      <4>. QED
        BY <4>1, <4>2
    <3>. QED
      BY <1>15, <3>1, <3>4, <3>5
  <2>. QED
    BY <1>16, <2>1, <2>2 DEF ChunksOf
<1>25. WaitOf(k)'
  <2>1. ASSUME cmd[k].pc = "waiting", cmd[k].result = "none" PROVE WaitOf(k)'
    <3>1. PICK c : c = cmd[k].conn
      OBVIOUS
    <3>2. c \in Conns
      BY <1>13, <2>1, <3>1, TypeParts DEF CallOf, AgentsIInv, CallType
    <3>3. k \in pending[c].waiting /\ (link[c].alive => socket = c)
      BY <1>13, <2>1, <3>1, <3>2 DEF WaitOf, AgentsIInv, TableInv, LinkOf
    <3>4. link'[c].alive = link[c].alive
      BY <1>10, <3>2 DEF Tells
    <3>5. ~link'[c].alive \/ (run'[k].pc # "none" /\ socket = c) \/ ChunkOf(k, Total - 1) \in UpOf(c)'
      <4>1. CASE link[c].alive
        <5>1. socket = c /\ socket # None
          BY <3>2, <3>3, <4>1, Bounds
        <5>2. CASE n + 1 = Total
          <6>1. n = Total - 1
            BY <1>4, <5>2, Bounds
          <6>. QED
            BY <1>10, <3>2, <4>1, <5>1, <6>1
        <5>3. CASE n + 1 # Total
          BY <1>6, <1>8, <5>1, <5>3
        <5>. QED
          BY <5>2, <5>3
      <4>. QED
        BY <3>4, <4>1
    <3>. QED
      BY <1>15, <3>1, <3>3, <3>5 DEF WaitOf, UpOf
  <2>. QED
    BY <1>15, <2>1 DEF WaitOf
<1>26. ResultOf(k)'
  BY <1>13, <1>14, <1>15 DEF ResultOf
<1>27. StopOf(k)'
  BY <1>1, <1>13, <1>15, <1>16 DEF StopOf, Lives
<1>28. CommandInv'
  BY <1>11, <1>12, <1>21, <1>22, <1>24, <1>25, <1>26, <1>27 DEF CommandInv
<1>29. ManagerTyped /\ ExtensionTyped
  BY <1>1, <1>8, TypedParts, TypeParts DEF AgentsIInv, ExtensionTyped
<1>. QED
  BY <1>10, <1>11, <1>28, <1>29, TypedParts DEF AgentsIInv


\* The first command of the queue is taken out of it.
LEMMA HandleIs ==
  ASSUME AgentsIInv, HandleMessage, NEW k, k = Head(link[socket].down)
  PROVE  /\ socket \in Conns /\ link[socket].down # <<>> /\ k \in Commands
         /\ k \in DownOf(socket) /\ Tail(link[socket].down) \in Seq(Commands)
         /\ Ran(Tail(link[socket].down)) = DownOf(socket) \ {k}
         /\ \A M : Once(link[socket].down, M) => Once(Tail(link[socket].down), M)
         /\ \A c \in Conns \ {socket} : link[c].down = <<>>
         /\ \A j \in Commands \ {k} : run'[j] = run[j]
<1>1. socket \in Conns /\ link[socket].down # <<>> /\ link[socket].down \in Seq(Commands)
  BY TypeParts DEF HandleMessage, AgentsIInv, LinkType
<1>2. /\ k \in Commands /\ Tail(link[socket].down) \in Seq(Commands)
      /\ DownOf(socket) = {k} \cup Ran(Tail(link[socket].down))
      /\ \A M : Once(link[socket].down, M) => /\ Once(Tail(link[socket].down), M)
                                              /\ k \in M => M \cap Ran(Tail(link[socket].down)) = {}
  BY <1>1, TailIs DEF DownOf
<1>3. Once(link[socket].down, {k})
  BY <1>1, <1>2 DEF AgentsIInv, CommandInv, TokenOf
<1>4. Ran(Tail(link[socket].down)) = DownOf(socket) \ {k}
  BY <1>2, <1>3
<1>5. \A c \in Conns \ {socket} : link[c].down = <<>>
  BY DEF AgentsIInv, TableInv, LinkOf
<1>6. \A j \in Commands \ {k} : run'[j] = run[j]
  <2>1. run' = run \/ run' = [run EXCEPT ![k].pc = "working"]
    BY DEF HandleMessage
  <2>2. run \in [Commands -> RunType]
    BY TypeParts DEF AgentsIInv
  <2>. QED
    BY <2>1, <2>2
<1>. QED
  BY <1>1, <1>2, <1>4, <1>5, <1>6

\* A command that is waiting for the extension to take it.
LEMMA QueuedIs ==
  ASSUME AgentsIInv, NEW k \in Commands, NEW d \in Conns, k \in DownOf(d)
  PROVE  /\ Written(k) /\ Queued(k) /\ ~Over(k) /\ run[k].pc = "none" /\ Silent(k) /\ NoSession(k)
         /\ cmd[k].result # "ok" /\ \A s : Excuse(k, s) => cmd[k].result = "cancelled"
<1>1. TokenOf(k) /\ CallOf(k) /\ ResultOf(k) /\ Queued(k)
  BY DEF AgentsIInv, CommandInv, Queued
<1>2. /\ Written(k) /\ ~Over(k) /\ run[k].pc = "none" /\ Silent(k) /\ NoSession(k)
      /\ cmd[k].result # "ok"
  BY <1>1 DEF TokenOf, Over, ResultOf
<1>3. ASSUME NEW s, Excuse(k, s) PROVE cmd[k].result = "cancelled"
  <2>1. ASSUME cmd[k].pc = "waiting" PROVE <<"answer", k>> \notin UpOf(cmd[k].conn)
    <3>1. cmd[k].conn \in Conns
      BY <1>1, <2>1, TypeParts DEF CallOf, AgentsIInv, CallType
    <3>. QED
      BY <1>2, <3>1, OwnMessages DEF Nowhere, Silent
  <2>. QED
    BY <1>1, <1>2, <1>3, <2>1 DEF Excuse
<1>. QED
  BY <1>1, <1>2, <1>3

\* What handling a command makes of it, however it is handled.
LEMMA Handled ==
  ASSUME AgentsIInv, HandleMessage, NEW k, k = Head(link[socket].down), NEW m, Tells(k, m),
         m = <<"hello">> \/ m = <<"refusal", k>>,
         DownOf(socket)' = DownOf(socket) \ {k},
         \/ run'[k].pc = "working" /\ run'[k].sent = run[k].sent /\ m = <<"hello">>
         \/ run'[k] = run[k] /\ (link[socket].alive => <<"refusal", k>> \in UpOf(socket)')
  PROVE  TableInv' /\ CommandInv'
<1>1. socket \in Conns /\ k \in Commands /\ k \in DownOf(socket)
  BY HandleIs
<1>2. /\ TableInv' /\ \A j \in Commands : CallOf(j)' /\ CaptureOf(j)'
      /\ \A j \in Commands \ {k} : /\ TokenOf(j)' /\ KindOf(j)' /\ ChunksOf(j)' /\ WaitOf(j)'
                                   /\ ResultOf(j)' /\ StopOf(j)'
  BY TellsOthers
<1>3. /\ TokenOf(k) /\ KindOf(k) /\ ChunksOf(k) /\ WaitOf(k) /\ ResultOf(k) /\ StopOf(k)
      /\ CallOf(k)
  BY <1>1 DEF AgentsIInv, CommandInv
<1>4. /\ Written(k) /\ Queued(k) /\ ~Over(k) /\ run[k].pc = "none" /\ Silent(k) /\ NoSession(k)
      /\ cmd[k].result # "ok" /\ \A s : Excuse(k, s) => cmd[k].result = "cancelled"
  BY <1>1, QueuedIs
<1>5. /\ UNCHANGED <<host, agents, pending, cmd, captures, socket, sessions, ending>> /\ Flow(m)
      /\ DownShrinks(k)
  BY <1>1 DEF Tells, manager, HandleMessage
<1>6. /\ ~Queued(k)' /\ Written(k)'
      /\ \A c \in Conns : Once(link'[c].down, {k})
  <2>1. \A c \in Conns \ {socket} : k \notin DownOf(c)
    BY HandleIs, EmptyQueue DEF DownOf
  <2>2. \A c \in Conns : k \notin DownOf(c)'
    BY <1>5, <2>1 DEF DownShrinks
  <2>. QED
    BY <1>3, <1>4, <1>5, <2>2 DEF DownShrinks, Queued, Written, TokenOf
<1>7. /\ m \notin Chunks(k) /\ m # EndOf(k) /\ \A i \in Numbers : m \notin {ChunkOf(k, i)}
      /\ m = <<"hello">> => m \notin Answers(k)
  BY OwnMessages, MessageIs, HelloIsNoMessage
<1>8. /\ Nowhere(Chunks(k))' /\ NoSession(k)' /\ Lone(Answers(k))'
      /\ m = <<"hello">> => Nowhere(Answers(k))'
      /\ \A i \in Numbers : Lone({ChunkOf(k, i)})'
  <2>1. /\ Lone(Answers(k)) /\ Nowhere(Answers(k)) /\ Nowhere(Chunks(k)) /\ Nowhere({EndOf(k)})
        /\ \A i \in Numbers : Lone({ChunkOf(k, i)})
    BY <1>3, <1>4 DEF TokenOf, Silent, NoSession
  <2>2. m \notin {EndOf(k)}
    BY <1>7
  <2>3. Nowhere({EndOf(k)})'
    BY <1>5, <2>1, <2>2, FlowIs
  <2>. QED
    BY <1>4, <1>5, <1>7, <2>1, <2>3, FlowIs DEF NoSession
<1>9. TokenOf(k)'
  BY <1>4, <1>6, <1>8 DEF TokenOf
<1>10. KindOf(k)'
  BY <1>4, <1>8 DEF KindOf
<1>11. ChunksOf(k)'
  <2>1. ASSUME NEW c \in Conns, k \in pending'[c].waiting, run'[k].pc # "none"
        PROVE  pending'[c].next[k] <= run'[k].sent
    <3>1. pending'[c].next[k] = 0
      BY <1>3, <1>4, <1>5, <2>1 DEF ChunksOf
    <3>2. run'[k].sent = run[k].sent /\ run[k].sent \in Nat
      BY <1>1, TypeParts, Bounds DEF AgentsIInv, RunType
    <3>. QED
      BY <3>1, <3>2
  <2>. QED
    BY <1>6, <1>8, <2>1, OwnMessages DEF ChunksOf, Nowhere
<1>12. WaitOf(k)'
  <2>1. ASSUME cmd[k].pc = "waiting", cmd[k].result = "none" PROVE WaitOf(k)'
    <3>1. PICK c : c = cmd[k].conn
      OBVIOUS
    <3>2. c \in Conns
      BY <1>1, <1>3, <2>1, <3>1, TypeParts DEF CallOf, AgentsIInv, CallType
    <3>3. k \in pending[c].waiting /\ (link[c].alive => socket = c)
      BY <1>3, <2>1, <3>1, <3>2 DEF WaitOf, AgentsIInv, TableInv, LinkOf
    <3>4. link'[c].alive = link[c].alive
      BY <3>2 DEF Tells
    <3>5. UpOf(c)' = Ran(link'[c].up) /\ UpOf(c)' = Ran(link'[cmd'[k].conn].up)
      BY <1>5, <3>1 DEF UpOf
    <3>6. \/ ~link'[c].alive \/ <<"refusal", k>> \in UpOf(c)'
          \/ run'[k].pc # "none" /\ socket = c
      <4>1. CASE socket = c
        <5>1. UpOf(socket)' = UpOf(c)'
          BY <1>5, <4>1 DEF UpOf
        <5>. QED
          BY <3>4, <4>1, <5>1
      <4>. QED
        BY <3>3, <3>4, <4>1
    <3>. QED
      BY <1>5, <3>1, <3>3, <3>5, <3>6, OwnMessages DEF WaitOf, UpOf
  <2>. QED
    BY <1>5, <2>1 DEF WaitOf
<1>13. ResultOf(k)'
  BY <1>3, <1>4, <1>5 DEF ResultOf
<1>14. StopOf(k)'
  BY <1>3, <1>4, <1>5 DEF StopOf, Lives
<1>15. ASSUME NEW s \in Commands PROVE RealOf(s)'
  <2>1. Excuse(k, s) => Excuse(k, s)'
    BY <1>4, <1>5 DEF Excuse
  <2>2. m # <<"answer", s>>
    OBVIOUS
  <2>. QED
    BY <1>1, <1>5, <2>1, <2>2, TellsReal
<1>. QED
  BY <1>2, <1>9, <1>10, <1>11, <1>12, <1>13, <1>14, <1>15 DEF CommandInv


LEMMA StepHandleMessage ==
  ASSUME AgentsIInv, HandleMessage
  PROVE  AgentsIInv'
<1>1. PICK k : k = Head(link[socket].down)
  OBVIOUS
<1>2. PICK q : q = Tail(link[socket].down)
  OBVIOUS
<1>3. PICK rest : rest = [link EXCEPT ![socket].down = q]
  OBVIOUS
<1>4. /\ UNCHANGED <<manager, socket, sessions, ending>>
      /\ \/ run' = [run EXCEPT ![k].pc = "working"] /\ link' = rest
         \/ /\ link' = IF rest[socket].alive
                       THEN [rest EXCEPT ![socket].up = Append(rest[socket].up, <<"refusal", k>>)]
                       ELSE rest
            /\ UNCHANGED run
  BY <1>1, <1>2, <1>3 DEF HandleMessage
<1>5. /\ socket \in Conns /\ link[socket].down # <<>> /\ k \in Commands
      /\ k \in DownOf(socket) /\ q \in Seq(Commands) /\ Ran(q) = DownOf(socket) \ {k}
      /\ \A M : Once(link[socket].down, M) => Once(q, M)
      /\ \A c \in Conns \ {socket} : link[c].down = <<>>
      /\ \A j \in Commands \ {k} : run'[j] = run[j]
  BY <1>1, <1>2, HandleIs
<1>6. /\ link \in [Conns -> LinkType] /\ link[socket] \in LinkType
      /\ run \in [Commands -> RunType] /\ run[k] \in RunType
  BY <1>5, TypeParts DEF AgentsIInv
<1>7. /\ <<"refusal", k>> \in Up /\ <<"refusal", k>> \in Answers(k) /\ <<"refusal", k>> \in Messages(k)
      /\ \A j \in Commands \ {k} : /\ <<"refusal", k>> \notin Messages(j)
                                   /\ <<"hello">> \notin Messages(j)
  BY <1>5, MessageIs, OwnMessages, MessagesDiffer, HelloIsNoMessage
<1>8. PICK s : s = [link[socket] EXCEPT !.down = q]
  OBVIOUS
<1>9. /\ s \in LinkType /\ s.down = q /\ s.alive = link[socket].alive
      /\ s.shut = link[socket].shut /\ s.up = link[socket].up
  BY <1>5, <1>6, <1>8 DEF LinkType
<1>10. rest = [link EXCEPT ![socket] = s] /\ rest[socket] = s
  BY <1>3, <1>5, <1>6, <1>8
\* What becomes of the connections, with m sent or nothing.
<1>11. ASSUME NEW t \in LinkType, link' = [link EXCEPT ![socket] = t], NEW m,
              t.down = q, t.alive = link[socket].alive, t.shut = link[socket].shut,
              \/ m = <<"hello">> /\ t.up = link[socket].up
              \/ m = <<"refusal", k>> /\ t.up = Append(link[socket].up, <<"refusal", k>>)
       PROVE  /\ Tells(k, m) /\ LinkTyped /\ DownOf(socket)' = DownOf(socket) \ {k}
              /\ m = <<"refusal", k>> => <<"refusal", k>> \in UpOf(socket)'
  <2>1. /\ link'[socket] = t /\ LinkTyped /\ \A c \in Conns \ {socket} : link'[c] = link[c]
        /\ UNCHANGED socket
    BY <1>4, <1>5, <1>6, <1>11 DEF LinkTyped
  <2>2. link[socket].up \in Seq(Up)
    BY <1>6 DEF LinkType
  <2>3. /\ Ran(t.up) = UpOf(socket) \/ (Ran(t.up) = UpOf(socket) \cup {m} /\ m \in Ran(t.up))
        /\ m = <<"refusal", k>> => m \in Ran(t.up)
        /\ \A M : Once(link[socket].up, M) /\ (m \notin M \/ M \cap UpOf(socket) = {}) => Once(t.up, M)
    <3>1. <<"hello">> # <<"refusal", k>>
      OBVIOUS
    <3>2. CASE m = <<"hello">> /\ t.up = link[socket].up
      BY <3>1, <3>2 DEF UpOf
    <3>3. CASE m = <<"refusal", k>> /\ t.up = Append(link[socket].up, <<"refusal", k>>)
      <4>1. PICK a : a = Append(link[socket].up, <<"refusal", k>>)
        OBVIOUS
      <4>2. /\ Ran(a) = Ran(link[socket].up) \cup {<<"refusal", k>>}
            /\ \A M : Once(link[socket].up, M)
                     /\ (<<"refusal", k>> \notin M \/ M \cap Ran(link[socket].up) = {}) => Once(a, M)
        <5>1. PICK x : x = <<"refusal", k>>
          OBVIOUS
        <5>2. x \in Up /\ a = Append(link[socket].up, x)
          BY <1>7, <4>1, <5>1
        <5>3. /\ Ran(a) = Ran(link[socket].up) \cup {x}
              /\ \A M : Once(link[socket].up, M)
                       /\ (x \notin M \/ M \cap Ran(link[socket].up) = {}) => Once(a, M)
          BY <2>2, <5>2, AppendIs
        <5>. QED
          BY <5>1, <5>3
      <4>3. t.up = a
        BY <3>3, <4>1
      <4>. QED
        BY <3>3, <4>2, <4>3 DEF UpOf
    <3>. QED
      BY <1>11, <3>2, <3>3
  <2>4. UpOf(socket)' = Ran(t.up) /\ DownOf(socket)' = Ran(q)
    BY <1>11, <2>1 DEF UpOf, DownOf
  <2>5. \A c \in Conns : /\ c = socket => UpOf(c)' = Ran(t.up) /\ DownOf(c)' = Ran(q)
                         /\ c # socket => UpOf(c)' = UpOf(c) /\ DownOf(c)' = DownOf(c)
    BY <1>11, <2>1 DEF UpOf, DownOf
  <2>6. Flow(m)
    <3>1. \A c \in Conns : UpOf(c)' \subseteq UpOf(c) \cup {m}
      BY <2>3, <2>5
    <3>2. \A c \in Conns \ {socket} : UpOf(c)' \subseteq UpOf(c)
      BY <2>5
    <3>3. \A c \in Conns : \A M :
            Once(link[c].up, M) /\ (m \notin M \/ M \cap UpOf(c) = {}) => Once(link'[c].up, M)
      BY <2>1, <2>3
    <3>. QED
      BY <3>1, <3>2, <3>3 DEF Flow
  <2>7. ASSUME NEW j \in Commands PROVE DownShrinks(j)
    <3>1. \A c \in Conns : j \in DownOf(c)' => j \in DownOf(c)
      BY <1>5, <2>5
    <3>2. \A c \in Conns : Once(link[c].down, {j}) => Once(link'[c].down, {j})
      BY <1>5, <1>11, <2>1
    <3>. QED
      BY <3>1, <3>2 DEF DownShrinks
  <2>8. \A c \in Conns : /\ link'[c].alive = link[c].alive /\ link'[c].shut = link[c].shut
                         /\ link'[c].down # <<>> => link[c].down # <<>>
                         /\ UpOf(c) \subseteq UpOf(c)'
                         /\ DownOf(c) \ {k} \subseteq DownOf(c)'
    BY <1>5, <1>11, <2>1, <2>3, <2>5
  <2>9. Tells(k, m)
    <3>1. \A j \in Commands \ {k} : m \notin Messages(j)
      BY <1>7, <1>11
    <3>. QED
      BY <1>4, <1>5, <2>6, <2>7, <2>8, <3>1 DEF Tells
  <2>. QED
    BY <1>5, <2>1, <2>3, <2>4, <2>9
<1>12. CASE run' = [run EXCEPT ![k].pc = "working"] /\ link' = rest
  <2>1. PICK r : r = [run[k] EXCEPT !.pc = "working"]
    OBVIOUS
  <2>2. r \in RunType /\ r.pc = "working" /\ r.sent = run[k].sent
    BY <1>6, <2>1 DEF RunType
  <2>3. run' = [run EXCEPT ![k] = r]
    BY <1>12, <2>1
  <2>4. run'[k] = r /\ run' \in [Commands -> RunType]
    BY <1>5, <1>6, <2>2, <2>3
  <2>5. PICK m : m = <<"hello">>
    OBVIOUS
  <2>6. Tells(k, m) /\ LinkTyped /\ DownOf(socket)' = DownOf(socket) \ {k}
    BY <1>9, <1>10, <1>11, <1>12, <2>5
  <2>7. TableInv' /\ CommandInv'
    BY <1>1, <2>2, <2>4, <2>5, <2>6, Handled
  <2>8. ManagerTyped /\ ExtensionTyped
    BY <1>4, <2>4, TypedParts, TypeParts DEF AgentsIInv, ExtensionTyped
  <2>. QED
    BY <2>6, <2>7, <2>8, TypedParts DEF AgentsIInv
<1>13. CASE UNCHANGED run /\ ~link[socket].alive /\ link' = rest
  <2>1. PICK m : m = <<"hello">>
    OBVIOUS
  <2>2. Tells(k, m) /\ LinkTyped /\ DownOf(socket)' = DownOf(socket) \ {k}
    BY <1>9, <1>10, <1>11, <1>13, <2>1
  <2>3. TableInv' /\ CommandInv'
    BY <1>1, <1>13, <2>1, <2>2, Handled
  <2>4. ManagerTyped /\ ExtensionTyped
    BY <1>4, <1>13, TypedParts, TypeParts DEF AgentsIInv, ExtensionTyped
  <2>. QED
    BY <2>2, <2>3, <2>4, TypedParts DEF AgentsIInv
<1>14. CASE /\ UNCHANGED run /\ link[socket].alive
            /\ link' = [rest EXCEPT ![socket].up = Append(rest[socket].up, <<"refusal", k>>)]
  <2>1. PICK u : u = Append(link[socket].up, <<"refusal", k>>)
    OBVIOUS
  <2>2. PICK t : t = [s EXCEPT !.up = u]
    OBVIOUS
  <2>3. u \in Seq(Up)
    BY <1>6, <1>7, <2>1 DEF LinkType
  <2>4. /\ t \in LinkType /\ t.down = q /\ t.alive = link[socket].alive
        /\ t.shut = link[socket].shut /\ t.up = u
    BY <1>9, <2>2, <2>3 DEF LinkType
  <2>5. link' = [rest EXCEPT ![socket] = t]
    BY <1>9, <1>10, <1>14, <2>1, <2>2
  <2>6. link' = [link EXCEPT ![socket] = t]
    BY <1>5, <1>6, <1>10, <2>5
  <2>7. PICK m : m = <<"refusal", k>>
    OBVIOUS
  <2>8. /\ Tells(k, m) /\ LinkTyped /\ DownOf(socket)' = DownOf(socket) \ {k}
        /\ <<"refusal", k>> \in UpOf(socket)'
    BY <1>11, <2>1, <2>4, <2>6, <2>7
  <2>9. TableInv' /\ CommandInv'
    BY <1>1, <1>14, <2>7, <2>8, Handled
  <2>10. ManagerTyped /\ ExtensionTyped
    BY <1>4, <1>14, TypedParts, TypeParts DEF AgentsIInv, ExtensionTyped
  <2>. QED
    BY <2>8, <2>9, <2>10, TypedParts DEF AgentsIInv
<1>. QED
  BY <1>4, <1>9, <1>10, <1>12, <1>13, <1>14


\* An answer on its way is the end of the command for the extension.
LEMMA AnsweredIs ==
  ASSUME AgentsIInv, NEW k \in Commands, NEW c \in Conns, Answers(k) \cap UpOf(c) # {}
  PROVE  run[k].pc = "none" /\ ~Queued(k) /\ Nowhere(Chunks(k))
BY DEF AgentsIInv, CommandInv, TokenOf, Silent, Nowhere

\* A connection breaks, with what was on its way.
LEMMA Breaks ==
  ASSUME AgentsIInv, NEW d \in Conns, NEW r \in LinkType, link' = [link EXCEPT ![d] = r],
         ~r.alive, r.shut = link[d].shut, r.down = <<>>, r.up = link[d].up \/ r.up = <<>>,
         UNCHANGED <<manager, run>>,
         \/ UNCHANGED <<socket, sessions, ending>>
         \/ /\ socket' = None /\ d = socket
            /\ sessions' \cup ending' = sessions \cup ending
  PROVE  AgentsIInv'
<1>1. /\ link'[d] = r /\ LinkTyped /\ \A c \in Conns \ {d} : link'[c] = link[c]
      /\ UNCHANGED <<host, agents, pending, cmd, captures, run>>
  BY TypeParts DEF AgentsIInv, LinkTyped, manager
<1>2. /\ \A c \in Conns : /\ link'[c].up = link[c].up \/ link'[c].up = <<>>
                          /\ link'[c].down = link[c].down \/ link'[c].down = <<>>
                          /\ c = d => ~link'[c].alive
                          /\ c # d => link'[c] = link[c]
                          /\ link'[c].alive => c # d /\ link[c].alive
                          /\ link'[c].shut = link[c].shut
  BY <1>1
<1>3. Flow(<<"hello">>) /\ \A j \in Commands : DownShrinks(j)
  BY <1>2, NoNews, DownIs
<1>4. \A c \in Conns : /\ UpOf(c)' = UpOf(c) \/ UpOf(c)' = {}
                       /\ c # d => UpOf(c)' = UpOf(c) /\ DownOf(c)' = DownOf(c)
  BY <1>2, EmptyQueue DEF UpOf, DownOf
<1>5. TableInv'
  <2>1. \A c \in Conns : LinkOf(c)'
    <3>1. ASSUME NEW c \in Conns PROVE LinkOf(c)'
      <4>1. LinkOf(c)
        BY DEF AgentsIInv, TableInv
      <4>2. CASE c = d
        BY <1>1, <4>1, <4>2 DEF LinkOf
      <4>3. CASE c # d
        <5>1. socket' = socket \/ socket # c
          BY <4>3
        <5>. QED
          BY <1>1, <4>1, <4>3, <5>1 DEF LinkOf
      <4>. QED
        BY <4>2, <4>3
    <3>. QED
      BY <3>1
  <2>. QED
    BY <2>1, HostRests DEF TableInv
<1>6. \A j \in Commands : CallOf(j)' /\ CaptureOf(j)'
  BY HostRests
<1>7. ASSUME NEW j \in Commands
      PROVE  /\ TokenOf(j)' /\ KindOf(j)' /\ ChunksOf(j)' /\ WaitOf(j)' /\ ResultOf(j)' /\ StopOf(j)'
             /\ \A s : Excuse(j, s) => Excuse(j, s)'
  <2>1. /\ CallOf(j) /\ TokenOf(j) /\ KindOf(j) /\ ChunksOf(j) /\ WaitOf(j) /\ ResultOf(j)
        /\ StopOf(j)
    BY DEF AgentsIInv, CommandInv
  <2>2. /\ <<"hello">> \notin Messages(j) /\ <<"hello">> \notin Answers(j) \cup Chunks(j)
        /\ j \in sessions' \cup ending' => j \in sessions \cup ending
    BY HelloIsNoMessage, OwnMessages
  <2>3. TokenOf(j)' /\ KindOf(j)'
    BY <1>1, <1>3, <2>1, <2>2, TokenStays DEF Written
  <2>4. ChunksOf(j)'
    BY <1>1, <1>3, <2>1, <2>2, ChunksStay
  <2>5. Over(j) => Over(j)'
    BY <1>1, <1>3, <2>2, OverStays
  <2>6. Queued(j)' => Queued(j)
    BY <1>3 DEF Queued, DownShrinks
  <2>7. cmd[j].pc = "waiting" => cmd[j].conn \in Conns
    BY <2>1, TypeParts DEF CallOf, AgentsIInv, CallType
  <2>8. WaitOf(j)'
    <3>1. ASSUME cmd[j].pc = "waiting", cmd[j].result = "none" PROVE WaitOf(j)'
      <4>1. PICK c : c = cmd[j].conn
        OBVIOUS
      <4>2. c \in Conns
        BY <2>7, <3>1, <4>1
      <4>3. /\ j \in pending[c].waiting
            /\ \/ ~link[c].alive
               \/ j \in DownOf(c)
               \/ Answers(j) \cap UpOf(c) # {}
               \/ ChunkOf(j, Total - 1) \in UpOf(c)
               \/ run[j].pc # "none" /\ socket = c
        BY <2>1, <3>1, <4>1 DEF WaitOf
      <4>4. CASE c = d
        BY <1>1, <4>1, <4>3, <4>4 DEF WaitOf
      <4>5. CASE c # d
        <5>1. socket' = socket \/ socket # c
          BY <4>5
        <5>. QED
          BY <1>1, <1>2, <1>4, <4>1, <4>2, <4>3, <4>5, <5>1 DEF WaitOf, UpOf, DownOf
      <4>. QED
        BY <4>4, <4>5
    <3>. QED
      BY <1>1, <3>1 DEF WaitOf
  <2>9. ResultOf(j)'
    BY <1>1, <2>1, <2>5 DEF ResultOf
  <2>10. StopOf(j)'
    BY <1>1, <2>1, <2>6 DEF StopOf, Lives
  <2>11. ASSUME NEW s, Excuse(j, s) PROVE Excuse(j, s)'
    <3>1. CASE cmd[j].result \in {"ok", "cancelled"}
      BY <1>1, <2>11, <3>1 DEF Excuse
    <3>2. CASE cmd[j].pc = "waiting" /\ cmd[j].result = "none"
      <4>1. PICK c : c = cmd[j].conn
        OBVIOUS
      <4>2. c \in Conns
        BY <2>7, <3>2, <4>1
      <4>3. \/ <<"answer", j>> \in UpOf(c)
            \/ ~link[c].alive /\ run[j].pc = "none" /\ ~Queued(j) /\ <<"refusal", j>> \notin UpOf(c)
        BY <2>11, <3>2, <4>1 DEF Excuse, UpOf
      <4>4. <<"answer", j>> \in UpOf(c) => run[j].pc = "none" /\ ~Queued(j)
        BY <4>2, AnsweredIs, OwnMessages
      <4>5. \/ <<"answer", j>> \in UpOf(c)'
            \/ /\ ~link'[c].alive /\ run[j].pc = "none" /\ ~Queued(j)'
               /\ <<"refusal", j>> \notin UpOf(c)'
        <5>1. CASE UpOf(c)' = UpOf(c)
          BY <1>2, <2>6, <4>2, <4>3, <5>1
        <5>2. CASE UpOf(c)' # UpOf(c)
          <6>1. c = d /\ UpOf(c)' = {}
            BY <1>4, <4>2, <5>2
          <6>. QED
            BY <1>2, <2>6, <4>2, <4>3, <4>4, <6>1
        <5>. QED
          BY <5>1, <5>2
      <4>. QED
        BY <1>1, <2>11, <3>2, <4>1, <4>5 DEF Excuse, UpOf
    <3>. QED
      BY <2>11, <3>1, <3>2 DEF Excuse
  <2>. QED
    BY <2>3, <2>4, <2>8, <2>9, <2>10, <2>11
<1>8. ASSUME NEW s \in Commands PROVE RealOf(s)'
  <2>1. RealOf(s) /\ CallOf(s)
    BY DEF AgentsIInv, CommandInv
  <2>2. ASSUME (cmd[s].kind = "start" /\ Lives(s) /\ Started(s))' PROVE RealOf(s)'
    <3>1. PICK c : c = cmd[s].conn
      OBVIOUS
    <3>2. c \in Conns
      <4>1. cmd[s].conn # None
        BY <1>1, <2>1, <2>2 DEF Started, CallOf
      <4>. QED
        BY <3>1, <4>1, TypeParts DEF AgentsIInv, CallType
    <3>3. Started(s)
      BY <1>1, <1>4, <2>2, <3>1, <3>2 DEF Started, UpOf
    <3>4. \/ s \in sessions \/ EndOf(s) \in UpOf(c)
          \/ ~link[c].alive
          \/ \E j \in Commands : Excuse(j, s)
      BY <1>1, <2>1, <2>2, <3>1, <3>3 DEF RealOf, Lives, UpOf
    <3>5. \/ s \in sessions' \/ EndOf(s) \in UpOf(c)'
          \/ ~link'[c].alive
          \/ \E j \in Commands : Excuse(j, s)'
      <4>1. CASE c = d
        BY <1>2, <3>2, <4>1
      <4>2. CASE c # d /\ link[c].alive
        <5>1. socket = c
          BY <3>2, <4>2 DEF AgentsIInv, TableInv, LinkOf
        <5>2. sessions' = sessions /\ UpOf(c)' = UpOf(c)
          BY <1>4, <3>2, <4>2, <5>1
        <5>. QED
          BY <1>7, <3>4, <4>2, <5>2
      <4>. QED
        BY <1>2, <3>2, <4>1, <4>2
    <3>. QED
      BY <1>1, <3>1, <3>5 DEF RealOf, UpOf
  <2>. QED
    BY <2>2 DEF RealOf
<1>9. CommandInv'
  BY <1>6, <1>7, <1>8 DEF CommandInv
<1>10. ManagerTyped /\ ExtensionTyped
  BY <1>1, TypedParts, TypeParts DEF AgentsIInv, ExtensionTyped
<1>. QED
  BY <1>1, <1>5, <1>9, <1>10, TypedParts DEF AgentsIInv

LEMMA StepCut ==
  ASSUME AgentsIInv, NEW c \in Conns, Cut(c)
  PROVE  AgentsIInv'
<1>1. PICK r : r = [NoLink EXCEPT !.shut = link[c].shut]
  OBVIOUS
<1>2. link[c] \in LinkType
  BY TypeParts DEF AgentsIInv
<1>3. r \in LinkType /\ ~r.alive /\ r.shut = link[c].shut /\ r.down = <<>> /\ r.up = <<>>
  BY <1>1, <1>2, EmptyQueue DEF LinkType, NoLink
<1>4. link' = [link EXCEPT ![c] = r] /\ UNCHANGED <<manager, run, socket, sessions, ending>>
  BY <1>1 DEF Cut, extension
<1>. QED
  BY <1>3, <1>4, Breaks

LEMMA StepCloseEvent ==
  ASSUME AgentsIInv, CloseEvent
  PROVE  AgentsIInv'
<1>1. socket \in Conns /\ link[socket] \in LinkType
  BY TypeParts DEF AgentsIInv, CloseEvent
<1>2. PICK r : r = [link[socket] EXCEPT !.down = <<>>]
  OBVIOUS
<1>3. /\ r \in LinkType /\ ~r.alive /\ r.shut = link[socket].shut /\ r.down = <<>>
      /\ r.up = link[socket].up
  BY <1>1, <1>2, EmptyQueue DEF LinkType, CloseEvent
<1>4. /\ link' = [link EXCEPT ![socket] = r] /\ UNCHANGED <<manager, run>> /\ socket' = None
      /\ sessions' \cup ending' = sessions \cup ending
  BY <1>2 DEF CloseEvent, StopAll
<1>. QED
  BY <1>1, <1>3, <1>4, Breaks

LEMMA StepDisconnect ==
  ASSUME AgentsIInv, Disconnect
  PROVE  AgentsIInv'
<1>1. socket \in Conns /\ link \in [Conns -> LinkType] /\ link[socket] \in LinkType
  BY TypeParts DEF AgentsIInv, Disconnect
<1>2. PICK r : r = [[link[socket] EXCEPT !.alive = FALSE] EXCEPT !.down = <<>>]
  OBVIOUS
<1>3. /\ r \in LinkType /\ ~r.alive /\ r.shut = link[socket].shut /\ r.down = <<>>
      /\ r.up = link[socket].up
  BY <1>1, <1>2, EmptyQueue DEF LinkType
<1>4. link' = [link EXCEPT ![socket] = r]
  BY <1>1, <1>2 DEF Disconnect
<1>5. /\ UNCHANGED <<manager, run>> /\ socket' = None
      /\ sessions' \cup ending' = sessions \cup ending
  BY DEF Disconnect, StopAll
<1>. QED
  BY <1>1, <1>3, <1>4, <1>5, Breaks

\* A new connection carries the hello.
LEMMA StepConnect ==
  ASSUME AgentsIInv, NEW d \in Conns, Connect(d)
  PROVE  AgentsIInv'
<1>1. PICK r : r = [[NoLink EXCEPT !.alive = TRUE] EXCEPT !.up = <<<<"hello">>>>]
  OBVIOUS
<1>2. /\ socket = None /\ link[d] = NoLink /\ host[d] = NoHost /\ socket' = d
      /\ link' = [link EXCEPT ![d] = r] /\ UNCHANGED <<manager, run, sessions, ending>>
      /\ UNCHANGED <<host, agents, pending, cmd, captures>>
  BY <1>1 DEF Connect, manager
<1>3. <<<<"hello">>>> \in Seq(Up) /\ Ran(<<<<"hello">>>>) = {<<"hello">>} /\ \A M : Once(<<<<"hello">>>>, M)
  <2>1. <<"hello">> \in Up
    BY MessageIs
  <2>. QED
    BY <2>1 DEF Ran, Once
<1>4. /\ r \in LinkType /\ r.alive /\ r.shut = FALSE /\ r.down = <<>> /\ r.up = <<<<"hello">>>>
  BY <1>1, <1>3, EmptyQueue DEF LinkType, NoLink
<1>5. /\ link'[d] = r /\ LinkTyped /\ \A c \in Conns \ {d} : link'[c] = link[c]
      /\ link[d].up = <<>> /\ link[d].down = <<>> /\ ~link[d].alive /\ link[d].shut = FALSE
  BY <1>2, <1>4, TypeParts DEF AgentsIInv, LinkTyped, NoLink
<1>6. \A c \in Conns : /\ ~link[c].alive /\ link[c].down = <<>> /\ link'[c].down = <<>>
                       /\ link'[c].shut = link[c].shut
  BY <1>2, <1>4, <1>5, Bounds DEF AgentsIInv, TableInv, LinkOf
<1>7. /\ \A c \in Conns : /\ c # d => UpOf(c)' = UpOf(c)
                          /\ c = d => UpOf(c)' = {<<"hello">>} /\ UpOf(c) = {}
                          /\ DownOf(c)' = DownOf(c)
  BY <1>3, <1>4, <1>5, <1>6, EmptyQueue DEF UpOf, DownOf
<1>8. Flow(<<"hello">>)
  <2>1. \A c \in Conns : \A M : Once(link[c].up, M) => Once(link'[c].up, M)
    BY <1>3, <1>4, <1>5
  <2>2. \A c \in Conns : UpOf(c)' \subseteq UpOf(c) \cup {<<"hello">>}
    BY <1>7
  <2>3. \A c \in Conns \ {d} : UpOf(c)' \subseteq UpOf(c)
    BY <1>7
  <2>. QED
    BY <2>1, <2>2, <2>3 DEF Flow
<1>9. \A j \in Commands : DownShrinks(j)
  BY <1>6, DownIs
<1>10. \A j \in Commands : cmd[j].conn # d
  BY <1>2, Bounds DEF AgentsIInv, CommandInv, CallOf, NoHost
<1>11. TableInv'
  <2>1. \A c \in Conns : LinkOf(c)'
    <3>1. ASSUME NEW c \in Conns PROVE LinkOf(c)'
      <4>1. link'[c].alive => c = d
        BY <1>5, <1>6
      <4>2. link[c].shut => ~link'[c].alive
        BY <1>5, <4>1
      <4>. QED
        BY <1>2, <1>6, <4>1, <4>2 DEF LinkOf, AgentsIInv, TableInv
    <3>. QED
      BY <3>1
  <2>. QED
    BY <1>2, <2>1, HostRests DEF TableInv
<1>12. \A j \in Commands : CallOf(j)' /\ CaptureOf(j)'
  BY <1>2, HostRests
<1>13. ASSUME NEW j \in Commands
       PROVE  /\ TokenOf(j)' /\ KindOf(j)' /\ ChunksOf(j)' /\ WaitOf(j)' /\ ResultOf(j)' /\ StopOf(j)'
              /\ \A s : Excuse(j, s) => Excuse(j, s)'
  <2>1. /\ CallOf(j) /\ TokenOf(j) /\ KindOf(j) /\ ChunksOf(j) /\ WaitOf(j) /\ ResultOf(j)
        /\ StopOf(j)
    BY DEF AgentsIInv, CommandInv
  <2>2. /\ <<"hello">> \notin Messages(j) /\ <<"hello">> \notin Answers(j) \cup Chunks(j)
        /\ j \in sessions' \cup ending' => j \in sessions \cup ending
    BY <1>2, HelloIsNoMessage, OwnMessages
  <2>3. TokenOf(j)' /\ KindOf(j)'
    BY <1>2, <1>8, <1>9, <2>1, <2>2, TokenStays DEF Written
  <2>4. ChunksOf(j)'
    BY <1>2, <1>8, <1>9, <2>1, <2>2, ChunksStay
  <2>5. Over(j) => Over(j)'
    BY <1>2, <1>8, <1>9, <2>2, OverStays
  <2>6. Queued(j)' => Queued(j)
    BY <1>9 DEF Queued, DownShrinks
  <2>7. cmd[j].pc = "waiting" => cmd[j].conn \in Conns \ {d}
    BY <1>10, <2>1, TypeParts DEF CallOf, AgentsIInv, CallType
  <2>8. WaitOf(j)'
    <3>1. ASSUME cmd[j].pc = "waiting", cmd[j].result = "none" PROVE WaitOf(j)'
      <4>1. PICK c : c = cmd[j].conn
        OBVIOUS
      <4>2. c \in Conns \ {d}
        BY <2>7, <3>1, <4>1
      <4>3. j \in pending[c].waiting /\ ~link'[c].alive
        BY <1>5, <1>6, <2>1, <3>1, <4>1, <4>2 DEF WaitOf
      <4>. QED
        BY <1>2, <4>1, <4>3 DEF WaitOf
    <3>. QED
      BY <1>2, <3>1 DEF WaitOf
  <2>9. ResultOf(j)'
    BY <1>2, <2>1, <2>5 DEF ResultOf
  <2>10. StopOf(j)'
    BY <1>2, <2>1, <2>6 DEF StopOf, Lives
  <2>11. ASSUME NEW s, Excuse(j, s) PROVE Excuse(j, s)'
    <3>1. CASE cmd[j].result \in {"ok", "cancelled"}
      BY <1>2, <2>11, <3>1 DEF Excuse
    <3>2. CASE cmd[j].pc = "waiting" /\ cmd[j].result = "none"
      <4>1. PICK c : c = cmd[j].conn
        OBVIOUS
      <4>2. c \in Conns \ {d}
        BY <2>7, <3>2, <4>1
      <4>3. UpOf(c)' = UpOf(c) /\ link'[c] = link[c]
        BY <1>5, <1>7, <4>2
      <4>. QED
        BY <1>2, <2>6, <2>11, <3>2, <4>1, <4>3 DEF Excuse, UpOf
    <3>. QED
      BY <2>11, <3>1, <3>2 DEF Excuse
  <2>. QED
    BY <2>3, <2>4, <2>8, <2>9, <2>10, <2>11
<1>14. ASSUME NEW s \in Commands PROVE RealOf(s)'
  <2>1. CallOf(s)
    BY DEF AgentsIInv, CommandInv
  <2>2. ASSUME (cmd[s].kind = "start" /\ Lives(s) /\ Started(s))' PROVE RealOf(s)'
    <3>1. PICK c : c = cmd[s].conn
      OBVIOUS
    <3>2. c \in Conns \ {d}
      <4>1. cmd[s].conn # None
        BY <1>2, <2>1, <2>2 DEF Started, CallOf
      <4>. QED
        BY <1>10, <3>1, <4>1, TypeParts DEF AgentsIInv, CallType
    <3>3. ~link'[c].alive
      BY <1>5, <1>6, <3>2
    <3>. QED
      BY <1>2, <3>1, <3>3 DEF RealOf
  <2>. QED
    BY <2>2 DEF RealOf
<1>15. CommandInv'
  BY <1>12, <1>13, <1>14 DEF CommandInv
<1>16. ManagerTyped /\ ExtensionTyped
  BY <1>2, TypedParts, TypeParts DEF AgentsIInv, ExtensionTyped
<1>. QED
  BY <1>5, <1>11, <1>15, <1>16, TypedParts DEF AgentsIInv


-----------------------------------------------------------------------------
(* The steps of the handlers of connections *)

\* What they do not say or take is as it was for the extension.
LEMMA ExtensionRests ==
  ASSUME AgentsIInv, NEW j \in Commands, Flow(<<"hello">>), DownShrinks(j),
         UNCHANGED <<run, sessions, ending>>,
         Written(j) => Written(j)' /\ cmd'[j].kind = cmd[j].kind
  PROVE  /\ TokenOf(j)' /\ KindOf(j)' /\ (Over(j) => Over(j)') /\ (Queued(j)' => Queued(j))
         /\ (\A c \in Conns : j \in pending'[c].waiting =>
               j \in pending[c].waiting /\ pending'[c].next[j] = pending[c].next[j])
              => ChunksOf(j)'
<1>1. TokenOf(j) /\ KindOf(j) /\ ChunksOf(j)
  BY DEF AgentsIInv, CommandInv
<1>2. /\ <<"hello">> \notin Messages(j) /\ <<"hello">> \notin Answers(j) \cup Chunks(j)
      /\ j \in sessions' \cup ending' => j \in sessions \cup ending
      /\ run'[j] = run[j]
  BY HelloIsNoMessage, OwnMessages
<1>3. TokenOf(j)' /\ KindOf(j)'
  BY <1>1, <1>2, TokenStays
<1>4. Over(j) => Over(j)'
  BY <1>2, OverStays
<1>5. Queued(j)' => Queued(j)
  BY DEF Queued, DownShrinks
<1>6. (\A c \in Conns : j \in pending'[c].waiting =>
               j \in pending[c].waiting /\ pending'[c].next[j] = pending[c].next[j])
              => ChunksOf(j)'
  BY <1>1, <1>2, ChunksStay
<1>. QED
  BY <1>3, <1>4, <1>5, <1>6

\* A connection that is in use stays as it is or is closed; captures are kept.
LEMMA HandlersMove ==
  ASSUME AgentsIInv, UNCHANGED <<pending, cmd, captures, extension>>, Flow(<<"hello">>),
         \A c \in Conns :
           /\ link'[c].down = link[c].down
           /\ host[c].pc # "none" => /\ host'[c].pc # "none"
                                     /\ \/ link'[c] = link[c]
                                        \/ ~link'[c].alive /\ link'[c].up = <<>>
           /\ host[c].close \in Attached => host'[c].close \in Attached
           /\ host[c].close = "closed" => host'[c].close = "closed"
  PROVE  CommandInv'
<1>1. UNCHANGED <<pending, cmd, captures, socket, run, sessions, ending>>
  BY DEF extension
<1>2. \A j \in Commands : DownShrinks(j)
  BY DownIs
<1>3. \A j \in Commands : cmd[j].conn # None => cmd[j].conn \in Conns /\ host[cmd[j].conn].pc # "none"
  BY TypeParts DEF AgentsIInv, CommandInv, CallOf, CallType
<1>4. ASSUME NEW j \in Commands
      PROVE  /\ CallOf(j)' /\ TokenOf(j)' /\ KindOf(j)' /\ ChunksOf(j)' /\ WaitOf(j)'
             /\ ResultOf(j)' /\ CaptureOf(j)' /\ StopOf(j)'
             /\ \A s : Excuse(j, s) => Excuse(j, s)'
  <2>1. /\ CallOf(j) /\ WaitOf(j) /\ ResultOf(j) /\ CaptureOf(j) /\ StopOf(j)
    BY DEF AgentsIInv, CommandInv
  <2>2. /\ TokenOf(j)' /\ KindOf(j)' /\ (Over(j) => Over(j)') /\ (Queued(j)' => Queued(j))
        /\ ChunksOf(j)'
    BY <1>1, <1>2, ExtensionRests DEF Written
  <2>3. CallOf(j)'
    BY <1>1, <1>3, <2>1 DEF CallOf
  <2>4. PICK c : c = cmd[j].conn
    OBVIOUS
  <2>5. c # None => /\ c \in Conns
                    /\ DownOf(c)' = DownOf(c)
                    /\ \/ link'[c] = link[c] /\ UpOf(c)' = UpOf(c)
                       \/ ~link'[c].alive /\ UpOf(c)' = {}
    BY <1>3, <2>4, EmptyQueue DEF UpOf, DownOf
  <2>6. cmd[j].pc \in {"writing", "waiting"} => c # None
    BY <2>1, <2>4 DEF CallOf
  <2>7. WaitOf(j)'
    <3>1. ASSUME cmd[j].pc = "waiting", cmd[j].result = "none" PROVE WaitOf(j)'
      <4>1. /\ j \in pending[c].waiting
            /\ \/ ~link[c].alive
               \/ j \in DownOf(c)
               \/ Answers(j) \cap UpOf(c) # {}
               \/ ChunkOf(j, Total - 1) \in UpOf(c)
               \/ run[j].pc # "none" /\ socket = c
        BY <2>1, <2>4, <3>1 DEF WaitOf
      <4>. QED
        BY <1>1, <2>4, <2>5, <2>6, <3>1, <4>1 DEF WaitOf, UpOf, DownOf
    <3>. QED
      BY <1>1, <3>1 DEF WaitOf
  <2>8. ResultOf(j)'
    <3>1. cmd[j].result = "error" => c \in Conns
      BY <2>1, <2>5, <2>6 DEF CallOf
    <3>. QED
      BY <1>1, <2>1, <2>2, <2>4, <3>1 DEF ResultOf
  <2>9. CaptureOf(j)'
    BY <1>1, <1>3, <2>1 DEF CaptureOf, Lives
  <2>10. StopOf(j)'
    BY <1>1, <2>1, <2>2, <2>4, <2>5, <2>6 DEF StopOf, Lives
  <2>11. ASSUME NEW s, Excuse(j, s) PROVE Excuse(j, s)'
    <3>1. CASE cmd[j].result \in {"ok", "cancelled"}
      BY <1>1, <2>11, <3>1 DEF Excuse
    <3>2. CASE cmd[j].pc = "waiting" /\ cmd[j].result = "none"
      <4>1. c \in Conns
        BY <2>5, <2>6, <3>2
      <4>2. \/ <<"answer", j>> \in UpOf(c)
            \/ ~link[c].alive /\ run[j].pc = "none" /\ ~Queued(j) /\ <<"refusal", j>> \notin UpOf(c)
        BY <2>4, <2>11, <3>2 DEF Excuse, UpOf
      <4>3. <<"answer", j>> \in UpOf(c) => run[j].pc = "none" /\ ~Queued(j)
        BY <4>1, AnsweredIs, OwnMessages
      <4>4. \/ <<"answer", j>> \in UpOf(c)'
            \/ ~link'[c].alive /\ run[j].pc = "none" /\ ~Queued(j)' /\ <<"refusal", j>> \notin UpOf(c)'
        BY <2>2, <2>5, <2>6, <3>2, <4>2, <4>3
      <4>. QED
        BY <1>1, <2>4, <2>11, <3>2, <4>4 DEF Excuse, UpOf
    <3>. QED
      BY <2>11, <3>1, <3>2 DEF Excuse
  <2>. QED
    BY <2>2, <2>3, <2>7, <2>8, <2>9, <2>10, <2>11
<1>5. ASSUME NEW s \in Commands PROVE RealOf(s)'
  <2>1. RealOf(s) /\ CallOf(s)
    BY DEF AgentsIInv, CommandInv
  <2>2. ASSUME (cmd[s].kind = "start" /\ Lives(s) /\ Started(s))' PROVE RealOf(s)'
    <3>1. PICK c : c = cmd[s].conn
      OBVIOUS
    <3>2. c \in Conns /\ host[c].pc # "none"
      <4>1. cmd[s].conn # None
        BY <1>1, <2>1, <2>2 DEF Started, CallOf
      <4>. QED
        BY <1>3, <3>1, <4>1
    <3>3. \/ link'[c] = link[c] /\ UpOf(c)' = UpOf(c)
          \/ ~link'[c].alive /\ UpOf(c)' = {}
      BY <3>2, EmptyQueue DEF UpOf
    <3>4. Started(s)
      BY <1>1, <2>2, <3>1, <3>3 DEF Started, UpOf
    <3>5. \/ s \in sessions \/ EndOf(s) \in UpOf(c)
          \/ ~link[c].alive
          \/ \E j \in Commands : Excuse(j, s)
      BY <1>1, <2>1, <2>2, <3>1, <3>4 DEF RealOf, Lives, UpOf
    <3>6. \/ s \in sessions \/ EndOf(s) \in UpOf(c)'
          \/ ~link'[c].alive
          \/ \E j \in Commands : Excuse(j, s)'
      BY <1>4, <3>3, <3>5
    <3>. QED
      BY <1>1, <3>1, <3>6 DEF RealOf, UpOf
  <2>. QED
    BY <2>2 DEF RealOf
<1>. QED
  BY <1>4, <1>5 DEF CommandInv


LEMMA StepAddAgent ==
  ASSUME AgentsIInv, NEW d \in Conns, AddAgent(d)
  PROVE  AgentsIInv'
<1>1. /\ host[d].pc = "none" /\ link[d].up # <<>>
      /\ link' = [link EXCEPT ![d].up = Tail(link[d].up)]
      /\ agents' = d /\ UNCHANGED <<pending, cmd, captures, extension>>
  BY DEF AddAgent
<1>2. host \in [Conns -> HostType] /\ agents \in Conns \cup {None} /\ host[d] = NoHost
  BY <1>1, TypeParts DEF AgentsIInv, TableInv, HostOf
<1>3. PICK r : r = [[host[d] EXCEPT !.pc = "replacing"] EXCEPT !.prev = agents]
  OBVIOUS
<1>4. r \in HostType /\ r.pc = "replacing" /\ r.prev = agents /\ r.close = "open"
  <2>1. host[d].close = "open" /\ host[d] \in HostType
    BY <1>2 DEF NoHost
  <2>. QED
    BY <1>2, <1>3, <2>1 DEF HostType
<1>5. host' = [host EXCEPT ![d] = r]
  BY <1>2, <1>3 DEF AddAgent
<1>6. /\ host' \in [Conns -> HostType] /\ host'[d] = r
      /\ \A c \in Conns \ {d} : host'[c] = host[c]
  BY <1>2, <1>4, <1>5
<1>7. /\ LinkTyped /\ Flow(<<"hello">>)
      /\ \A c \in Conns : /\ link'[c].alive = link[c].alive /\ link'[c].shut = link[c].shut
                          /\ link'[c].down = link[c].down
                          /\ c # d => link'[c] = link[c]
  <2>1. link[d].up \in Seq(Up)
    BY TypeParts DEF AgentsIInv, LinkType
  <2>2. Tail(link[d].up) \in Seq(Up)
    BY <1>1, <2>1, TailIs
  <2>. QED
    BY <1>1, <2>2, TakenIs, UpSet DEF AgentsIInv
<1>8. \A c \in Conns : LinkOf(c)'
  <2>1. \A c \in Conns : host'[c].close = host[c].close
    BY <1>2, <1>4, <1>6 DEF NoHost
  <2>. QED
    BY <1>1, <1>7, <2>1 DEF LinkOf, AgentsIInv, TableInv, extension
<1>9. \A c \in Conns : HostOf(c)'
  <2>1. \A c \in Conns : /\ host[c].prev # d
                         /\ c # d => host'[c] = host[c]
                         /\ host[c].prev # None => host[c].prev \in Conns /\ host[c].prev # d
    BY <1>1, <1>2, <1>6, Bounds DEF AgentsIInv, TableInv, HostOf, HostType
  <2>2. agents # None => /\ agents \in Conns \ {d} /\ host[agents].pc # "none"
    BY <1>1, <1>2 DEF AgentsIInv, TableInv, HostOf
  <2>3. HostOf(d)'
    BY <1>1, <1>4, <1>6, <2>2 DEF HostOf
  <2>4. ASSUME NEW c \in Conns \ {d} PROVE HostOf(c)'
    <3>1. HostOf(c)
      BY DEF AgentsIInv, TableInv
    <3>2. host[c].prev # None => host'[host[c].prev] = host[host[c].prev]
      BY <1>6, <2>1
    <3>3. host[c].pc # "none" /\ host[c].close = "open" => \E e \in Conns : host'[e].prev = c
      <4>1. CASE agents = c
        BY <1>4, <1>6, <4>1
      <4>2. CASE agents # c /\ host[c].pc # "none" /\ host[c].close = "open"
        <5>1. PICK e \in Conns : host[e].prev = c
          BY <3>1, <4>2 DEF HostOf
        <5>2. e # d
          BY <1>2, <5>1, Bounds DEF NoHost
        <5>. QED
          BY <1>6, <5>1, <5>2
      <4>. QED
        BY <4>1, <4>2
    <3>. QED
      BY <1>1, <1>6, <2>1, <3>1, <3>2, <3>3 DEF HostOf
  <2>. QED
    BY <2>3, <2>4
<1>10. \A c \in Conns : WaitingOf(c)'
  <2>1. \A c \in Conns : host'[c].close = host[c].close
    BY <1>2, <1>4, <1>6 DEF NoHost
  <2>. QED
    BY <1>1, <2>1 DEF WaitingOf, AgentsIInv, TableInv
<1>11. TableInv'
  BY <1>8, <1>9, <1>10 DEF TableInv
<1>12. CommandInv'
  <2>1. \A c \in Conns :
          /\ link'[c].down = link[c].down
          /\ host[c].pc # "none" => host'[c].pc # "none" /\ link'[c] = link[c]
          /\ host[c].close \in Attached => host'[c].close \in Attached
          /\ host[c].close = "closed" => host'[c].close = "closed"
    BY <1>1, <1>2, <1>4, <1>6, <1>7 DEF NoHost, Attached
  <2>. QED
    BY <1>1, <1>7, <2>1, HandlersMove
<1>13. ManagerTyped /\ ExtensionTyped
  BY <1>1, <1>6, TypedParts, TypeParts DEF AgentsIInv, ManagerTyped
<1>. QED
  BY <1>7, <1>11, <1>12, <1>13, TypedParts DEF AgentsIInv

\* The close of a connection that is known begins.
LEMMA StepStartClose ==
  ASSUME AgentsIInv, NEW d \in Conns, StartClose(d), host[d].close = "open", host[d].pc # "none"
  PROVE  AgentsIInv'
<1>1. /\ agents' = IF agents = d THEN None ELSE agents
      /\ UNCHANGED <<link, pending, cmd, captures, extension>>
  BY DEF StartClose
<1>2. host \in [Conns -> HostType] /\ host[d] \in HostType
  BY TypeParts DEF AgentsIInv
<1>3. PICK r : r = [host[d] EXCEPT !.close = "captures"]
  OBVIOUS
<1>4. r \in HostType /\ r.pc = host[d].pc /\ r.prev = host[d].prev /\ r.close = "captures"
  BY <1>2, <1>3 DEF HostType
<1>5. host' = [host EXCEPT ![d] = r]
  BY <1>3 DEF StartClose
<1>6. /\ host' \in [Conns -> HostType] /\ host'[d] = r
      /\ \A c \in Conns \ {d} : host'[c] = host[c]
      /\ \A c \in Conns : /\ host'[c].pc = host[c].pc /\ host'[c].prev = host[c].prev
                          /\ host[c].close = "closed" <=> host'[c].close = "closed"
                          /\ host[c].close \in {"drain", "closed"} <=> host'[c].close \in {"drain", "closed"}
                          /\ host[c].close \in Attached => host'[c].close \in Attached
  BY <1>2, <1>4, <1>5 DEF Attached
<1>7. \A c \in Conns : LinkOf(c)'
  BY <1>1, <1>6 DEF LinkOf, AgentsIInv, TableInv, extension
<1>8. ASSUME NEW c \in Conns PROVE HostOf(c)'
  <2>1. HostOf(c)
    BY DEF AgentsIInv, TableInv
  <2>2. host[c].prev # None => host[c].prev \in Conns
    BY <1>2 DEF HostType
  <2>3. CASE c = d
    BY <1>1, <1>4, <1>6, <2>1, <2>2, <2>3, Bounds DEF HostOf
  <2>4. CASE c # d
    <3>1. agents' = c <=> agents = c
      BY <1>1, <2>4, Bounds
    <3>2. host'[c] = host[c]
      BY <1>6, <2>4
    <3>. QED
      BY <1>6, <2>1, <2>2, <3>1, <3>2 DEF HostOf
  <2>. QED
    BY <2>3, <2>4
<1>9. \A c \in Conns : WaitingOf(c)'
  BY <1>1, <1>6 DEF WaitingOf, AgentsIInv, TableInv
<1>10. TableInv'
  BY <1>7, <1>8, <1>9 DEF TableInv
<1>11. CommandInv'
  <2>1. Flow(<<"hello">>)
    BY <1>1, NoNews
  <2>. QED
    BY <1>1, <1>6, <2>1, HandlersMove
<1>12. agents' \in Conns \cup {None}
  BY <1>1, TypeParts DEF AgentsIInv
<1>13. LinkTyped /\ ManagerTyped /\ ExtensionTyped
  BY <1>1, <1>6, <1>12, TypedParts, TypeParts DEF AgentsIInv, ManagerTyped
<1>. QED
  BY <1>10, <1>11, <1>13, TypedParts DEF AgentsIInv

LEMMA StepClosePrevious ==
  ASSUME AgentsIInv, NEW d \in Conns, ClosePrevious(d)
  PROVE  AgentsIInv'
<1>1. /\ host[d].prev # None /\ host[host[d].prev].close = "open" /\ StartClose(host[d].prev)
  BY DEF ClosePrevious
<1>2. host[d].prev \in Conns /\ host[host[d].prev].pc # "none"
  BY <1>1, TypeParts DEF AgentsIInv, TableInv, HostOf, HostType
<1>. QED
  BY <1>1, <1>2, StepStartClose

LEMMA StepDisconnected ==
  ASSUME AgentsIInv, NEW d \in Conns, Disconnected(d)
  PROVE  AgentsIInv'
BY StepStartClose DEF Disconnected

LEMMA StepRotatePairingToken ==
  ASSUME AgentsIInv, NEW d \in Conns, RotatePairingToken(d)
  PROVE  AgentsIInv'
<1>1. host[d].pc # "none"
  BY DEF AgentsIInv, TableInv, HostOf, RotatePairingToken
<1>. QED
  BY <1>1, StepStartClose DEF RotatePairingToken

LEMMA StepWelcome ==
  ASSUME AgentsIInv, NEW d \in Conns, Welcome(d)
  PROVE  AgentsIInv'
<1>1. /\ host[d].pc = "replacing"
      /\ host[d].prev # None => host[host[d].prev].close = "closed"
      /\ UNCHANGED <<link, agents, pending, cmd, captures, extension>>
  BY DEF Welcome
<1>2. host \in [Conns -> HostType] /\ host[d] \in HostType
  BY TypeParts DEF AgentsIInv
<1>3. PICK r : r = [host[d] EXCEPT !.pc = "serving"]
  OBVIOUS
<1>4. r \in HostType /\ r.pc = "serving" /\ r.prev = host[d].prev /\ r.close = host[d].close
  BY <1>2, <1>3 DEF HostType
<1>5. host' = [host EXCEPT ![d] = r]
  BY <1>3 DEF Welcome
<1>6. /\ host' \in [Conns -> HostType] /\ host'[d] = r
      /\ \A c \in Conns \ {d} : host'[c] = host[c]
      /\ \A c \in Conns : /\ host'[c].close = host[c].close /\ host'[c].prev = host[c].prev
                          /\ host'[c].pc = "none" <=> host[c].pc = "none"
  BY <1>1, <1>2, <1>4, <1>5
<1>7. \A c \in Conns : LinkOf(c)'
  BY <1>1, <1>6 DEF LinkOf, AgentsIInv, TableInv, extension
<1>8. ASSUME NEW c \in Conns PROVE HostOf(c)'
  <2>1. HostOf(c)
    BY DEF AgentsIInv, TableInv
  <2>2. host[c].prev # None => host[c].prev \in Conns
    BY <1>2 DEF HostType
  <2>3. host'[c].pc = "none" => host'[c] = NoHost
    BY <1>1, <1>4, <1>6, <2>1 DEF HostOf
  <2>4. host'[c].pc = "serving" /\ host[c].prev # None => host[host[c].prev].close = "closed"
    <3>1. CASE c = d
      BY <1>1, <3>1
    <3>2. CASE c # d
      BY <1>6, <2>1, <3>2 DEF HostOf
    <3>. QED
      BY <3>1, <3>2
  <2>. QED
    BY <1>1, <1>6, <2>1, <2>2, <2>3, <2>4 DEF HostOf
<1>9. \A c \in Conns : WaitingOf(c)'
  BY <1>1, <1>6 DEF WaitingOf, AgentsIInv, TableInv
<1>10. TableInv'
  BY <1>7, <1>8, <1>9 DEF TableInv
<1>11. CommandInv'
  <2>1. Flow(<<"hello">>)
    BY <1>1, NoNews
  <2>. QED
    BY <1>1, <1>6, <2>1, HandlersMove
<1>12. LinkTyped /\ ManagerTyped /\ ExtensionTyped
  BY <1>1, <1>6, TypedParts, TypeParts DEF AgentsIInv, ManagerTyped
<1>. QED
  BY <1>10, <1>11, <1>12, TypedParts DEF AgentsIInv


LEMMA StepCloseSocket ==
  ASSUME AgentsIInv, NEW d \in Conns, CloseSocket(d)
  PROVE  AgentsIInv'
<1>1. /\ host[d].close = "socket" /\ UNCHANGED <<agents, pending, cmd, captures, extension>>
  BY DEF CloseSocket
<1>2. /\ host \in [Conns -> HostType] /\ host[d] \in HostType
      /\ link \in [Conns -> LinkType] /\ link[d] \in LinkType
  BY TypeParts DEF AgentsIInv
<1>3. PICK r : r = [host[d] EXCEPT !.close = "drain"]
  OBVIOUS
<1>4. r \in HostType /\ r.pc = host[d].pc /\ r.prev = host[d].prev /\ r.close = "drain"
  BY <1>2, <1>3 DEF HostType
<1>5. PICK t : t = [link[d] EXCEPT !.alive = FALSE, !.shut = TRUE, !.up = <<>>]
  OBVIOUS
<1>6. t \in LinkType /\ t.alive = FALSE /\ t.shut = TRUE /\ t.up = <<>> /\ t.down = link[d].down
  BY <1>2, <1>5, EmptyQueue DEF LinkType
<1>7. host' = [host EXCEPT ![d] = r] /\ link' = [link EXCEPT ![d] = t]
  BY <1>3, <1>5 DEF CloseSocket
<1>8. /\ host' \in [Conns -> HostType] /\ host'[d] = r /\ link'[d] = t /\ LinkTyped
      /\ \A c \in Conns \ {d} : host'[c] = host[c] /\ link'[c] = link[c]
      /\ \A c \in Conns : /\ host'[c].pc = host[c].pc /\ host'[c].prev = host[c].prev
                          /\ host[c].close = "closed" <=> host'[c].close = "closed"
                          /\ host[c].close = "open" <=> host'[c].close = "open"
                          /\ host[c].close \in Attached => host'[c].close \in Attached
                          /\ link'[c].down = link[c].down
                          /\ link'[c].up = link[c].up \/ link'[c].up = <<>>
  BY <1>1, <1>2, <1>4, <1>6, <1>7 DEF Attached, LinkTyped
<1>9. \A c \in Conns : LinkOf(c)'
  <2>1. LinkOf(d)'
    BY <1>1, <1>4, <1>6, <1>8 DEF LinkOf, AgentsIInv, TableInv, extension
  <2>2. \A c \in Conns \ {d} : LinkOf(c)'
    BY <1>1, <1>8 DEF LinkOf, AgentsIInv, TableInv, extension
  <2>. QED
    BY <2>1, <2>2
<1>10. ASSUME NEW c \in Conns PROVE HostOf(c)'
  <2>1. HostOf(c)
    BY DEF AgentsIInv, TableInv
  <2>2. host[c].prev # None => host[c].prev \in Conns
    BY <1>2 DEF HostType
  <2>3. host[d].pc # "none"
    BY <1>1 DEF AgentsIInv, TableInv, HostOf, NoHost
  <2>4. host'[c].pc = "none" => host'[c] = NoHost
    BY <1>8, <2>1, <2>3 DEF HostOf
  <2>. QED
    BY <1>1, <1>8, <2>1, <2>2, <2>4 DEF HostOf
<1>11. \A c \in Conns : WaitingOf(c)'
  BY <1>1, <1>8 DEF WaitingOf, AgentsIInv, TableInv
<1>12. TableInv'
  BY <1>9, <1>10, <1>11 DEF TableInv
<1>13. CommandInv'
  <2>1. Flow(<<"hello">>)
    BY <1>8, NoNews
  <2>2. \A c \in Conns : link'[c] = link[c] \/ (~link'[c].alive /\ link'[c].up = <<>>)
    BY <1>6, <1>8
  <2>. QED
    BY <1>1, <1>8, <2>1, <2>2, HandlersMove
<1>14. ManagerTyped /\ ExtensionTyped
  BY <1>1, <1>8, TypedParts, TypeParts DEF AgentsIInv, ManagerTyped
<1>. QED
  BY <1>8, <1>12, <1>13, <1>14, TypedParts DEF AgentsIInv

\* The captures of the agent are gone: no promise about one is left to keep.
LEMMA StepRemoveCaptures ==
  ASSUME AgentsIInv, NEW d \in Conns, RemoveCaptures(d)
  PROVE  AgentsIInv'
<1>1. /\ host[d].close = "captures" /\ UNCHANGED <<link, agents, pending, cmd, extension>>
      /\ captures' = [s \in Commands |-> IF Addressed(s) THEN "none" ELSE captures[s]]
      /\ UNCHANGED <<socket, run, sessions, ending>>
  BY DEF RemoveCaptures, extension
<1>2. /\ host \in [Conns -> HostType] /\ host[d] \in HostType
      /\ captures \in [Commands -> {"none", "starting", "running"}]
  BY TypeParts DEF AgentsIInv
<1>3. PICK r : r = [host[d] EXCEPT !.close = "socket"]
  OBVIOUS
<1>4. r \in HostType /\ r.pc = host[d].pc /\ r.prev = host[d].prev /\ r.close = "socket"
  BY <1>2, <1>3 DEF HostType
<1>5. host' = [host EXCEPT ![d] = r]
  BY <1>3 DEF RemoveCaptures
<1>6. /\ host' \in [Conns -> HostType] /\ host'[d] = r
      /\ \A c \in Conns \ {d} : host'[c] = host[c]
      /\ \A c \in Conns : /\ host'[c].pc = host[c].pc /\ host'[c].prev = host[c].prev
                          /\ host[c].close = "closed" <=> host'[c].close = "closed"
                          /\ host[c].close = "open" <=> host'[c].close = "open"
                          /\ host[c].close \in {"drain", "closed"} <=> host'[c].close \in {"drain", "closed"}
  BY <1>1, <1>2, <1>4, <1>5
<1>7. \A c \in Conns : LinkOf(c)'
  BY <1>1, <1>6 DEF LinkOf, AgentsIInv, TableInv
<1>8. ASSUME NEW c \in Conns PROVE HostOf(c)'
  <2>1. HostOf(c)
    BY DEF AgentsIInv, TableInv
  <2>2. host[c].prev # None => host[c].prev \in Conns
    BY <1>2 DEF HostType
  <2>3. host[d].pc # "none"
    BY <1>1 DEF AgentsIInv, TableInv, HostOf, NoHost
  <2>4. host'[c].pc = "none" => host'[c] = NoHost
    BY <1>6, <2>1, <2>3 DEF HostOf
  <2>. QED
    BY <1>1, <1>6, <2>1, <2>2, <2>4 DEF HostOf
<1>9. \A c \in Conns : WaitingOf(c)'
  BY <1>1, <1>6 DEF WaitingOf, AgentsIInv, TableInv
<1>10. TableInv'
  BY <1>7, <1>8, <1>9 DEF TableInv
<1>11. \A s \in Commands : /\ captures'[s] \in {"none", captures[s]} /\ captures'[s] # "running"
                           /\ ~Lives(s)'
  BY <1>1, <1>2 DEF Addressed, Lives
<1>12. Flow(<<"hello">>) /\ \A j \in Commands : DownShrinks(j)
  BY <1>1, NoNews, DownIs
<1>13. ASSUME NEW j \in Commands
       PROVE  /\ CallOf(j)' /\ TokenOf(j)' /\ KindOf(j)' /\ ChunksOf(j)' /\ WaitOf(j)'
              /\ ResultOf(j)' /\ CaptureOf(j)' /\ StopOf(j)' /\ RealOf(j)'
  <2>1. /\ CallOf(j) /\ WaitOf(j) /\ ResultOf(j)
    BY DEF AgentsIInv, CommandInv
  <2>2. /\ TokenOf(j)' /\ KindOf(j)' /\ (Over(j) => Over(j)') /\ ChunksOf(j)'
    BY <1>1, <1>12, ExtensionRests DEF Written
  <2>3. cmd[j].conn # None => cmd[j].conn \in Conns
    BY TypeParts DEF AgentsIInv, CallType
  <2>4. CallOf(j)'
    BY <1>1, <1>6, <1>11, <2>1, <2>3 DEF CallOf
  <2>5. WaitOf(j)'
    BY <1>1, <2>1 DEF WaitOf, DownOf, UpOf
  <2>6. ResultOf(j)'
    <3>1. cmd[j].result = "error" => cmd[j].conn \in Conns
      BY <2>1, <2>3 DEF CallOf
    <3>. QED
      BY <1>1, <1>6, <2>1, <2>2, <3>1 DEF ResultOf
  <2>7. CaptureOf(j)' /\ RealOf(j)'
    BY <1>11 DEF CaptureOf, RealOf
  <2>8. StopOf(j)'
    BY <1>1, <1>11, <2>1 DEF StopOf, CallOf
  <2>. QED
    BY <2>2, <2>4, <2>5, <2>6, <2>7, <2>8
<1>14. CommandInv'
  BY <1>13 DEF CommandInv
<1>15. LinkTyped /\ ManagerTyped /\ ExtensionTyped
  <2>1. captures' \in [Commands -> {"none", "starting", "running"}]
    BY <1>1, <1>2
  <2>. QED
    BY <1>1, <1>6, <2>1, TypedParts, TypeParts DEF AgentsIInv, ManagerTyped
<1>. QED
  BY <1>10, <1>14, <1>15, TypedParts DEF AgentsIInv

\* A result is given to those who have none.
LEMMA NotifiedIs ==
  ASSUME AgentsIInv, NEW ks, NEW result \in {"ok", "error"}, cmd' = Notified(ks, result)
  PROVE  /\ cmd' \in [Commands -> CallType]
         /\ \A j \in Commands :
              /\ cmd'[j].pc = cmd[j].pc /\ cmd'[j].kind = cmd[j].kind /\ cmd'[j].of = cmd[j].of
              /\ cmd'[j].conn = cmd[j].conn /\ cmd'[j].addressed = cmd[j].addressed
              /\ \/ cmd'[j] = cmd[j] /\ ~(j \in ks /\ cmd[j].pc # "done" /\ cmd[j].result = "none")
                 \/ /\ cmd'[j].result = result
                    /\ j \in ks /\ cmd[j].pc # "done" /\ cmd[j].result = "none"
<1>1. cmd \in [Commands -> CallType]
  BY TypeParts DEF AgentsIInv
<1>2. \A j \in Commands : cmd'[j] = IF j \in ks /\ cmd[j].pc # "done" /\ cmd[j].result = "none"
                                    THEN [cmd[j] EXCEPT !.result = result] ELSE cmd[j]
  BY DEF Notified
<1>3. ASSUME NEW j \in Commands
      PROVE  /\ cmd'[j] \in CallType
             /\ cmd'[j].pc = cmd[j].pc /\ cmd'[j].kind = cmd[j].kind /\ cmd'[j].of = cmd[j].of
             /\ cmd'[j].conn = cmd[j].conn /\ cmd'[j].addressed = cmd[j].addressed
             /\ \/ cmd'[j] = cmd[j] /\ ~(j \in ks /\ cmd[j].pc # "done" /\ cmd[j].result = "none")
                \/ /\ cmd'[j].result = result
                   /\ j \in ks /\ cmd[j].pc # "done" /\ cmd[j].result = "none"
  <2>1. cmd[j] \in CallType
    BY <1>1
  <2>2. PICK r : r = [cmd[j] EXCEPT !.result = result]
    OBVIOUS
  <2>3. /\ r \in CallType /\ r.pc = cmd[j].pc /\ r.kind = cmd[j].kind /\ r.of = cmd[j].of
        /\ r.conn = cmd[j].conn /\ r.addressed = cmd[j].addressed /\ r.result = result
    BY <2>1, <2>2 DEF CallType
  <2>. QED
    BY <1>2, <2>1, <2>2, <2>3
<1>4. cmd' \in [Commands -> CallType]
  BY <1>3 DEF Notified
<1>. QED
  BY <1>3, <1>4


LEMMA StepDrain ==
  ASSUME AgentsIInv, NEW d \in Conns, Drain(d)
  PROVE  AgentsIInv'
<1>1. /\ host[d].close = "drain" /\ cmd' = Notified(pending[d].waiting, "error")
      /\ pending' = [pending EXCEPT ![d] = NoPending]
      /\ UNCHANGED <<link, agents, captures, extension>>
      /\ UNCHANGED <<socket, run, sessions, ending>>
  BY DEF Drain, extension
<1>2. /\ host \in [Conns -> HostType] /\ host[d] \in HostType /\ pending \in [Conns -> PendingType]
      /\ NoPending \in PendingType /\ NoPending.waiting = {}
      /\ \A j \in Commands : NoPending.next[j] = 0
  BY TypeParts, Bounds DEF AgentsIInv, NoPending, PendingType
<1>3. PICK r : r = [host[d] EXCEPT !.close = "closed"]
  OBVIOUS
<1>4. r \in HostType /\ r.pc = host[d].pc /\ r.prev = host[d].prev /\ r.close = "closed"
  BY <1>2, <1>3 DEF HostType
<1>5. host' = [host EXCEPT ![d] = r]
  BY <1>3 DEF Drain
<1>6. /\ host' \in [Conns -> HostType] /\ host'[d] = r
      /\ \A c \in Conns \ {d} : host'[c] = host[c]
      /\ \A c \in Conns : /\ host'[c].pc = host[c].pc /\ host'[c].prev = host[c].prev
                          /\ host[c].close = "closed" => host'[c].close = "closed"
                          /\ host[c].close = "open" <=> host'[c].close = "open"
                          /\ host[c].close \in {"drain", "closed"} <=> host'[c].close \in {"drain", "closed"}
                          /\ host[c].close \in Attached => host'[c].close \in Attached
  BY <1>1, <1>2, <1>4, <1>5 DEF Attached
<1>7. /\ pending' \in [Conns -> PendingType] /\ pending'[d] = NoPending
      /\ \A c \in Conns \ {d} : pending'[c] = pending[c]
  BY <1>1, <1>2
<1>8. /\ cmd' \in [Commands -> CallType]
      /\ \A j \in Commands :
           /\ cmd'[j].pc = cmd[j].pc /\ cmd'[j].kind = cmd[j].kind /\ cmd'[j].of = cmd[j].of
           /\ cmd'[j].conn = cmd[j].conn /\ cmd'[j].addressed = cmd[j].addressed
           /\ \/ /\ cmd'[j] = cmd[j]
                 /\ ~(j \in pending[d].waiting /\ cmd[j].pc # "done" /\ cmd[j].result = "none")
              \/ /\ cmd'[j].result = "error"
                 /\ j \in pending[d].waiting /\ cmd[j].pc # "done" /\ cmd[j].result = "none"
  BY <1>1, NotifiedIs
<1>9. \A c \in Conns, j \in Commands :
        j \in pending[c].waiting => cmd[j].pc = "waiting" /\ cmd[j].conn = c
  BY DEF AgentsIInv, TableInv, WaitingOf
<1>10. \A c \in Conns : LinkOf(c)'
  BY <1>1, <1>6 DEF LinkOf, AgentsIInv, TableInv
<1>11. ASSUME NEW c \in Conns PROVE HostOf(c)'
  <2>1. HostOf(c)
    BY DEF AgentsIInv, TableInv
  <2>2. host[c].prev # None => host[c].prev \in Conns
    BY <1>2 DEF HostType
  <2>3. host[d].pc # "none"
    BY <1>1 DEF AgentsIInv, TableInv, HostOf, NoHost
  <2>4. host'[c].pc = "none" => host'[c] = NoHost
    BY <1>6, <2>1, <2>3 DEF HostOf
  <2>. QED
    BY <1>1, <1>6, <2>1, <2>2, <2>4 DEF HostOf
<1>12. ASSUME NEW c \in Conns PROVE WaitingOf(c)'
  <2>1. CASE c = d
    BY <1>2, <1>7, <2>1 DEF WaitingOf
  <2>2. CASE c # d
    <3>1. WaitingOf(c) /\ pending'[c] = pending[c] /\ host'[c] = host[c]
      BY <1>6, <1>7, <2>2 DEF AgentsIInv, TableInv
    <3>. QED
      BY <1>8, <3>1 DEF WaitingOf
  <2>. QED
    BY <2>1, <2>2
<1>13. TableInv'
  BY <1>10, <1>11, <1>12 DEF TableInv
<1>14. Flow(<<"hello">>) /\ \A j \in Commands : DownShrinks(j)
  BY <1>1, NoNews, DownIs
<1>15. \A c \in Conns : UpOf(c)' = UpOf(c) /\ DownOf(c)' = DownOf(c)
  BY <1>1 DEF UpOf, DownOf
<1>16. ASSUME NEW j \in Commands
       PROVE  /\ CallOf(j)' /\ TokenOf(j)' /\ KindOf(j)' /\ ChunksOf(j)' /\ WaitOf(j)'
              /\ ResultOf(j)' /\ CaptureOf(j)' /\ StopOf(j)'
              /\ \A s \in Commands : Lives(s) /\ Excuse(j, s) => Excuse(j, s)'
  <2>1. /\ CallOf(j) /\ WaitOf(j) /\ ResultOf(j) /\ CaptureOf(j) /\ StopOf(j)
    BY DEF AgentsIInv, CommandInv
  <2>2. /\ TokenOf(j)' /\ KindOf(j)' /\ (Over(j) => Over(j)') /\ (Queued(j)' => Queued(j))
        /\ ChunksOf(j)'
    <3>1. \A c \in Conns : j \in pending'[c].waiting =>
            j \in pending[c].waiting /\ pending'[c].next[j] = pending[c].next[j]
      BY <1>2, <1>7
    <3>2. Written(j) => Written(j)' /\ cmd'[j].kind = cmd[j].kind
      BY <1>8 DEF Written
    <3>. QED
      BY <1>1, <1>14, <3>1, <3>2, ExtensionRests
  <2>3. cmd[j].conn # None => cmd[j].conn \in Conns
    BY TypeParts DEF AgentsIInv, CallType
  <2>4. CallOf(j)'
    BY <1>1, <1>6, <1>8, <1>9, <2>1, <2>3 DEF CallOf
  <2>5. WaitOf(j)'
    <3>1. ASSUME cmd'[j].pc = "waiting", cmd'[j].result = "none" PROVE WaitOf(j)'
      <4>1. PICK c : c = cmd[j].conn
        OBVIOUS
      <4>2. /\ cmd'[j] = cmd[j] /\ j \notin pending[d].waiting
        BY <1>8, <3>1
      <4>3. c \in Conns /\ j \in pending[c].waiting /\ c # d
        BY <2>1, <2>3, <3>1, <4>1, <4>2 DEF WaitOf, CallOf
      <4>. QED
        BY <1>1, <1>7, <1>15, <2>1, <4>1, <4>2, <4>3 DEF WaitOf, UpOf, DownOf
    <3>. QED
      BY <3>1 DEF WaitOf
  <2>6. ResultOf(j)'
    <3>1. CASE cmd'[j] = cmd[j]
      <4>1. cmd[j].result = "error" => cmd[j].conn \in Conns
        BY <2>1, <2>3 DEF CallOf
      <4>. QED
        BY <1>6, <2>1, <2>2, <3>1, <4>1 DEF ResultOf
    <3>2. CASE j \in pending[d].waiting /\ cmd'[j].result = "error"
      BY <1>4, <1>6, <1>8, <1>9, <3>2 DEF ResultOf
    <3>. QED
      BY <1>8, <3>1, <3>2
  <2>7. CaptureOf(j)'
    BY <1>1, <1>6, <1>8, <2>1, <2>3 DEF CaptureOf, Lives
  <2>8. StopOf(j)'
    <3>1. ASSUME (cmd[j].kind = "stop" /\ Lives(cmd[j].of))' PROVE StopOf(j)'
      <4>1. cmd[j].kind = "stop" /\ Lives(cmd[j].of) /\ cmd[j].of \in Commands
        BY <1>1, <1>8, <2>1, <3>1 DEF Lives, CallOf
      <4>2. cmd[j].pc = "done" => cmd'[j] = cmd[j]
        BY <1>8
      <4>3. cmd[j].pc \in {"writing", "waiting"} => host'[cmd[j].conn].close \in Attached
        BY <1>6, <2>1, <2>3, <4>1 DEF StopOf, CallOf
      <4>. QED
        BY <1>1, <1>8, <2>1, <2>2, <4>1, <4>2, <4>3 DEF StopOf
    <3>. QED
      BY <3>1 DEF StopOf
  <2>9. ASSUME NEW s \in Commands, Lives(s), Excuse(j, s) PROVE Excuse(j, s)'
    <3>1. cmd'[j] = cmd[j]
      <4>1. ~(j \in pending[d].waiting)
        BY <1>1, <1>9, <2>1, <2>9 DEF StopOf, Excuse, Attached
      <4>. QED
        BY <1>8, <4>1
    <3>2. Queued(j)' = Queued(j)
      BY <1>15 DEF Queued
    <3>. QED
      BY <1>1, <2>9, <3>1, <3>2 DEF Excuse, UpOf
  <2>. QED
    BY <2>2, <2>4, <2>5, <2>6, <2>7, <2>8, <2>9
<1>17. ASSUME NEW s \in Commands PROVE RealOf(s)'
  <2>1. RealOf(s)
    BY DEF AgentsIInv, CommandInv
  <2>2. ASSUME (cmd[s].kind = "start" /\ Lives(s) /\ Started(s))' PROVE RealOf(s)'
    <3>1. /\ cmd[s].kind = "start" /\ Lives(s) /\ Started(s)
      BY <1>1, <1>8, <2>2 DEF Lives, Started, UpOf
    <3>2. \/ s \in sessions \/ EndOf(s) \in UpOf(cmd[s].conn)
          \/ ~link[cmd[s].conn].alive
          \/ \E j \in Commands : Excuse(j, s)'
      BY <1>16, <2>1, <3>1 DEF RealOf
    <3>. QED
      BY <1>1, <1>8, <3>2 DEF RealOf, UpOf
  <2>. QED
    BY <2>2 DEF RealOf
<1>18. CommandInv'
  BY <1>16, <1>17 DEF CommandInv
<1>19. LinkTyped /\ ManagerTyped /\ ExtensionTyped
  BY <1>1, <1>6, <1>7, <1>8, TypedParts, TypeParts DEF AgentsIInv, ManagerTyped
<1>. QED
  BY <1>13, <1>18, <1>19, TypedParts DEF AgentsIInv


-----------------------------------------------------------------------------
(* The steps of the readers of connections *)

\* The reader of d takes h, which is about k, and does nothing about the others.
Takes(d, k, h) ==
  /\ link[d].up # <<>> /\ h = Head(link[d].up) /\ h \in Messages(k)
  /\ link' = [link EXCEPT ![d].up = Tail(link[d].up)]
  /\ UNCHANGED <<host, agents, extension>>
  /\ \A j \in Commands :
       /\ cmd'[j].pc = cmd[j].pc /\ cmd'[j].kind = cmd[j].kind /\ cmd'[j].of = cmd[j].of
       /\ cmd'[j].conn = cmd[j].conn /\ cmd'[j].addressed = cmd[j].addressed
       /\ \/ cmd'[j] = cmd[j]
          \/ j = k /\ cmd[j].pc = "waiting" /\ cmd[j].result = "none" /\ cmd'[j].result \in {"ok", "error"}
       /\ captures'[j] \in {"none", captures[j]}
  /\ \A c \in Conns :
       /\ \A j \in Commands \ {k} :
            /\ j \in pending'[c].waiting <=> j \in pending[c].waiting
            /\ pending'[c].next[j] = pending[c].next[j]
       /\ k \in pending'[c].waiting => k \in pending[c].waiting
       /\ k \notin pending'[c].waiting => pending'[c].next[k] = 0

LEMMA TakesOthers ==
  ASSUME AgentsIInv, NEW d \in Conns, NEW k \in Commands, NEW h, Takes(d, k, h), ManagerTyped
  PROVE  /\ TableInv' /\ LinkTyped
         /\ \A j \in Commands : /\ CallOf(j)' /\ TokenOf(j)' /\ KindOf(j)' /\ CaptureOf(j)'
                                /\ StopOf(j)' /\ (Over(j) => Over(j)')
         /\ \A j \in Commands \ {k} : /\ ChunksOf(j)' /\ WaitOf(j)' /\ ResultOf(j)'
                                      /\ \A s : Excuse(j, s) => Excuse(j, s)'
<1>1. /\ link[d].up # <<>> /\ h = Head(link[d].up) /\ h \in Messages(k)
      /\ link' = [link EXCEPT ![d].up = Tail(link[d].up)]
      /\ UNCHANGED <<host, agents, socket, run, sessions, ending>>
      /\ \A j \in Commands :
           /\ cmd'[j].pc = cmd[j].pc /\ cmd'[j].kind = cmd[j].kind /\ cmd'[j].of = cmd[j].of
           /\ cmd'[j].conn = cmd[j].conn /\ cmd'[j].addressed = cmd[j].addressed
           /\ \/ cmd'[j] = cmd[j]
              \/ j = k /\ cmd[j].pc = "waiting" /\ cmd[j].result = "none" /\ cmd'[j].result \in {"ok", "error"}
           /\ captures'[j] \in {"none", captures[j]}
  BY DEF Takes, extension
<1>2. \A c \in Conns :
        /\ \A j \in Commands \ {k} :
             /\ j \in pending'[c].waiting <=> j \in pending[c].waiting
             /\ pending'[c].next[j] = pending[c].next[j]
        /\ k \in pending'[c].waiting => k \in pending[c].waiting
        /\ k \notin pending'[c].waiting => pending'[c].next[k] = 0
  BY DEF Takes
<1>3. /\ LinkTyped /\ Flow(<<"hello">>)
      /\ \A c \in Conns : /\ link'[c].alive = link[c].alive /\ link'[c].shut = link[c].shut
                          /\ link'[c].down = link[c].down
                          /\ c # d => UpOf(c)' = UpOf(c)
      /\ UpOf(d) = {h} \cup UpOf(d)'
  BY <1>1, TakenIs DEF AgentsIInv
<1>4. /\ \A j \in Commands : DownShrinks(j)
      /\ \A c \in Conns : DownOf(c)' = DownOf(c)
  BY <1>3, DownIs DEF DownOf
<1>5. \A c \in Conns : LinkOf(c)'
  BY <1>1, <1>3 DEF LinkOf, AgentsIInv, TableInv
<1>6. \A c \in Conns : HostOf(c)'
  BY <1>1 DEF HostOf, AgentsIInv, TableInv
<1>7. ASSUME NEW c \in Conns PROVE WaitingOf(c)'
  <2>1. WaitingOf(c)
    BY DEF AgentsIInv, TableInv
  <2>2. \A j \in Commands : j \in pending'[c].waiting => j \in pending[c].waiting
    BY <1>2
  <2>3. host'[c].close = "closed" => pending'[c].waiting = {}
    <3>1. pending'[c].waiting \subseteq Commands
      BY DEF ManagerTyped, PendingType
    <3>. QED
      BY <1>1, <2>1, <2>2, <3>1 DEF WaitingOf
  <2>. QED
    BY <1>1, <1>2, <2>1, <2>2, <2>3 DEF WaitingOf
<1>8. TableInv'
  BY <1>5, <1>6, <1>7 DEF TableInv
<1>9. ASSUME NEW j \in Commands
      PROVE  /\ CallOf(j)' /\ TokenOf(j)' /\ KindOf(j)' /\ CaptureOf(j)'
             /\ StopOf(j)' /\ (Over(j) => Over(j)')
  <2>1. /\ CallOf(j) /\ CaptureOf(j) /\ StopOf(j)
    BY DEF AgentsIInv, CommandInv
  <2>2. /\ TokenOf(j)' /\ KindOf(j)' /\ (Over(j) => Over(j)') /\ (Queued(j)' => Queued(j))
    <3>1. UNCHANGED <<run, sessions, ending>> /\ (Written(j) => Written(j)' /\ cmd'[j].kind = cmd[j].kind)
      BY <1>1 DEF Written
    <3>. QED
      BY <1>3, <1>4, <3>1, ExtensionRests
  <2>3. CallOf(j)'
    BY <1>1, <2>1 DEF CallOf
  <2>4. CaptureOf(j)'
    BY <1>1, <2>1 DEF CaptureOf, Lives
  <2>5. StopOf(j)'
    <3>1. ASSUME (cmd[j].kind = "stop" /\ Lives(cmd[j].of))' PROVE StopOf(j)'
      <4>1. cmd[j].kind = "stop" /\ Lives(cmd[j].of) /\ cmd[j].of \in Commands
        BY <1>1, <2>1, <3>1 DEF Lives, CallOf
      <4>. QED
        BY <1>1, <2>1, <2>2, <4>1 DEF StopOf
    <3>. QED
      BY <3>1 DEF StopOf
  <2>. QED
    BY <2>2, <2>3, <2>4, <2>5
<1>10. ASSUME NEW j \in Commands \ {k}
       PROVE  /\ ChunksOf(j)' /\ WaitOf(j)' /\ ResultOf(j)'
              /\ \A s : Excuse(j, s) => Excuse(j, s)'
  <2>1. /\ CallOf(j) /\ WaitOf(j) /\ ResultOf(j) /\ cmd'[j] = cmd[j]
    BY <1>1 DEF AgentsIInv, CommandInv
  <2>2. \A c \in Conns : \A x \in Messages(j) : x \in UpOf(c)' <=> x \in UpOf(c)
    <3>1. h \notin Messages(j)
      BY <1>1, MessagesDiffer
    <3>. QED
      BY <1>3, <3>1
  <2>3. ChunksOf(j)'
    BY <1>1, <1>2, <1>3, <1>4, ExtensionRests DEF Written
  <2>4. cmd[j].conn # None => cmd[j].conn \in Conns
    BY TypeParts DEF AgentsIInv, CallType
  <2>5. WaitOf(j)'
    <3>1. ASSUME cmd[j].pc = "waiting", cmd[j].result = "none" PROVE WaitOf(j)'
      <4>1. PICK c : c = cmd[j].conn
        OBVIOUS
      <4>2. c \in Conns
        BY <2>1, <2>4, <3>1, <4>1 DEF CallOf
      <4>3. /\ j \in pending[c].waiting
            /\ \/ ~link[c].alive
               \/ j \in DownOf(c)
               \/ Answers(j) \cap UpOf(c) # {}
               \/ ChunkOf(j, Total - 1) \in UpOf(c)
               \/ run[j].pc # "none" /\ socket = c
        BY <2>1, <3>1, <4>1 DEF WaitOf
      <4>4. /\ Answers(j) \cap UpOf(c) # {} => Answers(j) \cap UpOf(c)' # {}
            /\ ChunkOf(j, Total - 1) \in UpOf(c) => ChunkOf(j, Total - 1) \in UpOf(c)'
        BY <2>2, <4>2, OwnMessages, Bounds
      <4>. QED
        <5>1. j \in pending'[c].waiting /\ (j \in DownOf(c)' <=> j \in DownOf(c))
          BY <1>2, <1>4, <4>2, <4>3
        <5>2. link'[c].alive = link[c].alive /\ socket' = socket /\ run' = run
          BY <1>1, <1>3, <4>2
        <5>3. \/ ~link'[c].alive
              \/ j \in DownOf(c)'
              \/ Answers(j) \cap UpOf(c)' # {}
              \/ ChunkOf(j, Total - 1) \in UpOf(c)'
              \/ run'[j].pc # "none" /\ socket' = c
          BY <4>3, <4>4, <5>1, <5>2
        <5>. QED
          BY <2>1, <4>1, <5>1, <5>3 DEF WaitOf, UpOf, DownOf
    <3>. QED
      BY <2>1, <3>1 DEF WaitOf
  <2>6. ResultOf(j)'
    BY <1>1, <1>9, <2>1 DEF ResultOf
  <2>7. ASSUME NEW s, Excuse(j, s) PROVE Excuse(j, s)'
    <3>1. Queued(j)' = Queued(j)
      BY <1>4 DEF Queued
    <3>2. CASE cmd[j].result \in {"ok", "cancelled"}
      BY <2>1, <2>7, <3>2 DEF Excuse
    <3>3. CASE cmd[j].pc = "waiting" /\ cmd[j].result = "none"
      <4>1. PICK c : c = cmd[j].conn
        OBVIOUS
      <4>2. c \in Conns
        BY <2>1, <2>4, <3>3, <4>1 DEF CallOf
      <4>3. /\ <<"answer", j>> \in UpOf(c)' <=> <<"answer", j>> \in UpOf(c)
            /\ <<"refusal", j>> \in UpOf(c)' <=> <<"refusal", j>> \in UpOf(c)
        BY <2>2, <4>2, OwnMessages
      <4>. QED
        BY <1>1, <1>3, <2>1, <2>7, <3>1, <3>3, <4>1, <4>2, <4>3 DEF Excuse, UpOf
    <3>. QED
      BY <2>7, <3>2, <3>3 DEF Excuse
  <2>. QED
    BY <2>3, <2>5, <2>6, <2>7
<1>. QED
  BY <1>3, <1>8, <1>9, <1>10


LEMMA TakesReal ==
  ASSUME AgentsIInv, NEW d \in Conns, NEW k \in Commands, NEW h, Takes(d, k, h), ManagerTyped,
         NEW s \in Commands,
         Lives(s)' /\ s = k => h # EndOf(k) /\ (Started(k)' => Started(k)),
         Lives(s) /\ Excuse(k, s) => Excuse(k, s)'
  PROVE  RealOf(s)'
<1>1. RealOf(s) /\ CallOf(s)
  BY DEF AgentsIInv, CommandInv
<1>2. /\ link' = [link EXCEPT ![d].up = Tail(link[d].up)]
      /\ link[d].up # <<>> /\ h = Head(link[d].up) /\ h \in Messages(k)
      /\ cmd'[s].kind = cmd[s].kind /\ cmd'[s].conn = cmd[s].conn
      /\ cmd'[s].addressed = cmd[s].addressed
      /\ captures'[s] \in {"none", captures[s]} /\ sessions' = sessions
      /\ s # k => cmd'[s] = cmd[s]
  BY DEF Takes, extension
<1>3. /\ \A c \in Conns : /\ link'[c].alive = link[c].alive
                          /\ c # d => UpOf(c)' = UpOf(c)
      /\ UpOf(d) = {h} \cup UpOf(d)'
  BY <1>2, TakenIs DEF AgentsIInv
<1>4. ASSUME (cmd[s].kind = "start" /\ Lives(s) /\ Started(s))' PROVE RealOf(s)'
  <2>1. PICK c : c = cmd[s].conn
    OBVIOUS
  <2>2. Lives(s)
    BY <1>2, <1>4 DEF Lives
  <2>3. cmd'[s].conn # None
    <3>1. CallOf(s)'
      BY TakesOthers
    <3>. QED
      BY <1>4, <3>1 DEF CallOf, Started
  <2>4. c \in Conns
    BY <1>2, <2>1, <2>3, TypeParts DEF AgentsIInv, CallType
  <2>5. UpOf(c)' \subseteq UpOf(c)
    BY <1>3, <2>4
  <2>6. Started(s)
    <3>1. CASE s = k
      BY <1>4, <3>1
    <3>2. CASE s # k
      BY <1>2, <1>4, <2>1, <2>5, <3>2 DEF Started, UpOf
    <3>. QED
      BY <3>1, <3>2
  <2>7. EndOf(s) \in UpOf(c) => EndOf(s) \in UpOf(c)'
    <3>1. h # EndOf(s)
      <4>1. CASE s = k
        BY <1>4, <4>1
      <4>2. CASE s # k
        <5>1. Messages(s) \cap Messages(k) = {} /\ EndOf(s) \in Messages(s)
          BY <4>2, MessagesDiffer, OwnMessages
        <5>. QED
          BY <1>2, <5>1
      <4>. QED
        BY <4>1, <4>2
    <3>. QED
      BY <1>3, <2>4, <3>1
  <2>8. \A j \in Commands : Excuse(j, s) => Excuse(j, s)'
    <3>1. \A j \in Commands \ {k} : Excuse(j, s) => Excuse(j, s)'
      BY TakesOthers
    <3>. QED
      BY <2>2, <3>1
  <2>9. \/ s \in sessions \/ EndOf(s) \in UpOf(c)
        \/ ~link[c].alive
        \/ \E j \in Commands : Excuse(j, s)
    BY <1>1, <1>2, <1>4, <2>1, <2>2, <2>6 DEF RealOf, UpOf
  <2>10. \/ s \in sessions' \/ EndOf(s) \in UpOf(c)'
         \/ ~link'[c].alive
         \/ \E j \in Commands : Excuse(j, s)'
    BY <1>2, <1>3, <2>4, <2>7, <2>8, <2>9
  <2>. QED
    BY <1>2, <2>1, <2>10 DEF RealOf, UpOf
<1>. QED
  BY <1>4 DEF RealOf

\* What a message is, by its first word.
LEMMA WordIs ==
  ASSUME NEW x \in Up
  PROVE  /\ x[1] \in {"answer", "refusal"} =>
              x[2] \in Commands /\ x = <<x[1], x[2]>> /\ x \in Answers(x[2])
         /\ x[1] = "chunk" => x[2] \in Commands /\ x[3] \in Numbers /\ x = ChunkOf(x[2], x[3])
         /\ x[1] = "stopped" => x[2] \in Commands /\ x = EndOf(x[2])
<1>1. CASE x = <<"hello">>
  BY <1>1
<1>2. CASE x \in {"answer", "refusal", "stopped"} \X Commands
  <2>1. PICK w \in {"answer", "refusal", "stopped"}, k \in Commands : x = <<w, k>>
    BY <1>2
  <2>. QED
    BY <2>1 DEF Answers, EndOf
<1>3. CASE x \in {"chunk"} \X Commands \X (0..Total - 1)
  <2>1. PICK k \in Commands, i \in Numbers : x = <<"chunk", k, i>>
    BY <1>3 DEF Numbers
  <2>. QED
    BY <2>1 DEF ChunkOf
<1>. QED
  BY <1>1, <1>2, <1>3 DEF Up

\* What is no longer waited for.
LEMMA ForgetIs ==
  ASSUME AgentsIInv, NEW c \in Conns, NEW k \in Commands, pending' = Forget(c, k)
  PROVE  /\ pending' \in [Conns -> PendingType]
         /\ pending'[c].waiting = pending[c].waiting \ {k} /\ pending'[c].next[k] = 0
         /\ \A j \in Commands \ {k} : pending'[c].next[j] = pending[c].next[j]
         /\ \A d \in Conns \ {c} : pending'[d] = pending[d]
<1>1. pending \in [Conns -> PendingType] /\ pending[c] \in PendingType
  BY TypeParts DEF AgentsIInv
<1>2. PICK n : n = [pending[c].next EXCEPT ![k] = 0]
  OBVIOUS
<1>3. /\ n \in [Commands -> Numbers] /\ n[k] = 0
      /\ \A j \in Commands \ {k} : n[j] = pending[c].next[j]
  BY <1>1, <1>2, Bounds DEF PendingType
<1>4. PICK r : r = [[pending[c] EXCEPT !.waiting = pending[c].waiting \ {k}] EXCEPT !.next = n]
  OBVIOUS
<1>5. r \in PendingType /\ r.waiting = pending[c].waiting \ {k} /\ r.next = n
  BY <1>1, <1>3, <1>4 DEF PendingType
<1>6. pending' = [pending EXCEPT ![c] = r]
  BY <1>1, <1>2, <1>4 DEF Forget
<1>. QED
  BY <1>1, <1>3, <1>5, <1>6

\* The count of the chunks goes up.
LEMMA CountIs ==
  ASSUME AgentsIInv, NEW c \in Conns, NEW k \in Commands, pending[c].next[k] + 1 \in Numbers,
         pending' = [pending EXCEPT ![c].next[k] = pending[c].next[k] + 1]
  PROVE  /\ pending' \in [Conns -> PendingType]
         /\ pending'[c].waiting = pending[c].waiting
         /\ pending'[c].next[k] = pending[c].next[k] + 1
         /\ \A j \in Commands \ {k} : pending'[c].next[j] = pending[c].next[j]
         /\ \A d \in Conns \ {c} : pending'[d] = pending[d]
<1>1. pending \in [Conns -> PendingType] /\ pending[c] \in PendingType
  BY TypeParts DEF AgentsIInv
<1>2. PICK n : n = [pending[c].next EXCEPT ![k] = pending[c].next[k] + 1]
  OBVIOUS
<1>3. /\ n \in [Commands -> Numbers] /\ n[k] = pending[c].next[k] + 1
      /\ \A j \in Commands \ {k} : n[j] = pending[c].next[j]
  BY <1>1, <1>2 DEF PendingType
<1>4. PICK r : r = [pending[c] EXCEPT !.next = n]
  OBVIOUS
<1>5. r \in PendingType /\ r.waiting = pending[c].waiting /\ r.next = n
  BY <1>1, <1>3, <1>4 DEF PendingType
<1>6. pending' = [pending EXCEPT ![c] = r]
  BY <1>1, <1>2, <1>4
<1>. QED
  BY <1>1, <1>3, <1>5, <1>6


LEMMA StepReadResponse ==
  ASSUME AgentsIInv, NEW d \in Conns, ReadResponse(d)
  PROVE  AgentsIInv'
<1>1. PICK h : h = Head(link[d].up)
  OBVIOUS
<1>2. PICK k : k = h[2]
  OBVIOUS
<1>3. /\ link[d].up # <<>> /\ h[1] \in {"answer", "refusal"}
      /\ link' = [link EXCEPT ![d].up = Tail(link[d].up)]
      /\ UNCHANGED <<host, agents, extension, captures>>
      /\ UNCHANGED <<socket, run, sessions, ending>>
      /\ cmd' = IF k \in pending[d].waiting
                THEN Notified({k}, IF h[1] = "answer" THEN "ok" ELSE "error") ELSE cmd
      /\ pending' = Forget(d, k)
  <2>1. /\ link[d].up # <<>> /\ h[1] \in {"answer", "refusal"}
        /\ link' = [link EXCEPT ![d].up = Tail(link[d].up)]
        /\ UNCHANGED <<host, agents, extension, captures>>
    BY <1>1 DEF ReadResponse, Reads
  <2>2. /\ cmd' = IF k \in pending[d].waiting
                  THEN Notified({k}, IF h[1] = "answer" THEN "ok" ELSE "error") ELSE cmd
        /\ pending' = Forget(d, k)
    BY <1>1, <1>2 DEF ReadResponse
  <2>. QED
    BY <2>1, <2>2 DEF extension
<1>4. h \in Up
  BY <1>1, <1>3, TakenIs DEF AgentsIInv
<1>5. /\ k \in Commands /\ h \in Answers(k) /\ h \in Messages(k) /\ h # EndOf(k)
      /\ h[1] = "answer" => h = <<"answer", k>>
      /\ h[1] # "answer" => h = <<"refusal", k>>
  <2>1. k \in Commands /\ h = <<h[1], k>> /\ h \in Answers(k)
    BY <1>2, <1>3, <1>4, WordIs
  <2>2. (h[1] = "answer" => h = <<"answer", k>>) /\ (h[1] # "answer" => h = <<"refusal", k>>)
    BY <1>3, <2>1
  <2>. QED
    BY <2>1, <2>2, OwnMessages
<1>6. /\ pending' \in [Conns -> PendingType]
      /\ pending'[d].waiting = pending[d].waiting \ {k} /\ pending'[d].next[k] = 0
      /\ \A j \in Commands \ {k} : pending'[d].next[j] = pending[d].next[j]
      /\ \A c \in Conns \ {d} : pending'[c] = pending[c]
  BY <1>3, <1>5, ForgetIs
<1>7. PICK x \in {"ok", "error"} : x = IF h[1] = "answer" THEN "ok" ELSE "error"
  OBVIOUS
<1>8. /\ cmd' \in [Commands -> CallType]
      /\ \A j \in Commands :
           /\ cmd'[j].pc = cmd[j].pc /\ cmd'[j].kind = cmd[j].kind /\ cmd'[j].of = cmd[j].of
           /\ cmd'[j].conn = cmd[j].conn /\ cmd'[j].addressed = cmd[j].addressed
           /\ \/ /\ cmd'[j] = cmd[j]
                 /\ ~(j = k /\ k \in pending[d].waiting /\ cmd[j].pc # "done" /\ cmd[j].result = "none")
              \/ /\ cmd'[j].result = x /\ j = k
                 /\ k \in pending[d].waiting /\ cmd[j].pc # "done" /\ cmd[j].result = "none"
  <2>1. CASE k \in pending[d].waiting
    <3>1. PICK ks : ks = {k}
      OBVIOUS
    <3>2. cmd' = Notified(ks, x)
      BY <1>3, <1>7, <2>1, <3>1
    <3>3. /\ cmd' \in [Commands -> CallType]
          /\ \A j \in Commands :
               /\ cmd'[j].pc = cmd[j].pc /\ cmd'[j].kind = cmd[j].kind /\ cmd'[j].of = cmd[j].of
               /\ cmd'[j].conn = cmd[j].conn /\ cmd'[j].addressed = cmd[j].addressed
               /\ \/ cmd'[j] = cmd[j] /\ ~(j \in ks /\ cmd[j].pc # "done" /\ cmd[j].result = "none")
                  \/ /\ cmd'[j].result = x
                     /\ j \in ks /\ cmd[j].pc # "done" /\ cmd[j].result = "none"
      BY <3>2, NotifiedIs
    <3>. QED
      BY <2>1, <3>1, <3>3
  <2>2. CASE k \notin pending[d].waiting
    <3>1. cmd' = cmd
      BY <1>3, <2>2
    <3>. QED
      BY <2>2, <3>1, TypeParts DEF AgentsIInv
  <2>. QED
    BY <2>1, <2>2
<1>9. \A c \in Conns : k \in pending[c].waiting => cmd[k].pc = "waiting" /\ cmd[k].conn = c
  BY <1>5 DEF AgentsIInv, TableInv, WaitingOf
<1>10. LinkTyped /\ ManagerTyped /\ ExtensionTyped
  <2>1. LinkTyped
    BY <1>3, TakenIs DEF AgentsIInv
  <2>. QED
    BY <1>3, <1>6, <1>8, <2>1, TypedParts, TypeParts DEF AgentsIInv, ManagerTyped
<1>11. Takes(d, k, h)
  <2>1. \A c \in Conns :
          /\ \A j \in Commands \ {k} :
               /\ j \in pending'[c].waiting <=> j \in pending[c].waiting
               /\ pending'[c].next[j] = pending[c].next[j]
          /\ k \in pending'[c].waiting => k \in pending[c].waiting
          /\ k \notin pending'[c].waiting => pending'[c].next[k] = 0
    <3>1. \A c \in Conns : k \notin pending[c].waiting => pending[c].next[k] = 0
      BY <1>5 DEF AgentsIInv, TableInv, WaitingOf
    <3>. QED
      BY <1>6, <3>1
  <2>2. \A j \in Commands :
          /\ cmd'[j].pc = cmd[j].pc /\ cmd'[j].kind = cmd[j].kind /\ cmd'[j].of = cmd[j].of
          /\ cmd'[j].conn = cmd[j].conn /\ cmd'[j].addressed = cmd[j].addressed
          /\ \/ cmd'[j] = cmd[j]
             \/ j = k /\ cmd[j].pc = "waiting" /\ cmd[j].result = "none" /\ cmd'[j].result \in {"ok", "error"}
          /\ captures'[j] \in {"none", captures[j]}
    BY <1>3, <1>7, <1>8, <1>9
  <2>. QED
    BY <1>1, <1>3, <1>5, <2>1, <2>2 DEF Takes
<1>12. /\ TableInv'
       /\ \A j \in Commands : /\ CallOf(j)' /\ TokenOf(j)' /\ KindOf(j)' /\ CaptureOf(j)'
                              /\ StopOf(j)'
       /\ \A j \in Commands \ {k} : /\ ChunksOf(j)' /\ WaitOf(j)' /\ ResultOf(j)'
  BY <1>5, <1>10, <1>11, TakesOthers
<1>13. /\ Lone(Answers(k)) /\ WaitOf(k) /\ CallOf(k)
  BY <1>5 DEF AgentsIInv, CommandInv, TokenOf
<1>14. /\ Flow(<<"hello">>) /\ UpOf(d) = {h} \cup UpOf(d)'
       /\ \A c \in Conns : /\ link'[c].alive = link[c].alive /\ link'[c].down = link[c].down
                           /\ c # d => UpOf(c)' = UpOf(c)
                           /\ Answers(k) \cap UpOf(c)' = {}
  BY <1>1, <1>3, <1>5, <1>13, TakenIs DEF AgentsIInv
<1>15. run[k].pc = "none" /\ ~Queued(k) /\ Nowhere(Chunks(k))
  BY <1>5, <1>14, AnsweredIs
<1>16. /\ run'[k].pc = "none" /\ ~Queued(k)' /\ Nowhere(Chunks(k))' /\ Nowhere(Answers(k))'
  <2>1. Nowhere(Chunks(k))'
    BY <1>14, <1>15, MessageIs, FlowIs
  <2>2. \A c \in Conns : DownOf(c)' = DownOf(c)
    BY <1>14 DEF DownOf
  <2>. QED
    BY <1>3, <1>14, <1>15, <2>1, <2>2 DEF Queued, Nowhere
<1>17. Over(k)'
  BY <1>16 DEF Over, Silent
<1>18. ChunksOf(k)'
  BY <1>16, OwnMessages DEF ChunksOf, Nowhere
<1>19. ResultOf(k)'
  BY <1>17 DEF ResultOf
<1>20. WaitOf(k)'
  <2>1. ASSUME cmd'[k].pc = "waiting", cmd'[k].result = "none" PROVE WaitOf(k)'
    <3>1. PICK c : c = cmd[k].conn
      OBVIOUS
    <3>2. cmd'[k] = cmd[k] /\ k \notin pending[d].waiting
      BY <1>5, <1>7, <1>8, <2>1
    <3>3. c \in Conns
      BY <1>5, <1>13, <2>1, <3>1, <3>2, TypeParts DEF CallOf, AgentsIInv, CallType
    <3>4. k \in pending[c].waiting /\ c # d
      BY <1>13, <2>1, <3>1, <3>2 DEF WaitOf
    <3>5. ~link[c].alive
      <4>1. Answers(k) \cap UpOf(c) = {}
        BY <1>14, <3>3, <3>4
      <4>2. ChunkOf(k, Total - 1) \notin UpOf(c) /\ k \notin DownOf(c)
        BY <1>15, <3>3, OwnMessages, Bounds DEF Nowhere, Queued
      <4>. QED
        BY <1>13, <1>15, <2>1, <3>1, <3>2, <4>1, <4>2 DEF WaitOf
    <3>. QED
      BY <1>6, <1>14, <3>1, <3>2, <3>3, <3>4, <3>5 DEF WaitOf
  <2>. QED
    BY <2>1 DEF WaitOf
<1>21. ASSUME NEW s \in Commands, Excuse(k, s) PROVE Excuse(k, s)'
  <2>1. CASE cmd[k].result \in {"ok", "cancelled"}
    BY <1>5, <1>8, <1>21, <2>1 DEF Excuse
  <2>2. CASE cmd[k].pc = "waiting" /\ cmd[k].result = "none"
    <3>1. PICK c : c = cmd[k].conn
      OBVIOUS
    <3>2. c \in Conns
      BY <1>5, <1>13, <2>2, <3>1, TypeParts DEF CallOf, AgentsIInv, CallType
    <3>3. k \in pending[c].waiting
      BY <1>13, <2>2, <3>1 DEF WaitOf
    <3>4. \/ <<"answer", k>> \in UpOf(c)
          \/ ~link[c].alive /\ <<"refusal", k>> \notin UpOf(c)
      BY <1>21, <2>2, <3>1 DEF Excuse, UpOf
    <3>5. CASE c = d
      <4>1. cmd'[k].result = x
        BY <1>5, <1>8, <2>2, <3>3, <3>5
      <4>2. h = <<"answer", k>>
        <5>1. <<"answer", k>> \in UpOf(d) => <<"answer", k>> = h
          BY <1>5, <1>14, OwnMessages
        <5>2. h \in UpOf(d)
          BY <1>14
        <5>. QED
          BY <1>5, <3>4, <3>5, <5>1, <5>2
      <4>3. x = "ok"
        BY <1>7, <4>2
      <4>. QED
        BY <1>5, <1>8, <1>21, <4>1, <4>3 DEF Excuse
    <3>6. CASE c # d
      <4>1. ~(k \in pending[d].waiting)
        BY <1>9, <3>1, <3>6
      <4>2. cmd'[k] = cmd[k]
        BY <1>5, <1>8, <4>1
      <4>3. UpOf(c) \cap Answers(k) = {} /\ UpOf(c)' \cap Answers(k) = {}
        BY <1>14, <3>2, <3>6
      <4>4. ~link'[c].alive /\ <<"refusal", k>> \notin UpOf(c)'
        BY <1>14, <3>2, <3>4, <4>3, OwnMessages
      <4>. QED
        BY <1>16, <1>21, <2>2, <3>1, <4>2, <4>4 DEF Excuse, UpOf
    <3>. QED
      BY <3>5, <3>6
  <2>. QED
    BY <1>21, <2>1, <2>2 DEF Excuse
<1>22. Started(k)' => Started(k)
  <2>1. CASE cmd'[k] = cmd[k]
    <3>1. cmd[k].conn # None => cmd[k].conn \in Conns
      BY <1>5, TypeParts DEF AgentsIInv, CallType
    <3>2. cmd[k].conn # None => <<"answer", k>> \notin UpOf(cmd[k].conn)'
      <4>1. PICK c : c = cmd[k].conn
        OBVIOUS
      <4>2. c # None => <<"answer", k>> \notin UpOf(c)'
        BY <1>14, <3>1, <4>1, OwnMessages
      <4>. QED
        BY <2>1, <4>1, <4>2 DEF UpOf
    <3>. QED
      BY <1>3, <2>1, <3>2 DEF Started
  <2>2. CASE k \in pending[d].waiting /\ cmd'[k].result = x
    <3>1. cmd[k].conn = d
      BY <1>9, <2>2
    <3>2. h \in UpOf(d)
      BY <1>14
    <3>3. h = <<"answer", k>> => Started(k)
      BY <3>1, <3>2, Bounds DEF Started
    <3>4. CASE h # <<"answer", k>>
      <4>1. x = "error"
        BY <1>5, <1>7, <3>4
      <4>2. <<"answer", k>> \notin UpOf(d)'
        BY <1>14, OwnMessages
      <4>3. cmd'[k].conn = d
        BY <1>5, <1>8, <3>1
      <4>4. <<"answer", k>> \notin UpOf(cmd[k].conn)'
        BY <4>2, <4>3 DEF UpOf
      <4>. QED
        BY <1>3, <2>2, <4>1, <4>4 DEF Started
    <3>. QED
      BY <3>3, <3>4
  <2>. QED
    BY <1>5, <1>8, <2>1, <2>2
<1>23. \A s \in Commands : RealOf(s)'
  BY <1>5, <1>10, <1>11, <1>21, <1>22, TakesReal
<1>24. CommandInv'
  BY <1>12, <1>18, <1>19, <1>20, <1>23 DEF CommandInv
<1>. QED
  BY <1>10, <1>12, <1>24, TypedParts DEF AgentsIInv


LEMMA StepReadStopped ==
  ASSUME AgentsIInv, NEW d \in Conns, ReadStopped(d)
  PROVE  AgentsIInv'
<1>1. PICK h : h = Head(link[d].up)
  OBVIOUS
<1>2. PICK k : k = h[2]
  OBVIOUS
<1>3. /\ link[d].up # <<>> /\ h[1] = "stopped"
      /\ link' = [link EXCEPT ![d].up = Tail(link[d].up)]
      /\ UNCHANGED <<host, agents, extension, cmd, pending>>
      /\ captures' = IF Addressed(k) THEN [captures EXCEPT ![k] = "none"] ELSE captures
  BY <1>1, <1>2 DEF ReadStopped, Reads
<1>4. h \in Up
  BY <1>1, <1>3, TakenIs DEF AgentsIInv
<1>5. k \in Commands /\ h = EndOf(k)
  BY <1>2, <1>3, <1>4, WordIs
<1>6. h \in Messages(k) /\ h \notin Answers(k) /\ h \notin Chunks(k)
  BY <1>5, OwnMessages
<1>7. captures \in [Commands -> {"none", "starting", "running"}]
  BY TypeParts DEF AgentsIInv
<1>8. /\ captures' \in [Commands -> {"none", "starting", "running"}]
      /\ \A j \in Commands : captures'[j] \in {"none", captures[j]}
      /\ cmd[k].addressed => captures'[k] = "none"
  BY <1>3, <1>5, <1>7 DEF Addressed
<1>9. LinkTyped /\ ManagerTyped /\ ExtensionTyped
  <2>1. LinkTyped
    BY <1>1, <1>3, TakenIs DEF AgentsIInv
  <2>. QED
    BY <1>3, <1>8, <2>1, TypedParts, TypeParts DEF AgentsIInv, ManagerTyped
<1>10. Takes(d, k, h)
  <2>1. \A c \in Conns : k \notin pending[c].waiting => pending[c].next[k] = 0
    BY <1>5 DEF AgentsIInv, TableInv, WaitingOf
  <2>. QED
    BY <1>1, <1>3, <1>6, <1>8, <2>1 DEF Takes
<1>11. /\ TableInv'
       /\ \A j \in Commands : /\ CallOf(j)' /\ TokenOf(j)' /\ KindOf(j)' /\ CaptureOf(j)'
                              /\ StopOf(j)' /\ (Over(j) => Over(j)')
       /\ \A j \in Commands \ {k} : /\ ChunksOf(j)' /\ WaitOf(j)' /\ ResultOf(j)'
  BY <1>5, <1>9, <1>10, TakesOthers
<1>12. /\ Flow(<<"hello">>) /\ UpOf(d) = {h} \cup UpOf(d)'
       /\ \A c \in Conns : /\ link'[c].alive = link[c].alive /\ link'[c].down = link[c].down
                           /\ c # d => UpOf(c)' = UpOf(c)
  BY <1>1, <1>3, TakenIs DEF AgentsIInv
<1>13. /\ CallOf(k) /\ WaitOf(k) /\ ResultOf(k) /\ KindOf(k)
  BY <1>5 DEF AgentsIInv, CommandInv
<1>14. UNCHANGED <<socket, run, sessions, ending>>
  BY <1>3 DEF extension
<1>15. cmd[k].kind = "start"
  <2>1. ~NoSession(k)
    BY <1>5, <1>12 DEF NoSession, Nowhere
  <2>. QED
    BY <1>13, <2>1 DEF KindOf
<1>16. ChunksOf(k)'
  BY <1>3, <1>5, <1>12, <1>14, DownIs, ExtensionRests DEF Written
<1>17. ResultOf(k)'
  BY <1>3, <1>5, <1>11, <1>13 DEF ResultOf
<1>18. WaitOf(k)'
  <2>1. ASSUME cmd[k].pc = "waiting", cmd[k].result = "none" PROVE WaitOf(k)'
    <3>1. PICK c : c = cmd[k].conn
      OBVIOUS
    <3>2. c \in Conns
      BY <1>5, <1>13, <2>1, <3>1, TypeParts DEF CallOf, AgentsIInv, CallType
    <3>3. /\ k \in pending[c].waiting
          /\ \/ ~link[c].alive
             \/ k \in DownOf(c)
             \/ Answers(k) \cap UpOf(c) # {}
             \/ ChunkOf(k, Total - 1) \in UpOf(c)
             \/ run[k].pc # "none" /\ socket = c
      BY <1>13, <2>1, <3>1 DEF WaitOf
    <3>4. /\ Answers(k) \cap UpOf(c) # {} => Answers(k) \cap UpOf(c)' # {}
          /\ ChunkOf(k, Total - 1) \in UpOf(c) => ChunkOf(k, Total - 1) \in UpOf(c)'
      BY <1>6, <1>12, <3>2, OwnMessages, Bounds
    <3>5. DownOf(c)' = DownOf(c)
      BY <1>12, <3>2 DEF DownOf
    <3>. QED
      BY <1>3, <1>12, <1>14, <3>1, <3>2, <3>3, <3>4, <3>5 DEF WaitOf, UpOf, DownOf
  <2>. QED
    BY <1>3, <2>1 DEF WaitOf
<1>19. ASSUME NEW s \in Commands PROVE RealOf(s)'
  <2>1. ~Excuse(k, s)
    BY <1>15 DEF Excuse
  <2>2. s = k => ~Lives(s)'
    BY <1>3, <1>8 DEF Lives
  <2>. QED
    BY <1>5, <1>9, <1>10, <2>1, <2>2, TakesReal
<1>20. CommandInv'
  BY <1>11, <1>16, <1>17, <1>18, <1>19 DEF CommandInv
<1>. QED
  BY <1>9, <1>11, <1>20, TypedParts DEF AgentsIInv

\* The chunks of an answer are counted: the last completes it.
LEMMA StepReadChunk ==
  ASSUME AgentsIInv, NEW d \in Conns, ReadChunk(d)
  PROVE  AgentsIInv'
<1>1. PICK h : h = Head(link[d].up)
  OBVIOUS
<1>2. PICK k : k = h[2]
  OBVIOUS
<1>3. PICK i : i = h[3]
  OBVIOUS
<1>4. PICK n : n = pending[d].next[k]
  OBVIOUS
<1>5. /\ link[d].up # <<>> /\ h[1] = "chunk"
      /\ link' = [link EXCEPT ![d].up = Tail(link[d].up)]
      /\ UNCHANGED <<host, agents, extension, captures>>
  BY <1>1 DEF ReadChunk, Reads
<1>6. \/ k \notin pending[d].waiting /\ cmd' = cmd /\ pending' = Forget(d, k)
      \/ /\ k \in pending[d].waiting /\ i = n /\ i + 1 = Total
         /\ cmd' = Notified({k}, "ok") /\ pending' = Forget(d, k)
      \/ /\ k \in pending[d].waiting /\ i # n
         /\ cmd' = Notified({k}, "error") /\ pending' = Forget(d, k)
      \/ /\ k \in pending[d].waiting /\ i = n /\ i + 1 # Total /\ cmd' = cmd
         /\ pending' = [pending EXCEPT ![d].next[k] = pending[d].next[k] + 1]
  <2>1. /\ cmd' = CASE k \in pending[d].waiting /\ i = n /\ i + 1 = Total -> Notified({k}, "ok")
                    [] k \in pending[d].waiting /\ i # n -> Notified({k}, "error")
                    [] OTHER -> cmd
        /\ pending' = IF k \in pending[d].waiting /\ i = n /\ ~(i = n /\ i + 1 = Total)
                      THEN [pending EXCEPT ![d].next[k] = pending[d].next[k] + 1]
                      ELSE Forget(d, k)
    BY <1>1, <1>2, <1>3, <1>4 DEF ReadChunk
  <2>. QED
    BY <2>1
<1>7. h \in Up
  BY <1>1, <1>5, TakenIs DEF AgentsIInv
<1>8. k \in Commands /\ i \in Numbers /\ i \in Nat /\ h = ChunkOf(k, i)
  BY <1>2, <1>3, <1>5, <1>7, WordIs, Bounds
<1>9. h \in Messages(k) /\ h \notin Answers(k) /\ h \in Chunks(k) /\ h # EndOf(k)
  BY <1>8, OwnMessages
<1>10. \A c \in Conns : /\ k \in pending[c].waiting => cmd[k].pc = "waiting" /\ cmd[k].conn = c
                        /\ k \notin pending[c].waiting => pending[c].next[k] = 0
  BY <1>8 DEF AgentsIInv, TableInv, WaitingOf
<1>11. /\ Flow(<<"hello">>) /\ UpOf(d) = {h} \cup UpOf(d)' /\ LinkTyped
       /\ \A c \in Conns : /\ link'[c].alive = link[c].alive /\ link'[c].down = link[c].down
                           /\ c # d => UpOf(c)' = UpOf(c)
                           /\ DownOf(c)' = DownOf(c)
  BY <1>1, <1>5, TakenIs DEF AgentsIInv, DownOf
<1>12. /\ CallOf(k) /\ WaitOf(k) /\ ResultOf(k) /\ KindOf(k) /\ TokenOf(k) /\ ChunksOf(k)
  BY <1>8 DEF AgentsIInv, CommandInv
<1>13. ~Nowhere(Chunks(k))
  BY <1>9, <1>11 DEF Nowhere
<1>14. /\ cmd[k].kind = "action" /\ Nowhere(Answers(k)) /\ ~Queued(k) /\ ~Over(k)
       /\ cmd[k].result # "ok"
  BY <1>12, <1>13 DEF KindOf, TokenOf, Silent, Over, ResultOf
<1>15. \A c \in Conns : ChunkOf(k, i) \notin UpOf(c)'
  <2>1. Lone({ChunkOf(k, i)})
    BY <1>8, <1>12 DEF TokenOf
  <2>2. Head(link[d].up) \in {ChunkOf(k, i)}
    BY <1>1, <1>8
  <2>3. \A c \in Conns : {ChunkOf(k, i)} \cap UpOf(c)' = {}
    BY <1>5, <2>1, <2>2, TakenIs DEF AgentsIInv
  <2>. QED
    BY <2>3
<1>16. n \in Numbers /\ n \in Nat
  <2>1. pending[d] \in PendingType
    BY TypeParts DEF AgentsIInv
  <2>. QED
    BY <1>4, <1>8, <2>1, Bounds DEF PendingType
<1>17. /\ run[k].pc = "none" \/ i < run[k].sent
       /\ k \in pending[d].waiting => \A c \in Conns, m \in Numbers : ChunkOf(k, m) \in UpOf(c) => n <= m
  BY <1>4, <1>8, <1>11, <1>12 DEF ChunksOf
<1>18. UNCHANGED <<socket, run, sessions, ending>>
  BY <1>5 DEF extension
\* The count of the chunks of k is kept or forgotten, but by the reader of d.
<1>19. /\ pending' \in [Conns -> PendingType]
       /\ \A c \in Conns : \A j \in Commands \ {k} :
            /\ j \in pending'[c].waiting <=> j \in pending[c].waiting
            /\ pending'[c].next[j] = pending[c].next[j]
       /\ \A c \in Conns \ {d} : pending'[c] = pending[c]
       /\ \/ /\ k \notin pending'[d].waiting /\ pending'[d].next[k] = 0
             /\ ~(k \in pending[d].waiting /\ i = n /\ i + 1 # Total)
          \/ /\ k \in pending[d].waiting /\ i = n /\ i + 1 # Total /\ cmd' = cmd
             /\ k \in pending'[d].waiting /\ pending'[d].next[k] = n + 1
  <2>1. CASE pending' = Forget(d, k) /\ ~(k \in pending[d].waiting /\ i = n /\ i + 1 # Total)
    BY <1>8, <2>1, ForgetIs
  <2>2. CASE /\ k \in pending[d].waiting /\ i = n /\ i + 1 # Total /\ cmd' = cmd
             /\ pending' = [pending EXCEPT ![d].next[k] = pending[d].next[k] + 1]
    <3>1. pending[d].next[k] + 1 \in Numbers
      BY <1>4, <1>8, <2>2, Bounds DEF Numbers
    <3>2. /\ pending' \in [Conns -> PendingType]
          /\ pending'[d].waiting = pending[d].waiting
          /\ pending'[d].next[k] = pending[d].next[k] + 1
          /\ \A j \in Commands \ {k} : pending'[d].next[j] = pending[d].next[j]
          /\ \A c \in Conns \ {d} : pending'[c] = pending[c]
      BY <1>8, <2>2, <3>1, CountIs
    <3>. QED
      BY <1>4, <2>2, <3>2
  <2>. QED
    BY <1>6, <2>1, <2>2
<1>20. /\ cmd' \in [Commands -> CallType]
       /\ \A j \in Commands :
            /\ cmd'[j].pc = cmd[j].pc /\ cmd'[j].kind = cmd[j].kind /\ cmd'[j].of = cmd[j].of
            /\ cmd'[j].conn = cmd[j].conn /\ cmd'[j].addressed = cmd[j].addressed
            /\ \/ cmd'[j] = cmd[j]
               \/ j = k /\ cmd[j].pc = "waiting" /\ cmd[j].result = "none" /\ cmd'[j].result \in {"ok", "error"}
       /\ cmd'[k].result = "ok" => k \in pending[d].waiting /\ i = n /\ i + 1 = Total
       /\ cmd[k].pc = "waiting" /\ cmd'[k].result = "none" =>
            /\ cmd'[k] = cmd[k]
            /\ \/ k \notin pending[d].waiting
               \/ i + 1 # Total /\ k \in pending'[d].waiting
  <2>1. CASE cmd' = cmd
    <3>1. cmd \in [Commands -> CallType]
      BY TypeParts DEF AgentsIInv
    <3>2. k \notin pending[d].waiting \/ (i + 1 # Total /\ k \in pending'[d].waiting) \/ cmd[k].result # "none"
      <4>1. ASSUME cmd' = Notified({k}, "ok") \/ cmd' = Notified({k}, "error"), k \in pending[d].waiting
            PROVE  cmd[k].result # "none"
        <5>1. cmd'[k] = cmd[k] /\ cmd[k].pc # "done"
          BY <1>10, <2>1, <4>1
        <5>2. PICK ks : ks = {k}
          OBVIOUS
        <5>3. PICK x \in {"ok", "error"} : cmd' = Notified(ks, x)
          BY <4>1, <5>2
        <5>4. k \in ks /\ k \in Commands
          BY <1>8, <5>2
        <5>5. \/ ~(k \in ks /\ cmd[k].pc # "done" /\ cmd[k].result = "none")
              \/ cmd'[k].result = x
          BY <5>3, <5>4, NotifiedIs
        <5>. QED
          BY <5>1, <5>3, <5>4, <5>5
      <4>. QED
        BY <1>6, <1>19, <4>1
    <3>. QED
      BY <1>14, <2>1, <3>1, <3>2
  <2>2. CASE /\ k \in pending[d].waiting /\ (i # n \/ i + 1 = Total)
             /\ \E x \in {"ok", "error"} : cmd' = Notified({k}, x) /\ (x = "ok" => i = n /\ i + 1 = Total)
    <3>1. PICK x \in {"ok", "error"} : cmd' = Notified({k}, x) /\ (x = "ok" => i = n /\ i + 1 = Total)
      BY <2>2
    <3>2. PICK ks : ks = {k}
      OBVIOUS
    <3>3. cmd' = Notified(ks, x)
      BY <3>1, <3>2
    <3>4. /\ cmd' \in [Commands -> CallType]
          /\ \A j \in Commands :
               /\ cmd'[j].pc = cmd[j].pc /\ cmd'[j].kind = cmd[j].kind /\ cmd'[j].of = cmd[j].of
               /\ cmd'[j].conn = cmd[j].conn /\ cmd'[j].addressed = cmd[j].addressed
               /\ \/ cmd'[j] = cmd[j] /\ ~(j \in ks /\ cmd[j].pc # "done" /\ cmd[j].result = "none")
                  \/ /\ cmd'[j].result = x
                     /\ j \in ks /\ cmd[j].pc # "done" /\ cmd[j].result = "none"
      BY <3>3, NotifiedIs
    <3>5. cmd[k].pc = "waiting"
      BY <1>10, <2>2
    <3>. QED
      BY <1>8, <1>14, <2>2, <3>1, <3>2, <3>4, <3>5
  <2>. QED
    BY <1>6, <2>1, <2>2
<1>21. LinkTyped /\ ManagerTyped /\ ExtensionTyped
  BY <1>5, <1>11, <1>19, <1>20, TypedParts, TypeParts DEF AgentsIInv, ManagerTyped
<1>22. Takes(d, k, h)
  <2>1. \A j \in Commands : captures'[j] \in {"none", captures[j]}
    BY <1>5
  <2>2. \A c \in Conns : /\ k \in pending'[c].waiting => k \in pending[c].waiting
                         /\ k \notin pending'[c].waiting => pending'[c].next[k] = 0
    BY <1>10, <1>19
  <2>. QED
    BY <1>1, <1>5, <1>9, <1>19, <1>20, <2>1, <2>2 DEF Takes
<1>23. /\ TableInv'
       /\ \A j \in Commands : /\ CallOf(j)' /\ TokenOf(j)' /\ KindOf(j)' /\ CaptureOf(j)'
                              /\ StopOf(j)' /\ (Over(j) => Over(j)')
       /\ \A j \in Commands \ {k} : /\ ChunksOf(j)' /\ WaitOf(j)' /\ ResultOf(j)'
  BY <1>8, <1>21, <1>22, TakesOthers
<1>24. \A j \in Commands : DownShrinks(j)
  BY <1>11, DownIs
<1>25. /\ ~Queued(k)' /\ Nowhere(Answers(k))'
       /\ \A c \in Conns : UpOf(c)' \subseteq UpOf(c)
  <2>1. \A c \in Conns : UpOf(c)' \subseteq UpOf(c)
    BY <1>11
  <2>. QED
    BY <1>11, <1>14, <2>1 DEF Queued, Nowhere
<1>26. ChunksOf(k)'
  <2>1. CASE k \notin pending'[d].waiting
    <3>1. \A c \in Conns : k \in pending'[c].waiting =>
            k \in pending[c].waiting /\ pending'[c].next[k] = pending[c].next[k]
      BY <1>19, <2>1
    <3>2. UNCHANGED <<run, sessions, ending>> /\ (Written(k) => Written(k)' /\ cmd'[k].kind = cmd[k].kind)
      BY <1>8, <1>18, <1>20 DEF Written
    <3>. QED
      BY <1>8, <1>11, <1>24, <3>1, <3>2, ExtensionRests
  <2>2. CASE /\ k \in pending[d].waiting /\ i = n /\ pending'[d].next[k] = n + 1
    <3>1. \A c \in Conns, m \in Numbers : ChunkOf(k, m) \in UpOf(c)' => n + 1 <= m
      <4>1. ASSUME NEW c \in Conns, NEW m \in Numbers, ChunkOf(k, m) \in UpOf(c)' PROVE n + 1 <= m
        <5>1. n <= m /\ m # i /\ m \in Nat
          BY <1>15, <1>17, <1>25, <2>2, <4>1, Bounds
        <5>. QED
          BY <1>16, <2>2, <5>1
      <4>. QED
        BY <4>1
    <3>2. run[k].sent \in Nat
      BY <1>8, TypeParts, Bounds DEF AgentsIInv, RunType
    <3>3. run'[k].pc # "none" => n + 1 <= run'[k].sent
      BY <1>16, <1>17, <1>18, <2>2, <3>2
    <3>4. \A c \in Conns : k \in pending'[c].waiting => c = d
      BY <1>10, <1>19, <2>2
    <3>5. \A c \in Conns, m \in Numbers :
            ChunkOf(k, m) \in UpOf(c)' => run'[k].pc = "none" \/ m < run'[k].sent
      BY <1>12, <1>18, <1>25 DEF ChunksOf
    <3>. QED
      BY <1>25, <2>2, <3>1, <3>3, <3>4, <3>5 DEF ChunksOf
  <2>. QED
    BY <1>19, <2>1, <2>2
<1>27. ResultOf(k)'
  <2>1. ASSUME cmd'[k].result = "ok" PROVE Over(k)'
    <3>1. k \in pending[d].waiting /\ i = n /\ i + 1 = Total
      BY <1>20, <2>1
    <3>2. run'[k].pc = "none"
      <4>1. run[k].sent \in Numbers
        BY <1>8, TypeParts DEF AgentsIInv, RunType
      <4>. QED
        BY <1>8, <1>17, <1>18, <3>1, <4>1, Bounds DEF Numbers
    <3>3. Nowhere(Chunks(k))'
      <4>1. ASSUME NEW c \in Conns, NEW m \in Numbers, ChunkOf(k, m) \in UpOf(c)' PROVE FALSE
        <5>1. n <= m /\ m # i
          BY <1>15, <1>17, <1>25, <3>1, <4>1
        <5>. QED
          BY <1>8, <3>1, <5>1, Bounds DEF Numbers
      <4>. QED
        BY <4>1 DEF Nowhere, Chunks
    <3>. QED
      BY <1>25, <3>2, <3>3 DEF Over, Silent
  <2>. QED
    BY <1>8, <1>14, <1>20, <2>1 DEF ResultOf
<1>28. WaitOf(k)'
  <2>1. ASSUME cmd'[k].pc = "waiting", cmd'[k].result = "none" PROVE WaitOf(k)'
    <3>1. PICK c : c = cmd[k].conn
      OBVIOUS
    <3>2. /\ cmd'[k] = cmd[k]
          /\ \/ k \notin pending[d].waiting
             \/ i + 1 # Total /\ k \in pending'[d].waiting
      BY <1>8, <1>20, <2>1
    <3>3. c \in Conns
      BY <1>8, <1>12, <2>1, <3>1, <3>2, TypeParts DEF CallOf, AgentsIInv, CallType
    <3>4. /\ k \in pending[c].waiting
          /\ \/ ~link[c].alive
             \/ k \in DownOf(c)
             \/ Answers(k) \cap UpOf(c) # {}
             \/ ChunkOf(k, Total - 1) \in UpOf(c)
             \/ run[k].pc # "none" /\ socket = c
      BY <1>12, <2>1, <3>1, <3>2 DEF WaitOf
    <3>5. /\ Answers(k) \cap UpOf(c) = {}
          /\ ChunkOf(k, Total - 1) \in UpOf(c) => ChunkOf(k, Total - 1) \in UpOf(c)'
      <4>1. Answers(k) \cap UpOf(c) = {}
        BY <1>14, <3>3 DEF Nowhere
      <4>2. CASE c # d
        BY <1>11, <3>3, <4>1, <4>2
      <4>3. CASE c = d
        <5>1. i + 1 # Total
          BY <3>2, <3>4, <4>3
        <5>2. i # Total - 1
          BY <1>8, <5>1, Bounds
        <5>3. ChunkOf(k, i) # ChunkOf(k, Total - 1)
          BY <5>2 DEF ChunkOf
        <5>. QED
          BY <1>8, <1>11, <4>1, <4>3, <5>3
      <4>. QED
        BY <4>2, <4>3
    <3>6. k \in pending'[c].waiting
      BY <1>19, <3>2, <3>3, <3>4
    <3>. QED
      BY <1>11, <1>18, <3>1, <3>2, <3>3, <3>4, <3>5, <3>6 DEF WaitOf, UpOf, DownOf
  <2>. QED
    BY <2>1 DEF WaitOf
<1>29. ASSUME NEW s \in Commands PROVE RealOf(s)'
  <2>1. ~Excuse(k, s)
    BY <1>14 DEF Excuse
  <2>2. CASE s = k
    BY <1>8, <1>14, <1>20, <2>2 DEF RealOf
  <2>3. CASE s # k
    BY <1>8, <1>21, <1>22, <2>1, <2>3, TakesReal
  <2>. QED
    BY <2>2, <2>3
<1>30. CommandInv'
  BY <1>23, <1>26, <1>27, <1>28, <1>29 DEF CommandInv
<1>. QED
  BY <1>21, <1>23, <1>30, TypedParts DEF AgentsIInv


-----------------------------------------------------------------------------
(* The steps of the callers of commands *)

\* The caller of k does something about its own command.
Calls(k) ==
  /\ UNCHANGED <<host, agents, extension>>
  /\ \A c \in Conns :
       /\ link'[c].alive = link[c].alive /\ link'[c].shut = link[c].shut
       /\ link'[c].up = link[c].up
       /\ \A j \in Commands \ {k} :
            /\ j \in DownOf(c)' <=> j \in DownOf(c)
            /\ Once(link[c].down, {j}) => Once(link'[c].down, {j})
            /\ j \in pending'[c].waiting <=> j \in pending[c].waiting
            /\ pending'[c].next[j] = pending[c].next[j]
  /\ \A j \in Commands \ {k} : cmd'[j] = cmd[j] /\ captures'[j] \in {"none", captures[j]}
  /\ cmd[k].kind # "none" => /\ cmd'[k].kind = cmd[k].kind /\ cmd'[k].addressed = cmd[k].addressed
                             /\ captures'[k] # "none" => captures[k] # "none"

LEMMA CallsOthers ==
  ASSUME AgentsIInv, NEW k \in Commands, Calls(k)
  PROVE  /\ \A c \in Conns : HostOf(c)'
         /\ \A j \in Commands \ {k} :
              /\ CallOf(j)' /\ TokenOf(j)' /\ KindOf(j)' /\ ChunksOf(j)' /\ WaitOf(j)'
              /\ ResultOf(j)' /\ CaptureOf(j)' /\ StopOf(j)'
              /\ \A s : Excuse(j, s) => Excuse(j, s)'
<1>1. /\ UNCHANGED <<host, agents, socket, run, sessions, ending>>
      /\ \A c \in Conns : /\ link'[c].alive = link[c].alive /\ link'[c].shut = link[c].shut
                          /\ link'[c].up = link[c].up
      /\ \A j \in Commands \ {k} : cmd'[j] = cmd[j] /\ captures'[j] \in {"none", captures[j]}
      /\ cmd[k].kind # "none" => /\ cmd'[k].kind = cmd[k].kind /\ cmd'[k].addressed = cmd[k].addressed
                                 /\ captures'[k] # "none" => captures[k] # "none"
  BY DEF Calls, extension
<1>2. \A c \in Conns : \A j \in Commands \ {k} :
        /\ j \in DownOf(c)' <=> j \in DownOf(c)
        /\ Once(link[c].down, {j}) => Once(link'[c].down, {j})
        /\ j \in pending'[c].waiting <=> j \in pending[c].waiting
        /\ pending'[c].next[j] = pending[c].next[j]
  BY DEF Calls
<1>3. \A c \in Conns : HostOf(c)'
  BY <1>1 DEF HostOf, AgentsIInv, TableInv
<1>4. Flow(<<"hello">>) /\ \A c \in Conns : UpOf(c)' = UpOf(c)
  BY <1>1, NoNews DEF UpOf
<1>5. ASSUME NEW j \in Commands \ {k}
      PROVE  /\ CallOf(j)' /\ TokenOf(j)' /\ KindOf(j)' /\ ChunksOf(j)' /\ WaitOf(j)'
             /\ ResultOf(j)' /\ CaptureOf(j)' /\ StopOf(j)'
             /\ \A s : Excuse(j, s) => Excuse(j, s)'
  <2>1. /\ CallOf(j) /\ WaitOf(j) /\ ResultOf(j) /\ CaptureOf(j) /\ StopOf(j) /\ cmd'[j] = cmd[j]
    BY <1>1 DEF AgentsIInv, CommandInv
  <2>2. DownShrinks(j) /\ (Queued(j)' <=> Queued(j))
    BY <1>2 DEF DownShrinks, Queued
  <2>3. /\ TokenOf(j)' /\ KindOf(j)' /\ (Over(j) => Over(j)') /\ ChunksOf(j)'
    <3>1. UNCHANGED <<run, sessions, ending>> /\ (Written(j) => Written(j)' /\ cmd'[j].kind = cmd[j].kind)
      BY <1>1, <2>1 DEF Written
    <3>. QED
      BY <1>2, <1>4, <2>2, <3>1, ExtensionRests
  <2>4. cmd[j].conn # None => cmd[j].conn \in Conns
    BY TypeParts DEF AgentsIInv, CallType
  <2>5. CallOf(j)'
    BY <1>1, <2>1 DEF CallOf
  <2>6. CaptureOf(j)'
    BY <1>1, <2>1 DEF CaptureOf, Lives
  <2>7. WaitOf(j)'
    <3>1. ASSUME cmd[j].pc = "waiting", cmd[j].result = "none" PROVE WaitOf(j)'
      <4>1. PICK c : c = cmd[j].conn
        OBVIOUS
      <4>2. c \in Conns
        BY <2>1, <2>4, <3>1, <4>1 DEF CallOf
      <4>3. /\ j \in pending[c].waiting
            /\ \/ ~link[c].alive
               \/ j \in DownOf(c)
               \/ Answers(j) \cap UpOf(c) # {}
               \/ ChunkOf(j, Total - 1) \in UpOf(c)
               \/ run[j].pc # "none" /\ socket = c
        BY <2>1, <3>1, <4>1 DEF WaitOf
      <4>. QED
        <5>1. j \in pending'[c].waiting /\ (j \in DownOf(c)' <=> j \in DownOf(c))
          BY <1>2, <4>2, <4>3
        <5>2. UpOf(c)' = UpOf(c) /\ link'[c].alive = link[c].alive /\ socket' = socket /\ run' = run
          BY <1>1, <1>4, <4>2
        <5>3. \/ ~link'[c].alive
              \/ j \in DownOf(c)'
              \/ Answers(j) \cap UpOf(c)' # {}
              \/ ChunkOf(j, Total - 1) \in UpOf(c)'
              \/ run'[j].pc # "none" /\ socket' = c
          BY <4>3, <5>1, <5>2
        <5>. QED
          BY <2>1, <4>1, <5>1, <5>3 DEF WaitOf, UpOf, DownOf
    <3>. QED
      BY <2>1, <3>1 DEF WaitOf
  <2>8. ResultOf(j)'
    BY <1>1, <2>1, <2>3 DEF ResultOf
  <2>9. StopOf(j)'
    <3>1. ASSUME (cmd[j].kind = "stop" /\ Lives(cmd[j].of))' PROVE StopOf(j)'
      <4>1. cmd[j].kind = "stop" /\ Lives(cmd[j].of) /\ cmd[j].of \in Commands
        <5>1. cmd[j].kind = "stop" /\ cmd[j].of \in Commands /\ cmd[cmd[j].of].kind = "start"
          BY <2>1, <3>1 DEF CallOf
        <5>2. PICK s : s = cmd[j].of
          OBVIOUS
        <5>3. cmd'[s].addressed /\ captures'[s] # "none" /\ s \in Commands /\ cmd[s].kind = "start"
          BY <2>1, <3>1, <5>1, <5>2 DEF Lives
        <5>4. cmd[s].addressed /\ captures[s] # "none"
          <6>1. CASE s = k
            BY <1>1, <5>3, <6>1
          <6>2. CASE s # k
            BY <1>1, <5>3, <6>2
          <6>. QED
            BY <6>1, <6>2
        <5>5. Lives(cmd[j].of)
          BY <5>2, <5>4 DEF Lives
        <5>. QED
          BY <5>1, <5>5
      <4>. QED
        BY <1>1, <2>1, <2>2, <4>1 DEF StopOf
    <3>. QED
      BY <3>1 DEF StopOf
  <2>10. ASSUME NEW s, Excuse(j, s) PROVE Excuse(j, s)'
    <3>1. PICK c : c = cmd[j].conn
      OBVIOUS
    <3>2. cmd[j].pc = "waiting" => c \in Conns
      BY <2>1, <2>4, <3>1 DEF CallOf
    <3>. QED
      BY <1>1, <2>1, <2>2, <2>10, <3>1, <3>2 DEF Excuse, UpOf
  <2>. QED
    BY <2>1, <2>3, <2>5, <2>6, <2>7, <2>8, <2>9, <2>10
<1>. QED
  BY <1>3, <1>5

LEMMA CallsReal ==
  ASSUME AgentsIInv, NEW k \in Commands, Calls(k), NEW s \in Commands \ {k},
         Lives(s)' /\ Excuse(k, s) => Excuse(k, s)'
  PROVE  RealOf(s)'
<1>1. /\ UNCHANGED <<socket, run, sessions, ending>>
      /\ cmd'[s] = cmd[s] /\ captures'[s] \in {"none", captures[s]}
      /\ \A c \in Conns : link'[c].alive = link[c].alive /\ link'[c].up = link[c].up
  BY DEF Calls, extension
<1>2. RealOf(s) /\ CallOf(s)
  BY DEF AgentsIInv, CommandInv
<1>3. ASSUME (cmd[s].kind = "start" /\ Lives(s) /\ Started(s))' PROVE RealOf(s)'
  <2>1. PICK c : c = cmd[s].conn
    OBVIOUS
  <2>2. cmd[s].conn # None => c \in Conns /\ link'[c].alive = link[c].alive /\ link'[c].up = link[c].up
    BY <1>1, <2>1, TypeParts DEF AgentsIInv, CallType
  <2>3. Lives(s)
    BY <1>1, <1>3 DEF Lives
  <2>4. Started(s)
    BY <1>1, <1>3, <2>1, <2>2 DEF Started, UpOf
  <2>5. c \in Conns
    BY <1>2, <2>1, <2>2, <2>4 DEF Started, CallOf
  <2>6. \/ s \in sessions \/ EndOf(s) \in UpOf(c)
        \/ ~link[c].alive
        \/ \E j \in Commands : Excuse(j, s)
    BY <1>1, <1>2, <1>3, <2>1, <2>3, <2>4 DEF RealOf, UpOf
  <2>7. \A j \in Commands : Excuse(j, s) => Excuse(j, s)'
    <3>1. \A j \in Commands \ {k} : Excuse(j, s) => Excuse(j, s)'
      BY CallsOthers
    <3>. QED
      BY <1>3, <3>1
  <2>8. \/ s \in sessions' \/ EndOf(s) \in Ran(link'[c].up)
        \/ ~link'[c].alive
        \/ \E j \in Commands : Excuse(j, s)'
    BY <1>1, <2>5, <2>6, <2>7 DEF UpOf
  <2>. QED
    BY <1>1, <2>1, <2>8 DEF RealOf, UpOf
<1>. QED
  BY <1>3 DEF RealOf


\* A connection with its link, when its host side rests.
LEMMA LinkRests ==
  ASSUME AgentsIInv, UNCHANGED <<host, socket>>,
         \A c \in Conns : /\ link'[c].alive = link[c].alive /\ link'[c].shut = link[c].shut
                          /\ link'[c].down # <<>> => link[c].down # <<>> \/ link[c].alive
  PROVE  \A c \in Conns : LinkOf(c)'
BY DEF LinkOf, AgentsIInv, TableInv

\* A caller begins: the command has an agent, or is a start that has none yet.
LEMMA NewCall ==
  ASSUME AgentsIInv, NEW k \in Commands, cmd[k].pc = "idle",
         NEW r \in CallType, cmd' = [cmd EXCEPT ![k] = r], r.result = "none",
         UNCHANGED <<link, host, agents, pending, extension>>,
         \/ /\ r.pc = "selecting" /\ r.kind = "start" /\ r.conn = None
            /\ captures' = [captures EXCEPT ![k] = "starting"]
         \/ /\ r.pc = "writing" /\ r.kind \in {"action", "stop"} /\ r.conn = agents /\ agents # None
            /\ r.kind = "stop" => r.of \in Commands /\ cmd[r.of].kind = "start"
            /\ UNCHANGED captures
  PROVE  AgentsIInv'
<1>1. /\ cmd \in [Commands -> CallType] /\ agents \in Conns \cup {None}
      /\ captures \in [Commands -> {"none", "starting", "running"}]
  BY TypeParts DEF AgentsIInv
<1>2. /\ cmd' \in [Commands -> CallType] /\ cmd'[k] = r
      /\ \A j \in Commands \ {k} : cmd'[j] = cmd[j]
  BY <1>1
<1>3. /\ captures' \in [Commands -> {"none", "starting", "running"}]
      /\ \A j \in Commands \ {k} : captures'[j] = captures[j]
      /\ captures'[k] = IF r.kind = "start" THEN "starting" ELSE captures[k]
  BY <1>1
<1>4. CallOf(k) /\ TokenOf(k)
  BY DEF AgentsIInv, CommandInv
<1>5. /\ cmd[k].kind = "none" /\ cmd[k].conn = None /\ captures[k] = "none" /\ ~Written(k)
  BY <1>4 DEF CallOf, Written
<1>6. Calls(k)
  BY <1>2, <1>3, <1>5 DEF Calls, DownOf
<1>7. /\ \A c \in Conns : HostOf(c)'
      /\ \A j \in Commands \ {k} :
           /\ CallOf(j)' /\ TokenOf(j)' /\ KindOf(j)' /\ ChunksOf(j)' /\ WaitOf(j)'
           /\ ResultOf(j)' /\ CaptureOf(j)' /\ StopOf(j)'
  BY <1>6, CallsOthers
<1>8. /\ TokenOf(k)' /\ KindOf(k)' /\ ChunksOf(k)'
  <2>1. Flow(<<"hello">>)
    BY NoNews
  <2>2. DownShrinks(k)
    BY DEF DownShrinks, DownOf
  <2>. QED
    BY <1>5, <2>1, <2>2, ExtensionRests DEF extension
<1>9. agents # None => /\ host[agents].pc # "none" /\ host[agents].close = "open"
  BY <1>1 DEF AgentsIInv, TableInv, HostOf
<1>10. CallOf(k)'
  <2>1. CASE r.kind = "start"
    BY <1>2, <1>3, <2>1 DEF CallOf
  <2>2. CASE r.kind # "start"
    <3>1. r.kind = "stop" => r.of # k
      BY <1>5
    <3>. QED
      BY <1>2, <1>3, <1>5, <1>9, <2>2, <3>1 DEF CallOf
  <2>. QED
    BY <2>1, <2>2
<1>11. WaitOf(k)' /\ ResultOf(k)'
  BY <1>2 DEF WaitOf, ResultOf
<1>12. CaptureOf(k)'
  BY <1>2, <1>3, <1>5 DEF CaptureOf, Lives
<1>13. StopOf(k)'
  BY <1>2, <1>9 DEF StopOf, Attached
<1>14. RealOf(k)'
  BY <1>2, <1>3 DEF RealOf, Started
<1>15. \A c \in Conns : LinkOf(c)'
  BY LinkRests DEF extension
<1>16. \A c \in Conns : WaitingOf(c)'
  <2>1. ASSUME NEW c \in Conns PROVE WaitingOf(c)'
    <3>1. WaitingOf(c) /\ k \notin pending[c].waiting
      BY DEF AgentsIInv, TableInv, WaitingOf
    <3>. QED
      BY <1>2, <3>1 DEF WaitingOf
  <2>. QED
    BY <2>1
<1>17. \A s \in Commands \ {k} : RealOf(s)'
  <2>1. \A s : ~Excuse(k, s)
    BY <1>5 DEF Excuse
  <2>. QED
    BY <1>6, <2>1, CallsReal
<1>18. CommandInv'
  BY <1>7, <1>8, <1>10, <1>11, <1>12, <1>13, <1>14, <1>17 DEF CommandInv
<1>19. TableInv'
  BY <1>7, <1>15, <1>16 DEF TableInv
<1>20. LinkTyped /\ ManagerTyped /\ ExtensionTyped
  BY <1>2, <1>3, TypedParts, TypeParts DEF AgentsIInv, ManagerTyped
<1>. QED
  BY <1>18, <1>19, <1>20, TypedParts DEF AgentsIInv

LEMMA StepExecuteAction ==
  ASSUME AgentsIInv, NEW k \in Commands, ExecuteAction(k)
  PROVE  AgentsIInv'
<1>1. PICK r : r = [NewCommand("action") EXCEPT !.pc = "writing", !.conn = agents]
  OBVIOUS
<1>2. r = [pc |-> "writing", kind |-> "action", of |-> None, conn |-> agents,
           addressed |-> TRUE, result |-> "none"]
  BY <1>1 DEF NewCommand, NoCommand
<1>3. r \in CallType
  BY <1>2, TypeParts DEF AgentsIInv, CallType
<1>4. /\ cmd[k].pc = "idle" /\ agents # None /\ cmd' = [cmd EXCEPT ![k] = r]
      /\ UNCHANGED <<link, host, agents, pending, captures, extension>>
  BY <1>1 DEF ExecuteAction
<1>. QED
  BY <1>2, <1>3, <1>4, NewCall

LEMMA StepStopNetworkCapture ==
  ASSUME AgentsIInv, NEW k \in Commands, NEW s \in Commands, StopNetworkCapture(k, s)
  PROVE  AgentsIInv'
<1>1. PICK r : r = [NewCommand("stop") EXCEPT !.pc = "writing", !.conn = agents, !.of = s]
  OBVIOUS
<1>2. r = [pc |-> "writing", kind |-> "stop", of |-> s, conn |-> agents,
           addressed |-> TRUE, result |-> "none"]
  BY <1>1 DEF NewCommand, NoCommand
<1>3. r \in CallType
  BY <1>2, TypeParts DEF AgentsIInv, CallType
<1>4. /\ cmd[k].pc = "idle" /\ agents # None /\ captures[s] # "none" /\ cmd' = [cmd EXCEPT ![k] = r]
      /\ UNCHANGED <<link, host, agents, pending, captures, extension>>
  BY <1>1 DEF StopNetworkCapture
<1>5. cmd[s].kind = "start"
  BY <1>4 DEF AgentsIInv, CommandInv, CallOf
<1>. QED
  BY <1>2, <1>3, <1>4, <1>5, NewCall

LEMMA StepStartNetworkCapture ==
  ASSUME AgentsIInv, NEW k \in Commands, NEW b \in BOOLEAN, StartNetworkCapture(k, b)
  PROVE  AgentsIInv'
<1>1. PICK r : r = [NewCommand("start") EXCEPT !.addressed = b]
  OBVIOUS
<1>2. r = [pc |-> "selecting", kind |-> "start", of |-> None, conn |-> None,
           addressed |-> b, result |-> "none"]
  BY <1>1 DEF NewCommand, NoCommand
<1>3. r \in CallType
  BY <1>2 DEF CallType
<1>4. /\ cmd[k].pc = "idle" /\ cmd' = [cmd EXCEPT ![k] = r]
      /\ captures' = [captures EXCEPT ![k] = "starting"]
      /\ UNCHANGED <<link, host, agents, pending, extension>>
  BY <1>1 DEF StartNetworkCapture
<1>. QED
  BY <1>2, <1>3, <1>4, NewCall



\* What Finish writes.
LEMMA FinishIs ==
  ASSUME AgentsIInv, NEW k \in Commands, NEW result \in {"ok", "error", "cancelled"},
         Finish(k, result), cmd[k].pc \in {"selecting", "writing", "waiting"}
  PROVE  /\ cmd' \in [Commands -> CallType] /\ pending' \in [Conns -> PendingType]
         /\ captures' \in [Commands -> {"none", "starting", "running"}]
         /\ cmd'[k].pc = "done" /\ cmd'[k].kind = cmd[k].kind /\ cmd'[k].of = cmd[k].of
         /\ cmd'[k].addressed = cmd[k].addressed
         /\ cmd'[k].result = IF result = "cancelled" THEN "cancelled" ELSE "none"
         /\ cmd'[k].conn = IF cmd[k].kind = "start" /\ result = "ok" THEN cmd[k].conn ELSE None
         /\ \A c \in Conns : /\ pending'[c].waiting = pending[c].waiting \ {k}
                             /\ pending'[c].next[k] = 0
                             /\ \A j \in Commands \ {k} : pending'[c].next[j] = pending[c].next[j]
         /\ \A j \in Commands \ {k} : cmd'[j] = cmd[j] /\ captures'[j] \in {"none", captures[j]}
         /\ captures'[k] # "none" => captures[k] # "none"
         /\ captures'[k] = "running" => cmd[k].kind = "start" /\ result = "ok"
         /\ cmd[k].kind = "stop" /\ result = "ok" => captures'[cmd[k].of] = "none"
<1>1. /\ cmd \in [Commands -> CallType] /\ cmd[k] \in CallType
      /\ captures \in [Commands -> {"none", "starting", "running"}]
  BY TypeParts DEF AgentsIInv
<1>2. CallOf(k) /\ \A c \in Conns : WaitingOf(c)
  BY DEF AgentsIInv, CommandInv, TableInv
<1>3. PICK r : r = Finished(k, result)
  OBVIOUS
<1>4. /\ r \in CallType /\ r.pc = "done" /\ r.kind = cmd[k].kind /\ r.of = cmd[k].of
      /\ r.addressed = cmd[k].addressed
      /\ r.result = IF result = "cancelled" THEN "cancelled" ELSE "none"
      /\ r.conn = IF cmd[k].kind = "start" /\ result = "ok" THEN cmd[k].conn ELSE None
  BY <1>1, <1>3 DEF Finished, CallType
<1>5. cmd' = [cmd EXCEPT ![k] = r]
  BY <1>3 DEF Finish
<1>6. /\ cmd' \in [Commands -> CallType] /\ cmd'[k] = r
      /\ \A j \in Commands \ {k} : cmd'[j] = cmd[j]
  BY <1>1, <1>4, <1>5
<1>7. /\ pending' \in [Conns -> PendingType]
      /\ \A c \in Conns : /\ pending'[c].waiting = pending[c].waiting \ {k}
                          /\ pending'[c].next[k] = 0
                          /\ \A j \in Commands \ {k} : pending'[c].next[j] = pending[c].next[j]
  <2>1. \A c \in Conns : cmd[k].conn # c => k \notin pending[c].waiting /\ pending[c].next[k] = 0
    BY <1>2 DEF WaitingOf
  <2>2. CASE cmd[k].conn = None
    <3>1. pending' = pending
      BY <2>2 DEF Finish
    <3>2. \A c \in Conns : cmd[k].conn # c
      BY <2>2, Bounds
    <3>. QED
      BY <2>1, <3>1, <3>2, TypeParts DEF AgentsIInv
  <2>3. CASE cmd[k].conn # None
    <3>1. PICK d \in Conns : d = cmd[k].conn
      BY <1>1, <2>3 DEF CallType
    <3>2. pending' = Forget(d, k)
      BY <2>3, <3>1 DEF Finish
    <3>3. /\ pending' \in [Conns -> PendingType]
          /\ pending'[d].waiting = pending[d].waiting \ {k} /\ pending'[d].next[k] = 0
          /\ \A j \in Commands \ {k} : pending'[d].next[j] = pending[d].next[j]
          /\ \A c \in Conns \ {d} : pending'[c] = pending[c]
      BY <3>2, ForgetIs
    <3>. QED
      BY <2>1, <3>1, <3>3
  <2>. QED
    BY <2>2, <2>3
<1>8. cmd[k].kind = "stop" => cmd[k].of \in Commands /\ cmd[k].of # k
  BY <1>2 DEF CallOf
<1>9. /\ captures' \in [Commands -> {"none", "starting", "running"}]
      /\ \A j \in Commands \ {k} : captures'[j] \in {"none", captures[j]}
      /\ captures'[k] # "none" => captures[k] # "none"
      /\ captures'[k] = "running" => cmd[k].kind = "start" /\ result = "ok"
      /\ cmd[k].kind = "stop" /\ result = "ok" => captures'[cmd[k].of] = "none"
  <2>1. CASE cmd[k].kind = "start" /\ result # "ok"
    <3>1. captures' = [captures EXCEPT ![k] = "none"]
      BY <2>1 DEF Finish
    <3>. QED
      BY <1>1, <2>1, <3>1
  <2>2. CASE cmd[k].kind = "start" /\ result = "ok"
    <3>1. CASE captures[k] # "none"
      <4>1. captures' = [captures EXCEPT ![k] = "running"]
        BY <2>2, <3>1 DEF Finish
      <4>. QED
        BY <1>1, <2>2, <3>1, <4>1
    <3>2. CASE captures[k] = "none"
      <4>1. captures' = captures
        BY <2>2, <3>2 DEF Finish
      <4>. QED
        BY <1>1, <2>2, <3>2, <4>1
    <3>. QED
      BY <3>1, <3>2
  <2>3. CASE cmd[k].kind = "stop" /\ result = "ok"
    <3>1. captures' = [captures EXCEPT ![cmd[k].of] = "none"]
      BY <2>3 DEF Finish
    <3>2. captures[k] = "none"
      BY <1>2, <2>3 DEF CallOf
    <3>. QED
      BY <1>1, <1>8, <2>3, <3>1, <3>2
  <2>4. CASE cmd[k].kind # "start" /\ ~(cmd[k].kind = "stop" /\ result = "ok")
    <3>1. captures' = captures
      BY <2>4 DEF Finish
    <3>2. captures[k] = "none"
      BY <1>2, <2>4 DEF CallOf
    <3>. QED
      BY <1>1, <2>4, <3>1, <3>2
  <2>. QED
    BY <2>1, <2>2, <2>3, <2>4
<1>. QED
  BY <1>4, <1>6, <1>7, <1>9

\* A caller is done: it could not write, was answered, or gave up.
LEMMA StepFinish ==
  ASSUME AgentsIInv, NEW k \in Commands, NEW result \in {"ok", "error", "cancelled"},
         Finish(k, result), UNCHANGED <<link, host, agents, extension>>,
         \/ cmd[k].pc \in {"selecting", "writing"} /\ result = "error"
         \/ cmd[k].pc = "waiting" /\ result \in {"cancelled", cmd[k].result}
  PROVE  AgentsIInv'
<1>1. /\ cmd' \in [Commands -> CallType] /\ pending' \in [Conns -> PendingType]
      /\ captures' \in [Commands -> {"none", "starting", "running"}]
      /\ cmd'[k].pc = "done" /\ cmd'[k].kind = cmd[k].kind /\ cmd'[k].of = cmd[k].of
      /\ cmd'[k].addressed = cmd[k].addressed
      /\ cmd'[k].result = IF result = "cancelled" THEN "cancelled" ELSE "none"
      /\ cmd'[k].conn = IF cmd[k].kind = "start" /\ result = "ok" THEN cmd[k].conn ELSE None
  BY FinishIs
<1>2. \A c \in Conns : /\ pending'[c].waiting = pending[c].waiting \ {k}
                       /\ pending'[c].next[k] = 0
                       /\ \A j \in Commands \ {k} : pending'[c].next[j] = pending[c].next[j]
  BY FinishIs
<1>3. \A j \in Commands \ {k} : cmd'[j] = cmd[j] /\ captures'[j] \in {"none", captures[j]}
  BY FinishIs
<1>4. /\ captures'[k] # "none" => captures[k] # "none"
      /\ captures'[k] = "running" => cmd[k].kind = "start" /\ result = "ok"
      /\ cmd[k].kind = "stop" /\ result = "ok" => captures'[cmd[k].of] = "none"
  BY FinishIs
<1>5. /\ CallOf(k) /\ TokenOf(k) /\ ResultOf(k) /\ CaptureOf(k) /\ StopOf(k) /\ RealOf(k)
  BY DEF AgentsIInv, CommandInv
<1>6. Calls(k)
  BY <1>1, <1>2, <1>3, <1>4 DEF Calls, DownOf
<1>7. /\ \A c \in Conns : HostOf(c)'
      /\ \A j \in Commands \ {k} :
           /\ CallOf(j)' /\ TokenOf(j)' /\ KindOf(j)' /\ ChunksOf(j)' /\ WaitOf(j)'
           /\ ResultOf(j)' /\ CaptureOf(j)' /\ StopOf(j)'
           /\ \A s : Excuse(j, s) => Excuse(j, s)'
  BY <1>6, CallsOthers
<1>8. /\ TokenOf(k)' /\ KindOf(k)' /\ ChunksOf(k)' /\ (Over(k) => Over(k)')
  <2>1. Flow(<<"hello">>)
    BY NoNews
  <2>2. DownShrinks(k)
    BY DEF DownShrinks, DownOf
  <2>3. /\ Written(k) => Written(k)' /\ cmd'[k].kind = cmd[k].kind
        /\ \A c \in Conns : k \notin pending'[c].waiting
    BY <1>1, <1>2 DEF Written
  <2>. QED
    BY <2>1, <2>2, <2>3, ExtensionRests DEF extension
<1>9. cmd[k].kind = "stop" => cmd[k].of \in Commands \ {k} /\ cmd[cmd[k].of].kind = "start"
  BY <1>5 DEF CallOf
<1>10. cmd[k].pc = "waiting" => cmd[k].conn # None
  BY <1>5 DEF CallOf
<1>11. CallOf(k)'
  <2>1. cmd'[k].conn # None => cmd'[k].conn = cmd[k].conn /\ cmd[k].conn # None
    BY <1>1
  <2>2. cmd'[k].conn # None => host'[cmd'[k].conn].pc # "none"
    BY <1>5, <2>1 DEF CallOf
  <2>3. captures'[k] = "running" => cmd'[k].conn # None
    BY <1>1, <1>4, <1>10
  <2>4. cmd'[k].kind = "stop" => cmd'[k].of \in Commands /\ cmd'[cmd'[k].of].kind = "start"
    BY <1>1, <1>3, <1>9
  <2>5. cmd[k].kind # "none" /\ (captures'[k] # "none" => cmd[k].kind = "start")
    BY <1>4, <1>5 DEF CallOf
  <2>. QED
    BY <1>1, <2>2, <2>3, <2>4, <2>5 DEF CallOf
<1>12. WaitOf(k)' /\ ResultOf(k)'
  BY <1>1 DEF WaitOf, ResultOf
<1>13. CaptureOf(k)'
  <2>1. ASSUME Lives(k)', cmd'[k].conn # None PROVE host'[cmd'[k].conn].close \in Attached
    <3>1. Lives(k) /\ cmd'[k].conn = cmd[k].conn
      BY <1>1, <1>4, <2>1 DEF Lives
    <3>. QED
      BY <1>5, <2>1, <3>1 DEF CaptureOf
  <2>. QED
    BY <2>1 DEF CaptureOf
<1>14. StopOf(k)'
  <2>1. ASSUME cmd[k].kind = "stop", NEW s, s = cmd[k].of, Lives(s)', result # "cancelled"
        PROVE  run[k].pc = "none" /\ ~Queued(k)
    <3>1. s \in Commands \ {k}
      BY <1>9, <2>1
    <3>2. captures'[s] # "none" /\ cmd'[s].addressed
      BY <2>1 DEF Lives
    <3>3. Lives(s) /\ result # "ok"
      BY <1>3, <1>4, <2>1, <3>1, <3>2 DEF Lives
    <3>4. Over(k)
      <4>1. CASE cmd[k].pc = "waiting"
        <5>1. cmd[k].result = "error"
          BY <2>1, <3>3, <4>1
        <5>2. host[cmd[k].conn].close \in Attached
          BY <1>5, <2>1, <3>1, <3>3, <4>1 DEF StopOf
        <5>. QED
          BY <1>5, <2>1, <5>1, <5>2 DEF ResultOf, Attached
      <4>2. CASE cmd[k].pc # "waiting"
        BY <1>5, <4>2 DEF TokenOf, Written
      <4>. QED
        BY <4>1, <4>2
    <3>. QED
      BY <3>4 DEF Over
  <2>2. Queued(k)' => Queued(k)
    BY DEF Queued, DownOf
  <2>3. ASSUME (cmd[k].kind = "stop" /\ Lives(cmd[k].of))' PROVE StopOf(k)'
    <3>1. PICK s : s = cmd[k].of
      OBVIOUS
    <3>2. Lives(s)' /\ cmd[k].kind = "stop"
      BY <1>1, <2>3, <3>1 DEF Lives
    <3>. QED
      BY <1>1, <2>1, <2>2, <3>1, <3>2 DEF StopOf, extension
  <2>. QED
    BY <2>3 DEF StopOf
<1>15. RealOf(k)'
  <2>1. ASSUME (cmd[k].kind = "start" /\ Lives(k) /\ Started(k))' PROVE RealOf(k)'
    <3>1. result = "ok" /\ cmd[k].kind = "start"
      BY <1>1, <1>4, <2>1 DEF Started
    <3>2. Lives(k) /\ cmd[k].pc = "waiting" /\ cmd[k].result = "ok"
      BY <1>1, <1>4, <2>1, <3>1 DEF Lives
    <3>3. PICK c : c = cmd[k].conn /\ c = cmd'[k].conn
      BY <1>1, <3>1
    <3>4. \/ k \in sessions \/ EndOf(k) \in UpOf(c)
          \/ ~link[c].alive
          \/ \E j \in Commands : Excuse(j, k)
      BY <1>5, <3>1, <3>2, <3>3 DEF RealOf, Started
    <3>5. \A j \in Commands : Excuse(j, k) => j # k
      BY <3>1 DEF Excuse
    <3>6. \/ k \in sessions' \/ EndOf(k) \in Ran(link'[c].up)
          \/ ~link'[c].alive
          \/ \E j \in Commands : Excuse(j, k)'
      BY <1>7, <3>4, <3>5 DEF extension, UpOf
    <3>. QED
      BY <3>3, <3>6 DEF RealOf, UpOf
  <2>. QED
    BY <2>1 DEF RealOf
<1>16. ASSUME NEW s \in Commands \ {k} PROVE RealOf(s)'
  <2>1. ASSUME Lives(s)', Excuse(k, s) PROVE Excuse(k, s)'
    <3>1. cmd[k].kind = "stop" /\ cmd[k].of = s
      BY <2>1 DEF Excuse
    <3>2. result # "ok"
      BY <1>4, <2>1, <3>1 DEF Lives
    <3>3. result # "error"
      <4>1. cmd[k].pc # "waiting" => cmd[k].result = "none" \/ cmd[k].pc = "done"
        BY <1>5 DEF CallOf
      <4>. QED
        BY <2>1, <4>1 DEF Excuse
    <3>. QED
      BY <1>1, <3>1, <3>2, <3>3 DEF Excuse
  <2>. QED
    BY <1>6, <2>1, CallsReal
<1>17. \A c \in Conns : LinkOf(c)'
  BY LinkRests DEF extension
<1>18. \A c \in Conns : WaitingOf(c)'
  <2>1. ASSUME NEW c \in Conns PROVE WaitingOf(c)'
    <3>1. WaitingOf(c)
      BY DEF AgentsIInv, TableInv
    <3>. QED
      BY <1>2, <1>3, <3>1 DEF WaitingOf
  <2>. QED
    BY <2>1
<1>19. CommandInv'
  BY <1>7, <1>8, <1>11, <1>12, <1>13, <1>14, <1>15, <1>16 DEF CommandInv
<1>20. TableInv'
  BY <1>7, <1>17, <1>18 DEF TableInv
<1>21. LinkTyped /\ ManagerTyped /\ ExtensionTyped
  BY <1>1, TypedParts, TypeParts DEF AgentsIInv, ManagerTyped
<1>. QED
  BY <1>19, <1>20, <1>21, TypedParts DEF AgentsIInv



\* The start of a capture finds the agent of the moment.
LEMMA StepSelect ==
  ASSUME AgentsIInv, NEW k \in Commands, Select(k)
  PROVE  AgentsIInv'
<1>1. CASE agents = None
  BY <1>1, StepFinish DEF Select
<1>2. CASE agents # None
  <2>1. /\ cmd \in [Commands -> CallType] /\ cmd[k] \in CallType /\ agents \in Conns
    BY <1>2, TypeParts DEF AgentsIInv
  <2>2. PICK r : r = [[cmd[k] EXCEPT !.pc = "writing"] EXCEPT !.conn = agents]
    OBVIOUS
  <2>3. /\ r \in CallType /\ r.pc = "writing" /\ r.conn = agents /\ r.kind = cmd[k].kind
        /\ r.of = cmd[k].of /\ r.addressed = cmd[k].addressed /\ r.result = cmd[k].result
    BY <2>1, <2>2 DEF CallType
  <2>4. /\ cmd[k].pc = "selecting" /\ cmd' = [cmd EXCEPT ![k] = r]
        /\ UNCHANGED <<link, host, agents, pending, captures, extension>>
    BY <1>2, <2>1, <2>2 DEF Select
  <2>5. /\ cmd' \in [Commands -> CallType] /\ cmd'[k] = r
        /\ \A j \in Commands \ {k} : cmd'[j] = cmd[j]
    BY <2>1, <2>3, <2>4
  <2>6. CallOf(k) /\ TokenOf(k)
    BY DEF AgentsIInv, CommandInv
  <2>7. cmd[k].kind = "start" /\ cmd[k].result = "none" /\ captures[k] # "running" /\ ~Written(k)
    BY <2>4, <2>6 DEF CallOf, Written
  <2>8. Calls(k)
    BY <2>3, <2>4, <2>5 DEF Calls, DownOf
  <2>9. /\ \A c \in Conns : HostOf(c)'
        /\ \A j \in Commands \ {k} :
             /\ CallOf(j)' /\ TokenOf(j)' /\ KindOf(j)' /\ ChunksOf(j)' /\ WaitOf(j)'
             /\ ResultOf(j)' /\ CaptureOf(j)' /\ StopOf(j)'
    BY <2>8, CallsOthers
  <2>10. /\ TokenOf(k)' /\ KindOf(k)' /\ ChunksOf(k)'
    <3>1. Flow(<<"hello">>)
      BY <2>4, NoNews
    <3>2. DownShrinks(k)
      BY <2>4 DEF DownShrinks, DownOf
    <3>. QED
      BY <2>4, <2>7, <3>1, <3>2, ExtensionRests DEF extension
  <2>11. host[agents].pc # "none" /\ host[agents].close = "open"
    BY <2>1 DEF AgentsIInv, TableInv, HostOf
  <2>12. CallOf(k)' /\ WaitOf(k)' /\ ResultOf(k)' /\ StopOf(k)'
    <3>1. CallOf(k)'
      BY <1>2, <2>3, <2>4, <2>5, <2>6, <2>7, <2>11 DEF CallOf
    <3>. QED
      BY <2>3, <2>5, <2>7, <3>1 DEF WaitOf, ResultOf, StopOf
  <2>13. CaptureOf(k)'
    BY <2>3, <2>4, <2>5, <2>11 DEF CaptureOf, Attached
  <2>14. RealOf(k)'
    <3>1. <<"answer", k>> \notin UpOf(agents)
      BY <2>1, <2>6, <2>7, OwnMessages DEF TokenOf, Over, Silent, Nowhere
    <3>. QED
      BY <2>3, <2>4, <2>5, <2>7, <3>1 DEF RealOf, Started, UpOf
  <2>15. \A c \in Conns : LinkOf(c)'
    BY <2>4, LinkRests DEF extension
  <2>16. \A c \in Conns : WaitingOf(c)'
    <3>1. ASSUME NEW c \in Conns PROVE WaitingOf(c)'
      <4>1. WaitingOf(c) /\ k \notin pending[c].waiting
        BY <2>4 DEF AgentsIInv, TableInv, WaitingOf
      <4>. QED
        BY <2>4, <2>5, <4>1 DEF WaitingOf
    <3>. QED
      BY <3>1
  <2>17. \A s \in Commands \ {k} : RealOf(s)'
    <3>1. \A s : ~Excuse(k, s)
      BY <2>7 DEF Excuse
    <3>. QED
      BY <2>8, <3>1, CallsReal
  <2>18. CommandInv'
    BY <2>9, <2>10, <2>12, <2>13, <2>14, <2>17 DEF CommandInv
  <2>19. TableInv'
    BY <2>9, <2>15, <2>16 DEF TableInv
  <2>20. LinkTyped /\ ManagerTyped /\ ExtensionTyped
    BY <2>4, <2>5, TypedParts, TypeParts DEF AgentsIInv, ManagerTyped
  <2>. QED
    BY <2>18, <2>19, <2>20, TypedParts DEF AgentsIInv
<1>. QED
  BY <1>1, <1>2

LEMMA StepResult ==
  ASSUME AgentsIInv, NEW k \in Commands, Result(k)
  PROVE  AgentsIInv'
<1>1. cmd[k].result \in {"ok", "error", "cancelled"}
  BY TypeParts DEF Result, AgentsIInv, CallType
<1>. QED
  BY <1>1, StepFinish DEF Result

LEMMA StepCancel ==
  ASSUME AgentsIInv, NEW k \in Commands, Cancel(k)
  PROVE  AgentsIInv'
BY StepFinish DEF Cancel

\* One more waits for the connection.
LEMMA WaitIs ==
  ASSUME AgentsIInv, NEW c \in Conns, NEW k \in Commands,
         pending' = [pending EXCEPT ![c].waiting = pending[c].waiting \cup {k}]
  PROVE  /\ pending' \in [Conns -> PendingType]
         /\ pending'[c].waiting = pending[c].waiting \cup {k}
         /\ \A d \in Conns : pending'[d].next = pending[d].next
         /\ \A d \in Conns \ {c} : pending'[d] = pending[d]
<1>1. pending \in [Conns -> PendingType] /\ pending[c] \in PendingType
  BY TypeParts DEF AgentsIInv
<1>2. PICK r : r = [pending[c] EXCEPT !.waiting = pending[c].waiting \cup {k}]
  OBVIOUS
<1>3. /\ r \in PendingType /\ r.waiting = pending[c].waiting \cup {k}
      /\ r.next = pending[c].next
  BY <1>1, <1>2 DEF PendingType
<1>4. pending' = [pending EXCEPT ![c] = r]
  BY <1>1, <1>2
<1>. QED
  BY <1>1, <1>3, <1>4

\* The command is written, into a link that works or one that lost the other end.
LEMMA StepWritten ==
  ASSUME AgentsIInv, NEW k \in Commands, Write(k), ~link[cmd[k].conn].shut
  PROVE  AgentsIInv'
<1>1. /\ cmd \in [Commands -> CallType] /\ cmd[k] \in CallType
      /\ link \in [Conns -> LinkType]
  BY TypeParts DEF AgentsIInv
<1>2. /\ CallOf(k) /\ TokenOf(k) /\ StopOf(k) /\ CaptureOf(k) /\ cmd[k].pc = "writing"
      /\ \A c \in Conns : LinkOf(c) /\ WaitingOf(c)
  BY DEF AgentsIInv, CommandInv, TableInv, Write
<1>3. PICK c \in Conns : c = cmd[k].conn
  BY <1>1, <1>2 DEF CallOf, CallType
<1>4. /\ pending' = [pending EXCEPT ![c].waiting = pending[c].waiting \cup {k}]
      /\ link' = IF link[c].alive THEN [link EXCEPT ![c].down = Append(link[c].down, k)] ELSE link
      /\ cmd' = [cmd EXCEPT ![k].pc = "waiting"]
      /\ UNCHANGED <<captures, host, agents, extension>>
  BY <1>3 DEF Write
<1>5. PICK r : r = [cmd[k] EXCEPT !.pc = "waiting"]
  OBVIOUS
<1>6. /\ r \in CallType /\ r.pc = "waiting" /\ r.conn = c /\ r.kind = cmd[k].kind
      /\ r.of = cmd[k].of /\ r.addressed = cmd[k].addressed /\ r.result = cmd[k].result
  BY <1>1, <1>3, <1>5 DEF CallType
<1>7. /\ cmd' \in [Commands -> CallType] /\ cmd'[k] = r
      /\ \A j \in Commands \ {k} : cmd'[j] = cmd[j]
  BY <1>1, <1>4, <1>5, <1>6
<1>8. /\ pending' \in [Conns -> PendingType]
      /\ pending'[c].waiting = pending[c].waiting \cup {k}
      /\ \A d \in Conns : pending'[d].next = pending[d].next
      /\ \A d \in Conns \ {c} : pending'[d] = pending[d]
  BY <1>4, WaitIs
<1>9. /\ Over(k) /\ NoSession(k) /\ cmd[k].result = "none" /\ captures[k] # "running"
      /\ cmd[k].kind # "none"
  BY <1>2 DEF TokenOf, Written, CallOf
<1>10. /\ LinkTyped
       /\ \A d \in Conns : /\ link'[d].alive = link[d].alive /\ link'[d].shut = link[d].shut
                           /\ link'[d].up = link[d].up
                           /\ DownOf(d)' \subseteq DownOf(d) \cup {k}
                           /\ DownOf(d) \subseteq DownOf(d)'
                           /\ \A j \in Commands : Once(link[d].down, {j}) => Once(link'[d].down, {j})
                           /\ link'[d].down # <<>> => link[d].down # <<>> \/ link[d].alive
       /\ link[c].alive => k \in DownOf(c)'
  <2>1. CASE link[c].alive
    <3>1. PICK q : q = Append(link[c].down, k)
      OBVIOUS
    <3>2. /\ q \in Seq(Commands) /\ Ran(q) = DownOf(c) \cup {k}
          /\ \A M : Once(link[c].down, M) /\ (k \notin M \/ M \cap DownOf(c) = {}) => Once(q, M)
      BY <1>1, <3>1, AppendIs DEF LinkType, DownOf
    <3>3. \A j \in Commands : Once(link[c].down, {j}) => Once(q, {j})
      BY <1>9, <3>2 DEF Over, Queued
    <3>4. /\ LinkTyped /\ link'[c].down = q /\ \A d \in Conns \ {c} : link'[d] = link[d]
          /\ \A d \in Conns : /\ link'[d].alive = link[d].alive /\ link'[d].shut = link[d].shut
                              /\ link'[d].up = link[d].up
      BY <1>4, <2>1, <3>1, <3>2, DownSet DEF AgentsIInv
    <3>5. ASSUME NEW d \in Conns
          PROVE  /\ DownOf(d)' \subseteq DownOf(d) \cup {k} /\ DownOf(d) \subseteq DownOf(d)'
                 /\ \A j \in Commands : Once(link[d].down, {j}) => Once(link'[d].down, {j})
                 /\ link'[d].down # <<>> => link[d].down # <<>> \/ link[d].alive
      <4>1. CASE d = c
        BY <2>1, <3>2, <3>3, <3>4, <4>1 DEF DownOf
      <4>2. CASE d # c
        BY <3>4, <4>2 DEF DownOf
      <4>. QED
        BY <4>1, <4>2
    <3>. QED
      BY <3>2, <3>4, <3>5 DEF DownOf
  <2>2. CASE ~link[c].alive
    <3>1. link' = link
      BY <1>4, <2>2
    <3>. QED
      BY <2>2, <3>1, TypedParts DEF AgentsIInv, DownOf
  <2>. QED
    BY <2>1, <2>2
<1>11. Calls(k)
  <2>1. \A d \in Conns : \A j \in Commands \ {k} :
          /\ j \in DownOf(d)' <=> j \in DownOf(d)
          /\ Once(link[d].down, {j}) => Once(link'[d].down, {j})
    BY <1>10
  <2>2. \A d \in Conns : \A j \in Commands \ {k} :
          /\ j \in pending'[d].waiting <=> j \in pending[d].waiting
          /\ pending'[d].next[j] = pending[d].next[j]
    BY <1>8
  <2>. QED
    BY <1>4, <1>6, <1>7, <1>10, <2>1, <2>2 DEF Calls
<1>12. /\ \A d \in Conns : HostOf(d)'
       /\ \A j \in Commands \ {k} :
            /\ CallOf(j)' /\ TokenOf(j)' /\ KindOf(j)' /\ ChunksOf(j)' /\ WaitOf(j)'
            /\ ResultOf(j)' /\ CaptureOf(j)' /\ StopOf(j)'
  BY <1>11, CallsOthers
<1>13. UNCHANGED <<socket, run, sessions, ending>>
  BY <1>4 DEF extension
<1>14. /\ Nowhere(Answers(k))' /\ Nowhere(Chunks(k))' /\ Nowhere({EndOf(k)})'
       /\ Lone(Answers(k))' /\ \A i \in Numbers : Lone({ChunkOf(k, i)})'
  <2>1. \A d \in Conns : UpOf(d)' = UpOf(d)
    BY <1>10 DEF UpOf
  <2>2. Nowhere(Answers(k)) /\ Nowhere(Chunks(k)) /\ Nowhere({EndOf(k)})
    BY <1>9 DEF Over, Silent, NoSession
  <2>3. Lone(Answers(k)) /\ \A i \in Numbers : Lone({ChunkOf(k, i)})
    BY <1>2 DEF TokenOf
  <2>4. \A M : Lone(M) => Lone(M)'
    BY <1>10, <2>1 DEF Lone
  <2>. QED
    BY <2>1, <2>2, <2>3, <2>4 DEF Nowhere
<1>15. TokenOf(k)' /\ KindOf(k)'
  <2>1. Written(k)' /\ run'[k].pc = "none" /\ NoSession(k)' /\ Silent(k)'
    BY <1>6, <1>7, <1>9, <1>13, <1>14 DEF Written, Over, NoSession, Silent
  <2>2. \A d \in Conns : Once(link'[d].down, {k})
    BY <1>2, <1>10 DEF TokenOf
  <2>. QED
    BY <1>14, <2>1, <2>2 DEF TokenOf, KindOf
<1>16. \A d \in Conns : k \notin pending[d].waiting /\ pending[d].next[k] = 0
  BY <1>2 DEF WaitingOf
<1>17. ChunksOf(k)'
  <2>1. \A d \in Conns, i \in Numbers : ChunkOf(k, i) \notin UpOf(d)'
    BY <1>14, OwnMessages DEF Nowhere
  <2>2. run'[k].pc = "none" /\ \A d \in Conns : pending'[d].next[k] = 0
    BY <1>8, <1>9, <1>13, <1>16 DEF Over
  <2>. QED
    BY <2>1, <2>2 DEF ChunksOf
<1>18. WaitOf(k)'
  <2>1. k \in pending'[c].waiting /\ (~link'[c].alive \/ k \in DownOf(c)')
    BY <1>8, <1>10
  <2>. QED
    BY <1>6, <1>7, <2>1 DEF WaitOf, DownOf
<1>19. /\ CallOf(k)' /\ ResultOf(k)' /\ CaptureOf(k)'
  <2>1. cmd[k].kind = "stop" => cmd'[cmd[k].of].kind = cmd[cmd[k].of].kind
    BY <1>2, <1>6, <1>7 DEF CallOf
  <2>2. CallOf(k)'
    BY <1>2, <1>3, <1>4, <1>6, <1>7, <1>9, <2>1 DEF CallOf
  <2>3. CaptureOf(k)'
    BY <1>2, <1>3, <1>4, <1>6, <1>7 DEF CaptureOf, Lives
  <2>. QED
    BY <1>6, <1>7, <1>9, <2>2, <2>3 DEF ResultOf
<1>20. StopOf(k)'
  <2>1. ASSUME (cmd[k].kind = "stop" /\ Lives(cmd[k].of))' PROVE StopOf(k)'
    <3>1. PICK s : s = cmd[k].of
      OBVIOUS
    <3>2. cmd[k].kind = "stop" /\ s \in Commands \ {k}
      <4>1. cmd[k].kind = "stop" /\ s \in Commands /\ cmd[s].kind = "start"
        BY <1>2, <1>6, <1>7, <2>1, <3>1 DEF CallOf
      <4>. QED
        BY <4>1
    <3>3. Lives(s)
      BY <1>4, <1>6, <1>7, <2>1, <3>1, <3>2 DEF Lives
    <3>. QED
      BY <1>2, <1>3, <1>4, <1>6, <1>7, <3>1, <3>2, <3>3 DEF StopOf
  <2>. QED
    BY <2>1 DEF StopOf
<1>21. RealOf(k)'
  <2>1. <<"answer", k>> \notin UpOf(c)'
    BY <1>14, OwnMessages DEF Nowhere
  <2>. QED
    BY <1>4, <1>6, <1>7, <1>9, <2>1 DEF RealOf, Started, UpOf
<1>22. \A d \in Conns : LinkOf(d)'
  BY <1>4, <1>10, LinkRests DEF extension
<1>23. ASSUME NEW d \in Conns PROVE WaitingOf(d)'
  <2>1. WaitingOf(d) /\ host[c].close # "closed"
    BY <1>2, <1>3 DEF LinkOf
  <2>2. CASE d = c
    <3>1. ASSUME NEW j \in Commands
          PROVE  IF j \in pending'[c].waiting THEN cmd'[j].pc = "waiting" /\ cmd'[j].conn = c
                                             ELSE pending'[c].next[j] = 0
      <4>1. CASE j = k
        BY <1>6, <1>7, <1>8, <4>1
      <4>2. CASE j # k
        BY <1>7, <1>8, <2>1, <2>2, <4>2 DEF WaitingOf
      <4>. QED
        BY <4>1, <4>2
    <3>2. host'[c].close # "closed"
      BY <1>4, <2>1
    <3>. QED
      BY <2>2, <3>1, <3>2 DEF WaitingOf
  <2>3. CASE d # c
    BY <1>4, <1>7, <1>8, <1>16, <2>1, <2>3 DEF WaitingOf
  <2>. QED
    BY <2>2, <2>3
<1>24. \A s \in Commands \ {k} : RealOf(s)'
  <2>1. \A s : ~Excuse(k, s)
    BY <1>2, <1>9 DEF Excuse
  <2>. QED
    BY <1>11, <2>1, CallsReal
<1>25. CommandInv'
  BY <1>12, <1>15, <1>17, <1>18, <1>19, <1>20, <1>21, <1>24 DEF CommandInv
<1>26. TableInv'
  BY <1>12, <1>22, <1>23 DEF TableInv
<1>27. ManagerTyped /\ ExtensionTyped
  BY <1>4, <1>7, <1>8, TypedParts, TypeParts DEF AgentsIInv, ManagerTyped
<1>. QED
  BY <1>10, <1>25, <1>26, <1>27, TypedParts DEF AgentsIInv

LEMMA StepWrite ==
  ASSUME AgentsIInv, NEW k \in Commands, Write(k)
  PROVE  AgentsIInv'
<1>1. CASE link[cmd[k].conn].shut
  BY <1>1, StepFinish DEF Write
<1>2. CASE ~link[cmd[k].conn].shut
  BY <1>2, StepWritten
<1>. QED
  BY <1>1, <1>2



-----------------------------------------------------------------------------
(* The theorems *)

LEMMA Starts == Init => AgentsIInv
<1>. SUFFICES ASSUME Init PROVE AgentsIInv
  OBVIOUS
<1>1. /\ \A c \in Conns : /\ link[c] = NoLink /\ host[c] = NoHost /\ pending[c] = NoPending
      /\ \A k \in Commands : cmd[k] = NoCommand /\ captures[k] = "none" /\ run[k] = Idle
      /\ agents = None /\ socket = None /\ sessions = {} /\ ending = {}
  BY DEF Init
<1>2. NoLink \in LinkType /\ NoHost \in HostType /\ NoPending \in PendingType
      /\ NoCommand \in CallType /\ Idle \in RunType
  BY Bounds, EmptyQueue DEF NoLink, NoHost, NoPending, NoCommand, Idle, LinkType, HostType,
     PendingType, CallType, RunType
<1>3. TypeOK
  <2>1. /\ link \in [Conns -> LinkType] /\ host \in [Conns -> HostType]
        /\ pending \in [Conns -> PendingType] /\ cmd \in [Commands -> CallType]
        /\ captures \in [Commands -> {"none", "starting", "running"}]
        /\ run \in [Commands -> RunType]
    BY <1>2 DEF Init
  <2>. QED
    BY <1>1, <2>1 DEF TypeOK, LinkType, HostType, PendingType, CallType, RunType, Numbers
<1>4. \A c \in Conns : UpOf(c) = {} /\ DownOf(c) = {} /\ link[c].up = <<>> /\ link[c].down = <<>>
  BY <1>1, EmptyQueue DEF UpOf, DownOf, NoLink
<1>5. TableInv
  <2>1. \A c \in Conns : c # None
    BY Bounds
  <2>2. \A c \in Conns : LinkOf(c)
    BY <1>1 DEF LinkOf, NoLink, NoHost
  <2>3. \A c \in Conns : HostOf(c)
    BY <1>1, <2>1 DEF HostOf, NoHost
  <2>4. \A c \in Conns : WaitingOf(c)
    BY <1>1 DEF WaitingOf, NoPending
  <2>. QED
    BY <2>2, <2>3, <2>4 DEF TableInv
<1>6. ASSUME NEW k \in Commands
      PROVE  /\ CallOf(k) /\ TokenOf(k) /\ KindOf(k) /\ ChunksOf(k) /\ WaitOf(k)
             /\ ResultOf(k) /\ CaptureOf(k) /\ StopOf(k) /\ RealOf(k)
  <2>1. \A M : Nowhere(M) /\ Lone(M)
    BY <1>4, EmptyQueue DEF Nowhere, Lone
  <2>2. ~Queued(k) /\ run[k].pc = "none" /\ NoSession(k) /\ Silent(k) /\ Over(k)
    BY <1>1, <1>4, <2>1 DEF Queued, NoSession, Silent, Over, Idle
  <2>3. \A c \in Conns : Once(link[c].down, {k})
    BY <1>4, EmptyQueue
  <2>4. TokenOf(k) /\ KindOf(k)
    BY <2>1, <2>2, <2>3 DEF TokenOf, KindOf
  <2>5. ChunksOf(k)
    BY <1>1, <1>4 DEF ChunksOf, NoPending
  <2>6. /\ CallOf(k) /\ WaitOf(k) /\ ResultOf(k) /\ CaptureOf(k) /\ StopOf(k) /\ RealOf(k)
    BY <1>1 DEF CallOf, WaitOf, ResultOf, CaptureOf, StopOf, RealOf, Lives, NoCommand
  <2>. QED
    BY <2>4, <2>5, <2>6
<1>. QED
  BY <1>3, <1>5, <1>6 DEF AgentsIInv, CommandInv

LEMMA Steps == AgentsIInv /\ [Next]_vars => AgentsIInv'
<1>. SUFFICES ASSUME AgentsIInv, [Next]_vars PROVE AgentsIInv'
  OBVIOUS
<1>1. CASE Extension
  <2>1. CASE CloseEvent \/ Disconnect \/ HandleMessage
    BY <2>1, StepCloseEvent, StepDisconnect, StepHandleMessage
  <2>2. ASSUME NEW c \in Conns, Connect(c) \/ Cut(c) PROVE AgentsIInv'
    BY <2>2, StepConnect, StepCut
  <2>3. ASSUME NEW k \in Commands,
               \/ EndSession(k) \/ TabClosed(k) \/ WorkFails(k) \/ Act(k)
               \/ StartNetworkSession(k) \/ FindSession(k) \/ StopNetworkSession(k)
               \/ SendChunk(k)
        PROVE  AgentsIInv'
    <3>1. CASE EndSession(k) \/ TabClosed(k)
      BY <3>1, StepEndSession, StepTabClosed
    <3>2. CASE WorkFails(k) \/ Act(k) \/ SendChunk(k)
      BY <3>2, StepWorkFails, StepAct, StepSendChunk
    <3>3. CASE StartNetworkSession(k) \/ FindSession(k) \/ StopNetworkSession(k)
      BY <3>3, StepStartNetworkSession, StepFindSession, StepStopNetworkSession
    <3>. QED
      BY <2>3, <3>1, <3>2, <3>3
  <2>. QED
    BY <1>1, <2>1, <2>2, <2>3 DEF Extension
<1>2. ASSUME NEW c \in Conns, Connection(c) PROVE AgentsIInv'
  <2>1. CASE AddAgent(c) \/ ClosePrevious(c) \/ Welcome(c)
    BY <2>1, StepAddAgent, StepClosePrevious, StepWelcome
  <2>2. CASE Disconnected(c) \/ RotatePairingToken(c)
    BY <2>2, StepDisconnected, StepRotatePairingToken
  <2>3. CASE RemoveCaptures(c) \/ CloseSocket(c) \/ Drain(c)
    BY <2>3, StepRemoveCaptures, StepCloseSocket, StepDrain
  <2>4. CASE ReadResponse(c) \/ ReadChunk(c) \/ ReadStopped(c)
    BY <2>4, StepReadResponse, StepReadChunk, StepReadStopped
  <2>. QED
    BY <1>2, <2>1, <2>2, <2>3, <2>4 DEF Connection
<1>3. ASSUME NEW k \in Commands, Command(k) PROVE AgentsIInv'
  <2>1. CASE ExecuteAction(k)
    BY <2>1, StepExecuteAction
  <2>2. ASSUME NEW b \in BOOLEAN, StartNetworkCapture(k, b) PROVE AgentsIInv'
    BY <2>2, StepStartNetworkCapture
  <2>3. ASSUME NEW s \in Commands, StopNetworkCapture(k, s) PROVE AgentsIInv'
    BY <2>3, StepStopNetworkCapture
  <2>4. CASE Select(k) \/ Write(k) \/ Result(k) \/ Cancel(k)
    BY <2>4, StepSelect, StepWrite, StepResult, StepCancel
  <2>. QED
    BY <1>3, <2>1, <2>2, <2>3, <2>4 DEF Command
<1>4. CASE UNCHANGED vars
  <2>1. UNCHANGED <<link, host, agents, pending, cmd, captures, socket, run, sessions, ending>>
    BY <1>4 DEF vars
  <2>2. TypeOK'
    BY <2>1 DEF AgentsIInv, TypeOK
  <2>3. TableInv'
    BY <2>1 DEF AgentsIInv, TableInv, LinkOf, HostOf, WaitingOf
  <2>4. ASSUME NEW k \in Commands
        PROVE  /\ CallOf(k)' /\ TokenOf(k)' /\ KindOf(k)' /\ ChunksOf(k)' /\ WaitOf(k)'
               /\ ResultOf(k)' /\ CaptureOf(k)' /\ StopOf(k)' /\ RealOf(k)'
    <3>1. /\ CallOf(k) /\ TokenOf(k) /\ KindOf(k) /\ ChunksOf(k) /\ WaitOf(k)
          /\ ResultOf(k) /\ CaptureOf(k) /\ StopOf(k) /\ RealOf(k)
      BY DEF AgentsIInv, CommandInv
    <3>2. CallOf(k)'
      BY <2>1, <3>1 DEF CallOf
    <3>3. TokenOf(k)'
      BY <2>1, <3>1 DEF TokenOf, Written, Queued, Silent, Over, NoSession, Nowhere, Lone, UpOf,
         DownOf
    <3>4. KindOf(k)'
      BY <2>1, <3>1 DEF KindOf, NoSession, Nowhere, UpOf
    <3>5. ChunksOf(k)'
      BY <2>1, <3>1 DEF ChunksOf, Queued, UpOf, DownOf
    <3>6. WaitOf(k)'
      BY <2>1, <3>1 DEF WaitOf, UpOf, DownOf
    <3>7. ResultOf(k)'
      BY <2>1, <3>1 DEF ResultOf, Over, Queued, Silent, Nowhere, UpOf, DownOf
    <3>8. CaptureOf(k)'
      BY <2>1, <3>1 DEF CaptureOf, Lives
    <3>9. StopOf(k)'
      BY <2>1, <3>1 DEF StopOf, Lives, Queued, DownOf
    <3>10. RealOf(k)'
      BY <2>1, <3>1 DEF RealOf, Lives, Started, Excuse, Queued, UpOf, DownOf
    <3>. QED
      BY <3>2, <3>3, <3>4, <3>5, <3>6, <3>7, <3>8, <3>9, <3>10
  <2>. QED
    BY <2>2, <2>3, <2>4 DEF AgentsIInv, CommandInv
<1>. QED
  BY <1>1, <1>2, <1>3, <1>4 DEF Next

\* A command is in one place at a time, whichever connections came and went:
\* the inductive invariant of the extension, its connections and the manager.
THEOREM AgentsInvariance == Spec => []AgentsIInv
<1>. QED
  BY Starts, Steps, PTL DEF Spec

\* The messages about a command are the ones that name it.
LEMMA ComingIs ==
  ASSUME TypeOK, NEW c \in Conns, NEW k \in Commands
  PROVE  /\ Coming(c, k) <=> Messages(k) \cap UpOf(c) # {}
         /\ Ordered(c, k) <=> k \in DownOf(c)
<1>1. link[c].up \in Seq(Up)
  BY TypeParts DEF LinkType
<1>2. ASSUME NEW m \in Up, Len(m) > 1, m[2] = k PROVE m \in Messages(k)
  <2>1. CASE m = <<"hello">>
    BY <1>2, <2>1
  <2>2. CASE m \in {"answer", "refusal", "stopped"} \X Commands
    BY <1>2, <2>2 DEF Messages, Answers, EndOf
  <2>3. CASE m \in {"chunk"} \X Commands \X (0..Total - 1)
    <3>1. PICK i \in Numbers : m = <<"chunk", k, i>>
      BY <1>2, <2>3 DEF Numbers
    <3>. QED
      BY <3>1 DEF Messages, Chunks, ChunkOf
  <2>. QED
    BY <2>1, <2>2, <2>3 DEF Up
<1>3. ASSUME NEW m \in Messages(k) PROVE Len(m) > 1 /\ m[2] = k
  BY DEF Messages, Answers, Chunks, ChunkOf, EndOf
<1>4. ASSUME Coming(c, k) PROVE Messages(k) \cap UpOf(c) # {}
  <2>1. PICK i \in DOMAIN link[c].up : Len(link[c].up[i]) > 1 /\ link[c].up[i][2] = k
    BY <1>4 DEF Coming
  <2>2. link[c].up[i] \in Up /\ link[c].up[i] \in UpOf(c)
    BY <1>1 DEF UpOf, Ran
  <2>. QED
    BY <1>2, <2>1, <2>2
<1>5. ASSUME Messages(k) \cap UpOf(c) # {} PROVE Coming(c, k)
  <2>1. PICK i \in DOMAIN link[c].up : link[c].up[i] \in Messages(k)
    BY <1>5 DEF UpOf, Ran
  <2>. QED
    BY <1>3, <2>1 DEF Coming
<1>6. Ordered(c, k) <=> k \in DownOf(c)
  BY DEF Ordered, DownOf, Ran
<1>. QED
  BY <1>4, <1>5, <1>6

\* A caller that waits has its result, or its answer or the close of its
\* connection is still to come (sendCommand, manager.go).
THEOREM NobodyWaits == Spec => []NobodyWaitsInVain
<1>1. ASSUME AgentsIInv PROVE NobodyWaitsInVain
  <2>. SUFFICES ASSUME NEW k \in Commands, cmd[k].pc = "waiting", cmd[k].result = "none",
                       NEW c, c = cmd[k].conn
                PROVE  /\ k \in pending[c].waiting /\ host[c].close # "closed"
                       /\ \/ ~link[c].alive
                          \/ Ordered(c, k) \/ Coming(c, k)
                          \/ run[k].pc # "none" /\ socket = c
    BY DEF NobodyWaitsInVain
  <2>1. CallOf(k) /\ WaitOf(k)
    BY <1>1 DEF AgentsIInv, CommandInv
  <2>2. c \in Conns
    BY <1>1, <2>1, TypeParts DEF CallOf, AgentsIInv, CallType
  <2>3. /\ k \in pending[c].waiting
        /\ \/ ~link[c].alive
           \/ k \in DownOf(c)
           \/ Answers(k) \cap UpOf(c) # {}
           \/ ChunkOf(k, Total - 1) \in UpOf(c)
           \/ run[k].pc # "none" /\ socket = c
    BY <2>1 DEF WaitOf
  <2>4. WaitingOf(c)
    BY <1>1, <2>2 DEF AgentsIInv, TableInv
  <2>5. Answers(k) \subseteq Messages(k) /\ ChunkOf(k, Total - 1) \in Messages(k)
    BY OwnMessages, Bounds
  <2>. QED
    BY <1>1, <2>2, <2>3, <2>4, <2>5, ComingIs DEF WaitingOf, AgentsIInv
<1>. QED
  BY <1>1, AgentsInvariance, PTL

\* An answer is given when the extension is done with the command and nothing
\* of it is under way (handleResponseChunk, manager.go).
THEOREM AnswersAreWhole == Spec => []AnswerIsWhole
<1>1. ASSUME AgentsIInv PROVE AnswerIsWhole
  <2>. SUFFICES ASSUME NEW k \in Commands, cmd[k].kind = "action", cmd[k].result = "ok"
                PROVE  run[k].pc = "none" /\ \A c \in Conns : ~Coming(c, k)
    BY DEF AnswerIsWhole
  <2>1. Over(k) /\ NoSession(k)
    BY <1>1 DEF AgentsIInv, CommandInv, ResultOf, KindOf
  <2>2. \A c \in Conns : Messages(k) \cap UpOf(c) = {}
    BY <2>1 DEF Over, Silent, NoSession, Nowhere, Messages
  <2>. QED
    BY <1>1, <2>1, <2>2, ComingIs DEF Over, AgentsIInv
<1>. QED
  BY <1>1, AgentsInvariance, PTL

\* The tables of agents and of captures agree with the connections and with
\* what the extension runs (Handle, removeConnection and execute, manager.go).
THEOREM AgentsHold == Spec => []AgentsInv
<1>1. ASSUME AgentsIInv PROVE AgentsInv
  <2>1. TypeOK /\ \A c \in Conns : HostOf(c)
    BY <1>1 DEF AgentsIInv, TableInv
  <2>2. CurrentIsOpen /\ WelcomedAlone
    BY <2>1, TypeParts DEF HostOf, CurrentIsOpen, WelcomedAlone
  <2>3. ASSUME NEW s \in Commands, captures[s] = "running", cmd[s].addressed
        PROVE  /\ cmd[s].kind = "start" /\ cmd[s].conn \in Conns /\ Lives(s)
               /\ CaptureOf(s) /\ RealOf(s)
    BY <1>1, <2>1, <2>3, TypeParts DEF AgentsIInv, CommandInv, CallOf, CallType, Lives
  <2>4. CapturesHaveTheirAgent
    BY <2>3, Bounds DEF CaptureOf, CapturesHaveTheirAgent, Attached
  <2>5. RunningIsReal
    <3>. SUFFICES ASSUME NEW s \in Commands, captures[s] = "running", cmd[s].addressed
                  PROVE  \/ s \in sessions \/ Coming(cmd[s].conn, s)
                         \/ ~link[cmd[s].conn].alive
                         \/ \E k \in Commands :
                              cmd[k].kind = "stop" /\ cmd[k].of = s
                              /\ \/ cmd[k].result \in {"ok", "cancelled"}
                                 \/ /\ cmd[k].pc = "waiting"
                                    /\ Coming(cmd[k].conn, k) \/ ~link[cmd[k].conn].alive
      BY DEF RunningIsReal
    <3>1. \/ s \in sessions \/ EndOf(s) \in UpOf(cmd[s].conn)
          \/ ~link[cmd[s].conn].alive
          \/ \E k \in Commands : Excuse(k, s)
      BY <2>3 DEF RealOf, Started
    <3>2. EndOf(s) \in UpOf(cmd[s].conn) => Coming(cmd[s].conn, s)
      BY <2>1, <2>3, OwnMessages, ComingIs
    <3>3. ASSUME NEW k \in Commands, Excuse(k, s)
          PROVE  cmd[k].kind = "stop" /\ cmd[k].of = s
                 /\ \/ cmd[k].result \in {"ok", "cancelled"}
                    \/ /\ cmd[k].pc = "waiting"
                       /\ Coming(cmd[k].conn, k) \/ ~link[cmd[k].conn].alive
      <4>1. cmd[k].pc = "waiting" => cmd[k].conn \in Conns
        BY <1>1, <2>1, TypeParts DEF AgentsIInv, CommandInv, CallOf, CallType
      <4>2. <<"answer", k>> \in Messages(k)
        BY OwnMessages
      <4>3. cmd[k].pc = "waiting" /\ <<"answer", k>> \in UpOf(cmd[k].conn) => Coming(cmd[k].conn, k)
        BY <2>1, <4>1, <4>2, ComingIs
      <4>. QED
        BY <3>3, <4>3 DEF Excuse
    <3>. QED
      BY <3>1, <3>2, <3>3
  <2>. QED
    BY <2>1, <2>2, <2>4, <2>5 DEF AgentsInv
<1>. QED
  BY <1>1, AgentsInvariance, PTL

=============================================================================
