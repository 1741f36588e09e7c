--------------------- MODULE NotificationDeliveryProofs ---------------------
(***************************************************************************)
(* What NotificationDelivery promises holds for any number of executions,  *)
(* deliveries and channels. Where a monitor lists a channel more than      *)
(* once, which nothing in the code forbids, receptions are bounded by what *)
(* is listed; EachOnce is the hypothesis of what holds only without that.  *)
(***************************************************************************)
EXTENDS NotificationDelivery, TLAPS, FiniteSetTheorems

\* Where a batch lists a delivery, as far as it got.
Listed(b, d, n) == {k \in 1..n : k <= Len(Queue[b]) /\ Queue[b][k] = d}

\* No event lists a channel twice.
EachOnce ==
  \A b \in Batches : \A j, k \in 1..Len(Queue[b]) : Queue[b][j] = Queue[b][k] => j = k

Owned(d) == \E b \in Batches : d \in DeliveriesOf(b)

\* How far a sender is.
SenderAt(b) ==
  LET s == sender[b] IN
  /\ s.at >= 1
  /\ s.pc \in {"none", "committed"} => s.at = 1
  /\ s.pc \in {"none", "committed", "creating", "loading"} => s.attempt = 0
  /\ s.pc \in {"creating", "loading", "sending"} => s.at <= Len(Queue[b])
  /\ s.pc = "sending" => s.attempt >= 1
  /\ s.pc = "recording" => s.at = Len(Queue[b]) + 1

SendersAt == \A b \in Batches : SenderAt(b)

\* Attempts at the current delivery that have failed.
Tried(b, d) ==
  IF /\ sender[b].at <= Len(Queue[b]) /\ Queue[b][sender[b].at] = d
     /\ sender[b].attempt > 0
  THEN sender[b].attempt - 1 ELSE 0

\* No more receptions than attempts, counted over every place it is listed at.
Counted ==
  \A b \in Batches : \A d \in DeliveriesOf(b) :
    got[d] <= MaxAttempts * Cardinality(Listed(b, d, sender[b].at - 1)) + Tried(b, d)

\* Nothing happens to what no batch sends.
OthersUntouched ==
  \A d \in Deliveries : ~Owned(d) => rows[d] = NoRow /\ got[d] = 0

\* Only the end of its sender settles a row; before the first step there is none.
SettledIsOver ==
  \A b \in Batches : \A d \in DeliveriesOf(b) :
    rows[d].status \in Settled => sender[b].pc = "over"

SendInv == TypeOK /\ SendersAt /\ Counted /\ OthersUntouched /\ SettledIsOver

\* What a status says of the receptions.
Honest(status, attempts, receptions) ==
  /\ status = "sent" => receptions > 0
  /\ status = "skipped" => receptions = 0
  /\ status \in Settled => receptions <= attempts

\* The results in memory are honest as far as the sender got, and so are rows.
ResultsHonest ==
  \A b \in Batches : \A k \in 1..Len(Queue[b]) :
    k < sender[b].at =>
      LET d == Queue[b][k] IN
      Honest(sender[b].result[d].status, sender[b].result[d].attempts, got[d])

HonestInv == SendInv /\ ResultsHonest /\ StatusIsHonest

-----------------------------------------------------------------------------
(* Lists *)

\* A delivery belongs to one batch.
LEMMA OneOwner ==
  ASSUME NEW a \in Batches, NEW b \in Batches, NEW d \in DeliveriesOf(a),
         d \in DeliveriesOf(b)
  PROVE  a = b
<1>1. PICK j \in 1..Len(Queue[a]) : d = Queue[a][j]
  BY DEF DeliveriesOf
<1>2. PICK k \in 1..Len(Queue[b]) : d = Queue[b][k]
  BY DEF DeliveriesOf
<1>. QED
  BY <1>1, <1>2, QueueAssumption

\* What a batch lists are deliveries.
LEMMA ListedTyped ==
  ASSUME NEW b \in Batches
  PROVE  /\ Len(Queue[b]) \in Nat
         /\ \A k \in 1..Len(Queue[b]) : Queue[b][k] \in Deliveries
         /\ \A k \in 1..Len(Queue[b]) : Queue[b][k] \in DeliveriesOf(b)
         /\ DeliveriesOf(b) \subseteq Deliveries
<1>1. Queue[b] \in Seq(Deliveries)
  BY QueueAssumption
<1>2. Len(Queue[b]) \in Nat /\ \A k \in 1..Len(Queue[b]) : Queue[b][k] \in Deliveries
  BY <1>1
<1>. QED
  BY <1>2 DEF DeliveriesOf

\* The number of places a delivery is listed at grows with those passed.
LEMMA ListedCount ==
  ASSUME NEW b \in Batches, NEW d, NEW n \in Nat
  PROVE  /\ Listed(b, d, 0) = {}
         /\ Cardinality(Listed(b, d, n)) \in Nat
         /\ n + 1 <= Len(Queue[b]) /\ Queue[b][n + 1] = d =>
              Cardinality(Listed(b, d, n + 1)) = Cardinality(Listed(b, d, n)) + 1
         /\ ~(n + 1 <= Len(Queue[b]) /\ Queue[b][n + 1] = d) =>
              Listed(b, d, n + 1) = Listed(b, d, n)
<1>1. Listed(b, d, 0) = {}
  BY DEF Listed
<1>2. IsFiniteSet(Listed(b, d, n))
  <2>1. IsFiniteSet(1..n)
    BY FS_Interval
  <2>2. Listed(b, d, n) \subseteq 1..n
    BY DEF Listed
  <2>. QED
    BY <2>1, <2>2, FS_Subset
<1>3. Cardinality(Listed(b, d, n)) \in Nat
  BY <1>2, FS_CardinalityType
<1>4. ASSUME n + 1 <= Len(Queue[b]), Queue[b][n + 1] = d
      PROVE  Cardinality(Listed(b, d, n + 1)) = Cardinality(Listed(b, d, n)) + 1
  <2>1. Listed(b, d, n + 1) = Listed(b, d, n) \cup {n + 1}
    BY <1>4 DEF Listed
  <2>2. n + 1 \notin Listed(b, d, n)
    BY DEF Listed
  <2>. QED
    BY <1>2, <2>1, <2>2, FS_AddElement
<1>5. ASSUME ~(n + 1 <= Len(Queue[b]) /\ Queue[b][n + 1] = d)
      PROVE  Listed(b, d, n + 1) = Listed(b, d, n)
  BY <1>5, ListedTyped DEF Listed
<1>. QED
  BY <1>1, <1>3, <1>4, <1>5

\* A sender that works is at a place of its list.
LEMMA CurrentIsListed ==
  ASSUME TypeOK, SendersAt, NEW b \in Batches,
         sender[b].pc \in {"creating", "loading", "sending"}
  PROVE  /\ sender[b] \in Sender
         /\ sender[b].at \in 1..Len(Queue[b])
         /\ Current(b) = Queue[b][sender[b].at]
         /\ Current(b) \in DeliveriesOf(b) /\ Current(b) \in Deliveries
<1>1. sender[b] \in Sender
  BY DEF TypeOK
<1>2. sender[b].at \in Nat
  BY <1>1 DEF Sender
<1>3. sender[b].at >= 1 /\ sender[b].at <= Len(Queue[b])
  BY DEF SendersAt, SenderAt
<1>4. sender[b].at \in 1..Len(Queue[b])
  BY <1>2, <1>3, ListedTyped
<1>. QED
  BY <1>1, <1>4, ListedTyped DEF Current

-----------------------------------------------------------------------------
(* Steps of a sender *)

LEMMA OneAttempt == 0 \in 0..MaxAttempts /\ 1 \in 0..MaxAttempts
BY DEF MaxAttempts

\* What the end of a delivery does to the sender.
LEMMA EndDeliveryEffect ==
  ASSUME TypeOK, SendersAt, NEW b \in Batches,
         sender[b].pc \in {"loading", "sending"},
         NEW status \in {"sent", "skipped", "error"}, NEW attempts \in 0..MaxAttempts,
         EndDelivery(b, status, attempts)
  PROVE  /\ sender' \in [Batches -> Sender]
         /\ \A a \in Batches : a # b => sender'[a] = sender[a]
         /\ sender'[b].at = sender[b].at + 1
         /\ sender'[b].attempt = 0
         /\ sender'[b].pc \in {"recording", "creating"}
         /\ sender'[b].result[Current(b)] = [status |-> status, attempts |-> attempts]
         /\ \A d \in Deliveries : d # Current(b) =>
              sender'[b].result[d] = sender[b].result[d]
         /\ SenderAt(b)'
<1>. DEFINE pc == IF sender[b].at = Len(Queue[b]) THEN "recording" ELSE "creating"
            res == [status |-> status, attempts |-> attempts]
            results == [sender[b].result EXCEPT ![Current(b)] = res]
            s == [pc |-> pc, at |-> sender[b].at + 1, attempt |-> 0, result |-> results]
<1>1. sender[b] \in Sender /\ sender[b].at \in 1..Len(Queue[b]) /\ Current(b) \in Deliveries
  BY CurrentIsListed
<1>2. sender[b].result \in [Deliveries -> Result] /\ sender[b].at \in Nat
  BY <1>1 DEF Sender
<1>3. res \in Result
  BY DEF Result, Settled
<1>4. results \in [Deliveries -> Result]
  BY <1>2, <1>3
<1>5. s \in Sender
  BY <1>2, <1>4 DEF Sender, MaxAttempts
<1>6. sender' = [sender EXCEPT ![b] = s]
  BY DEF EndDelivery
<1>7. sender' \in [Batches -> Sender] /\ sender'[b] = s
  BY <1>5, <1>6 DEF TypeOK
<1>8. \A a \in Batches : a # b => sender'[a] = sender[a]
  BY <1>6 DEF TypeOK
<1>9. SenderAt(b)'
  BY <1>1, <1>7, ListedTyped DEF SenderAt
<1>10. /\ results[Current(b)] = res
       /\ \A d \in Deliveries : d # Current(b) => results[d] = sender[b].result[d]
  BY <1>1, <1>2
<1>. QED
  BY <1>7, <1>8, <1>9, <1>10

\* Rows of the types the actions write.
LEMMA RowTypes ==
  /\ NoRow \in Row /\ NoRow.status = "absent"
  /\ \A now \in Nat : /\ PendingRow(now) \in Row
                      /\ PendingRow(now).status = "pending"
<1>1. NoRow \in Row
  BY DEF NoRow, Row, MaxAttempts
<1>2. ASSUME NEW now \in Nat
      PROVE  PendingRow(now) \in Row /\ PendingRow(now).status = "pending"
  BY <1>1 DEF PendingRow, NoRow, Row
<1>. QED
  BY <1>1, <1>2 DEF NoRow

\* The sender of a batch takes a step other than the end of a delivery.
Moves(b, pc, attempt) ==
  /\ sender' \in [Batches -> Sender]
  /\ \A a \in Batches : a # b => sender'[a] = sender[a]
  /\ sender'[b].pc = pc /\ sender'[b].attempt = attempt
  /\ sender'[b].at = sender[b].at /\ sender'[b].result = sender[b].result

\* How the record of the sender changes in these steps.
LEMMA MovesTyped ==
  ASSUME TypeOK, NEW b \in Batches,
         NEW pc \in {"none", "committed", "creating", "loading", "sending",
                     "recording", "over", "lost"}
  PROVE  /\ sender' = [sender EXCEPT ![b].pc = pc] => Moves(b, pc, sender[b].attempt)
         /\ \A attempt \in 0..MaxAttempts :
              /\ sender' = [sender EXCEPT ![b] = [@ EXCEPT !.pc = pc, !.attempt = attempt]]
                   => Moves(b, pc, attempt)
              /\ sender' = [sender EXCEPT ![b].attempt = attempt]
                   => Moves(b, sender[b].pc, attempt)
<1>1. sender \in [Batches -> Sender] /\ sender[b] \in Sender
  BY DEF TypeOK
<1>2. ASSUME NEW s, s = [sender[b] EXCEPT !.pc = pc]
      PROVE  /\ s \in Sender
             /\ s.pc = pc /\ s.attempt = sender[b].attempt
             /\ s.at = sender[b].at /\ s.result = sender[b].result
  BY <1>1, <1>2 DEF Sender
<1>3. ASSUME NEW n \in 0..MaxAttempts, NEW s,
             s = [sender[b] EXCEPT !.pc = pc, !.attempt = n]
      PROVE  /\ s \in Sender
             /\ s.pc = pc /\ s.attempt = n
             /\ s.at = sender[b].at /\ s.result = sender[b].result
  BY <1>1, <1>3 DEF Sender
<1>4. ASSUME NEW n \in 0..MaxAttempts, NEW s, s = [sender[b] EXCEPT !.attempt = n]
      PROVE  /\ s \in Sender
             /\ s.pc = sender[b].pc /\ s.attempt = n
             /\ s.at = sender[b].at /\ s.result = sender[b].result
  BY <1>1, <1>4 DEF Sender
<1>5. ASSUME NEW s, sender' = [sender EXCEPT ![b] = s]
      PROVE  /\ sender'[b] = s
             /\ s \in Sender => sender' \in [Batches -> Sender]
             /\ \A a \in Batches : a # b => sender'[a] = sender[a]
  BY <1>1, <1>5
<1>6. ASSUME sender' = [sender EXCEPT ![b].pc = pc]
      PROVE  Moves(b, pc, sender[b].attempt)
  BY <1>2, <1>5, <1>6 DEF Moves
<1>7. ASSUME NEW n \in 0..MaxAttempts,
             sender' = [sender EXCEPT ![b] = [@ EXCEPT !.pc = pc, !.attempt = n]]
      PROVE  Moves(b, pc, n)
  <2>. DEFINE s == [sender[b] EXCEPT !.pc = pc, !.attempt = n]
  <2>1. sender' = [sender EXCEPT ![b] = s]
    BY <1>7
  <2>2. /\ s \in Sender
        /\ s.pc = pc /\ s.attempt = n
        /\ s.at = sender[b].at /\ s.result = sender[b].result
    BY <1>3
  <2>. HIDE DEF s
  <2>. QED
    BY <1>5, <2>1, <2>2 DEF Moves
<1>8. ASSUME NEW n \in 0..MaxAttempts, sender' = [sender EXCEPT ![b].attempt = n]
      PROVE  Moves(b, sender[b].pc, n)
  <2>. DEFINE s == [sender[b] EXCEPT !.attempt = n]
  <2>1. sender' = [sender EXCEPT ![b] = s]
    BY <1>8
  <2>2. /\ s \in Sender
        /\ s.pc = sender[b].pc /\ s.attempt = n
        /\ s.at = sender[b].at /\ s.result = sender[b].result
    BY <1>4
  <2>. HIDE DEF s
  <2>. QED
    BY <1>5, <2>1, <2>2 DEF Moves
<1>. QED
  BY <1>6, <1>7, <1>8

\* Where the sender stands after such a step.
LEMMA MovesAt ==
  ASSUME TypeOK, SendersAt, NEW b \in Batches,
         NEW pc \in {"committed", "creating", "loading", "sending", "over", "lost"},
         NEW attempt \in 0..MaxAttempts, Moves(b, pc, attempt),
         pc = "committed" => sender[b].at = 1,
         pc \in {"committed", "creating", "loading"} => attempt = 0,
         pc \in {"creating", "loading", "sending"} => sender[b].at <= Len(Queue[b]),
         pc = "sending" => attempt >= 1
  PROVE  SendersAt'
<1>1. ASSUME NEW a \in Batches, a # b
      PROVE  SenderAt(a)'
  BY <1>1 DEF Moves, SendersAt, SenderAt
<1>2. SenderAt(b)'
  BY DEF Moves, SendersAt, SenderAt
<1>. QED
  BY <1>1, <1>2 DEF SendersAt

\* The steps of a sender keep types and places.
LEMMA CommitTyped ==
  ASSUME TypeOK, SendersAt, NEW b \in Batches, Commit(b)
  PROVE  TypeOK' /\ SendersAt'
<1>1. sender[b] \in Sender /\ clock \in Nat
  BY DEF TypeOK
<1>2. Moves(b, "committed", sender[b].attempt) /\ sender[b].attempt \in 0..MaxAttempts
  BY <1>1, MovesTyped DEF Commit, Sender
<1>3. sender[b].at = 1 /\ sender[b].attempt = 0
  BY DEF Commit, SendersAt, SenderAt
<1>4. SendersAt'
  BY <1>2, <1>3, MovesAt
<1>5. rows' \in [Deliveries -> Row]
  BY <1>1, RowTypes DEF Commit, TypeOK
<1>6. clock' \in Nat
  BY <1>1 DEF Commit
<1>. QED
  BY <1>2, <1>4, <1>5, <1>6 DEF TypeOK, Commit, Moves

LEMMA WorkTyped ==
  ASSUME TypeOK, SendersAt, NEW b \in Batches, SenderStep(b)
  PROVE  TypeOK' /\ SendersAt'
<1>1. sender[b] \in Sender /\ sender[b].attempt \in 0..MaxAttempts /\ sender[b].at \in Nat
  BY DEF TypeOK, Sender
<1>2. CASE Begin(b)
  <2>. DEFINE pc == IF Queue[b] = <<>> THEN "over" ELSE "creating"
  <2>1. sender[b].at = 1 /\ sender[b].attempt = 0
    BY <1>2 DEF Begin, SendersAt, SenderAt
  <2>2. pc \in {"over", "creating"} /\ sender' = [sender EXCEPT ![b].pc = pc]
    BY <1>2 DEF Begin
  <2>3. Moves(b, pc, 0)
    BY <2>1, <2>2, MovesTyped
  <2>4. Queue[b] # <<>> => 1 <= Len(Queue[b])
    BY QueueAssumption
  <2>5. SendersAt'
    BY <2>1, <2>2, <2>3, <2>4, MovesAt, OneAttempt DEF MaxAttempts
  <2>. QED
    BY <1>2, <2>3, <2>5 DEF Begin, TypeOK, Moves
<1>3. CASE Create(b)
  <2>1. Current(b) \in Deliveries /\ sender[b].at <= Len(Queue[b]) /\ sender[b].attempt = 0
    BY <1>3, CurrentIsListed DEF Create, SendersAt, SenderAt
  <2>2. Moves(b, "loading", 0)
    BY <1>3, <2>1, MovesTyped DEF Create
  <2>3. SendersAt'
    BY <2>1, <2>2, MovesAt, OneAttempt DEF MaxAttempts
  <2>4. rows' \in [Deliveries -> Row] /\ clock' \in Nat
    <3>1. CASE UNCHANGED <<rows, clock>>
      BY <3>1 DEF TypeOK
    <3>2. CASE rows' = [rows EXCEPT ![Current(b)] = PendingRow(clock)] /\ clock' = clock + 1
      BY <2>1, <3>2, RowTypes DEF TypeOK
    <3>. QED
      BY <1>3, <3>1, <3>2 DEF Create
  <2>. QED
    BY <1>3, <2>2, <2>3, <2>4 DEF Create, TypeOK, Moves
<1>4. CASE LoadFails(b)
  <2>1. sender' \in [Batches -> Sender] /\ SenderAt(b)'
        /\ \A a \in Batches : a # b => sender'[a] = sender[a]
    BY <1>4, EndDeliveryEffect, OneAttempt DEF LoadFails, MaxAttempts
  <2>2. SendersAt'
    BY <2>1 DEF SendersAt, SenderAt
  <2>. QED
    BY <1>4, <2>1, <2>2 DEF LoadFails, TypeOK
<1>5. CASE Load(b)
  <2>1. Current(b) \in Deliveries /\ sender[b].at <= Len(Queue[b])
    BY <1>5, CurrentIsListed DEF Load
  <2>2. rows' \in [Deliveries -> Row]
    <3>1. rows[Current(b)] \in Row
      BY <2>1 DEF TypeOK
    <3>2. ASSUME NEW x \in BOOLEAN PROVE [rows EXCEPT ![Current(b)].inapp = x] \in [Deliveries -> Row]
      BY <2>1, <3>1 DEF TypeOK, Row
    <3>3. (rows[Current(b)].inapp \/ (ChannelOf[Current(b)] = InApp /\ Exists(Current(b)))) \in BOOLEAN
      BY <3>1 DEF Row
    <3>. QED
      BY <1>5, <3>2, <3>3 DEF Load, TypeOK
  <2>3. CASE channels[ChannelOf[Current(b)]] = "off"
    <3>1. EndDelivery(b, "skipped", 0)
      BY <1>5, <2>3 DEF Load
    <3>2. sender' \in [Batches -> Sender] /\ SenderAt(b)'
          /\ \A a \in Batches : a # b => sender'[a] = sender[a]
      BY <1>5, <3>1, EndDeliveryEffect, OneAttempt DEF Load, MaxAttempts
    <3>3. SendersAt'
      BY <3>2 DEF SendersAt, SenderAt
    <3>. QED
      BY <1>5, <2>2, <3>2, <3>3 DEF Load, TypeOK
  <2>4. CASE channels[ChannelOf[Current(b)]] # "off"
    <3>1. Moves(b, "sending", 1)
      BY <1>5, <2>4, MovesTyped, OneAttempt DEF Load, MaxAttempts
    <3>2. SendersAt'
      BY <2>1, <3>1, MovesAt, OneAttempt DEF MaxAttempts
    <3>. QED
      BY <1>5, <2>2, <3>1, <3>2 DEF Load, TypeOK, Moves
  <2>. QED
    BY <2>3, <2>4
<1>6. CASE SendSucceeds(b)
  <2>1. sender' \in [Batches -> Sender] /\ SenderAt(b)'
        /\ \A a \in Batches : a # b => sender'[a] = sender[a]
    BY <1>1, <1>6, EndDeliveryEffect DEF SendSucceeds
  <2>2. SendersAt'
    BY <2>1 DEF SendersAt, SenderAt
  <2>3. got' \in [Deliveries -> Nat]
    <3>1. Current(b) \in Deliveries
      BY <1>6, CurrentIsListed DEF SendSucceeds
    <3>. QED
      BY <1>6, <3>1 DEF SendSucceeds, TypeOK
  <2>. QED
    BY <1>6, <2>1, <2>2, <2>3 DEF SendSucceeds, TypeOK
<1>7. CASE SendFails(b)
  <2>1. got' \in [Deliveries -> Nat]
    <3>1. Current(b) \in Deliveries
      BY <1>7, CurrentIsListed DEF SendFails
    <3>. QED
      BY <1>7, <3>1 DEF SendFails, TypeOK
  <2>2. sender' \in [Batches -> Sender] /\ SendersAt'
    <3>1. CASE sender[b].attempt < MaxAttempts
      <4>1. sender[b].attempt + 1 \in 0..MaxAttempts
        BY <1>1, <3>1 DEF MaxAttempts
      <4>2. sender' = [sender EXCEPT ![b].attempt = sender[b].attempt + 1]
        BY <1>7, <3>1 DEF SendFails
      <4>3. Moves(b, "sending", sender[b].attempt + 1)
        BY <1>7, <4>1, <4>2, MovesTyped DEF SendFails
      <4>4. sender[b].at <= Len(Queue[b])
        BY <1>7, CurrentIsListed DEF SendFails
      <4>. QED
        BY <1>1, <4>1, <4>3, <4>4, MovesAt DEF Moves
    <3>2. CASE ~(sender[b].attempt < MaxAttempts)
      <4>1. EndDelivery(b, "error", sender[b].attempt)
        BY <1>7, <3>2 DEF SendFails
      <4>2. sender' \in [Batches -> Sender] /\ SenderAt(b)'
            /\ \A a \in Batches : a # b => sender'[a] = sender[a]
        BY <1>1, <1>7, <4>1, EndDeliveryEffect DEF SendFails
      <4>. QED
        BY <4>2 DEF SendersAt, SenderAt
    <3>. QED
      BY <3>1, <3>2
  <2>. QED
    BY <1>7, <2>1, <2>2 DEF SendFails, TypeOK
<1>8. CASE Record(b)
  <2>1. Moves(b, "over", sender[b].attempt)
    BY <1>8, MovesTyped DEF Record
  <2>2. SendersAt'
    BY <1>1, <2>1, MovesAt
  <2>3. rows' \in [Deliveries -> Row]
    <3>1. ASSUME NEW d \in Deliveries
          PROVE  rows[d] \in Row /\ sender[b].result[d] \in Result
      BY <1>1 DEF TypeOK, Sender
    <3>2. ASSUME NEW d \in Deliveries
          PROVE  [rows[d] EXCEPT !.status = sender[b].result[d].status,
                                 !.attempts = sender[b].result[d].attempts] \in Row
      BY <3>1 DEF Row, Result
    <3>. QED
      BY <1>8, <3>1, <3>2 DEF Record
  <2>. QED
    BY <1>8, <2>1, <2>2, <2>3 DEF Record, TypeOK, Moves
<1>9. CASE RecordFails(b)
  <2>1. Moves(b, "lost", sender[b].attempt)
    BY <1>9, MovesTyped DEF RecordFails
  <2>2. SendersAt'
    BY <1>1, <2>1, MovesAt
  <2>. QED
    BY <1>9, <2>1, <2>2 DEF RecordFails, TypeOK, Moves
<1>. QED
  BY <1>2, <1>3, <1>4, <1>5, <1>6, <1>7, <1>8, <1>9 DEF SenderStep

-----------------------------------------------------------------------------
(* Steps beside the senders *)

Outside ==
  \/ \E c \in Channels, state \in {"on", "off", "gone"} : UpdateChannel(c, state)
  \/ \E ds \in {{d} : d \in Deliveries} \cup {Deliveries} : MarkRead(ds)
  \/ DeleteRead
  \/ \E before \in 1..clock : Prune(before)
  \/ Crash

\* They receive nothing, settle nothing and move no sender on; a row stays what
\* it says, or goes.
Aside ==
  /\ got' = got
  /\ \A b \in Batches :
       /\ sender'[b].at = sender[b].at /\ sender'[b].attempt = sender[b].attempt
       /\ sender'[b].result = sender[b].result
       /\ \/ sender'[b].pc = sender[b].pc
          \/ sender'[b].pc = "lost" /\ sender[b].pc # "over"
  /\ \A d \in Deliveries :
       /\ \/ rows'[d].status = "absent"
          \/ rows'[d].status = rows[d].status /\ rows'[d].attempts = rows[d].attempts
       /\ rows[d] = NoRow => rows'[d] = NoRow

LEMMA OutsideIsAside ==
  ASSUME TypeOK, SendersAt, Outside
  PROVE  TypeOK' /\ SendersAt' /\ Aside
<1>. USE DEF TypeOK
<1>1. CASE \E c \in Channels, state \in {"on", "off", "gone"} : UpdateChannel(c, state)
  BY <1>1 DEF UpdateChannel, Aside, SendersAt, SenderAt
<1>2. ASSUME NEW ds \in {{d} : d \in Deliveries} \cup {Deliveries}, MarkRead(ds)
      PROVE  TypeOK' /\ SendersAt' /\ Aside
  <2>1. ASSUME NEW d \in Deliveries
        PROVE  /\ rows'[d] \in Row
               /\ rows'[d].status = rows[d].status /\ rows'[d].attempts = rows[d].attempts
               /\ rows[d] = NoRow => rows'[d] = NoRow
    <3>1. rows[d] \in Row
      OBVIOUS
    <3>2. NoRow.inapp = FALSE
      BY DEF NoRow
    <3>3. /\ [rows[d] EXCEPT !.read = TRUE] \in Row
          /\ [rows[d] EXCEPT !.read = TRUE].status = rows[d].status
          /\ [rows[d] EXCEPT !.read = TRUE].attempts = rows[d].attempts
      BY <3>1 DEF Row
    <3>4. rows'[d] = IF d \in ds /\ rows[d].inapp THEN [rows[d] EXCEPT !.read = TRUE]
                     ELSE rows[d]
      BY <1>2 DEF MarkRead
    <3>. QED
      BY <3>1, <3>2, <3>3, <3>4
  <2>2. rows' \in [Deliveries -> Row]
    BY <1>2, <2>1 DEF MarkRead
  <2>. QED
    BY <1>2, <2>1, <2>2 DEF MarkRead, Aside, SendersAt, SenderAt
<1>3. ASSUME rows' \in [Deliveries -> Row],
             \A d \in Deliveries : rows'[d] = rows[d] \/ rows'[d] = NoRow,
             UNCHANGED <<channels, sender, got, clock>>
      PROVE  TypeOK' /\ SendersAt' /\ Aside
  <2>1. NoRow.status = "absent"
    BY RowTypes
  <2>. QED
    BY <1>3, <2>1 DEF Aside, SendersAt, SenderAt
<1>4. CASE DeleteRead
  <2>1. rows' \in [Deliveries -> Row] /\ \A d \in Deliveries : rows'[d] = rows[d] \/ rows'[d] = NoRow
    BY <1>4, RowTypes DEF DeleteRead
  <2>. QED
    BY <1>3, <1>4, <2>1 DEF DeleteRead
<1>5. ASSUME NEW before \in 1..clock, Prune(before)
      PROVE  TypeOK' /\ SendersAt' /\ Aside
  <2>1. rows' \in [Deliveries -> Row] /\ \A d \in Deliveries : rows'[d] = rows[d] \/ rows'[d] = NoRow
    BY <1>5, RowTypes DEF Prune
  <2>. QED
    BY <1>3, <1>5, <2>1 DEF Prune
<1>6. CASE Crash
  <2>1. ASSUME NEW b \in Batches
        PROVE  /\ sender'[b] \in Sender /\ SenderAt(b)'
               /\ sender'[b].at = sender[b].at /\ sender'[b].attempt = sender[b].attempt
               /\ sender'[b].result = sender[b].result
               /\ \/ sender'[b].pc = sender[b].pc
                  \/ sender'[b].pc = "lost" /\ sender[b].pc # "over"
    <3>1. sender[b] \in Sender /\ SenderAt(b)
      BY DEF SendersAt
    <3>2. CASE sender[b].pc \in {"none", "over"}
      <4>1. sender'[b] = sender[b]
        BY <1>6, <3>2 DEF Crash
      <4>. QED
        BY <3>1, <4>1 DEF SenderAt
    <3>3. CASE sender[b].pc \notin {"none", "over"}
      <4>1. sender'[b] = [sender[b] EXCEPT !.pc = "lost"]
        BY <1>6, <3>3 DEF Crash
      <4>2. /\ sender'[b] \in Sender /\ sender'[b].pc = "lost"
            /\ sender'[b].at = sender[b].at /\ sender'[b].attempt = sender[b].attempt
            /\ sender'[b].result = sender[b].result
        BY <3>1, <4>1 DEF Sender
      <4>. QED
        BY <3>1, <3>3, <4>2 DEF SenderAt
    <3>. QED
      BY <3>2, <3>3
  <2>2. sender' \in [Batches -> Sender]
    BY <1>6, <2>1 DEF Crash
  <2>. QED
    BY <1>6, <2>1, <2>2 DEF Crash, Aside, SendersAt
<1>. QED
  BY <1>1, <1>2, <1>4, <1>5, <1>6 DEF Outside

-----------------------------------------------------------------------------
(* Receptions *)

\* A step of one sender in which nobody else receives and it counts what its
\* own deliveries received.
LEMMA CountedBy ==
  ASSUME SendersAt, Counted, NEW b \in Batches,
         \A a \in Batches : a # b => sender'[a] = sender[a],
         \A d \in Deliveries : d \notin DeliveriesOf(b) => got'[d] = got[d],
         \A d \in DeliveriesOf(b) :
           got'[d] <= MaxAttempts * Cardinality(Listed(b, d, sender'[b].at - 1))
                        + Tried(b, d)'
  PROVE  Counted'
<1>. SUFFICES ASSUME NEW a \in Batches, NEW d \in DeliveriesOf(a), a # b
              PROVE  got'[d] <= MaxAttempts * Cardinality(Listed(a, d, sender'[a].at - 1))
                                  + Tried(a, d)'
  BY DEF Counted
<1>1. d \notin DeliveriesOf(b) /\ d \in Deliveries
  BY OneOwner, ListedTyped
<1>2. got'[d] = got[d] /\ sender'[a] = sender[a]
  BY <1>1
<1>. QED
  BY <1>2 DEF Counted, Tried

\* The end of a delivery with or without a reception at the last attempt.
LEMMA EndIsCounted ==
  ASSUME TypeOK, SendersAt, Counted, NEW b \in Batches,
         sender[b].pc \in {"loading", "sending"},
         NEW status \in {"sent", "skipped", "error"}, NEW attempts \in 0..MaxAttempts,
         EndDelivery(b, status, attempts),
         \/ got' = got
         \/ sender[b].pc = "sending" /\ got' = [got EXCEPT ![Current(b)] = @ + 1]
  PROVE  Counted'
<1>. DEFINE n == sender[b].at - 1
            c == Current(b)
            Card(d, m) == Cardinality(Listed(b, d, m))
<1>1. /\ sender[b] \in Sender /\ sender[b].at \in 1..Len(Queue[b])
      /\ c = Queue[b][sender[b].at] /\ c \in DeliveriesOf(b) /\ c \in Deliveries
  BY CurrentIsListed
<1>2. n \in Nat /\ n + 1 = sender[b].at /\ n + 1 <= Len(Queue[b]) /\ sender[b].attempt \in 0..MaxAttempts
  BY <1>1, ListedTyped DEF Sender
<1>3. sender'[b].at = sender[b].at + 1 /\ sender'[b].attempt = 0
      /\ \A a \in Batches : a # b => sender'[a] = sender[a]
  BY EndDeliveryEffect
<1>4. \A d \in Deliveries : d # c => got'[d] = got[d]
  BY DEF TypeOK
<1>5. sender'[b].at - 1 = n + 1
  BY <1>2, <1>3
<1>6. ASSUME NEW d \in DeliveriesOf(b)
      PROVE  got'[d] <= MaxAttempts * Card(d, n + 1) + Tried(b, d)'
  <2>1. d \in Deliveries /\ got[d] \in Nat
    BY ListedTyped DEF TypeOK
  <2>2. got[d] <= MaxAttempts * Card(d, n) + Tried(b, d)
    BY DEF Counted
  <2>3. Tried(b, d)' = 0
    BY <1>3 DEF Tried
  <2>4. Card(d, n) \in Nat
    BY <1>2, ListedCount
  <2>5. CASE d = c
    <3>1. Card(d, n + 1) = Card(d, n) + 1
      BY <1>1, <1>2, <2>5, ListedCount
    <3>2. Tried(b, d) \in 0..2 /\ (Tried(b, d) = 0 \/ sender[b].attempt >= 1)
      BY <1>2 DEF Tried, MaxAttempts
    <3>3. got'[d] \in {got[d], got[d] + 1}
      BY <1>1, <2>1 DEF TypeOK
    <3>4. \A m, t, g, h \in Nat :
            h \in {g, g + 1} /\ g <= 3 * m + t /\ t <= 2 => h <= 3 * (m + 1) + 0
      OBVIOUS
    <3>5. got[d] <= 3 * Card(d, n) + Tried(b, d)
      BY <2>2 DEF MaxAttempts
    <3>. HIDE DEF Card
    <3>6. got'[d] <= 3 * (Card(d, n) + 1) + 0
      BY <2>1, <2>4, <3>2, <3>3, <3>4, <3>5
    <3>. QED
      BY <2>3, <3>1, <3>6 DEF MaxAttempts
  <2>6. CASE d # c
    <3>1. Card(d, n + 1) = Card(d, n)
      BY <1>1, <1>2, <2>6, ListedCount
    <3>2. Tried(b, d) = 0
      BY <1>1, <2>6 DEF Tried
    <3>. HIDE DEF Card
    <3>. QED
      BY <1>4, <2>1, <2>2, <2>3, <2>4, <2>6, <3>1, <3>2
  <2>. QED
    BY <2>5, <2>6
<1>7. \A d \in Deliveries : d \notin DeliveriesOf(b) => got'[d] = got[d]
  BY <1>1, <1>4
<1>. QED
  BY <1>3, <1>5, <1>6, <1>7, CountedBy

\* An attempt that is not the last: one more was tried than received.
LEMMA AttemptIsCounted ==
  ASSUME TypeOK, SendersAt, Counted, NEW b \in Batches,
         NEW pc, NEW attempt \in 0..MaxAttempts, Moves(b, pc, attempt),
         \/ got' = got /\ attempt >= sender[b].attempt
         \/ /\ sender[b].pc = "sending" /\ attempt = sender[b].attempt + 1
            /\ got' = [got EXCEPT ![Current(b)] = @ + 1]
  PROVE  Counted'
<1>1. sender[b] \in Sender /\ sender[b].attempt \in 0..MaxAttempts /\ sender[b].at \in Nat
      /\ sender[b].at >= 1
  BY DEF TypeOK, Sender, SendersAt, SenderAt
<1>2. sender'[b].at = sender[b].at /\ sender'[b].attempt = attempt
      /\ \A a \in Batches : a # b => sender'[a] = sender[a]
  BY DEF Moves
<1>3. ASSUME NEW d \in DeliveriesOf(b)
      PROVE  got'[d] <= MaxAttempts * Cardinality(Listed(b, d, sender'[b].at - 1)) + Tried(b, d)'
  <2>. DEFINE m == MaxAttempts * Cardinality(Listed(b, d, sender[b].at - 1))
  <2>1. got[d] \in Nat /\ got[d] <= m + Tried(b, d) /\ d \in Deliveries
    BY ListedTyped DEF Counted, TypeOK
  <2>2. m \in Nat
    <3>1. sender[b].at - 1 \in Nat
      BY <1>1
    <3>2. Cardinality(Listed(b, d, sender[b].at - 1)) \in Nat
      BY <3>1, ListedCount
    <3>. QED
      BY <3>2 DEF MaxAttempts
  <2>3. Tried(b, d) \in Nat /\ Tried(b, d)' \in Nat
    BY <1>1, <1>2 DEF Tried, MaxAttempts
  <2>4. got'[d] <= m + Tried(b, d)'
    <3>1. CASE got' = got /\ attempt >= sender[b].attempt
      <4>1. Tried(b, d)' >= Tried(b, d)
        BY <1>1, <1>2, <3>1 DEF Tried, MaxAttempts
      <4>. HIDE DEF m
      <4>. QED
        BY <2>1, <2>2, <2>3, <3>1, <4>1
    <3>2. CASE /\ sender[b].pc = "sending" /\ attempt = sender[b].attempt + 1
               /\ got' = [got EXCEPT ![Current(b)] = @ + 1]
      <4>1. sender[b].attempt >= 1 /\ sender[b].at \in 1..Len(Queue[b])
            /\ Current(b) = Queue[b][sender[b].at] /\ Current(b) \in Deliveries
        BY <3>2, CurrentIsListed DEF SendersAt, SenderAt
      <4>2. CASE d = Current(b)
        <5>1. got'[d] = got[d] + 1
          BY <2>1, <3>2, <4>2 DEF TypeOK
        <5>2. Tried(b, d) = sender[b].attempt - 1 /\ Tried(b, d)' = sender[b].attempt
          BY <1>1, <1>2, <3>2, <4>1, <4>2, ListedTyped DEF Tried, MaxAttempts
        <5>. HIDE DEF m
        <5>. QED
          BY <1>1, <2>1, <2>2, <5>1, <5>2 DEF MaxAttempts
      <4>3. CASE d # Current(b)
        <5>1. got'[d] = got[d]
          BY <2>1, <3>2, <4>3 DEF TypeOK
        <5>2. Tried(b, d) = 0 /\ Tried(b, d)' = 0
          BY <1>2, <4>1, <4>3 DEF Tried
        <5>. QED
          BY <2>1, <5>1, <5>2
      <4>. QED
        BY <4>2, <4>3
    <3>. QED
      BY <3>1, <3>2
  <2>. QED
    BY <1>2, <2>4
<1>4. \A d \in Deliveries : d \notin DeliveriesOf(b) => got'[d] = got[d]
  BY CurrentIsListed DEF TypeOK
<1>. QED
  BY <1>2, <1>3, <1>4, CountedBy

\* Every step of a sender counts what is received.
LEMMA StepIsCounted ==
  ASSUME TypeOK, SendersAt, Counted, NEW b \in Batches, Commit(b) \/ SenderStep(b)
  PROVE  Counted'
<1>1. sender[b].attempt \in 0..MaxAttempts /\ sender[b].attempt >= sender[b].attempt
  BY DEF TypeOK, Sender, MaxAttempts
<1>2. CASE Commit(b)
  <2>1. Moves(b, "committed", sender[b].attempt) /\ got' = got
    BY <1>2, MovesTyped DEF Commit
  <2>. QED
    BY <1>1, <2>1, AttemptIsCounted
<1>3. CASE Begin(b)
  <2>1. PICK pc \in {"over", "creating"} : sender' = [sender EXCEPT ![b].pc = pc]
    BY <1>3 DEF Begin
  <2>2. Moves(b, pc, sender[b].attempt) /\ got' = got
    BY <1>3, <2>1, MovesTyped DEF Begin
  <2>. QED
    BY <1>1, <2>2, AttemptIsCounted
<1>4. CASE Create(b)
  <2>1. Moves(b, "loading", sender[b].attempt) /\ got' = got
    BY <1>4, MovesTyped DEF Create
  <2>. QED
    BY <1>1, <2>1, AttemptIsCounted
<1>5. CASE LoadFails(b)
  <2>1. EndDelivery(b, "error", 0) /\ got' = got /\ sender[b].pc = "loading"
    BY <1>5 DEF LoadFails
  <2>. QED
    BY <2>1, EndIsCounted, OneAttempt
<1>6. CASE Load(b)
  <2>1. got' = got /\ sender[b].pc = "loading" /\ 1 >= sender[b].attempt
    BY <1>6 DEF Load, SendersAt, SenderAt
  <2>2. CASE channels[ChannelOf[Current(b)]] = "off"
    <3>1. EndDelivery(b, "skipped", 0)
      BY <1>6, <2>2 DEF Load
    <3>. QED
      BY <2>1, <3>1, EndIsCounted, OneAttempt
  <2>3. CASE channels[ChannelOf[Current(b)]] # "off"
    <3>1. Moves(b, "sending", 1)
      BY <1>6, <2>3, MovesTyped, OneAttempt DEF Load
    <3>. QED
      BY <2>1, <3>1, AttemptIsCounted, OneAttempt
  <2>. QED
    BY <2>2, <2>3
<1>7. CASE SendSucceeds(b)
  <2>1. /\ EndDelivery(b, "sent", sender[b].attempt) /\ sender[b].pc = "sending"
        /\ got' = [got EXCEPT ![Current(b)] = @ + 1]
    BY <1>7 DEF SendSucceeds
  <2>. QED
    BY <1>1, <2>1, EndIsCounted
<1>8. CASE SendFails(b)
  <2>1. /\ sender[b].pc = "sending"
        /\ got' = got \/ got' = [got EXCEPT ![Current(b)] = @ + 1]
    BY <1>8 DEF SendFails
  <2>2. CASE sender[b].attempt < MaxAttempts
    <3>1. sender[b].attempt + 1 \in 0..MaxAttempts
      BY <1>1, <2>2 DEF MaxAttempts
    <3>2. sender' = [sender EXCEPT ![b].attempt = sender[b].attempt + 1]
      BY <1>8, <2>2 DEF SendFails
    <3>3. Moves(b, "sending", sender[b].attempt + 1)
      BY <2>1, <3>1, <3>2, MovesTyped
    <3>4. sender[b].attempt + 1 >= sender[b].attempt
      BY <1>1 DEF MaxAttempts
    <3>. QED
      BY <2>1, <3>1, <3>3, <3>4, AttemptIsCounted
  <2>3. CASE ~(sender[b].attempt < MaxAttempts)
    <3>1. EndDelivery(b, "error", sender[b].attempt)
      BY <1>8, <2>3 DEF SendFails
    <3>. QED
      BY <1>1, <2>1, <3>1, EndIsCounted
  <2>. QED
    BY <2>2, <2>3
<1>9. CASE Record(b)
  <2>1. Moves(b, "over", sender[b].attempt) /\ got' = got
    BY <1>9, MovesTyped DEF Record
  <2>. QED
    BY <1>1, <2>1, AttemptIsCounted
<1>10. CASE RecordFails(b)
  <2>1. Moves(b, "lost", sender[b].attempt) /\ got' = got
    BY <1>10, MovesTyped DEF RecordFails
  <2>. QED
    BY <1>1, <2>1, AttemptIsCounted
<1>. QED
  BY <1>2, <1>3, <1>4, <1>5, <1>6, <1>7, <1>8, <1>9, <1>10 DEF SenderStep

-----------------------------------------------------------------------------
(* Rows *)

\* What a step of a sender leaves in the rows of its deliveries: what was there,
\* a new row, or, at its end, its results.
RowStep(b, d) ==
  \/ rows'[d].status = rows[d].status /\ rows'[d].attempts = rows[d].attempts
  \/ /\ rows'[d].status = "pending"
     /\ rows[d].status = "absent" \/ sender[b].pc = "none"
  \/ /\ sender[b].pc = "recording" /\ sender'[b].pc = "over" /\ rows[d].status # "absent"
     /\ rows'[d].status = sender[b].result[d].status
     /\ rows'[d].attempts = sender[b].result[d].attempts

LEMMA StepRows ==
  ASSUME TypeOK, SendersAt, NEW b \in Batches, Commit(b) \/ SenderStep(b)
  PROVE  /\ sender[b].pc # "over"
         /\ \A a \in Batches : a # b => sender'[a] = sender[a]
         /\ \A d \in Deliveries : d \notin DeliveriesOf(b) =>
              rows'[d] = rows[d] /\ got'[d] = got[d]
         /\ \A d \in DeliveriesOf(b) : RowStep(b, d)
<1>. USE DEF TypeOK
<1>1. CASE Commit(b)
  BY <1>1, RowTypes, ListedTyped DEF Commit, RowStep
<1>2. CASE Begin(b)
  BY <1>2 DEF Begin, RowStep
<1>3. CASE Create(b)
  <2>1. Current(b) \in DeliveriesOf(b) /\ Current(b) \in Deliveries
    BY <1>3, CurrentIsListed DEF Create
  <2>. QED
    BY <1>3, <2>1, RowTypes, ListedTyped DEF Create, RowStep, Exists
<1>4. CASE LoadFails(b)
  BY <1>4, EndDeliveryEffect, OneAttempt DEF LoadFails, RowStep
<1>5. CASE Load(b)
  <2>1. Current(b) \in DeliveriesOf(b) /\ Current(b) \in Deliveries
    BY <1>5, CurrentIsListed DEF Load
  <2>2. \A a \in Batches : a # b => sender'[a] = sender[a]
    BY <1>5, EndDeliveryEffect, OneAttempt DEF Load
  <2>3. \A d \in Deliveries : /\ d \notin DeliveriesOf(b) => rows'[d] = rows[d]
                              /\ rows'[d].status = rows[d].status
                              /\ rows'[d].attempts = rows[d].attempts
    BY <1>5, <2>1 DEF Load, Row
  <2>. QED
    BY <1>5, <2>2, <2>3, ListedTyped DEF Load, RowStep
<1>6. CASE SendSucceeds(b)
  <2>1. Current(b) \in DeliveriesOf(b) /\ sender[b].attempt \in 0..MaxAttempts
    BY <1>6, CurrentIsListed DEF SendSucceeds, Sender
  <2>. QED
    BY <1>6, <2>1, EndDeliveryEffect, ListedTyped DEF SendSucceeds, RowStep
<1>7. CASE SendFails(b)
  <2>1. Current(b) \in DeliveriesOf(b) /\ sender[b].attempt \in 0..MaxAttempts
    BY <1>7, CurrentIsListed DEF SendFails, Sender
  <2>2. \A a \in Batches : a # b => sender'[a] = sender[a]
    BY <1>7, <2>1, EndDeliveryEffect DEF SendFails
  <2>. QED
    BY <1>7, <2>1, <2>2, ListedTyped DEF SendFails, RowStep
<1>8. CASE Record(b)
  <2>1. sender'[b].pc = "over" /\ \A a \in Batches : a # b => sender'[a] = sender[a]
    BY <1>8, MovesTyped DEF Record, Moves
  <2>2. ASSUME NEW d \in DeliveriesOf(b)
        PROVE  RowStep(b, d)
    <3>1. d \in Deliveries /\ rows[d] \in Row
      BY ListedTyped
    <3>2. CASE ~Exists(d)
      BY <1>8, <3>1, <3>2 DEF Record, RowStep
    <3>3. CASE Exists(d)
      <4>1. rows'[d] = [rows[d] EXCEPT !.status = sender[b].result[d].status,
                                       !.attempts = sender[b].result[d].attempts]
        BY <1>8, <3>1, <3>3 DEF Record
      <4>2. rows'[d].status = sender[b].result[d].status
            /\ rows'[d].attempts = sender[b].result[d].attempts
        BY <3>1, <4>1 DEF Row
      <4>. QED
        BY <1>8, <2>1, <3>3, <4>2 DEF Record, RowStep, Exists
    <3>. QED
      BY <3>2, <3>3
  <2>. QED
    BY <1>8, <2>1, <2>2 DEF Record
<1>9. CASE RecordFails(b)
  BY <1>9 DEF RecordFails, RowStep
<1>. QED
  BY <1>1, <1>2, <1>3, <1>4, <1>5, <1>6, <1>7, <1>8, <1>9 DEF SenderStep

-----------------------------------------------------------------------------
(* The invariant *)

LEMMA InitSend == Init => SendInv
<1>. SUFFICES ASSUME Init PROVE SendInv
  OBVIOUS
<1>1. NoSender \in Sender
  <2>1. [d \in Deliveries |-> Unsent] \in [Deliveries -> Result]
    BY OneAttempt DEF Unsent, Result
  <2>. QED
    BY <2>1, OneAttempt DEF NoSender, Sender
<1>2. TypeOK
  BY <1>1, RowTypes DEF Init, TypeOK
<1>3. SendersAt
  <2>1. \A b \in Batches : sender[b].pc = "none" /\ sender[b].at = 1 /\ sender[b].attempt = 0
    BY DEF Init, NoSender
  <2>2. ASSUME NEW b \in Batches
        PROVE  SenderAt(b)
    BY <2>1 DEF SenderAt
  <2>. QED
    BY <2>2 DEF SendersAt
<1>4. Counted
  <2>. SUFFICES ASSUME NEW b \in Batches, NEW d \in DeliveriesOf(b)
                PROVE  got[d] <= MaxAttempts * Cardinality(Listed(b, d, sender[b].at - 1))
                                   + Tried(b, d)
    BY DEF Counted
  <2>1. sender[b].at = 1 /\ sender[b].attempt = 0
    BY DEF Init, NoSender
  <2>2. got[d] = 0 /\ Tried(b, d) = 0
    BY <2>1, ListedTyped DEF Init, Tried
  <2>3. Cardinality(Listed(b, d, sender[b].at - 1)) = 0
    <3>1. sender[b].at - 1 = 0
      BY <2>1
    <3>2. Listed(b, d, 0) = {}
      BY ListedCount
    <3>. QED
      BY <3>1, <3>2, FS_EmptySet
  <2>. QED
    BY <2>2, <2>3 DEF MaxAttempts
<1>5. OthersUntouched /\ SettledIsOver
  BY ListedTyped DEF Init, OthersUntouched, SettledIsOver, NoRow, Settled
<1>. QED
  BY <1>2, <1>3, <1>4, <1>5 DEF SendInv

LEMMA StepSend ==
  ASSUME SendInv, NEW b \in Batches, Commit(b) \/ SenderStep(b)
  PROVE  SendInv'
<1>. USE DEF SendInv
<1>1. TypeOK' /\ SendersAt'
  BY CommitTyped, WorkTyped
<1>2. Counted'
  BY StepIsCounted
<1>3. OthersUntouched'
  BY StepRows DEF OthersUntouched, Owned
<1>4. SettledIsOver'
  <2>. SUFFICES ASSUME NEW a \in Batches, NEW d \in DeliveriesOf(a),
                       rows'[d].status \in Settled
                PROVE  sender'[a].pc = "over"
    BY DEF SettledIsOver
  <2>1. CASE a = b
    BY <2>1, StepRows DEF SettledIsOver, RowStep, Settled
  <2>2. CASE a # b
    BY <2>2, StepRows, OneOwner, ListedTyped DEF SettledIsOver
  <2>. QED
    BY <2>1, <2>2
<1>. QED
  BY <1>1, <1>2, <1>3, <1>4

LEMMA OutsideSend == SendInv /\ Outside => SendInv'
<1>. SUFFICES ASSUME SendInv, Outside PROVE SendInv'
  OBVIOUS
<1>. USE DEF SendInv
<1>1. TypeOK' /\ SendersAt' /\ Aside
  BY OutsideIsAside
<1>2. Counted'
  BY <1>1 DEF Counted, Tried, Aside
<1>3. OthersUntouched'
  BY <1>1 DEF OthersUntouched, Aside, Owned
<1>4. SettledIsOver'
  BY <1>1, ListedTyped DEF SettledIsOver, Aside, Settled
<1>. QED
  BY <1>1, <1>2, <1>3, <1>4

\* Every step is one of a sender or one beside them.
LEMMA NextCases ==
  Next => Outside \/ \E b \in Batches : Commit(b) \/ SenderStep(b)
BY DEF Next, Outside

LEMMA NextSend == SendInv /\ [Next]_vars => SendInv'
<1>. SUFFICES ASSUME SendInv, [Next]_vars PROVE SendInv'
  OBVIOUS
<1>1. CASE Next
  BY <1>1, NextCases, StepSend, OutsideSend
<1>2. CASE UNCHANGED vars
  BY <1>2 DEF vars, SendInv, TypeOK, SendersAt, SenderAt, Counted, Tried,
              OthersUntouched, Owned, SettledIsOver
<1>. QED
  BY <1>1, <1>2

\* The inductive invariant: types, how far each sender is, that receptions are
\* counted against the attempts made (sendNotification, runtime.go:328-351), and
\* that only the end of its sender settles a row (store.go:222-245).
THEOREM SendInvariance == Spec => []SendInv
<1>1. Init => SendInv
  BY InitSend
<1>2. SendInv /\ [Next]_vars => SendInv'
  BY NextSend
<1>. QED
  BY <1>1, <1>2, PTL DEF Spec

-----------------------------------------------------------------------------
(* Receptions are bounded by what is listed *)

\* Every place a delivery is listed at is tried three times at most, so that many
\* receptions there are at most, also where a monitor lists a channel twice.
ReceptionsAreListed ==
  \A b \in Batches : \A d \in DeliveriesOf(b) :
    got[d] <= MaxAttempts * Cardinality(Listed(b, d, Len(Queue[b])))

LEMMA ListedWithin ==
  ASSUME NEW b \in Batches, NEW d, NEW n \in Nat
  PROVE  /\ Cardinality(Listed(b, d, n)) <= Cardinality(Listed(b, d, Len(Queue[b])))
         /\ n + 1 <= Len(Queue[b]) /\ Queue[b][n + 1] = d =>
              Cardinality(Listed(b, d, n)) + 1 <= Cardinality(Listed(b, d, Len(Queue[b])))
<1>1. Len(Queue[b]) \in Nat
  BY ListedTyped
<1>2. IsFiniteSet(Listed(b, d, Len(Queue[b])))
  <2>1. IsFiniteSet(1..Len(Queue[b])) /\ Listed(b, d, Len(Queue[b])) \subseteq 1..Len(Queue[b])
    BY <1>1, FS_Interval DEF Listed
  <2>. QED
    BY <2>1, FS_Subset
<1>3. \A m \in Nat : Listed(b, d, m) \subseteq Listed(b, d, Len(Queue[b]))
  BY <1>1 DEF Listed
<1>4. \A m \in Nat : Cardinality(Listed(b, d, m)) <= Cardinality(Listed(b, d, Len(Queue[b])))
  BY <1>2, <1>3, FS_Subset
<1>5. n + 1 \in Nat
  OBVIOUS
<1>. QED
  BY <1>4, <1>5, ListedCount

LEMMA CountedIsBounded == SendInv => ReceptionsAreListed
<1>. SUFFICES ASSUME SendInv, NEW b \in Batches, NEW d \in DeliveriesOf(b)
              PROVE  got[d] <= MaxAttempts * Cardinality(Listed(b, d, Len(Queue[b])))
  BY DEF ReceptionsAreListed
<1>. DEFINE n == sender[b].at - 1
            m == Cardinality(Listed(b, d, n))
            all == Cardinality(Listed(b, d, Len(Queue[b])))
<1>1. /\ sender[b] \in Sender /\ sender[b].at >= 1
      /\ got[d] \in Nat /\ got[d] <= MaxAttempts * m + Tried(b, d)
  BY ListedTyped DEF SendInv, TypeOK, SendersAt, SenderAt, Counted
<1>2. n \in Nat /\ n + 1 = sender[b].at /\ sender[b].attempt \in 0..3
  BY <1>1 DEF Sender, MaxAttempts
<1>3. m \in Nat /\ all \in Nat
  BY <1>2, ListedCount, ListedTyped
<1>4. m <= all
  BY <1>2, ListedWithin
<1>5. CASE n + 1 <= Len(Queue[b]) /\ Queue[b][n + 1] = d
  <2>1. m + 1 <= all
    BY <1>2, <1>5, ListedWithin
  <2>2. Tried(b, d) \in 0..2
    BY <1>2 DEF Tried
  <2>3. \A g, x, y, t \in Nat : g <= 3 * x + t /\ t <= 2 /\ x + 1 <= y => g <= 3 * y
    OBVIOUS
  <2>4. got[d] <= 3 * m + Tried(b, d)
    BY <1>1 DEF MaxAttempts
  <2>5. got[d] \in Nat /\ Tried(b, d) \in Nat /\ Tried(b, d) <= 2
    BY <1>1, <2>2
  <2>. HIDE DEF m
  <2>6. got[d] <= 3 * all
    <3>. HIDE DEF all
    <3>. QED
      BY <1>3, <2>1, <2>3, <2>4, <2>5
  <2>. QED
    BY <2>6 DEF MaxAttempts
<1>6. CASE ~(n + 1 <= Len(Queue[b]) /\ Queue[b][n + 1] = d)
  <2>1. Tried(b, d) = 0
    BY <1>2, <1>6 DEF Tried
  <2>2. \A g, x, y \in Nat : g <= 3 * x + 0 /\ x <= y => g <= 3 * y
    OBVIOUS
  <2>3. got[d] <= 3 * m + 0
    BY <1>1, <2>1 DEF MaxAttempts
  <2>. HIDE DEF m
  <2>4. got[d] <= 3 * all
    <3>. HIDE DEF all
    <3>. QED
      BY <1>1, <1>3, <1>4, <2>2, <2>3
  <2>. QED
    BY <2>4 DEF MaxAttempts
<1>. QED
  BY <1>5, <1>6

\* "Each channel is tried at most 3 times" (docs/guide/notifications.md:14), for
\* each time it is listed (sendNotification, runtime.go:328-351).
THEOREM ReceptionsBounded == Spec => []ReceptionsAreListed
<1>1. SendInv => ReceptionsAreListed
  BY CountedIsBounded
<1>. QED
  BY <1>1, SendInvariance, PTL

\* Where no channel is listed twice, three times in all.
LEMMA BoundedByThree ==
  ASSUME EachOnce, SendInv
  PROVE  DeliveriesInv
<1>. SUFFICES ASSUME NEW d \in Deliveries PROVE got[d] <= MaxAttempts
  BY DEF DeliveriesInv, AtMostThreeReceptions, SendInv
<1>1. CASE ~Owned(d)
  BY <1>1 DEF SendInv, OthersUntouched, MaxAttempts
<1>2. ASSUME NEW b \in Batches, d \in DeliveriesOf(b)
      PROVE  got[d] <= MaxAttempts
  <2>1. PICK k \in 1..Len(Queue[b]) : Queue[b][k] = d
    BY <1>2 DEF DeliveriesOf
  <2>2. Listed(b, d, Len(Queue[b])) = {k}
    BY <2>1 DEF Listed, EachOnce
  <2>3. Cardinality(Listed(b, d, Len(Queue[b]))) = 1
    BY <2>2, FS_Singleton
  <2>4. got[d] <= MaxAttempts * 1
    BY <1>2, <2>3, CountedIsBounded DEF ReceptionsAreListed
  <2>. QED
    BY <2>4 DEF MaxAttempts
<1>. QED
  BY <1>1, <1>2 DEF Owned

\* No channel receives an event more than three times (sendNotification).
THEOREM ThreeReceptions ==
  ASSUME EachOnce
  PROVE  Spec => []DeliveriesInv
<1>1. SendInv => DeliveriesInv
  BY BoundedByThree
<1>. QED
  BY <1>1, SendInvariance, PTL

-----------------------------------------------------------------------------
(* A settled status stays *)

LEMMA SettledStep ==
  SendInv /\ [Next]_vars =>
    \A d \in Deliveries :
      /\ rows[d].status \in Settled => rows'[d].status \in {rows[d].status, "absent"}
      /\ rows[d].status = "absent" => rows'[d].status \in {"absent", "pending"}
<1>. SUFFICES ASSUME SendInv, [Next]_vars, NEW d \in Deliveries
              PROVE  /\ rows[d].status \in Settled =>
                          rows'[d].status \in {rows[d].status, "absent"}
                     /\ rows[d].status = "absent" => rows'[d].status \in {"absent", "pending"}
  OBVIOUS
<1>1. CASE Outside
  BY <1>1, OutsideIsAside DEF SendInv, Aside
<1>2. ASSUME NEW b \in Batches, Commit(b) \/ SenderStep(b), d \in DeliveriesOf(b)
      PROVE  /\ rows[d].status \notin Settled
             /\ rows[d].status = "absent" => rows'[d].status \in {"absent", "pending"}
  BY <1>2, StepRows DEF SendInv, SettledIsOver, RowStep
<1>3. ASSUME NEW b \in Batches, Commit(b) \/ SenderStep(b), d \notin DeliveriesOf(b)
      PROVE  rows'[d] = rows[d]
  BY <1>3, StepRows DEF SendInv
<1>4. CASE UNCHANGED vars
  BY <1>4 DEF vars
<1>. QED
  BY <1>1, <1>2, <1>3, <1>4, NextCases

\* INSERT IGNORE, late senders and cleanups may meet in any order: no settled
\* status is taken back, and none appears without a row (store.go:222-245).
THEOREM SettledForGood == Spec => SettledStays
<1>1. SendInv /\ [Next]_vars =>
        [\A d \in Deliveries :
           /\ rows[d].status \in Settled => rows'[d].status \in {rows[d].status, "absent"}
           /\ rows[d].status = "absent" => rows'[d].status \in {"absent", "pending"}]_vars
  BY SettledStep
<1>. QED
  BY <1>1, SendInvariance, PTL DEF Spec, SettledStays

-----------------------------------------------------------------------------
(* What a record says is true *)

\* A result is honest when it is made, and nothing is received afterwards.
LEMMA EndIsHonest ==
  ASSUME EachOnce, SendInv, ResultsHonest, NEW b \in Batches,
         sender[b].pc \in {"loading", "sending"},
         NEW status \in {"sent", "skipped", "error"}, NEW attempts \in 0..MaxAttempts,
         EndDelivery(b, status, attempts),
         got' = got \/ got' = [got EXCEPT ![Current(b)] = @ + 1],
         Honest(status, attempts, got'[Current(b)])
  PROVE  ResultsHonest'
<1>. USE DEF SendInv
<1>1. /\ sender[b] \in Sender /\ sender[b].at \in 1..Len(Queue[b])
      /\ Current(b) = Queue[b][sender[b].at]
      /\ Current(b) \in DeliveriesOf(b) /\ Current(b) \in Deliveries
  BY CurrentIsListed
<1>2. /\ \A a \in Batches : a # b => sender'[a] = sender[a]
      /\ sender'[b].at = sender[b].at + 1
      /\ sender'[b].result[Current(b)] = [status |-> status, attempts |-> attempts]
      /\ \A d \in Deliveries : d # Current(b) => sender'[b].result[d] = sender[b].result[d]
  BY EndDeliveryEffect
<1>3. \A d \in Deliveries : d # Current(b) => got'[d] = got[d]
  BY DEF TypeOK
<1>4. ASSUME NEW a \in Batches, NEW k \in 1..Len(Queue[a]), k < sender'[a].at
      PROVE  Honest(sender'[a].result[Queue[a][k]].status,
                    sender'[a].result[Queue[a][k]].attempts, got'[Queue[a][k]])
  <2>1. Queue[a][k] \in Deliveries /\ Queue[a][k] \in DeliveriesOf(a)
    BY ListedTyped
  <2>2. CASE a # b
    BY <1>1, <1>2, <1>3, <1>4, <2>1, <2>2, OneOwner DEF ResultsHonest
  <2>3. CASE a = b /\ k = sender[b].at
    <3>1. Queue[a][k] = Current(b)
      BY <1>1, <2>3
    <3>. QED
      BY <1>2, <2>3, <3>1
  <2>4. CASE a = b /\ k # sender[b].at
    <3>1. Queue[a][k] # Current(b)
      BY <1>1, <2>4 DEF EachOnce
    <3>2. k < sender[b].at
      BY <1>1, <1>2, <1>4, <2>4, ListedTyped
    <3>. QED
      BY <1>2, <1>3, <2>1, <2>4, <3>1, <3>2 DEF ResultsHonest
  <2>. QED
    BY <2>2, <2>3, <2>4
<1>. QED
  BY <1>4 DEF ResultsHonest

\* A step that ends no delivery leaves the results as honest as they were.
LEMMA OthersAreHonest ==
  ASSUME EachOnce, SendInv, ResultsHonest, NEW b \in Batches, NEW pc, NEW attempt,
         Moves(b, pc, attempt),
         \/ got' = got
         \/ sender[b].pc = "sending" /\ got' = [got EXCEPT ![Current(b)] = @ + 1]
  PROVE  ResultsHonest'
<1>. USE DEF SendInv
<1>1. /\ \A a \in Batches : a # b => sender'[a] = sender[a]
      /\ sender'[b].at = sender[b].at /\ sender'[b].result = sender[b].result
  BY DEF Moves
<1>2. ASSUME NEW a \in Batches, NEW k \in 1..Len(Queue[a]), k < sender'[a].at
      PROVE  got'[Queue[a][k]] = got[Queue[a][k]]
  <2>1. Queue[a][k] \in Deliveries /\ Queue[a][k] \in DeliveriesOf(a)
    BY ListedTyped
  <2>2. CASE got' = got
    BY <2>2
  <2>3. CASE sender[b].pc = "sending" /\ got' = [got EXCEPT ![Current(b)] = @ + 1]
    <3>1. /\ sender[b].at \in 1..Len(Queue[b]) /\ Current(b) = Queue[b][sender[b].at]
          /\ Current(b) \in DeliveriesOf(b) /\ Current(b) \in Deliveries
      BY <2>3, CurrentIsListed
    <3>2. Queue[a][k] # Current(b)
      <4>1. CASE a = b
        <5>1. k # sender[b].at
          BY <1>1, <1>2, <3>1, <4>1, ListedTyped
        <5>. QED
          BY <3>1, <4>1, <5>1 DEF EachOnce
      <4>2. CASE a # b
        BY <2>1, <3>1, <4>2, OneOwner
      <4>. QED
        BY <4>1, <4>2
    <3>. QED
      BY <2>1, <2>3, <3>1, <3>2 DEF TypeOK
  <2>. QED
    BY <2>2, <2>3
<1>3. \A a \in Batches : sender'[a].at = sender[a].at /\ sender'[a].result = sender[a].result
  BY <1>1
<1>4. ASSUME NEW a \in Batches, NEW k \in 1..Len(Queue[a]), k < sender'[a].at
      PROVE  Honest(sender'[a].result[Queue[a][k]].status,
                    sender'[a].result[Queue[a][k]].attempts, got'[Queue[a][k]])
  <2>1. k < sender[a].at
    BY <1>3, <1>4
  <2>2. Honest(sender[a].result[Queue[a][k]].status,
               sender[a].result[Queue[a][k]].attempts, got[Queue[a][k]])
    BY <2>1 DEF ResultsHonest
  <2>. QED
    BY <1>2, <1>3, <1>4, <2>2
<1>. QED
  BY <1>4 DEF ResultsHonest

\* What has been received so far of the delivery at hand.
LEMMA FirstAttempts ==
  ASSUME EachOnce, SendInv, NEW b \in Batches,
         sender[b].pc \in {"loading", "sending"}
  PROVE  /\ Current(b) \in Deliveries /\ got[Current(b)] \in Nat
         /\ sender[b].pc = "loading" => got[Current(b)] = 0
         /\ sender[b].pc = "sending" => /\ sender[b].attempt \in 1..MaxAttempts
                                        /\ got[Current(b)] <= sender[b].attempt - 1
<1>. USE DEF SendInv
<1>1. /\ sender[b] \in Sender /\ sender[b].at \in 1..Len(Queue[b])
      /\ Current(b) = Queue[b][sender[b].at]
      /\ Current(b) \in DeliveriesOf(b) /\ Current(b) \in Deliveries
  BY CurrentIsListed
<1>2. Listed(b, Current(b), sender[b].at - 1) = {}
  BY <1>1, ListedTyped DEF Listed, EachOnce
<1>3. got[Current(b)] <= MaxAttempts * 0 + Tried(b, Current(b))
  BY <1>1, <1>2, FS_EmptySet DEF Counted
<1>4. got[Current(b)] \in Nat /\ sender[b].attempt \in 0..3
  BY <1>1 DEF TypeOK, Sender, MaxAttempts
<1>5. CASE sender[b].pc = "loading"
  <2>1. Tried(b, Current(b)) = 0
    BY <1>5 DEF SendersAt, SenderAt, Tried
  <2>. QED
    BY <1>1, <1>3, <1>4, <1>5, <2>1 DEF MaxAttempts
<1>6. CASE sender[b].pc = "sending"
  <2>1. sender[b].attempt >= 1
    BY <1>6 DEF SendersAt, SenderAt
  <2>2. Tried(b, Current(b)) = sender[b].attempt - 1
    BY <1>1, <1>4, <2>1, ListedTyped DEF Tried
  <2>. QED
    BY <1>1, <1>3, <1>4, <1>6, <2>1, <2>2 DEF MaxAttempts
<1>. QED
  BY <1>5, <1>6

LEMMA StepResults ==
  ASSUME EachOnce, SendInv, ResultsHonest, NEW b \in Batches, Commit(b) \/ SenderStep(b)
  PROVE  ResultsHonest'
<1>. USE DEF SendInv
<1>1. sender[b].attempt \in 0..MaxAttempts
  BY DEF TypeOK, Sender
<1>2. CASE Commit(b)
  <2>1. sender' = [sender EXCEPT ![b].pc = "committed"] /\ got' = got
    BY <1>2 DEF Commit
  <2>2. Moves(b, "committed", sender[b].attempt)
    BY <2>1, MovesTyped
  <2>. QED
    BY <2>1, <2>2, OthersAreHonest
<1>3. CASE Begin(b)
  <2>1. PICK pc \in {"over", "creating"} : sender' = [sender EXCEPT ![b].pc = pc]
    BY <1>3 DEF Begin
  <2>2. Moves(b, pc, sender[b].attempt) /\ got' = got
    BY <1>3, <2>1, MovesTyped DEF Begin
  <2>. QED
    BY <2>2, OthersAreHonest
<1>4. CASE Create(b)
  <2>1. sender' = [sender EXCEPT ![b].pc = "loading"] /\ got' = got
    BY <1>4 DEF Create
  <2>2. Moves(b, "loading", sender[b].attempt)
    BY <2>1, MovesTyped
  <2>. QED
    BY <2>1, <2>2, OthersAreHonest
<1>5. CASE LoadFails(b)
  <2>1. got[Current(b)] = 0 /\ got' = got /\ sender[b].pc = "loading" /\ EndDelivery(b, "error", 0)
    BY <1>5, FirstAttempts DEF LoadFails
  <2>2. Honest("error", 0, got'[Current(b)])
    BY <2>1 DEF Honest, Settled
  <2>. QED
    BY <2>1, <2>2, EndIsHonest, OneAttempt
<1>6. CASE Load(b)
  <2>1. got[Current(b)] = 0 /\ got' = got /\ sender[b].pc = "loading"
    BY <1>6, FirstAttempts DEF Load
  <2>2. CASE channels[ChannelOf[Current(b)]] = "off"
    <3>1. EndDelivery(b, "skipped", 0)
      BY <1>6, <2>2 DEF Load
    <3>2. Honest("skipped", 0, got'[Current(b)])
      BY <2>1 DEF Honest, Settled
    <3>. QED
      BY <2>1, <3>1, <3>2, EndIsHonest, OneAttempt
  <2>3. CASE channels[ChannelOf[Current(b)]] # "off"
    <3>1. Moves(b, "sending", 1)
      BY <1>6, <2>3, MovesTyped, OneAttempt DEF Load
    <3>. QED
      BY <2>1, <3>1, OthersAreHonest
  <2>. QED
    BY <2>2, <2>3
<1>7. CASE SendSucceeds(b)
  <2>1. /\ EndDelivery(b, "sent", sender[b].attempt) /\ sender[b].pc = "sending"
        /\ got' = [got EXCEPT ![Current(b)] = @ + 1]
    BY <1>7 DEF SendSucceeds
  <2>2. /\ Current(b) \in Deliveries /\ got[Current(b)] \in Nat
        /\ sender[b].attempt \in 1..3 /\ got[Current(b)] <= sender[b].attempt - 1
    BY <2>1, FirstAttempts DEF MaxAttempts
  <2>3. got'[Current(b)] = got[Current(b)] + 1
    BY <2>1, <2>2 DEF TypeOK
  <2>4. Honest("sent", sender[b].attempt, got'[Current(b)])
    BY <2>2, <2>3 DEF Honest
  <2>. QED
    BY <1>1, <2>1, <2>4, EndIsHonest
<1>8. CASE SendFails(b)
  <2>1. /\ sender[b].pc = "sending"
        /\ got' = got \/ got' = [got EXCEPT ![Current(b)] = @ + 1]
    BY <1>8 DEF SendFails
  <2>2. CASE sender[b].attempt < MaxAttempts
    <3>1. sender[b].attempt + 1 \in 0..MaxAttempts
      BY <1>1, <2>2 DEF MaxAttempts
    <3>2. sender' = [sender EXCEPT ![b].attempt = sender[b].attempt + 1]
      BY <1>8, <2>2 DEF SendFails
    <3>3. Moves(b, "sending", sender[b].attempt + 1)
      BY <2>1, <3>1, <3>2, MovesTyped
    <3>. QED
      BY <2>1, <3>3, OthersAreHonest
  <2>3. CASE ~(sender[b].attempt < MaxAttempts)
    <3>1. EndDelivery(b, "error", sender[b].attempt)
      BY <1>8, <2>3 DEF SendFails
    <3>2. /\ Current(b) \in Deliveries /\ got[Current(b)] \in Nat
          /\ sender[b].attempt \in 1..3 /\ got[Current(b)] <= sender[b].attempt - 1
      BY <2>1, FirstAttempts DEF MaxAttempts
    <3>3. got'[Current(b)] \in {got[Current(b)], got[Current(b)] + 1}
      BY <2>1, <3>2 DEF TypeOK
    <3>4. Honest("error", sender[b].attempt, got'[Current(b)])
      BY <3>2, <3>3 DEF Honest
    <3>. QED
      BY <1>1, <2>1, <3>1, <3>4, EndIsHonest
  <2>. QED
    BY <2>2, <2>3
<1>9. CASE Record(b)
  <2>1. Moves(b, "over", sender[b].attempt) /\ got' = got
    BY <1>9, MovesTyped DEF Record
  <2>. QED
    BY <2>1, OthersAreHonest
<1>10. CASE RecordFails(b)
  <2>1. Moves(b, "lost", sender[b].attempt) /\ got' = got
    BY <1>10, MovesTyped DEF RecordFails
  <2>. QED
    BY <2>1, OthersAreHonest
<1>. QED
  BY <1>2, <1>3, <1>4, <1>5, <1>6, <1>7, <1>8, <1>9, <1>10 DEF SenderStep

LEMMA StepRowsHonest ==
  ASSUME SendInv, ResultsHonest, StatusIsHonest, NEW b \in Batches,
         Commit(b) \/ SenderStep(b)
  PROVE  StatusIsHonest'
<1>. USE DEF SendInv
<1>. SUFFICES ASSUME NEW d \in Deliveries
              PROVE  Honest(rows'[d].status, rows'[d].attempts, got'[d])
  BY DEF StatusIsHonest, Honest
<1>1. Honest(rows[d].status, rows[d].attempts, got[d])
  BY DEF StatusIsHonest, Honest
<1>2. CASE d \notin DeliveriesOf(b)
  BY <1>1, <1>2, StepRows
<1>3. CASE d \in DeliveriesOf(b) /\ rows'[d].status \in Settled
  <2>1. rows[d].status \notin Settled
    BY <1>3, StepRows DEF SettledIsOver
  <2>2. /\ sender[b].pc = "recording"
        /\ rows'[d].status = sender[b].result[d].status
        /\ rows'[d].attempts = sender[b].result[d].attempts
    BY <1>3, <2>1, StepRows DEF RowStep, Settled
  <2>3. sender[b].at = Len(Queue[b]) + 1 /\ got' = got
    BY <2>2 DEF SendersAt, SenderAt, SenderStep, Commit, Begin, Create, LoadFails,
                Load, SendSucceeds, SendFails, Record, RecordFails
  <2>4. PICK k \in 1..Len(Queue[b]) : Queue[b][k] = d
    BY <1>3 DEF DeliveriesOf
  <2>5. k < sender[b].at
    BY <2>3, ListedTyped
  <2>. QED
    BY <2>2, <2>3, <2>4, <2>5 DEF ResultsHonest
<1>4. CASE rows'[d].status \notin Settled
  BY <1>4 DEF Honest, Settled
<1>. QED
  BY <1>2, <1>3, <1>4

LEMMA NextHonest ==
  ASSUME EachOnce, HonestInv, [Next]_vars
  PROVE  HonestInv'
<1>. USE DEF HonestInv
<1>1. SendInv'
  BY NextSend
<1>2. ASSUME NEW b \in Batches, Commit(b) \/ SenderStep(b)
      PROVE  ResultsHonest' /\ StatusIsHonest'
  BY <1>2, StepResults, StepRowsHonest
<1>3. ASSUME Outside
      PROVE  ResultsHonest' /\ StatusIsHonest'
  <2>1. Aside
    BY <1>3, OutsideIsAside DEF SendInv
  <2>2. ResultsHonest'
    BY <2>1 DEF Aside, ResultsHonest
  <2>3. StatusIsHonest'
    BY <2>1 DEF Aside, StatusIsHonest, Settled
  <2>. QED
    BY <2>2, <2>3
<1>4. ASSUME UNCHANGED vars
      PROVE  ResultsHonest' /\ StatusIsHonest'
  BY <1>4 DEF vars, ResultsHonest, StatusIsHonest
<1>5. ResultsHonest' /\ StatusIsHonest'
  BY <1>2, <1>3, <1>4, NextCases
<1>. QED
  BY <1>1, <1>5

\* What the record of an execution says of a delivery is true: what is called
\* sent was received, what is called skipped was not, and there were no more
\* receptions than attempts (runtime.go:292-357, store.go:222-245).
THEOREM RecordsAreTrue ==
  ASSUME EachOnce
  PROVE  Spec => []StatusIsHonest
<1>1. Init => HonestInv
  <2>. SUFFICES ASSUME Init PROVE HonestInv
    OBVIOUS
  <2>1. SendInv
    BY InitSend
  <2>2. ResultsHonest
    BY ListedTyped DEF Init, ResultsHonest, NoSender
  <2>3. StatusIsHonest
    BY DEF Init, StatusIsHonest, NoRow, Settled
  <2>. QED
    BY <2>1, <2>2, <2>3 DEF HonestInv
<1>2. HonestInv /\ [Next]_vars => HonestInv'
  BY NextHonest
<1>3. HonestInv => StatusIsHonest
  BY DEF HonestInv
<1>. QED
  BY <1>1, <1>2, <1>3, PTL DEF Spec
=============================================================================
