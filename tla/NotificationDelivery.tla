------------------------ MODULE NotificationDelivery ------------------------
(***************************************************************************)
(* From the committed execution to the receivers: sendNotificationEvents   *)
(* (internal/runtime/runtime.go), the rows of notification_deliveries      *)
(* (internal/store), the in-app notifier (internal/notification/inapp) and *)
(* the handlers that read, mark and delete those rows meanwhile.           *)
(*                                                                         *)
(* A delivery is one event on one channel; a batch is what one execution   *)
(* has to send, in the order of its events and of their channels.          *)
(*                                                                         *)
(* Abstracted: contents and templates (rendering is one way a send fails), *)
(* messages and times other than the order in which rows were created.     *)
(***************************************************************************)
EXTENDS Naturals, Sequences

CONSTANTS
  Batches,    \* executions with something to send
  Deliveries, \* pairs of an event and a channel
  Channels,   \* notification channels
  InApp,      \* the built-in channel
  ChannelOf,  \* the channel of a delivery
  Queue,      \* what a batch sends, in order
  Faults      \* which of "crash" and "record" may happen

\* Every event gets an identifier of its own (core.NewID), so no two batches
\* share a delivery.
ASSUME QueueAssumption ==
  /\ InApp \in Channels
  /\ ChannelOf \in [Deliveries -> Channels]
  /\ Queue \in [Batches -> Seq(Deliveries)]
  /\ \A a, b \in Batches : \A j \in 1..Len(Queue[a]), k \in 1..Len(Queue[b]) :
       Queue[a][j] = Queue[b][k] => a = b
  /\ Faults \subseteq {"crash", "record"}

VARIABLES
  rows,     \* notification_deliveries, by event and channel
  channels, \* notification_channels: on, off (disabled) or gone
  sender,   \* the goroutine of each batch
  got,      \* environment: how often the receiver got the delivery
  clock     \* creations of rows so far

vars == <<rows, channels, sender, got, clock>>

MaxAttempts == 3

Settled == {"sent", "skipped", "error"}

Row == [status : {"absent", "pending"} \cup Settled, attempts : 0..MaxAttempts,
        inapp : BOOLEAN, read : BOOLEAN, born : Nat]

NoRow == [status |-> "absent", attempts |-> 0, inapp |-> FALSE,
          read |-> FALSE, born |-> 0]

\* A new row: its notifier_type is "unknown" until the channel is loaded.
PendingRow(now) == [NoRow EXCEPT !.status = "pending", !.born = now]

Result == [status : {"pending"} \cup Settled, attempts : 0..MaxAttempts]

Unsent == [status |-> "pending", attempts |-> 0]

Sender == [pc : {"none", "committed", "creating", "loading", "sending",
                 "recording", "over", "lost"},
           at : Nat, attempt : 0..MaxAttempts, result : [Deliveries -> Result]]

NoSender == [pc |-> "none", at |-> 1, attempt |-> 0,
             result |-> [d \in Deliveries |-> Unsent]]

DeliveriesOf(b) == {Queue[b][k] : k \in 1..Len(Queue[b])}

Current(b) == Queue[b][sender[b].at]

Exists(d) == rows[d].status # "absent"

-----------------------------------------------------------------------------
(* The sender. *)

\* addPendingNotificationDeliveriesTx, in the transaction of the execution.
Commit(b) ==
  /\ sender[b].pc = "none"
  /\ clock' = clock + 1
  /\ rows' = [d \in Deliveries |->
                IF d \in DeliveriesOf(b) THEN PendingRow(clock) ELSE rows[d]]
  /\ sender' = [sender EXCEPT ![b].pc = "committed"]
  /\ UNCHANGED <<channels, got>>

\* go sendNotificationEvents; its first delivery, or nothing to send.
Begin(b) ==
  /\ sender[b].pc = "committed"
  /\ sender' = [sender EXCEPT ![b].pc =
                  IF Queue[b] = <<>> THEN "over" ELSE "creating"]
  /\ UNCHANGED <<rows, channels, got, clock>>

\* CreateNotificationDelivery inserts the row unless it is there (INSERT
\* IGNORE); when it was pruned or deleted meanwhile, it comes back.  An error
\* is only logged.
Create(b) ==
  /\ sender[b].pc = "creating"
  /\ \/ /\ ~Exists(Current(b))
        /\ rows' = [rows EXCEPT ![Current(b)] = PendingRow(clock)]
        /\ clock' = clock + 1
     \/ UNCHANGED <<rows, clock>>
  /\ sender' = [sender EXCEPT ![b].pc = "loading"]
  /\ UNCHANGED <<channels, got>>

\* The delivery of batch b ends with this result: the next one follows, or
\* the recording of all of them.
EndDelivery(b, status, attempts) ==
  LET s == sender[b]
  IN  sender' = [sender EXCEPT ![b] =
        [pc |-> IF s.at = Len(Queue[b]) THEN "recording" ELSE "creating",
         at |-> s.at + 1,
         attempt |-> 0,
         result |-> [s.result EXCEPT ![Current(b)] =
                       [status |-> status, attempts |-> attempts]]]]

\* GetChannel fails: the channel is gone, or the database does not answer.
LoadFails(b) ==
  /\ sender[b].pc = "loading"
  /\ EndDelivery(b, "error", 0)
  /\ UNCHANGED <<rows, channels, got, clock>>

\* GetChannel succeeds; UpdateNotificationDeliveryNotifier stores the type in
\* the row, if it is there, and only logs an error.
Load(b) ==
  LET d == Current(b)
      c == ChannelOf[d]
  IN  /\ sender[b].pc = "loading"
      /\ channels[c] # "gone"
      /\ \/ rows' = [rows EXCEPT ![d].inapp = @ \/ (c = InApp /\ Exists(d))]
         \/ UNCHANGED rows
      /\ IF channels[c] = "off"
         THEN EndDelivery(b, "skipped", 0)
         ELSE sender' = [sender EXCEPT ![b] = [@ EXCEPT !.pc = "sending",
                                                        !.attempt = 1]]
      /\ UNCHANGED <<channels, got, clock>>

\* notifier.Send succeeds.  The in-app notifier finds the row by its type and
\* publishes it as created; the others reach a receiver.
SendSucceeds(b) ==
  LET d == Current(b)
  IN  /\ sender[b].pc = "sending"
      /\ ChannelOf[d] = InApp => Exists(d) /\ rows[d].inapp
      /\ got' = [got EXCEPT ![d] = @ + 1]
      /\ EndDelivery(b, "sent", sender[b].attempt)
      /\ UNCHANGED <<rows, channels, clock>>

\* Faults: the attempts are not counted; the last failure is taken for a
\* success.
SendFailsUncounted(b) ==
  LET d == Current(b)
  IN  /\ sender[b].pc = "sending"
      /\ \/ got' = got
         \/ ChannelOf[d] # InApp /\ got' = [got EXCEPT ![d] = @ + 1]
      /\ UNCHANGED <<rows, channels, sender, clock>>

SendFailureLost(b) ==
  LET d == Current(b)
  IN  /\ sender[b].pc = "sending"
      /\ got' = got
      /\ IF sender[b].attempt < MaxAttempts
         THEN sender' = [sender EXCEPT ![b].attempt = @ + 1]
         ELSE EndDelivery(b, "sent", sender[b].attempt)
      /\ UNCHANGED <<rows, channels, clock>>

\* notifier.Send fails or times out after 20 seconds.  The receiver of a
\* Webhook or a mail may have got it all the same.
SendFails(b) ==
  LET d == Current(b)
  IN  /\ sender[b].pc = "sending"
      /\ \/ got' = got
         \/ ChannelOf[d] # InApp /\ got' = [got EXCEPT ![d] = @ + 1]
      /\ IF sender[b].attempt < MaxAttempts
         THEN sender' = [sender EXCEPT ![b].attempt = @ + 1]
         ELSE EndDelivery(b, "error", sender[b].attempt)
      /\ UNCHANGED <<rows, channels, clock>>

\* Fault: the rows are inserted again when they are gone.
RecordUpserts(b) ==
  /\ sender[b].pc = "recording"
  /\ rows' = [d \in Deliveries |->
       IF d \in DeliveriesOf(b)
       THEN [rows[d] EXCEPT !.status = sender[b].result[d].status,
                            !.attempts = sender[b].result[d].attempts]
       ELSE rows[d]]
  /\ sender' = [sender EXCEPT ![b].pc = "over"]
  /\ UNCHANGED <<channels, got, clock>>

\* Fault: only successes are recorded.
RecordSuccesses(b) ==
  /\ sender[b].pc = "recording"
  /\ rows' = [d \in Deliveries |->
       IF d \in DeliveriesOf(b) /\ Exists(d)
            /\ sender[b].result[d].status = "sent"
       THEN [rows[d] EXCEPT !.status = sender[b].result[d].status,
                            !.attempts = sender[b].result[d].attempts]
       ELSE rows[d]]
  /\ sender' = [sender EXCEPT ![b].pc = "over"]
  /\ UNCHANGED <<channels, got, clock>>

\* UpdateRecordNotificationEvents: one transaction for the whole batch; rows
\* that are gone stay gone.
Record(b) ==
  /\ sender[b].pc = "recording"
  /\ rows' = [d \in Deliveries |->
       IF d \in DeliveriesOf(b) /\ Exists(d)
       THEN [rows[d] EXCEPT !.status = sender[b].result[d].status,
                            !.attempts = sender[b].result[d].attempts]
       ELSE rows[d]]
  /\ sender' = [sender EXCEPT ![b].pc = "over"]
  /\ UNCHANGED <<channels, got, clock>>

\* It fails and is only logged: the rows stay pending.
RecordFails(b) ==
  /\ "record" \in Faults
  /\ sender[b].pc = "recording"
  /\ sender' = [sender EXCEPT ![b].pc = "lost"]
  /\ UNCHANGED <<rows, channels, got, clock>>

-----------------------------------------------------------------------------
(* Meanwhile. *)

\* handleChannels: PATCH of enabled, and DELETE except of the built-in channel.
UpdateChannel(c, state) ==
  /\ channels[c] # "gone"
  /\ state = "gone" => c # InApp
  /\ channels' = [channels EXCEPT ![c] = state]
  /\ UNCHANGED <<rows, sender, got, clock>>

\* markInAppNotificationRead, and markAllInAppNotificationsRead for every row.
MarkRead(ds) ==
  /\ rows' = [d \in Deliveries |->
       IF d \in ds /\ rows[d].inapp THEN [rows[d] EXCEPT !.read = TRUE]
       ELSE rows[d]]
  /\ UNCHANGED <<channels, sender, got, clock>>

\* deleteReadInAppNotifications.
DeleteRead ==
  /\ rows' = [d \in Deliveries |->
       IF rows[d].inapp /\ rows[d].read THEN NoRow ELSE rows[d]]
  /\ UNCHANGED <<channels, sender, got, clock>>

\* PruneNotificationDeliveries: the rows created before some time.
Prune(before) ==
  /\ rows' = [d \in Deliveries |->
       IF rows[d].born < before THEN NoRow ELSE rows[d]]
  /\ UNCHANGED <<channels, sender, got, clock>>

\* The process stops; senders are neither awaited nor started again.
Crash ==
  /\ "crash" \in Faults
  /\ sender' = [b \in Batches |->
       IF sender[b].pc \in {"none", "over"} THEN sender[b]
       ELSE [sender[b] EXCEPT !.pc = "lost"]]
  /\ UNCHANGED <<rows, channels, got, clock>>

-----------------------------------------------------------------------------

Init ==
  /\ rows = [d \in Deliveries |-> NoRow]
  /\ channels \in [Channels -> {"on", "off"}]
  /\ sender = [b \in Batches |-> NoSender]
  /\ got = [d \in Deliveries |-> 0]
  /\ clock = 0

SenderStep(b) ==
  \/ Begin(b) \/ Create(b) \/ LoadFails(b) \/ Load(b)
  \/ SendSucceeds(b) \/ SendFails(b) \/ Record(b) \/ RecordFails(b)

Next ==
  \/ \E b \in Batches : Commit(b) \/ SenderStep(b)
  \/ \E c \in Channels, state \in {"on", "off", "gone"} :
       UpdateChannel(c, state)
  \/ \E ds \in {{d} : d \in Deliveries} \cup {Deliveries} : MarkRead(ds)
  \/ DeleteRead
  \/ \E before \in 1..clock : Prune(before)
  \/ Crash

Spec == Init /\ [][Next]_vars

\* The goroutine runs, and every Send returns within its timeout.
Fairness == \A b \in Batches : WF_vars(SenderStep(b))

FairSpec == Spec /\ Fairness

-----------------------------------------------------------------------------
(* Properties. *)

TypeOK ==
  /\ rows \in [Deliveries -> Row]
  /\ channels \in [Channels -> {"on", "off", "gone"}]
  /\ sender \in [Batches -> Sender]
  /\ got \in [Deliveries -> Nat]
  /\ clock \in Nat

\* What the record of an execution says of a delivery is true: "sent" was
\* received, "skipped" was not, and no more receptions than attempts were
\* made (runtime.go:292-357, store.go:222-245).
StatusIsHonest ==
  \A d \in Deliveries :
    /\ rows[d].status = "sent" => got[d] > 0
    /\ rows[d].status = "skipped" => got[d] = 0
    /\ rows[d].status \in Settled => got[d] <= rows[d].attempts

\* "Each channel is tried at most 3 times" (docs/guide/notifications.md:14).
AtMostThreeReceptions == \A d \in Deliveries : got[d] <= MaxAttempts

\* A settled status is never taken back, and none appears out of nothing:
\* INSERT IGNORE, a late sender and the cleanup may meet in any order.
SettledStays ==
  [][\A d \in Deliveries :
       /\ rows[d].status \in Settled =>
            rows'[d].status \in {rows[d].status, "absent"}
       /\ rows[d].status = "absent" =>
            rows'[d].status \in {"absent", "pending"}]_vars

\* No delivery stays pending, whatever is deleted or disabled meanwhile, except
\* those of a sender that the end of the process or the failure of its last
\* update cut short: nothing resumes these (runtime.go:280-290).
PendingIsSettled ==
  \A d \in Deliveries :
    rows[d].status = "pending" ~>
      \/ rows[d].status # "pending"
      \/ \E b \in Batches : d \in DeliveriesOf(b) /\ sender[b].pc = "lost"

\* What every state of the sender keeps: rows of their type, and never more
\* than three receptions by a channel, however attempts and answers end
\* (sendNotification, runtime.go:328-351).
DeliveriesInv == TypeOK /\ AtMostThreeReceptions
=============================================================================
