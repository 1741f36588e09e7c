-------------------------- MODULE MonitorExecution --------------------------
(***************************************************************************)
(* The execution of monitors: the Runner with its lock per monitor         *)
(* (internal/runtime/runtime.go), the evaluation of the status board       *)
(* (internal/statusboard/service.go), the transaction that commits an      *)
(* execution (internal/store/status_board.go) and the API handlers that    *)
(* read and write the same rows without the lock (internal/api).           *)
(*                                                                         *)
(* An execution reads the monitor and the board items, works for a long    *)
(* time without any database lock, and writes back states computed from    *)
(* what it read.  Each read and each write is a step of its own here.      *)
(*                                                                         *)
(* Abstracted: the observation of a module (any condition state may come   *)
(* out), the trend computation (any of true, false, unknown; see           *)
(* StatusTrend), one trend rule per item, and every event has at least one *)
(* channel.  The sending of notifications is NotificationDelivery.         *)
(***************************************************************************)
EXTENDS Integers, FiniteSets

CONSTANTS
  Monitors,  \* monitor identifiers
  Items,     \* status board item identifiers
  Calls,     \* goroutines that may execute Run or TryRun
  Requests,  \* API requests that read a row and write it later
  Ops,       \* the kinds of requests clients issue, beyond runs and creations
  MaxRuns,   \* bound: executions that reach the module
  Nobody     \* no call, and no monitor

ASSUME ConstantsAssumption ==
  /\ Nobody \notin Calls \cup Monitors
  /\ Monitors \cap Items = {}
  /\ Ops \subseteq {"updateMonitor", "deleteMonitor", "deleteRecords",
                    "updateItem", "deleteItem"}
  /\ MaxRuns \in Nat

VARIABLES
  monitors,    \* rows of table monitors that exist
  policy,      \* notification_policy in their condition_config_json
  active,      \* condition_active and RuntimeState.ConditionActive
  lastRecord,  \* RuntimeState.LastRecordID, 0 after a reset
  items,       \* rows of status_board_items that exist
  owner,       \* monitor_id of an item
  enabled,     \* enabled of an item
  ruleActive,  \* Active of the item's trend rule in runtime_state_json
  records,     \* rows of monitor_records
  events,      \* rows of notification_deliveries, one per event
  sending,     \* executions whose sendNotificationEvents goroutine runs
  holder,      \* Runner.locks: the call that holds the monitor's mutex
  call,        \* the Run and TryRun calls
  request,     \* the API requests between their read and their write
  nextRecord,  \* core.NewID for records, in order of allocation
  book,        \* history: what was announced about each monitor
  trend        \* history: what was announced about each item's rule

tables == <<monitors, policy, active, lastRecord, items, owner, enabled,
            ruleActive, records, events>>
history == <<book, trend>>
vars == <<tables, sending, holder, call, request, nextRecord, history>>

Policies == {"once", "every"}
Trivalent == {"true", "false", "unknown"}
Event == {"none", "triggered", "recovered"}

MonitorLedger == INSTANCE AlertLedger
                   WITH Subjects <- Monitors, Repeats <- Monitors
TrendLedger == INSTANCE AlertLedger
                 WITH Subjects <- Items, Repeats <- {}, book <- trend

-----------------------------------------------------------------------------
(* Calls of the runner. *)

Phases == {"idle", "waiting", "locked", "executing", "evaluating",
           "committing", "committed"}

\* The phases between lock.Lock (or TryLock) and the deferred Unlock.
Inside == Phases \ {"idle", "waiting"}

\* The phases in which the call carries a snapshot of the monitor's row.
Informed == {"executing", "evaluating", "committing"}

CallRecord == [pc : Phases, monitor : Monitors \cup {Nobody},
               policy : Policies, active : BOOLEAN, state : Trivalent,
               record : Nat, judged : SUBSET Items,
               verdict : [Items -> BOOLEAN], flip : [Items -> Event]]

\* A goroutine outside the runner.
NoCall == [pc |-> "idle", monitor |-> Nobody, policy |-> "once",
           active |-> FALSE, state |-> "unknown", record |-> 0, judged |-> {},
           verdict |-> [i \in Items |-> FALSE],
           flip |-> [i \in Items |-> "none"]]

\* A goroutine that asked for monitor m.
Asking(m, pc) == [NoCall EXCEPT !.pc = pc, !.monitor = m]

\* runLocked returns: the deferred Unlock runs with it.
Return(c) ==
  /\ call' = [call EXCEPT ![c] = NoCall]
  /\ holder' = [holder EXCEPT ![call[c].monitor] = Nobody]

\* Bound: no call starts once MaxRuns executions are accounted for.
Budget ==
  nextRecord + Cardinality({c \in Calls : call[c].pc # "idle"}) <= MaxRuns

\* Runner.Run from the API: it blocks until it gets the monitor's mutex.
Run(c, m) ==
  /\ call[c].pc = "idle"
  /\ Budget
  /\ call' = [call EXCEPT ![c] = Asking(m, "waiting")]
  /\ UNCHANGED <<tables, sending, holder, request, nextRecord, history>>

\* Fault: the mutex is not waited for.
AcquireTaken(c) ==
  /\ call[c].pc = "waiting"
  /\ holder' = [holder EXCEPT ![call[c].monitor] = c]
  /\ call' = [call EXCEPT ![c].pc = "locked"]
  /\ UNCHANGED <<tables, sending, request, nextRecord, history>>

Acquire(c) ==
  /\ call[c].pc = "waiting"
  /\ holder[call[c].monitor] = Nobody
  /\ holder' = [holder EXCEPT ![call[c].monitor] = c]
  /\ call' = [call EXCEPT ![c].pc = "locked"]
  /\ UNCHANGED <<tables, sending, request, nextRecord, history>>

\* Fault: TryRun does not look at the mutex.
TryRunTaken(c, m) ==
  /\ call[c].pc = "idle"
  /\ Budget
  /\ holder' = [holder EXCEPT ![m] = c]
  /\ call' = [call EXCEPT ![c] = Asking(m, "locked")]
  /\ UNCHANGED <<tables, sending, request, nextRecord, history>>

\* Runner.TryRun from the scheduler.  When the mutex is taken it returns
\* ErrMonitorRunning and nothing changes.
TryRun(c, m) ==
  /\ call[c].pc = "idle"
  /\ Budget
  /\ holder[m] = Nobody
  /\ holder' = [holder EXCEPT ![m] = c]
  /\ call' = [call EXCEPT ![c] = Asking(m, "locked")]
  /\ UNCHANGED <<tables, sending, request, nextRecord, history>>

\* GetMonitor finds no row, the module is missing or has another version, or
\* LatestSuccessfulRecord fails: runLocked returns an error.
LoadFails(c) ==
  /\ call[c].pc = "locked"
  /\ Return(c)
  /\ UNCHANGED <<tables, sending, request, nextRecord, history>>

\* GetMonitor and LatestSuccessfulRecord succeed, and the module starts.
Load(c) ==
  /\ call[c].pc = "locked"
  /\ call[c].monitor \in monitors
  /\ call' = [call EXCEPT ![c] =
                [@ EXCEPT !.pc = "executing",
                          !.policy = policy[call[c].monitor],
                          !.active = active[call[c].monitor]]]
  /\ UNCHANGED <<tables, sending, holder, request, nextRecord, history>>

EventOnLevel(state, was, pol) ==
  CASE state = "true" -> "triggered"
    [] state = "false" /\ was -> "recovered"
    [] OTHER -> "none"

\* The event an execution announces: state is what the conditions yield, was
\* the activity read, pol the notification policy ...
EventOf(state, was, pol) ==
  CASE state = "true" /\ (pol = "every" \/ ~was) -> "triggered"
    [] state = "false" /\ was -> "recovered"
    [] OTHER -> "none"

\* Fault: a recovery does not clear the activity.
ActiveSticks(state, was) == was \/ state = "true"

\* ... and the activity it leaves: unknown keeps what was read.
ActiveAfter(state, was) ==
  IF state = "unknown" THEN was ELSE state = "true"

\* Fault: two executions may share a number.
ExecuteReusesNumber(c, state) ==
  /\ call[c].pc = "executing"
  /\ nextRecord' \in {nextRecord, nextRecord + 1}
  /\ call' = [call EXCEPT ![c] = [@ EXCEPT !.pc = "evaluating",
                                           !.state = state,
                                           !.record = nextRecord]]
  /\ UNCHANGED <<tables, sending, holder, request, history>>

\* module.Execute returns and EvaluateConditions yields the state.
Execute(c, state) ==
  /\ call[c].pc = "executing"
  /\ nextRecord' = nextRecord + 1
  /\ call' = [call EXCEPT ![c] = [@ EXCEPT !.pc = "evaluating",
                                           !.state = state,
                                           !.record = nextRecord]]
  /\ UNCHANGED <<tables, sending, holder, request, history>>

\* Fault: a rule that stays true triggers again.
FlipOnLevel(t, was) ==
  CASE t = "true" -> "triggered"
    [] t = "false" /\ was -> "recovered"
    [] OTHER -> "none"

\* The flip of a trend rule whose evaluation yields t and whose stored
\* Active was read as was.
FlipOf(t, was) ==
  CASE t = "true" /\ ~was -> "triggered"
    [] t = "false" /\ was -> "recovered"
    [] OTHER -> "none"

\* Service.EvaluateExecution: every enabled item of the monitor is read and
\* judged; nothing is written yet.
EvaluateBoard(c) ==
  LET mine == {i \in items : owner[i] = call[c].monitor /\ enabled[i]}
  IN  /\ call[c].pc = "evaluating"
      /\ \E t \in [mine -> Trivalent] :
           call' = [call EXCEPT ![c] =
             [@ EXCEPT
                !.pc = "committing",
                !.judged = mine,
                !.verdict = [i \in Items |->
                  i \in mine /\ ActiveAfter(t[i], ruleActive[i])],
                !.flip = [i \in Items |->
                  IF i \in mine THEN FlipOf(t[i], ruleActive[i]) ELSE "none"]]]
      /\ UNCHANGED <<tables, sending, holder, request, nextRecord, history>>

\* EvaluateExecution fails: the execution is committed without item states.
EvaluateBoardFails(c) ==
  /\ call[c].pc = "evaluating"
  /\ call' = [call EXCEPT ![c].pc = "committing"]
  /\ UNCHANGED <<tables, sending, holder, request, nextRecord, history>>

-----------------------------------------------------------------------------
(* CommitMonitorExecution: one transaction. *)

CommittedEvent(c) == EventOf(call[c].state, call[c].active, call[c].policy)

\* Fault: the events of trend rules are not persisted.
NoticesOfMonitor(c) ==
  {[record |-> call[c].record, subject |-> call[c].monitor,
    event |-> e] : e \in {CommittedEvent(c)} \ {"none"}}

Notices(c) ==
  {[record |-> call[c].record, subject |-> call[c].monitor,
    event |-> e] : e \in {CommittedEvent(c)} \ {"none"}}
    \cup {[record |-> call[c].record, subject |-> i,
           event |-> call[c].flip[i]] :
             i \in {j \in call[c].judged : call[c].flip[j] # "none"}}

Announce(c) ==
  /\ book' = IF CommittedEvent(c) = "none" THEN book
             ELSE [book EXCEPT ![call[c].monitor] =
                     MonitorLedger!Written(@, CommittedEvent(c))]
  /\ trend' = [i \in Items |->
                 IF call[c].flip[i] = "none" THEN trend[i]
                 ELSE TrendLedger!Written(trend[i], call[c].flip[i])]

\* Every row the execution updates still exists.
Commit(c) ==
  /\ call[c].pc = "committing"
  /\ call[c].monitor \in monitors
  /\ call[c].judged \subseteq items
  /\ records' = records \cup {[id |-> call[c].record,
                               monitor |-> call[c].monitor]}
  /\ events' = events \cup Notices(c)
  /\ active' = [active EXCEPT ![call[c].monitor] =
                  ActiveAfter(call[c].state, call[c].active)]
  /\ lastRecord' = [lastRecord EXCEPT ![call[c].monitor] = call[c].record]
  /\ ruleActive' = [i \in Items |-> IF i \in call[c].judged
                                    THEN call[c].verdict[i]
                                    ELSE ruleActive[i]]
  /\ Announce(c)
  /\ call' = [call EXCEPT ![c].pc = "committed"]
  /\ UNCHANGED <<monitors, policy, items, owner, enabled, sending, holder,
                 request, nextRecord>>

\* Fault: the error path keeps the mutex.
CommitFailsLocked(c) ==
  /\ call[c].pc = "committing"
  /\ call' = [call EXCEPT ![c] = NoCall]
  /\ UNCHANGED <<tables, sending, holder, request, nextRecord, history>>

\* A row is gone, the context is cancelled or the database fails: the
\* transaction rolls back and runLocked returns the error.
CommitFails(c) ==
  /\ call[c].pc = "committing"
  /\ Return(c)
  /\ UNCHANGED <<tables, sending, request, nextRecord, history>>

\* The sender is started when there is something to send, and the call returns.
Finish(c) ==
  /\ call[c].pc = "committed"
  /\ sending' = sending \cup
       (IF \E e \in events : e.record = call[c].record
        THEN {call[c].record} ELSE {})
  /\ Return(c)
  /\ UNCHANGED <<tables, request, nextRecord, history>>

\* sendNotificationEvents returns.
SenderReturns(r) ==
  /\ r \in sending
  /\ sending' = sending \ {r}
  /\ UNCHANGED <<tables, holder, call, request, nextRecord, history>>

-----------------------------------------------------------------------------
(* API handlers.  updateMonitor, updateStatusBoardItem and the deletion of   *)
(* records are two steps: a read (or a first write), then a write.           *)

NoRequest == [op |-> "none", target |-> Nobody, policy |-> "once",
              owner |-> Nobody, enabled |-> FALSE, active |-> FALSE,
              reset |-> FALSE]

RequestRecord ==
  [op : {"none", "updateMonitor", "updateItem", "deleteRecords"},
   target : Monitors \cup Items \cup {Nobody}, policy : Policies,
   owner : Monitors \cup {Nobody}, enabled : BOOLEAN, active : BOOLEAN,
   reset : BOOLEAN]

Idle(q) == request[q].op = "none"

Done(q) == request' = [request EXCEPT ![q] = NoRequest]

\* history: an operator resets the stored state of these monitors or items.
Forget(ms, is) ==
  /\ book' = [m \in Monitors |->
       IF m \in ms THEN [book[m] EXCEPT !.reopened = TRUE] ELSE book[m]]
  /\ trend' = [i \in Items |->
       IF i \in is THEN [trend[i] EXCEPT !.reopened = TRUE] ELSE trend[i]]

\* createMonitor; also importConfiguration, which may bring an identifier back.
CreateMonitor(m, p) ==
  /\ m \notin monitors
  /\ monitors' = monitors \cup {m}
  /\ policy' = [policy EXCEPT ![m] = p]
  /\ active' = [active EXCEPT ![m] = FALSE]
  /\ lastRecord' = [lastRecord EXCEPT ![m] = 0]
  /\ Forget({m}, {})
  /\ UNCHANGED <<items, owner, enabled, ruleActive, records, events, sending,
                 holder, call, request, nextRecord>>

\* updateMonitor reads the row and applies the payload: p is the policy of the
\* payload, or the one read when the payload has no condition_config.
ReadMonitor(q, m, p) ==
  /\ "updateMonitor" \in Ops
  /\ Idle(q)
  /\ m \in monitors
  /\ request' = [request EXCEPT ![q] =
       [NoRequest EXCEPT !.op = "updateMonitor", !.target = m, !.policy = p]]
  /\ UNCHANGED <<tables, sending, holder, call, nextRecord, history>>

\* UpdateMonitor writes every column, RuntimeState "{}" among them.  It
\* touches no row when the monitor is gone.
WriteMonitor(q) ==
  /\ request[q].op = "updateMonitor"
  /\ IF request[q].target \in monitors
     THEN /\ policy' = [policy EXCEPT ![request[q].target] = request[q].policy]
          /\ active' = [active EXCEPT ![request[q].target] = FALSE]
          /\ lastRecord' = [lastRecord EXCEPT ![request[q].target] = 0]
          /\ Forget({request[q].target}, {})
     ELSE UNCHANGED <<policy, active, lastRecord, history>>
  /\ Done(q)
  /\ UNCHANGED <<monitors, items, owner, enabled, ruleActive, records, events,
                 sending, holder, call, nextRecord>>

\* DELETE of a monitor; its records and items go with it (ON DELETE CASCADE).
DeleteMonitor(m) ==
  /\ "deleteMonitor" \in Ops
  /\ m \in monitors
  /\ monitors' = monitors \ {m}
  /\ items' = {i \in items : owner[i] # m}
  /\ records' = {r \in records : r.monitor # m}
  /\ UNCHANGED <<policy, active, lastRecord, owner, enabled, ruleActive,
                 events, sending, holder, call, request, nextRecord, history>>

\* DELETE of a monitor's records: DeleteMonitorRecords ...
DeleteRecords(q, m) ==
  /\ "deleteRecords" \in Ops
  /\ Idle(q)
  /\ m \in monitors
  /\ records' = {r \in records : r.monitor # m}
  /\ request' = [request EXCEPT ![q] =
       [NoRequest EXCEPT !.op = "deleteRecords", !.target = m]]
  /\ UNCHANGED <<monitors, policy, active, lastRecord, items, owner, enabled,
                 ruleActive, events, sending, holder, call, nextRecord,
                 history>>

\* ... then ResetStatusBoardRuntimeByMonitor, which may fail unnoticed.
ResetBoard(q) ==
  LET mine == {i \in items : owner[i] = request[q].target}
  IN  /\ request[q].op = "deleteRecords"
      /\ \/ /\ ruleActive' = [i \in Items |-> ruleActive[i] /\ i \notin mine]
            /\ Forget({}, mine)
         \/ UNCHANGED <<ruleActive, history>>
      /\ Done(q)
      /\ UNCHANGED <<monitors, policy, active, lastRecord, items, owner,
                     enabled, records, events, sending, holder, call,
                     nextRecord>>

\* createStatusBoardItem: a new item with a fresh runtime state on an existing
\* monitor; or importConfiguration restoring an item under its own monitor.
CreateItem(i, m) ==
  /\ i \notin items
  /\ owner[i] \in {Nobody, m}
  /\ m \in monitors
  /\ items' = items \cup {i}
  /\ owner' = [owner EXCEPT ![i] = m]
  /\ enabled' = [enabled EXCEPT ![i] = TRUE]
  /\ ruleActive' = [ruleActive EXCEPT ![i] = FALSE]
  /\ Forget({}, {i})
  /\ UNCHANGED <<monitors, policy, active, lastRecord, records, events,
                 sending, holder, call, request, nextRecord>>

\* updateStatusBoardItem reads the row and applies the payload (the new
\* monitor m and enabled flag e, which may equal those read); reset is true
\* when the payload changes the evaluation or the rules.
ReadItem(q, i, m, e, reset) ==
  /\ "updateItem" \in Ops
  /\ Idle(q)
  /\ i \in items
  /\ m \in monitors
  /\ request' = [request EXCEPT ![q] =
       [op |-> "updateItem", target |-> i, policy |-> "once", owner |-> m,
        enabled |-> e, active |-> ~reset /\ ruleActive[i], reset |-> reset]]
  /\ UNCHANGED <<tables, sending, holder, call, nextRecord, history>>

\* UpdateStatusBoardItem writes every column, the runtime state read included.
\* No row is touched when the item is gone; the foreign key refuses an owner
\* that is gone.
WriteItem(q) ==
  /\ request[q].op = "updateItem"
  /\ IF request[q].target \in items /\ request[q].owner \in monitors
     THEN /\ owner' = [owner EXCEPT ![request[q].target] = request[q].owner]
          /\ enabled' = [enabled EXCEPT ![request[q].target] =
                           request[q].enabled]
          /\ ruleActive' = [ruleActive EXCEPT ![request[q].target] =
                              request[q].active]
          /\ Forget({}, IF request[q].reset THEN {request[q].target} ELSE {})
     ELSE UNCHANGED <<owner, enabled, ruleActive, history>>
  /\ Done(q)
  /\ UNCHANGED <<monitors, policy, active, lastRecord, items, records, events,
                 sending, holder, call, nextRecord>>

\* deleteStatusBoardItem.
DeleteItem(i) ==
  /\ "deleteItem" \in Ops
  /\ i \in items
  /\ items' = items \ {i}
  /\ UNCHANGED <<monitors, policy, active, lastRecord, owner, enabled,
                 ruleActive, records, events, sending, holder, call, request,
                 nextRecord, history>>

-----------------------------------------------------------------------------
(* The process stops and starts again: memory is lost, the tables are not. *)

Restart ==
  /\ call' = [c \in Calls |-> NoCall]
  /\ holder' = [m \in Monitors |-> Nobody]
  /\ request' = [q \in Requests |-> NoRequest]
  /\ sending' = {}
  /\ UNCHANGED <<tables, nextRecord, history>>

-----------------------------------------------------------------------------

Init ==
  /\ monitors = {}
  /\ policy = [m \in Monitors |-> "once"]
  /\ active = [m \in Monitors |-> FALSE]
  /\ lastRecord = [m \in Monitors |-> 0]
  /\ items = {}
  /\ owner = [i \in Items |-> Nobody]
  /\ enabled = [i \in Items |-> FALSE]
  /\ ruleActive = [i \in Items |-> FALSE]
  /\ records = {}
  /\ events = {}
  /\ sending = {}
  /\ holder = [m \in Monitors |-> Nobody]
  /\ call = [c \in Calls |-> NoCall]
  /\ request = [q \in Requests |-> NoRequest]
  /\ nextRecord = 1
  /\ MonitorLedger!Init
  /\ TrendLedger!Init

CallStep(c) ==
  \/ Acquire(c) \/ LoadFails(c) \/ Load(c)
  \/ \E state \in Trivalent : Execute(c, state)
  \/ EvaluateBoard(c) \/ EvaluateBoardFails(c)
  \/ Commit(c) \/ CommitFails(c) \/ Finish(c)

StartCall == \E c \in Calls, m \in Monitors : Run(c, m) \/ TryRun(c, m)

MonitorRequest ==
  \/ \E m \in Monitors, p \in Policies : CreateMonitor(m, p)
  \/ \E m \in Monitors : DeleteMonitor(m)
  \/ \E q \in Requests, m \in Monitors :
       \/ \E p \in Policies : ReadMonitor(q, m, p)
       \/ DeleteRecords(q, m)
  \/ \E q \in Requests : WriteMonitor(q) \/ ResetBoard(q)

ItemRequest ==
  \/ \E i \in Items, m \in Monitors : CreateItem(i, m)
  \/ \E i \in Items : DeleteItem(i)
  \/ \E q \in Requests, i \in Items, m \in Monitors, e, reset \in BOOLEAN :
       ReadItem(q, i, m, e, reset)
  \/ \E q \in Requests : WriteItem(q)

Next ==
  \/ StartCall
  \/ \E c \in Calls : CallStep(c)
  \/ \E r \in sending : SenderReturns(r)
  \/ MonitorRequest
  \/ ItemRequest
  \/ Restart

Spec == Init /\ [][Next]_vars

\* A goroutine that can run runs; a blocked Lock is granted in the end
\* (sync.Mutex hands over to a starving waiter and then refuses TryLock); a
\* module returns.  Nothing is assumed of clients, failures or restarts.
Fairness ==
  \A c \in Calls :
    /\ SF_vars(Acquire(c))
    /\ WF_vars(\/ LoadFails(c) \/ Load(c)
               \/ \E state \in Trivalent : Execute(c, state)
               \/ EvaluateBoard(c) \/ EvaluateBoardFails(c)
               \/ Commit(c) \/ CommitFails(c) \/ Finish(c))

FairSpec == Spec /\ Fairness

-----------------------------------------------------------------------------
(* Properties. *)

TypeOK ==
  /\ monitors \subseteq Monitors
  /\ policy \in [Monitors -> Policies]
  /\ active \in [Monitors -> BOOLEAN]
  /\ lastRecord \in [Monitors -> Nat]
  /\ items \subseteq Items
  /\ owner \in [Items -> Monitors \cup {Nobody}]
  /\ enabled \in [Items -> BOOLEAN]
  /\ ruleActive \in [Items -> BOOLEAN]
  /\ records \subseteq [id : Nat, monitor : Monitors]
  /\ events \subseteq [record : Nat, subject : Monitors \cup Items,
                       event : Event]
  /\ sending \subseteq Nat
  /\ holder \in [Monitors -> Calls \cup {Nobody}]
  /\ call \in [Calls -> CallRecord]
  /\ request \in [Requests -> RequestRecord]
  /\ nextRecord \in Nat \ {0}
  /\ book \in [Monitors -> MonitorLedger!Page]
  /\ trend \in [Items -> TrendLedger!Page]

\* A monitor is executed by one call at a time (runtime.go:48-73;
\* docs/guide/monitoring.md: "the same monitor is never executed concurrently").
OneExecutionPerMonitor ==
  \A c, d \in Calls :
    /\ call[c].pc \in Inside
    /\ call[d].pc \in Inside
    /\ call[c].monitor = call[d].monitor
    => c = d

\* Whoever sees a monitor active can find the trigger among the committed
\* events, and no recovery was announced since: the stored state never runs
\* ahead of what was announced (CommitMonitorExecution writes both).
ActiveWasAnnounced ==
  /\ \A m \in Monitors : active[m] =>
       /\ book[m].last = "triggered"
       /\ \E e \in events : e.subject = m /\ e.event = "triggered"
  /\ \A i \in Items : ruleActive[i] =>
       \E e \in events : e.subject = i /\ e.event = "triggered"

\* A commit of call c.
Commits(c) == call[c].pc = "committing" /\ call'[c].pc = "committed"

\* Under the policy "once" a trigger is announced only when the last
\* announcement was no trigger, or an operator reset the monitor since.
OnceTriggersOnce ==
  [][\A c \in Calls :
       Commits(c) /\ call[c].policy = "once"
         /\ CommittedEvent(c) = "triggered"
       => ~MonitorLedger!Open(book[call[c].monitor])]_vars

\* Announcements about monitors follow the ledger: every recovery answers a
\* trigger, also when the configuration is saved, records are cleared, items
\* or monitors deleted and the process restarted in the middle of executions.
MonitorsFollowLedger == MonitorLedger!Spec

\* "Trend rules notify only when they pass from not triggered to triggered, or
\* from triggered to recovered" (docs/guide/status-board.md).
TrendsFollowLedger == TrendLedger!Spec

\* The state stored for a monitor is that of its latest execution: no commit
\* replaces the outcome of an execution that was numbered later.
LatestExecutionWins ==
  [][\A m \in Monitors :
       lastRecord'[m] >= lastRecord[m] \/ lastRecord'[m] = 0]_vars

\* Every call of Run or TryRun returns, whoever it waits for.
CallsReturn == \A c \in Calls : call[c].pc # "idle" ~> call[c].pc = "idle"
-----------------------------------------------------------------------------
(* The inductive invariant behind the safety properties.                     *)

\* The lock really covers what it is meant to: whoever is inside holds the
\* mutex of the monitor it works on (runtime.go:48-73).
LockHeld ==
  \A c \in Calls :
    /\ call[c].pc # "idle" => call[c].monitor \in Monitors
    /\ call[c].pc \in Inside => holder[call[c].monitor] = c

Raised(s) == \E e \in events : e.subject = s /\ e.event = "triggered"

\* An activity, stored or in the snapshot of a running execution, agrees with
\* what was announced about its monitor, up to a reset by an operator.
Agrees(was, page) ==
  /\ was => page.last = "triggered"
  /\ ~was /\ page.last = "triggered" => page.reopened

MonitorsAgree ==
  /\ \A m \in Monitors :
       /\ Agrees(active[m], book[m])
       /\ book[m].last = "triggered" => Raised(m)
  /\ \A c \in Calls : call[c].pc \in Informed =>
       Agrees(call[c].active, book[call[c].monitor])

\* Every copy of a rule's activity, in the table, in an execution that judged
\* it or in a request about to write it, was announced or will be with it.
RulesWereRaised ==
  /\ \A i \in Items : ruleActive[i] => Raised(i)
  /\ \A c \in Calls, i \in Items :
       i \in call[c].judged /\ call[c].verdict[i]
       => call[c].flip[i] = "triggered" \/ Raised(i)
  /\ \A q \in Requests :
       request[q].op = "updateItem" /\ request[q].active
       => Raised(request[q].target)

\* Record numbers are taken in the order of the executions of a monitor.
RecordsOrdered ==
  /\ \A m \in Monitors : lastRecord[m] < nextRecord
  /\ \A c \in Calls : call[c].pc \in {"evaluating", "committing"} =>
       /\ call[c].record < nextRecord
       /\ lastRecord[call[c].monitor] < call[c].record

IInv ==
  TypeOK /\ LockHeld /\ MonitorsAgree /\ RulesWereRaised /\ RecordsOrdered
=============================================================================
