------------------------------ MODULE Scheduler ------------------------------
(***************************************************************************)
(* The scheduler (internal/runtime/runtime.go): it polls the stored        *)
(* monitors, keeps a task with the next occurrence of each, and launches   *)
(* the due ones, at most limit at a time, while monitors are edited,       *)
(* modules come and go, the runtime configuration changes and operators    *)
(* run monitors by hand.                                                   *)
(*                                                                         *)
(* Abstracted: cron expressions are sets of instants, per timezone; the    *)
(* maps that only decide what is logged (pausedMonitors,                   *)
(* invalidSchedules) are left out, and so are expressions that do not      *)
(* parse: every writer of monitors refuses them.  A deleted monitor is one *)
(* that is not enabled.  What an execution does is in MonitorExecution.    *)
(***************************************************************************)
EXTENDS Naturals, Sequences, FiniteSets, SequencesExt

CONSTANTS
  Monitors,
  Expressions, \* cron expressions
  Zones,       \* timezones
  Occurs,      \* the instants of an expression in a timezone
  Plans,       \* lists of expressions a monitor may have
  Limits,      \* values of scheduler.max_concurrency
  Ops,         \* what else happens: "edit", "module", "zone", "limit", "manual"
  Touched,     \* monitors that clients edit or run, and whose modules come and go
  MaxTime      \* bound: instants that are polled

ASSUME ScheduleAssumption ==
  /\ IsFiniteSet(Monitors)
  /\ Occurs \in [Expressions -> [Zones -> SUBSET (Nat \ {0})]]
  /\ Plans \subseteq Seq(Expressions) \ {<<>>}
  /\ Limits \subseteq Nat \ {0}
  /\ Touched \subseteq Monitors
  /\ MaxTime \in Nat \ {0}

VARIABLES
  stored,     \* monitors: enabled, schedules
  available,  \* ModuleAvailable, per monitor
  zone,       \* runtime configuration
  limit,
  now,
  tasks,      \* the task of a monitor, or NoTask
  lastZone,   \* lastTimezone
  poll,       \* syncAndRun: the list it loaded and how far it is
  queued,     \* goroutines launched that have not called TryRun, per monitor
  lock,       \* who holds the lock of a monitor
  activeRuns,
  upto        \* history: instant up to which a task's schedule was considered

vars == <<stored, available, zone, limit, now, tasks, lastZone, poll, queued,
          lock, activeRuns, upto>>

NoTask == [schedules |-> <<>>, next |-> 0]
NoTasks == [m \in Monitors |-> NoTask]
Never == 0 \* the zero time

Earliest(S) == CHOOSE t \in S : \A u \in S : t <= u

Stored == [enabled : BOOLEAN, schedules : Plans]

NoList == [m \in Monitors |-> [enabled |-> FALSE, schedules |-> <<>>]]
SomeZone == CHOOSE z \in Zones : TRUE

Idle == [pc |-> "idle", at |-> 0, zone |-> SomeZone, list |-> NoList,
         left |-> {}, present |-> {}]

-----------------------------------------------------------------------------
(* The next occurrence. *)

\* cron.Schedule.Next: the first instant after t, or the zero time when there
\* is none within five years ("0 0 30 2 *").
Next1(e, z, t) ==
  LET later == {o \in Occurs[e][z] : o > t}
  IN  IF later = {} THEN Never ELSE Earliest(later)

\* Fault: the last expression of the list decides.
NextOfLast(schedules, z, t) == Next1(Last(schedules), z, t)

\* nextScheduleTime: the first candidate, then whichever comes before.
NextScheduleTime(schedules, z, t) ==
  FoldLeft(LAMBDA next, e :
             IF next = Never \/ Next1(e, z, t) < next THEN Next1(e, z, t)
             ELSE next,
           Never, schedules)

-----------------------------------------------------------------------------
(* syncAndRun. *)

\* ListMonitors, with the configuration read before; a new timezone forgets
\* every task.  When the list cannot be loaded, nothing happens.
Sync ==
  /\ poll.pc = "idle"
  /\ poll' = [pc |-> "loop", at |-> now, zone |-> zone, list |-> stored,
              left |-> Monitors, present |-> {}]
  /\ tasks' = IF zone # lastZone THEN NoTasks ELSE tasks
  /\ lastZone' = zone
  /\ UNCHANGED <<stored, available, zone, limit, now, queued, lock,
                 activeRuns, upto>>

\* Disabled, or the module is not there in this version: the loop goes on.
Pass(m) ==
  /\ poll.pc = "loop" /\ m \in poll.left
  /\ ~(poll.list[m].enabled /\ available[m])
  /\ poll' = [poll EXCEPT !.left = @ \ {m}]
  /\ UNCHANGED <<stored, available, zone, limit, now, tasks, lastZone, queued,
                 lock, activeRuns, upto>>

\* Fault: a task outlives the schedules it was made for.
TaskKept(m) ==
  IF tasks[m] # NoTask THEN tasks[m]
  ELSE [schedules |-> poll.list[m].schedules,
        next |-> NextScheduleTime(poll.list[m].schedules, poll.zone, poll.at)]

\* The task as it stands before it is asked whether it is due: a new one when
\* there is none or the list of expressions changed.
TaskOf(m) ==
  LET plan == poll.list[m].schedules
  IN  IF tasks[m].schedules = plan THEN tasks[m]
      ELSE [schedules |-> plan,
            next |-> NextScheduleTime(plan, poll.zone, poll.at)]

\* Fault: the comparison with the limit is off by one.
\* launch: at the limit the run is dropped, it does not wait.
Launch(m) ==
  IF activeRuns >= limit THEN UNCHANGED <<queued, activeRuns>>
  ELSE /\ queued' = [queued EXCEPT ![m] = @ + 1]
       /\ activeRuns' = activeRuns + 1

\* The task is created or renewed; when due (advanceScheduleTask), it moves to
\* its next occurrence and the monitor is launched.
Consider(m) ==
  /\ poll.pc = "loop" /\ m \in poll.left
  /\ poll.list[m].enabled /\ available[m]
  /\ poll' = [poll EXCEPT !.left = @ \ {m}, !.present = @ \cup {m}]
  /\ IF poll.at < TaskOf(m).next
     THEN /\ tasks' = [tasks EXCEPT ![m] = TaskOf(m)]
          /\ UNCHANGED <<queued, activeRuns>>
     ELSE /\ tasks' = [tasks EXCEPT ![m] =
                         [TaskOf(m) EXCEPT !.next =
                            NextScheduleTime(TaskOf(m).schedules, poll.zone,
                                             poll.at)]]
          /\ Launch(m)
  /\ upto' = [upto EXCEPT ![m] = poll.at]
  /\ UNCHANGED <<stored, available, zone, limit, now, lastZone, lock>>

\* Tasks of monitors that are gone, disabled or without module are dropped.
EndSync ==
  /\ poll.pc = "loop" /\ poll.left = {}
  /\ tasks' = [m \in Monitors |->
                 IF m \in poll.present THEN tasks[m] ELSE NoTask]
  /\ poll' = Idle
  /\ UNCHANGED <<stored, available, zone, limit, now, lastZone, queued, lock,
                 activeRuns, upto>>

-----------------------------------------------------------------------------
(* The goroutines of the runs. *)

\* Fault: only a run that executed gives its slot back.
SkipKeepsSlot(m) ==
  /\ queued[m] > 0
  /\ queued' = [queued EXCEPT ![m] = @ - 1]
  /\ UNCHANGED <<stored, available, zone, limit, now, tasks, lastZone, poll,
                 lock, activeRuns, upto>>

\* TryRun does not execute: the monitor is running, gone, or its module is.
Skip(m) ==
  /\ queued[m] > 0
  /\ queued' = [queued EXCEPT ![m] = @ - 1]
  /\ activeRuns' = activeRuns - 1
  /\ UNCHANGED <<stored, available, zone, limit, now, tasks, lastZone, poll,
                 lock, upto>>

\* TryRun takes the lock and executes.
Run(m) ==
  /\ queued[m] > 0 /\ lock[m] = "free"
  /\ queued' = [queued EXCEPT ![m] = @ - 1]
  /\ lock' = [lock EXCEPT ![m] = "scheduled"]
  /\ UNCHANGED <<stored, available, zone, limit, now, tasks, lastZone, poll,
                 activeRuns, upto>>

\* The execution ends, well or not; the deferred decrement follows.
Finish(m) ==
  /\ lock[m] = "scheduled"
  /\ lock' = [lock EXCEPT ![m] = "free"]
  /\ activeRuns' = activeRuns - 1
  /\ UNCHANGED <<stored, available, zone, limit, now, tasks, lastZone, poll,
                 queued, upto>>

\* Run, for a request: it takes no slot.
Manual(m) ==
  /\ "manual" \in Ops
  /\ \/ lock[m] = "free" /\ lock' = [lock EXCEPT ![m] = "manual"]
     \/ lock[m] = "manual" /\ lock' = [lock EXCEPT ![m] = "free"]
  /\ UNCHANGED <<stored, available, zone, limit, now, tasks, lastZone, poll,
                 queued, activeRuns, upto>>

-----------------------------------------------------------------------------
(* What changes meanwhile. *)

Tick ==
  /\ now < MaxTime
  /\ now' = now + 1
  /\ UNCHANGED <<stored, available, zone, limit, tasks, lastZone, poll, queued,
                 lock, activeRuns, upto>>

Edit(m) ==
  /\ "edit" \in Ops
  /\ \E value \in Stored : /\ value # stored[m]
                           /\ stored' = [stored EXCEPT ![m] = value]
  /\ UNCHANGED <<available, zone, limit, now, tasks, lastZone, poll, queued,
                 lock, activeRuns, upto>>

SwitchModule(m) ==
  /\ "module" \in Ops
  /\ available' = [available EXCEPT ![m] = ~@]
  /\ UNCHANGED <<stored, zone, limit, now, tasks, lastZone, poll, queued, lock,
                 activeRuns, upto>>

SetZone ==
  /\ "zone" \in Ops
  /\ zone' \in Zones \ {zone}
  /\ UNCHANGED <<stored, available, limit, now, tasks, lastZone, poll, queued,
                 lock, activeRuns, upto>>

SetLimit ==
  /\ "limit" \in Ops
  /\ limit' \in Limits \ {limit}
  /\ UNCHANGED <<stored, available, zone, now, tasks, lastZone, poll, queued,
                 lock, activeRuns, upto>>

-----------------------------------------------------------------------------

Init ==
  /\ stored \in [Monitors -> {v \in Stored : v.enabled}]
  /\ available = [m \in Monitors |-> TRUE]
  /\ zone \in Zones /\ lastZone = zone
  /\ limit \in Limits
  /\ now = 1
  /\ tasks = NoTasks
  /\ poll = Idle
  /\ queued = [m \in Monitors |-> 0]
  /\ lock = [m \in Monitors |-> "free"]
  /\ activeRuns = 0
  /\ upto = [m \in Monitors |-> 0]

Next ==
  \/ Sync \/ EndSync \/ Tick \/ SetZone \/ SetLimit
  \/ \E m \in Monitors :
       Pass(m) \/ Consider(m) \/ Skip(m) \/ Run(m) \/ Finish(m)
  \/ \E m \in Touched : Manual(m) \/ Edit(m) \/ SwitchModule(m)

Spec == Init /\ [][Next]_vars

-----------------------------------------------------------------------------
(* Properties. *)

Executing == {m \in Monitors : lock[m] = "scheduled"}

\* Every variable keeps its type.
TypeOK ==
  /\ stored \in [Monitors -> Stored]
  /\ available \in [Monitors -> BOOLEAN]
  /\ zone \in Zones /\ lastZone \in Zones
  /\ limit \in Limits
  /\ now \in Nat /\ activeRuns \in Nat
  /\ tasks \in [Monitors -> [schedules : Plans \cup {<<>>}, next : Nat]]
  /\ poll \in [pc : {"idle", "loop"}, at : Nat, zone : Zones,
               list : [Monitors -> [enabled : BOOLEAN,
                                    schedules : Plans \cup {<<>>}]],
               left : SUBSET Monitors, present : SUBSET Monitors]
  /\ queued \in [Monitors -> Nat]
  /\ lock \in [Monitors -> {"free", "scheduled", "manual"}]
  /\ upto \in [Monitors -> Nat]

Goroutines ==
  MapThenSumSet(LAMBDA m : queued[m], Monitors) + Cardinality(Executing)

\* activeRuns is the number of goroutines that launch started and that have
\* not ended: no slot is lost when a run is skipped, and none is given back
\* twice.
SlotsAreCounted == activeRuns = Goroutines

Launched(m) == queued'[m] > queued[m]

\* An occurrence of the monitor's schedule in the instants since it was last
\* considered, up to the poll.
Due(m) ==
  \E k \in DOMAIN tasks[m].schedules :
    \E o \in Occurs[tasks[m].schedules[k]][poll.zone] :
      upto[m] < o /\ o <= poll.at

Kept(m) == tasks[m] # NoTask /\ tasks[m].schedules = poll.list[m].schedules

\* A monitor is launched only for an occurrence it was not launched for yet:
\* never early, never twice, and not for what it missed while it was disabled,
\* without module, on another schedule or in another timezone. And it leaves no
\* more goroutines of scheduled runs than the limit of the moment: what launch
\* reads from activeRuns is what there is.
LaunchedWhenDue ==
  [][\A m \in Monitors :
       Launched(m) => Kept(m) /\ Due(m) /\ Goroutines' <= limit]_vars

\* When an occurrence has passed since the last poll, this poll launches the
\* monitor unless the limit is reached, and several that passed are one.
DueIsLaunched ==
  [][\A m \in Monitors :
       Consider(m) /\ Kept(m) /\ Due(m) =>
         activeRuns >= limit \/ queued'[m] = queued[m] + 1]_vars

\* What every state of the loop keeps: tasks of their type, and activeRuns
\* counts the runs that are under way, also when Skip gives its slot back
\* (launch, runtime.go:531-557).
PollsInv == TypeOK /\ SlotsAreCounted
=============================================================================
