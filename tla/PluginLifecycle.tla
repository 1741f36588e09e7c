--------------------------- MODULE PluginLifecycle ---------------------------
(***************************************************************************)
(* Plugins from import to uninstall: the manager that starts, replaces,    *)
(* restarts and stops their processes (internal/plugin/manager.go), the    *)
(* rows it keeps (internal/store/plugins.go), the registry of modules      *)
(* (internal/monitor/registry.go) with the gate before every remote module *)
(* (internal/monitor/remote.go), and those who use both: executions and    *)
(* the handlers that write monitors (internal/api/server.go).              *)
(*                                                                         *)
(* Enable, Disable, Uninstall, Import, UpdateLogConfig, the supervisor and *)
(* the start of the host are steps of threads; the manager has no lock     *)
(* that covers one of them, so any two threads interleave.                 *)
(*                                                                         *)
(* Abstracted: the status and error shown with a row; archives, manifests  *)
(* and signatures (a package is its <<plugin, version>>, its signer and    *)
(* its module types; what does not verify is refused before anything       *)
(* changes); module version and config version are the version of the      *)
(* plugin; one monitor of each type; the browser bridge (BrowserAgents).   *)
(***************************************************************************)
EXTENDS Naturals, FiniteSets

CONSTANTS
  Keys,       \* installable <<plugin, version>>
  Types,      \* module types
  ModulesOf,  \* the types a package declares
  SignersOf,  \* who may have signed one, None for a package without signature
  Monitored,  \* bound: the types that monitors are created for
  Official,   \* packages seeded from beside the executable
  SourceTrees, \* what the directory of plugin sources may hold at a start
  Instances,  \* bound: plugin processes in existence at once
  Threads,    \* concurrent lifecycle operations
  Calls,      \* concurrent executions and edits of monitors
  Faults,     \* what may fail: "probe", "migrate", "store", "exit"
  MaxRestarts,
  None

Plugins == {k[1] : k \in Keys}
Versions == {k[2] : k \in Keys}

ASSUME PluginAssumption ==
  /\ Keys # {} /\ ModulesOf \in [Keys -> SUBSET Types]
  /\ \A k \in Keys : SignersOf[k] # {}
  /\ SourceTrees \subseteq (SUBSET Keys \ {{}})
  /\ Official \subseteq Keys /\ Monitored \subseteq Types
  /\ Faults \subseteq {"probe", "migrate", "store", "exit"}
  /\ MaxRestarts \in Nat
  /\ None \notin Instances \cup Versions \cup [inst : Instances, key : Keys]

VARIABLES
  rows,      \* table plugins
  signers,   \* table plugin_trusted_signers
  monitors,  \* module_version of the monitors of a type, or None
  proc,      \* plugin processes and their gates
  processes, \* Manager.processes
  registry,  \* Registry.modules: the process behind a type
  op,        \* the operation a thread is in
  call,      \* executions, and handlers that write monitors
  restarts,  \* bound
  confirmed, \* history: risk confirmed since the package was imported
  outdated   \* history: types whose monitor got the version of the module before

vars == <<rows, signers, monitors, proc, processes, registry, op, call,
          restarts, confirmed, outdated>>
tables == <<rows, signers, confirmed>>
users == <<monitors, call, outdated>>
serving == <<proc, processes, registry>>

Trust == {"official", "trusted", "untrusted", "unsigned", "development"}
Signers == (UNION {SignersOf[k] : k \in Keys}) \ {None}
Row == [present : BOOLEAN, enabled : BOOLEAN, trust : Trust,
        signer : Signers \cup {None}]
NoRow == [present |-> FALSE, enabled |-> FALSE, trust |-> "unsigned",
          signer |-> None]
Verified(row) == row.trust \in {"official", "trusted", "development"}
Present(k) == rows[k].present

\* What the registry and Manager.processes hold: a process and its package.
Entry == [inst : Instances, key : Keys]
Dead == [accepting |-> FALSE, state |-> "dead"]

AnyKey == CHOOSE k \in Keys : TRUE
NoOp == [kind |-> "none", pc |-> "idle", key |-> AnyKey, row |-> NoRow,
         cand |-> None, prev |-> None, todo |-> {}, tree |-> {},
         then |-> "fail"]
\* The host starts.
Boot == [NoOp EXCEPT !.kind = "seed", !.pc = "clearing"]
OpRecord ==
  [kind : {"none", "logs", "seed", "build", "start"},
   then : {"fail", "disable", "uninstall", "enter"},
   pc : {"idle", "down", "clearing", "next", "installing", "entering", "probing",
         "draining", "migrating", "migrated", "replaced", "retiring",
         "recording", "disabled", "removing", "taking", "stopping", "stopped"},
   key : Keys, row : Row, cand : Instances \cup {None},
   prev : Instances \cup {None}, todo : SUBSET Keys, tree : SUBSET Keys]

NoCall == [pc |-> "idle", type |-> None, version |-> None, inst |-> None,
           late |-> FALSE, update |-> FALSE]

TypeOK ==
  /\ rows \in [Keys -> Row]
  /\ signers \subseteq Signers
  /\ monitors \in [Types -> Versions \cup {None}]
  /\ proc \in [Instances -> [accepting : BOOLEAN,
                             state : {"running", "exited", "dead"}]]
  /\ processes \in [Plugins -> Entry \cup {None}]
  /\ registry \in [Types -> Entry \cup {None}]
  /\ op \in [Threads -> OpRecord]
  /\ call \in [Calls -> [pc : {"idle", "passed", "running", "editing"},
                         type : Types \cup {None}, inst : Instances \cup {None},
                         version : Versions \cup {None},
                         late : BOOLEAN, update : BOOLEAN]]
  /\ restarts \in 0..MaxRestarts
  /\ confirmed \subseteq Keys /\ outdated \subseteq Types

Set(o, r) == op' = [op EXCEPT ![o] = r]
Go(o, pc) == Set(o, [op[o] EXCEPT !.pc = pc])

Booting == \E o \in Threads : op[o].kind \in {"seed", "build", "start"}
Free(o) == op[o].pc = "idle" /\ ~Booting

\* Nothing refers to the process any more; its slot may be used again.
Unused(i) ==
  /\ proc[i] = Dead
  /\ \A p \in Plugins : processes[p] # None => processes[p].inst # i
  /\ \A t \in Types : registry[t] # None => registry[t].inst # i
  /\ \A o \in Threads : op[o].cand # i /\ op[o].prev # i
  /\ \A c \in Calls : call[c].inst # i

InFlight(i) == \E c \in Calls : call[c].pc = "running" /\ call[c].inst = i

\* proc with the gate of i, if there is one, open or closed.
Gate(i, open) ==
  IF i = None THEN proc ELSE [proc EXCEPT ![i].accepting = open]
Active == {p \in Plugins : processes[p] # None}
InstOf(p) == IF processes[p] = None THEN None ELSE processes[p].inst
Kill(i) ==
  IF i = None THEN proc ELSE [proc EXCEPT ![i] = Dead]

WithoutOwner(p) ==
  [t \in Types |->
     IF registry[t] # None /\ registry[t].key[1] = p THEN None
                                                      ELSE registry[t]]

OwnedByAnother(k) ==
  \E t \in ModulesOf[k] :
    registry[t] # None /\ registry[t].key[1] # k[1]

\* The operation is over: the next key of a batch, or the end.
Done(o) ==
  Set(o, IF op[o].kind \in {"seed", "build"} \/ op[o].todo # {}
         THEN [NoOp EXCEPT !.kind = op[o].kind, !.pc = "next",
                           !.todo = op[o].todo, !.tree = op[o].tree]
         ELSE NoOp)

\* It failed: UpdateLogConfig gives up, and the host ends before Start.
Failed(o) ==
  CASE op[o].kind = "logs" -> Set(o, NoOp)
    [] op[o].kind \in {"seed", "build"} ->
         Set(o, [NoOp EXCEPT !.kind = "seed", !.pc = "down"])
    [] OTHER -> Done(o)

----------------------------------------------------------------------------
(* Import and trust *)

\* TrustPluginSigner: every row of the signer becomes verified.
TrustedRows(s) ==
  [k \in Keys |->
     IF Present(k) /\ rows[k].signer = s
     THEN [rows[k] EXCEPT !.trust = IF @ = "official" THEN @ ELSE "trusted"]
     ELSE rows[k]]

TrustPublisher(k) ==
  /\ ~Booting /\ rows[k].signer \notin signers \cup {None}
  /\ signers' = signers \cup {rows[k].signer}
  /\ rows' = TrustedRows(rows[k].signer)
  /\ UNCHANGED <<monitors, serving, op, call, restarts, confirmed, outdated>>

Imported(trust, s) ==
  [present |-> TRUE, enabled |-> FALSE, trust |-> trust, signer |-> s]

\* The signature decides the trust of a package that is not installed yet.
Inspect(o, k, s) ==
  /\ Free(o) /\ ~Present(k)
  /\ Set(o, [NoOp EXCEPT !.pc = "installing", !.key = k,
               !.row = Imported(IF s = None THEN "unsigned"
                                ELSE IF s \in signers THEN "trusted"
                                ELSE "untrusted", s)])
  /\ UNCHANGED <<tables, users, serving, restarts>>

\* SeedOfficial passes over what is installed already. The signer of a new
\* official archive becomes trusted.
InspectOfficial(o, k, s) ==
  /\ op[o].kind = "seed" /\ op[o].pc = "next" /\ k \in op[o].todo
  /\ LET learns == ~Present(k) /\ s \notin signers \cup {None} IN
     /\ signers' = IF learns THEN signers \cup {s} ELSE signers
     /\ rows' = IF learns THEN TrustedRows(s) ELSE rows
  /\ Set(o, [NoOp EXCEPT !.kind = "seed", !.todo = op[o].todo \ {k}, !.key = k,
               !.pc = IF Present(k) THEN "next" ELSE "installing",
               !.row = IF Present(k) THEN NoRow ELSE Imported("official", s)])
  /\ UNCHANGED <<users, serving, restarts, confirmed>>

\* The files are in place; a seeded package is enabled next.
Install(o) ==
  /\ op[o].pc = "installing"
  /\ rows' = [rows EXCEPT ![op[o].key] = op[o].row]
  /\ confirmed' = confirmed \ {op[o].key}
  /\ IF op[o].kind = "seed" THEN Go(o, "entering") ELSE Done(o)
  /\ UNCHANGED <<signers, users, serving, restarts>>

InstallFails(o) ==
  /\ op[o].pc = "installing" /\ "store" \in Faults
  /\ Failed(o)
  /\ UNCHANGED <<tables, users, serving, restarts>>

----------------------------------------------------------------------------
(* Enable *)

Admits(k, allow) ==
  /\ Present(k) /\ rows[k].trust # "untrusted"
  /\ Verified(rows[k]) \/ allow

\* The process of k is started; the row read now is written at the end.
Launch(o, k) ==
  /\ \E i \in Instances : Unused(i)
  /\ LET i == CHOOSE i \in Instances : Unused(i) IN
     /\ proc' = [proc EXCEPT ![i] = [accepting |-> TRUE, state |-> "running"]]
     /\ Set(o, [op[o] EXCEPT !.pc = "probing", !.key = k, !.row = rows[k],
                             !.cand = i])
  /\ UNCHANGED <<processes, registry>>

Enable(o, k, confirm) ==
  /\ Free(o) /\ Admits(k, confirm) /\ (confirm => ~Verified(rows[k]))
  /\ confirmed' = IF confirm THEN confirmed \cup {k} ELSE confirmed
  /\ Launch(o, k)
  /\ UNCHANGED <<rows, signers, users, restarts>>

\* A batch, or the supervisor, enables without asking again.
Enter(o) ==
  /\ op[o].pc = "entering"
  /\ IF Admits(op[o].key, TRUE) THEN Launch(o, op[o].key)
                                ELSE Failed(o) /\ UNCHANGED serving
  /\ UNCHANGED <<tables, users, restarts>>

\* markFailure; whether the row could be written is not looked at.
MarkFailure(o) ==
  /\ \/ rows' = [rows EXCEPT ![op[o].key] =
                   [op[o].row EXCEPT !.enabled = FALSE]]
     \/ "store" \in Faults /\ rows' = rows
  /\ Failed(o)
  /\ UNCHANGED <<signers, users, restarts, confirmed>>

\* Handshake, health, bridge or descriptors fail, or ValidateReplaceOwner does.
ProbeFails(o) ==
  /\ op[o].pc = "probing"
  /\ "probe" \in Faults \/ OwnedByAnother(op[o].key)
  /\ proc' = Kill(op[o].cand)
  /\ MarkFailure(o) /\ UNCHANGED <<processes, registry>>

\* Fault: the gate of the process to be replaced stays open.
FaultProbed(o) ==
  /\ op[o].pc = "probing" /\ ~OwnedByAnother(op[o].key)
  /\ Set(o, [op[o] EXCEPT !.pc = "draining", !.prev = InstOf(op[o].key[1])])
  /\ UNCHANGED <<tables, users, serving, restarts>>

\* The previous process of the plugin accepts no more calls.
Probed(o) ==
  LET previous == InstOf(op[o].key[1]) IN
  /\ op[o].pc = "probing" /\ ~OwnedByAnother(op[o].key)
  /\ proc' = Gate(previous, FALSE)
  /\ Set(o, [op[o] EXCEPT !.pc = "draining", !.prev = previous])
  /\ UNCHANGED <<tables, users, processes, registry, restarts>>

Drained(o) ==
  /\ op[o].pc = "draining" /\ ~InFlight(op[o].prev)
  /\ Go(o, "migrating")
  /\ UNCHANGED <<tables, users, serving, restarts>>

\* Fault: nothing is migrated unless a process is replaced.
FaultMigrate(o) ==
  /\ op[o].pc = "migrating"
  /\ monitors' = [t \in Types |->
       IF t \in ModulesOf[op[o].key] /\ monitors[t] # None /\ op[o].prev # None
       THEN op[o].key[2] ELSE monitors[t]]
  /\ Go(o, "migrated")
  /\ UNCHANGED <<tables, call, outdated, serving, restarts>>

\* MigrateMonitorConfigs: one transaction for all monitors of the package.
Migrate(o) ==
  LET types == ModulesOf[op[o].key] IN
  /\ op[o].pc = "migrating"
  /\ monitors' = [t \in Types |->
       IF t \in types /\ monitors[t] # None THEN op[o].key[2] ELSE monitors[t]]
  /\ outdated' = outdated \ types
  /\ Go(o, "migrated")
  /\ UNCHANGED <<tables, call, serving, restarts>>

\* The migration fails, or another plugin took a type: the previous process
\* goes on as before.
FallBack(o) ==
  /\ \/ op[o].pc = "migrating" /\ "migrate" \in Faults
     \/ op[o].pc = "migrated" /\ OwnedByAnother(op[o].key)
  /\ proc' = [Gate(op[o].prev, TRUE) EXCEPT ![op[o].cand] = Dead]
  /\ MarkFailure(o) /\ UNCHANGED <<processes, registry>>

\* ReplaceOwnerAs: all types of the plugin change over at once.
Replace(o) ==
  LET k == op[o].key IN
  /\ op[o].pc = "migrated" /\ ~OwnedByAnother(k)
  /\ registry' = [t \in Types |-> IF t \in ModulesOf[k]
                                  THEN [inst |-> op[o].cand, key |-> k]
                                  ELSE WithoutOwner(k[1])[t]]
  /\ call' = [c \in Calls |->
       IF call[c].pc = "editing" /\ call[c].type \in ModulesOf[k]
       THEN [call[c] EXCEPT !.late = TRUE] ELSE call[c]]
  /\ Go(o, "replaced")
  /\ UNCHANGED <<tables, monitors, outdated, proc, processes, restarts>>

SetProcess(o) ==
  /\ op[o].pc = "replaced"
  /\ processes' = [processes EXCEPT ![op[o].key[1]] =
                     [inst |-> op[o].cand, key |-> op[o].key]]
  /\ proc' = Gate(op[o].prev, FALSE)
  /\ Set(o, [op[o] EXCEPT !.pc = "retiring", !.cand = None])
  /\ UNCHANGED <<tables, users, registry, restarts>>

Retire(o) ==
  /\ op[o].pc = "retiring" /\ ~InFlight(op[o].prev)
  /\ proc' = Kill(op[o].prev)
  /\ Set(o, [op[o] EXCEPT !.pc = "recording", !.prev = None])
  /\ UNCHANGED <<tables, users, processes, registry, restarts>>

\* Fault: the rows of the other versions keep their flag.
FaultDisableOther(o) ==
  /\ op[o].pc = "recording"
  /\ IF op[o].kind = "build" THEN Done(o) ELSE Go(o, "disabled")
  /\ UNCHANGED <<tables, users, serving, restarts>>

DisableOtherPluginVersions(o) ==
  /\ op[o].pc = "recording"
  /\ rows' = [k \in Keys |->
       IF k[1] = op[o].key[1] /\ k # op[o].key /\ rows[k].enabled
       THEN [rows[k] EXCEPT !.enabled = FALSE]
       ELSE rows[k]]
  /\ IF op[o].kind = "build" THEN Done(o) ELSE Go(o, "disabled")
  /\ UNCHANGED <<signers, users, serving, restarts, confirmed>>

\* The new process serves although its row does not say so.
DisableOthersFails(o) ==
  /\ op[o].pc = "recording" /\ "store" \in Faults
  /\ Failed(o)
  /\ UNCHANGED <<tables, users, serving, restarts>>

RecordHealthy(o) ==
  /\ op[o].pc = "disabled"
  /\ rows' = [rows EXCEPT ![op[o].key] = [op[o].row EXCEPT !.enabled = TRUE]]
  /\ Done(o)
  /\ UNCHANGED <<signers, users, serving, restarts, confirmed>>

\* The row cannot be written: the new process is stopped again.
RecordFails(o) ==
  /\ op[o].pc = "disabled" /\ "store" \in Faults
  /\ Set(o, [op[o] EXCEPT !.pc = "removing", !.then = "fail"])
  /\ UNCHANGED <<tables, users, serving, restarts>>

----------------------------------------------------------------------------
(* stopActive and who calls it. It stops the process of the plugin, whatever *)
(* version that is.                                                        *)

Stopping(o, k, then) ==
  Set(o, [NoOp EXCEPT !.pc = "removing", !.key = k, !.then = then])

Disable(o, k) ==
  /\ Free(o) /\ Stopping(o, k, "disable")
  /\ UNCHANGED <<tables, users, serving, restarts>>

\* Fault: the package goes, its process stays.
FaultUninstall(o, k) ==
  /\ Free(o) /\ Present(k)
  /\ \A t \in ModulesOf[k] : monitors[t] = None
  /\ rows' = [rows EXCEPT ![k] = NoRow] /\ confirmed' = confirmed \ {k}
  /\ UNCHANGED <<signers, users, serving, op, restarts>>

\* CountMonitorReferences: no monitor may use a type of the package.
Uninstall(o, k) ==
  /\ Free(o) /\ Present(k)
  /\ \A t \in ModulesOf[k] : monitors[t] = None
  /\ Stopping(o, k, "uninstall")
  /\ UNCHANGED <<tables, users, serving, restarts>>

\* New log settings are read by a process when it starts: all are restarted.
UpdateLogConfig(o) ==
  /\ Free(o) /\ Active # {}
  /\ Set(o, [NoOp EXCEPT !.kind = "logs", !.pc = "next",
               !.todo = {processes[p].key : p \in Active}])
  /\ UNCHANGED <<tables, users, serving, restarts>>

RemoveOwner(o) ==
  /\ op[o].pc = "removing"
  /\ registry' = WithoutOwner(op[o].key[1])
  /\ Go(o, "taking")
  /\ UNCHANGED <<tables, users, proc, processes, restarts>>

Take(o) ==
  LET p == op[o].key[1] IN
  /\ op[o].pc = "taking"
  /\ processes' = [processes EXCEPT ![p] = None]
  /\ proc' = Gate(InstOf(p), FALSE)
  /\ Set(o, [op[o] EXCEPT !.pc = "stopping", !.prev = InstOf(p)])
  /\ UNCHANGED <<tables, users, registry, restarts>>

\* Fault: the calls inside are not waited for.
FaultStop(o) ==
  /\ op[o].pc = "stopping"
  /\ proc' = Kill(op[o].prev)
  /\ Set(o, [op[o] EXCEPT !.pc = "stopped", !.prev = None])
  /\ UNCHANGED <<tables, users, processes, registry, restarts>>

Stop(o) ==
  /\ op[o].pc = "stopping" /\ ~InFlight(op[o].prev)
  /\ proc' = Kill(op[o].prev)
  /\ Set(o, [op[o] EXCEPT !.pc = "stopped", !.prev = None])
  /\ UNCHANGED <<tables, users, processes, registry, restarts>>

\* What the caller of stopActive does next.
Stopped(o) ==
  LET k == op[o].key IN
  /\ op[o].pc = "stopped"
  /\ CASE op[o].then = "disable" ->
            /\ rows' = [rows EXCEPT ![k].enabled = FALSE]
            /\ Done(o) /\ UNCHANGED confirmed
       [] op[o].then = "uninstall" ->
            /\ rows' = [rows EXCEPT ![k] = NoRow]
            /\ confirmed' = confirmed \ {k}
            /\ Done(o)
       [] op[o].then = "enter" ->
            Go(o, "entering") /\ UNCHANGED <<rows, confirmed>>
       [] op[o].then = "fail" -> Failed(o) /\ UNCHANGED <<rows, confirmed>>
  /\ UNCHANGED <<signers, users, serving, restarts>>

StoppedFails(o) ==
  /\ op[o].pc = "stopped" /\ op[o].then \in {"disable", "uninstall"}
  /\ "store" \in Faults
  /\ Done(o)
  /\ UNCHANGED <<tables, users, serving, restarts>>

----------------------------------------------------------------------------
(* Processes that exit, the supervisor, and the start of the host *)

Exit(i) ==
  /\ "exit" \in Faults /\ proc[i].state = "running"
  /\ proc' = [proc EXCEPT ![i].state = "exited"]
  /\ UNCHANGED <<tables, users, processes, registry, op, restarts>>

\* Every 5 seconds: a plugin whose process has exited is enabled again.
Supervise(o, p) ==
  /\ Free(o) /\ p \in Active /\ proc[processes[p].inst].state # "running"
  /\ registry' = WithoutOwner(p)
  /\ Set(o, [NoOp EXCEPT !.pc = "entering", !.key = processes[p].key])
  /\ UNCHANGED <<tables, users, proc, processes, restarts>>

\* The host stops, orderly or not, and starts with what the database holds.
Restart(o) ==
  /\ restarts < MaxRestarts \/ op[o].pc = "down"
  /\ restarts' = IF op[o].pc = "down" THEN restarts ELSE restarts + 1
  /\ proc' = [i \in Instances |-> Dead]
  /\ processes' = [p \in Plugins |-> None]
  /\ registry' = [t \in Types |-> None]
  /\ call' = [c \in Calls |-> NoCall]
  /\ op' = [q \in Threads |-> IF q = o THEN Boot ELSE NoOp]
  /\ UNCHANGED <<tables, monitors, outdated>>

\* A release host, or one that finds no sources, keeps nothing of a development
\* host; SeedOfficial follows.
ClearDevelopment(o) ==
  /\ op[o].pc = "clearing"
  /\ rows' = [k \in Keys |->
       IF rows[k].trust = "development" THEN NoRow ELSE rows[k]]
  /\ Set(o, [NoOp EXCEPT !.kind = "seed", !.pc = "next", !.todo = Official])
  /\ UNCHANGED <<signers, users, serving, restarts, confirmed>>

\* A development host builds what it finds, whatever package is installed. The
\* version that an administrator has disabled stays so: its status is not told
\* from the others here.
SyncDevelopment(o) ==
  \/ /\ op[o].pc = "clearing"
     /\ \E tree \in SourceTrees :
          Set(o, [NoOp EXCEPT !.kind = "build", !.pc = "next", !.todo = tree,
                              !.tree = tree])
     /\ UNCHANGED <<tables, users, serving, restarts>>
  \/ /\ op[o].kind = "build" /\ op[o].pc = "next"
     /\ \E k \in op[o].todo, on \in BOOLEAN :
          /\ ~on => Present(k) /\ ~rows[k].enabled
          /\ rows' = [rows EXCEPT ![k] =
               [present |-> TRUE, enabled |-> on, trust |-> "development",
                signer |-> None]]
          /\ confirmed' = confirmed \ {k}
          /\ Set(o, [op[o] EXCEPT !.pc = IF on THEN "recording" ELSE "next",
                                  !.key = k, !.todo = @ \ {k}])
     /\ UNCHANGED <<signers, users, serving, restarts>>

\* What the directory held at an earlier start and does not hold any more.
Stale(o) ==
  IF op[o].kind = "build"
  THEN {k \in Keys \ op[o].tree : rows[k].trust = "development"} ELSE {}

DeleteStale(o) ==
  /\ op[o].kind = "build" /\ op[o].pc = "next" /\ op[o].todo = {}
  /\ \E k \in Stale(o) :
       /\ rows' = [rows EXCEPT ![k] = NoRow] /\ confirmed' = confirmed \ {k}
  /\ UNCHANGED <<signers, users, serving, op, restarts>>

\* A build or a statement fails, and the host does not start.
BootFails(o) ==
  /\ "store" \in Faults
  /\ op[o].pc = "clearing" \/ (op[o].kind = "build" /\ op[o].pc = "next")
  /\ Failed(o)
  /\ UNCHANGED <<tables, users, serving, restarts>>

\* SeedOfficial or SyncDevelopment is through; Start reads which are enabled.
Seeded(o) ==
  LET enabled == {k \in Keys : rows[k].enabled} IN
  /\ op[o].kind \in {"seed", "build"} /\ op[o].pc = "next"
  /\ op[o].todo = {} /\ Stale(o) = {}
  /\ Set(o, IF enabled = {} THEN NoOp
            ELSE [NoOp EXCEPT !.kind = "start", !.pc = "next", !.todo = enabled])
  /\ UNCHANGED <<tables, users, serving, restarts>>

\* The next plugin of Start, or of UpdateLogConfig, which stops it first.
NextKey(o, k) ==
  /\ op[o].pc = "next" /\ op[o].kind \in {"start", "logs"} /\ k \in op[o].todo
  /\ Set(o, [op[o] EXCEPT !.todo = @ \ {k}, !.key = k, !.then = "enter",
               !.pc = IF op[o].kind = "logs" THEN "removing" ELSE "entering"])
  /\ UNCHANGED <<tables, users, serving, restarts>>

----------------------------------------------------------------------------
(* Executions of monitors *)

Step(c, r) == call' = [call EXCEPT ![c] = r]

\* runLocked reads the monitor and the registry, calls no module of another
\* version than the monitor's, and Execute looks at the gate. These are reads
\* in a row; one that is refused on the way leaves nothing behind.
PassGate(c, t) ==
  LET entry == registry[t] IN
  /\ call[c].pc = "idle" /\ ~Booting
  /\ monitors[t] # None /\ entry # None
  /\ entry.key[2] = monitors[t] /\ proc[entry.inst].accepting
  /\ Step(c, [NoCall EXCEPT !.pc = "passed", !.inst = entry.inst])
  /\ UNCHANGED <<tables, monitors, outdated, serving, op, restarts>>

\* Only now the call is one of those Wait waits for.
Join(c) ==
  /\ call[c].pc = "passed"
  /\ Step(c, [call[c] EXCEPT !.pc = "running",
                             !.late = ~proc[call[c].inst].accepting])
  /\ UNCHANGED <<tables, monitors, outdated, serving, op, restarts>>

\* The plugin answers, or the call fails because its process is gone.
Answer(c) ==
  /\ call[c].pc = "running"
  /\ Step(c, NoCall)
  /\ UNCHANGED <<tables, monitors, outdated, serving, op, restarts>>

----------------------------------------------------------------------------
(* Handlers that write the version of a monitor *)

\* createMonitor, and a change of type, take the version of the module that
\* validated the configuration; other updates keep that of the row.
ReadVersion(c, t) ==
  /\ call[c].pc = "idle" /\ ~Booting
  /\ \E v \in {monitors[t]} \cup
              (IF registry[t] = None THEN {} ELSE {registry[t].key[2]}) :
       /\ v # None
       /\ Step(c, [NoCall EXCEPT !.pc = "editing", !.type = t, !.version = v,
                                 !.update = monitors[t] # None])
  /\ UNCHANGED <<tables, monitors, outdated, serving, op, restarts>>

\* The monitors of the type are migrated, its module is not replaced yet.
Migrated(t) ==
  \E o \in Threads : op[o].pc = "migrated" /\ t \in ModulesOf[op[o].key]

\* A second monitor of the type is not followed.
WriteMonitor(c) ==
  LET t == call[c].type IN
  /\ call[c].pc = "editing"
  /\ IF ~call[c].update /\ monitors[t] # None
     THEN UNCHANGED <<monitors, outdated>>
     ELSE /\ monitors' = [monitors EXCEPT ![t] = call[c].version]
          /\ outdated' = IF call[c].late \/ Migrated(t) THEN outdated \cup {t}
                         ELSE IF call[c].update THEN outdated
                         ELSE outdated \ {t}
  /\ Step(c, NoCall)
  /\ UNCHANGED <<tables, serving, op, restarts>>

\* The updates of its row that are under way find none to write.
DeleteMonitor(t) ==
  /\ ~Booting /\ monitors[t] # None
  /\ monitors' = [monitors EXCEPT ![t] = None]
  /\ outdated' = outdated \ {t}
  /\ call' = [c \in Calls |->
       IF call[c].pc = "editing" /\ call[c].type = t /\ call[c].update
       THEN NoCall ELSE call[c]]
  /\ UNCHANGED <<tables, serving, op, restarts>>

----------------------------------------------------------------------------
Progress(o) ==
  \/ \E k \in Keys : NextKey(o, k) \/ \E s \in SignersOf[k] :
                                           InspectOfficial(o, k, s)
  \/ Install(o) \/ InstallFails(o) \/ Enter(o) \/ ProbeFails(o) \/ Probed(o)
  \/ Drained(o) \/ Migrate(o) \/ FallBack(o) \/ Replace(o) \/ SetProcess(o)
  \/ Retire(o) \/ DisableOtherPluginVersions(o) \/ DisableOthersFails(o)
  \/ RecordHealthy(o) \/ RecordFails(o) \/ RemoveOwner(o) \/ Take(o) \/ Stop(o)
  \/ Stopped(o) \/ StoppedFails(o) \/ Seeded(o)
  \/ ClearDevelopment(o) \/ SyncDevelopment(o) \/ DeleteStale(o) \/ BootFails(o)

Execution(c) == Join(c) \/ Answer(c)

Init ==
  /\ rows = [k \in Keys |-> NoRow] /\ signers = {} /\ confirmed = {}
  /\ monitors = [t \in Types |-> None] /\ outdated = {}
  /\ proc = [i \in Instances |-> Dead]
  /\ processes = [p \in Plugins |-> None]
  /\ registry = [t \in Types |-> None]
  /\ \E o \in Threads : op = [q \in Threads |-> IF q = o THEN Boot ELSE NoOp]
  /\ call = [c \in Calls |-> NoCall]
  /\ restarts = 0

Next ==
  \/ \E k \in Keys : TrustPublisher(k)
  \/ \E o \in Threads, k \in Keys :
       \/ \E s \in SignersOf[k] : Inspect(o, k, s)
       \/ Disable(o, k) \/ Uninstall(o, k)
       \/ \E confirm \in BOOLEAN : Enable(o, k, confirm)
  \/ \E o \in Threads :
       \/ UpdateLogConfig(o) \/ Restart(o) \/ Progress(o)
       \/ \E p \in Plugins : Supervise(o, p)
  \/ \E i \in Instances : Exit(i)
  \/ \E c \in Calls : Execution(c) \/ WriteMonitor(c)
  \/ \E c \in Calls, t \in Monitored : PassGate(c, t) \/ ReadVersion(c, t)
  \/ \E t \in Monitored : DeleteMonitor(t)

Spec == Init /\ [][Next]_vars

----------------------------------------------------------------------------
(* Properties. Those of quiet states hold when lifecycle operations come   *)
(* one at a time: Threads has one element.                                 *)

Quiet == \A o \in Threads : op[o].pc = "idle"

\* The registry never offers a module whose process the manager has killed
\* (Replace before Retire in Enable, RemoveOwner before Kill in stopActive),
\* nor one of a type that its package does not declare.
ServedIsAlive ==
  \A t \in Types : registry[t] # None =>
    /\ proc[registry[t].inst].state # "dead"
    /\ t \in ModulesOf[registry[t].key]

\* Between operations the running processes are those of Manager.processes,
\* and each of them serves all its types through an open gate. In particular
\* an upgrade that failed, at whatever step, left the old version serving, and
\* no candidate is left behind.
RunningServes ==
  Quiet => \A i \in Instances : proc[i].state = "running" =>
    /\ proc[i].accepting
    /\ \E p \in Active :
         /\ processes[p].inst = i
         /\ \A t \in Types :
              t \in ModulesOf[processes[p].key] <=> registry[t] = processes[p]

\* "Only one version of a plugin ID is enabled" (docs/guide/plugins.md),
\* through upgrades, failures of the store, crashes and restarts, as soon as
\* the host has left what a development host was writing.
OneVersionEnabled ==
  (\A o \in Threads : op[o].kind # "build" /\ op[o].pc \notin {"down", "clearing"})
  => \A k, l \in Keys : rows[k].enabled /\ rows[l].enabled /\ k[1] = l[1] => k = l

\* Between operations the monitor of a served type has the version that
\* serves it, so that runLocked executes it: the migration and the
\* replacement, two steps, are never left half done. The exception are
\* handlers that read a version before the replacement and write it after the
\* migration.
MonitorsFit ==
  Quiet => \A t \in Types : registry[t] # None /\ monitors[t] # None =>
    monitors[t] = registry[t].key[2] \/ t \in outdated

\* No process is killed under a call that was inside its gate when the gate
\* closed.
NoCallIsCutOff ==
  \A c \in Calls : call[c].pc = "running" /\ ~call[c].late =>
    proc[call[c].inst].state # "dead"

\* Start, the supervisor and UpdateLogConfig enable without asking for the
\* confirmation an unverified package needs. What they start was verified, or
\* confirmed by an administrator since its files were imported.
StartedWasConfirmed ==
  \A o \in Threads : op[o].pc = "probing" =>
    Verified(op[o].row) \/ op[o].key \in confirmed

\* While an operation waits for the calls inside a gate, no other call passes
\* it: Wait, in Enable as in stopActive, is not starved by executions that keep
\* coming.
WaitIsNotStarved ==
  [][\A o \in Threads, c \in Calls :
       /\ op[o].pc \in {"draining", "retiring", "stopping"}
       /\ call[c].pc = "idle" /\ call'[c].pc = "passed"
       => call'[c].inst # op[o].prev]_vars

\* Registry, processes and rows agree: the process behind a served module is
\* alive and the manager's own, what runs serves, one version of a plugin is
\* enabled, and what starts by itself was confirmed (Enable, Disable, Uninstall,
\* Start and the supervisor, manager.go:302-697).
PluginsInv ==
  /\ TypeOK /\ ServedIsAlive /\ RunningServes /\ OneVersionEnabled
  /\ StartedWasConfirmed
=============================================================================
