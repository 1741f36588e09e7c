---------------------------- MODULE RuntimeConfig ----------------------------
(***************************************************************************)
(* The runtime configuration: the manager with its lock, versions and      *)
(* subscribers (internal/runtimeconfig/config.go), the rows it is stored   *)
(* in (internal/store/config.go), the import that replaces all of them     *)
(* (internal/store/configuration_transfer.go), and the administrator's     *)
(* key, which lives in the row of the auth domain and is changed without   *)
(* the manager (internal/store/auth.go).                                   *)
(*                                                                         *)
(* Abstracted: a domain is a value per path; data that does not parse or   *)
(* validate is refused before anything happens and is not submitted here;  *)
(* the other tables an import replaces; which domains besides auth apply   *)
(* runs for (logging and plugins do; the rest are read by subscribers).    *)
(***************************************************************************)
EXTENDS Naturals, FiniteSets, FiniteSetsExt, Functions

CONSTANTS
  Domains,     \* system configuration types
  Auth,        \* the one that also holds the administrator's key
  Paths,       \* paths within a domain
  Values,
  Default,     \* DefaultRuntimeConfig, the same for all domains
  Bodies,      \* bodies an administrator may submit
  Bundles,     \* configurations that may be imported
  Requests,    \* HTTP requests and commands
  Subscribers, \* scheduler and cleanup worker
  Faults,      \* what may fail: "apply", "store", "answer"
  MaxWrites,   \* bound: requests admitted while fewer writes are accounted for
  Nobody

Data == [Paths -> Values]
Body == UNION {[S -> Values] : S \in SUBSET Paths}
Config == [Domains -> Data]

ASSUME ConfigAssumption ==
  /\ Auth \in Domains /\ Default \in Data 
  /\ Bodies \subseteq Body /\ Bundles \subseteq Config
  /\ Nobody \notin Requests
  /\ Faults \subseteq {"apply", "store", "answer"}
  /\ MaxWrites \in Nat

VARIABLES
  rows,     \* system_configs: data and version, without the key
  key,      \* admin_key_hash in the row of the auth domain
  config,   \* Manager.config
  versions, \* Manager.versions
  applied,  \* what logging, plugins and sessions run with
  mu,       \* who holds Manager.mu for writing
  storeMu,  \* who holds Store.systemConfigMu
  request,
  notice,   \* a notice waits in the subscriber's channel
  phase,    \* a subscriber waits, is about to read the snapshot, or works
  seen,     \* the configuration a subscriber read last
  lastKey,  \* history: the key that was set last
  failed    \* history: apply has failed since the process started

vars == <<rows, key, config, versions, applied, failed, mu, storeMu, request,
          notice, phase, seen, lastKey>>
table == <<rows, key, lastKey>>
manager == <<config, versions, applied, failed>>
locks == <<mu, storeMu>>
readers == <<notice, phase, seen>>

NoRequest ==
  [pc |-> "idle", op |-> "none", domain |-> Auth, base |-> Default,
   body |-> Default, version |-> 0, candidate |-> [d \in Domains |-> Default],
   held |-> 0, got |-> [d \in Domains |-> 0]]

RequestRecord ==
  [pc : {"idle", "viewed", "ready", "applying", "storing", "writing", "stored",
         "undoing", "rotating"},
   op : {"none", "path", "update", "reset", "import", "rotate"},
   domain : Domains, base : Data, body : Body, version : Nat,
   candidate : Config, held : Nat, got : [Domains -> Nat]]

TypeOK ==
  /\ rows \in [Domains -> [data : Data, version : Nat \ {0}]]
  /\ key \in Nat /\ lastKey \in Nat
  /\ config \in Config /\ versions \in [Domains -> Nat \ {0}]
  /\ applied \in Config /\ failed \in BOOLEAN
  /\ mu \in Requests \cup {Nobody} /\ storeMu \in Requests \cup {Nobody}
  /\ request \in [Requests -> RequestRecord]
  /\ notice \in [Subscribers -> BOOLEAN]
  /\ phase \in [Subscribers -> {"waiting", "reading", "busy"}]
  /\ seen \in [Subscribers -> Config]

Written == MapThenSumSet(LAMBDA d : rows[d].version - 1, Domains) + lastKey

\* Bound: no request starts once MaxWrites writes are done or under way.
Budget ==
  Written + Cardinality({q \in Requests : request[q].pc # "idle"}) < MaxWrites

Unlocked == mu = Nobody

Become(q, r) == request' = [request EXCEPT ![q] = r]
Go(q, pc) == request' = [request EXCEPT ![q].pc = pc]
Return(q) == Become(q, NoRequest)

----------------------------------------------------------------------------
(* Requests up to Manager.mu *)

\* The administrator loads the page: Metadata tells data and version.
View(q, d) ==
  /\ request[q].pc = "idle" /\ Budget /\ Unlocked
  /\ Become(q, [NoRequest EXCEPT !.pc = "viewed", !.domain = d,
                  !.base = config[d], !.version = versions[d]])
  /\ UNCHANGED <<table, manager, locks, readers>>

\* UpdatePath reads the domain, replaces one path and calls Update.
UpdatePath(q, p, v) ==
  /\ request[q].pc = "viewed" /\ Unlocked
  /\ Become(q, [request[q] EXCEPT !.pc = "ready", !.op = "path",
                  !.body = [config[request[q].domain] EXCEPT ![p] = v]])
  /\ UNCHANGED <<table, manager, locks, readers>>

\* A body for Update may leave paths out.
Update(q, body) ==
  /\ request[q].pc = "viewed"
  /\ Become(q, [request[q] EXCEPT !.pc = "ready", !.op = "update", !.body = body])
  /\ UNCHANGED <<table, manager, locks, readers>>

\* Reset reads the version itself; ResetAll is one Reset per domain.
Reset(q, d) ==
  /\ request[q].pc = "idle" /\ Budget /\ Unlocked
  /\ Become(q, [NoRequest EXCEPT !.pc = "ready", !.op = "reset", !.domain = d,
                  !.base = config[d], !.version = versions[d]])
  /\ UNCHANGED <<table, manager, locks, readers>>

Import(q, bundle) ==
  /\ request[q].pc = "idle" /\ Budget
  /\ Become(q, [NoRequest EXCEPT !.pc = "ready", !.op = "import",
                  !.candidate = bundle])
  /\ UNCHANGED <<table, manager, locks, readers>>

----------------------------------------------------------------------------
(* Under Manager.mu: Update and Import *)

\* Decoding into a copy of the domain keeps the paths the body leaves out.
Merge(body, data) == [p \in Paths |-> IF p \in DOMAIN body THEN body[p] ELSE data[p]]

VersionMatches(r) == r.op = "import" \/ r.version = versions[r.domain]

Candidate(r) ==
  IF r.op = "import" THEN r.candidate
  ELSE [config EXCEPT ![r.domain] = Merge(r.body, @)]

Enter(q) ==
  LET r == request[q] IN
  /\ r.pc = "ready" /\ Unlocked
  /\ IF VersionMatches(r)
     THEN /\ Become(q, [r EXCEPT !.pc = "applying", !.candidate = Candidate(r)])
          /\ mu' = q
     ELSE Return(q) /\ UNCHANGED mu
  /\ UNCHANGED <<table, manager, storeMu, readers>>

\* The apply callback touches what differs between old and new; the session
\* lifetime is set last and always.
Switched(old, new, done) ==
  [d \in Domains |-> IF d \in done /\ (d = Auth \/ old[d] # new[d])
                     THEN new[d] ELSE applied[d]]

Apply(q) ==
  /\ request[q].pc = "applying"
  /\ applied' = Switched(config, request[q].candidate, Domains)
  /\ Go(q, "storing")
  /\ UNCHANGED <<table, config, versions, failed, locks, readers>>

\* Fault "apply": some of it is done, and Update returns without undoing it.
ApplyFails(q) ==
  /\ "apply" \in Faults /\ request[q].pc = "applying"
  /\ \E done \in SUBSET (Domains \ {Auth}) :
       applied' = Switched(config, request[q].candidate, done)
  /\ failed' = TRUE
  /\ mu' = Nobody /\ Return(q)
  /\ UNCHANGED <<table, config, versions, storeMu, readers>>

\* Fault: the key is read before the store's lock is taken.
LockNotTaken(q) ==
  /\ request[q].pc = "storing"
  /\ storeMu' = q
  /\ Become(q, [request[q] EXCEPT !.pc = "writing", !.held = key])
  /\ UNCHANGED <<table, manager, mu, readers>>

\* UpdateSystemConfig and ImportConfiguration take the store's lock; the key in
\* the row is read to be kept.
Lock(q) ==
  /\ request[q].pc = "storing" /\ storeMu = Nobody
  /\ storeMu' = q
  /\ Become(q, [request[q] EXCEPT !.pc = "writing", !.held = key])
  /\ UNCHANGED <<table, manager, mu, readers>>

\* What the transaction leaves: every row for an import, one with the expected
\* version for an update.
Targets(r) ==
  IF r.op = "import" THEN Domains
  ELSE {d \in {r.domain} : rows[d].version = r.version}

\* Fault: an import replaces the data and keeps the versions.
NewRowsImportKeeps(r) ==
  [d \in Domains |->
     IF d \in Targets(r)
     THEN [data |-> r.candidate[d],
           version |-> rows[d].version + IF r.op = "import" THEN 0 ELSE 1]
     ELSE rows[d]]

NewRows(r) ==
  [d \in Domains |-> IF d \in Targets(r)
                     THEN [data |-> r.candidate[d], version |-> rows[d].version + 1]
                     ELSE rows[d]]

\* A bundle may bring a key of its own.
WriteKey(r) ==
  \/ /\ key' = IF Auth \in Targets(r) THEN r.held ELSE key
     /\ UNCHANGED lastKey
  \/ /\ r.op = "import"
     /\ key' = lastKey + 1 /\ lastKey' = lastKey + 1

Write(q) ==
  LET r == request[q] IN
  /\ r.pc = "writing" /\ Targets(r) # {}
  /\ rows' = NewRows(r) /\ WriteKey(r)
  /\ storeMu' = Nobody
  /\ Become(q, [r EXCEPT !.pc = "stored",
                  !.got = [d \in Domains |-> rows'[d].version]])
  /\ UNCHANGED <<manager, mu, readers>>

\* The row has another version, or (fault "store") the statement fails.
WriteFails(q) ==
  /\ request[q].pc = "writing"
  /\ Targets(request[q]) = {} \/ "store" \in Faults
  /\ storeMu' = Nobody /\ Go(q, "undoing")
  /\ UNCHANGED <<table, manager, mu, readers>>

\* Fault "answer": UpdateSystemConfig writes the row, and reading it back fails.
ReadBackFails(q) ==
  LET r == request[q] IN
  /\ "answer" \in Faults /\ r.pc = "writing" /\ r.op # "import" /\ Targets(r) # {}
  /\ rows' = NewRows(r) /\ WriteKey(r)
  /\ storeMu' = Nobody /\ Go(q, "undoing")
  /\ UNCHANGED <<manager, mu, readers>>

\* Fault: a failed write is reported and nothing else.
UndoNothing(q) ==
  /\ request[q].pc = "undoing"
  /\ mu' = Nobody /\ Return(q)
  /\ UNCHANGED <<table, manager, storeMu, readers>>

\* The callback runs backwards; its error is ignored.
Undo(q) ==
  /\ request[q].pc = "undoing"
  /\ \/ /\ applied' = Switched(request[q].candidate, config, Domains)
        /\ UNCHANGED failed
     \/ /\ "apply" \in Faults /\ failed' = TRUE
        /\ \E done \in SUBSET (Domains \ {Auth}) :
             applied' = Switched(request[q].candidate, config, done)
  /\ mu' = Nobody /\ Return(q)
  /\ UNCHANGED <<table, config, versions, storeMu, readers>>

\* Every subscriber whose channel is empty gets a notice.
Notify == notice' = [s \in Subscribers |-> TRUE]

Commit(q) ==
  LET r == request[q] IN
  /\ r.pc = "stored"
  /\ config' = r.candidate
  /\ versions' = [d \in Domains |-> IF r.op = "import" \/ d = r.domain
                                    THEN r.got[d] ELSE versions[d]]
  /\ Notify
  /\ mu' = Nobody /\ Return(q)
  /\ UNCHANGED <<table, applied, failed, storeMu, phase, seen>>

----------------------------------------------------------------------------
(* SetAdminKeyHash: the row is read and written back with another key *)

\* Fault: the store's lock is not waited for.
RotateUnlocked(q) ==
  /\ request[q].pc = "idle" /\ Budget
  /\ storeMu' = q
  /\ Become(q, [NoRequest EXCEPT !.pc = "rotating", !.op = "rotate",
                  !.base = rows[Auth].data])
  /\ UNCHANGED <<table, manager, mu, readers>>

Rotate(q) ==
  /\ request[q].pc = "idle" /\ Budget /\ storeMu = Nobody
  /\ storeMu' = q
  /\ Become(q, [NoRequest EXCEPT !.pc = "rotating", !.op = "rotate",
                  !.base = rows[Auth].data])
  /\ UNCHANGED <<table, manager, mu, readers>>

RotateWrite(q) ==
  /\ request[q].pc = "rotating"
  /\ rows' = [rows EXCEPT ![Auth].data = request[q].base]
  /\ key' = lastKey + 1 /\ lastKey' = lastKey + 1
  /\ storeMu' = Nobody /\ Return(q)
  /\ UNCHANGED <<manager, mu, readers>>

----------------------------------------------------------------------------
(* Subscribers, and the process *)

\* A notice is taken, or the subscriber's timer ticks.
Wake(s) ==
  /\ phase[s] = "waiting"
  /\ phase' = [phase EXCEPT ![s] = "reading"]
  /\ notice' = [notice EXCEPT ![s] = FALSE] \/ UNCHANGED notice
  /\ UNCHANGED <<table, manager, locks, request, seen>>

Snapshot(s) ==
  /\ phase[s] = "reading" /\ Unlocked
  /\ seen' = [seen EXCEPT ![s] = config]
  /\ phase' = [phase EXCEPT ![s] = "busy"]
  /\ UNCHANGED <<table, manager, locks, request, notice>>

\* The poll or the clean-up ends.
Done(s) ==
  /\ phase[s] = "busy"
  /\ phase' = [phase EXCEPT ![s] = "waiting"]
  /\ UNCHANGED <<table, manager, locks, request, notice, seen>>

\* A page an administrator has open outlives the process.
Restart ==
  LET stored == [d \in Domains |-> rows[d].data] IN
  /\ config' = stored /\ applied' = stored /\ failed' = FALSE
  /\ versions' = [d \in Domains |-> rows[d].version]
  /\ mu' = Nobody /\ storeMu' = Nobody
  /\ request' = [q \in Requests |-> IF request[q].pc = "viewed" THEN request[q]
                                    ELSE NoRequest]
  /\ notice' = [s \in Subscribers |-> FALSE]
  /\ phase' = [s \in Subscribers |-> "waiting"]
  /\ seen' = [s \in Subscribers |-> stored]
  /\ UNCHANGED table

Init ==
  /\ rows = [d \in Domains |-> [data |-> Default, version |-> 1]]
  /\ key = 0 /\ lastKey = 0
  /\ config = [d \in Domains |-> Default] /\ applied = config /\ failed = FALSE
  /\ versions = [d \in Domains |-> 1]
  /\ mu = Nobody /\ storeMu = Nobody
  /\ request = [q \in Requests |-> NoRequest]
  /\ notice = [s \in Subscribers |-> FALSE]
  /\ phase = [s \in Subscribers |-> "waiting"]
  /\ seen = [s \in Subscribers |-> config]

Next ==
  \/ \E q \in Requests :
       \/ \E d \in Domains : View(q, d) \/ Reset(q, d)
       \/ \E p \in Paths, v \in Values : UpdatePath(q, p, v)
       \/ \E body \in Bodies : Update(q, body)
       \/ \E bundle \in Bundles : Import(q, bundle)
       \/ Enter(q) \/ Apply(q) \/ ApplyFails(q) \/ Lock(q) \/ Write(q)
       \/ WriteFails(q) \/ ReadBackFails(q) \/ Undo(q) \/ Commit(q)
       \/ Rotate(q) \/ RotateWrite(q)
  \/ \E s \in Subscribers : Wake(s) \/ Snapshot(s) \/ Done(s)
  \/ Restart

Spec == Init /\ [][Next]_vars

----------------------------------------------------------------------------
(* Properties *)

\* A version names one content: while no request holds the manager, a domain of
\* the manager that has the version of its row has the data of its row, and the
\* manager is never ahead of the table (Update and Import write the row before
\* memory, SetAdminKeyHash writes back the data it read under the store's lock).
VersionNamesData ==
  Unlocked => \A d \in Domains :
                /\ versions[d] <= rows[d].version
                /\ versions[d] = rows[d].version => rows[d].data = config[d]

\* While no request holds the manager, and as long as the apply callback has not
\* failed, what logging, plugins and sessions run with is what the manager says:
\* a failed write is undone (Manager.Update, Manager.Import).
AppliedIsConfig == Unlocked /\ ~failed => applied = config

\* A subscriber that last read an older configuration has a notice waiting or is
\* about to read: none is lost when notices coalesce (Manager.Subscribe).
NoticeWaits ==
  \A s \in Subscribers : seen[s] # config => notice[s] \/ phase[s] = "reading"

\* Saving a domain or importing a bundle without a key never brings back a key
\* that was replaced (preserveAuthKey, importRuntimeConfigTx).
KeyIsKept == key = lastKey

\* An edit that is stored was made on the page the administrator saw: nothing
\* another request changed in between is overwritten, and the other domains
\* stay (the expected version of Manager.Update).
NoLostUpdate ==
  [][\A q \in Requests :
       Commit(q) /\ request[q].op # "import" =>
       LET d == request[q].domain IN
       /\ config[d] = request[q].base
       /\ \A e \in Domains \ {d} : config'[e] = config[e]
       /\ request[q].op = "path" =>
            Cardinality({p \in Paths : config'[d][p] # config[d][p]}) <= 1]_vars

\* What every state of the manager keeps: configurations of their type, no
\* notice lost (notifyLocked), outside a change what runs is what memory holds
\* (applied by Update, Reset and Import, undone when the store refuses), and the
\* key the one set last (preserveAuthKey).
ConfigInv == TypeOK /\ NoticeWaits /\ AppliedIsConfig /\ KeyIsKept
=============================================================================
