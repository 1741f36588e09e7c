------------------------ MODULE PluginLifecycleProofs ------------------------
(***************************************************************************)
(* What PluginLifecycle promises of one operation at a time, for any       *)
(* packages, any signers, any number of processes, calls and restarts, and *)
(* any faults.  The inductive invariant says of each step of an operation  *)
(* what it has done so far to processes, registry, rows and monitors.      *)
(***************************************************************************)
EXTENDS PluginLifecycle, TLAPS

\* Lifecycle operations come one at a time. The manager does not enforce it:
\* operations that interleave undo each other.
OneAtATime == \E o : Threads = {o}

-----------------------------------------------------------------------------
(* The invariant, of the operation r *)

Waiting == {"draining", "migrating", "migrated", "replaced"}
Starting == {"probing"} \cup Waiting
Ending == {"removing", "taking", "stopping", "stopped"}

Alive(i) == proc[i].state # "dead"
Activated(i) == \E p \in Plugins : processes[p] # None /\ processes[p].inst = i
Served(p) == \E t \in Types : registry[t] # None /\ registry[t].key[1] = p
Candidate(r) == [inst |-> r.cand, key |-> r.key]

\* The manager's processes: alive, of their plugin, not shared, and open
\* unless r waits for the calls inside.
ProcessesFit(r) ==
  /\ \A p \in Plugins : processes[p] # None =>
       /\ processes[p].key[1] = p
       /\ Alive(processes[p].inst)
       /\ proc[processes[p].inst].accepting \/ (p = r.key[1] /\ r.pc \in Waiting)
  /\ \A p, q \in Plugins :
       processes[p] # None /\ processes[q] # None /\ processes[p].inst = processes[q].inst
       => p = q
  /\ \A i \in Instances : proc[i].accepting => Alive(i)
  /\ \A i \in Instances : proc[i].state = "running" =>
       i = r.cand \/ i = r.prev \/ Activated(i)

\* The registry serves what the manager holds, all of it while it runs, or in
\* the middle of a replacement the candidate.
RegistryFits(r) ==
  /\ \A t \in Types : registry[t] # None =>
       /\ t \in ModulesOf[registry[t].key]
       /\ \/ r.pc # "replaced" /\ registry[t] = processes[registry[t].key[1]]
          \/ r.pc = "replaced" /\ registry[t].key[1] # r.key[1]
             /\ registry[t] = processes[registry[t].key[1]]
          \/ r.pc = "replaced" /\ registry[t] = Candidate(r)
  /\ r.pc = "replaced" => \A t \in ModulesOf[r.key] : registry[t] = Candidate(r)
  /\ \A p \in Plugins :
       /\ processes[p] # None /\ proc[processes[p].inst].state = "running"
       /\ ~(p = r.key[1] /\ r.pc \in {"replaced", "taking"})
       => \A t \in ModulesOf[processes[p].key] : registry[t] = processes[p]

\* What an operation holds beside that: the candidate, which nobody knows
\* before it replaces, and the process that it replaces or stops.
HoldingFits(r) ==
  /\ r.pc \notin Starting => r.cand = None
  /\ r.pc \in Starting =>
       /\ r.cand # None /\ r.cand # r.prev /\ ~Activated(r.cand)
       /\ Alive(r.cand) /\ proc[r.cand].accepting
  /\ r.pc \in Starting \ {"replaced"} => \A c \in Calls : call[c].inst # r.cand
  /\ r.pc \notin Waiting \cup {"retiring", "stopping"} => r.prev = None
  /\ r.pc \in Waiting => r.prev = InstOf(r.key[1])
  /\ r.pc \in {"retiring", "stopping"} /\ r.prev # None =>
       ~Activated(r.prev) /\ Alive(r.prev)
  /\ r.prev # None => ~proc[r.prev].accepting
  /\ r.pc \in {"draining", "migrating", "migrated"} => ~OwnedByAnother(r.key)
  /\ r.pc \in {"taking", "stopping", "stopped"} => ~Served(r.key[1])
  /\ r.pc \in {"stopping", "stopped"} => processes[r.key[1]] = None

ServingOf(r) == ProcessesFit(r) /\ RegistryFits(r) /\ HoldingFits(r)

\* Calls that passed a gate know whom they call, and are not cut off.
CallsFit ==
  \A c \in Calls :
    /\ call[c].pc \in {"passed", "running"} => call[c].inst # None
    /\ call[c].pc = "running" /\ ~call[c].late => Alive(call[c].inst)

\* Two versions of a plugin that are enabled: one of them was built by a
\* development host that has ended, or is still to be built, or stale.
Both(k, l) == k # l /\ k[1] = l[1] /\ rows[k].enabled /\ rows[l].enabled
Developed(k) == rows[k].trust = "development"
RowsOf(r) ==
  /\ \A k \in Keys : Developed(k) => rows[k].signer = None
  /\ \A k, l \in Keys : Both(k, l) => Developed(k) \/ Developed(l)
  /\ r.kind # "build" /\ r.pc \notin {"down", "clearing"} =>
       \A k, l \in Keys : ~Both(k, l)
  /\ r.kind = "build" =>
       /\ r.pc \in {"next", "recording"}
       /\ \A k, l \in Keys :
            Both(k, l) /\ (r.pc = "recording" => k[1] # r.key[1]) =>
              \E d \in {k, l} : Developed(d) /\ (d \in r.todo \/ d \notin r.tree)
  /\ r.pc = "disabled" =>
       \A k \in Keys : k # r.key /\ k[1] = r.key[1] => ~rows[k].enabled
  /\ r.row.trust = "development" => r.row.signer = None
  /\ r.pc \in {"down", "clearing"} => r.kind = "seed"

\* What may start without asking again.
Vouched(k) == rows[k].present /\ (Verified(rows[k]) \/ k \in confirmed)
VouchedOf(r) ==
  /\ \A k \in Keys : rows[k].enabled => Vouched(k)
  /\ \A p \in Plugins : processes[p] # None => Vouched(processes[p].key)
  /\ r.kind \in {"start", "logs"} => \A k \in r.todo : Vouched(k)
  /\ r.pc = "entering" \/ (r.pc \in Ending /\ r.then = "enter") => Vouched(r.key)
  /\ r.pc \in Starting \cup {"retiring", "recording", "disabled"} /\ r.kind # "build" =>
       /\ r.row.present /\ (Verified(r.row) \/ r.key \in confirmed)
       /\ Vouched(r.key)
  /\ r.pc = "installing" =>
       /\ ~Present(r.key) /\ r.row.present /\ ~r.row.enabled
       /\ r.kind \in {"none", "seed"} /\ (r.kind = "seed" => r.row.trust = "official")
  /\ r.pc \in Ending /\ r.then \in {"disable", "uninstall"} => r.kind = "none"
  /\ r.kind = "build" \/ r.pc = "clearing" => \A p \in Plugins : processes[p] = None

\* The monitor of a served type has the version that serves it, unless it is
\* marked, or r has migrated it and not replaced its module yet.
Fit(t, v, excused) == registry[t] = None \/ v = registry[t].key[2] \/ excused
Halfway(r, t) == r.pc = "migrated" /\ t \in ModulesOf[r.key]
MonitorsOf(r) ==
  /\ \A t \in Types : monitors[t] # None =>
       IF Halfway(r, t) THEN monitors[t] = r.key[2] \/ t \in outdated
                        ELSE Fit(t, monitors[t], t \in outdated)
  /\ \A c \in Calls : call[c].pc = "editing" =>
       /\ call[c].type \in Types /\ call[c].version # None
       /\ call[c].update => monitors[call[c].type] # None
       /\ \/ call[c].late \/ Halfway(r, call[c].type)
          \/ Fit(call[c].type, call[c].version, call[c].update /\ call[c].type \in outdated)

PluginsIInv ==
  /\ TypeOK /\ CallsFit
  /\ \A o \in Threads : /\ ServingOf(op[o]) /\ RowsOf(op[o])
                        /\ VouchedOf(op[o]) /\ MonitorsOf(op[o])

-----------------------------------------------------------------------------
(* Records and constants *)

Kinds == {"none", "logs", "seed", "build", "start"}
Thens == {"fail", "disable", "uninstall", "enter"}
Steps == {"idle", "down", "clearing", "next", "installing", "entering", "probing",
          "draining", "migrating", "migrated", "replaced", "retiring",
          "recording", "disabled", "removing", "taking", "stopping", "stopped"}
Trusts == {"official", "trusted", "untrusted", "unsigned", "development"}

LEMMA NoneIsNone ==
  /\ \A i \in Instances : i # None
  /\ \A v \in Versions : v # None
  /\ \A e \in Entry : e # None
  /\ \A k \in Keys : k[1] \in Plugins /\ k[2] \in Versions
BY PluginAssumption DEF Plugins, Versions, Entry

LEMMA NoOpIs ==
  /\ NoOp \in OpRecord /\ NoRow \in Row
  /\ NoOp.kind = "none" /\ NoOp.pc = "idle" /\ NoOp.row = NoRow /\ NoOp.cand = None
  /\ NoOp.prev = None /\ NoOp.todo = {} /\ NoOp.tree = {} /\ NoOp.then = "fail"
  /\ NoRow.present = FALSE /\ NoRow.enabled = FALSE /\ NoRow.trust = "unsigned"
  /\ NoRow.signer = None
<1>1. AnyKey \in Keys
  BY PluginAssumption DEF AnyKey
<1>2. NoRow \in Row
  BY DEF NoRow, Row, Trust
<1>. QED
  BY <1>1, <1>2 DEF NoOp, OpRecord, NoRow

LEMMA SetIs ==
  ASSUME TypeOK, NEW o \in Threads, NEW r \in OpRecord, Set(o, r)
  PROVE  op' \in [Threads -> OpRecord] /\ op'[o] = r
BY DEF TypeOK, Set

\* s is r at another step.
Moved(r, s) ==
  /\ s.kind = r.kind /\ s.key = r.key /\ s.row = r.row /\ s.cand = r.cand
  /\ s.prev = r.prev /\ s.todo = r.todo /\ s.tree = r.tree /\ s.then = r.then

LEMMA GoIs ==
  ASSUME TypeOK, NEW o \in Threads, NEW pc \in Steps, Go(o, pc)
  PROVE  /\ op' \in [Threads -> OpRecord]
         /\ op'[o].pc = pc /\ Moved(op[o], op'[o])
<1>1. op[o] \in OpRecord
  BY DEF TypeOK
<1>2. PICK r : r = [op[o] EXCEPT !.pc = pc]
  OBVIOUS
<1>3. r \in OpRecord /\ r.pc = pc /\ Moved(op[o], r)
  BY <1>1, <1>2 DEF OpRecord, Moved, Steps
<1>4. op' \in [Threads -> OpRecord] /\ op'[o] = r
  BY <1>2, <1>3, SetIs DEF Go
<1>. QED
  BY <1>3, <1>4

\* s is a fresh record: nothing is held, and nothing follows.
Fresh(s) ==
  /\ s.cand = None /\ s.prev = None /\ s.row = NoRow
Batch(r, s) == s.kind = r.kind /\ s.todo = r.todo /\ s.tree = r.tree

LEMMA DoneIs ==
  ASSUME TypeOK, NEW o \in Threads, Done(o)
  PROVE  /\ op' \in [Threads -> OpRecord] /\ Fresh(op'[o]) /\ op'[o].then = "fail"
         /\ \/ op'[o].pc = "next" /\ Batch(op[o], op'[o])
            \/ op'[o] = NoOp /\ op[o].kind \notin {"seed", "build"}
<1>1. op[o] \in OpRecord
  BY DEF TypeOK
<1>2. PICK r : r = [NoOp EXCEPT !.kind = op[o].kind, !.pc = "next",
                                !.todo = op[o].todo, !.tree = op[o].tree]
  OBVIOUS
<1>3. r \in OpRecord /\ r.pc = "next" /\ Batch(op[o], r) /\ Fresh(r) /\ r.then = "fail"
  BY <1>1, <1>2, NoOpIs DEF OpRecord, Batch, Fresh
<1>4. CASE op[o].kind \in {"seed", "build"} \/ op[o].todo # {}
  <2>1. Set(o, r)
    BY <1>2, <1>4 DEF Done
  <2>. QED
    BY <1>3, <2>1, SetIs
<1>5. CASE ~(op[o].kind \in {"seed", "build"} \/ op[o].todo # {})
  <2>1. Set(o, NoOp)
    BY <1>5 DEF Done
  <2>. QED
    BY <1>5, <2>1, SetIs, NoOpIs DEF Fresh
<1>. QED
  BY <1>4, <1>5

LEMMA FailedIs ==
  ASSUME TypeOK, NEW o \in Threads, Failed(o)
  PROVE  /\ op' \in [Threads -> OpRecord] /\ Fresh(op'[o]) /\ op'[o].then = "fail"
         /\ \/ op'[o].pc = "next" /\ Batch(op[o], op'[o]) /\ op[o].kind # "build"
            \/ op'[o] = NoOp /\ op[o].kind \notin {"seed", "build"}
            \/ op'[o].pc = "down" /\ op'[o].kind = "seed"
<1>1. CASE op[o].kind = "logs"
  <2>1. Set(o, NoOp)
    BY <1>1 DEF Failed
  <2>. QED
    BY <1>1, <2>1, SetIs, NoOpIs DEF Fresh
<1>2. CASE op[o].kind \in {"seed", "build"}
  <2>1. PICK r : r = [NoOp EXCEPT !.kind = "seed", !.pc = "down"]
    OBVIOUS
  <2>2. r \in OpRecord /\ r.pc = "down" /\ r.kind = "seed" /\ Fresh(r) /\ r.then = "fail"
    BY <2>1, NoOpIs DEF OpRecord, Fresh
  <2>3. Set(o, r)
    BY <1>2, <2>1 DEF Failed
  <2>. QED
    BY <2>2, <2>3, SetIs
<1>3. CASE op[o].kind \notin {"logs", "seed", "build"}
  <2>1. Done(o)
    BY <1>3 DEF Failed
  <2>. QED
    BY <1>3, <2>1, DoneIs
<1>. QED
  BY <1>1, <1>2, <1>3

\* What each action that changes the operation makes of it.
LEMMA StoppingIs ==
  ASSUME TypeOK, NEW o \in Threads, NEW k \in Keys, NEW then \in Thens, Stopping(o, k, then)
  PROVE  /\ op' \in [Threads -> OpRecord] /\ Fresh(op'[o])
         /\ op'[o].kind = "none" /\ op'[o].pc = "removing" /\ op'[o].key = k
         /\ op'[o].then = then
<1>1. PICK r : r = [NoOp EXCEPT !.pc = "removing", !.key = k, !.then = then]
  OBVIOUS
<1>2. /\ r \in OpRecord /\ Fresh(r) /\ r.kind = "none" /\ r.pc = "removing"
      /\ r.key = k /\ r.then = then
  BY <1>1, NoOpIs DEF OpRecord, Fresh, Thens
<1>3. Set(o, r)
  BY <1>1 DEF Stopping
<1>. QED
  BY <1>2, <1>3, SetIs

LEMMA SignerIs ==
  ASSUME NEW k \in Keys, NEW s \in SignersOf[k]
  PROVE  s \in Signers \cup {None}
BY DEF Signers

LEMMA InspectIs ==
  ASSUME TypeOK, NEW o \in Threads, NEW k \in Keys, NEW s \in SignersOf[k], Inspect(o, k, s)
  PROVE  /\ op' \in [Threads -> OpRecord]
         /\ op'[o].kind = "none" /\ op'[o].pc = "installing" /\ op'[o].key = k
         /\ op'[o].cand = None /\ op'[o].prev = None /\ op'[o].then = "fail"
         /\ op'[o].row.present /\ ~op'[o].row.enabled /\ op'[o].row.trust # "development"
<1>1. PICK w : w = Imported(IF s = None THEN "unsigned"
                            ELSE IF s \in signers THEN "trusted" ELSE "untrusted", s)
  OBVIOUS
<1>2. w \in Row /\ w.present /\ ~w.enabled /\ w.trust # "development"
  BY <1>1, SignerIs DEF Imported, Row, Trust
<1>3. PICK r : r = [NoOp EXCEPT !.pc = "installing", !.key = k, !.row = w]
  OBVIOUS
<1>4. /\ r \in OpRecord /\ r.kind = "none" /\ r.pc = "installing" /\ r.key = k
      /\ r.cand = None /\ r.prev = None /\ r.then = "fail" /\ r.row = w
  BY <1>2, <1>3, NoOpIs DEF OpRecord
<1>5. Set(o, r)
  BY <1>1, <1>3 DEF Inspect
<1>. QED
  BY <1>2, <1>4, <1>5, SetIs

LEMMA InspectOfficialIs ==
  ASSUME TypeOK, NEW o \in Threads, NEW k \in Keys, NEW s \in SignersOf[k],
         InspectOfficial(o, k, s)
  PROVE  /\ op' \in [Threads -> OpRecord]
         /\ op'[o].kind = "seed" /\ op'[o].key = k /\ op'[o].cand = None
         /\ op'[o].prev = None /\ op'[o].then = "fail"
         /\ op'[o].row.trust # "development"
         /\ \/ op'[o].pc = "next"
            \/ /\ op'[o].pc = "installing" /\ ~Present(k) /\ op'[o].row.present
               /\ ~op'[o].row.enabled /\ op'[o].row.trust = "official"
<1>1. PICK w : w = IF Present(k) THEN NoRow ELSE Imported("official", s)
  OBVIOUS
<1>2. /\ w \in Row /\ w.trust # "development"
      /\ ~Present(k) => w.present /\ ~w.enabled /\ w.trust = "official"
  BY <1>1, SignerIs, NoOpIs DEF Imported, Row, Trust
<1>3. PICK r : r = [NoOp EXCEPT !.kind = "seed", !.todo = op[o].todo \ {k}, !.key = k,
                      !.pc = IF Present(k) THEN "next" ELSE "installing", !.row = w]
  OBVIOUS
<1>4. op[o].todo \ {k} \in SUBSET Keys
  BY DEF TypeOK, OpRecord
<1>5. /\ r \in OpRecord /\ r.kind = "seed" /\ r.key = k /\ r.cand = None
      /\ r.prev = None /\ r.then = "fail" /\ r.row = w
      /\ r.pc = IF Present(k) THEN "next" ELSE "installing"
  BY <1>2, <1>3, <1>4, NoOpIs DEF OpRecord
<1>6. Set(o, r)
  BY <1>1, <1>3 DEF InspectOfficial
<1>. QED
  BY <1>2, <1>5, <1>6, SetIs

LEMMA LaunchIs ==
  ASSUME TypeOK, NEW o \in Threads, NEW k \in Keys, Launch(o, k)
  PROVE  /\ op' \in [Threads -> OpRecord]
         /\ op'[o].kind = op[o].kind /\ op'[o].prev = op[o].prev /\ op'[o].todo = op[o].todo
         /\ op'[o].tree = op[o].tree /\ op'[o].then = op[o].then
         /\ op'[o].pc = "probing" /\ op'[o].key = k /\ op'[o].row = rows[k]
         /\ \E i \in Instances :
              /\ Unused(i) /\ op'[o].cand = i
              /\ proc' = [proc EXCEPT ![i] = [accepting |-> TRUE, state |-> "running"]]
<1>1. PICK i \in Instances :
        /\ Unused(i)
        /\ proc' = [proc EXCEPT ![i] = [accepting |-> TRUE, state |-> "running"]]
        /\ Set(o, [op[o] EXCEPT !.pc = "probing", !.key = k, !.row = rows[k], !.cand = i])
  BY Zenon DEF Launch
<1>2. PICK r : r = [op[o] EXCEPT !.pc = "probing", !.key = k, !.row = rows[k], !.cand = i]
  OBVIOUS
<1>3. op[o] \in OpRecord /\ rows[k] \in Row
  BY DEF TypeOK
<1>4. /\ r \in OpRecord
      /\ r.kind = op[o].kind /\ r.prev = op[o].prev /\ r.todo = op[o].todo
      /\ r.tree = op[o].tree /\ r.then = op[o].then
      /\ r.pc = "probing" /\ r.key = k /\ r.row = rows[k] /\ r.cand = i
  BY <1>2, <1>3 DEF OpRecord
<1>5. op' \in [Threads -> OpRecord] /\ op'[o] = r
  BY <1>1, <1>2, <1>4, SetIs
<1>. QED
  BY <1>1, <1>4, <1>5

LEMMA InstOfIs ==
  ASSUME TypeOK, NEW p \in Plugins
  PROVE  /\ InstOf(p) \in Instances \cup {None}
         /\ InstOf(p) = None <=> processes[p] = None
         /\ processes[p] # None => processes[p] \in Entry /\ InstOf(p) = processes[p].inst
BY NoneIsNone DEF TypeOK, InstOf, Entry

LEMMA ProbedIs ==
  ASSUME TypeOK, NEW o \in Threads, Probed(o)
  PROVE  /\ op' \in [Threads -> OpRecord] /\ op'[o].pc = "draining"
         /\ op'[o].prev = InstOf(op[o].key[1])
         /\ op'[o].kind = op[o].kind /\ op'[o].key = op[o].key /\ op'[o].row = op[o].row
         /\ op'[o].cand = op[o].cand /\ op'[o].todo = op[o].todo
         /\ op'[o].tree = op[o].tree /\ op'[o].then = op[o].then
<1>1. op[o] \in OpRecord /\ op[o].key[1] \in Plugins
  BY NoneIsNone DEF TypeOK, OpRecord
<1>2. PICK v : v = InstOf(op[o].key[1])
  OBVIOUS
<1>3. v \in Instances \cup {None}
  BY <1>1, <1>2, InstOfIs
<1>4. PICK r : r = [op[o] EXCEPT !.pc = "draining", !.prev = v]
  OBVIOUS
<1>5. /\ r \in OpRecord /\ r.pc = "draining" /\ r.prev = v
      /\ r.kind = op[o].kind /\ r.key = op[o].key /\ r.row = op[o].row
      /\ r.cand = op[o].cand /\ r.todo = op[o].todo
      /\ r.tree = op[o].tree /\ r.then = op[o].then
  BY <1>1, <1>3, <1>4 DEF OpRecord
<1>6. Set(o, r)
  BY <1>2, <1>4 DEF Probed
<1>. QED
  BY <1>2, <1>5, <1>6, SetIs

\* The candidate becomes the manager's; nothing holds the old process any more.
LEMMA SetProcessIs ==
  ASSUME TypeOK, NEW o \in Threads, SetProcess(o)
  PROVE  /\ op' \in [Threads -> OpRecord] /\ op'[o].pc = "retiring" /\ op'[o].cand = None
         /\ op'[o].kind = op[o].kind /\ op'[o].key = op[o].key /\ op'[o].row = op[o].row
         /\ op'[o].prev = op[o].prev /\ op'[o].todo = op[o].todo
         /\ op'[o].tree = op[o].tree /\ op'[o].then = op[o].then
<1>1. op[o] \in OpRecord
  BY DEF TypeOK
<1>2. PICK r : r = [op[o] EXCEPT !.pc = "retiring", !.cand = None]
  OBVIOUS
<1>3. /\ r \in OpRecord /\ r.pc = "retiring" /\ r.cand = None
      /\ r.kind = op[o].kind /\ r.key = op[o].key /\ r.row = op[o].row
      /\ r.prev = op[o].prev /\ r.todo = op[o].todo
      /\ r.tree = op[o].tree /\ r.then = op[o].then
  BY <1>1, <1>2 DEF OpRecord
<1>4. Set(o, r)
  BY <1>2 DEF SetProcess
<1>. QED
  BY <1>3, <1>4, SetIs

LEMMA RetireIs ==
  ASSUME TypeOK, NEW o \in Threads, NEW pc \in {"recording", "stopped"},
         Set(o, [op[o] EXCEPT !.pc = pc, !.prev = None])
  PROVE  /\ op' \in [Threads -> OpRecord] /\ op'[o].pc = pc /\ op'[o].prev = None
         /\ op'[o].kind = op[o].kind /\ op'[o].key = op[o].key /\ op'[o].row = op[o].row
         /\ op'[o].cand = op[o].cand /\ op'[o].todo = op[o].todo
         /\ op'[o].tree = op[o].tree /\ op'[o].then = op[o].then
<1>1. op[o] \in OpRecord
  BY DEF TypeOK
<1>2. PICK r : r = [op[o] EXCEPT !.pc = pc, !.prev = None]
  OBVIOUS
<1>3. /\ r \in OpRecord /\ r.pc = pc /\ r.prev = None
      /\ r.kind = op[o].kind /\ r.key = op[o].key /\ r.row = op[o].row
      /\ r.cand = op[o].cand /\ r.todo = op[o].todo
      /\ r.tree = op[o].tree /\ r.then = op[o].then
  BY <1>1, <1>2 DEF OpRecord
<1>. QED
  BY <1>2, <1>3, SetIs

LEMMA TakeIs ==
  ASSUME TypeOK, NEW o \in Threads, Take(o)
  PROVE  /\ op' \in [Threads -> OpRecord] /\ op'[o].pc = "stopping"
         /\ op'[o].prev = InstOf(op[o].key[1])
         /\ op'[o].kind = op[o].kind /\ op'[o].key = op[o].key /\ op'[o].row = op[o].row
         /\ op'[o].cand = op[o].cand /\ op'[o].todo = op[o].todo
         /\ op'[o].tree = op[o].tree /\ op'[o].then = op[o].then
<1>1. op[o] \in OpRecord /\ op[o].key[1] \in Plugins
  BY NoneIsNone DEF TypeOK, OpRecord
<1>2. PICK v : v = InstOf(op[o].key[1])
  OBVIOUS
<1>3. v \in Instances \cup {None}
  BY <1>1, <1>2, InstOfIs
<1>4. PICK r : r = [op[o] EXCEPT !.pc = "stopping", !.prev = v]
  OBVIOUS
<1>5. /\ r \in OpRecord /\ r.pc = "stopping" /\ r.prev = v
      /\ r.kind = op[o].kind /\ r.key = op[o].key /\ r.row = op[o].row
      /\ r.cand = op[o].cand /\ r.todo = op[o].todo
      /\ r.tree = op[o].tree /\ r.then = op[o].then
  BY <1>1, <1>3, <1>4 DEF OpRecord
<1>6. Set(o, r)
  BY <1>2, <1>4 DEF Take
<1>. QED
  BY <1>2, <1>5, <1>6, SetIs

LEMMA RecordFailsIs ==
  ASSUME TypeOK, NEW o \in Threads, RecordFails(o)
  PROVE  /\ op' \in [Threads -> OpRecord] /\ op'[o].pc = "removing" /\ op'[o].then = "fail"
         /\ op'[o].kind = op[o].kind /\ op'[o].key = op[o].key /\ op'[o].row = op[o].row
         /\ op'[o].cand = op[o].cand /\ op'[o].prev = op[o].prev /\ op'[o].todo = op[o].todo
         /\ op'[o].tree = op[o].tree
<1>1. op[o] \in OpRecord
  BY DEF TypeOK
<1>2. PICK r : r = [op[o] EXCEPT !.pc = "removing", !.then = "fail"]
  OBVIOUS
<1>3. /\ r \in OpRecord /\ r.pc = "removing" /\ r.then = "fail"
      /\ r.kind = op[o].kind /\ r.key = op[o].key /\ r.row = op[o].row
      /\ r.cand = op[o].cand /\ r.prev = op[o].prev /\ r.todo = op[o].todo
      /\ r.tree = op[o].tree
  BY <1>1, <1>2 DEF OpRecord
<1>4. Set(o, r)
  BY <1>2 DEF RecordFails
<1>. QED
  BY <1>3, <1>4, SetIs

LEMMA UpdateLogConfigIs ==
  ASSUME TypeOK, NEW o \in Threads, UpdateLogConfig(o)
  PROVE  /\ op' \in [Threads -> OpRecord] /\ Fresh(op'[o])
         /\ op'[o].kind = "logs" /\ op'[o].pc = "next" /\ op'[o].then = "fail"
         /\ op'[o].todo = {processes[p].key : p \in Active}
<1>1. {processes[p].key : p \in Active} \in SUBSET Keys
  BY DEF Active, TypeOK, Entry
<1>2. PICK T \in SUBSET Keys : T = {processes[p].key : p \in Active}
  BY <1>1
<1>3. PICK r : r = [NoOp EXCEPT !.kind = "logs", !.pc = "next", !.todo = T]
  OBVIOUS
<1>4. /\ r \in OpRecord /\ Fresh(r) /\ r.kind = "logs" /\ r.pc = "next"
      /\ r.todo = T /\ r.then = "fail"
  BY <1>3, NoOpIs DEF OpRecord, Fresh
<1>5. Set(o, r)
  BY <1>2, <1>3 DEF UpdateLogConfig
<1>. QED
  BY <1>2, <1>4, <1>5, SetIs

LEMMA SuperviseIs ==
  ASSUME TypeOK, NEW o \in Threads, NEW p \in Plugins, Supervise(o, p)
  PROVE  /\ op' \in [Threads -> OpRecord] /\ Fresh(op'[o])
         /\ op'[o].kind = "none" /\ op'[o].pc = "entering" /\ op'[o].then = "fail"
         /\ op'[o].key = processes[p].key
<1>1. processes[p].key \in Keys
  BY DEF Supervise, Active, TypeOK, Entry
<1>2. PICK r : r = [NoOp EXCEPT !.pc = "entering", !.key = processes[p].key]
  OBVIOUS
<1>3. /\ r \in OpRecord /\ Fresh(r) /\ r.kind = "none" /\ r.pc = "entering"
      /\ r.then = "fail" /\ r.key = processes[p].key
  BY <1>1, <1>2, NoOpIs DEF OpRecord, Fresh
<1>4. Set(o, r)
  BY <1>2 DEF Supervise
<1>. QED
  BY <1>3, <1>4, SetIs

LEMMA RestartIs ==
  ASSUME TypeOK, NEW o \in Threads, Restart(o)
  PROVE  /\ op' \in [Threads -> OpRecord] /\ Fresh(op'[o])
         /\ op'[o].kind = "seed" /\ op'[o].pc = "clearing" /\ op'[o].then = "fail"
<1>1. /\ Boot \in OpRecord /\ Fresh(Boot) /\ Boot.kind = "seed" /\ Boot.pc = "clearing"
      /\ Boot.then = "fail"
  BY NoOpIs DEF Boot, OpRecord, Fresh
<1>2. op' = [q \in Threads |-> IF q = o THEN Boot ELSE NoOp]
  BY DEF Restart
<1>. QED
  BY <1>1, <1>2, NoOpIs

LEMMA ClearDevelopmentIs ==
  ASSUME TypeOK, NEW o \in Threads, ClearDevelopment(o)
  PROVE  /\ op' \in [Threads -> OpRecord] /\ Fresh(op'[o])
         /\ op'[o].kind = "seed" /\ op'[o].pc = "next" /\ op'[o].then = "fail"
<1>1. PICK r : r = [NoOp EXCEPT !.kind = "seed", !.pc = "next", !.todo = Official]
  OBVIOUS
<1>2. /\ r \in OpRecord /\ Fresh(r) /\ r.kind = "seed" /\ r.pc = "next" /\ r.then = "fail"
  BY <1>1, NoOpIs, PluginAssumption DEF OpRecord, Fresh
<1>3. Set(o, r)
  BY <1>1 DEF ClearDevelopment
<1>. QED
  BY <1>2, <1>3, SetIs

\* The build of the sources starts, or takes its next package.
BuildStarts(o) ==
  /\ op[o].pc = "clearing" /\ UNCHANGED <<rows, confirmed>>
  /\ Fresh(op'[o]) /\ op'[o].kind = "build" /\ op'[o].pc = "next"
  /\ op'[o].todo = op'[o].tree
BuildSets(o, k, on) ==
  /\ op[o].kind = "build" /\ op[o].pc = "next" /\ k \in op[o].todo
  /\ ~on => Present(k) /\ ~rows[k].enabled
  /\ rows' = [rows EXCEPT ![k] = [present |-> TRUE, enabled |-> on,
                                  trust |-> "development", signer |-> None]]
  /\ confirmed' = confirmed \ {k}
  /\ op'[o].pc = IF on THEN "recording" ELSE "next"
  /\ op'[o].kind = "build" /\ op'[o].key = k /\ op'[o].todo = op[o].todo \ {k}
  /\ op'[o].tree = op[o].tree /\ op'[o].row = op[o].row /\ op'[o].cand = op[o].cand
  /\ op'[o].prev = op[o].prev /\ op'[o].then = op[o].then

LEMMA SyncDevelopmentIs ==
  ASSUME TypeOK, NEW o \in Threads, SyncDevelopment(o)
  PROVE  /\ op' \in [Threads -> OpRecord]
         /\ BuildStarts(o) \/ \E k \in Keys, on \in BOOLEAN : BuildSets(o, k, on)
         /\ UNCHANGED <<signers, users, serving, restarts>>
<1>0. op[o] \in OpRecord
  BY DEF TypeOK
<1>1. ASSUME op[o].pc = "clearing", UNCHANGED <<tables, users, serving, restarts>>,
             NEW T \in SourceTrees,
             Set(o, [NoOp EXCEPT !.kind = "build", !.pc = "next", !.todo = T, !.tree = T])
      PROVE  op' \in [Threads -> OpRecord] /\ BuildStarts(o)
  <2>1. T \in SUBSET Keys
    BY PluginAssumption
  <2>2. PICK r : r = [NoOp EXCEPT !.kind = "build", !.pc = "next", !.todo = T, !.tree = T]
    OBVIOUS
  <2>3. /\ r \in OpRecord /\ Fresh(r) /\ r.kind = "build" /\ r.pc = "next"
        /\ r.todo = T /\ r.tree = T
    BY <2>1, <2>2, NoOpIs DEF OpRecord, Fresh
  <2>4. op' \in [Threads -> OpRecord] /\ op'[o] = r
    BY <1>1, <2>2, <2>3, SetIs
  <2>5. UNCHANGED <<rows, confirmed>>
    BY <1>1 DEF tables
  <2>. QED
    BY <1>1, <2>3, <2>4, <2>5 DEF BuildStarts
<1>2. ASSUME op[o].kind = "build", op[o].pc = "next",
             NEW k \in op[o].todo, NEW on \in BOOLEAN,
             ~on => Present(k) /\ ~rows[k].enabled,
             rows' = [rows EXCEPT ![k] = [present |-> TRUE, enabled |-> on,
                                          trust |-> "development", signer |-> None]],
             confirmed' = confirmed \ {k},
             Set(o, [op[o] EXCEPT !.pc = IF on THEN "recording" ELSE "next",
                                  !.key = k, !.todo = @ \ {k}])
      PROVE  op' \in [Threads -> OpRecord] /\ k \in Keys /\ BuildSets(o, k, on)
  <2>1. PICK r : r = [op[o] EXCEPT !.pc = IF on THEN "recording" ELSE "next",
                                   !.key = k, !.todo = @ \ {k}]
    OBVIOUS
  <2>2. k \in Keys
    BY <1>0 DEF OpRecord
  <2>3. /\ r \in OpRecord /\ r.pc = IF on THEN "recording" ELSE "next"
        /\ r.kind = op[o].kind /\ r.key = k /\ r.todo = op[o].todo \ {k}
        /\ r.tree = op[o].tree /\ r.row = op[o].row /\ r.cand = op[o].cand
        /\ r.prev = op[o].prev /\ r.then = op[o].then
    BY <1>0, <2>1, <2>2 DEF OpRecord
  <2>4. op' \in [Threads -> OpRecord] /\ op'[o] = r
    BY <1>2, <2>1, <2>3, SetIs
  <2>. QED
    BY <1>2, <2>2, <2>3, <2>4 DEF BuildSets
<1>. QED
  BY <1>1, <1>2 DEF SyncDevelopment, tables

LEMMA SeededIs ==
  ASSUME TypeOK, NEW o \in Threads, Seeded(o)
  PROVE  /\ op' \in [Threads -> OpRecord] /\ Fresh(op'[o]) /\ op'[o].then = "fail"
         /\ \/ op'[o] = NoOp
            \/ /\ op'[o].kind = "start" /\ op'[o].pc = "next"
               /\ op'[o].todo = {k \in Keys : rows[k].enabled}
<1>1. CASE {k \in Keys : rows[k].enabled} = {}
  <2>1. Set(o, NoOp)
    BY <1>1 DEF Seeded
  <2>. QED
    BY <2>1, SetIs, NoOpIs DEF Fresh
<1>2. CASE {k \in Keys : rows[k].enabled} # {}
  <2>1. PICK T \in SUBSET Keys : T = {k \in Keys : rows[k].enabled}
    OBVIOUS
  <2>2. PICK r : r = [NoOp EXCEPT !.kind = "start", !.pc = "next", !.todo = T]
    OBVIOUS
  <2>3. /\ r \in OpRecord /\ Fresh(r) /\ r.kind = "start" /\ r.pc = "next"
        /\ r.todo = T /\ r.then = "fail"
    BY <2>2, NoOpIs DEF OpRecord, Fresh
  <2>4. Set(o, r)
    BY <1>2, <2>1, <2>2 DEF Seeded
  <2>. QED
    BY <2>1, <2>3, <2>4, SetIs
<1>. QED
  BY <1>1, <1>2

LEMMA NextKeyIs ==
  ASSUME TypeOK, NEW o \in Threads, NEW k \in Keys, NextKey(o, k)
  PROVE  /\ op' \in [Threads -> OpRecord]
         /\ op'[o].pc \in {"removing", "entering"} /\ op'[o].then = "enter"
         /\ op'[o].todo = op[o].todo \ {k} /\ op'[o].key = k
         /\ op'[o].kind = op[o].kind /\ op'[o].row = op[o].row /\ op'[o].tree = op[o].tree
         /\ op'[o].cand = op[o].cand /\ op'[o].prev = op[o].prev
<1>1. op[o] \in OpRecord
  BY DEF TypeOK
<1>2. PICK pc \in {"removing", "entering"} :
        pc = IF op[o].kind = "logs" THEN "removing" ELSE "entering"
  OBVIOUS
<1>3. PICK r : r = [op[o] EXCEPT !.todo = @ \ {k}, !.key = k, !.then = "enter", !.pc = pc]
  OBVIOUS
<1>4. /\ r \in OpRecord /\ r.pc = pc /\ r.then = "enter"
      /\ r.todo = op[o].todo \ {k} /\ r.key = k
      /\ r.kind = op[o].kind /\ r.row = op[o].row /\ r.tree = op[o].tree
      /\ r.cand = op[o].cand /\ r.prev = op[o].prev
  BY <1>1, <1>3 DEF OpRecord
<1>5. Set(o, r)
  BY <1>2, <1>3 DEF NextKey
<1>. QED
  BY <1>4, <1>5, SetIs

-----------------------------------------------------------------------------
(* Types *)

RegistryType == [Types -> Entry \cup {None}]
ProcType == [Instances -> [accepting : BOOLEAN, state : {"running", "exited", "dead"}]]
ProcessesType == [Plugins -> Entry \cup {None}]
RowsType == [Keys -> Row]
CallType == [pc : {"idle", "passed", "running", "editing"},
             type : Types \cup {None}, inst : Instances \cup {None},
             version : Versions \cup {None}, late : BOOLEAN, update : BOOLEAN]

LEMMA TypeParts ==
  TypeOK <=>
    /\ rows \in RowsType /\ signers \subseteq Signers
    /\ monitors \in [Types -> Versions \cup {None}]
    /\ proc \in ProcType /\ processes \in ProcessesType /\ registry \in RegistryType
    /\ op \in [Threads -> OpRecord] /\ call \in [Calls -> CallType]
    /\ restarts \in 0..MaxRestarts /\ confirmed \subseteq Keys /\ outdated \subseteq Types
BY DEF TypeOK, RowsType, ProcType, ProcessesType, RegistryType, CallType

LEMMA TypePartsNext ==
  ASSUME rows' \in RowsType, signers' \subseteq Signers,
         monitors' \in [Types -> Versions \cup {None}],
         proc' \in ProcType, processes' \in ProcessesType, registry' \in RegistryType,
         op' \in [Threads -> OpRecord], call' \in [Calls -> CallType],
         restarts' \in 0..MaxRestarts, confirmed' \subseteq Keys, outdated' \subseteq Types
  PROVE  TypeOK'
BY DEF TypeOK, RowsType, ProcType, ProcessesType, RegistryType, CallType

\* The tables that the steps write.
LEMMA GateType ==
  ASSUME TypeOK, NEW i \in Instances \cup {None}, NEW open \in BOOLEAN
  PROVE  /\ Gate(i, open) \in ProcType
         /\ \A j \in Instances : /\ Gate(i, open)[j].state = proc[j].state
                                 /\ j # i => Gate(i, open)[j] = proc[j]
         /\ i # None => Gate(i, open)[i].accepting = open
<1>1. proc \in ProcType /\ None \notin Instances
  BY TypeParts, NoneIsNone
<1>2. CASE i = None
  BY <1>1, <1>2 DEF Gate
<1>3. CASE i # None
  <2>1. PICK x : x = [proc[i] EXCEPT !.accepting = open]
    OBVIOUS
  <2>2. Gate(i, open) = [proc EXCEPT ![i] = x]
    BY <1>3, <2>1 DEF Gate
  <2>3. /\ x \in [accepting : BOOLEAN, state : {"running", "exited", "dead"}]
        /\ x.accepting = open /\ x.state = proc[i].state
    BY <1>1, <1>3, <2>1 DEF ProcType
  <2>. QED
    BY <1>1, <1>3, <2>2, <2>3 DEF ProcType
<1>. QED
  BY <1>2, <1>3

LEMMA KillType ==
  ASSUME TypeOK, NEW i \in Instances \cup {None}
  PROVE  /\ Kill(i) \in ProcType
         /\ \A j \in Instances : j # i => Kill(i)[j] = proc[j]
         /\ i # None => Kill(i)[i] = Dead
         /\ Dead.state = "dead" /\ Dead.accepting = FALSE
<1>1. proc \in ProcType /\ None \notin Instances
  BY TypeParts, NoneIsNone
<1>. QED
  BY <1>1 DEF Kill, Dead, ProcType

LEMMA WithoutOwnerIs ==
  ASSUME TypeOK, NEW p
  PROVE  /\ WithoutOwner(p) \in RegistryType
         /\ \A t \in Types :
              WithoutOwner(p)[t] = IF registry[t] # None /\ registry[t].key[1] = p
                                   THEN None ELSE registry[t]
BY TypeParts DEF WithoutOwner, RegistryType

LEMMA TrustedRowsIs ==
  ASSUME TypeOK, NEW s
  PROVE  /\ TrustedRows(s) \in RowsType
         /\ \A k \in Keys :
              /\ TrustedRows(s)[k].present = rows[k].present
              /\ TrustedRows(s)[k].enabled = rows[k].enabled
              /\ TrustedRows(s)[k].signer = rows[k].signer
              /\ \/ TrustedRows(s)[k].trust = rows[k].trust
                 \/ TrustedRows(s)[k].trust = "trusted" /\ rows[k].signer = s
<1>1. rows \in RowsType
  BY TypeParts
<1>2. ASSUME NEW k \in Keys
      PROVE  /\ TrustedRows(s)[k] \in Row
             /\ TrustedRows(s)[k].present = rows[k].present
             /\ TrustedRows(s)[k].enabled = rows[k].enabled
             /\ TrustedRows(s)[k].signer = rows[k].signer
             /\ \/ TrustedRows(s)[k].trust = rows[k].trust
                \/ TrustedRows(s)[k].trust = "trusted" /\ rows[k].signer = s
  <2>1. PICK v : v = IF rows[k].trust = "official" THEN rows[k].trust ELSE "trusted"
    OBVIOUS
  <2>2. PICK w : w = [rows[k] EXCEPT !.trust = v]
    OBVIOUS
  <2>3. TrustedRows(s)[k] = IF Present(k) /\ rows[k].signer = s THEN w ELSE rows[k]
    BY <2>1, <2>2 DEF TrustedRows
  <2>4. rows[k] \in Row
    BY <1>1 DEF RowsType
  <2>5. /\ w \in Row /\ w.present = rows[k].present /\ w.enabled = rows[k].enabled
        /\ w.signer = rows[k].signer /\ w.trust = v
    BY <2>1, <2>2, <2>4 DEF Row, Trust
  <2>. QED
    BY <2>1, <2>3, <2>4, <2>5
<1>3. TrustedRows(s) \in RowsType
  <2>1. \A k \in Keys : TrustedRows(s)[k] \in Row
    BY <1>2
  <2>. QED
    BY <2>1 DEF TrustedRows, RowsType
<1>. QED
  BY <1>2, <1>3

LEMMA MarkFailureIs ==
  ASSUME TypeOK, NEW o \in Threads, MarkFailure(o)
  PROVE  /\ Failed(o) /\ rows' \in RowsType
         /\ UNCHANGED <<signers, users, restarts, confirmed>>
         /\ \/ rows' = rows
            \/ /\ \A k \in Keys \ {op[o].key} : rows'[k] = rows[k]
               /\ rows'[op[o].key].present = op[o].row.present
               /\ rows'[op[o].key].trust = op[o].row.trust
               /\ rows'[op[o].key].signer = op[o].row.signer
               /\ ~rows'[op[o].key].enabled
<1>1. rows \in RowsType /\ op[o].row \in Row /\ op[o].key \in Keys
  BY TypeParts DEF OpRecord
<1>2. PICK w : w = [op[o].row EXCEPT !.enabled = FALSE]
  OBVIOUS
<1>3. /\ w \in Row /\ w.present = op[o].row.present /\ w.trust = op[o].row.trust
      /\ w.signer = op[o].row.signer /\ ~w.enabled
  BY <1>1, <1>2 DEF Row
<1>4. rows' = [rows EXCEPT ![op[o].key] = w] \/ rows' = rows
  BY <1>2 DEF MarkFailure
<1>5. Failed(o) /\ UNCHANGED <<signers, users, restarts, confirmed>>
  BY DEF MarkFailure
<1>6. CASE rows' = rows
  BY <1>1, <1>5, <1>6
<1>7. CASE rows' = [rows EXCEPT ![op[o].key] = w]
  BY <1>1, <1>3, <1>5, <1>7 DEF RowsType
<1>. QED
  BY <1>4, <1>6, <1>7

\* An action that changes nothing but the operation.
LEMMA OpTypeKept ==
  ASSUME TypeOK, UNCHANGED <<tables, users, serving, restarts>>, op' \in [Threads -> OpRecord]
  PROVE  TypeOK'
BY TypeParts, TypePartsNext DEF tables, users, serving

LEMMA TypeQuiet ==
  ASSUME TypeOK, NEW o \in Threads,
         \/ \E k \in Keys : \/ \E s \in SignersOf[k] : Inspect(o, k, s)
                            \/ Disable(o, k) \/ Uninstall(o, k) \/ NextKey(o, k)
         \/ UpdateLogConfig(o) \/ InstallFails(o) \/ Drained(o) \/ DisableOthersFails(o)
         \/ RecordFails(o) \/ StoppedFails(o) \/ Seeded(o) \/ BootFails(o)
  PROVE  TypeOK'
<1>1. ASSUME NEW k \in Keys, NEW s \in SignersOf[k], Inspect(o, k, s) PROVE TypeOK'
  BY <1>1, InspectIs, OpTypeKept DEF Inspect
<1>2. ASSUME NEW k \in Keys, Disable(o, k) \/ Uninstall(o, k) PROVE TypeOK'
  <2>1. "disable" \in Thens /\ "uninstall" \in Thens
    BY DEF Thens
  <2>2. op' \in [Threads -> OpRecord]
    BY <1>2, <2>1, StoppingIs DEF Disable, Uninstall
  <2>. QED
    BY <1>2, <2>2, OpTypeKept DEF Disable, Uninstall
<1>3. ASSUME NEW k \in Keys, NextKey(o, k) PROVE TypeOK'
  BY <1>3, NextKeyIs, OpTypeKept DEF NextKey
<1>4. CASE UpdateLogConfig(o)
  BY <1>4, UpdateLogConfigIs, OpTypeKept DEF UpdateLogConfig
<1>5. CASE InstallFails(o)
  BY <1>5, FailedIs, OpTypeKept DEF InstallFails
<1>6. CASE Drained(o)
  <2>1. "migrating" \in Steps
    BY DEF Steps
  <2>. QED
    BY <1>6, <2>1, GoIs, OpTypeKept DEF Drained
<1>7. CASE DisableOthersFails(o)
  BY <1>7, FailedIs, OpTypeKept DEF DisableOthersFails
<1>8. CASE RecordFails(o)
  BY <1>8, RecordFailsIs, OpTypeKept DEF RecordFails
<1>9. CASE StoppedFails(o)
  BY <1>9, DoneIs, OpTypeKept DEF StoppedFails
<1>10. CASE Seeded(o)
  BY <1>10, SeededIs, OpTypeKept DEF Seeded
<1>11. CASE BootFails(o)
  BY <1>11, FailedIs, OpTypeKept DEF BootFails
<1>. QED
  BY <1>1, <1>2, <1>3, <1>4, <1>5, <1>6, <1>7, <1>8, <1>9, <1>10, <1>11

\* An action that writes the tables of packages.
LEMMA RowsTypeKept ==
  ASSUME TypeOK, UNCHANGED <<users, serving, restarts>>, op' \in [Threads -> OpRecord],
         rows' \in RowsType, signers' \subseteq Signers, confirmed' \subseteq Keys
  PROVE  TypeOK'
BY TypeParts, TypePartsNext DEF users, serving

LEMMA TypeRows ==
  ASSUME TypeOK, NEW o \in Threads,
         \/ \E k \in Keys : \E s \in SignersOf[k] : InspectOfficial(o, k, s)
         \/ Install(o) \/ DisableOtherPluginVersions(o) \/ RecordHealthy(o) \/ Stopped(o)
         \/ ClearDevelopment(o) \/ SyncDevelopment(o) \/ DeleteStale(o)
  PROVE  TypeOK'
<1>0. /\ rows \in RowsType /\ signers \subseteq Signers /\ confirmed \subseteq Keys
      /\ op \in [Threads -> OpRecord] /\ op[o].row \in Row /\ op[o].key \in Keys
      /\ NoRow \in Row
  BY TypeParts, NoOpIs DEF OpRecord
<1>1. ASSUME NEW k \in Keys, NEW s \in SignersOf[k], InspectOfficial(o, k, s) PROVE TypeOK'
  <2>1. signers' \subseteq Signers /\ rows' \in RowsType
    BY <1>0, <1>1, SignerIs, TrustedRowsIs DEF InspectOfficial
  <2>. QED
    BY <1>0, <1>1, <2>1, InspectOfficialIs, RowsTypeKept DEF InspectOfficial
<1>2. CASE Install(o)
  <2>1. rows' \in RowsType /\ confirmed' \subseteq Keys
    BY <1>0, <1>2 DEF Install, RowsType
  <2>2. "entering" \in Steps
    BY DEF Steps
  <2>3. op' \in [Threads -> OpRecord]
    BY <1>2, <2>2, GoIs, DoneIs DEF Install
  <2>. QED
    BY <1>0, <1>2, <2>1, <2>3, RowsTypeKept DEF Install
<1>3. CASE DisableOtherPluginVersions(o)
  <2>1. ASSUME NEW k \in Keys PROVE [rows[k] EXCEPT !.enabled = FALSE] \in Row
    BY <1>0 DEF RowsType, Row
  <2>2. rows' \in RowsType
    BY <1>0, <1>3, <2>1 DEF DisableOtherPluginVersions, RowsType
  <2>3. "disabled" \in Steps
    BY DEF Steps
  <2>4. op' \in [Threads -> OpRecord]
    BY <1>3, <2>3, GoIs, DoneIs DEF DisableOtherPluginVersions
  <2>. QED
    BY <1>0, <1>3, <2>2, <2>4, RowsTypeKept DEF DisableOtherPluginVersions
<1>4. CASE RecordHealthy(o)
  <2>1. [op[o].row EXCEPT !.enabled = TRUE] \in Row
    BY <1>0 DEF Row
  <2>2. rows' \in RowsType
    BY <1>0, <1>4, <2>1 DEF RecordHealthy, RowsType
  <2>. QED
    BY <1>0, <1>4, <2>2, DoneIs, RowsTypeKept DEF RecordHealthy
<1>5. CASE Stopped(o)
  <2>0. PICK w : w = [rows[op[o].key] EXCEPT !.enabled = FALSE]
    OBVIOUS
  <2>1. w \in Row
    BY <1>0, <2>0 DEF RowsType, Row
  <2>2. UNCHANGED <<signers, users, serving, restarts>>
    BY <1>5 DEF Stopped
  <2>3. op[o].then \in {"fail", "disable", "uninstall", "enter"}
    BY <1>0 DEF OpRecord
  <2>4. CASE op[o].then = "disable"
    <3>1. Done(o) /\ confirmed' = confirmed /\ rows' = [rows EXCEPT ![op[o].key] = w]
      BY <1>5, <2>0, <2>4 DEF Stopped
    <3>2. rows' \in RowsType
      BY <1>0, <2>1, <3>1 DEF RowsType
    <3>. QED
      BY <1>0, <2>2, <3>1, <3>2, DoneIs, RowsTypeKept
  <2>5. CASE op[o].then = "uninstall"
    <3>1. /\ Done(o) /\ confirmed' = confirmed \ {op[o].key}
          /\ rows' = [rows EXCEPT ![op[o].key] = NoRow]
      BY <1>5, <2>5 DEF Stopped
    <3>2. rows' \in RowsType /\ confirmed' \subseteq Keys
      BY <1>0, <3>1 DEF RowsType
    <3>. QED
      BY <1>0, <2>2, <3>1, <3>2, DoneIs, RowsTypeKept
  <2>6. CASE op[o].then = "enter"
    <3>1. Go(o, "entering") /\ UNCHANGED <<rows, confirmed>> /\ "entering" \in Steps
      BY <1>5, <2>6 DEF Stopped, Steps
    <3>2. op' \in [Threads -> OpRecord]
      BY <3>1, GoIs
    <3>. QED
      BY <1>0, <2>2, <3>1, <3>2, RowsTypeKept
  <2>7. CASE op[o].then = "fail"
    <3>1. Failed(o) /\ UNCHANGED <<rows, confirmed>>
      BY <1>5, <2>7 DEF Stopped
    <3>. QED
      BY <1>0, <2>2, <3>1, FailedIs, RowsTypeKept
  <2>. QED
    BY <2>3, <2>4, <2>5, <2>6, <2>7
<1>6. CASE ClearDevelopment(o)
  <2>1. rows' \in RowsType
    BY <1>0, <1>6 DEF ClearDevelopment, RowsType
  <2>. QED
    BY <1>0, <1>6, <2>1, ClearDevelopmentIs, RowsTypeKept DEF ClearDevelopment
<1>7. CASE SyncDevelopment(o)
  <2>1. /\ op' \in [Threads -> OpRecord] /\ UNCHANGED <<signers, users, serving, restarts>>
        /\ BuildStarts(o) \/ \E k \in Keys, on \in BOOLEAN : BuildSets(o, k, on)
    BY <1>7, SyncDevelopmentIs
  <2>2. rows' \in RowsType /\ confirmed' \subseteq Keys
    <3>1. CASE BuildStarts(o)
      BY <1>0, <3>1 DEF BuildStarts
    <3>2. ASSUME NEW k \in Keys, NEW on \in BOOLEAN, BuildSets(o, k, on)
          PROVE  rows' \in RowsType /\ confirmed' \subseteq Keys
      <4>1. [present |-> TRUE, enabled |-> on, trust |-> "development", signer |-> None] \in Row
        BY DEF Row, Trust
      <4>. QED
        BY <1>0, <3>2, <4>1 DEF BuildSets, RowsType
    <3>. QED
      BY <2>1, <3>1, <3>2
  <2>. QED
    BY <1>0, <2>1, <2>2, RowsTypeKept
<1>8. CASE DeleteStale(o)
  <2>1. rows' \in RowsType /\ confirmed' \subseteq Keys
    BY <1>0, <1>8 DEF DeleteStale, RowsType, Stale
  <2>. QED
    BY <1>0, <1>8, <2>1, RowsTypeKept DEF DeleteStale
<1>. QED
  BY <1>1, <1>2, <1>3, <1>4, <1>5, <1>6, <1>7, <1>8

\* An action on processes and the registry.
LEMMA ServingTypeKept ==
  ASSUME TypeOK, UNCHANGED <<signers, confirmed, monitors, outdated, call, restarts>>,
         rows' \in RowsType, op' \in [Threads -> OpRecord],
         proc' \in ProcType, processes' \in ProcessesType, registry' \in RegistryType
  PROVE  TypeOK'
BY TypeParts, TypePartsNext

LEMMA TypeServing ==
  ASSUME TypeOK, NEW o \in Threads, op[o].pc = "replaced" => op[o].cand # None,
         \/ Enter(o) \/ ProbeFails(o) \/ Probed(o) \/ FallBack(o) \/ SetProcess(o)
         \/ Retire(o) \/ RemoveOwner(o) \/ Take(o) \/ Stop(o)
         \/ \E p \in Plugins : Supervise(o, p)
  PROVE  TypeOK'
<1>0. /\ rows \in RowsType /\ proc \in ProcType /\ processes \in ProcessesType
      /\ registry \in RegistryType
      /\ op \in [Threads -> OpRecord] /\ op[o].key \in Keys /\ op[o].key[1] \in Plugins
      /\ op[o].cand \in Instances \cup {None} /\ op[o].prev \in Instances \cup {None}
      /\ TRUE \in BOOLEAN /\ FALSE \in BOOLEAN
  BY TypeParts, NoneIsNone DEF OpRecord
<1>1. CASE Enter(o)
  <2>1. CASE Launch(o, op[o].key) /\ UNCHANGED <<tables, users, restarts>>
    <3>1. /\ proc' \in ProcType /\ op' \in [Threads -> OpRecord]
          /\ UNCHANGED <<processes, registry>>
      <4>1. [accepting |-> TRUE, state |-> "running"]
              \in [accepting : BOOLEAN, state : {"running", "exited", "dead"}]
        OBVIOUS
      <4>. QED
        BY <1>0, <2>1, <4>1, LaunchIs DEF ProcType, Launch
    <3>. QED
      BY <1>0, <2>1, <3>1, ServingTypeKept DEF tables, users
  <2>2. CASE Failed(o) /\ UNCHANGED <<tables, users, serving, restarts>>
    BY <2>2, FailedIs, OpTypeKept
  <2>. QED
    BY <1>1, <2>1, <2>2 DEF Enter
<1>2. CASE ProbeFails(o)
  BY <1>0, <1>2, KillType, MarkFailureIs, FailedIs, ServingTypeKept DEF ProbeFails, users
<1>3. CASE Probed(o)
  <2>1. InstOf(op[o].key[1]) \in Instances \cup {None}
    BY <1>0, InstOfIs
  <2>2. proc' \in ProcType
    BY <1>0, <1>3, <2>1, GateType DEF Probed
  <2>. QED
    BY <1>0, <1>3, <2>2, ProbedIs, ServingTypeKept DEF Probed, users, tables
<1>4. CASE FallBack(o)
  <2>1. Gate(op[o].prev, TRUE) \in ProcType
    BY <1>0, GateType
  <2>2. proc' \in ProcType
    BY <1>4, <2>1 DEF FallBack, ProcType, Dead
  <2>. QED
    BY <1>0, <1>4, <2>2, MarkFailureIs, FailedIs, ServingTypeKept DEF FallBack, users
<1>5. CASE SetProcess(o)
  <2>1. proc' \in ProcType
    BY <1>0, <1>5, GateType DEF SetProcess
  <2>2. op[o].cand # None
    BY <1>5 DEF SetProcess
  <2>3. processes' \in ProcessesType
    BY <1>0, <1>5, <2>2 DEF SetProcess, ProcessesType, Entry
  <2>. QED
    BY <1>0, <1>5, <2>1, <2>3, SetProcessIs, ServingTypeKept DEF SetProcess, users, tables
<1>6. CASE Retire(o)
  <2>1. op' \in [Threads -> OpRecord]
    BY <1>6, RetireIs DEF Retire
  <2>. QED
    BY <1>0, <1>6, <2>1, KillType, ServingTypeKept DEF Retire, users, tables
<1>7. CASE RemoveOwner(o)
  <2>1. "taking" \in Steps
    BY DEF Steps
  <2>2. op' \in [Threads -> OpRecord]
    BY <1>7, <2>1, GoIs DEF RemoveOwner
  <2>. QED
    BY <1>0, <1>7, <2>2, WithoutOwnerIs, ServingTypeKept DEF RemoveOwner, users, tables
<1>8. CASE Take(o)
  <2>1. InstOf(op[o].key[1]) \in Instances \cup {None}
    BY <1>0, InstOfIs
  <2>2. proc' \in ProcType /\ processes' \in ProcessesType
    BY <1>0, <1>8, <2>1, GateType DEF Take, ProcessesType
  <2>. QED
    BY <1>0, <1>8, <2>2, TakeIs, ServingTypeKept DEF Take, users, tables
<1>9. CASE Stop(o)
  <2>1. op' \in [Threads -> OpRecord]
    BY <1>9, RetireIs DEF Stop
  <2>. QED
    BY <1>0, <1>9, <2>1, KillType, ServingTypeKept DEF Stop, users, tables
<1>10. ASSUME NEW p \in Plugins, Supervise(o, p) PROVE TypeOK'
  BY <1>0, <1>10, SuperviseIs, WithoutOwnerIs, ServingTypeKept DEF Supervise, users, tables
<1>. QED
  BY <1>1, <1>2, <1>3, <1>4, <1>5, <1>6, <1>7, <1>8, <1>9, <1>10

\* The steps of a replacement that touch the monitors, and the calls.
LEMMA TypeMigration ==
  ASSUME TypeOK, NEW o \in Threads, op[o].pc = "replaced" => op[o].cand # None,
         op[o].pc = "migrated" => op[o].cand # None,
         Migrate(o) \/ Replace(o) \/ Restart(o)
  PROVE  TypeOK'
<1>0. /\ TypeOK /\ op[o].key \in Keys /\ op[o].key[2] \in Versions
      /\ op[o].cand \in Instances \cup {None}
  BY TypeParts, NoneIsNone DEF OpRecord
<1>1. CASE Migrate(o)
  <2>1. "migrated" \in Steps
    BY DEF Steps
  <2>2. op' \in [Threads -> OpRecord]
    BY <1>1, <2>1, GoIs DEF Migrate
  <2>3. monitors' \in [Types -> Versions \cup {None}]
    BY <1>0, <1>1, TypeParts DEF Migrate
  <2>4. outdated' \subseteq Types
    BY <1>0, <1>1, TypeParts DEF Migrate
  <2>5. UNCHANGED <<rows, signers, confirmed, call, proc, processes, registry, restarts>>
    BY <1>1 DEF Migrate, tables, serving
  <2>. QED
    BY <1>0, <2>2, <2>3, <2>4, <2>5, TypeParts, TypePartsNext
<1>2. CASE Replace(o)
  <2>1. "replaced" \in Steps
    BY DEF Steps
  <2>2. op' \in [Threads -> OpRecord]
    BY <1>2, <2>1, GoIs DEF Replace
  <2>3. op[o].cand \in Instances
    BY <1>0, <1>2 DEF Replace
  <2>4. Candidate(op[o]) \in Entry
    BY <1>0, <2>3 DEF Candidate, Entry
  <2>5. registry' \in RegistryType
    BY <1>0, <1>2, <2>4, WithoutOwnerIs DEF Replace, RegistryType, Candidate
  <2>6. call' \in [Calls -> CallType]
    <3>1. ASSUME NEW c \in Calls PROVE [call[c] EXCEPT !.late = TRUE] \in CallType
      BY <1>0, TypeParts DEF CallType
    <3>. QED
      BY <1>0, <1>2, <3>1, TypeParts DEF Replace
  <2>7. UNCHANGED <<rows, signers, confirmed, monitors, outdated, proc, processes, restarts>>
    BY <1>2 DEF Replace, tables
  <2>. QED
    BY <1>0, <2>2, <2>5, <2>6, <2>7, TypeParts, TypePartsNext
<1>3. CASE Restart(o)
  <2>1. op' \in [Threads -> OpRecord]
    BY <1>3, RestartIs
  <2>2. /\ proc' \in ProcType /\ processes' \in ProcessesType /\ registry' \in RegistryType
        /\ call' \in [Calls -> CallType]
    <3>1. Dead \in [accepting : BOOLEAN, state : {"running", "exited", "dead"}]
      BY DEF Dead
    <3>2. NoCall \in CallType
      BY DEF NoCall, CallType
    <3>. QED
      BY <1>3, <3>1, <3>2 DEF Restart, ProcType, ProcessesType, RegistryType
  <2>3. restarts' \in 0..MaxRestarts
    BY <1>0, <1>3, PluginAssumption, TypeParts DEF Restart
  <2>4. UNCHANGED <<rows, signers, confirmed, monitors, outdated>>
    BY <1>3 DEF Restart, tables
  <2>. QED
    BY <1>0, <2>1, <2>2, <2>3, <2>4, TypeParts, TypePartsNext
<1>. QED
  BY <1>1, <1>2, <1>3

LEMMA StepType ==
  ASSUME TypeOK, NEW c \in Calls, NEW r \in CallType, Step(c, r)
  PROVE  /\ call' \in [Calls -> CallType] /\ call'[c] = r
         /\ \A d \in Calls : d # c => call'[d] = call[d]
BY TypeParts DEF Step

\* What calls become.
LEMMA PassGateIs ==
  ASSUME TypeOK, NEW c \in Calls, NEW t \in Monitored, PassGate(c, t)
  PROVE  /\ call' \in [Calls -> CallType] /\ \A d \in Calls : d # c => call'[d] = call[d]
         /\ t \in Types /\ registry[t] # None /\ registry[t] \in Entry
         /\ call'[c].pc = "passed" /\ call'[c].inst = registry[t].inst
<1>1. t \in Types /\ registry[t] \in Entry /\ registry[t] # None
  BY PluginAssumption, TypeParts DEF PassGate, RegistryType
<1>2. PICK r : r = [NoCall EXCEPT !.pc = "passed", !.inst = registry[t].inst]
  OBVIOUS
<1>3. r \in CallType /\ r.pc = "passed" /\ r.inst = registry[t].inst
  BY <1>1, <1>2 DEF NoCall, CallType, Entry
<1>4. Step(c, r)
  BY <1>2 DEF PassGate
<1>. QED
  BY <1>1, <1>3, <1>4, StepType

LEMMA JoinIs ==
  ASSUME TypeOK, NEW c \in Calls, Join(c), call[c].inst # None
  PROVE  /\ call' \in [Calls -> CallType] /\ \A d \in Calls : d # c => call'[d] = call[d]
         /\ call'[c].pc = "running" /\ call'[c].inst = call[c].inst
         /\ call'[c].late = ~proc[call[c].inst].accepting
<1>1. call[c] \in CallType /\ proc[call[c].inst].accepting \in BOOLEAN
  BY TypeParts DEF CallType, ProcType
<1>2. PICK b \in BOOLEAN : b = ~proc[call[c].inst].accepting
  BY <1>1
<1>3. PICK r : r = [call[c] EXCEPT !.pc = "running", !.late = b]
  OBVIOUS
<1>4. r \in CallType /\ r.pc = "running" /\ r.inst = call[c].inst /\ r.late = b
  BY <1>1, <1>3 DEF CallType
<1>5. Step(c, r)
  BY <1>2, <1>3 DEF Join
<1>. QED
  BY <1>2, <1>4, <1>5, StepType

LEMMA ReadVersionIs ==
  ASSUME TypeOK, NEW c \in Calls, NEW t \in Monitored, ReadVersion(c, t)
  PROVE  /\ call' \in [Calls -> CallType] /\ \A d \in Calls : d # c => call'[d] = call[d]
         /\ t \in Types /\ call'[c].pc = "editing" /\ call'[c].type = t /\ ~call'[c].late
         /\ call'[c].inst = None /\ call'[c].update = (monitors[t] # None)
         /\ call'[c].version \in Versions
         /\ \/ call'[c].version = monitors[t]
            \/ registry[t] # None /\ call'[c].version = registry[t].key[2]
<1>1. /\ t \in Types /\ monitors[t] \in Versions \cup {None}
      /\ registry[t] # None => registry[t].key[2] \in Versions
  BY PluginAssumption, TypeParts, NoneIsNone DEF RegistryType, Entry
<1>2. PICK v : /\ v = monitors[t] \/ (registry[t] # None /\ v = registry[t].key[2])
               /\ v # None
               /\ Step(c, [NoCall EXCEPT !.pc = "editing", !.type = t, !.version = v,
                                         !.update = monitors[t] # None])
  BY DEF ReadVersion
<1>3. v \in Versions
  BY <1>1, <1>2
<1>4. PICK b \in BOOLEAN : b = (monitors[t] # None)
  OBVIOUS
<1>5. PICK r : r = [NoCall EXCEPT !.pc = "editing", !.type = t, !.version = v, !.update = b]
  OBVIOUS
<1>6. /\ r \in CallType /\ r.pc = "editing" /\ r.type = t /\ ~r.late /\ r.inst = None
      /\ r.update = b /\ r.version = v
  BY <1>1, <1>3, <1>5 DEF NoCall, CallType
<1>7. Step(c, r)
  BY <1>2, <1>4, <1>5
<1>. QED
  BY <1>1, <1>2, <1>3, <1>4, <1>6, <1>7, StepType

\* An action of those who use the modules.
LEMMA UserTypeKept ==
  ASSUME TypeOK, UNCHANGED <<tables, serving, op, restarts>>, call' \in [Calls -> CallType],
         monitors' \in [Types -> Versions \cup {None}], outdated' \subseteq Types
  PROVE  TypeOK'
BY TypeParts, TypePartsNext DEF tables, serving

LEMMA NoCallIs ==
  NoCall \in CallType /\ NoCall.pc = "idle" /\ NoCall.inst = None
BY DEF NoCall, CallType

LEMMA TypeUsers ==
  ASSUME TypeOK, NEW c \in Calls, call[c].pc = "passed" => call[c].inst # None,
         call[c].pc = "editing" => call[c].type \in Types,
         \/ Join(c) \/ Answer(c) \/ WriteMonitor(c)
         \/ \E t \in Monitored : PassGate(c, t) \/ ReadVersion(c, t)
  PROVE  TypeOK'
<1>0. /\ monitors \in [Types -> Versions \cup {None}] /\ outdated \subseteq Types
      /\ call[c] \in CallType
  BY TypeParts
<1>1. CASE Join(c)
  BY <1>0, <1>1, JoinIs, UserTypeKept DEF Join
<1>2. CASE Answer(c)
  BY <1>0, <1>2, NoCallIs, StepType, UserTypeKept DEF Answer
<1>3. CASE WriteMonitor(c)
  <2>1. call' \in [Calls -> CallType]
    BY <1>3, NoCallIs, StepType DEF WriteMonitor
  <2>2. monitors' \in [Types -> Versions \cup {None}] /\ outdated' \subseteq Types
    BY <1>0, <1>3 DEF WriteMonitor, CallType
  <2>. QED
    BY <1>3, <2>1, <2>2, UserTypeKept DEF WriteMonitor
<1>4. ASSUME NEW t \in Monitored, PassGate(c, t) PROVE TypeOK'
  BY <1>0, <1>4, PassGateIs, UserTypeKept DEF PassGate
<1>5. ASSUME NEW t \in Monitored, ReadVersion(c, t) PROVE TypeOK'
  BY <1>0, <1>5, ReadVersionIs, UserTypeKept DEF ReadVersion
<1>. QED
  BY <1>1, <1>2, <1>3, <1>4, <1>5

LEMMA TypeOthers ==
  ASSUME TypeOK,
         \/ \E k \in Keys : TrustPublisher(k)
         \/ \E o \in Threads, k \in Keys, confirm \in BOOLEAN : Enable(o, k, confirm)
         \/ \E i \in Instances : Exit(i)
         \/ \E t \in Monitored : DeleteMonitor(t)
  PROVE  TypeOK'
<1>1. ASSUME NEW k \in Keys, TrustPublisher(k) PROVE TypeOK'
  <2>1. rows[k].signer \in Signers
    BY <1>1, TypeParts DEF TrustPublisher, RowsType, Row
  <2>2. signers' \subseteq Signers /\ rows' \in RowsType
    BY <1>1, <2>1, TypeParts, TrustedRowsIs DEF TrustPublisher
  <2>3. UNCHANGED <<monitors, proc, processes, registry, op, call, restarts, confirmed, outdated>>
    BY <1>1 DEF TrustPublisher, serving
  <2>. QED
    BY <2>2, <2>3, TypeParts, TypePartsNext
<1>2. ASSUME NEW o \in Threads, NEW k \in Keys, NEW confirm \in BOOLEAN, Enable(o, k, confirm)
      PROVE  TypeOK'
  <2>1. Launch(o, k) /\ UNCHANGED <<rows, signers, users, restarts, processes, registry>>
    BY <1>2 DEF Enable, Launch
  <2>2. proc' \in ProcType
    <3>1. [accepting |-> TRUE, state |-> "running"]
            \in [accepting : BOOLEAN, state : {"running", "exited", "dead"}]
      OBVIOUS
    <3>. QED
      BY <2>1, <3>1, LaunchIs, TypeParts DEF ProcType
  <2>3. confirmed' \subseteq Keys
    BY <1>2, TypeParts DEF Enable
  <2>4. UNCHANGED <<monitors, call, outdated>>
    BY <2>1 DEF users
  <2>5. op' \in [Threads -> OpRecord]
    BY <2>1, LaunchIs
  <2>. QED
    BY <2>1, <2>2, <2>3, <2>4, <2>5, TypeParts, TypePartsNext
<1>3. ASSUME NEW i \in Instances, Exit(i) PROVE TypeOK'
  <2>1. PICK x : x = [proc[i] EXCEPT !.state = "exited"]
    OBVIOUS
  <2>2. x \in [accepting : BOOLEAN, state : {"running", "exited", "dead"}]
    BY <2>1, TypeParts DEF ProcType
  <2>3. proc' = [proc EXCEPT ![i] = x]
    BY <1>3, <2>1 DEF Exit
  <2>4. proc' \in ProcType
    BY <2>2, <2>3, TypeParts DEF ProcType
  <2>5. UNCHANGED <<rows, signers, confirmed, monitors, call, outdated, processes, registry,
                    op, restarts>>
    BY <1>3 DEF Exit, tables, users
  <2>. QED
    BY <2>4, <2>5, TypeParts, TypePartsNext
<1>4. ASSUME NEW t \in Monitored, DeleteMonitor(t) PROVE TypeOK'
  <2>1. /\ call' \in [Calls -> CallType] /\ monitors' \in [Types -> Versions \cup {None}]
        /\ outdated' \subseteq Types
    BY <1>4, NoCallIs, TypeParts DEF DeleteMonitor
  <2>. QED
    BY <1>4, <2>1, UserTypeKept DEF DeleteMonitor
<1>. QED
  BY <1>1, <1>2, <1>3, <1>4

\* The part of the invariant that types rest on.
LEMMA HoldersKnown ==
  ASSUME PluginsIInv
  PROVE  /\ \A o \in Threads : op[o].pc \in Starting => op[o].cand # None
         /\ \A c \in Calls : /\ call[c].pc \in {"passed", "running"} => call[c].inst # None
                             /\ call[c].pc = "editing" /\ Threads # {} => call[c].type \in Types
BY DEF PluginsIInv, ServingOf, HoldingFits, CallsFit, MonitorsOf

LEMMA TypeStep ==
  ASSUME PluginsIInv, Threads # {}, [Next]_vars
  PROVE  TypeOK'
<1>0. /\ TypeOK
      /\ \A o \in Threads : op[o].pc \in {"replaced", "migrated"} => op[o].cand # None
      /\ \A c \in Calls : /\ call[c].pc = "passed" => call[c].inst # None
                          /\ call[c].pc = "editing" => call[c].type \in Types
  BY HoldersKnown DEF PluginsIInv, Starting, Waiting
<1>1. CASE UNCHANGED vars
  BY <1>0, <1>1 DEF vars, TypeOK
<1>2. ASSUME NEW o \in Threads, NEW k \in Keys,
             \/ \E s \in SignersOf[k] : Inspect(o, k, s)
             \/ Disable(o, k) \/ Uninstall(o, k)
      PROVE  TypeOK'
  BY <1>0, <1>2, TypeQuiet
<1>3. ASSUME NEW o \in Threads, UpdateLogConfig(o) PROVE TypeOK'
  BY <1>0, <1>3, TypeQuiet
<1>4. ASSUME NEW o \in Threads, Restart(o) PROVE TypeOK'
  BY <1>0, <1>4, TypeMigration
<1>5. ASSUME NEW o \in Threads, NEW p \in Plugins, Supervise(o, p) PROVE TypeOK'
  BY <1>0, <1>5, TypeServing
<1>6. ASSUME NEW o \in Threads, Progress(o) PROVE TypeOK'
  <2>1. CASE \/ \E k \in Keys : NextKey(o, k)
             \/ InstallFails(o) \/ Drained(o) \/ DisableOthersFails(o)
             \/ RecordFails(o) \/ StoppedFails(o) \/ Seeded(o) \/ BootFails(o)
    BY <1>0, <2>1, TypeQuiet
  <2>2. CASE \/ \E k \in Keys : \E s \in SignersOf[k] : InspectOfficial(o, k, s)
             \/ Install(o) \/ DisableOtherPluginVersions(o) \/ RecordHealthy(o) \/ Stopped(o)
             \/ ClearDevelopment(o) \/ SyncDevelopment(o) \/ DeleteStale(o)
    BY <1>0, <2>2, TypeRows
  <2>3. CASE \/ Enter(o) \/ ProbeFails(o) \/ Probed(o) \/ FallBack(o) \/ SetProcess(o)
             \/ Retire(o) \/ RemoveOwner(o) \/ Take(o) \/ Stop(o)
    BY <1>0, <2>3, TypeServing
  <2>4. CASE Migrate(o) \/ Replace(o)
    BY <1>0, <2>4, TypeMigration
  <2>. QED
    BY <1>6, <2>1, <2>2, <2>3, <2>4 DEF Progress
<1>7. ASSUME NEW c \in Calls,
             \/ Execution(c) \/ WriteMonitor(c)
             \/ \E t \in Monitored : PassGate(c, t) \/ ReadVersion(c, t)
      PROVE  TypeOK'
  BY <1>0, <1>7, TypeUsers DEF Execution
<1>8. CASE \/ \E k \in Keys : TrustPublisher(k)
           \/ \E o \in Threads, k \in Keys, confirm \in BOOLEAN : Enable(o, k, confirm)
           \/ \E i \in Instances : Exit(i)
           \/ \E t \in Monitored : DeleteMonitor(t)
  BY <1>0, <1>8, TypeOthers
<1>. QED
  BY <1>1, <1>2, <1>3, <1>4, <1>5, <1>6, <1>7, <1>8 DEF Next

-----------------------------------------------------------------------------
(* Processes and the registry *)

\* Steps at which an operation holds no process.
Resting == {"idle", "down", "clearing", "next", "installing", "entering", "recording",
            "disabled", "removing"}
Rests(s) == s.cand = None /\ s.prev = None /\ s.pc \in Resting

\* What the lemmas of this section say of the types.
LEMMA ServingTypes ==
  ASSUME TypeOK, NEW o \in Threads
  PROVE  /\ op[o] \in OpRecord /\ op[o].key \in Keys /\ op[o].key[1] \in Plugins
         /\ op[o].pc \in Steps
         /\ op[o].cand \in Instances \cup {None} /\ op[o].prev \in Instances \cup {None}
         /\ \A i \in Instances : proc[i].accepting \in BOOLEAN
         /\ \A p \in Plugins : processes[p] # None =>
              /\ processes[p] \in Entry /\ processes[p].inst \in Instances
              /\ processes[p].key \in Keys
         /\ \A t \in Types : registry[t] # None =>
              /\ registry[t] \in Entry /\ registry[t].inst \in Instances
              /\ registry[t].key \in Keys /\ registry[t].key[1] \in Plugins
BY TypeParts, NoneIsNone DEF OpRecord, Steps, ProcType, ProcessesType, RegistryType, Entry

\* The operation goes from one step at which it holds nothing to another.
LEMMA ServingRests ==
  ASSUME TypeOK, NEW o \in Threads, ServingOf(op[o]), op[o].pc \in Resting \cup {"stopped"},
         UNCHANGED serving, Rests(op'[o])
  PROVE  ServingOf(op[o])'
<1>. USE DEF Resting, Starting, Waiting
<1>1. UNCHANGED <<proc, processes, registry>>
  BY DEF serving
<1>2. op[o].cand = None /\ op[o].prev = None
  BY DEF ServingOf, HoldingFits
<1>3. ProcessesFit(op[o])'
  BY <1>1, <1>2, NoneIsNone DEF ServingOf, ProcessesFit, Alive, Activated, Rests
<1>4. RegistryFits(op[o])'
  BY <1>1, <1>2 DEF ServingOf, RegistryFits, Rests
<1>5. HoldingFits(op[o])'
  BY DEF HoldingFits, Rests
<1>. QED
  BY <1>3, <1>4, <1>5 DEF ServingOf

\* The operation stays where it is, and nobody calls its candidate.
LEMMA ServingStays ==
  ASSUME TypeOK, NEW o \in Threads, ServingOf(op[o]), UNCHANGED <<serving, op>>,
         op[o].pc \in Starting \ {"replaced"} => \A c \in Calls : call'[c].inst # op[o].cand
  PROVE  ServingOf(op[o])'
<1>1. UNCHANGED <<proc, processes, registry, op>>
  BY DEF serving
<1>2. ProcessesFit(op[o])'
  BY <1>1 DEF ServingOf, ProcessesFit, Alive, Activated
<1>3. RegistryFits(op[o])'
  BY <1>1 DEF ServingOf, RegistryFits, Candidate
<1>4. HoldingFits(op[o])'
  BY <1>1 DEF ServingOf, HoldingFits, Activated, Alive, InstOf, OwnedByAnother, Served
<1>. QED
  BY <1>2, <1>3, <1>4 DEF ServingOf

\* It goes on while it waits, and nothing changes hands.
LEMMA ServingWaits ==
  ASSUME TypeOK, NEW o \in Threads, ServingOf(op[o]), UNCHANGED <<serving, call>>,
         op[o].pc \in {"draining", "migrating"}, op'[o].pc \in {"migrating", "migrated"},
         Moved(op[o], op'[o])
  PROVE  ServingOf(op[o])'
<1>1. UNCHANGED <<proc, processes, registry, call>>
  BY DEF serving
<1>2. ProcessesFit(op[o])'
  BY <1>1 DEF ServingOf, ProcessesFit, Alive, Activated, Moved, Waiting
<1>3. RegistryFits(op[o])'
  BY <1>1 DEF ServingOf, RegistryFits, Moved
<1>4. HoldingFits(op[o])'
  BY <1>1 DEF ServingOf, HoldingFits, Activated, Alive, InstOf, OwnedByAnother, Served, Moved,
              Waiting, Starting
<1>. QED
  BY <1>2, <1>3, <1>4 DEF ServingOf

LEMMA LaunchServes ==
  ASSUME TypeOK, NEW o \in Threads, ServingOf(op[o]), op[o].pc \in Resting,
         NEW k \in Keys, Launch(o, k), UNCHANGED call
  PROVE  ServingOf(op[o])'
<1>. USE DEF Resting, Starting, Waiting
<1>0. op[o].cand = None /\ op[o].prev = None
  BY DEF ServingOf, HoldingFits
<1>1. /\ op'[o].pc = "probing" /\ op'[o].prev = op[o].prev
      /\ UNCHANGED <<processes, registry, call>>
  BY LaunchIs DEF Launch
<1>2. PICK i \in Instances :
        /\ Unused(i) /\ op'[o].cand = i
        /\ proc' = [proc EXCEPT ![i] = [accepting |-> TRUE, state |-> "running"]]
  BY LaunchIs
<1>3. /\ proc'[i].accepting /\ proc'[i].state = "running"
      /\ \A j \in Instances : j # i => proc'[j] = proc[j]
  BY <1>2, TypeParts DEF ProcType
<1>4. /\ \A p \in Plugins : processes[p] # None =>
            processes[p].inst # i /\ proc'[processes[p].inst] = proc[processes[p].inst]
      /\ \A c \in Calls : call[c].inst # i
  BY <1>2, <1>3, ServingTypes DEF Unused
<1>5. ProcessesFit(op[o])'
  BY <1>0, <1>1, <1>2, <1>3, <1>4, NoneIsNone DEF ServingOf, ProcessesFit, Alive, Activated
<1>6. RegistryFits(op[o])'
  BY <1>0, <1>1, <1>4 DEF ServingOf, RegistryFits
<1>7. HoldingFits(op[o])'
  BY <1>0, <1>1, <1>2, <1>3, <1>4, NoneIsNone DEF HoldingFits, Alive, Activated
<1>. QED
  BY <1>5, <1>6, <1>7 DEF ServingOf

\* The candidate is killed, and the process it should have replaced goes on.
LEMMA GiveUpServes ==
  ASSUME TypeOK, NEW o \in Threads, ServingOf(op[o]), ProbeFails(o) \/ FallBack(o)
  PROVE  ServingOf(op[o])'
<1>. USE DEF Resting, Starting, Waiting
<1>1. Rests(op'[o])
  BY MarkFailureIs, FailedIs, NoOpIs DEF ProbeFails, FallBack, Rests, Fresh
<1>2. /\ op[o].cand \in Instances /\ op[o].cand # op[o].prev /\ ~Activated(op[o].cand)
      /\ UNCHANGED <<processes, registry>>
  BY ServingTypes DEF ServingOf, HoldingFits, ProbeFails, FallBack
<1>3. /\ proc'[op[o].cand] = Dead
      /\ \A j \in Instances : j # op[o].cand =>
           /\ proc'[j].state = proc[j].state
           /\ j # op[o].prev => proc'[j] = proc[j]
           /\ j = op[o].prev => proc'[j].accepting
  <2>1. CASE ProbeFails(o)
    <3>1. op[o].prev = None
      BY <2>1 DEF ProbeFails, ServingOf, HoldingFits
    <3>. QED
      BY <1>2, <2>1, <3>1, KillType, NoneIsNone DEF ProbeFails
  <2>2. CASE FallBack(o)
    <3>1. TRUE \in BOOLEAN /\ op[o].prev \in Instances \cup {None}
      BY ServingTypes
    <3>2. proc' = [Gate(op[o].prev, TRUE) EXCEPT ![op[o].cand] = Dead]
      BY <2>2 DEF FallBack
    <3>3. /\ Gate(op[o].prev, TRUE) \in ProcType
          /\ \A j \in Instances : /\ Gate(op[o].prev, TRUE)[j].state = proc[j].state
                                  /\ j # op[o].prev => Gate(op[o].prev, TRUE)[j] = proc[j]
          /\ op[o].prev # None => Gate(op[o].prev, TRUE)[op[o].prev].accepting
      BY <3>1, GateType
    <3>4. \A j \in Instances : j # op[o].cand => proc'[j] = Gate(op[o].prev, TRUE)[j]
      BY <3>2, <3>3 DEF ProcType
    <3>5. proc'[op[o].cand] = Dead
      BY <1>2, <3>2, <3>3 DEF ProcType
    <3>. QED
      BY <3>3, <3>4, <3>5, NoneIsNone
  <2>. QED
    BY <2>1, <2>2
<1>4. \A p \in Plugins : processes[p] # None =>
        /\ processes[p].inst \in Instances /\ processes[p].inst # op[o].cand
        /\ proc'[processes[p].inst].state = proc[processes[p].inst].state
        /\ proc'[processes[p].inst].accepting
  <2>1. ASSUME NEW p \in Plugins, processes[p] # None
        PROVE  processes[p].inst \in Instances /\ processes[p].inst # op[o].cand
    BY <1>2, <2>1, ServingTypes DEF Activated
  <2>2. ASSUME NEW p \in Plugins, processes[p] # None, processes[p].inst # op[o].prev
        PROVE  proc[processes[p].inst].accepting
    <3>1. p = op[o].key[1] /\ op[o].pc \in Waiting => processes[p].inst = op[o].prev
      BY <2>2, InstOfIs DEF ServingOf, HoldingFits
    <3>. QED
      BY <2>2, <3>1 DEF ServingOf, ProcessesFit
  <2>. QED
    BY <1>3, <2>1, <2>2
<1>5. /\ op[o].prev # None => Activated(op[o].prev) /\ op[o].prev \in Instances
      /\ Dead.state = "dead" /\ Dead.accepting = FALSE
  <2>1. op[o].pc \in {"probing", "migrating", "migrated"}
    BY DEF ProbeFails, FallBack
  <2>2. op[o].prev = None \/ op[o].prev = InstOf(op[o].key[1])
    BY <2>1 DEF ServingOf, HoldingFits
  <2>3. op[o].prev # None => Activated(op[o].prev) /\ op[o].prev \in Instances
    BY <2>2, ServingTypes, InstOfIs DEF Activated
  <2>. QED
    BY <2>3 DEF Dead
<1>6. ProcessesFit(op[o])'
  <2>1. \A i \in Instances : proc'[i].accepting => proc'[i].state # "dead"
    <3>1. ASSUME NEW i \in Instances, proc'[i].accepting PROVE proc'[i].state # "dead"
      <4>1. i # op[o].cand /\ proc'[i].state = proc[i].state
        BY <1>3, <1>5, <3>1
      <4>2. CASE i = op[o].prev
        BY <1>5, <4>1, <4>2, NoneIsNone DEF ServingOf, ProcessesFit, Activated, Alive
      <4>3. CASE i # op[o].prev
        BY <1>3, <3>1, <4>1, <4>3 DEF ServingOf, ProcessesFit, Alive
      <4>. QED
        BY <4>2, <4>3
    <3>. QED
      BY <3>1
  <2>2. ASSUME NEW i \in Instances, proc'[i].state = "running" PROVE Activated(i)
    <3>1. i # op[o].cand /\ proc[i].state = "running"
      BY <1>3, <1>5, <2>2
    <3>2. i = op[o].prev \/ Activated(i)
      BY <3>1 DEF ServingOf, ProcessesFit
    <3>. QED
      BY <1>5, <3>2, NoneIsNone
  <2>3. \A p \in Plugins : processes[p] # None =>
          processes[p].key[1] = p /\ proc[processes[p].inst].state # "dead"
    BY DEF ServingOf, ProcessesFit, Alive
  <2>. QED
    BY <1>2, <1>4, <2>1, <2>2, <2>3 DEF ServingOf, ProcessesFit, Alive, Activated
<1>7. RegistryFits(op[o])'
  BY <1>1, <1>2, <1>4 DEF ServingOf, RegistryFits, Rests, ProbeFails, FallBack
<1>8. HoldingFits(op[o])'
  BY <1>1 DEF HoldingFits, Rests
<1>. QED
  BY <1>6, <1>7, <1>8 DEF ServingOf

\* The gate of the process to be replaced closes.
LEMMA ProbedServes ==
  ASSUME TypeOK, NEW o \in Threads, ServingOf(op[o]), Probed(o)
  PROVE  ServingOf(op[o])'
<1>. USE DEF Starting, Waiting
<1>1. PICK v : v = InstOf(op[o].key[1])
  OBVIOUS
<1>2. /\ op'[o].pc = "draining" /\ op'[o].prev = v /\ op'[o].key = op[o].key
      /\ op'[o].cand = op[o].cand /\ op[o].pc = "probing" /\ ~OwnedByAnother(op[o].key)
      /\ UNCHANGED <<processes, registry, call>>
  BY <1>1, ProbedIs DEF Probed, users
<1>3. /\ v \in Instances \cup {None}
      /\ v = None <=> processes[op[o].key[1]] = None
      /\ v # None => v = processes[op[o].key[1]].inst /\ Activated(v)
  BY <1>1, ServingTypes, InstOfIs DEF Activated
<1>4. /\ \A j \in Instances : proc'[j].state = proc[j].state /\ (j # v => proc'[j] = proc[j])
      /\ v # None => proc'[v].accepting = FALSE
  BY <1>1, <1>3, GateType DEF Probed
<1>5. /\ op[o].prev = None /\ op[o].cand \in Instances /\ op[o].cand # None
      /\ op[o].cand # v /\ ~Activated(op[o].cand)
      /\ Alive(op[o].cand) /\ proc[op[o].cand].accepting
      /\ \A c \in Calls : call[c].inst # op[o].cand
  BY <1>2, <1>3, ServingTypes DEF ServingOf, HoldingFits
<1>6. ProcessesFit(op[o])'
  <2>1. ASSUME NEW p \in Plugins, processes[p] # None
        PROVE  /\ processes[p].key[1] = p /\ proc'[processes[p].inst].state # "dead"
               /\ proc'[processes[p].inst].accepting \/ p = op[o].key[1]
    <3>1. processes[p].inst \in Instances /\ op[o].key[1] \in Plugins
      BY <2>1, ServingTypes
    <3>2. /\ processes[p].key[1] = p /\ proc[processes[p].inst].state # "dead"
          /\ proc[processes[p].inst].accepting
      BY <1>2, <2>1 DEF ServingOf, ProcessesFit, Alive
    <3>3. processes[p].inst = v => p = op[o].key[1]
      BY <1>3, <2>1, <3>1, NoneIsNone DEF ServingOf, ProcessesFit
    <3>. QED
      BY <1>4, <3>1, <3>2, <3>3
  <2>2. ASSUME NEW i \in Instances
        PROVE  /\ proc'[i].accepting => proc'[i].state # "dead"
               /\ proc'[i].state = "running" => i = op[o].cand \/ Activated(i)
    BY <1>4, <1>5, NoneIsNone DEF ServingOf, ProcessesFit, Alive
  <2>. QED
    BY <1>2, <2>1, <2>2 DEF ServingOf, ProcessesFit, Alive, Activated
<1>7. RegistryFits(op[o])'
  <2>1. \A p \in Plugins : processes[p] # None =>
          proc'[processes[p].inst].state = proc[processes[p].inst].state
    BY <1>4, ServingTypes
  <2>. QED
    BY <1>2, <2>1 DEF ServingOf, RegistryFits
<1>8. HoldingFits(op[o])'
  <2>1. InstOf(op[o].key[1])' = v
    BY <1>1, <1>2 DEF InstOf
  <2>2. ~OwnedByAnother(op[o].key)'
    BY <1>2 DEF OwnedByAnother
  <2>3. ~Activated(op[o].cand)' /\ Alive(op[o].cand)' /\ proc'[op[o].cand].accepting
    BY <1>2, <1>4, <1>5 DEF Activated, Alive
  <2>. QED
    BY <1>2, <1>4, <1>5, <2>1, <2>2, <2>3 DEF HoldingFits
<1>. QED
  BY <1>6, <1>7, <1>8 DEF ServingOf

\* All types of the plugin change over to the candidate.
LEMMA ReplaceServes ==
  ASSUME TypeOK, NEW o \in Threads, ServingOf(op[o]), Replace(o)
  PROVE  ServingOf(op[o])'
<1>. USE DEF Starting, Waiting
<1>0. "replaced" \in Steps
  BY DEF Steps
<1>1. /\ op[o].pc = "migrated" /\ op'[o].pc = "replaced" /\ Moved(op[o], op'[o])
      /\ ~OwnedByAnother(op[o].key) /\ UNCHANGED <<proc, processes>>
  BY <1>0, GoIs DEF Replace
<1>2. Candidate(op[o])' = Candidate(op[o])
  BY <1>1 DEF Candidate, Moved
<1>3. /\ \A t \in ModulesOf[op[o].key] : t \in Types
      /\ \A t \in Types : t \in ModulesOf[op[o].key] => registry'[t] = Candidate(op[o])
      /\ \A t \in Types : t \notin ModulesOf[op[o].key] =>
           registry'[t] = IF registry[t] # None /\ registry[t].key[1] = op[o].key[1]
                          THEN None ELSE registry[t]
  BY ServingTypes, WithoutOwnerIs, PluginAssumption DEF Replace, Candidate
<1>4. ProcessesFit(op[o])'
  BY <1>1 DEF ServingOf, ProcessesFit, Alive, Activated, Moved
<1>5. RegistryFits(op[o])'
  <2>1. ASSUME NEW t \in Types, registry'[t] # None
        PROVE  /\ t \in ModulesOf[registry'[t].key]
               /\ \/ registry'[t].key[1] # op[o].key[1] /\ registry'[t] = processes[registry'[t].key[1]]
                  \/ registry'[t] = Candidate(op[o])
    <3>1. CASE t \in ModulesOf[op[o].key]
      BY <1>3, <3>1 DEF Candidate
    <3>2. CASE t \notin ModulesOf[op[o].key]
      BY <1>1, <1>3, <2>1, <3>2 DEF ServingOf, RegistryFits
    <3>. QED
      BY <3>1, <3>2
  <2>2. ASSUME NEW p \in Plugins, processes[p] # None,
               proc[processes[p].inst].state = "running", p # op[o].key[1],
               NEW t \in ModulesOf[processes[p].key]
        PROVE  registry'[t] = processes[p]
    <3>1. registry[t] = processes[p] /\ registry[t].key[1] = p /\ t \in Types
      BY <1>1, <2>2, ServingTypes, PluginAssumption DEF ServingOf, RegistryFits, ProcessesFit
    <3>2. t \notin ModulesOf[op[o].key]
      BY <1>1, <2>2, <3>1 DEF OwnedByAnother
    <3>. QED
      BY <1>3, <2>2, <3>1, <3>2
  <2>. QED
    BY <1>1, <1>2, <1>3, <2>1, <2>2 DEF RegistryFits, Moved
<1>6. HoldingFits(op[o])'
  <2>1. UNCHANGED <<proc, processes>>
    BY <1>1
  <2>. QED
    BY <1>1, <2>1 DEF ServingOf, HoldingFits, Activated, Alive, InstOf, Moved
<1>. QED
  BY <1>4, <1>5, <1>6 DEF ServingOf

\* The candidate becomes the manager's; the old process is still to be stopped.
LEMMA SetProcessServes ==
  ASSUME TypeOK, NEW o \in Threads, ServingOf(op[o]), SetProcess(o)
  PROVE  ServingOf(op[o])'
<1>. USE DEF Starting, Waiting
<1>1. PICK p : p = op[o].key[1]
  OBVIOUS
<1>2. /\ op'[o].pc = "retiring" /\ op'[o].cand = None /\ op'[o].prev = op[o].prev
      /\ op'[o].key = op[o].key /\ op[o].pc = "replaced" /\ p \in Plugins
      /\ UNCHANGED <<registry, call>>
      /\ \A q \in Plugins : processes'[q] = IF q = p THEN Candidate(op[o]) ELSE processes[q]
  BY <1>1, SetProcessIs, ServingTypes, TypeParts DEF SetProcess, users, ProcessesType, Candidate
<1>3. /\ op[o].prev = InstOf(p) /\ op[o].cand \in Instances
      /\ op[o].cand # None /\ op[o].cand # op[o].prev /\ ~Activated(op[o].cand)
      /\ Alive(op[o].cand) /\ proc[op[o].cand].accepting
  BY <1>1, <1>2, ServingTypes DEF ServingOf, HoldingFits
<1>4. /\ op[o].prev \in Instances \cup {None}
      /\ op[o].prev = None <=> processes[p] = None
      /\ op[o].prev # None => op[o].prev = processes[p].inst
      /\ Candidate(op[o]).inst = op[o].cand /\ Candidate(op[o]).key = op[o].key
      /\ Candidate(op[o]) # None
  <2>1. Candidate(op[o]) \in Entry
    BY <1>3, ServingTypes DEF Candidate, Entry
  <2>. QED
    BY <1>2, <1>3, <2>1, InstOfIs, NoneIsNone DEF Candidate
<1>5. /\ \A j \in Instances : /\ proc'[j].state = proc[j].state
                              /\ j # op[o].prev => proc'[j] = proc[j]
      /\ op[o].prev # None => proc'[op[o].prev].accepting = FALSE
  BY <1>4, GateType DEF SetProcess
<1>6. \A q \in Plugins : q # p /\ processes[q] # None =>
        /\ processes[q].inst \in Instances /\ processes[q].inst # op[o].prev
        /\ processes[q].inst # op[o].cand /\ processes[q].key[1] = q
        /\ Alive(processes[q].inst) /\ proc[processes[q].inst].accepting
  BY <1>1, <1>2, <1>3, <1>4, ServingTypes, NoneIsNone DEF ServingOf, ProcessesFit, Activated
<1>7. ProcessesFit(op[o])'
  <2>1. ASSUME NEW q \in Plugins, processes'[q] # None
        PROVE  /\ processes'[q].key[1] = q /\ proc'[processes'[q].inst].state # "dead"
               /\ proc'[processes'[q].inst].accepting
    BY <1>1, <1>2, <1>3, <1>4, <1>5, <1>6, <2>1 DEF Alive
  <2>2. ASSUME NEW q \in Plugins, NEW r \in Plugins, processes'[q] # None, processes'[r] # None,
               processes'[q].inst = processes'[r].inst
        PROVE  q = r
    BY <1>2, <1>4, <1>6, <2>2 DEF ServingOf, ProcessesFit
  <2>3. ASSUME NEW i \in Instances
        PROVE  /\ proc'[i].accepting => proc'[i].state # "dead"
               /\ proc'[i].state = "running" =>
                    \/ i = op[o].prev
                    \/ \E q \in Plugins : processes'[q] # None /\ processes'[q].inst = i
    <3>1. proc'[i].accepting => proc[i].accepting
      BY <1>4, <1>5, NoneIsNone
    <3>2. proc[i].state = "running" => i = op[o].cand \/ i = op[o].prev \/ Activated(i)
      BY DEF ServingOf, ProcessesFit
    <3>. QED
      BY <1>2, <1>3, <1>4, <1>5, <3>1, <3>2 DEF ServingOf, ProcessesFit, Alive, Activated
  <2>. QED
    BY <1>2, <2>1, <2>2, <2>3 DEF ProcessesFit, Alive, Activated
<1>8. RegistryFits(op[o])'
  <2>1. ASSUME NEW t \in Types, registry[t] # None
        PROVE  t \in ModulesOf[registry[t].key] /\ registry[t] = processes'[registry[t].key[1]]
    <3>1. registry[t].key[1] \in Plugins
      BY <2>1, ServingTypes
    <3>. QED
      BY <1>1, <1>2, <1>4, <2>1, <3>1 DEF ServingOf, RegistryFits
  <2>2. ASSUME NEW q \in Plugins, processes'[q] # None, proc'[processes'[q].inst].state = "running",
               NEW t \in ModulesOf[processes'[q].key]
        PROVE  registry[t] = processes'[q]
    <3>1. CASE q = p
      BY <1>1, <1>2, <1>4, <2>2, <3>1 DEF ServingOf, RegistryFits
    <3>2. CASE q # p
      BY <1>1, <1>2, <1>5, <1>6, <2>2, <3>2 DEF ServingOf, RegistryFits
    <3>. QED
      BY <3>1, <3>2
  <2>. QED
    BY <1>2, <2>1, <2>2 DEF RegistryFits
<1>9. HoldingFits(op[o])'
  <2>1. op[o].prev # None =>
          /\ ~\E q \in Plugins : processes'[q] # None /\ processes'[q].inst = op[o].prev
          /\ proc'[op[o].prev].state # "dead" /\ proc'[op[o].prev].accepting = FALSE
    BY <1>2, <1>3, <1>4, <1>5, <1>6 DEF ServingOf, ProcessesFit, Alive
  <2>. QED
    BY <1>2, <2>1 DEF HoldingFits, Activated, Alive
<1>. QED
  BY <1>7, <1>8, <1>9 DEF ServingOf

\* The process that an operation has taken out of service is killed.
LEMMA KilledServes ==
  ASSUME TypeOK, NEW o \in Threads, ServingOf(op[o]), Retire(o) \/ Stop(o)
  PROVE  ServingOf(op[o])'
<1>. USE DEF Starting, Waiting
<1>1. /\ op'[o].prev = None /\ op'[o].cand = op[o].cand /\ op'[o].key = op[o].key
      /\ \/ op[o].pc = "retiring" /\ op'[o].pc = "recording"
         \/ op[o].pc = "stopping" /\ op'[o].pc = "stopped"
      /\ UNCHANGED <<processes, registry, call>> /\ proc' = Kill(op[o].prev)
  BY RetireIs DEF Retire, Stop, users
<1>2. /\ \A j \in Instances : j # op[o].prev => proc'[j] = proc[j]
      /\ op[o].prev # None => op[o].prev \in Instances /\ proc'[op[o].prev] = Dead
      /\ Dead.state = "dead" /\ Dead.accepting = FALSE
  BY <1>1, ServingTypes, KillType
<1>3. op[o].cand = None /\ (op[o].prev # None => ~Activated(op[o].prev))
  BY <1>1 DEF ServingOf, HoldingFits
<1>4. \A q \in Plugins : processes[q] # None =>
        processes[q].inst \in Instances /\ proc'[processes[q].inst] = proc[processes[q].inst]
  BY <1>2, <1>3, ServingTypes, NoneIsNone DEF Activated
<1>5. ProcessesFit(op[o])'
  <2>1. ASSUME NEW i \in Instances
        PROVE  /\ proc'[i].accepting => proc'[i].state # "dead"
               /\ proc'[i].state = "running" => Activated(i)
    BY <1>2, <1>3, NoneIsNone DEF ServingOf, ProcessesFit, Alive
  <2>. QED
    BY <1>1, <1>4, <2>1 DEF ServingOf, ProcessesFit, Alive, Activated
<1>6. RegistryFits(op[o])'
  BY <1>1, <1>4 DEF ServingOf, RegistryFits
<1>7. HoldingFits(op[o])'
  BY <1>1, <1>3 DEF ServingOf, HoldingFits, Served
<1>. QED
  BY <1>5, <1>6, <1>7 DEF ServingOf

\* stopActive: out of the registry, then out of the manager.
LEMMA RemovedServes ==
  ASSUME TypeOK, NEW o \in Threads, ServingOf(op[o]), RemoveOwner(o)
  PROVE  ServingOf(op[o])'
<1>. USE DEF Starting, Waiting
<1>0. "taking" \in Steps
  BY DEF Steps
<1>1. /\ op[o].pc = "removing" /\ op'[o].pc = "taking" /\ Moved(op[o], op'[o])
      /\ UNCHANGED <<proc, processes, call>>
      /\ \A t \in Types : registry'[t] = IF registry[t] # None /\ registry[t].key[1] = op[o].key[1]
                                         THEN None ELSE registry[t]
  BY <1>0, GoIs, WithoutOwnerIs DEF RemoveOwner, users
<1>2. ProcessesFit(op[o])'
  BY <1>1 DEF ServingOf, ProcessesFit, Alive, Activated, Moved
<1>3. RegistryFits(op[o])'
  <2>1. ASSUME NEW p \in Plugins, processes[p] # None,
               proc[processes[p].inst].state = "running", p # op[o].key[1],
               NEW t \in ModulesOf[processes[p].key]
        PROVE  registry'[t] = processes[p]
    <3>1. registry[t] = processes[p] /\ registry[t].key[1] = p /\ t \in Types
      BY <1>1, <2>1, ServingTypes, PluginAssumption DEF ServingOf, RegistryFits, ProcessesFit
    <3>. QED
      BY <1>1, <2>1, <3>1
  <2>. QED
    BY <1>1, <2>1 DEF ServingOf, RegistryFits, Moved
<1>4. HoldingFits(op[o])'
  BY <1>1 DEF ServingOf, HoldingFits, Served, Moved
<1>. QED
  BY <1>2, <1>3, <1>4 DEF ServingOf

LEMMA TakenServes ==
  ASSUME TypeOK, NEW o \in Threads, ServingOf(op[o]), Take(o)
  PROVE  ServingOf(op[o])'
<1>. USE DEF Starting, Waiting
<1>1. PICK p : p = op[o].key[1]
  OBVIOUS
<1>2. PICK v : v = InstOf(p)
  OBVIOUS
<1>3. /\ op[o].pc = "taking" /\ op'[o].pc = "stopping" /\ op'[o].prev = v
      /\ op'[o].key = op[o].key /\ op'[o].cand = op[o].cand /\ p \in Plugins
      /\ UNCHANGED <<registry, call>> /\ proc' = Gate(v, FALSE)
      /\ \A q \in Plugins : processes'[q] = IF q = p THEN None ELSE processes[q]
  BY <1>1, <1>2, TakeIs, ServingTypes, TypeParts DEF Take, users, ProcessesType
<1>4. /\ v \in Instances \cup {None} /\ op[o].cand = None /\ op[o].prev = None
      /\ v = None <=> processes[p] = None
      /\ v # None => v = processes[p].inst
  BY <1>2, <1>3, ServingTypes, InstOfIs DEF ServingOf, HoldingFits
<1>5. /\ \A j \in Instances : proc'[j].state = proc[j].state /\ (j # v => proc'[j] = proc[j])
      /\ v # None => proc'[v].accepting = FALSE
  BY <1>3, <1>4, GateType
<1>6. \A q \in Plugins : processes[q] # None =>
        /\ processes[q].inst \in Instances /\ processes[q].key[1] = q
        /\ Alive(processes[q].inst) /\ proc[processes[q].inst].accepting
        /\ q # p => processes[q].inst # v
  BY <1>3, <1>4, ServingTypes, NoneIsNone DEF ServingOf, ProcessesFit
<1>7. ProcessesFit(op[o])'
  <2>1. ASSUME NEW i \in Instances
        PROVE  /\ proc'[i].accepting => proc'[i].state # "dead"
               /\ proc'[i].state = "running" =>
                    \/ i = v
                    \/ \E q \in Plugins : processes'[q] # None /\ processes'[q].inst = i
    <3>1. proc'[i].accepting => proc[i].accepting
      BY <1>4, <1>5, NoneIsNone
    <3>2. proc[i].state = "running" => Activated(i)
      BY <1>4, NoneIsNone DEF ServingOf, ProcessesFit
    <3>3. Activated(i) => i = v \/ \E q \in Plugins : processes'[q] # None /\ processes'[q].inst = i
      BY <1>3, <1>4 DEF Activated
    <3>4. proc[i].accepting => proc[i].state # "dead"
      BY DEF ServingOf, ProcessesFit, Alive
    <3>5. proc'[i].state = proc[i].state
      BY <1>5
    <3>. QED
      BY <3>1, <3>2, <3>3, <3>4, <3>5
  <2>2. \A q, r \in Plugins : processes'[q] # None /\ processes'[r] # None
          /\ processes'[q].inst = processes'[r].inst => q = r
    BY <1>3 DEF ServingOf, ProcessesFit
  <2>3. ASSUME NEW q \in Plugins, processes'[q] # None
        PROVE  /\ processes'[q].key[1] = q /\ proc'[processes'[q].inst].state # "dead"
               /\ proc'[processes'[q].inst].accepting
    <3>1. q # p /\ processes'[q] = processes[q] /\ processes[q] # None
      BY <1>3, <2>3
    <3>2. /\ processes[q].key[1] = q /\ proc[processes[q].inst].state # "dead"
          /\ proc[processes[q].inst].accepting /\ proc'[processes[q].inst] = proc[processes[q].inst]
      BY <1>5, <1>6, <3>1 DEF Alive
    <3>. QED
      BY <3>1, <3>2
  <2>. QED
    BY <1>3, <2>1, <2>2, <2>3 DEF ProcessesFit, Alive, Activated
<1>8. RegistryFits(op[o])'
  <2>1. ASSUME NEW t \in Types, registry[t] # None
        PROVE  t \in ModulesOf[registry[t].key] /\ registry[t] = processes'[registry[t].key[1]]
    <3>1. registry[t].key[1] \in Plugins /\ registry[t].key[1] # p
      BY <1>1, <1>3, <2>1, ServingTypes DEF ServingOf, HoldingFits, Served
    <3>. QED
      BY <1>3, <2>1, <3>1 DEF ServingOf, RegistryFits
  <2>2. ASSUME NEW q \in Plugins, processes'[q] # None, proc'[processes'[q].inst].state = "running",
               NEW t \in ModulesOf[processes'[q].key]
        PROVE  registry[t] = processes'[q]
    <3>1. /\ q # p /\ processes'[q] = processes[q] /\ processes[q] # None
          /\ proc[processes[q].inst].state = "running"
      <4>1. q # p /\ processes'[q] = processes[q] /\ processes[q] # None
        BY <1>3, <2>2
      <4>2. processes[q].inst \in Instances
        BY <1>6, <4>1
      <4>. QED
        BY <1>5, <2>2, <4>1, <4>2
    <3>. QED
      BY <1>1, <1>3, <2>2, <3>1 DEF ServingOf, RegistryFits
  <2>. QED
    BY <1>3, <2>1, <2>2 DEF RegistryFits
<1>9. HoldingFits(op[o])'
  <2>1. v # None =>
          /\ ~\E q \in Plugins : processes'[q] # None /\ processes'[q].inst = v
          /\ proc'[v].state # "dead" /\ proc'[v].accepting = FALSE
    <3>1. ASSUME v # None, NEW q \in Plugins, processes'[q] # None
          PROVE  processes'[q].inst # v
      BY <1>3, <1>6, <3>1
    <3>2. ASSUME v # None PROVE proc[v].state # "dead" /\ v \in Instances
      BY <1>3, <1>4, <1>6, <3>2 DEF Alive
    <3>. QED
      BY <1>5, <3>1, <3>2
  <2>2. ~Served(op[o].key[1])'
    BY <1>3 DEF ServingOf, HoldingFits, Served
  <2>. QED
    BY <1>1, <1>3, <1>4, <2>1, <2>2 DEF HoldingFits, Activated, Alive
<1>. QED
  BY <1>7, <1>8, <1>9 DEF ServingOf

LEMMA ExitServes ==
  ASSUME TypeOK, NEW o \in Threads, ServingOf(op[o]), NEW i \in Instances, Exit(i)
  PROVE  ServingOf(op[o])'
<1>. USE DEF Starting, Waiting
<1>1. PICK x : x = [proc[i] EXCEPT !.state = "exited"]
  OBVIOUS
<1>2. x.state = "exited" /\ x.accepting = proc[i].accepting
  BY <1>1, TypeParts DEF ProcType
<1>3. /\ UNCHANGED <<processes, registry, call, op>>
      /\ \A j \in Instances : /\ proc'[j].accepting = proc[j].accepting
                              /\ j # i => proc'[j] = proc[j]
      /\ proc'[i].state = "exited" /\ proc[i].state = "running"
  BY <1>1, <1>2, TypeParts DEF Exit, users, ProcType
<1>4. /\ \A p \in Plugins : processes[p] # None => processes[p].inst \in Instances
      /\ op[o].cand # None => op[o].cand \in Instances
      /\ op[o].prev # None => op[o].prev \in Instances
  BY ServingTypes
<1>5. \A j \in Instances : /\ proc'[j].state = "dead" <=> proc[j].state = "dead"
                           /\ proc'[j].state = "running" => proc[j].state = "running"
  BY <1>3
<1>6. ProcessesFit(op[o])'
  BY <1>3, <1>4, <1>5 DEF ServingOf, ProcessesFit, Alive, Activated
<1>7. RegistryFits(op[o])'
  BY <1>3, <1>4, <1>5 DEF ServingOf, RegistryFits, Candidate
<1>8. HoldingFits(op[o])'
  BY <1>3, <1>4, <1>5 DEF ServingOf, HoldingFits, Activated, Alive, InstOf, OwnedByAnother, Served
<1>. QED
  BY <1>6, <1>7, <1>8 DEF ServingOf

LEMMA SuperviseServes ==
  ASSUME TypeOK, NEW o \in Threads, ServingOf(op[o]), NEW p \in Plugins, Supervise(o, p)
  PROVE  ServingOf(op[o])'
<1>. USE DEF Starting, Waiting
<1>1. /\ op[o].pc = "idle" /\ op'[o].pc = "entering" /\ op'[o].cand = None /\ op'[o].prev = None
      /\ op[o].cand = None /\ op[o].prev = None /\ processes[p] # None
      /\ proc[processes[p].inst].state # "running" /\ UNCHANGED <<proc, processes, call>>
      /\ \A t \in Types : registry'[t] = IF registry[t] # None /\ registry[t].key[1] = p
                                         THEN None ELSE registry[t]
  <2>1. /\ op[o].pc = "idle" /\ processes[p] # None
        /\ proc[processes[p].inst].state # "running" /\ registry' = WithoutOwner(p)
        /\ UNCHANGED <<proc, processes, call>>
    BY DEF Supervise, users, Free, Active
  <2>2. op'[o].pc = "entering" /\ op'[o].cand = None /\ op'[o].prev = None
    BY SuperviseIs DEF Fresh
  <2>3. op[o].cand = None /\ op[o].prev = None
    BY <2>1 DEF ServingOf, HoldingFits
  <2>. QED
    BY <2>1, <2>2, <2>3, WithoutOwnerIs
<1>2. ProcessesFit(op[o])'
  BY <1>1, NoneIsNone DEF ServingOf, ProcessesFit, Alive, Activated
<1>3. RegistryFits(op[o])'
  <2>1. ASSUME NEW q \in Plugins, processes[q] # None,
               proc[processes[q].inst].state = "running",
               NEW t \in ModulesOf[processes[q].key]
        PROVE  registry'[t] = processes[q]
    <3>1. registry[t] = processes[q] /\ registry[t].key[1] = q /\ t \in Types
      BY <1>1, <2>1, ServingTypes, PluginAssumption DEF ServingOf, RegistryFits, ProcessesFit
    <3>. QED
      BY <1>1, <2>1, <3>1
  <2>. QED
    BY <1>1, <2>1 DEF ServingOf, RegistryFits
<1>4. HoldingFits(op[o])'
  BY <1>1 DEF HoldingFits
<1>. QED
  BY <1>2, <1>3, <1>4 DEF ServingOf

LEMMA RestartServes ==
  ASSUME TypeOK, NEW o \in Threads, Restart(o)
  PROVE  ServingOf(op[o])'
<1>. USE DEF Starting, Waiting
<1>1. /\ op'[o].pc = "clearing" /\ op'[o].cand = None /\ op'[o].prev = None
      /\ \A i \in Instances : proc'[i] = Dead
      /\ \A p \in Plugins : processes'[p] = None
      /\ \A t \in Types : registry'[t] = None
      /\ Dead.state = "dead" /\ Dead.accepting = FALSE
  BY RestartIs DEF Restart, Fresh, Dead
<1>2. ProcessesFit(op[o])'
  BY <1>1 DEF ProcessesFit
<1>3. RegistryFits(op[o])'
  BY <1>1 DEF RegistryFits
<1>4. HoldingFits(op[o])'
  BY <1>1 DEF HoldingFits
<1>. QED
  BY <1>2, <1>3, <1>4 DEF ServingOf

\* Executions and handlers take no process from an operation.
LEMMA UsersServe ==
  ASSUME PluginsIInv, NEW o \in Threads,
         \/ \E c \in Calls : Execution(c) \/ WriteMonitor(c)
         \/ \E c \in Calls, t \in Monitored : PassGate(c, t) \/ ReadVersion(c, t)
         \/ \E t \in Monitored : DeleteMonitor(t)
  PROVE  ServingOf(op[o])'
<1>0. TypeOK /\ ServingOf(op[o]) /\ CallsFit
  BY DEF PluginsIInv
<1>1. UNCHANGED <<serving, op>>
  BY DEF Execution, Join, Answer, WriteMonitor, PassGate, ReadVersion, DeleteMonitor
<1>2. ASSUME op[o].pc \in Starting \ {"replaced"}, NEW d \in Calls
      PROVE  call'[d].inst # op[o].cand
  <2>1. /\ op[o].cand # None /\ ~Activated(op[o].cand)
        /\ \A c \in Calls : call[c].inst # op[o].cand
    BY <1>0, <1>2 DEF ServingOf, HoldingFits
  <2>2. ASSUME NEW c \in Calls, Execution(c) \/ WriteMonitor(c) PROVE call'[d].inst # op[o].cand
    <3>1. CASE Join(c)
      BY <1>0, <2>1, <3>1, JoinIs DEF CallsFit, Join
    <3>2. CASE Answer(c) \/ WriteMonitor(c)
      BY <1>0, <2>1, <3>2, NoCallIs, StepType DEF Answer, WriteMonitor
    <3>. QED
      BY <2>2, <3>1, <3>2 DEF Execution
  <2>3. ASSUME NEW c \in Calls, NEW t \in Monitored, PassGate(c, t)
        PROVE  call'[d].inst # op[o].cand
    <3>1. /\ \A e \in Calls : e # c => call'[e] = call[e]
          /\ t \in Types /\ registry[t] # None /\ call'[c].inst = registry[t].inst
          /\ registry[t].key[1] \in Plugins
      BY <1>0, <2>3, PassGateIs, ServingTypes
    <3>2. Activated(registry[t].inst)
      BY <1>0, <1>2, <3>1 DEF ServingOf, RegistryFits, Activated
    <3>. QED
      BY <2>1, <3>1, <3>2
  <2>4. ASSUME NEW c \in Calls, NEW t \in Monitored, ReadVersion(c, t)
        PROVE  call'[d].inst # op[o].cand
    BY <1>0, <2>1, <2>4, ReadVersionIs
  <2>5. ASSUME NEW t \in Monitored, DeleteMonitor(t)
        PROVE  call'[d].inst # op[o].cand
    BY <2>1, <2>5, NoCallIs DEF DeleteMonitor
  <2>. QED
    BY <2>2, <2>3, <2>4, <2>5
<1>. QED
  BY <1>0, <1>1, <1>2, ServingStays

\* Steps of an operation that holds no process, before and after.
LEMMA RestingServes ==
  ASSUME TypeOK, NEW o \in Threads, ServingOf(op[o]),
         \/ \E k \in Keys : \/ \E s \in SignersOf[k] : Inspect(o, k, s) \/ InspectOfficial(o, k, s)
                            \/ Disable(o, k) \/ Uninstall(o, k) \/ NextKey(o, k)
         \/ UpdateLogConfig(o) \/ Install(o) \/ InstallFails(o)
         \/ DisableOtherPluginVersions(o) \/ DisableOthersFails(o)
         \/ RecordHealthy(o) \/ RecordFails(o) \/ Stopped(o) \/ StoppedFails(o)
         \/ Seeded(o) \/ ClearDevelopment(o) \/ SyncDevelopment(o) \/ BootFails(o)
  PROVE  ServingOf(op[o])'
<1>. USE DEF Resting
<1>0. /\ {"entering", "disabled"} \subseteq Steps /\ {"disable", "uninstall"} \subseteq Thens
      /\ op[o].pc \in Resting \cup {"stopped"} => op[o].cand = None /\ op[o].prev = None
  BY DEF Steps, Thens, ServingOf, HoldingFits, Starting, Waiting
<1>1. ASSUME NEW k \in Keys, NEW s \in SignersOf[k], Inspect(o, k, s) \/ InspectOfficial(o, k, s)
      PROVE  ServingOf(op[o])'
  BY <1>1, InspectIs, InspectOfficialIs, ServingRests DEF Inspect, InspectOfficial, Free, Rests
<1>2. ASSUME NEW k \in Keys, Disable(o, k) \/ Uninstall(o, k)
      PROVE  ServingOf(op[o])'
  <2>1. \E then \in Thens : Stopping(o, k, then)
    BY <1>0, <1>2 DEF Disable, Uninstall
  <2>. QED
    BY <1>2, <2>1, StoppingIs, ServingRests DEF Disable, Uninstall, Free, Rests, Fresh
<1>3. ASSUME NEW k \in Keys, NextKey(o, k) PROVE ServingOf(op[o])'
  BY <1>0, <1>3, NextKeyIs, ServingRests DEF NextKey, Rests
<1>4. CASE UpdateLogConfig(o)
  BY <1>4, UpdateLogConfigIs, ServingRests DEF UpdateLogConfig, Free, Rests, Fresh
<1>5. CASE Install(o) \/ DisableOtherPluginVersions(o)
  <2>1. (\E pc \in {"entering", "disabled"} : Go(o, pc)) \/ Done(o)
    BY <1>5 DEF Install, DisableOtherPluginVersions
  <2>2. op[o].pc \in {"installing", "recording"} /\ UNCHANGED serving
    BY <1>5 DEF Install, DisableOtherPluginVersions
  <2>3. Rests(op'[o])
    BY <1>0, <2>1, <2>2, GoIs, DoneIs, NoOpIs DEF Rests, Fresh, Moved
  <2>. QED
    BY <2>2, <2>3, ServingRests
<1>6. CASE InstallFails(o) \/ DisableOthersFails(o) \/ StoppedFails(o) \/ BootFails(o)
           \/ RecordHealthy(o)
  <2>1. /\ op[o].pc \in Resting \cup {"stopped"} /\ UNCHANGED serving
        /\ Failed(o) \/ Done(o)
    BY <1>6 DEF InstallFails, DisableOthersFails, StoppedFails, BootFails, RecordHealthy
  <2>2. Rests(op'[o])
    BY <2>1, FailedIs, DoneIs, NoOpIs DEF Rests, Fresh
  <2>. QED
    BY <2>1, <2>2, ServingRests
<1>7. CASE RecordFails(o)
  BY <1>0, <1>7, RecordFailsIs, ServingRests DEF RecordFails, Rests
<1>8. CASE Stopped(o)
  <2>1. /\ op[o].pc = "stopped" /\ UNCHANGED serving
        /\ Go(o, "entering") \/ Failed(o) \/ Done(o)
    BY <1>8, ServingTypes DEF Stopped, OpRecord
  <2>2. Rests(op'[o])
    BY <1>0, <2>1, GoIs, FailedIs, DoneIs, NoOpIs DEF Rests, Fresh, Moved
  <2>. QED
    BY <2>1, <2>2, ServingRests
<1>9. CASE Seeded(o)
  BY <1>9, SeededIs, NoOpIs, ServingRests DEF Seeded, Rests, Fresh
<1>10. CASE ClearDevelopment(o)
  BY <1>10, ClearDevelopmentIs, ServingRests DEF ClearDevelopment, Rests, Fresh
<1>11. CASE SyncDevelopment(o)
  <2>1. op[o].pc \in {"clearing", "next"} /\ UNCHANGED serving
    BY <1>11 DEF SyncDevelopment
  <2>2. Rests(op'[o])
    BY <1>0, <1>11, <2>1, SyncDevelopmentIs DEF BuildStarts, BuildSets, Rests, Fresh
  <2>. QED
    BY <2>1, <2>2, ServingRests
<1>. QED
  BY <1>1, <1>2, <1>3, <1>4, <1>5, <1>6, <1>7, <1>8, <1>9, <1>10, <1>11

LEMMA ServingStep ==
  ASSUME PluginsIInv, NEW o, Threads = {o}, Next
  PROVE  ServingOf(op[o])'
<1>0. TypeOK /\ o \in Threads /\ ServingOf(op[o])
  BY DEF PluginsIInv
<1>1. ASSUME NEW k \in Keys, TrustPublisher(k) PROVE ServingOf(op[o])'
  <2>1. UNCHANGED <<serving, op, call>>
    BY <1>1 DEF TrustPublisher
  <2>. QED
    BY <1>0, <2>1, ServingStays DEF ServingOf, HoldingFits
<1>2. ASSUME NEW k \in Keys,
             \/ \E s \in SignersOf[k] : Inspect(o, k, s)
             \/ Disable(o, k) \/ Uninstall(o, k)
      PROVE  ServingOf(op[o])'
  BY <1>0, <1>2, RestingServes
<1>3. ASSUME NEW k \in Keys, NEW confirm \in BOOLEAN, Enable(o, k, confirm)
      PROVE  ServingOf(op[o])'
  BY <1>0, <1>3, LaunchServes DEF Enable, Free, users, Resting
<1>4. CASE UpdateLogConfig(o) \/ Restart(o)
  BY <1>0, <1>4, RestingServes, RestartServes
<1>5. ASSUME NEW p \in Plugins, Supervise(o, p) PROVE ServingOf(op[o])'
  BY <1>0, <1>5, SuperviseServes
<1>6. CASE Progress(o)
  <2>1. CASE \/ \E k \in Keys : NextKey(o, k) \/ \E s \in SignersOf[k] : InspectOfficial(o, k, s)
             \/ Install(o) \/ InstallFails(o)
             \/ DisableOtherPluginVersions(o) \/ DisableOthersFails(o)
             \/ RecordHealthy(o) \/ RecordFails(o) \/ Stopped(o) \/ StoppedFails(o)
             \/ Seeded(o) \/ ClearDevelopment(o) \/ SyncDevelopment(o) \/ BootFails(o)
    BY <1>0, <2>1, RestingServes
  <2>2. CASE Enter(o)
    <3>1. op[o].pc \in Resting \cup {"stopped"}
      BY <2>2 DEF Enter, Resting
    <3>2. CASE Failed(o) /\ UNCHANGED serving
      BY <1>0, <3>1, <3>2, FailedIs, NoOpIs, ServingRests DEF Rests, Fresh, Resting
    <3>3. CASE Launch(o, op[o].key)
      BY <1>0, <2>2, <3>3, LaunchServes, ServingTypes DEF Enter, users, Resting
    <3>. QED
      BY <2>2, <3>2, <3>3 DEF Enter
  <2>3. CASE ProbeFails(o) \/ FallBack(o)
    BY <1>0, <2>3, GiveUpServes
  <2>4. CASE Drained(o) \/ Migrate(o)
    <3>1. {"migrating", "migrated"} \subseteq Steps
      BY DEF Steps
    <3>2. /\ op[o].pc \in {"draining", "migrating"} /\ op'[o].pc \in {"migrating", "migrated"}
          /\ Moved(op[o], op'[o]) /\ UNCHANGED <<serving, call>>
      BY <1>0, <2>4, <3>1, GoIs DEF Drained, Migrate, users
    <3>. QED
      BY <1>0, <3>2, ServingWaits
  <2>5. CASE Probed(o) \/ Replace(o) \/ SetProcess(o)
    BY <1>0, <2>5, ProbedServes, ReplaceServes, SetProcessServes
  <2>6. CASE Retire(o) \/ Stop(o) \/ RemoveOwner(o) \/ Take(o)
    BY <1>0, <2>6, KilledServes, RemovedServes, TakenServes
  <2>7. CASE DeleteStale(o)
    <3>1. UNCHANGED <<serving, op, call>>
      BY <2>7 DEF DeleteStale, users
    <3>. QED
      BY <1>0, <3>1, ServingStays DEF ServingOf, HoldingFits
  <2>. QED
    BY <1>6, <2>1, <2>2, <2>3, <2>4, <2>5, <2>6, <2>7 DEF Progress
<1>7. ASSUME NEW i \in Instances, Exit(i) PROVE ServingOf(op[o])'
  BY <1>0, <1>7, ExitServes
<1>8. CASE \/ \E c \in Calls : Execution(c) \/ WriteMonitor(c)
           \/ \E c \in Calls, t \in Monitored : PassGate(c, t) \/ ReadVersion(c, t)
           \/ \E t \in Monitored : DeleteMonitor(t)
  BY <1>0, <1>8, UsersServe
<1>. QED
  BY <1>0, <1>1, <1>2, <1>3, <1>4, <1>5, <1>6, <1>7, <1>8 DEF Next

-----------------------------------------------------------------------------
(* Calls *)

\* The calls in flight through a gate that operations do not kill.
LEMMA CallsStep ==
  ASSUME PluginsIInv, NEW o, Threads = {o}, Next
  PROVE  CallsFit'
<1>0. TypeOK /\ o \in Threads /\ ServingOf(op[o]) /\ CallsFit
  BY DEF PluginsIInv
<1>1. \A c \in Calls : call[c].inst # None => call[c].inst \in Instances
  BY <1>0, TypeParts DEF CallType
<1>2. ASSUME UNCHANGED call,
             \A c \in Calls : call[c].pc = "running" /\ ~call[c].late /\ Alive(call[c].inst)
                              => Alive(call[c].inst)'
      PROVE  CallsFit'
  BY <1>0, <1>2 DEF CallsFit
<1>3. ASSUME UNCHANGED <<proc, call>> PROVE CallsFit'
  BY <1>2, <1>3 DEF Alive
<1>4. CASE \E c \in Calls, t \in Monitored : PassGate(c, t) \/ ReadVersion(c, t)
  <2>1. ASSUME NEW c \in Calls, NEW t \in Monitored, PassGate(c, t) PROVE CallsFit'
    <3>1. registry[t] \in Entry /\ registry[t].inst # None /\ UNCHANGED proc
      BY <1>0, <2>1, PassGateIs, NoneIsNone DEF PassGate, serving, Entry
    <3>2. /\ call'[c].pc = "passed" /\ call'[c].inst # None
          /\ \A d \in Calls : d # c => call'[d] = call[d]
      BY <1>0, <2>1, <3>1, PassGateIs
    <3>. QED
      BY <1>0, <3>1, <3>2 DEF CallsFit, Alive
  <2>2. ASSUME NEW c \in Calls, NEW t \in Monitored, ReadVersion(c, t) PROVE CallsFit'
    <3>1. UNCHANGED proc
      BY <2>2 DEF ReadVersion, serving
    <3>. QED
      BY <1>0, <2>2, <3>1, ReadVersionIs DEF CallsFit, Alive
  <2>. QED
    BY <1>4, <2>1, <2>2
<1>5. ASSUME NEW c \in Calls, Join(c) PROVE CallsFit'
  <2>1. call[c].inst \in Instances /\ UNCHANGED proc
    BY <1>0, <1>1, <1>5 DEF Join, CallsFit, serving
  <2>2. ~call'[c].late => Alive(call[c].inst)
    BY <1>0, <1>5, <2>1, JoinIs, NoneIsNone DEF ServingOf, ProcessesFit
  <2>. QED
    BY <1>0, <1>5, <2>1, <2>2, JoinIs, NoneIsNone DEF CallsFit, Alive
<1>6. ASSUME NEW c \in Calls, Answer(c) \/ WriteMonitor(c) PROVE CallsFit'
  <2>1. Step(c, NoCall) /\ UNCHANGED proc
    BY <1>6 DEF Answer, WriteMonitor, serving
  <2>. QED
    BY <1>0, <2>1, NoCallIs, StepType DEF CallsFit, Alive
<1>7. ASSUME NEW t \in Monitored, DeleteMonitor(t) PROVE CallsFit'
  BY <1>0, <1>7, NoCallIs DEF DeleteMonitor, serving, CallsFit, Alive
<1>8. CASE Restart(o)
  BY <1>8, NoCallIs DEF Restart, CallsFit
<1>9. CASE Replace(o)
  <2>1. /\ UNCHANGED proc
        /\ \A c \in Calls : \/ call'[c] = call[c]
                            \/ call[c].pc = "editing" /\ call'[c] = [call[c] EXCEPT !.late = TRUE]
    BY <1>9 DEF Replace
  <2>2. ASSUME NEW c \in Calls, call'[c] # call[c] PROVE call'[c].pc = "editing"
    <3>1. PICK r : r = [call[c] EXCEPT !.late = TRUE]
      OBVIOUS
    <3>2. call[c] \in CallType /\ call[c].pc = "editing" /\ call'[c] = r
      BY <1>0, <2>1, <2>2, <3>1, TypeParts
    <3>3. r.pc = "editing"
      BY <3>1, <3>2 DEF CallType
    <3>. QED
      BY <3>2, <3>3
  <2>. QED
    BY <1>0, <2>1, <2>2 DEF CallsFit, Alive
<1>10. ASSUME NEW i \in Instances, Exit(i) PROVE CallsFit'
  <2>1. PICK x : x = [proc[i] EXCEPT !.state = "exited"]
    OBVIOUS
  <2>2. x.state = "exited"
    BY <1>0, <2>1, TypeParts DEF ProcType
  <2>3. \A j \in Instances : proc'[j].state # "dead" \/ proc'[j] = proc[j]
    BY <1>0, <1>10, <2>1, <2>2, TypeParts DEF Exit, ProcType
  <2>. QED
    BY <1>0, <1>1, <1>2, <1>10, <2>3 DEF CallsFit, Alive, Exit, users
<1>11. ASSUME NEW k \in Keys, Launch(o, k), UNCHANGED call PROVE CallsFit'
  <2>1. \A j \in Instances : proc'[j].state # "dead" \/ proc'[j] = proc[j]
    BY <1>0, <1>11, LaunchIs, TypeParts DEF ProcType
  <2>. QED
    BY <1>0, <1>1, <1>2, <1>11, <2>1 DEF CallsFit, Alive
<1>12. CASE ProbeFails(o) \/ FallBack(o)
  <2>1. /\ op[o].cand \in Instances /\ op[o].prev \in Instances \cup {None}
        /\ \A c \in Calls : call[c].inst # op[o].cand
        /\ UNCHANGED call /\ TRUE \in BOOLEAN
    BY <1>0, <1>12, MarkFailureIs, ServingTypes
       DEF ServingOf, HoldingFits, ProbeFails, FallBack, Starting, Waiting, users
  <2>2. \A j \in Instances : j # op[o].cand => proc'[j].state = proc[j].state
    <3>1. CASE ProbeFails(o)
      BY <1>0, <2>1, <3>1, KillType DEF ProbeFails
    <3>2. CASE FallBack(o)
      BY <1>0, <2>1, <3>2, GateType DEF FallBack, ProcType
    <3>. QED
      BY <1>12, <3>1, <3>2
  <2>. QED
    BY <1>0, <1>1, <1>2, <2>1, <2>2 DEF CallsFit, Alive
<1>13. CASE Probed(o) \/ SetProcess(o) \/ Take(o)
  <2>1. /\ UNCHANGED call
        /\ \E i \in Instances \cup {None} : proc' = Gate(i, FALSE)
    BY <1>0, <1>13, ServingTypes, InstOfIs DEF Probed, SetProcess, Take, users
  <2>2. \A j \in Instances : proc'[j].state = proc[j].state
    <3>1. PICK i \in Instances \cup {None} : proc' = Gate(i, FALSE)
      BY <2>1
    <3>2. FALSE \in BOOLEAN
      OBVIOUS
    <3>3. \A j \in Instances : Gate(i, FALSE)[j].state = proc[j].state
      BY <1>0, <3>2, GateType
    <3>. QED
      BY <3>1, <3>3
  <2>. QED
    BY <1>0, <1>1, <1>2, <2>1, <2>2 DEF CallsFit, Alive
<1>14. CASE Retire(o) \/ Stop(o)
  <2>1. /\ UNCHANGED call /\ ~InFlight(op[o].prev)
        /\ proc' = Kill(op[o].prev) /\ op[o].prev \in Instances \cup {None}
    BY <1>0, <1>14, ServingTypes DEF Retire, Stop, users
  <2>2. \A j \in Instances : j # op[o].prev => proc'[j] = proc[j]
    BY <1>0, <2>1, KillType
  <2>. QED
    BY <1>0, <1>1, <1>2, <2>1, <2>2 DEF CallsFit, Alive, InFlight
<1>. QED
  <2>1. ASSUME NEW k \in Keys,
               \/ TrustPublisher(k) \/ \E s \in SignersOf[k] : Inspect(o, k, s)
               \/ Disable(o, k) \/ Uninstall(o, k)
               \/ \E confirm \in BOOLEAN : Enable(o, k, confirm)
        PROVE  CallsFit'
    <3>1. ASSUME NEW confirm \in BOOLEAN, Enable(o, k, confirm) PROVE CallsFit'
      BY <1>11, <3>1 DEF Enable, users
    <3>2. CASE ~\E confirm \in BOOLEAN : Enable(o, k, confirm)
      BY <1>3, <2>1, <3>2 DEF TrustPublisher, Inspect, Disable, Uninstall, serving, users
    <3>. QED
      BY <3>1, <3>2
  <2>2. CASE UpdateLogConfig(o) \/ \E p \in Plugins : Supervise(o, p)
    BY <1>3, <2>2 DEF UpdateLogConfig, Supervise, serving, users
  <2>3. CASE Progress(o)
    <3>1. CASE Enter(o)
      <4>1. op[o].key \in Keys /\ UNCHANGED call
        BY <1>0, <3>1, ServingTypes DEF Enter, users
      <4>. QED
        BY <1>3, <1>11, <3>1, <4>1 DEF Enter, serving
    <3>2. ASSUME NEW k \in Keys, NextKey(o, k) \/ \E s \in SignersOf[k] : InspectOfficial(o, k, s)
          PROVE  CallsFit'
      BY <1>3, <3>2 DEF NextKey, InspectOfficial, serving, users
    <3>3. CASE \/ Install(o) \/ InstallFails(o) \/ Drained(o) \/ Migrate(o)
               \/ DisableOtherPluginVersions(o) \/ DisableOthersFails(o)
               \/ RecordHealthy(o) \/ RecordFails(o) \/ RemoveOwner(o)
      BY <1>3, <3>3 DEF Install, InstallFails, Drained, Migrate, DisableOtherPluginVersions,
           DisableOthersFails, RecordHealthy, RecordFails, RemoveOwner, serving, users
    <3>4. CASE \/ Stopped(o) \/ StoppedFails(o) \/ Seeded(o)
               \/ ClearDevelopment(o) \/ SyncDevelopment(o) \/ DeleteStale(o) \/ BootFails(o)
      BY <1>3, <3>4 DEF Stopped, StoppedFails, Seeded, ClearDevelopment, SyncDevelopment,
           DeleteStale, BootFails, serving, users
    <3>. QED
      BY <1>9, <1>12, <1>13, <1>14, <2>3, <3>1, <3>2, <3>3, <3>4 DEF Progress
  <2>. QED
    BY <1>0, <1>4, <1>5, <1>6, <1>7, <1>8, <1>10, <2>1, <2>2, <2>3 DEF Next, Execution

-----------------------------------------------------------------------------
(* Rows *)

NotBoth == \A k, l \in Keys : ~Both(k, l)
Signless == \A k \in Keys : Developed(k) => rows[k].signer = None

\* What an operation at a step like this knows of the rows.
LEMMA RowsBefore ==
  ASSUME NEW o \in Threads, RowsOf(op[o])
  PROVE  /\ op[o].kind = "build" => op[o].pc \in {"next", "recording"}
         /\ op[o].pc \in {"down", "clearing"} => op[o].kind = "seed"
         /\ op[o].kind # "build" /\ op[o].pc \notin {"down", "clearing"} => NotBoth
         /\ Signless /\ (op[o].row.trust = "development" => op[o].row.signer = None)
BY DEF RowsOf, NotBoth, Signless

\* What it has to see to at its next one, unless it builds sources.
LEMMA RowsAfter ==
  ASSUME NEW o \in Threads, RowsOf(op[o]), Signless', op'[o].kind # "build",
         op'[o].row.trust = "development" => op'[o].row.signer = None,
         op'[o].pc \in {"down", "clearing"} => op'[o].kind = "seed",
         NotBoth' \/ (op'[o].pc \in {"down", "clearing"} /\ UNCHANGED rows),
         op'[o].pc = "disabled" =>
           \A k \in Keys : k # op'[o].key /\ k[1] = op'[o].key[1] => ~rows'[k].enabled
  PROVE  RowsOf(op[o])'
<1>1. \A k, l \in Keys : Both(k, l)' => Developed(k)' \/ Developed(l)'
  <2>1. CASE UNCHANGED rows
    BY <2>1 DEF RowsOf, Both, Developed
  <2>2. CASE NotBoth'
    BY <2>2 DEF NotBoth
  <2>. QED
    BY <2>1, <2>2
<1>. QED
  BY <1>1 DEF RowsOf, NotBoth, Signless

\* One row is written, as one that is not enabled.
LEMMA RowWritten ==
  ASSUME NEW o \in Threads, RowsOf(op[o]), NEW k \in Keys, NotBoth,
         \A l \in Keys : l # k => rows'[l] = rows[l], ~rows'[k].enabled,
         rows'[k].trust = "development" => rows'[k].signer = None
  PROVE  NotBoth' /\ Signless'
<1>1. NotBoth'
  BY DEF NotBoth, Both
<1>2. Signless'
  BY DEF RowsOf, Signless, Developed
<1>. QED
  BY <1>1, <1>2

\* The rows stay as they are, or a signer is trusted; the operation goes on.
LEMMA RowsQuiet ==
  ASSUME TypeOK, NEW o \in Threads, RowsOf(op[o]), UNCHANGED rows, op'[o].kind # "build",
         op[o].kind # "build" \/ NotBoth \/ op'[o].pc = "down",
         op[o].pc \notin {"down", "clearing"} \/ op'[o].pc \in {"down", "clearing"},
         op'[o].row.trust = "development" => op'[o].row.signer = None,
         op'[o].pc \in {"down", "clearing"} => op'[o].kind = "seed",
         op'[o].pc # "disabled"
  PROVE  RowsOf(op[o])'
<1>1. NotBoth => NotBoth'
  BY DEF NotBoth, Both
<1>2. Signless'
  BY RowsBefore DEF Signless, Developed
<1>. QED
  BY <1>1, <1>2, RowsBefore, RowsAfter

LEMMA RowsStay ==
  ASSUME NEW o \in Threads, RowsOf(op[o]), UNCHANGED <<rows, op>>
  PROVE  RowsOf(op[o])'
BY DEF RowsOf, Both, Developed

LEMMA TrustKeepsRows ==
  ASSUME TypeOK, Signless, NEW s, s # None, rows' = TrustedRows(s)
  PROVE  /\ \A k \in Keys : Developed(k)' <=> Developed(k)
         /\ \A k, l \in Keys : Both(k, l)' <=> Both(k, l)
         /\ \A k \in Keys : rows'[k].enabled = rows[k].enabled
         /\ Signless'
<1>1. \A k \in Keys : /\ rows'[k].enabled = rows[k].enabled /\ rows'[k].signer = rows[k].signer
                      /\ \/ rows'[k].trust = rows[k].trust
                         \/ rows'[k].trust = "trusted" /\ rows[k].signer = s
  BY TrustedRowsIs
<1>2. \A k \in Keys : Developed(k)' <=> Developed(k)
  BY <1>1 DEF Developed, Signless
<1>3. Signless'
  BY <1>1, <1>2 DEF Signless
<1>. QED
  BY <1>1, <1>2, <1>3 DEF Both

LEMMA RowsOfQuiet ==
  ASSUME TypeOK, NEW o \in Threads, RowsOf(op[o]),
         \/ \E k \in Keys : \/ \E s \in SignersOf[k] : Inspect(o, k, s)
                            \/ Disable(o, k) \/ Uninstall(o, k) \/ NextKey(o, k)
         \/ UpdateLogConfig(o) \/ (\E p \in Plugins : Supervise(o, p)) \/ Restart(o)
         \/ InstallFails(o) \/ DisableOthersFails(o) \/ StoppedFails(o) \/ BootFails(o)
         \/ RecordFails(o) \/ Seeded(o)
  PROVE  RowsOf(op[o])'
<1>0. {"disable", "uninstall"} \subseteq Thens /\ NoRow.trust # "development"
  BY NoOpIs DEF Thens
<1>1. ASSUME NEW k \in Keys, NEW s \in SignersOf[k], Inspect(o, k, s)
      PROVE  RowsOf(op[o])'
  BY <1>1, InspectIs, RowsBefore, RowsQuiet DEF Inspect, Free, tables
<1>2. ASSUME NEW k \in Keys, Disable(o, k) \/ Uninstall(o, k)
      PROVE  RowsOf(op[o])'
  <2>1. \E then \in Thens : Stopping(o, k, then)
    BY <1>0, <1>2 DEF Disable, Uninstall
  <2>2. /\ op'[o].kind = "none" /\ op'[o].pc = "removing" /\ op'[o].row = NoRow
        /\ UNCHANGED rows /\ op[o].pc = "idle"
    BY <1>2, <2>1, StoppingIs DEF Disable, Uninstall, Free, Fresh, tables
  <2>. QED
    BY <1>0, <2>2, RowsBefore, RowsQuiet
<1>3. ASSUME NEW k \in Keys, NextKey(o, k) PROVE RowsOf(op[o])'
  <2>1. /\ op'[o].kind = op[o].kind /\ op'[o].row = op[o].row
        /\ op'[o].pc \in {"removing", "entering"}
    BY <1>3, NextKeyIs
  <2>2. op[o].kind \in {"start", "logs"} /\ op[o].pc = "next" /\ UNCHANGED rows
    BY <1>3 DEF NextKey, tables
  <2>. QED
    BY <2>1, <2>2, RowsBefore, RowsQuiet
<1>4. ASSUME UpdateLogConfig(o) \/ \E p \in Plugins : Supervise(o, p)
      PROVE  RowsOf(op[o])'
  <2>1. /\ op'[o].kind \in {"none", "logs"} /\ op'[o].pc \in {"next", "entering"}
        /\ op'[o].row = NoRow /\ UNCHANGED rows /\ op[o].pc = "idle"
    BY <1>4, UpdateLogConfigIs, SuperviseIs DEF UpdateLogConfig, Supervise, Free, Fresh, tables
  <2>. QED
    BY <1>0, <2>1, RowsBefore, RowsQuiet
<1>5. CASE Restart(o)
  <2>1. Signless'
    BY <1>5, RowsBefore DEF Restart, tables, Signless, Developed
  <2>. QED
    BY <1>0, <1>5, <2>1, RestartIs, RowsAfter DEF Restart, Fresh, tables
<1>6. ASSUME InstallFails(o) \/ DisableOthersFails(o) \/ StoppedFails(o) \/ BootFails(o)
      PROVE  RowsOf(op[o])'
  <2>1. /\ UNCHANGED rows
        /\ op[o].pc \in {"installing", "recording", "stopped", "clearing"} \/ op[o].kind = "build"
        /\ Failed(o) \/ (Done(o) /\ op[o].pc = "stopped")
    BY <1>6 DEF InstallFails, DisableOthersFails, StoppedFails, BootFails, tables
  <2>2. /\ op'[o].row = NoRow
        /\ \/ op'[o].pc = "next" /\ op'[o].kind = op[o].kind /\ op[o].kind # "build"
              /\ op[o].pc # "clearing"
           \/ op'[o].pc = "idle" /\ op'[o].kind = "none" /\ op[o].kind \notin {"build", "seed"}
           \/ op'[o].pc = "down" /\ op'[o].kind = "seed"
    <3>1. CASE Failed(o)
      <4>1. op[o].pc = "clearing" => op'[o].pc = "down"
        <5>1. ASSUME op[o].pc = "clearing" PROVE op[o].kind = "seed"
          BY <5>1, RowsBefore
        <5>2. ASSUME op[o].kind = "seed"
              PROVE  Set(o, [NoOp EXCEPT !.kind = "seed", !.pc = "down"])
          BY <3>1, <5>2 DEF Failed
        <5>3. PICK r : r = [NoOp EXCEPT !.kind = "seed", !.pc = "down"]
          OBVIOUS
        <5>4. r \in OpRecord /\ r.pc = "down"
          BY <5>3, NoOpIs DEF OpRecord
        <5>. QED
          BY <5>1, <5>2, <5>3, <5>4, SetIs
      <4>2. CASE op'[o].pc = "next" /\ Batch(op[o], op'[o]) /\ op[o].kind # "build"
        BY <3>1, <4>1, <4>2, FailedIs DEF Fresh, Batch
      <4>3. CASE op'[o] = NoOp /\ op[o].kind \notin {"seed", "build"}
        BY <4>3, NoOpIs DEF Fresh
      <4>4. CASE op'[o].pc = "down" /\ op'[o].kind = "seed"
        BY <3>1, <4>4, FailedIs DEF Fresh
      <4>. QED
        BY <3>1, <4>2, <4>3, <4>4, FailedIs
    <3>2. CASE Done(o) /\ op[o].pc = "stopped"
      BY <3>2, DoneIs, NoOpIs, RowsBefore DEF Fresh, Batch
    <3>. QED
      BY <2>1, <3>1, <3>2
  <2>. QED
    BY <1>0, <2>1, <2>2, RowsBefore, RowsQuiet
<1>7. CASE RecordFails(o)
  <2>1. /\ op'[o].pc = "removing" /\ op'[o].kind = op[o].kind /\ op'[o].row = op[o].row
        /\ op[o].pc = "disabled" /\ UNCHANGED rows
    BY <1>7, RecordFailsIs DEF RecordFails, tables
  <2>2. op[o].kind = "build" => op[o].pc \in {"next", "recording"}
    BY RowsBefore
  <2>. QED
    BY <2>1, <2>2, RowsBefore, RowsQuiet
<1>8. CASE Seeded(o)
  <2>1. NotBoth
    <3>1. CASE op[o].kind = "build"
      BY <1>8, <3>1 DEF Seeded, Stale, RowsOf, NotBoth, Developed
    <3>2. CASE op[o].kind # "build"
      BY <1>8, <3>2, RowsBefore DEF Seeded
    <3>. QED
      BY <3>1, <3>2
  <2>2. /\ op'[o].pc \in {"idle", "next"} /\ op'[o].kind \in {"none", "start"}
        /\ op'[o].row = NoRow /\ UNCHANGED rows /\ op[o].pc = "next"
    BY <1>8, SeededIs, NoOpIs DEF Seeded, Fresh, tables
  <2>. QED
    BY <1>0, <2>1, <2>2, RowsQuiet
<1>. QED
  BY <1>1, <1>2, <1>3, <1>4, <1>5, <1>6, <1>7, <1>8

\* The steps of an enable and of stopActive.
LEMMA RowsOfServing ==
  ASSUME TypeOK, NEW o \in Threads, RowsOf(op[o]),
         \/ \E k \in Keys, confirm \in BOOLEAN : Enable(o, k, confirm)
         \/ Enter(o) \/ Probed(o) \/ Drained(o) \/ Migrate(o) \/ Replace(o) \/ SetProcess(o)
         \/ Retire(o) \/ RemoveOwner(o) \/ Take(o) \/ Stop(o)
  PROVE  RowsOf(op[o])'
<1>0. NoRow.trust # "development" /\ {"migrating", "migrated", "replaced", "taking"} \subseteq Steps
  BY NoOpIs DEF Steps
<1>1. ASSUME NEW k \in Keys, Launch(o, k), UNCHANGED rows, op[o].pc \in {"idle", "entering"}
      PROVE  RowsOf(op[o])'
  <2>1. rows[k].trust = "development" => rows[k].signer = None
    BY RowsBefore DEF Signless, Developed
  <2>. QED
    BY <1>1, <2>1, LaunchIs, RowsBefore, RowsQuiet
<1>2. ASSUME NEW k \in Keys, NEW confirm \in BOOLEAN, Enable(o, k, confirm)
      PROVE  RowsOf(op[o])'
  BY <1>1, <1>2 DEF Enable, Free
<1>3. CASE Enter(o)
  <2>1. CASE Failed(o)
    <3>1. /\ op'[o].row = NoRow /\ op[o].kind # "build" /\ op[o].pc = "entering" /\ UNCHANGED rows
      BY <1>3, <2>1, FailedIs, RowsBefore DEF Enter, Fresh, tables
    <3>2. /\ op'[o].kind # "build" /\ op'[o].pc \in {"next", "idle", "down"}
          /\ op'[o].pc = "down" => op'[o].kind = "seed"
      BY <2>1, <3>1, FailedIs, NoOpIs DEF Batch
    <3>. QED
      BY <1>0, <3>1, <3>2, RowsQuiet
  <2>2. CASE Launch(o, op[o].key)
    BY <1>1, <1>3, <2>2, ServingTypes DEF Enter, tables
  <2>. QED
    BY <1>3, <2>1, <2>2 DEF Enter
<1>4. ASSUME Probed(o) \/ SetProcess(o) \/ Retire(o) \/ Take(o) \/ Stop(o)
      PROVE  RowsOf(op[o])'
  <2>1. /\ op'[o].kind = op[o].kind /\ op'[o].row = op[o].row /\ UNCHANGED rows
        /\ op[o].pc \in {"probing", "replaced", "retiring", "taking", "stopping"}
        /\ op'[o].pc \in {"draining", "retiring", "recording", "stopping", "stopped"}
    BY <1>4, ProbedIs, SetProcessIs, RetireIs, TakeIs
       DEF Probed, SetProcess, Retire, Take, Stop, tables
  <2>. QED
    BY <2>1, RowsBefore, RowsQuiet
<1>5. ASSUME Drained(o) \/ Migrate(o) \/ Replace(o) \/ RemoveOwner(o)
      PROVE  RowsOf(op[o])'
  <2>1. /\ Moved(op[o], op'[o]) /\ UNCHANGED rows
        /\ op[o].pc \in {"draining", "migrating", "migrated", "removing"}
        /\ op'[o].pc \in {"migrating", "migrated", "replaced", "taking"}
    BY <1>0, <1>5, GoIs DEF Drained, Migrate, Replace, RemoveOwner, tables
  <2>. QED
    BY <2>1, RowsBefore, RowsQuiet DEF Moved
<1>. QED
  BY <1>2, <1>3, <1>4, <1>5

\* The steps that write rows, of an operation that is not building.
LEMMA RowsOfWriters ==
  ASSUME TypeOK, NEW o \in Threads, RowsOf(op[o]), VouchedOf(op[o]),
         \/ \E k \in Keys : \/ TrustPublisher(k)
                            \/ \E s \in SignersOf[k] : InspectOfficial(o, k, s)
         \/ Install(o) \/ ProbeFails(o) \/ FallBack(o) \/ RecordHealthy(o) \/ Stopped(o)
         \/ ClearDevelopment(o)
  PROVE  RowsOf(op[o])'
<1>0. /\ NoRow.trust # "development" /\ ~NoRow.enabled /\ "entering" \in Steps
      /\ op[o] \in OpRecord /\ op[o].key \in Keys /\ rows \in RowsType
  BY NoOpIs, ServingTypes, TypeParts DEF Steps
<1>1. ASSUME NEW k \in Keys, TrustPublisher(k) PROVE RowsOf(op[o])'
  <2>1. rows[k].signer # None /\ rows' = TrustedRows(rows[k].signer) /\ UNCHANGED op
    BY <1>1 DEF TrustPublisher
  <2>2. /\ \A l \in Keys : Developed(l)' <=> Developed(l)
        /\ \A l, m \in Keys : Both(l, m)' <=> Both(l, m)
        /\ \A l \in Keys : rows'[l].enabled = rows[l].enabled
        /\ Signless'
    BY <2>1, RowsBefore, TrustKeepsRows
  <2>. QED
    BY <2>1, <2>2 DEF RowsOf, Signless
<1>2. ASSUME NEW k \in Keys, NEW s \in SignersOf[k], InspectOfficial(o, k, s)
      PROVE  RowsOf(op[o])'
  <2>1. NotBoth /\ Signless
    BY <1>2, RowsBefore DEF InspectOfficial
  <2>2. (s # None /\ rows' = TrustedRows(s)) \/ UNCHANGED rows
    BY <1>2 DEF InspectOfficial
  <2>3. NotBoth' /\ Signless'
    BY <2>1, <2>2, TrustKeepsRows DEF NotBoth, Signless, Both, Developed
  <2>. QED
    BY <1>2, <2>3, InspectOfficialIs, RowsAfter
<1>3. ASSUME NEW k \in Keys, \A l \in Keys : l # k => rows'[l] = rows[l], ~rows'[k].enabled,
             rows'[k].trust = "development" => rows'[k].signer = None,
             op[o].pc \notin {"down", "clearing", "next", "recording"},
             \/ op'[o].pc \in {"entering", "next"} /\ op'[o].kind = op[o].kind
             \/ op'[o].pc = "idle" /\ op'[o].kind = "none"
             \/ op'[o].pc = "down" /\ op'[o].kind = "seed",
             op'[o].row = NoRow \/ op'[o].row = op[o].row
      PROVE  RowsOf(op[o])'
  <2>1. NotBoth' /\ Signless'
    BY <1>3, RowsBefore, RowWritten
  <2>. QED
    BY <1>0, <1>3, <2>1, RowsBefore, RowsAfter
<1>4. ASSUME Failed(o) \/ Done(o) \/ Go(o, "entering"), op[o].kind # "build",
             op[o].pc \notin {"down", "clearing", "next", "recording"}
      PROVE  /\ \/ op'[o].pc \in {"entering", "next"} /\ op'[o].kind = op[o].kind
                \/ op'[o].pc = "idle" /\ op'[o].kind = "none"
                \/ op'[o].pc = "down" /\ op'[o].kind = "seed"
             /\ op'[o].row = NoRow \/ op'[o].row = op[o].row
  BY <1>0, <1>4, FailedIs, DoneIs, GoIs, NoOpIs DEF Fresh, Batch, Moved
<1>5. CASE Install(o)
  <2>1. /\ op[o].pc = "installing" /\ op[o].kind # "build" /\ ~op[o].row.enabled
        /\ rows' = [rows EXCEPT ![op[o].key] = op[o].row]
        /\ Done(o) \/ Go(o, "entering")
    BY <1>5, RowsBefore DEF Install, VouchedOf
  <2>2. /\ \A l \in Keys : l # op[o].key => rows'[l] = rows[l]
        /\ rows'[op[o].key] = op[o].row
    BY <1>0, <2>1 DEF RowsType
  <2>. QED
    BY <1>0, <1>3, <1>4, <2>1, <2>2, RowsBefore
<1>6. CASE ProbeFails(o) \/ FallBack(o)
  <2>1. MarkFailure(o) /\ op[o].pc \in {"probing", "migrating", "migrated"}
    BY <1>6 DEF ProbeFails, FallBack
  <2>2. Failed(o) /\ op[o].kind # "build"
    BY <2>1, MarkFailureIs, RowsBefore
  <2>3. CASE rows' = rows
    <3>1. NotBoth' /\ Signless'
      BY <2>1, <2>2, <2>3, RowsBefore DEF NotBoth, Signless, Both, Developed
    <3>. QED
      BY <1>0, <1>4, <2>1, <2>2, <3>1, RowsBefore, RowsAfter
  <2>4. CASE rows' # rows
    BY <1>0, <1>3, <1>4, <2>1, <2>2, <2>4, MarkFailureIs, RowsBefore
  <2>. QED
    BY <2>3, <2>4
<1>7. CASE RecordHealthy(o)
  <2>1. PICK w : w = [op[o].row EXCEPT !.enabled = TRUE]
    OBVIOUS
  <2>2. w.trust = op[o].row.trust /\ w.signer = op[o].row.signer
    BY <1>0, <2>1 DEF OpRecord, Row
  <2>3. /\ \A l \in Keys : l # op[o].key => rows'[l] = rows[l]
        /\ rows'[op[o].key] = w /\ op[o].pc = "disabled" /\ Done(o)
    BY <1>0, <1>7, <2>1 DEF RecordHealthy, RowsType
  <2>4. NotBoth /\ op[o].kind # "build"
    BY <2>3, RowsBefore
  <2>5. NotBoth'
    BY <2>3, <2>4 DEF NotBoth, Both, RowsOf
  <2>6. Signless'
    BY <2>2, <2>3, RowsBefore DEF Signless, Developed
  <2>. QED
    BY <1>0, <1>4, <2>3, <2>4, <2>5, <2>6, RowsBefore, RowsAfter
<1>8. CASE Stopped(o)
  <2>1. /\ op[o].pc = "stopped" /\ op[o].kind # "build" /\ NotBoth /\ Signless
        /\ Done(o) \/ Failed(o) \/ Go(o, "entering")
    BY <1>0, <1>8, RowsBefore DEF Stopped, OpRecord
  <2>2. PICK w : w = [rows[op[o].key] EXCEPT !.enabled = FALSE]
    OBVIOUS
  <2>3. /\ rows[op[o].key] \in Row /\ ~w.enabled /\ w.trust = rows[op[o].key].trust
        /\ w.signer = rows[op[o].key].signer
    BY <1>0, <2>2 DEF RowsType, Row
  <2>4. \/ rows' = rows
        \/ rows' = [rows EXCEPT ![op[o].key] = w]
        \/ rows' = [rows EXCEPT ![op[o].key] = NoRow]
    BY <1>0, <1>8, <2>2 DEF Stopped, OpRecord
  <2>5. CASE rows' = rows
    <3>1. NotBoth' /\ Signless'
      BY <2>1, <2>5 DEF NotBoth, Signless, Both, Developed
    <3>. QED
      BY <1>0, <1>4, <2>1, <3>1, RowsBefore, RowsAfter
  <2>6. CASE rows' # rows
    <3>1. /\ \A l \in Keys : l # op[o].key => rows'[l] = rows[l]
          /\ rows'[op[o].key] \in {w, NoRow}
      BY <1>0, <2>4, <2>6 DEF RowsType
    <3>2. /\ ~rows'[op[o].key].enabled
          /\ rows'[op[o].key].trust = "development" => rows'[op[o].key].signer = None
      BY <1>0, <2>1, <2>3, <3>1 DEF Signless, Developed
    <3>. QED
      BY <1>0, <1>3, <1>4, <2>1, <3>1, <3>2
  <2>. QED
    BY <2>5, <2>6
<1>9. CASE ClearDevelopment(o)
  <2>1. \A k \in Keys : rows'[k] = IF Developed(k) THEN NoRow ELSE rows[k]
    BY <1>9 DEF ClearDevelopment, Developed
  <2>2. NotBoth'
    BY <1>0, <2>1 DEF RowsOf, NotBoth, Both
  <2>3. Signless'
    BY <1>0, <2>1 DEF Signless, Developed
  <2>4. op'[o].kind = "seed" /\ op'[o].pc = "next" /\ op'[o].row = NoRow
    BY <1>9, ClearDevelopmentIs DEF Fresh
  <2>. QED
    BY <1>0, <2>2, <2>3, <2>4, RowsAfter
<1>. QED
  BY <1>1, <1>2, <1>5, <1>6, <1>7, <1>8, <1>9

\* The build of the sources writes rows of its own, for one version of a plugin
\* after the other.
LEMMA RowsOfBuild ==
  ASSUME TypeOK, NEW o \in Threads, RowsOf(op[o]),
         SyncDevelopment(o) \/ DeleteStale(o) \/ DisableOtherPluginVersions(o)
  PROVE  RowsOf(op[o])'
<1>0. /\ NoRow.trust # "development" /\ ~NoRow.enabled /\ "disabled" \in Steps
      /\ op[o] \in OpRecord /\ op[o].key \in Keys /\ rows \in RowsType
  BY NoOpIs, ServingTypes, TypeParts DEF Steps
<1>1. ASSUME BuildStarts(o) PROVE RowsOf(op[o])'
  BY <1>0, <1>1 DEF BuildStarts, Fresh, RowsOf, Both, Developed
<1>2. ASSUME NEW k \in Keys, NEW on \in BOOLEAN, BuildSets(o, k, on) PROVE RowsOf(op[o])'
  <2>1. PICK w : w = [present |-> TRUE, enabled |-> on, trust |-> "development", signer |-> None]
    OBVIOUS
  <2>2. w.enabled = on /\ w.trust = "development" /\ w.signer = None
    BY <2>1
  <2>3. rows'[k] = w /\ \A l \in Keys : l # k => rows'[l] = rows[l]
    BY <1>0, <1>2, <2>1 DEF BuildSets, RowsType
  <2>4. /\ op[o].kind = "build" /\ op[o].pc = "next" /\ op'[o].kind = "build" /\ op'[o].key = k
        /\ op'[o].pc = IF on THEN "recording" ELSE "next"
        /\ op'[o].todo = op[o].todo \ {k} /\ op'[o].tree = op[o].tree
        /\ op'[o].row = op[o].row
    BY <1>2 DEF BuildSets
  <2>5. \A l \in Keys : Developed(l)' => rows'[l].signer = None
    BY <2>2, <2>3 DEF RowsOf, Developed
  <2>6. ASSUME NEW l \in Keys, NEW m \in Keys, Both(l, m)', l # k, m # k
        PROVE  Both(l, m) /\ (Developed(l)' <=> Developed(l)) /\ (Developed(m)' <=> Developed(m))
    BY <2>3, <2>6 DEF Both, Developed
  <2>7. \A l, m \in Keys : Both(l, m)' => Developed(l)' \/ Developed(m)'
    <3>1. Developed(k)'
      BY <2>2, <2>3 DEF Developed
    <3>. QED
      BY <2>6, <3>1 DEF RowsOf
  <2>8. ASSUME NEW l \in Keys, NEW m \in Keys, Both(l, m)', op'[o].pc = "recording" => l[1] # k[1]
        PROVE  \E d \in {l, m} : Developed(d)' /\ (d \in op'[o].todo \/ d \notin op'[o].tree)
    <3>1. l # k /\ m # k
      BY <2>2, <2>3, <2>4, <2>8 DEF Both
    <3>2. \E d \in {l, m} : Developed(d) /\ (d \in op[o].todo \/ d \notin op[o].tree)
      BY <2>4, <2>6, <2>8, <3>1 DEF RowsOf
    <3>. QED
      BY <2>4, <2>6, <2>8, <3>1, <3>2
  <2>. QED
    BY <2>4, <2>5, <2>7, <2>8 DEF RowsOf
<1>3. CASE SyncDevelopment(o)
  BY <1>1, <1>2, <1>3, SyncDevelopmentIs
<1>4. CASE DeleteStale(o)
  <2>1. PICK k \in Keys : rows' = [rows EXCEPT ![k] = NoRow]
    BY <1>4 DEF DeleteStale, Stale
  <2>2. /\ rows'[k] = NoRow /\ \A l \in Keys : l # k => rows'[l] = rows[l]
        /\ UNCHANGED op
    BY <1>0, <1>4, <2>1 DEF RowsType, DeleteStale
  <2>3. ASSUME NEW l \in Keys, NEW m \in Keys, Both(l, m)'
        PROVE  Both(l, m) /\ (Developed(l)' <=> Developed(l)) /\ (Developed(m)' <=> Developed(m))
    BY <1>0, <2>2, <2>3 DEF Both, Developed
  <2>4. \A l \in Keys : Developed(l)' => rows'[l].signer = None
    BY <1>0, <2>2 DEF RowsOf, Developed
  <2>5. op[o].kind = "build" /\ op[o].pc = "next"
    BY <1>4 DEF DeleteStale
  <2>. QED
    BY <2>2, <2>3, <2>4, <2>5 DEF RowsOf
<1>5. CASE DisableOtherPluginVersions(o)
  <2>1. ASSUME NEW k \in Keys
        PROVE  /\ rows'[k].enabled => rows[k].enabled
               /\ rows'[k].trust = rows[k].trust /\ rows'[k].signer = rows[k].signer
               /\ k[1] = op[o].key[1] /\ k # op[o].key => ~rows'[k].enabled
    <3>1. PICK w : w = [rows[k] EXCEPT !.enabled = FALSE]
      OBVIOUS
    <3>2. ~w.enabled /\ w.trust = rows[k].trust /\ w.signer = rows[k].signer
      BY <1>0, <3>1 DEF RowsType, Row
    <3>3. rows'[k] = IF k[1] = op[o].key[1] /\ k # op[o].key /\ rows[k].enabled
                     THEN w ELSE rows[k]
      BY <1>5, <3>1 DEF DisableOtherPluginVersions
    <3>. QED
      BY <3>2, <3>3
  <2>2. /\ \A l, m \in Keys : Both(l, m)' => Both(l, m) /\ l[1] # op[o].key[1]
        /\ \A l \in Keys : Developed(l)' <=> Developed(l)
        /\ Signless'
    <3>1. Signless
      BY RowsBefore
    <3>. QED
      BY <2>1, <3>1 DEF Both, Developed, Signless
  <2>3. CASE op[o].kind = "build"
    <3>1. Done(o) /\ op[o].pc = "recording"
      BY <1>5, <2>3 DEF DisableOtherPluginVersions
    <3>2. /\ op'[o].kind = "build" /\ op'[o].pc = "next" /\ op'[o].row = NoRow
          /\ op'[o].todo = op[o].todo /\ op'[o].tree = op[o].tree
      BY <2>3, <3>1, DoneIs DEF Fresh, Batch
    <3>3. \A l, m \in Keys : Both(l, m)' =>
            /\ Developed(l)' \/ Developed(m)'
            /\ \E d \in {l, m} : Developed(d)' /\ (d \in op'[o].todo \/ d \notin op'[o].tree)
      BY <2>2, <2>3, <3>2 DEF RowsOf
    <3>. QED
      BY <1>0, <2>2, <3>2, <3>3 DEF RowsOf, Signless
  <2>4. CASE op[o].kind # "build"
    <3>1. /\ op[o].pc = "recording" /\ op'[o].pc = "disabled" /\ Moved(op[o], op'[o])
          /\ NotBoth
      BY <1>0, <1>5, <2>4, GoIs, RowsBefore DEF DisableOtherPluginVersions
    <3>2. NotBoth'
      BY <2>2, <3>1 DEF NotBoth
    <3>. QED
      BY <2>1, <2>2, <2>4, <3>1, <3>2, RowsBefore, RowsAfter DEF Moved
  <2>. QED
    BY <2>3, <2>4
<1>. QED
  BY <1>3, <1>4, <1>5

LEMMA RowsStep ==
  ASSUME PluginsIInv, NEW o, Threads = {o}, Next
  PROVE  RowsOf(op[o])'
<1>0. TypeOK /\ o \in Threads /\ RowsOf(op[o]) /\ VouchedOf(op[o])
  BY DEF PluginsIInv
<1>1. ASSUME NEW k \in Keys,
             \/ \E s \in SignersOf[k] : Inspect(o, k, s)
             \/ Disable(o, k) \/ Uninstall(o, k)
      PROVE  RowsOf(op[o])'
  BY <1>0, <1>1, RowsOfQuiet
<1>2. ASSUME NEW k \in Keys, TrustPublisher(k) PROVE RowsOf(op[o])'
  BY <1>0, <1>2, RowsOfWriters
<1>3. ASSUME NEW k \in Keys, NEW confirm \in BOOLEAN, Enable(o, k, confirm)
      PROVE  RowsOf(op[o])'
  BY <1>0, <1>3, RowsOfServing
<1>4. CASE UpdateLogConfig(o) \/ Restart(o) \/ \E p \in Plugins : Supervise(o, p)
  BY <1>0, <1>4, RowsOfQuiet
<1>5. CASE Progress(o)
  <2>1. CASE \/ \E k \in Keys : NextKey(o, k)
             \/ InstallFails(o) \/ DisableOthersFails(o) \/ StoppedFails(o) \/ BootFails(o)
             \/ RecordFails(o) \/ Seeded(o)
    BY <1>0, <2>1, RowsOfQuiet
  <2>2. CASE \/ Enter(o) \/ Probed(o) \/ Drained(o) \/ Migrate(o) \/ Replace(o) \/ SetProcess(o)
             \/ Retire(o) \/ RemoveOwner(o) \/ Take(o) \/ Stop(o)
    BY <1>0, <2>2, RowsOfServing
  <2>3. CASE \/ \E k \in Keys : \E s \in SignersOf[k] : InspectOfficial(o, k, s)
             \/ Install(o) \/ ProbeFails(o) \/ FallBack(o) \/ RecordHealthy(o) \/ Stopped(o)
             \/ ClearDevelopment(o)
    BY <1>0, <2>3, RowsOfWriters
  <2>4. CASE SyncDevelopment(o) \/ DeleteStale(o) \/ DisableOtherPluginVersions(o)
    BY <1>0, <2>4, RowsOfBuild
  <2>. QED
    BY <1>5, <2>1, <2>2, <2>3, <2>4 DEF Progress
<1>6. CASE \/ \E i \in Instances : Exit(i)
           \/ \E c \in Calls : Execution(c) \/ WriteMonitor(c)
           \/ \E c \in Calls, t \in Monitored : PassGate(c, t) \/ ReadVersion(c, t)
           \/ \E t \in Monitored : DeleteMonitor(t)
  <2>1. UNCHANGED <<rows, op>>
    BY <1>6 DEF Exit, Execution, Join, Answer, WriteMonitor, PassGate, ReadVersion,
                DeleteMonitor, tables
  <2>. QED
    BY <1>0, <2>1, RowsStay
<1>. QED
  BY <1>0, <1>1, <1>2, <1>3, <1>4, <1>5, <1>6 DEF Next

-----------------------------------------------------------------------------
(* Confirmations *)

\* Nobody loses what it needs to start again, and who is enabled has it.
VouchersKept ==
  /\ \A k \in Keys : Vouched(k) => Vouched(k)'
  /\ \A k \in Keys : rows'[k].enabled => rows[k].enabled \/ Vouched(k)'

LEMMA VouchersStay ==
  ASSUME UNCHANGED <<rows, confirmed>>
  PROVE  VouchersKept
BY DEF VouchersKept, Vouched

\* The operation is over, or on to the rest of its batch.
Over(r, s) ==
  /\ s.pc \in {"idle", "down", "next"}
  /\ s.kind \in {"start", "logs", "build"} => s.kind = r.kind /\ s.todo = r.todo

LEMMA OverIs ==
  ASSUME TypeOK, NEW o \in Threads, Done(o) \/ Failed(o)
  PROVE  Over(op[o], op'[o])
BY DoneIs, FailedIs, NoOpIs DEF Over, Batch

LEMMA VouchedOver ==
  ASSUME TypeOK, NEW o \in Threads, VouchedOf(op[o]), VouchersKept, UNCHANGED processes,
         Over(op[o], op'[o])
  PROVE  VouchedOf(op[o])'
<1>1. /\ \A p \in Plugins : processes[p] # None => processes[p].key \in Keys
      /\ op[o].todo \subseteq Keys
  BY ServingTypes DEF OpRecord
<1>. QED
  BY <1>1 DEF VouchedOf, VouchersKept, Over, Starting, Waiting, Ending

\* It goes on with the same plugin.
Confirming == Starting \cup {"retiring", "recording", "disabled"}
LEMMA VouchedMoves ==
  ASSUME TypeOK, NEW o \in Threads, VouchedOf(op[o]), VouchersKept, op[o].kind # "build",
         \A k \in Keys : k \in confirmed => k \in confirmed',
         \A p \in Plugins : processes'[p] # None =>
           \/ processes'[p] = processes[p]
           \/ processes'[p].key = op[o].key /\ op[o].pc \in Confirming,
         op'[o].kind = op[o].kind, op'[o].key = op[o].key, op'[o].row = op[o].row,
         op'[o].todo = op[o].todo, op'[o].then = op[o].then,
         \/ op[o].pc \in Confirming /\ op'[o].pc \in Confirming
         \/ op[o].pc \in Ending /\ op'[o].pc \in Ending
         \/ op[o].pc \in Ending /\ op[o].then = "enter" /\ op'[o].pc = "entering"
  PROVE  VouchedOf(op[o])'
<1>. USE DEF Starting, Waiting, Ending, Confirming
<1>1. /\ \A p \in Plugins : processes[p] # None => processes[p].key \in Keys
      /\ op[o].todo \subseteq Keys /\ op[o].key \in Keys
  BY ServingTypes DEF OpRecord
<1>2. op[o].pc \in Confirming =>
        /\ op[o].row.present /\ (Verified(op[o].row) \/ op[o].key \in confirmed')
        /\ \A k \in Keys : k = op[o].key => Vouched(k)'
  BY <1>1 DEF VouchedOf, VouchersKept
<1>3. \A k \in Keys : rows'[k].enabled => Vouched(k)'
  BY DEF VouchedOf, VouchersKept
<1>4. ASSUME NEW p \in Plugins, processes'[p] # None, NEW k \in Keys, k = processes'[p].key
      PROVE  Vouched(k)'
  BY <1>1, <1>2, <1>4 DEF VouchedOf, VouchersKept
<1>5. op'[o].kind \in {"start", "logs"} => \A k \in op'[o].todo : Vouched(k)'
  BY <1>1 DEF VouchedOf, VouchersKept
<1>6. ASSUME op'[o].pc = "entering" \/ (op'[o].pc \in Ending /\ op'[o].then = "enter"),
             NEW k \in Keys, k = op[o].key
      PROVE  Vouched(k)'
  BY <1>6 DEF VouchedOf, VouchersKept
<1>7. (\A p \in Plugins : processes[p] # None => Vouched(processes[p].key))'
  BY <1>1, <1>4 DEF Vouched
<1>8. /\ op'[o].pc \in Confirming => Vouched(op[o].key)'
      /\ op'[o].pc = "entering" \/ (op'[o].pc \in Ending /\ op'[o].then = "enter") =>
           Vouched(op[o].key)'
  BY <1>1, <1>2, <1>6 DEF Vouched
<1>. QED
  BY <1>2, <1>3, <1>5, <1>7, <1>8 DEF VouchedOf, Verified

\* A process is started for a package that was admitted.
LEMMA VouchedLaunch ==
  ASSUME TypeOK, NEW o \in Threads, VouchedOf(op[o]), VouchersKept, op[o].kind # "build",
         NEW k \in Keys, Launch(o, k), Vouched(k)', UNCHANGED rows
  PROVE  VouchedOf(op[o])'
<1>. USE DEF Starting, Waiting, Ending
<1>1. /\ \A p \in Plugins : processes[p] # None => processes[p].key \in Keys
      /\ op[o].todo \subseteq Keys
  BY ServingTypes DEF OpRecord
<1>2. /\ op'[o].kind = op[o].kind /\ op'[o].todo = op[o].todo /\ op'[o].pc = "probing"
      /\ op'[o].key = k /\ op'[o].row = rows[k] /\ UNCHANGED processes
  BY LaunchIs DEF Launch
<1>. QED
  BY <1>1, <1>2 DEF VouchedOf, VouchersKept, Vouched, Verified

\* The steps that write rows keep what vouches for a package.
LEMMA VouchersOfWriters ==
  ASSUME TypeOK, NEW o \in Threads, RowsOf(op[o]), VouchedOf(op[o]),
         \/ \E k \in Keys : \/ TrustPublisher(k)
                            \/ \E s \in SignersOf[k] : InspectOfficial(o, k, s)
         \/ Install(o) \/ ProbeFails(o) \/ FallBack(o) \/ DisableOtherPluginVersions(o)
         \/ RecordHealthy(o)
         \/ Stopped(o) /\ op[o].then # "uninstall"
  PROVE  VouchersKept
<1>0. /\ op[o] \in OpRecord /\ op[o].key \in Keys /\ rows \in RowsType
      /\ op[o].pc \in {"probing", "migrating", "migrated", "disabled"} =>
           /\ op[o].row.present /\ (Verified(op[o].row) \/ op[o].key \in confirmed)
           /\ Vouched(op[o].key)
  BY ServingTypes, TypeParts, RowsBefore DEF VouchedOf, Starting, Waiting
<1>1. ASSUME NEW s, rows' = TrustedRows(s), UNCHANGED confirmed PROVE VouchersKept
  BY <1>1, TrustedRowsIs DEF VouchersKept, Vouched, Verified
<1>2. CASE \E k \in Keys : \/ TrustPublisher(k)
                           \/ \E s \in SignersOf[k] : InspectOfficial(o, k, s)
  BY <1>1, <1>2, VouchersStay DEF TrustPublisher, InspectOfficial
<1>3. CASE Install(o)
  <2>1. /\ \A l \in Keys : l # op[o].key => rows'[l] = rows[l] /\ (l \in confirmed' <=> l \in confirmed)
        /\ rows'[op[o].key] = op[o].row /\ ~op[o].row.enabled /\ ~Present(op[o].key)
    BY <1>0, <1>3 DEF Install, RowsType, VouchedOf
  <2>. QED
    BY <2>1 DEF VouchersKept, Vouched, Present
<1>4. CASE ProbeFails(o) \/ FallBack(o)
  <2>1. /\ MarkFailure(o) /\ op[o].pc \in {"probing", "migrating", "migrated"}
        /\ UNCHANGED confirmed
    BY <1>4, MarkFailureIs DEF ProbeFails, FallBack
  <2>2. CASE rows' = rows
    BY <2>1, <2>2, VouchersStay
  <2>3. CASE rows' # rows
    <3>1. /\ \A k \in Keys : k # op[o].key => rows'[k] = rows[k]
          /\ rows'[op[o].key].present = op[o].row.present
          /\ rows'[op[o].key].trust = op[o].row.trust /\ ~rows'[op[o].key].enabled
      BY <2>1, <2>3, MarkFailureIs
    <3>. QED
      BY <1>0, <2>1, <3>1 DEF VouchersKept, Vouched, Verified
  <2>. QED
    BY <2>2, <2>3
<1>5. CASE DisableOtherPluginVersions(o)
  <2>1. ASSUME NEW k \in Keys
        PROVE  /\ rows'[k].enabled => rows[k].enabled
               /\ rows'[k].trust = rows[k].trust /\ rows'[k].present = rows[k].present
    <3>1. PICK w : w = [rows[k] EXCEPT !.enabled = FALSE]
      OBVIOUS
    <3>2. ~w.enabled /\ w.trust = rows[k].trust /\ w.present = rows[k].present
      BY <1>0, <3>1 DEF RowsType, Row
    <3>3. rows'[k] \in {w, rows[k]}
      BY <1>5, <3>1 DEF DisableOtherPluginVersions
    <3>. QED
      BY <3>2, <3>3
  <2>. QED
    BY <1>5, <2>1 DEF VouchersKept, Vouched, Verified, DisableOtherPluginVersions
<1>6. CASE RecordHealthy(o)
  <2>1. PICK w : w = [op[o].row EXCEPT !.enabled = TRUE]
    OBVIOUS
  <2>2. w.trust = op[o].row.trust /\ w.present = op[o].row.present
    BY <1>0, <2>1 DEF OpRecord, Row
  <2>3. /\ \A l \in Keys : l # op[o].key => rows'[l] = rows[l]
        /\ rows'[op[o].key] = w /\ op[o].pc = "disabled" /\ UNCHANGED confirmed
    BY <1>0, <1>6, <2>1 DEF RecordHealthy, RowsType
  <2>. QED
    BY <1>0, <2>2, <2>3 DEF VouchersKept, Vouched, Verified
<1>7. CASE Stopped(o) /\ op[o].then # "uninstall"
  <2>1. PICK w : w = [rows[op[o].key] EXCEPT !.enabled = FALSE]
    OBVIOUS
  <2>2. /\ rows[op[o].key] \in Row /\ ~w.enabled /\ w.trust = rows[op[o].key].trust
        /\ w.present = rows[op[o].key].present
    BY <1>0, <2>1 DEF RowsType, Row
  <2>3. /\ UNCHANGED confirmed
        /\ UNCHANGED rows \/ rows' = [rows EXCEPT ![op[o].key] = w]
    BY <1>0, <1>7, <2>1 DEF Stopped, OpRecord
  <2>4. CASE UNCHANGED rows
    BY <2>3, <2>4, VouchersStay
  <2>5. CASE rows' = [rows EXCEPT ![op[o].key] = w]
    BY <1>0, <2>2, <2>3, <2>5 DEF VouchersKept, Vouched, Verified, RowsType
  <2>. QED
    BY <2>3, <2>4, <2>5
<1>. QED
  BY <1>2, <1>3, <1>4, <1>5, <1>6, <1>7

\* The operation is over, whatever it had got to.
LEMMA VouchedOfOver ==
  ASSUME TypeOK, NEW o \in Threads, RowsOf(op[o]), VouchedOf(op[o]),
         \/ InstallFails(o) \/ DisableOthersFails(o) \/ StoppedFails(o) \/ BootFails(o)
         \/ Install(o) /\ op[o].kind # "seed"
         \/ Enter(o) /\ ~Admits(op[o].key, TRUE)
         \/ ProbeFails(o) \/ FallBack(o) \/ RecordHealthy(o)
         \/ DisableOtherPluginVersions(o) /\ op[o].kind = "build"
         \/ Stopped(o) /\ op[o].then \in {"fail", "disable"}
  PROVE  VouchedOf(op[o])'
<1>1. VouchersKept
  <2>1. CASE \/ InstallFails(o) \/ DisableOthersFails(o) \/ StoppedFails(o) \/ BootFails(o)
             \/ Enter(o)
    BY <2>1, VouchersStay DEF InstallFails, DisableOthersFails, StoppedFails, BootFails, Enter,
       tables
  <2>. QED
    BY <2>1, VouchersOfWriters
<1>2. UNCHANGED processes
  BY DEF InstallFails, DisableOthersFails, StoppedFails, BootFails, Enter, Install, ProbeFails,
     FallBack, RecordHealthy, DisableOtherPluginVersions, Stopped, serving
<1>3. Done(o) \/ Failed(o)
  BY MarkFailureIs
  DEF InstallFails, DisableOthersFails, StoppedFails, BootFails, Enter, Install, ProbeFails,
     FallBack, RecordHealthy, DisableOtherPluginVersions, Stopped
<1>. QED
  BY <1>1, <1>2, <1>3, OverIs, VouchedOver

\* The operation goes on: the steps of an enable and of stopActive.
LEMMA VouchedOfMoves ==
  ASSUME TypeOK, NEW o \in Threads, RowsOf(op[o]), VouchedOf(op[o]),
         \/ Probed(o) \/ Drained(o) \/ Migrate(o) \/ Replace(o) \/ SetProcess(o) \/ Retire(o)
         \/ DisableOtherPluginVersions(o) /\ op[o].kind # "build"
         \/ RemoveOwner(o) \/ Take(o) \/ Stop(o)
         \/ Stopped(o) /\ op[o].then = "enter"
  PROVE  VouchedOf(op[o])'
<1>. USE DEF Starting, Waiting, Ending, Confirming
<1>0. /\ {"migrating", "migrated", "replaced", "taking", "disabled", "entering"} \subseteq Steps
      /\ op[o].key[1] \in Plugins /\ processes \in ProcessesType
  BY ServingTypes, TypeParts DEF Steps
<1>1. ASSUME Probed(o) \/ Retire(o) \/ Stop(o) \/ Take(o) \/ SetProcess(o)
      PROVE  VouchedOf(op[o])'
  <2>1. /\ UNCHANGED <<rows, confirmed>>
        /\ op'[o].kind = op[o].kind /\ op'[o].key = op[o].key /\ op'[o].row = op[o].row
        /\ op'[o].todo = op[o].todo /\ op'[o].then = op[o].then
        /\ \/ op[o].pc \in Confirming /\ op'[o].pc \in Confirming
           \/ op[o].pc \in Ending /\ op'[o].pc \in Ending
        /\ op[o].pc \notin {"next", "recording"}
    BY <1>1, ProbedIs, RetireIs, TakeIs, SetProcessIs
       DEF Probed, Retire, Stop, Take, SetProcess, tables
  <2>2. ASSUME NEW p \in Plugins, processes'[p] # None
        PROVE  \/ processes'[p] = processes[p]
               \/ processes'[p].key = op[o].key /\ op[o].pc \in Confirming
    <3>1. CASE Probed(o) \/ Retire(o) \/ Stop(o)
      <4>1. processes' = processes
        BY <3>1 DEF Probed, Retire, Stop
      <4>. QED
        BY <4>1
    <3>2. CASE Take(o)
      <4>1. processes' = [processes EXCEPT ![op[o].key[1]] = None]
        BY <3>2 DEF Take
      <4>. QED
        BY <1>0, <2>2, <4>1 DEF ProcessesType
    <3>3. CASE SetProcess(o)
      BY <1>0, <2>2, <3>3 DEF SetProcess, ProcessesType
    <3>. QED
      BY <1>1, <3>1, <3>2, <3>3
  <2>3. VouchersKept /\ op[o].kind # "build"
    BY <2>1, VouchersStay, RowsBefore
  <2>. QED
    BY <2>1, <2>2, <2>3, VouchedMoves
<1>2. ASSUME \/ Drained(o) \/ Migrate(o) \/ Replace(o) \/ RemoveOwner(o)
             \/ DisableOtherPluginVersions(o) /\ op[o].kind # "build"
             \/ Stopped(o) /\ op[o].then = "enter"
      PROVE  VouchedOf(op[o])'
  <2>1. /\ Moved(op[o], op'[o]) /\ op[o].kind # "build"
        /\ \/ op[o].pc \in Confirming /\ op'[o].pc \in Confirming
           \/ op[o].pc \in Ending /\ op'[o].pc \in Ending
           \/ op[o].pc \in Ending /\ op[o].then = "enter" /\ op'[o].pc = "entering"
    BY <1>0, <1>2, GoIs, RowsBefore
       DEF Drained, Migrate, Replace, RemoveOwner, DisableOtherPluginVersions, Stopped
  <2>2. UNCHANGED <<confirmed, processes>>
    BY <1>2 DEF Drained, Migrate, Replace, RemoveOwner, DisableOtherPluginVersions, Stopped,
                tables, serving
  <2>3. VouchersKept
    <3>1. CASE Drained(o) \/ Migrate(o) \/ Replace(o) \/ RemoveOwner(o)
      BY <3>1, VouchersStay DEF Drained, Migrate, Replace, RemoveOwner, tables
    <3>2. CASE DisableOtherPluginVersions(o)
      BY <3>2, VouchersOfWriters
    <3>3. CASE Stopped(o) /\ op[o].then = "enter"
      <4>1. op[o].then # "uninstall"
        BY <3>3
      <4>. QED
        BY <3>3, <4>1, VouchersOfWriters
    <3>. QED
      BY <1>2, <3>1, <3>2, <3>3
  <2>. QED
    BY <2>1, <2>2, <2>3, VouchedMoves DEF Moved
<1>. QED
  BY <1>1, <1>2

LEMMA VouchedOfLaunch ==
  ASSUME TypeOK, NEW o \in Threads, RowsOf(op[o]), VouchedOf(op[o]),
         \/ \E k \in Keys, confirm \in BOOLEAN : Enable(o, k, confirm)
         \/ Enter(o) /\ Admits(op[o].key, TRUE)
  PROVE  VouchedOf(op[o])'
<1>1. ASSUME NEW k \in Keys, NEW confirm \in BOOLEAN, Enable(o, k, confirm)
      PROVE  VouchedOf(op[o])'
  <2>1. /\ Launch(o, k) /\ UNCHANGED rows /\ op[o].pc = "idle"
        /\ confirmed \subseteq confirmed' /\ (confirm => k \in confirmed')
        /\ rows[k].present /\ (Verified(rows[k]) \/ confirm)
    BY <1>1 DEF Enable, Free, Admits, Present
  <2>2. VouchersKept /\ Vouched(k)' /\ op[o].kind # "build"
    BY <2>1, RowsBefore DEF VouchersKept, Vouched, Verified
  <2>. QED
    BY <2>1, <2>2, VouchedLaunch
<1>2. CASE Enter(o) /\ Admits(op[o].key, TRUE)
  <2>1. /\ Launch(o, op[o].key) /\ UNCHANGED <<rows, confirmed>> /\ op[o].pc = "entering"
        /\ op[o].key \in Keys
    BY <1>2, ServingTypes DEF Enter, tables
  <2>2. PICK k \in Keys : k = op[o].key
    BY <2>1
  <2>3. VouchersKept /\ Vouched(k)' /\ op[o].kind # "build"
    BY <2>1, <2>2, VouchersStay, RowsBefore DEF VouchedOf, Vouched
  <2>. QED
    BY <2>1, <2>2, <2>3, VouchedLaunch
<1>. QED
  BY <1>1, <1>2

\* A new operation, or the next of a batch.
LEMMA VouchedOfNew ==
  ASSUME TypeOK, NEW o \in Threads, RowsOf(op[o]), VouchedOf(op[o]),
         \/ \E k \in Keys : \/ \E s \in SignersOf[k] : Inspect(o, k, s) \/ InspectOfficial(o, k, s)
                            \/ Disable(o, k) \/ Uninstall(o, k) \/ NextKey(o, k)
         \/ UpdateLogConfig(o) \/ (\E p \in Plugins : Supervise(o, p)) \/ Restart(o)
         \/ RecordFails(o) \/ Seeded(o)
         \/ Install(o) /\ op[o].kind = "seed"
  PROVE  VouchedOf(op[o])'
<1>. USE DEF Starting, Waiting, Ending
<1>0. /\ {"disable", "uninstall"} \subseteq Thens /\ "entering" \in Steps
      /\ \A p \in Plugins : processes[p] # None => processes[p].key \in Keys
      /\ op[o] \in OpRecord /\ op[o].todo \subseteq Keys /\ op[o].key \in Keys
      /\ rows \in RowsType
  BY ServingTypes, TypeParts DEF Thens, Steps, OpRecord
<1>1. ASSUME UNCHANGED <<rows, confirmed, processes>>
      PROVE  /\ \A k \in Keys : rows'[k].enabled => Vouched(k)'
             /\ (\A p \in Plugins : processes[p] # None => Vouched(processes[p].key))'
             /\ \A k \in Keys : Vouched(k)' <=> Vouched(k)
  BY <1>1 DEF VouchedOf, Vouched
<1>2. ASSUME NEW k \in Keys, NEW s \in SignersOf[k], Inspect(o, k, s) PROVE VouchedOf(op[o])'
  <2>1. UNCHANGED <<rows, confirmed, processes>> /\ ~Present(k)
    BY <1>2 DEF Inspect, tables, serving
  <2>2. /\ op'[o].kind = "none" /\ op'[o].pc = "installing" /\ op'[o].key = k
        /\ op'[o].row.present /\ ~op'[o].row.enabled
    BY <1>2, InspectIs
  <2>. QED
    BY <1>1, <2>1, <2>2 DEF VouchedOf, Present
<1>3. ASSUME NEW k \in Keys, NEW s \in SignersOf[k], InspectOfficial(o, k, s)
      PROVE  VouchedOf(op[o])'
  <2>1. /\ UNCHANGED <<confirmed, processes>> /\ op[o].kind = "seed" /\ VouchersKept
        /\ (\E w : rows' = TrustedRows(w)) \/ UNCHANGED rows
    BY <1>3, VouchersOfWriters DEF InspectOfficial, serving
  <2>2. \A l \in Keys : rows'[l].present = rows[l].present
    BY <2>1, TrustedRowsIs
  <2>3. /\ op'[o].kind = "seed" /\ op'[o].key = k
        /\ \/ op'[o].pc = "next"
           \/ /\ op'[o].pc = "installing" /\ ~Present(k) /\ op'[o].row.present
              /\ ~op'[o].row.enabled /\ op'[o].row.trust = "official"
    BY <1>3, InspectOfficialIs
  <2>4. /\ \A l \in Keys : rows'[l].enabled => Vouched(l)'
        /\ (\A p \in Plugins : processes[p] # None => Vouched(processes[p].key))'
    <3>1. \A p \in Plugins : processes[p] # None =>
            \E l \in Keys : l = processes[p].key /\ Vouched(l)'
      BY <1>0, <2>1 DEF VouchedOf, VouchersKept
    <3>2. \A l \in Keys : rows'[l].enabled => Vouched(l)'
      BY <2>1 DEF VouchedOf, VouchersKept
    <3>. QED
      BY <2>1, <3>1, <3>2 DEF Vouched
  <2>. QED
    BY <2>2, <2>3, <2>4 DEF VouchedOf, Present
<1>4. ASSUME NEW k \in Keys, Disable(o, k) \/ Uninstall(o, k) PROVE VouchedOf(op[o])'
  <2>1. \E then \in {"disable", "uninstall"} : Stopping(o, k, then)
    BY <1>4 DEF Disable, Uninstall
  <2>2. /\ op'[o].kind = "none" /\ op'[o].pc = "removing"
        /\ op'[o].then \in {"disable", "uninstall"}
    BY <1>0, <2>1, StoppingIs
  <2>3. UNCHANGED <<rows, confirmed, processes>>
    BY <1>4 DEF Disable, Uninstall, tables, serving
  <2>. QED
    BY <1>1, <2>2, <2>3 DEF VouchedOf
<1>5. ASSUME NEW k \in Keys, NextKey(o, k) PROVE VouchedOf(op[o])'
  <2>1. /\ UNCHANGED <<rows, confirmed, processes>> /\ op[o].kind \in {"start", "logs"}
        /\ k \in op[o].todo
    BY <1>5 DEF NextKey, tables, serving
  <2>2. Vouched(k) /\ \A l \in op[o].todo : Vouched(l)
    BY <2>1 DEF VouchedOf
  <2>3. /\ op'[o].pc \in {"removing", "entering"} /\ op'[o].then = "enter"
        /\ op'[o].todo = op[o].todo \ {k} /\ op'[o].key = k /\ op'[o].kind = op[o].kind
    BY <1>5, NextKeyIs
  <2>4. \A l \in op'[o].todo : Vouched(l)'
    BY <1>0, <1>1, <2>1, <2>2, <2>3
  <2>. QED
    BY <1>1, <2>1, <2>2, <2>3, <2>4 DEF VouchedOf, Vouched
<1>6. CASE UpdateLogConfig(o)
  <2>1. /\ UNCHANGED <<rows, confirmed, processes>>
        /\ op'[o].kind = "logs" /\ op'[o].pc = "next"
        /\ op'[o].todo = {processes[p].key : p \in Active}
    BY <1>6, UpdateLogConfigIs DEF UpdateLogConfig, tables, serving
  <2>2. \A l \in op'[o].todo : l \in Keys /\ Vouched(l)
    BY <1>0, <2>1 DEF VouchedOf, Active
  <2>3. \A l \in op'[o].todo : Vouched(l)'
    BY <1>1, <2>1, <2>2
  <2>. QED
    BY <1>1, <2>1, <2>3 DEF VouchedOf
<1>7. ASSUME NEW p \in Plugins, Supervise(o, p) PROVE VouchedOf(op[o])'
  <2>1. /\ UNCHANGED <<rows, confirmed, processes>> /\ processes[p] # None
        /\ op'[o].kind = "none" /\ op'[o].pc = "entering" /\ op'[o].key = processes[p].key
    BY <1>7, SuperviseIs DEF Supervise, tables, Active
  <2>2. Vouched(processes[p].key)
    BY <2>1 DEF VouchedOf
  <2>. QED
    BY <1>1, <2>1, <2>2 DEF VouchedOf, Vouched
<1>8. CASE Restart(o)
  <2>1. /\ UNCHANGED <<rows, confirmed>> /\ \A p \in Plugins : processes'[p] = None
        /\ op'[o].kind = "seed" /\ op'[o].pc = "clearing"
    BY <1>8, RestartIs DEF Restart, tables
  <2>. QED
    BY <2>1 DEF VouchedOf, Vouched
<1>9. CASE RecordFails(o)
  <2>1. /\ UNCHANGED <<rows, confirmed, processes>> /\ op[o].pc = "disabled"
        /\ op'[o].pc = "removing" /\ op'[o].then = "fail" /\ op'[o].kind = op[o].kind
        /\ op'[o].todo = op[o].todo
    BY <1>9, RecordFailsIs DEF RecordFails, tables, serving
  <2>2. op[o].kind # "build"
    BY <2>1, RowsBefore
  <2>. QED
    BY <1>0, <1>1, <2>1, <2>2 DEF VouchedOf
<1>10. CASE Seeded(o)
  <2>1. /\ UNCHANGED <<rows, confirmed, processes>>
        /\ \/ op'[o] = NoOp
           \/ /\ op'[o].kind = "start" /\ op'[o].pc = "next"
              /\ op'[o].todo = {k \in Keys : rows[k].enabled}
    BY <1>10, SeededIs DEF Seeded, tables, serving
  <2>2. op'[o].kind = "start" => \A l \in op'[o].todo : Vouched(l)'
    BY <1>1, <2>1, NoOpIs
  <2>. QED
    BY <1>1, <2>1, <2>2, NoOpIs DEF VouchedOf
<1>11. CASE Install(o) /\ op[o].kind = "seed"
  <2>1. /\ op[o].pc = "installing" /\ UNCHANGED processes /\ Go(o, "entering") /\ VouchersKept
        /\ rows' = [rows EXCEPT ![op[o].key] = op[o].row]
    BY <1>11, VouchersOfWriters DEF Install, serving
  <2>2. /\ op'[o].pc = "entering" /\ op'[o].kind = "seed" /\ op'[o].key = op[o].key
    BY <1>0, <1>11, <2>1, GoIs DEF Moved
  <2>3. /\ rows'[op[o].key] = op[o].row /\ op[o].row.present /\ op[o].row.trust = "official"
    BY <1>0, <1>11, <2>1 DEF RowsType, VouchedOf
  <2>4. /\ \A l \in Keys : rows'[l].enabled => Vouched(l)'
        /\ (\A p \in Plugins : processes[p] # None => Vouched(processes[p].key))'
    <3>1. \A p \in Plugins : processes[p] # None =>
            \E l \in Keys : l = processes[p].key /\ Vouched(l)'
      BY <1>0, <2>1 DEF VouchedOf, VouchersKept
    <3>2. \A l \in Keys : rows'[l].enabled => Vouched(l)'
      BY <2>1 DEF VouchedOf, VouchersKept
    <3>. QED
      BY <2>1, <3>1, <3>2 DEF Vouched
  <2>. QED
    BY <2>2, <2>3, <2>4 DEF VouchedOf, Vouched, Verified
<1>. QED
  BY <1>2, <1>3, <1>4, <1>5, <1>6, <1>7, <1>8, <1>9, <1>10, <1>11

\* A package goes, or what a development host has written; the build writes
\* rows that need nobody to vouch for them.
LEMMA VouchedOfRemoved ==
  ASSUME TypeOK, NEW o \in Threads, ServingOf(op[o]), RowsOf(op[o]), VouchedOf(op[o]),
         \/ Stopped(o) /\ op[o].then = "uninstall"
         \/ ClearDevelopment(o) \/ SyncDevelopment(o) \/ DeleteStale(o)
  PROVE  VouchedOf(op[o])'
<1>. USE DEF Starting, Waiting, Ending
<1>0. /\ op[o] \in OpRecord /\ op[o].key \in Keys /\ op[o].key[1] \in Plugins
      /\ rows \in RowsType /\ ~NoRow.enabled /\ NoRow.present = FALSE
      /\ \A p \in Plugins : processes[p] # None => processes[p].key \in Keys
  BY ServingTypes, TypeParts, NoOpIs
<1>1. CASE Stopped(o) /\ op[o].then = "uninstall"
  <2>1. /\ op[o].pc = "stopped" /\ Done(o) /\ UNCHANGED processes
        /\ \A l \in Keys : l # op[o].key =>
             rows'[l] = rows[l] /\ (l \in confirmed' <=> l \in confirmed)
        /\ rows'[op[o].key] = NoRow
    BY <1>0, <1>1 DEF Stopped, RowsType, serving
  <2>2. op[o].kind = "none"
    BY <1>1, <2>1 DEF VouchedOf
  <2>3. op'[o].pc \in {"next", "idle"} /\ op'[o].kind = "none"
    BY <2>1, <2>2, DoneIs, NoOpIs DEF Batch
  <2>4. \A p \in Plugins : processes[p] # None => processes[p].key # op[o].key
    BY <1>0, <2>1 DEF ServingOf, ProcessesFit, HoldingFits
  <2>5. \A l \in Keys : rows'[l].enabled => Vouched(l)'
    BY <1>0, <2>1 DEF VouchedOf, Vouched
  <2>6. (\A p \in Plugins : processes[p] # None => Vouched(processes[p].key))'
    BY <1>0, <2>1, <2>4 DEF VouchedOf, Vouched
  <2>. QED
    BY <2>3, <2>5, <2>6 DEF VouchedOf
<1>2. CASE ClearDevelopment(o)
  <2>1. /\ UNCHANGED <<confirmed, processes>> /\ \A p \in Plugins : processes[p] = None
        /\ \A k \in Keys : rows'[k] \in {NoRow, rows[k]}
        /\ op'[o].kind = "seed" /\ op'[o].pc = "next"
    BY <1>2, ClearDevelopmentIs DEF ClearDevelopment, serving, VouchedOf
  <2>. QED
    BY <1>0, <2>1 DEF VouchedOf, Vouched
<1>3. CASE SyncDevelopment(o)
  <2>1. UNCHANGED processes /\ \A p \in Plugins : processes[p] = None
    BY <1>3 DEF SyncDevelopment, serving, VouchedOf
  <2>2. ASSUME BuildStarts(o) PROVE VouchedOf(op[o])'
    BY <2>1, <2>2 DEF BuildStarts, VouchedOf, Vouched
  <2>3. ASSUME NEW k \in Keys, NEW on \in BOOLEAN, BuildSets(o, k, on) PROVE VouchedOf(op[o])'
    <3>1. PICK w : w = [present |-> TRUE, enabled |-> on, trust |-> "development", signer |-> None]
      OBVIOUS
    <3>2. w.present /\ w.trust = "development"
      BY <3>1
    <3>3. /\ rows'[k] = w /\ \A l \in Keys : l # k =>
               rows'[l] = rows[l] /\ (l \in confirmed => l \in confirmed')
      BY <1>0, <2>3, <3>1 DEF BuildSets, RowsType
    <3>4. op'[o].kind = "build" /\ op'[o].pc \in {"next", "recording"}
      BY <2>3 DEF BuildSets
    <3>5. \A l \in Keys : rows'[l].enabled => Vouched(l)'
      BY <3>2, <3>3 DEF VouchedOf, Vouched, Verified
    <3>. QED
      BY <2>1, <3>4, <3>5 DEF VouchedOf
  <2>. QED
    BY <1>3, <2>2, <2>3, SyncDevelopmentIs
<1>4. CASE DeleteStale(o)
  <2>1. /\ op[o].kind = "build" /\ op[o].pc = "next" /\ UNCHANGED <<op, processes>>
        /\ \A p \in Plugins : processes[p] = None
    BY <1>4 DEF DeleteStale, serving, VouchedOf
  <2>2. \E k \in Keys : /\ rows'[k] = NoRow
                        /\ \A l \in Keys : l # k =>
                             rows'[l] = rows[l] /\ (l \in confirmed => l \in confirmed')
    BY <1>0, <1>4 DEF DeleteStale, Stale, RowsType
  <2>3. \A l \in Keys : rows'[l].enabled => Vouched(l)'
    BY <1>0, <2>2 DEF VouchedOf, Vouched
  <2>. QED
    BY <2>1, <2>3 DEF VouchedOf
<1>. QED
  BY <1>1, <1>2, <1>3, <1>4

\* Nothing of what vouches for packages changes, or a signer is trusted.
LEMMA VouchedStays ==
  ASSUME TypeOK, NEW o \in Threads, VouchedOf(op[o]), VouchersKept,
         UNCHANGED <<op, processes, confirmed>>,
         \A k \in Keys : rows'[k].present = rows[k].present
  PROVE  VouchedOf(op[o])'
<1>1. /\ \A p \in Plugins : processes[p] # None => processes[p].key \in Keys
      /\ op[o].todo \subseteq Keys /\ op[o].key \in Keys
  BY ServingTypes DEF OpRecord
<1>2. \A k \in Keys : Vouched(k) => Vouched(k)'
  BY DEF VouchersKept
<1>3. /\ \A k \in Keys : rows'[k].enabled => Vouched(k)'
      /\ (\A p \in Plugins : processes[p] # None => Vouched(processes[p].key))'
  <2>1. \A p \in Plugins : processes[p] # None =>
          \E l \in Keys : l = processes[p].key /\ Vouched(l)'
    BY <1>1, <1>2 DEF VouchedOf
  <2>2. \A l \in Keys : rows'[l].enabled => Vouched(l)'
    BY DEF VouchedOf, VouchersKept
  <2>. QED
    BY <2>1, <2>2 DEF Vouched
<1>4. Vouched(op[o].key) => Vouched(op[o].key)'
  <2>1. PICK k \in Keys : k = op[o].key
    BY <1>1
  <2>. QED
    BY <1>2, <2>1 DEF Vouched
<1>. QED
  BY <1>1, <1>2, <1>3, <1>4 DEF VouchedOf, Present

LEMMA VouchedStep ==
  ASSUME PluginsIInv, NEW o, Threads = {o}, Next
  PROVE  VouchedOf(op[o])'
<1>0. TypeOK /\ o \in Threads /\ ServingOf(op[o]) /\ RowsOf(op[o]) /\ VouchedOf(op[o])
  BY DEF PluginsIInv
<1>1. ASSUME NEW k \in Keys,
             \/ \E s \in SignersOf[k] : Inspect(o, k, s)
             \/ Disable(o, k) \/ Uninstall(o, k)
      PROVE  VouchedOf(op[o])'
  BY <1>0, <1>1, VouchedOfNew
<1>2. ASSUME NEW k \in Keys, TrustPublisher(k) PROVE VouchedOf(op[o])'
  <2>1. /\ VouchersKept /\ UNCHANGED <<op, processes, confirmed>>
        /\ rows' = TrustedRows(rows[k].signer)
    BY <1>0, <1>2, VouchersOfWriters DEF TrustPublisher, serving
  <2>2. \A l \in Keys : rows'[l].present = rows[l].present
    BY <1>0, <2>1, TrustedRowsIs
  <2>. QED
    BY <1>0, <2>1, <2>2, VouchedStays
<1>3. ASSUME NEW k \in Keys, NEW confirm \in BOOLEAN, Enable(o, k, confirm)
      PROVE  VouchedOf(op[o])'
  BY <1>0, <1>3, VouchedOfLaunch
<1>4. CASE UpdateLogConfig(o) \/ Restart(o) \/ \E p \in Plugins : Supervise(o, p)
  BY <1>0, <1>4, VouchedOfNew
<1>5. CASE Progress(o)
  <2>1. CASE \/ \E k \in Keys : NextKey(o, k) \/ \E s \in SignersOf[k] : InspectOfficial(o, k, s)
             \/ RecordFails(o) \/ Seeded(o)
    BY <1>0, <2>1, VouchedOfNew
  <2>2. CASE \/ InstallFails(o) \/ DisableOthersFails(o) \/ StoppedFails(o) \/ BootFails(o)
             \/ ProbeFails(o) \/ FallBack(o) \/ RecordHealthy(o)
    BY <1>0, <2>2, VouchedOfOver
  <2>3. CASE \/ Probed(o) \/ Drained(o) \/ Migrate(o) \/ Replace(o) \/ SetProcess(o)
             \/ Retire(o) \/ RemoveOwner(o) \/ Take(o) \/ Stop(o)
    BY <1>0, <2>3, VouchedOfMoves
  <2>4. CASE Install(o)
    BY <1>0, <2>4, VouchedOfNew, VouchedOfOver
  <2>5. CASE Enter(o)
    BY <1>0, <2>5, VouchedOfLaunch, VouchedOfOver
  <2>6. CASE DisableOtherPluginVersions(o)
    BY <1>0, <2>6, VouchedOfMoves, VouchedOfOver
  <2>7. CASE Stopped(o)
    <3>1. op[o].then \in {"fail", "disable", "uninstall", "enter"}
      BY <1>0, ServingTypes DEF OpRecord
    <3>. QED
      BY <1>0, <2>7, <3>1, VouchedOfMoves, VouchedOfOver, VouchedOfRemoved
  <2>8. CASE ClearDevelopment(o) \/ SyncDevelopment(o) \/ DeleteStale(o)
    BY <1>0, <2>8, VouchedOfRemoved
  <2>. QED
    BY <1>5, <2>1, <2>2, <2>3, <2>4, <2>5, <2>6, <2>7, <2>8 DEF Progress
<1>6. CASE \/ \E i \in Instances : Exit(i)
           \/ \E c \in Calls : Execution(c) \/ WriteMonitor(c)
           \/ \E c \in Calls, t \in Monitored : PassGate(c, t) \/ ReadVersion(c, t)
           \/ \E t \in Monitored : DeleteMonitor(t)
  <2>1. UNCHANGED <<rows, op, processes, confirmed>>
    BY <1>6 DEF Exit, Execution, Join, Answer, WriteMonitor, PassGate, ReadVersion,
                DeleteMonitor, tables, serving
  <2>. QED
    BY <1>0, <2>1, VouchersStay, VouchedStays
<1>. QED
  BY <1>0, <1>1, <1>2, <1>3, <1>4, <1>5, <1>6 DEF Next

-----------------------------------------------------------------------------
(* Monitors *)

LEMMA MonitorTypes ==
  ASSUME TypeOK, NEW o \in Threads
  PROVE  /\ monitors \in [Types -> Versions \cup {None}] /\ outdated \subseteq Types
         /\ op[o].key \in Keys /\ op[o].key[2] \in Versions /\ op[o].key[2] # None
         /\ call \in [Calls -> CallType]
         /\ \A c \in Calls : /\ call[c].late \in BOOLEAN /\ call[c].update \in BOOLEAN
                             /\ call[c].version \in Versions \cup {None}
BY TypeParts, ServingTypes, NoneIsNone DEF CallType

\* Steps that migrate nothing: modules may go, none comes.
LEMMA MonitorsQuiet ==
  ASSUME TypeOK, NEW o \in Threads, MonitorsOf(op[o]),
         UNCHANGED <<monitors, outdated>>,
         \A t \in Types : registry'[t] = None \/ registry'[t] = registry[t],
         \A c \in Calls : call'[c] = call[c] \/ call'[c].pc # "editing",
         op[o].pc # "migrated", op'[o].pc # "migrated"
  PROVE  MonitorsOf(op[o])'
<1>1. \A t \in Types : ~Halfway(op[o], t) /\ ~Halfway(op[o], t)'
  BY DEF Halfway
<1>2. \A t \in Types : monitors'[t] # None => Fit(t, monitors[t], t \in outdated)'
  BY <1>1 DEF MonitorsOf, Fit
<1>3. ASSUME NEW c \in Calls, call'[c].pc = "editing"
      PROVE  /\ call'[c].type \in Types /\ call'[c].version # None
             /\ call'[c].update => monitors'[call'[c].type] # None
             /\ \/ call'[c].late
                \/ registry'[call'[c].type] = None
                \/ call'[c].version = registry'[call'[c].type].key[2]
                \/ call'[c].update /\ call'[c].type \in outdated'
  <2>1. call'[c] = call[c]
    BY <1>3
  <2>2. /\ call[c].type \in Types /\ call[c].version # None
        /\ call[c].update => monitors[call[c].type] # None
        /\ \/ call[c].late \/ Halfway(op[o], call[c].type)
           \/ Fit(call[c].type, call[c].version, call[c].update /\ call[c].type \in outdated)
    BY <1>3, <2>1 DEF MonitorsOf
  <2>. QED
    BY <1>1, <2>1, <2>2 DEF Fit
<1>. QED
  BY <1>1, <1>2, <1>3 DEF MonitorsOf, Fit

\* All monitors of the package get its version.
LEMMA MigrateFits ==
  ASSUME TypeOK, NEW o \in Threads, MonitorsOf(op[o]), Migrate(o)
  PROVE  MonitorsOf(op[o])'
<1>0. "migrated" \in Steps
  BY DEF Steps
<1>1. /\ op[o].pc = "migrating" /\ op'[o].pc = "migrated" /\ op'[o].key = op[o].key
      /\ UNCHANGED <<call, registry>>
      /\ outdated' = outdated \ ModulesOf[op[o].key]
      /\ \A t \in Types : monitors'[t] = IF t \in ModulesOf[op[o].key] /\ monitors[t] # None
                                         THEN op[o].key[2] ELSE monitors[t]
  BY <1>0, GoIs DEF Migrate, serving, Moved
<1>2. op[o].key[2] # None
  BY MonitorTypes
<1>3. \A t \in Types : /\ ~Halfway(op[o], t)
                       /\ Halfway(op[o], t)' <=> t \in ModulesOf[op[o].key]
  BY <1>1 DEF Halfway
<1>4. ASSUME NEW t \in Types, monitors'[t] # None
      PROVE  IF t \in ModulesOf[op[o].key] THEN monitors'[t] = op[o].key[2]
             ELSE registry'[t] = None \/ monitors'[t] = registry'[t].key[2] \/ t \in outdated'
  BY <1>1, <1>3, <1>4 DEF MonitorsOf, Fit
<1>5. ASSUME NEW c \in Calls, call[c].pc = "editing"
      PROVE  /\ call[c].type \in Types /\ call[c].version # None
             /\ call[c].update => monitors'[call[c].type] # None
             /\ \/ call[c].late \/ call[c].type \in ModulesOf[op[o].key]
                \/ registry'[call[c].type] = None
                \/ call[c].version = registry'[call[c].type].key[2]
                \/ call[c].update /\ call[c].type \in outdated'
  BY <1>1, <1>2, <1>3, <1>5 DEF MonitorsOf, Fit
<1>. QED
  BY <1>1, <1>3, <1>4, <1>5 DEF MonitorsOf, Fit

\* The module changes over, and the handlers that read before are late.
LEMMA ReplaceFits ==
  ASSUME TypeOK, NEW o \in Threads, MonitorsOf(op[o]), Replace(o)
  PROVE  MonitorsOf(op[o])'
<1>0. "replaced" \in Steps
  BY DEF Steps
<1>1. /\ op[o].pc = "migrated" /\ op'[o].pc = "replaced" /\ op'[o].key = op[o].key
      /\ UNCHANGED <<monitors, outdated>>
  BY <1>0, GoIs DEF Replace, Moved
<1>2. /\ \A t \in Types : t \in ModulesOf[op[o].key] => registry'[t].key = op[o].key
      /\ \A t \in Types : t \notin ModulesOf[op[o].key] =>
           registry'[t] = None \/ registry'[t] = registry[t]
  BY WithoutOwnerIs DEF Replace
<1>3. \A t \in Types : /\ Halfway(op[o], t) <=> t \in ModulesOf[op[o].key]
                       /\ ~Halfway(op[o], t)'
  BY <1>1 DEF Halfway
<1>4. ASSUME NEW c \in Calls, call'[c].pc = "editing"
      PROVE  /\ call[c].pc = "editing" /\ call'[c].type = call[c].type
             /\ call'[c].version = call[c].version /\ call'[c].update = call[c].update
             /\ IF call[c].type \in ModulesOf[op[o].key] THEN call'[c].late
                                                         ELSE call'[c].late = call[c].late
  <2>1. PICK r : r = [call[c] EXCEPT !.late = TRUE]
    OBVIOUS
  <2>2. /\ r.late /\ r.pc = call[c].pc /\ r.type = call[c].type
        /\ r.version = call[c].version /\ r.update = call[c].update
    BY <2>1, MonitorTypes DEF CallType
  <2>3. call'[c] = IF call[c].pc = "editing" /\ call[c].type \in ModulesOf[op[o].key]
                   THEN r ELSE call[c]
    BY <2>1 DEF Replace
  <2>. QED
    BY <1>4, <2>2, <2>3
<1>5. ASSUME NEW t \in Types, monitors[t] # None
      PROVE  registry'[t] = None \/ monitors[t] = registry'[t].key[2] \/ t \in outdated
  BY <1>2, <1>3, <1>5 DEF MonitorsOf, Fit
<1>6. ASSUME NEW c \in Calls, call'[c].pc = "editing"
      PROVE  /\ call'[c].type \in Types /\ call'[c].version # None
             /\ call'[c].update => monitors[call'[c].type] # None
             /\ \/ call'[c].late
                \/ registry'[call'[c].type] = None
                \/ call'[c].version = registry'[call'[c].type].key[2]
                \/ call'[c].update /\ call'[c].type \in outdated
  BY <1>2, <1>3, <1>4, <1>6 DEF MonitorsOf, Fit
<1>. QED
  BY <1>1, <1>3, <1>5, <1>6 DEF MonitorsOf, Fit

\* Handlers: what they read fits, and what they write is told from it.
LEMMA ReadFits ==
  ASSUME TypeOK, NEW o \in Threads, MonitorsOf(op[o]),
         NEW c \in Calls, NEW t \in Monitored, ReadVersion(c, t)
  PROVE  MonitorsOf(op[o])'
<1>1. UNCHANGED <<monitors, outdated, registry, op>>
  BY DEF ReadVersion, serving
<1>2. /\ \A d \in Calls : d # c => call'[d] = call[d]
      /\ t \in Types /\ call'[c].pc = "editing" /\ call'[c].type = t /\ ~call'[c].late
      /\ call'[c].update = (monitors[t] # None) /\ call'[c].version # None
      /\ \/ call'[c].version = monitors[t]
         \/ registry[t] # None /\ call'[c].version = registry[t].key[2]
  BY ReadVersionIs, NoneIsNone
<1>3. ASSUME NEW u \in Types
      PROVE  Halfway(op[o], u)' <=> Halfway(op[o], u)
  BY <1>1 DEF Halfway
<1>4. \/ Halfway(op[o], t) /\ call'[c].update /\ t \in outdated
      \/ Halfway(op[o], t)
      \/ Fit(t, call'[c].version, call'[c].update /\ t \in outdated)
  BY <1>2 DEF MonitorsOf, Fit
<1>5. ASSUME NEW d \in Calls, call'[d].pc = "editing"
      PROVE  /\ call'[d].type \in Types /\ call'[d].version # None
             /\ call'[d].update => monitors[call'[d].type] # None
             /\ \/ call'[d].late \/ Halfway(op[o], call'[d].type)
                \/ Fit(call'[d].type, call'[d].version,
                       call'[d].update /\ call'[d].type \in outdated)
  <2>1. CASE d = c
    BY <1>2, <1>4, <2>1
  <2>2. CASE d # c
    BY <1>2, <1>5, <2>2 DEF MonitorsOf
  <2>. QED
    BY <2>1, <2>2
<1>. QED
  BY <1>1, <1>3, <1>5 DEF MonitorsOf, Fit, Halfway

LEMMA WriteFits ==
  ASSUME TypeOK, NEW o, Threads = {o}, MonitorsOf(op[o]), NEW c \in Calls, WriteMonitor(c)
  PROVE  MonitorsOf(op[o])'
<1>0. o \in Threads
  OBVIOUS
<1>1. PICK t : t = call[c].type
  OBVIOUS
<1>2. PICK v : v = call[c].version
  OBVIOUS
<1>3. /\ call[c].pc = "editing" /\ Step(c, NoCall) /\ UNCHANGED <<registry, op>>
      /\ t \in Types /\ v # None
      /\ call[c].update => monitors[t] # None
      /\ call[c].late \/ Halfway(op[o], t) \/ Fit(t, v, call[c].update /\ t \in outdated)
  BY <1>1, <1>2 DEF WriteMonitor, MonitorsOf, serving
<1>4. /\ call'[c].pc = "idle" /\ \A d \in Calls : d # c => call'[d] = call[d]
  BY <1>0, <1>3, NoCallIs, StepType
<1>5. Halfway(op[o], t) => Migrated(t)
  BY <1>0 DEF Halfway, Migrated
<1>6. ASSUME NEW u \in Types
      PROVE  Halfway(op[o], u)' <=> Halfway(op[o], u)
  BY <1>3 DEF Halfway
<1>7. CASE ~call[c].update /\ monitors[t] # None
  <2>1. UNCHANGED <<monitors, outdated>>
    BY <1>1, <1>7 DEF WriteMonitor
  <2>2. ASSUME NEW d \in Calls, call'[d].pc = "editing" PROVE call'[d] = call[d]
    BY <1>4, <2>2
  <2>. QED
    BY <1>3, <1>6, <2>1, <2>2 DEF MonitorsOf, Fit, Halfway
<1>8. CASE call[c].update \/ monitors[t] = None
  <2>1. /\ monitors' = [monitors EXCEPT ![t] = v]
        /\ \/ (call[c].late \/ Migrated(t)) /\ outdated' = outdated \cup {t}
           \/ ~(call[c].late \/ Migrated(t)) /\ call[c].update /\ outdated' = outdated
           \/ ~(call[c].late \/ Migrated(t)) /\ ~call[c].update /\ outdated' = outdated \ {t}
    BY <1>1, <1>2, <1>8 DEF WriteMonitor
  <2>2. monitors'[t] = v /\ \A u \in Types : u # t => monitors'[u] = monitors[u]
    BY <1>0, <1>3, <2>1, MonitorTypes
  <2>3. \A u \in Types : u # t => (u \in outdated' <=> u \in outdated)
    BY <2>1
  <2>4. t \in outdated' \/ Fit(t, v, FALSE)
    BY <1>3, <1>5, <2>1 DEF Fit
  <2>5. ASSUME NEW u \in Types, monitors'[u] # None
        PROVE  IF Halfway(op[o], u) THEN monitors'[u] = op[o].key[2] \/ u \in outdated'
               ELSE Fit(u, monitors'[u], u \in outdated')
    <3>1. CASE u = t
      BY <1>3, <1>5, <2>1, <2>2, <2>4, <3>1 DEF Fit
    <3>2. CASE u # t
      BY <2>2, <2>3, <2>5, <3>2 DEF MonitorsOf, Fit
    <3>. QED
      BY <3>1, <3>2
  <2>6. ASSUME NEW d \in Calls, call'[d].pc = "editing"
        PROVE  /\ call'[d].type \in Types /\ call'[d].version # None
               /\ call'[d].update => monitors'[call'[d].type] # None
               /\ \/ call'[d].late \/ Halfway(op[o], call'[d].type)
                  \/ Fit(call'[d].type, call'[d].version,
                         call'[d].update /\ call'[d].type \in outdated')
    <3>1. /\ call'[d] = call[d] /\ call[d].type \in Types /\ call[d].version # None
          /\ call[d].update => monitors[call[d].type] # None
          /\ \/ call[d].late \/ Halfway(op[o], call[d].type)
             \/ Fit(call[d].type, call[d].version, call[d].update /\ call[d].type \in outdated)
      BY <1>4, <2>6 DEF MonitorsOf
    <3>2. call[d].update => monitors'[call[d].type] # None
      BY <1>3, <2>2, <3>1
    <3>3. call[d].update /\ call[d].type \in outdated => call[d].type \in outdated'
      BY <1>8, <2>1, <2>3, <3>1
    <3>. QED
      BY <3>1, <3>2, <3>3 DEF Fit
  <2>. QED
    BY <1>3, <1>6, <2>5, <2>6 DEF MonitorsOf, Fit, Halfway
<1>. QED
  BY <1>0, <1>3, <1>7, <1>8, MonitorTypes

LEMMA DeleteFits ==
  ASSUME TypeOK, NEW o \in Threads, MonitorsOf(op[o]), NEW t \in Monitored, DeleteMonitor(t)
  PROVE  MonitorsOf(op[o])'
<1>1. /\ t \in Types /\ UNCHANGED <<registry, op>> /\ outdated' = outdated \ {t}
      /\ monitors' = [monitors EXCEPT ![t] = None]
      /\ \A d \in Calls : call'[d] = IF call[d].pc = "editing" /\ call[d].type = t /\ call[d].update
                                     THEN NoCall ELSE call[d]
  BY PluginAssumption DEF DeleteMonitor, serving
<1>2. monitors'[t] = None /\ \A u \in Types : u # t => monitors'[u] = monitors[u]
  BY <1>1, MonitorTypes
<1>3. ASSUME NEW u \in Types
      PROVE  Halfway(op[o], u)' <=> Halfway(op[o], u)
  BY <1>1 DEF Halfway
<1>4. ASSUME NEW u \in Types, monitors'[u] # None
      PROVE  IF Halfway(op[o], u) THEN monitors'[u] = op[o].key[2] \/ u \in outdated'
             ELSE Fit(u, monitors'[u], u \in outdated')
  BY <1>1, <1>2, <1>4 DEF MonitorsOf, Fit
<1>5. ASSUME NEW d \in Calls, call'[d].pc = "editing"
      PROVE  /\ call'[d].type \in Types /\ call'[d].version # None
             /\ call'[d].update => monitors'[call'[d].type] # None
             /\ \/ call'[d].late \/ Halfway(op[o], call'[d].type)
                \/ Fit(call'[d].type, call'[d].version,
                       call'[d].update /\ call'[d].type \in outdated')
  <2>1. call'[d] = call[d] /\ ~(call[d].type = t /\ call[d].update)
    BY <1>1, <1>5, NoCallIs
  <2>. QED
    BY <1>1, <1>2, <1>5, <2>1 DEF MonitorsOf, Fit
<1>. QED
  BY <1>1, <1>3, <1>4, <1>5 DEF MonitorsOf, Fit, Halfway

\* Nothing that MonitorsOf speaks of changes, except for calls that end or pass
\* a gate.
LEMMA MonitorsStay ==
  ASSUME TypeOK, NEW o \in Threads, MonitorsOf(op[o]),
         UNCHANGED <<op, monitors, outdated, registry>>,
         \A c \in Calls : call'[c] = call[c] \/ call'[c].pc # "editing"
  PROVE  MonitorsOf(op[o])'
<1>1. \A t \in Types : Halfway(op[o], t)' <=> Halfway(op[o], t)
  BY DEF Halfway
<1>2. ASSUME NEW c \in Calls, call'[c].pc = "editing" PROVE call'[c] = call[c]
  BY <1>2
<1>. QED
  BY <1>1, <1>2 DEF MonitorsOf, Fit, Halfway

\* The operation moves between steps at which nothing is half done.
Whole(o) ==
  /\ UNCHANGED <<monitors, outdated, call>>
  /\ \A t \in Types : registry'[t] = None \/ registry'[t] = registry[t]
  /\ op[o].pc # "migrated" /\ op'[o].pc # "migrated"

LEMMA WholeFits ==
  ASSUME TypeOK, NEW o \in Threads, MonitorsOf(op[o]), Whole(o)
  PROVE  MonitorsOf(op[o])'
<1>1. \A c \in Calls : call'[c] = call[c]
  BY DEF Whole
<1>. QED
  BY <1>1, MonitorsQuiet DEF Whole

LEMMA OverIsWhole ==
  ASSUME TypeOK, NEW o \in Threads, Failed(o) \/ Done(o)
  PROVE  op'[o].pc # "migrated"
BY FailedIs, DoneIs, NoOpIs

LEMMA WholeOfNew ==
  ASSUME TypeOK, NEW o \in Threads,
         \/ \E k \in Keys : \/ \E s \in SignersOf[k] : Inspect(o, k, s) \/ InspectOfficial(o, k, s)
                            \/ Disable(o, k) \/ Uninstall(o, k) \/ NextKey(o, k)
         \/ UpdateLogConfig(o) \/ \E p \in Plugins : Supervise(o, p)
         \/ RecordFails(o) \/ Seeded(o) \/ ClearDevelopment(o) \/ SyncDevelopment(o)
  PROVE  Whole(o)
<1>. USE DEF Whole, users, serving
<1>1. ASSUME NEW k \in Keys, NEW s \in SignersOf[k], Inspect(o, k, s) \/ InspectOfficial(o, k, s)
      PROVE  Whole(o)
  BY <1>1, InspectIs, InspectOfficialIs DEF Inspect, InspectOfficial, Free
<1>2. ASSUME NEW k \in Keys, Disable(o, k) \/ Uninstall(o, k) PROVE Whole(o)
  <2>1. \E then \in Thens : Stopping(o, k, then)
    BY <1>2 DEF Disable, Uninstall, Thens
  <2>. QED
    BY <1>2, <2>1, StoppingIs DEF Disable, Uninstall, Free
<1>3. ASSUME NEW k \in Keys, NextKey(o, k) PROVE Whole(o)
  BY <1>3, NextKeyIs DEF NextKey
<1>4. CASE UpdateLogConfig(o)
  BY <1>4, UpdateLogConfigIs DEF UpdateLogConfig, Free
<1>5. ASSUME NEW p \in Plugins, Supervise(o, p) PROVE Whole(o)
  BY <1>5, SuperviseIs, WithoutOwnerIs DEF Supervise, Free
<1>6. CASE RecordFails(o)
  BY <1>6, RecordFailsIs DEF RecordFails
<1>7. CASE Seeded(o)
  BY <1>7, SeededIs, NoOpIs DEF Seeded
<1>8. CASE ClearDevelopment(o)
  BY <1>8, ClearDevelopmentIs DEF ClearDevelopment
<1>9. CASE SyncDevelopment(o)
  <2>1. op[o].pc \in {"clearing", "next"} /\ UNCHANGED <<users, serving>>
    BY <1>9 DEF SyncDevelopment
  <2>2. op'[o].pc \in {"recording", "next"}
    BY <1>9, SyncDevelopmentIs DEF BuildStarts, BuildSets
  <2>. QED
    BY <2>1, <2>2
<1>. QED
  BY <1>1, <1>2, <1>3, <1>4, <1>5, <1>6, <1>7, <1>8, <1>9

LEMMA WholeOfServing ==
  ASSUME TypeOK, NEW o \in Threads, ServingOf(op[o]),
         \/ \E k \in Keys, confirm \in BOOLEAN : Enable(o, k, confirm)
         \/ Enter(o) \/ Probed(o) \/ Drained(o) \/ SetProcess(o) \/ Retire(o)
         \/ RemoveOwner(o) \/ Take(o) \/ Stop(o) \/ Stopped(o) \/ StoppedFails(o)
         \/ Install(o) \/ InstallFails(o) \/ ProbeFails(o) \/ FallBack(o)
         \/ DisableOtherPluginVersions(o) \/ DisableOthersFails(o) \/ RecordHealthy(o)
         \/ BootFails(o)
  PROVE  Whole(o)
<1>. USE DEF Whole, users, serving
<1>0. {"entering", "disabled", "migrating", "taking"} \subseteq Steps
  BY DEF Steps
<1>1. ASSUME NEW k \in Keys, NEW confirm \in BOOLEAN, Enable(o, k, confirm) PROVE Whole(o)
  BY <1>1, LaunchIs DEF Enable, Free, Launch
<1>2. CASE Enter(o)
  BY <1>2, LaunchIs, OverIsWhole, ServingTypes DEF Enter, Launch
<1>3. CASE Probed(o) \/ SetProcess(o) \/ Retire(o) \/ Take(o) \/ Stop(o)
  BY <1>3, ProbedIs, SetProcessIs, RetireIs, TakeIs DEF Probed, SetProcess, Retire, Take, Stop
<1>4. CASE Drained(o) \/ RemoveOwner(o)
  BY <1>0, <1>4, GoIs, WithoutOwnerIs DEF Drained, RemoveOwner
<1>5. CASE Stopped(o)
  <2>1. /\ op[o].pc = "stopped" /\ UNCHANGED <<users, serving>>
        /\ Go(o, "entering") \/ Failed(o) \/ Done(o)
    BY <1>5, ServingTypes DEF Stopped, OpRecord
  <2>. QED
    BY <1>0, <2>1, GoIs, OverIsWhole
<1>6. CASE Install(o) \/ DisableOtherPluginVersions(o)
  <2>1. (\E pc \in {"entering", "disabled"} : Go(o, pc)) \/ Done(o)
    BY <1>6 DEF Install, DisableOtherPluginVersions
  <2>2. op[o].pc \in {"installing", "recording"} /\ UNCHANGED <<users, serving>>
    BY <1>6 DEF Install, DisableOtherPluginVersions
  <2>. QED
    BY <1>0, <2>1, <2>2, GoIs, OverIsWhole
<1>7. CASE InstallFails(o) \/ DisableOthersFails(o) \/ StoppedFails(o) \/ BootFails(o)
           \/ RecordHealthy(o)
  <2>1. /\ op[o].pc \in {"installing", "recording", "stopped", "clearing", "next", "disabled"}
        /\ UNCHANGED <<users, serving>>
        /\ Failed(o) \/ Done(o)
    BY <1>7 DEF InstallFails, DisableOthersFails, StoppedFails, BootFails, RecordHealthy
  <2>. QED
    BY <2>1, OverIsWhole
<1>8. CASE ProbeFails(o) \/ FallBack(o)
  <2>1. op[o].pc \in {"probing", "migrating"}
    BY <1>8 DEF ProbeFails, FallBack, ServingOf, HoldingFits
  <2>2. MarkFailure(o) /\ UNCHANGED <<processes, registry>>
    BY <1>8 DEF ProbeFails, FallBack
  <2>. QED
    BY <2>1, <2>2, OverIsWhole DEF MarkFailure
<1>. QED
  BY <1>1, <1>2, <1>3, <1>4, <1>5, <1>6, <1>7, <1>8

LEMMA MonitorsStep ==
  ASSUME PluginsIInv, NEW o, Threads = {o}, Next
  PROVE  MonitorsOf(op[o])'
<1>0. TypeOK /\ o \in Threads /\ ServingOf(op[o]) /\ MonitorsOf(op[o])
  BY DEF PluginsIInv
<1>1. ASSUME NEW k \in Keys,
             \/ \E s \in SignersOf[k] : Inspect(o, k, s)
             \/ Disable(o, k) \/ Uninstall(o, k)
      PROVE  MonitorsOf(op[o])'
  BY <1>0, <1>1, WholeOfNew, WholeFits
<1>2. CASE (\E k \in Keys : TrustPublisher(k)) \/ \E i \in Instances : Exit(i)
  <2>1. UNCHANGED <<op, monitors, outdated, registry, call>>
    BY <1>2 DEF TrustPublisher, Exit, users, serving
  <2>. QED
    BY <1>0, <2>1, MonitorsStay
<1>3. ASSUME NEW k \in Keys, NEW confirm \in BOOLEAN, Enable(o, k, confirm)
      PROVE  MonitorsOf(op[o])'
  BY <1>0, <1>3, WholeOfServing, WholeFits
<1>4. CASE UpdateLogConfig(o) \/ \E p \in Plugins : Supervise(o, p)
  BY <1>0, <1>4, WholeOfNew, WholeFits
<1>5. CASE Restart(o)
  <2>1. /\ UNCHANGED <<monitors, outdated>> /\ op'[o].pc = "clearing"
        /\ \A t \in Types : registry'[t] = None
        /\ \A c \in Calls : call'[c].pc # "editing"
    BY <1>0, <1>5, RestartIs, NoCallIs DEF Restart
  <2>. QED
    BY <2>1 DEF MonitorsOf, Halfway, Fit
<1>6. CASE Progress(o)
  <2>1. CASE \/ \E k \in Keys : NextKey(o, k) \/ \E s \in SignersOf[k] : InspectOfficial(o, k, s)
             \/ RecordFails(o) \/ Seeded(o) \/ ClearDevelopment(o) \/ SyncDevelopment(o)
    BY <1>0, <2>1, WholeOfNew, WholeFits
  <2>2. CASE \/ Enter(o) \/ Probed(o) \/ Drained(o) \/ SetProcess(o) \/ Retire(o)
             \/ RemoveOwner(o) \/ Take(o) \/ Stop(o) \/ Stopped(o) \/ StoppedFails(o)
             \/ Install(o) \/ InstallFails(o) \/ ProbeFails(o) \/ FallBack(o)
             \/ DisableOtherPluginVersions(o) \/ DisableOthersFails(o) \/ RecordHealthy(o)
             \/ BootFails(o)
    BY <1>0, <2>2, WholeOfServing, WholeFits
  <2>3. CASE Migrate(o) \/ Replace(o)
    BY <1>0, <2>3, MigrateFits, ReplaceFits
  <2>4. CASE DeleteStale(o)
    <3>1. UNCHANGED <<op, monitors, outdated, registry, call>>
      BY <2>4 DEF DeleteStale, users, serving
    <3>. QED
      BY <1>0, <3>1, MonitorsStay
  <2>. QED
    BY <1>6, <2>1, <2>2, <2>3, <2>4 DEF Progress
<1>7. ASSUME NEW c \in Calls, Execution(c) PROVE MonitorsOf(op[o])'
  <2>1. UNCHANGED <<op, monitors, outdated, registry>>
    BY <1>7 DEF Execution, Join, Answer, serving
  <2>2. CASE Answer(c)
    <3>1. /\ call'[c].pc = "idle" /\ \A d \in Calls : d # c => call'[d] = call[d]
      BY <1>0, <2>2, NoCallIs, StepType DEF Answer
    <3>. QED
      BY <1>0, <2>1, <3>1, MonitorsStay
  <2>3. CASE Join(c)
    <3>1. /\ call'[c].pc = "running" /\ \A d \in Calls : d # c => call'[d] = call[d]
      BY <1>0, <2>3, JoinIs, HoldersKnown DEF Join
    <3>. QED
      BY <1>0, <2>1, <3>1, MonitorsStay
  <2>. QED
    BY <1>7, <2>2, <2>3 DEF Execution
<1>8. ASSUME NEW c \in Calls, WriteMonitor(c) PROVE MonitorsOf(op[o])'
  BY <1>0, <1>8, WriteFits
<1>9. ASSUME NEW c \in Calls, NEW t \in Monitored, PassGate(c, t) \/ ReadVersion(c, t)
      PROVE  MonitorsOf(op[o])'
  <2>1. CASE PassGate(c, t)
    <3>1. /\ UNCHANGED <<op, monitors, outdated, registry>>
          /\ call'[c].pc = "passed" /\ \A d \in Calls : d # c => call'[d] = call[d]
      BY <1>0, <2>1, PassGateIs DEF PassGate, serving
    <3>. QED
      BY <1>0, <3>1, MonitorsStay
  <2>. QED
    BY <1>0, <1>9, <2>1, ReadFits
<1>10. ASSUME NEW t \in Monitored, DeleteMonitor(t) PROVE MonitorsOf(op[o])'
  BY <1>0, <1>10, DeleteFits
<1>. QED
  BY <1>0, <1>1, <1>2, <1>3, <1>4, <1>5, <1>6, <1>7, <1>8, <1>9, <1>10 DEF Next


-----------------------------------------------------------------------------
(* The theorems *)

LEMMA PluginsStart ==
  ASSUME OneAtATime, Init
  PROVE  PluginsIInv
<1>1. PICK o : Threads = {o}
  BY DEF OneAtATime
<1>2. /\ Boot \in OpRecord /\ Boot.kind = "seed" /\ Boot.pc = "clearing" /\ Boot.then = "fail"
      /\ Boot.cand = None /\ Boot.prev = None /\ Boot.row = NoRow
  BY NoOpIs DEF Boot, OpRecord
<1>3. op \in [Threads -> OpRecord] /\ op[o] = Boot
  BY <1>1, <1>2, NoOpIs DEF Init
<1>4. TypeOK
  <2>1. NoCall \in CallType /\ Dead.state = "dead" /\ Dead.accepting = FALSE
    BY DEF NoCall, CallType, Dead
  <2>2. /\ rows \in RowsType /\ signers \subseteq Signers /\ confirmed \subseteq Keys
        /\ monitors \in [Types -> Versions \cup {None}] /\ outdated \subseteq Types
        /\ processes \in ProcessesType /\ registry \in RegistryType
        /\ restarts \in 0..MaxRestarts
    BY NoOpIs, PluginAssumption DEF Init, RowsType, ProcessesType, RegistryType
  <2>3. proc \in ProcType /\ call \in [Calls -> CallType]
    BY <2>1 DEF Init, ProcType, Dead
  <2>. QED
    BY <1>3, <2>2, <2>3, TypeParts
<1>5. CallsFit
  BY NoCallIs DEF Init, CallsFit
<1>6. ServingOf(op[o])
  BY <1>2, <1>3, NoneIsNone DEF Init, Dead, ServingOf, ProcessesFit, RegistryFits, HoldingFits,
     Starting, Waiting, Alive, Activated
<1>7. RowsOf(op[o])
  BY <1>2, <1>3, NoOpIs DEF Init, RowsOf, Both, Developed
<1>8. VouchedOf(op[o])
  BY <1>2, <1>3, NoOpIs DEF Init, VouchedOf, Starting, Waiting, Ending
<1>9. MonitorsOf(op[o])
  BY NoCallIs DEF Init, MonitorsOf
<1>. QED
  BY <1>1, <1>4, <1>5, <1>6, <1>7, <1>8, <1>9 DEF PluginsIInv

LEMMA PluginsKept ==
  ASSUME OneAtATime, PluginsIInv, [Next]_vars
  PROVE  PluginsIInv'
<1>1. PICK o : Threads = {o}
  BY DEF OneAtATime
<1>2. TypeOK'
  BY <1>1, TypeStep
<1>3. CASE Next
  <2>1. CallsFit' /\ ServingOf(op[o])' /\ RowsOf(op[o])' /\ VouchedOf(op[o])' /\ MonitorsOf(op[o])'
    BY <1>1, <1>3, CallsStep, ServingStep, RowsStep, VouchedStep, MonitorsStep
  <2>. QED
    BY <1>1, <1>2, <2>1 DEF PluginsIInv
<1>4. CASE UNCHANGED vars
  <2>1. /\ UNCHANGED <<serving, op, call>> /\ UNCHANGED <<rows, processes, confirmed>>
        /\ UNCHANGED <<monitors, outdated, registry, proc>>
    BY <1>4 DEF vars, serving
  <2>2. TypeOK /\ o \in Threads /\ CallsFit /\ ServingOf(op[o]) /\ RowsOf(op[o])
        /\ VouchedOf(op[o]) /\ MonitorsOf(op[o])
    BY <1>1 DEF PluginsIInv
  <2>3. ServingOf(op[o])'
    BY <2>1, <2>2, ServingStays DEF ServingOf, HoldingFits
  <2>4. RowsOf(op[o])'
    BY <2>1, <2>2, RowsStay
  <2>5. VouchedOf(op[o])'
    BY <2>1, <2>2, VouchersStay, VouchedStays
  <2>6. MonitorsOf(op[o])'
    BY <2>1, <2>2, MonitorsStay
  <2>7. CallsFit'
    BY <2>1, <2>2 DEF CallsFit, Alive
  <2>. QED
    BY <1>1, <1>2, <2>3, <2>4, <2>5, <2>6, <2>7 DEF PluginsIInv
<1>. QED
  BY <1>3, <1>4

\* Whatever the packages, the signers, the calls, the restarts and the faults:
\* the manager's processes, the registry, the rows and the monitors are at
\* every step of an operation what its code so far has made of them
\* (internal/plugin/manager.go, Enable, stopActive, Start and their callers).
THEOREM PluginsInvariance ==
  ASSUME OneAtATime
  PROVE  Spec => []PluginsIInv
<1>1. Init => PluginsIInv
  BY PluginsStart
<1>2. PluginsIInv /\ [Next]_vars => PluginsIInv'
  BY PluginsKept
<1>. QED
  BY <1>1, <1>2, PTL DEF Spec


\* What the invariant says of states between and within operations.
LEMMA ServedLives ==
  ASSUME PluginsIInv, OneAtATime
  PROVE  ServedIsAlive
<1>1. PICK o : Threads = {o}
  BY DEF OneAtATime
<1>2. TypeOK /\ o \in Threads /\ ProcessesFit(op[o]) /\ RegistryFits(op[o]) /\ HoldingFits(op[o])
  BY <1>1 DEF PluginsIInv, ServingOf
<1>3. ASSUME NEW t \in Types, registry[t] # None
      PROVE  Alive(registry[t].inst) /\ t \in ModulesOf[registry[t].key]
  <2>1. t \in ModulesOf[registry[t].key] /\ registry[t].key[1] \in Plugins
    BY <1>2, <1>3, ServingTypes DEF RegistryFits
  <2>2. CASE registry[t] = processes[registry[t].key[1]]
    BY <1>2, <1>3, <2>1, <2>2 DEF ProcessesFit
  <2>3. CASE op[o].pc = "replaced" /\ registry[t] = Candidate(op[o])
    BY <1>2, <2>1, <2>3 DEF HoldingFits, Candidate, Starting, Waiting
  <2>. QED
    BY <1>2, <1>3, <2>1, <2>2, <2>3 DEF RegistryFits
<1>. QED
  BY <1>3 DEF ServedIsAlive, Alive

LEMMA QuietServes ==
  ASSUME PluginsIInv, OneAtATime
  PROVE  RunningServes
<1>1. PICK o : Threads = {o}
  BY DEF OneAtATime
<1>2. TypeOK /\ o \in Threads /\ ProcessesFit(op[o]) /\ RegistryFits(op[o]) /\ HoldingFits(op[o])
  BY <1>1 DEF PluginsIInv, ServingOf
<1>3. SUFFICES ASSUME Quiet, NEW i \in Instances, proc[i].state = "running"
               PROVE  /\ proc[i].accepting
                      /\ \E p \in Active :
                           /\ processes[p].inst = i
                           /\ \A t \in Types :
                                t \in ModulesOf[processes[p].key] <=> registry[t] = processes[p]
  BY DEF RunningServes
<1>4. op[o].pc = "idle" /\ op[o].cand = None /\ op[o].prev = None
  BY <1>2, <1>3 DEF Quiet, HoldingFits, Starting, Waiting
<1>5. PICK p \in Plugins : processes[p] # None /\ processes[p].inst = i
  BY <1>2, <1>3, <1>4, NoneIsNone DEF ProcessesFit, Activated
<1>6. proc[i].accepting
  BY <1>2, <1>4, <1>5 DEF ProcessesFit, Waiting
<1>7. ASSUME NEW t \in Types
      PROVE  t \in ModulesOf[processes[p].key] <=> registry[t] = processes[p]
  BY <1>2, <1>3, <1>4, <1>5, <1>7 DEF RegistryFits
<1>. QED
  BY <1>5, <1>6, <1>7 DEF Active

LEMMA OneEnabled ==
  ASSUME PluginsIInv, OneAtATime
  PROVE  OneVersionEnabled
BY DEF OneAtATime, PluginsIInv, OneVersionEnabled, RowsOf, Both

LEMMA StartedConfirmed ==
  ASSUME PluginsIInv, OneAtATime
  PROVE  StartedWasConfirmed
<1>1. ASSUME NEW o \in Threads, op[o].pc = "probing"
      PROVE  Verified(op[o].row) \/ op[o].key \in confirmed
  BY <1>1 DEF PluginsIInv, RowsOf, VouchedOf, Starting
<1>. QED
  BY <1>1 DEF StartedWasConfirmed

\* Registry, processes and rows agree at every step of Enable, stopActive, Start
\* and the supervisor: what is served is alive, what runs between operations
\* serves all its types through an open gate, one version of a plugin is
\* enabled, and nothing starts by itself that was not verified or confirmed.
THEOREM PluginsAgree ==
  ASSUME OneAtATime
  PROVE  Spec => []PluginsInv
<1>1. PluginsIInv => PluginsInv
  <2>1. ASSUME PluginsIInv PROVE TypeOK
    BY <2>1 DEF PluginsIInv
  <2>. QED
    BY <2>1, ServedLives, QuietServes, OneEnabled, StartedConfirmed DEF PluginsInv
<1>. QED
  BY <1>1, PluginsInvariance, PTL

\* Between operations every monitor of a served type has the version that
\* serves it: MigrateMonitorConfigs and ReplaceOwnerAs are never left half done
\* by a failure, a restart or an end of the operation in between.
THEOREM MonitorsAreServed ==
  ASSUME OneAtATime
  PROVE  Spec => []MonitorsFit
<1>1. PluginsIInv => MonitorsFit
  BY DEF OneAtATime, PluginsIInv, MonitorsOf, MonitorsFit, Quiet, Halfway, Fit
<1>. QED
  BY <1>1, PluginsInvariance, PTL

\* No process is killed under a call that was inside its gate when the gate
\* closed (gate.Wait before Kill in Enable and stopActive).
THEOREM CallsAreNotCutOff ==
  ASSUME OneAtATime
  PROVE  Spec => []NoCallIsCutOff
<1>1. PluginsIInv => NoCallIsCutOff
  BY DEF PluginsIInv, CallsFit, NoCallIsCutOff, Alive
<1>. QED
  BY <1>1, PluginsInvariance, PTL

\* While gate.Wait runs, nobody passes the gate that it waits for.
THEOREM WaitEnds ==
  ASSUME OneAtATime
  PROVE  Spec => WaitIsNotStarved
<1> DEFINE Kept == \A o \in Threads, c \in Calls :
                     /\ op[o].pc \in {"draining", "retiring", "stopping"}
                     /\ call[c].pc = "idle" /\ call'[c].pc = "passed"
                     => call'[c].inst # op[o].prev
<1>1. ASSUME PluginsIInv, [Next]_vars PROVE Kept
  <2>1. PICK o : Threads = {o}
    BY DEF OneAtATime
  <2>2. /\ TypeOK /\ o \in Threads /\ HoldingFits(op[o])
        /\ \A c \in Calls : call[c].pc = "passed" => call[c].inst # None
    BY <1>1, <2>1, HoldersKnown DEF PluginsIInv, ServingOf
  <2>3. ASSUME NEW c \in Calls, call[c].pc = "idle", call'[c].pc = "passed"
        PROVE  \E t \in Monitored : PassGate(c, t)
    <3>1. call'[c] # call[c]
      BY <2>3
    <3>2. \A d \in Calls : call[d].pc # "idle" => d # c
      BY <2>3
    <3>3. CASE UNCHANGED vars
      BY <3>1, <3>3 DEF vars
    <3>4. CASE \/ \E k \in Keys : TrustPublisher(k)
               \/ \E k \in Keys : \/ \E s \in SignersOf[k] : Inspect(o, k, s)
                                  \/ Disable(o, k) \/ Uninstall(o, k)
                                  \/ \E confirm \in BOOLEAN : Enable(o, k, confirm)
               \/ UpdateLogConfig(o) \/ (\E p \in Plugins : Supervise(o, p))
               \/ \E i \in Instances : Exit(i)
      BY <3>1, <3>4 DEF TrustPublisher, Inspect, Disable, Uninstall, Enable, UpdateLogConfig,
                        Supervise, Exit, users
    <3>5. CASE Restart(o)
      BY <2>3, <3>5, NoCallIs DEF Restart
    <3>6. CASE Progress(o)
      <4>1. CASE Replace(o)
        <5>1. call'[c] = call[c]
          BY <2>3, <4>1 DEF Replace
        <5>. QED
          BY <3>1, <5>1
      <4>2. CASE UNCHANGED call
        BY <3>1, <4>2
      <4>3. CASE ~Replace(o)
        <5>1. CASE \/ Enter(o) \/ Probed(o) \/ Drained(o) \/ SetProcess(o) \/ Retire(o)
                   \/ RemoveOwner(o) \/ Take(o) \/ Stop(o) \/ Stopped(o) \/ StoppedFails(o)
                   \/ Install(o) \/ InstallFails(o) \/ ProbeFails(o) \/ FallBack(o)
                   \/ DisableOtherPluginVersions(o) \/ DisableOthersFails(o) \/ RecordHealthy(o)
                   \/ BootFails(o)
          BY <1>1, <2>1, <2>2, <4>2, <5>1, WholeOfServing DEF Whole, PluginsIInv
        <5>2. CASE \/ \E k \in Keys : NextKey(o, k) \/ \E s \in SignersOf[k] : InspectOfficial(o, k, s)
                   \/ RecordFails(o) \/ Seeded(o) \/ ClearDevelopment(o) \/ SyncDevelopment(o)
          BY <2>2, <4>2, <5>2, WholeOfNew DEF Whole
        <5>3. CASE Migrate(o) \/ DeleteStale(o)
          BY <4>2, <5>3 DEF Migrate, DeleteStale, users
        <5>. QED
          BY <3>6, <4>3, <5>1, <5>2, <5>3 DEF Progress
      <4>. QED
        BY <4>1, <4>3
    <3>7. ASSUME NEW d \in Calls, Execution(d) \/ WriteMonitor(d) PROVE FALSE
      <4>1. CASE Answer(d) \/ WriteMonitor(d)
        <5>1. call'[d].pc = "idle" /\ \A e \in Calls : e # d => call'[e] = call[e]
          BY <2>2, <4>1, NoCallIs, StepType DEF Answer, WriteMonitor
        <5>. QED
          BY <2>3, <3>1, <5>1
      <4>2. CASE Join(d)
        <5>1. call'[d].pc = "running" /\ \A e \in Calls : e # d => call'[e] = call[e]
          BY <2>2, <4>2, JoinIs DEF Join
        <5>. QED
          BY <2>3, <3>1, <5>1
      <4>. QED
        BY <3>7, <4>1, <4>2 DEF Execution
    <3>8. ASSUME NEW d \in Calls, NEW t \in Monitored, ReadVersion(d, t) PROVE FALSE
      BY <2>2, <2>3, <3>1, <3>8, ReadVersionIs
    <3>9. ASSUME NEW d \in Calls, NEW t \in Monitored, PassGate(d, t) PROVE d = c
      BY <2>2, <3>1, <3>9, PassGateIs
    <3>10. ASSUME NEW t \in Monitored, DeleteMonitor(t) PROVE FALSE
      BY <2>3, <3>1, <3>10, NoCallIs DEF DeleteMonitor
    <3>. QED
      BY <1>1, <2>1, <2>2, <3>3, <3>4, <3>5, <3>6, <3>7, <3>8, <3>9, <3>10 DEF Next
  <2>4. ASSUME NEW c \in Calls, NEW t \in Monitored, PassGate(c, t),
               op[o].pc \in {"draining", "retiring", "stopping"}
        PROVE  call'[c].inst # op[o].prev
    <3>1. call'[c].inst = registry[t].inst /\ proc[registry[t].inst].accepting
          /\ registry[t].inst \in Instances
      BY <2>2, <2>4, PassGateIs DEF PassGate, Entry
    <3>2. op[o].prev # None => ~proc[op[o].prev].accepting
      BY <2>2 DEF HoldingFits
    <3>. QED
      BY <3>1, <3>2, NoneIsNone
  <2>. QED
    BY <2>1, <2>3, <2>4
<1>2. PluginsIInv /\ [Next]_vars => [Kept]_vars
  BY <1>1
<1>. QED
  BY <1>2, PluginsInvariance, PTL DEF Spec, WaitIsNotStarved
=============================================================================
