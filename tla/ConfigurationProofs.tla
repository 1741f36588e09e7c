------------------------- MODULE ConfigurationProofs -------------------------
(***************************************************************************)
(* The two halves of an installation's configuration. What RuntimeConfig   *)
(* promises holds for any domains, paths and values, any bodies and        *)
(* bundles, and any number of requests and subscribers; what ConfigTransfer *)
(* promises, for any tables to begin with, any bundles from elsewhere and  *)
(* any number of imports beside the handlers that edit the tables.         *)
(***************************************************************************)
EXTENDS RuntimeConfig, ConfigTransfer, TLAPS, FiniteSetTheorems

Holding == {"applying", "storing", "writing", "stored", "undoing"}

\* Data that differ in one path at most.
OnePath(new, old) ==
  \E p \in Paths : \A e \in Paths \ {p} : new[e] = old[e]

\* The locks, and who holds them.
LocksHeld ==
  \A q \in Requests :
    /\ mu = q <=> request[q].pc \in Holding
    /\ storeMu = q <=> request[q].pc \in {"writing", "rotating"}

\* The domains a request replaces.
Replaces(r, d) == r.op = "import" \/ d = r.domain

\* An edit knows a version of its domain and what was in it.
Informed(r) ==
  /\ r.version <= versions[r.domain]
  /\ r.version = versions[r.domain] =>
       /\ r.base = config[r.domain]
       /\ r.op = "path" => OnePath(r.body, r.base)

\* Under the lock the version still matches, and the candidate differs from the
\* configuration in what the edit is about.
Edits(r) ==
  /\ r.version = versions[r.domain]
  /\ \A e \in Domains \ {r.domain} : r.candidate[e] = config[e]
  /\ r.op = "path" => OnePath(r.candidate[r.domain], r.base)

\* What a request knows at each step, of the manager and of the table.
Knows(r) ==
  /\ r.pc \in {"viewed", "ready"} \cup Holding =>
       r.op \in {"none", "path", "update", "reset", "import"}
  /\ r.pc = "viewed" => r.op # "import"
  /\ r.pc \in {"viewed", "ready"} \cup Holding /\ r.op # "import" => Informed(r)
  /\ r.pc \in Holding /\ r.op # "import" => Edits(r)
  /\ r.pc = "writing" => r.held = key
  /\ r.pc = "rotating" => r.base = rows[Auth].data
  /\ r.pc = "stored" =>
       \A d \in Domains : Replaces(r, d) =>
         /\ r.got[d] = rows[d].version /\ versions[d] < rows[d].version
         /\ r.candidate[d] = rows[d].data

\* What runs, while a request holds the manager.
AppliedSoFar(r) ==
  /\ r.pc = "applying" => applied = config
  /\ r.pc \in {"storing", "writing", "stored", "undoing"} => applied = r.candidate

RequestsKnow == \A q \in Requests : Knows(request[q])
RequestsApplied == ~failed => \A q \in Requests : AppliedSoFar(request[q])

\* VersionNamesData, at every step.
VersionsName ==
  \A d \in Domains :
    /\ versions[d] <= rows[d].version
    /\ versions[d] = rows[d].version => rows[d].data = config[d]

ConfigIInv ==
  /\ TypeOK /\ LocksHeld /\ RequestsKnow /\ RequestsApplied
  /\ VersionsName /\ AppliedIsConfig /\ NoticeWaits /\ KeyIsKept

-----------------------------------------------------------------------------
(* Types *)

LEMMA NoRequestType == NoRequest \in RequestRecord
<1>1. Default \in Data /\ Auth \in Domains
  BY ConfigAssumption
<1>2. Default \in Body
  BY <1>1 DEF Body, Data
<1>3. [d \in Domains |-> Default] \in Config /\ [d \in Domains |-> 0] \in [Domains -> Nat]
  BY <1>1 DEF Config
<1>. QED
  BY <1>1, <1>2, <1>3 DEF NoRequest, RequestRecord

\* A request becomes r and the others stay.
LEMMA BecomeStep ==
  ASSUME TypeOK, NEW q \in Requests, NEW r \in RequestRecord, Become(q, r)
  PROVE  /\ request' \in [Requests -> RequestRecord]
         /\ request'[q] = r
         /\ \A a \in Requests : a # q => request'[a] = request[a]
BY DEF TypeOK, Become

\* A request that only goes on.
LEMMA GoStep ==
  ASSUME TypeOK, NEW q \in Requests,
         NEW pc \in {"idle", "viewed", "ready", "applying", "storing", "writing",
                     "stored", "undoing", "rotating"},
         Go(q, pc)
  PROVE  LET r == request'[q] IN
         /\ r \in RequestRecord /\ Become(q, r)
         /\ r.pc = pc /\ r.op = request[q].op /\ r.domain = request[q].domain
         /\ r.base = request[q].base /\ r.body = request[q].body
         /\ r.version = request[q].version /\ r.candidate = request[q].candidate
         /\ r.held = request[q].held /\ r.got = request[q].got
<1>1. request[q] \in RequestRecord /\ request \in [Requests -> RequestRecord]
  BY DEF TypeOK
<1>2. request'[q] = [request[q] EXCEPT !.pc = pc]
      /\ request' = [request EXCEPT ![q] = [request[q] EXCEPT !.pc = pc]]
  BY <1>1 DEF Go
<1>. QED
  BY <1>1, <1>2 DEF Become, RequestRecord

\* Replacing data in domains makes a configuration, and only there.
LEMMA MergeTyped ==
  ASSUME NEW body \in Body, NEW data \in Data
  PROVE  Merge(body, data) \in Data
BY DEF Merge, Body, Data

LEMMA SwitchedTyped ==
  ASSUME TypeOK, NEW old \in Config, NEW new \in Config, NEW done
  PROVE  Switched(old, new, done) \in Config
BY DEF Switched, TypeOK, Config

\* What the callback leaves when it ran from one configuration to the other.
LEMMA SwitchedAll ==
  ASSUME NEW old \in Config, NEW new \in Config, applied = old
  PROVE  Switched(old, new, Domains) = new
BY DEF Switched, Config

LEMMA NewRowsTyped ==
  ASSUME TypeOK, NEW q \in Requests
  PROVE  /\ NewRows(request[q]) \in [Domains -> [data : Data, version : Nat \ {0}]]
         /\ \A d \in Domains :
              NewRows(request[q])[d] =
                IF d \in Targets(request[q])
                THEN [data |-> request[q].candidate[d], version |-> rows[d].version + 1]
                ELSE rows[d]
BY DEF NewRows, TypeOK, RequestRecord, Config

-----------------------------------------------------------------------------
(* A step of one request *)

\* Where the configuration is changed, the version is too, by the request that
\* holds the manager; key and rows change under the store's lock.
Accounted(q) ==
  /\ \A d \in Domains : \/ config'[d] = config[d] /\ versions'[d] = versions[d]
                        \/ mu = q /\ versions[d] < versions'[d]
  /\ key' = key \/ storeMu = q
  /\ rows' = rows \/ (mu = q /\ storeMu = q)

LEMMA OthersKnow ==
  ASSUME ConfigIInv, NEW q \in Requests, Accounted(q), versions' \in [Domains -> Nat],
         NEW a \in Requests, a # q, request'[a] = request[a]
  PROVE  Knows(request[a])'
<1>. DEFINE r == request[a]
<1>1. r \in RequestRecord /\ Knows(r) /\ request'[a] = r
  BY DEF ConfigIInv, TypeOK, RequestsKnow
<1>2. r.domain \in Domains /\ r.version \in Nat
  BY <1>1 DEF RequestRecord
<1>3. /\ r.pc \in Holding => mu = a
      /\ r.pc \in {"writing", "rotating"} => storeMu = a
  BY DEF ConfigIInv, LocksHeld
<1>4. /\ versions \in [Domains -> Nat]
  BY DEF ConfigIInv, TypeOK
<1>5. ASSUME r.pc \in {"viewed", "ready"} \cup Holding, r.op # "import"
      PROVE  Informed(r)'
  BY <1>1, <1>2, <1>4, <1>5 DEF Accounted, Knows, Informed
<1>6. ASSUME r.pc \in Holding, r.op # "import"
      PROVE  Edits(r)'
  BY <1>1, <1>2, <1>3, <1>6 DEF Accounted, Knows, Edits
<1>7. /\ r.pc = "writing" => r.held = key'
      /\ r.pc = "rotating" => r.base = rows'[Auth].data
  BY <1>1, <1>3 DEF Accounted, Knows
<1>8. ASSUME r.pc = "stored", NEW d \in Domains, Replaces(r, d)
      PROVE  r.got[d] = rows'[d].version /\ versions'[d] < rows'[d].version
             /\ r.candidate[d] = rows'[d].data
  <2>1. mu = a /\ rows' = rows /\ versions'[d] = versions[d]
    BY <1>3, <1>8 DEF Accounted, Holding
  <2>. QED
    BY <1>1, <1>8, <2>1 DEF Knows
<1>. QED
  BY <1>1, <1>5, <1>6, <1>7, <1>8 DEF Knows, Replaces, Informed, Edits, Holding

\* What a step of one request has to show of itself.
LEMMA RequestStep ==
  ASSUME ConfigIInv, NEW q \in Requests, NEW r \in RequestRecord, Become(q, r),
         mu' = mu \/ (mu \in {q, Nobody} /\ mu' \in {q, Nobody}),
         storeMu' = storeMu \/ (storeMu \in {q, Nobody} /\ storeMu' \in {q, Nobody}),
         mu' = q <=> r.pc \in Holding,
         storeMu' = q <=> r.pc \in {"writing", "rotating"},
         Accounted(q), versions' \in [Domains -> Nat],
         Knows(request[q])',
         failed' \/ AppliedSoFar(request[q])',
         UNCHANGED <<config, applied, failed>> \/ (mu = q /\ (~failed' => ~failed))
  PROVE  /\ request' \in [Requests -> RequestRecord]
         /\ mu' \in Requests \cup {Nobody} /\ storeMu' \in Requests \cup {Nobody}
         /\ LocksHeld' /\ RequestsKnow' /\ RequestsApplied'
<1>. USE DEF ConfigIInv
<1>1. /\ request' \in [Requests -> RequestRecord] /\ request'[q] = r
      /\ \A a \in Requests : a # q => request'[a] = request[a]
  BY BecomeStep
<1>2. Nobody \notin Requests /\ mu \in Requests \cup {Nobody} /\ storeMu \in Requests \cup {Nobody}
  BY ConfigAssumption DEF TypeOK
<1>3. LocksHeld'
  <2>. SUFFICES ASSUME NEW a \in Requests
                PROVE  /\ mu' = a <=> request'[a].pc \in Holding
                       /\ storeMu' = a <=> request'[a].pc \in {"writing", "rotating"}
    BY DEF LocksHeld, Holding
  <2>1. CASE a = q
    BY <1>1, <2>1
  <2>2. CASE a # q
    <3>1. (mu' = a <=> mu = a) /\ (storeMu' = a <=> storeMu = a)
      BY <1>2, <2>2
    <3>. QED
      BY <1>1, <2>2, <3>1 DEF LocksHeld
  <2>. QED
    BY <2>1, <2>2
<1>4. RequestsKnow'
  BY <1>1, OthersKnow DEF RequestsKnow
<1>5. RequestsApplied'
  <2>. SUFFICES ASSUME ~failed', NEW a \in Requests, a # q
                PROVE  AppliedSoFar(request[a])'
    BY DEF RequestsApplied
  <2>1. request'[a] = request[a]
    BY <1>1
  <2>2. CASE UNCHANGED <<config, applied, failed>>
    BY <2>1, <2>2 DEF RequestsApplied, AppliedSoFar
  <2>3. CASE mu = q
    <3>1. request[a].pc \notin Holding
      BY <2>3 DEF LocksHeld
    <3>. QED
      BY <2>1, <3>1 DEF AppliedSoFar, Holding
  <2>. QED
    BY <2>2, <2>3
<1>. QED
  BY <1>1, <1>2, <1>3, <1>4, <1>5

\* A step that touches neither the table, the manager nor the subscribers.
LEMMA QuietStep ==
  ASSUME ConfigIInv, NEW q \in Requests, NEW r \in RequestRecord, Become(q, r),
         UNCHANGED <<table, manager, readers>>,
         mu' = mu \/ (mu = Nobody /\ mu' = q),
         storeMu' = storeMu \/ (storeMu \in {q, Nobody} /\ storeMu' \in {q, Nobody}),
         mu' = q <=> r.pc \in Holding,
         storeMu' = q <=> r.pc \in {"writing", "rotating"},
         Knows(r), failed \/ AppliedSoFar(r)
  PROVE  ConfigIInv'
<1>. USE DEF ConfigIInv
<1>1. UNCHANGED <<rows, key, lastKey, config, versions, applied, failed, notice, phase, seen>>
  BY DEF table, manager, readers
<1>2. request'[q] = r
  BY BecomeStep
<1>3. Knows(request[q])' /\ (failed' \/ AppliedSoFar(request[q])')
  BY <1>1, <1>2 DEF Knows, AppliedSoFar, Informed, Edits
<1>4. Accounted(q) /\ versions' \in [Domains -> Nat]
  BY <1>1 DEF Accounted, TypeOK
<1>5. /\ request' \in [Requests -> RequestRecord]
      /\ mu' \in Requests \cup {Nobody} /\ storeMu' \in Requests \cup {Nobody}
      /\ LocksHeld' /\ RequestsKnow' /\ RequestsApplied'
  BY <1>1, <1>3, <1>4, RequestStep
<1>6. TypeOK' /\ VersionsName' /\ NoticeWaits' /\ KeyIsKept'
  BY <1>1, <1>5 DEF TypeOK, VersionsName, NoticeWaits, KeyIsKept
<1>7. AppliedIsConfig'
  BY <1>1, ConfigAssumption DEF AppliedIsConfig, Unlocked
<1>. QED
  BY <1>5, <1>6, <1>7

\* The page and the reset read data and version together.
LEMMA ViewKeeps ==
  ASSUME ConfigIInv, NEW q \in Requests, NEW d \in Domains, View(q, d) \/ Reset(q, d)
  PROVE  ConfigIInv'
<1>. DEFINE v == [NoRequest EXCEPT !.pc = "viewed", !.domain = d,
                    !.base = config[d], !.version = versions[d]]
            z == [NoRequest EXCEPT !.pc = "ready", !.op = "reset", !.domain = d,
                    !.base = config[d], !.version = versions[d]]
<1>1. /\ NoRequest \in RequestRecord /\ config[d] \in Data /\ versions[d] \in Nat
      /\ NoRequest.op = "none"
  BY NoRequestType DEF ConfigIInv, TypeOK, Config, NoRequest
<1>2. PICK r \in {v, z} : Become(q, r)
  BY DEF View, Reset
<1>3. /\ r \in RequestRecord /\ r.pc \in {"viewed", "ready"} /\ r.op \in {"none", "reset"}
      /\ r.domain = d /\ r.base = config[d] /\ r.version = versions[d]
  BY <1>1, <1>2 DEF RequestRecord
<1>4. Knows(r) /\ AppliedSoFar(r)
  BY <1>3, <1>1 DEF Knows, AppliedSoFar, Informed, Edits, Holding
<1>5. request[q].pc = "idle" /\ UNCHANGED <<table, manager, locks, readers>>
  BY DEF View, Reset
<1>6. mu # q /\ storeMu # q
  BY <1>5 DEF ConfigIInv, LocksHeld, Holding
<1>. QED
  BY <1>2, <1>3, <1>4, <1>5, <1>6, QuietStep DEF locks, Holding

\* A request that is over knows nothing and holds nothing.
LEMMA NothingKnown ==
  /\ NoRequest \in RequestRecord /\ NoRequest.pc = "idle"
  /\ Knows(NoRequest) /\ AppliedSoFar(NoRequest)
BY NoRequestType DEF NoRequest, Knows, AppliedSoFar, Holding

LEMMA UpdatePathKeeps ==
  ASSUME ConfigIInv, NEW q \in Requests, NEW p \in Paths, NEW v \in Values,
         UpdatePath(q, p, v)
  PROVE  ConfigIInv'
<1>. DEFINE o == request[q]
            data == config[o.domain]
            body == [data EXCEPT ![p] = v]
<1>1. /\ o \in RequestRecord /\ Knows(o) /\ o.pc = "viewed" /\ o.domain \in Domains
      /\ data \in Data
  BY DEF ConfigIInv, TypeOK, Config, UpdatePath, RequestsKnow, RequestRecord
<1>2. body \in Body /\ \A e \in Paths \ {p} : body[e] = data[e]
  BY <1>1 DEF Data, Body
<1>. HIDE DEF body
<1>3. PICK r : r = [o EXCEPT !.pc = "ready", !.op = "path", !.body = body]
  OBVIOUS
<1>4. Become(q, r)
  BY <1>3 DEF UpdatePath, body
<1>5. /\ r \in RequestRecord /\ r.pc = "ready" /\ r.op = "path" /\ r.body = body
      /\ r.domain = o.domain /\ r.base = o.base /\ r.version = o.version
  BY <1>1, <1>2, <1>3 DEF RequestRecord
<1>6. Informed(o)
  BY <1>1 DEF Knows
<1>7. Informed(r)
  BY <1>2, <1>5, <1>6 DEF Informed, OnePath
<1>8. Knows(r) /\ AppliedSoFar(r)
  BY <1>5, <1>7 DEF Knows, AppliedSoFar, Holding
<1>9. mu # q /\ storeMu # q /\ UNCHANGED <<table, manager, locks, readers>>
  BY <1>1 DEF ConfigIInv, LocksHeld, Holding, UpdatePath
<1>. QED
  BY <1>4, <1>5, <1>8, <1>9, QuietStep DEF locks, Holding

LEMMA UpdateKeeps ==
  ASSUME ConfigIInv, NEW q \in Requests, NEW body \in Bodies, Update(q, body)
  PROVE  ConfigIInv'
<1>. DEFINE o == request[q]
<1>1. /\ o \in RequestRecord /\ Knows(o) /\ o.pc = "viewed" /\ body \in Body
  BY ConfigAssumption DEF ConfigIInv, TypeOK, Update, RequestsKnow
<1>3. PICK r : r = [o EXCEPT !.pc = "ready", !.op = "update", !.body = body]
  OBVIOUS
<1>4. Become(q, r)
  BY <1>3 DEF Update
<1>5. /\ r \in RequestRecord /\ r.pc = "ready" /\ r.op = "update"
      /\ r.domain = o.domain /\ r.base = o.base /\ r.version = o.version
  BY <1>1, <1>3 DEF RequestRecord
<1>6. Informed(r)
  BY <1>1, <1>5 DEF Knows, Informed
<1>8. Knows(r) /\ AppliedSoFar(r)
  BY <1>5, <1>6 DEF Knows, AppliedSoFar, Holding
<1>9. mu # q /\ storeMu # q /\ UNCHANGED <<table, manager, locks, readers>>
  BY <1>1 DEF ConfigIInv, LocksHeld, Holding, Update
<1>. QED
  BY <1>4, <1>5, <1>8, <1>9, QuietStep DEF locks, Holding

LEMMA ImportKeeps ==
  ASSUME ConfigIInv, NEW q \in Requests, NEW bundle \in Bundles, Import(q, bundle)
  PROVE  ConfigIInv'
<1>1. bundle \in Config
  BY ConfigAssumption
<1>2. PICK r : r = [NoRequest EXCEPT !.pc = "ready", !.op = "import", !.candidate = bundle]
  OBVIOUS
<1>3. r \in RequestRecord /\ r.pc = "ready" /\ r.op = "import"
  BY <1>1, <1>2, NoRequestType DEF RequestRecord
<1>4. Knows(r) /\ AppliedSoFar(r)
  BY <1>3 DEF Knows, AppliedSoFar, Holding
<1>5. Become(q, r) /\ mu # q /\ storeMu # q /\ UNCHANGED <<table, manager, locks, readers>>
  BY <1>2 DEF ConfigIInv, LocksHeld, Holding, Import
<1>. QED
  BY <1>3, <1>4, <1>5, QuietStep DEF locks, Holding

\* The version is compared under the lock, and the candidate built there.
LEMMA EnterKeeps ==
  ASSUME ConfigIInv, NEW q \in Requests, Enter(q)
  PROVE  ConfigIInv'
<1>. DEFINE o == request[q]
            d == o.domain
            new == Candidate(o)
<1>1. /\ o \in RequestRecord /\ Knows(o) /\ o.pc = "ready" /\ d \in Domains
      /\ o.body \in Body /\ o.candidate \in Config
      /\ config \in Config /\ config[d] \in Data
  BY DEF ConfigIInv, TypeOK, Config, Enter, RequestsKnow, RequestRecord
<1>2. /\ mu = Nobody /\ mu # q /\ storeMu # q
      /\ UNCHANGED <<table, manager, storeMu, readers>>
  BY <1>1 DEF ConfigIInv, LocksHeld, Holding, Enter, Unlocked
<1>3. CASE VersionMatches(o)
  <2>1. /\ new \in Config
        /\ o.op # "import" => /\ \A e \in Domains \ {d} : new[e] = config[e]
                              /\ new[d] = Merge(o.body, config[d])
    <3>1. Merge(o.body, config[d]) \in Data
      BY <1>1, MergeTyped
    <3>2. CASE o.op = "import"
      BY <1>1, <3>2 DEF Candidate
    <3>3. CASE o.op # "import"
      <4>1. new = [config EXCEPT ![d] = Merge(o.body, config[d])]
        BY <3>3, <1>1 DEF Candidate
      <4>. QED
        BY <4>1, <3>1, <1>1 DEF Config
    <3>. QED
      BY <3>2, <3>3
  <2>. HIDE DEF new
  <2>2. PICK r : r = [o EXCEPT !.pc = "applying", !.candidate = new]
    OBVIOUS
  <2>3. /\ r \in RequestRecord /\ r.pc = "applying" /\ r.op = o.op /\ r.candidate = new
        /\ r.domain = d /\ r.base = o.base /\ r.version = o.version /\ r.body = o.body
    BY <1>1, <2>1, <2>2 DEF RequestRecord
  <2>4. Become(q, r) /\ mu' = q
    BY <1>3, <2>2 DEF Enter, new
  <2>5. ASSUME o.op # "import" PROVE Informed(r) /\ Edits(r)
    <3>1. Informed(o) /\ o.version = versions[d]
      BY <1>1, <1>3, <2>5 DEF Knows, VersionMatches
    <3>2. o.base = config[d] /\ (o.op = "path" => OnePath(o.body, o.base))
      BY <3>1 DEF Informed
    <3>3. o.op = "path" => OnePath(new[d], o.base)
      <4>1. ASSUME NEW p \in Paths, \A e \in Paths \ {p} : o.body[e] = config[d][e]
            PROVE  \A e \in Paths \ {p} : Merge(o.body, config[d])[e] = config[d][e]
        BY <4>1 DEF Merge
      <4>. QED
        BY <2>1, <2>5, <3>2, <4>1 DEF OnePath
    <3>4. Informed(r)
      BY <3>1, <2>3 DEF Informed
    <3>. QED
      BY <2>1, <2>3, <2>5, <3>1, <3>3, <3>4 DEF Edits
  <2>6. Knows(r)
    BY <1>1, <2>3, <2>5 DEF Knows
  <2>7. failed \/ AppliedSoFar(r)
    BY <1>2, <2>3 DEF ConfigIInv, AppliedIsConfig, AppliedSoFar, Unlocked
  <2>. QED
    BY <1>2, <2>3, <2>4, <2>6, <2>7, QuietStep DEF Holding
<1>4. CASE ~VersionMatches(o)
  BY <1>2, <1>4, NothingKnown, QuietStep DEF Enter, Return, Holding
<1>. QED
  BY <1>3, <1>4

\* The store's lock, and the key in the row.
LEMMA LockKeeps ==
  ASSUME ConfigIInv, NEW q \in Requests, Lock(q)
  PROVE  ConfigIInv'
<1>. DEFINE o == request[q]
<1>1. /\ o \in RequestRecord /\ Knows(o) /\ o.pc = "storing" /\ key \in Nat
      /\ ~failed => AppliedSoFar(o)
  BY DEF ConfigIInv, TypeOK, Lock, RequestsKnow, RequestsApplied
<1>2. PICK r : r = [o EXCEPT !.pc = "writing", !.held = key]
  OBVIOUS
<1>3. /\ r \in RequestRecord /\ r.pc = "writing" /\ r.op = o.op /\ r.candidate = o.candidate
      /\ r.domain = o.domain /\ r.base = o.base /\ r.version = o.version /\ r.body = o.body
      /\ r.held = key
  BY <1>1, <1>2 DEF RequestRecord
<1>4. Knows(r)
  BY <1>1, <1>3 DEF Knows, Informed, Edits, Holding
<1>5. failed \/ AppliedSoFar(r)
  BY <1>1, <1>3 DEF AppliedSoFar
<1>6. /\ Become(q, r) /\ mu = q /\ mu' = mu /\ storeMu = Nobody /\ storeMu' = q
      /\ UNCHANGED <<table, manager, readers>>
  BY <1>1, <1>2 DEF ConfigIInv, LocksHeld, Holding, Lock
<1>. QED
  BY <1>3, <1>4, <1>5, <1>6, QuietStep DEF Holding

LEMMA WriteFailsKeeps ==
  ASSUME ConfigIInv, NEW q \in Requests, WriteFails(q)
  PROVE  ConfigIInv'
<1>. DEFINE o == request[q]
<1>1. /\ o \in RequestRecord /\ Knows(o) /\ o.pc = "writing" /\ Go(q, "undoing")
      /\ ~failed => AppliedSoFar(o)
  BY DEF ConfigIInv, TypeOK, WriteFails, RequestsKnow, RequestsApplied
<1>2. PICK r \in RequestRecord :
        /\ Become(q, r) /\ r.pc = "undoing" /\ r.op = o.op /\ r.candidate = o.candidate
        /\ r.domain = o.domain /\ r.base = o.base /\ r.version = o.version
        /\ r.body = o.body
  BY <1>1, GoStep DEF ConfigIInv
<1>3. Knows(r)
  BY <1>1, <1>2 DEF Knows, Informed, Edits, Holding
<1>4. failed \/ AppliedSoFar(r)
  BY <1>1, <1>2 DEF AppliedSoFar
<1>5. /\ mu = q /\ mu' = mu /\ storeMu = q /\ storeMu' = Nobody
      /\ UNCHANGED <<table, manager, readers>>
  BY <1>1 DEF ConfigIInv, LocksHeld, Holding, WriteFails
<1>. QED
  BY <1>2, <1>3, <1>4, <1>5, ConfigAssumption, QuietStep DEF Holding

LEMMA RotateKeeps ==
  ASSUME ConfigIInv, NEW q \in Requests, Rotate(q)
  PROVE  ConfigIInv'
<1>1. rows[Auth].data \in Data
  BY ConfigAssumption DEF ConfigIInv, TypeOK
<1>2. PICK r : r = [NoRequest EXCEPT !.pc = "rotating", !.op = "rotate",
                      !.base = rows[Auth].data]
  OBVIOUS
<1>3. r \in RequestRecord /\ r.pc = "rotating" /\ r.base = rows[Auth].data
  BY <1>1, <1>2, NoRequestType DEF RequestRecord
<1>4. Knows(r) /\ AppliedSoFar(r)
  BY <1>3 DEF Knows, AppliedSoFar, Holding
<1>5. /\ Become(q, r) /\ mu # q /\ mu' = mu /\ storeMu = Nobody /\ storeMu' = q
      /\ UNCHANGED <<table, manager, readers>>
  BY <1>2 DEF ConfigIInv, LocksHeld, Holding, Rotate
<1>. QED
  BY <1>3, <1>4, <1>5, QuietStep DEF Holding

-----------------------------------------------------------------------------
(* Steps that hold the manager *)

\* The callback runs and what runs becomes the candidate.
LEMMA ApplyKeeps ==
  ASSUME ConfigIInv, NEW q \in Requests, Apply(q)
  PROVE  ConfigIInv'
<1>. DEFINE o == request[q]
            new == Switched(config, o.candidate, Domains)
<1>1. /\ o \in RequestRecord /\ Knows(o) /\ o.pc = "applying" /\ Go(q, "storing")
      /\ ~failed => AppliedSoFar(o)
      /\ config \in Config /\ o.candidate \in Config
  BY DEF ConfigIInv, TypeOK, Apply, RequestsKnow, RequestsApplied, RequestRecord
<1>2. PICK r \in RequestRecord :
        /\ Become(q, r) /\ r.pc = "storing" /\ r.op = o.op /\ r.candidate = o.candidate
        /\ r.domain = o.domain /\ r.base = o.base /\ r.version = o.version
        /\ r.body = o.body
  BY <1>1, GoStep DEF ConfigIInv
<1>3. /\ mu = q /\ storeMu # q /\ applied' = new
      /\ UNCHANGED <<rows, key, lastKey, config, versions, failed, mu, storeMu, notice, phase, seen>>
  BY <1>1 DEF ConfigIInv, LocksHeld, Holding, Apply, table, locks, readers
<1>4. new \in Config /\ (~failed => new = o.candidate)
  BY <1>1, SwitchedTyped, SwitchedAll DEF AppliedSoFar, ConfigIInv
<1>5. request'[q] = r
  BY <1>2, BecomeStep DEF ConfigIInv
<1>6. Knows(r)
  BY <1>1, <1>2 DEF Knows, Informed, Edits, Holding
<1>7. Knows(request[q])' /\ (failed' \/ AppliedSoFar(request[q])')
  BY <1>2, <1>3, <1>4, <1>5, <1>6 DEF Knows, AppliedSoFar, Informed, Edits
<1>8. Accounted(q) /\ versions' \in [Domains -> Nat]
  BY <1>3 DEF Accounted, ConfigIInv, TypeOK
<1>9. /\ request' \in [Requests -> RequestRecord]
      /\ LocksHeld' /\ RequestsKnow' /\ RequestsApplied'
  BY <1>2, <1>3, <1>7, <1>8, RequestStep DEF Holding
<1>10. TypeOK' /\ VersionsName' /\ NoticeWaits' /\ KeyIsKept' /\ AppliedIsConfig'
  BY <1>3, <1>4, <1>9, ConfigAssumption
  DEF ConfigIInv, TypeOK, VersionsName, NoticeWaits, KeyIsKept, AppliedIsConfig, Unlocked
<1>. QED
  BY <1>9, <1>10 DEF ConfigIInv

\* A request that gives the manager back without changing it.
LEMMA GiveUpKeeps ==
  ASSUME ConfigIInv, NEW q \in Requests, mu = q, storeMu # q, mu' = Nobody,
         Return(q), UNCHANGED <<table, config, versions, storeMu, readers>>,
         applied' \in Config, failed' \in BOOLEAN,
         ~failed' => ~failed /\ applied' = config
  PROVE  ConfigIInv'
<1>1. UNCHANGED <<rows, key, lastKey, config, versions, storeMu, notice, phase, seen>>
  BY DEF table, readers
<1>2. request'[q] = NoRequest /\ Become(q, NoRequest)
  BY NothingKnown, BecomeStep DEF ConfigIInv, Return
<1>3. Knows(request[q])' /\ AppliedSoFar(request[q])'
  BY <1>2, NothingKnown DEF Knows, AppliedSoFar, Holding
<1>4. Accounted(q) /\ versions' \in [Domains -> Nat]
  BY <1>1 DEF Accounted, ConfigIInv, TypeOK
<1>5. /\ request' \in [Requests -> RequestRecord]
      /\ LocksHeld' /\ RequestsKnow' /\ RequestsApplied'
  BY <1>1, <1>2, <1>3, <1>4, RequestStep, NothingKnown, ConfigAssumption DEF Holding
<1>6. TypeOK' /\ VersionsName' /\ NoticeWaits' /\ KeyIsKept' /\ AppliedIsConfig'
  BY <1>1, <1>5 DEF ConfigIInv, TypeOK, VersionsName, NoticeWaits, KeyIsKept, AppliedIsConfig
<1>. QED
  BY <1>5, <1>6 DEF ConfigIInv

LEMMA ApplyFailsKeeps ==
  ASSUME ConfigIInv, NEW q \in Requests, ApplyFails(q)
  PROVE  ConfigIInv'
<1>1. config \in Config /\ request[q].candidate \in Config
  BY DEF ConfigIInv, TypeOK, RequestRecord
<1>2. applied' \in Config
  BY <1>1, SwitchedTyped DEF ApplyFails, ConfigIInv
<1>3. mu = q /\ storeMu # q
  BY DEF ConfigIInv, LocksHeld, Holding, ApplyFails
<1>. QED
  BY <1>2, <1>3, GiveUpKeeps DEF ApplyFails

LEMMA UndoKeeps ==
  ASSUME ConfigIInv, NEW q \in Requests, Undo(q)
  PROVE  ConfigIInv'
<1>1. /\ config \in Config /\ request[q].candidate \in Config
      /\ ~failed => applied = request[q].candidate
  BY DEF ConfigIInv, TypeOK, RequestRecord, RequestsApplied, AppliedSoFar, Undo
<1>2. mu = q /\ storeMu # q
  BY DEF ConfigIInv, LocksHeld, Holding, Undo
<1>3. /\ mu' = Nobody /\ Return(q)
      /\ UNCHANGED <<table, config, versions, storeMu, readers>>
  BY DEF Undo
<1>4. CASE applied' = Switched(request[q].candidate, config, Domains) /\ UNCHANGED failed
  <2>1. applied' \in Config /\ (~failed => applied' = config)
    BY <1>1, <1>4, SwitchedTyped, SwitchedAll DEF ConfigIInv
  <2>. QED
    BY <1>2, <1>3, <1>4, <2>1, GiveUpKeeps DEF ConfigIInv, TypeOK
<1>5. ASSUME failed' = TRUE, NEW done \in SUBSET (Domains \ {Auth}),
             applied' = Switched(request[q].candidate, config, done)
      PROVE  ConfigIInv'
  BY <1>1, <1>2, <1>3, <1>5, SwitchedTyped, GiveUpKeeps DEF ConfigIInv
<1>. QED
  BY <1>4, <1>5 DEF Undo

\* The transaction: the rows it replaces get a version of their own, and the
\* key it writes is the one it read or a new one.
LEMMA WriteLeaves ==
  ASSUME ConfigIInv, NEW q \in Requests, request[q].pc = "writing",
         Targets(request[q]) # {}, rows' = NewRows(request[q]), WriteKey(request[q])
  PROVE  /\ rows' \in [Domains -> [data : Data, version : Nat \ {0}]]
         /\ key' = lastKey' /\ key' \in Nat
         /\ \A d \in Domains : versions[d] <= rows'[d].version
         /\ \A d \in Domains : versions[d] = rows'[d].version => rows'[d].data = config[d]
         /\ \A d \in Domains : Replaces(request[q], d) =>
              versions[d] < rows'[d].version /\ rows'[d].data = request[q].candidate[d]
<1>. DEFINE o == request[q]
<1>1. /\ o \in RequestRecord /\ Knows(o) /\ o.held = key /\ key = lastKey
      /\ key \in Nat /\ versions \in [Domains -> Nat \ {0}]
      /\ rows \in [Domains -> [data : Data, version : Nat \ {0}]]
  BY DEF ConfigIInv, TypeOK, RequestsKnow, Knows, KeyIsKept
<1>2. /\ rows' \in [Domains -> [data : Data, version : Nat \ {0}]]
      /\ \A d \in Domains : rows'[d] = IF d \in Targets(o)
             THEN [data |-> o.candidate[d], version |-> rows[d].version + 1] ELSE rows[d]
  BY NewRowsTyped DEF ConfigIInv
<1>3. key' = lastKey' /\ key' \in Nat
  BY <1>1 DEF WriteKey
<1>4. \A d \in Domains : Replaces(o, d) => d \in Targets(o)
  BY <1>1 DEF Replaces, Targets, RequestRecord
<1>5. ASSUME NEW d \in Domains
      PROVE  /\ d \in Targets(o) => /\ rows'[d].version = rows[d].version + 1
                                    /\ rows'[d].data = o.candidate[d]
             /\ d \notin Targets(o) => rows'[d] = rows[d]
             /\ versions[d] <= rows[d].version /\ versions[d] \in Nat
             /\ rows[d].version \in Nat
             /\ versions[d] = rows[d].version => rows[d].data = config[d]
  <2>1. rows'[d] = IF d \in Targets(o)
             THEN [data |-> o.candidate[d], version |-> rows[d].version + 1] ELSE rows[d]
    BY <1>2
  <2>2. /\ d \in Targets(o) => /\ rows'[d].version = rows[d].version + 1
                               /\ rows'[d].data = o.candidate[d]
        /\ d \notin Targets(o) => rows'[d] = rows[d]
    BY <2>1
  <2>3. /\ versions[d] <= rows[d].version
        /\ versions[d] = rows[d].version => rows[d].data = config[d]
    BY DEF ConfigIInv, VersionsName
  <2>4. versions[d] \in Nat /\ rows[d].version \in Nat
    BY <1>1
  <2>. QED
    BY <2>2, <2>3, <2>4
<1>6. ASSUME NEW d \in Domains
      PROVE  /\ versions[d] <= rows'[d].version
             /\ versions[d] = rows'[d].version => rows'[d].data = config[d]
             /\ d \in Targets(o) => versions[d] < rows'[d].version
                                    /\ rows'[d].data = o.candidate[d]
  <2>1. CASE d \in Targets(o)
    BY <1>5, <2>1
  <2>2. CASE d \notin Targets(o)
    BY <1>5, <2>2
  <2>. QED
    BY <2>1, <2>2
<1>. QED
  BY <1>2, <1>3, <1>4, <1>6

\* A request that wrote the table, and goes on with r.
LEMMA TableStep ==
  ASSUME ConfigIInv, NEW q \in Requests, request[q].pc = "writing",
         Targets(request[q]) # {}, rows' = NewRows(request[q]), WriteKey(request[q]),
         storeMu' = Nobody, UNCHANGED <<manager, mu, readers>>,
         NEW r \in RequestRecord, Become(q, r), r.pc \in {"stored", "undoing"},
         r.op = request[q].op, r.domain = request[q].domain, r.base = request[q].base,
         r.body = request[q].body, r.version = request[q].version,
         r.candidate = request[q].candidate,
         r.pc = "stored" => \A d \in Domains : r.got[d] = rows'[d].version
  PROVE  ConfigIInv'
<1>. DEFINE o == request[q]
<1>1. /\ o \in RequestRecord /\ Knows(o) /\ (~failed => AppliedSoFar(o))
      /\ mu = q /\ storeMu = q
  BY DEF ConfigIInv, TypeOK, RequestsKnow, RequestsApplied, LocksHeld, Holding
<1>2. UNCHANGED <<config, versions, applied, failed, mu, notice, phase, seen>>
  BY DEF manager, readers
<1>3. /\ rows' \in [Domains -> [data : Data, version : Nat \ {0}]]
      /\ key' = lastKey' /\ key' \in Nat
      /\ VersionsName'
      /\ \A d \in Domains : Replaces(o, d) =>
           versions[d] < rows'[d].version /\ rows'[d].data = o.candidate[d]
  BY <1>2, WriteLeaves DEF VersionsName
<1>4. request'[q] = r
  BY BecomeStep DEF ConfigIInv
<1>5. r.op # "import" => Informed(r) /\ Edits(r)
  BY <1>1 DEF Knows, Informed, Edits, Holding
<1>6. r.op # "import" => Informed(request[q])' /\ Edits(request[q])'
  BY <1>2, <1>4, <1>5 DEF Informed, Edits
<1>7. r.pc = "stored" =>
        \A d \in Domains : Replaces(r, d) =>
          /\ r.got[d] = rows'[d].version /\ versions'[d] < rows'[d].version
          /\ r.candidate[d] = rows'[d].data
  BY <1>2, <1>3 DEF Replaces
<1>8. Knows(request[q])'
  <2>1. r.op \in {"none", "path", "update", "reset", "import"}
    BY <1>1 DEF Knows, Holding
  <2>. QED
    BY <1>4, <1>6, <1>7, <2>1 DEF Knows, Replaces
<1>9. failed' \/ AppliedSoFar(request[q])'
  BY <1>1, <1>2, <1>4 DEF AppliedSoFar
<1>10. Accounted(q) /\ versions' \in [Domains -> Nat]
  BY <1>1, <1>2 DEF Accounted, ConfigIInv, TypeOK
<1>11. /\ request' \in [Requests -> RequestRecord] /\ storeMu' \in Requests \cup {Nobody}
       /\ LocksHeld' /\ RequestsKnow' /\ RequestsApplied'
  BY <1>1, <1>2, <1>8, <1>9, <1>10, RequestStep, ConfigAssumption DEF Holding
<1>12. TypeOK' /\ NoticeWaits' /\ KeyIsKept' /\ AppliedIsConfig'
  BY <1>1, <1>2, <1>3, <1>11, ConfigAssumption
  DEF ConfigIInv, TypeOK, NoticeWaits, KeyIsKept, AppliedIsConfig, Unlocked
<1>. QED
  BY <1>3, <1>11, <1>12 DEF ConfigIInv

LEMMA WriteKeeps ==
  ASSUME ConfigIInv, NEW q \in Requests, Write(q)
  PROVE  ConfigIInv'
<1>. DEFINE o == request[q]
            got == [d \in Domains |-> rows'[d].version]
<1>1. /\ o \in RequestRecord /\ rows' \in [Domains -> [data : Data, version : Nat \ {0}]]
  BY WriteLeaves DEF ConfigIInv, TypeOK, Write
<1>2. got \in [Domains -> Nat]
  BY <1>1
<1>. HIDE DEF got
<1>3. PICK r : r = [o EXCEPT !.pc = "stored", !.got = got]
  OBVIOUS
<1>4. /\ r \in RequestRecord /\ r.pc = "stored" /\ r.op = o.op /\ r.candidate = o.candidate
      /\ r.domain = o.domain /\ r.base = o.base /\ r.version = o.version /\ r.body = o.body
      /\ r.got = got
  BY <1>1, <1>2, <1>3 DEF RequestRecord
<1>5. Become(q, r)
  BY <1>3 DEF Write, got
<1>6. \A d \in Domains : r.got[d] = rows'[d].version
  BY <1>4 DEF got
<1>. QED
  BY <1>4, <1>5, <1>6, TableStep DEF Write

LEMMA ReadBackFailsKeeps ==
  ASSUME ConfigIInv, NEW q \in Requests, ReadBackFails(q)
  PROVE  ConfigIInv'
<1>. DEFINE o == request[q]
<1>1. Go(q, "undoing")
  BY DEF ReadBackFails
<1>2. PICK r \in RequestRecord :
        /\ Become(q, r) /\ r.pc = "undoing" /\ r.op = o.op /\ r.candidate = o.candidate
        /\ r.domain = o.domain /\ r.base = o.base /\ r.version = o.version
        /\ r.body = o.body
  BY <1>1, GoStep DEF ConfigIInv
<1>. QED
  BY <1>2, TableStep DEF ReadBackFails

\* The candidate becomes what memory holds, with the versions the rows got.
LEMMA CommitKeeps ==
  ASSUME ConfigIInv, NEW q \in Requests, Commit(q)
  PROVE  ConfigIInv'
<1>. DEFINE o == request[q]
<1>1. /\ o \in RequestRecord /\ Knows(o) /\ (~failed => AppliedSoFar(o))
      /\ o.pc = "stored" /\ mu = q /\ storeMu # q
      /\ versions \in [Domains -> Nat \ {0}]
      /\ rows \in [Domains -> [data : Data, version : Nat \ {0}]]
      /\ o.got \in [Domains -> Nat] /\ o.candidate \in Config
  BY DEF ConfigIInv, TypeOK, RequestsKnow, RequestsApplied, LocksHeld, Holding, Commit,
     RequestRecord
<1>2. /\ config' = o.candidate /\ mu' = Nobody /\ Return(q)
      /\ versions' = [d \in Domains |-> IF Replaces(o, d) THEN o.got[d] ELSE versions[d]]
      /\ notice' = [s \in Subscribers |-> TRUE]
      /\ UNCHANGED <<rows, key, lastKey, applied, failed, storeMu, phase, seen>>
  BY DEF Commit, Notify, Replaces, table
<1>3. ASSUME NEW d \in Domains
      PROVE  /\ versions'[d] \in Nat \ {0} /\ versions'[d] <= rows[d].version
             /\ versions'[d] = rows[d].version => rows[d].data = o.candidate[d]
             /\ \/ config'[d] = config[d] /\ versions'[d] = versions[d]
                \/ versions[d] < versions'[d]
  <2>1. versions[d] \in Nat \ {0} /\ rows[d].version \in Nat \ {0}
    BY <1>1
  <2>2. CASE Replaces(o, d)
    <3>1. /\ versions'[d] = rows[d].version /\ versions[d] < rows[d].version
          /\ o.candidate[d] = rows[d].data
      BY <1>1, <1>2, <2>2 DEF Knows
    <3>. QED
      BY <2>1, <3>1
  <2>3. CASE ~Replaces(o, d)
    <3>1. versions'[d] = versions[d] /\ o.candidate[d] = config[d]
      BY <1>1, <1>2, <2>3 DEF Knows, Edits, Replaces, Holding
    <3>2. /\ versions[d] <= rows[d].version
          /\ versions[d] = rows[d].version => rows[d].data = config[d]
      BY DEF ConfigIInv, VersionsName
    <3>. QED
      BY <1>2, <2>1, <3>1, <3>2
  <2>. QED
    BY <2>2, <2>3
<1>4. versions' \in [Domains -> Nat \ {0}]
  BY <1>2, <1>3
<1>5. Accounted(q)
  BY <1>1, <1>2, <1>3 DEF Accounted
<1>6. VersionsName'
  BY <1>2, <1>3 DEF VersionsName
<1>7. request'[q] = NoRequest /\ Become(q, NoRequest)
  BY <1>2, NothingKnown, BecomeStep DEF ConfigIInv, Return
<1>8. Knows(request[q])' /\ AppliedSoFar(request[q])'
  BY <1>7, NothingKnown DEF Knows, AppliedSoFar, Holding
<1>9. /\ request' \in [Requests -> RequestRecord]
      /\ LocksHeld' /\ RequestsKnow' /\ RequestsApplied'
  BY <1>1, <1>2, <1>4, <1>5, <1>7, <1>8, RequestStep, NothingKnown, ConfigAssumption
  DEF Holding
<1>10. AppliedIsConfig' /\ NoticeWaits' /\ KeyIsKept'
  BY <1>1, <1>2 DEF AppliedIsConfig, AppliedSoFar, NoticeWaits, KeyIsKept, ConfigIInv
<1>11. TypeOK'
  BY <1>1, <1>2, <1>4, <1>9 DEF ConfigIInv, TypeOK
<1>. QED
  BY <1>6, <1>9, <1>10, <1>11 DEF ConfigIInv

\* The row is written back with the data it had, the key is new.
LEMMA RotateWriteKeeps ==
  ASSUME ConfigIInv, NEW q \in Requests, RotateWrite(q)
  PROVE  ConfigIInv'
<1>. DEFINE o == request[q]
<1>1. /\ o.base = rows[Auth].data /\ storeMu = q /\ mu # q
      /\ rows \in [Domains -> [data : Data, version : Nat \ {0}]] /\ lastKey \in Nat
  BY DEF ConfigIInv, TypeOK, RequestsKnow, Knows, LocksHeld, Holding, RotateWrite
<1>2. rows' = rows
  <2>1. rows' = [rows EXCEPT ![Auth] = [rows[Auth] EXCEPT !.data = rows[Auth].data]]
    BY <1>1 DEF RotateWrite
  <2>2. rows[Auth] \in [data : Data, version : Nat \ {0}]
    BY <1>1, ConfigAssumption
  <2>3. [rows[Auth] EXCEPT !.data = rows[Auth].data] = rows[Auth]
    BY <2>2
  <2>. QED
    BY <2>1, <2>3, <1>1
<1>3. /\ key' = lastKey' /\ key' \in Nat /\ storeMu' = Nobody /\ Return(q)
      /\ UNCHANGED <<config, versions, applied, failed, mu, notice, phase, seen>>
  BY <1>1 DEF RotateWrite, manager, readers
<1>4. request'[q] = NoRequest /\ Become(q, NoRequest)
  BY <1>3, NothingKnown, BecomeStep DEF ConfigIInv, Return
<1>5. Knows(request[q])' /\ AppliedSoFar(request[q])'
  BY <1>4, NothingKnown DEF Knows, AppliedSoFar, Holding
<1>6. Accounted(q) /\ versions' \in [Domains -> Nat]
  BY <1>1, <1>2, <1>3 DEF Accounted, ConfigIInv, TypeOK
<1>7. /\ request' \in [Requests -> RequestRecord]
      /\ LocksHeld' /\ RequestsKnow' /\ RequestsApplied'
  BY <1>1, <1>3, <1>4, <1>5, <1>6, RequestStep, NothingKnown, ConfigAssumption DEF Holding
<1>. QED
  BY <1>2, <1>3, <1>7
  DEF ConfigIInv, TypeOK, VersionsName, NoticeWaits, KeyIsKept, AppliedIsConfig, Unlocked

-----------------------------------------------------------------------------
(* Subscribers, and the process *)

\* A step that leaves requests, manager and locks alone.
LEMMA SubscriberKeeps ==
  ASSUME ConfigIInv, NEW s \in Subscribers, Wake(s) \/ Snapshot(s) \/ Done(s)
  PROVE  ConfigIInv'
<1>1. UNCHANGED <<rows, key, lastKey, config, versions, applied, failed, mu, storeMu, request>>
  BY DEF Wake, Snapshot, Done, table, manager, locks
<1>2. /\ LocksHeld' /\ RequestsApplied' /\ VersionsName' /\ AppliedIsConfig' /\ KeyIsKept'
  BY <1>1 DEF ConfigIInv, LocksHeld, RequestsApplied, AppliedSoFar, VersionsName,
     AppliedIsConfig, Unlocked, KeyIsKept
<1>3. RequestsKnow'
  BY <1>1 DEF ConfigIInv, RequestsKnow, Knows, Informed, Edits
<1>4. TypeOK'
  BY <1>1 DEF ConfigIInv, TypeOK, Wake, Snapshot, Done
<1>5. NoticeWaits'
  <2>1. CASE Wake(s)
    BY <1>1, <2>1 DEF ConfigIInv, TypeOK, NoticeWaits, Wake
  <2>2. CASE Snapshot(s)
    BY <1>1, <2>2 DEF ConfigIInv, TypeOK, NoticeWaits, Snapshot
  <2>3. CASE Done(s)
    BY <1>1, <2>3 DEF ConfigIInv, TypeOK, NoticeWaits, Done
  <2>. QED
    BY <2>1, <2>2, <2>3
<1>. QED
  BY <1>2, <1>3, <1>4, <1>5 DEF ConfigIInv

\* The process reads the rows; a page that is still open may be of an older
\* version, and says so.
LEMMA RestartKeeps ==
  ASSUME ConfigIInv, Restart
  PROVE  ConfigIInv'
<1>. DEFINE stored == [d \in Domains |-> rows[d].data]
<1>1. /\ rows \in [Domains -> [data : Data, version : Nat \ {0}]]
      /\ versions \in [Domains -> Nat \ {0}]
  BY DEF ConfigIInv, TypeOK
<1>2. /\ stored \in Config /\ \A d \in Domains : stored[d] = rows[d].data
  BY <1>1 DEF Config
<1>. HIDE DEF stored
<1>3. /\ config' = stored /\ applied' = stored /\ failed' = FALSE
      /\ versions' = [d \in Domains |-> rows[d].version]
      /\ mu' = Nobody /\ storeMu' = Nobody
      /\ notice' = [s \in Subscribers |-> FALSE]
      /\ phase' = [s \in Subscribers |-> "waiting"]
      /\ seen' = [s \in Subscribers |-> stored]
      /\ UNCHANGED <<rows, key, lastKey>>
  BY DEF Restart, stored, table
<1>4. versions' \in [Domains -> Nat \ {0}] /\ \A d \in Domains : versions'[d] = rows[d].version
  BY <1>1, <1>3
<1>5. /\ request' \in [Requests -> RequestRecord]
      /\ \A q \in Requests : request'[q] = IF request[q].pc = "viewed" THEN request[q]
                                           ELSE NoRequest
  BY NothingKnown DEF Restart, ConfigIInv, TypeOK
<1>6. ASSUME NEW q \in Requests
      PROVE  /\ Knows(request[q])' /\ AppliedSoFar(request[q])'
             /\ request'[q].pc \notin Holding \cup {"rotating"}
  <2>1. CASE request[q].pc = "viewed"
    <3>. DEFINE o == request[q]
    <3>1. /\ o \in RequestRecord /\ o.domain \in Domains /\ o.version \in Nat
          /\ Knows(o) /\ Informed(o) /\ o.op # "import"
      BY <2>1 DEF ConfigIInv, TypeOK, RequestsKnow, Knows, RequestRecord
    <3>2. request'[q] = o
      BY <1>5, <2>1
    <3>3. /\ o.version <= versions[o.domain] /\ versions[o.domain] <= rows[o.domain].version
          /\ versions[o.domain] = rows[o.domain].version =>
               rows[o.domain].data = config[o.domain]
          /\ versions[o.domain] \in Nat /\ rows[o.domain].version \in Nat
      BY <1>1, <3>1 DEF Informed, ConfigIInv, VersionsName
    <3>4. /\ versions'[o.domain] = rows[o.domain].version
          /\ config'[o.domain] = rows[o.domain].data
      BY <1>2, <1>3, <1>4, <3>1
    <3>5. Informed(request[q])'
      <4>1. o.version <= versions'[o.domain]
        BY <3>1, <3>3, <3>4
      <4>2. ASSUME o.version = versions'[o.domain]
            PROVE  o.base = config'[o.domain] /\ (o.op = "path" => OnePath(o.body, o.base))
        <5>1. o.version = versions[o.domain] /\ versions[o.domain] = rows[o.domain].version
          BY <4>2, <3>1, <3>3, <3>4
        <5>. QED
          BY <5>1, <3>1, <3>3, <3>4 DEF Informed
      <4>. QED
        BY <3>2, <4>1, <4>2 DEF Informed
    <3>. QED
      BY <2>1, <3>1, <3>2, <3>5 DEF Knows, AppliedSoFar, Holding
  <2>2. CASE request[q].pc # "viewed"
    BY <1>5, <2>2, NothingKnown DEF Knows, AppliedSoFar, Holding
  <2>. QED
    BY <2>1, <2>2
<1>7. RequestsKnow' /\ RequestsApplied'
  BY <1>6 DEF RequestsKnow, RequestsApplied
<1>8. LocksHeld'
  BY <1>3, <1>6, ConfigAssumption DEF LocksHeld, Holding
<1>9. VersionsName'
  BY <1>2, <1>3, <1>4 DEF VersionsName
<1>10. AppliedIsConfig' /\ NoticeWaits' /\ KeyIsKept'
  BY <1>3 DEF AppliedIsConfig, NoticeWaits, KeyIsKept, ConfigIInv
<1>11. TypeOK'
  BY <1>2, <1>3, <1>4, <1>5 DEF ConfigIInv, TypeOK
<1>. QED
  BY <1>7, <1>8, <1>9, <1>10, <1>11 DEF ConfigIInv

-----------------------------------------------------------------------------
(* Theorems *)

LEMMA InitHolds == Init => ConfigIInv
<1>. SUFFICES ASSUME Init PROVE ConfigIInv
  OBVIOUS
<1>. DEFINE default == [d \in Domains |-> Default]
<1>1. default \in Config
  BY ConfigAssumption DEF Config
<1>. HIDE DEF default
<1>2. /\ config = default /\ applied = default /\ failed = FALSE
      /\ mu = Nobody /\ storeMu = Nobody /\ key = 0 /\ lastKey = 0
      /\ notice = [s \in Subscribers |-> FALSE]
      /\ phase = [s \in Subscribers |-> "waiting"]
      /\ seen = [s \in Subscribers |-> default]
      /\ request = [q \in Requests |-> NoRequest]
      /\ versions = [d \in Domains |-> 1]
      /\ \A d \in Domains : default[d] = Default
  BY DEF Init, default
<1>3. /\ rows \in [Domains -> [data : Data, version : Nat \ {0}]]
      /\ \A d \in Domains : rows[d].version = 1 /\ rows[d].data = Default
  BY ConfigAssumption DEF Init
<1>4. TypeOK
  BY <1>1, <1>2, <1>3, NothingKnown DEF TypeOK
<1>5. LocksHeld /\ RequestsKnow /\ RequestsApplied
  BY <1>2, NothingKnown, ConfigAssumption
  DEF LocksHeld, Holding, RequestsKnow, RequestsApplied
<1>6. VersionsName /\ AppliedIsConfig /\ NoticeWaits /\ KeyIsKept
  BY <1>2, <1>3 DEF VersionsName, AppliedIsConfig, NoticeWaits, KeyIsKept
<1>. QED
  BY <1>4, <1>5, <1>6 DEF ConfigIInv

LEMMA NextKeeps == ConfigIInv /\ [Next]_vars => ConfigIInv'
<1>. SUFFICES ASSUME ConfigIInv, [Next]_vars PROVE ConfigIInv'
  OBVIOUS
<1>1. ASSUME NEW q \in Requests, NEW d \in Domains, View(q, d) \/ Reset(q, d)
      PROVE  ConfigIInv'
  BY <1>1, ViewKeeps
<1>2. ASSUME NEW q \in Requests, NEW p \in Paths, NEW v \in Values, UpdatePath(q, p, v)
      PROVE  ConfigIInv'
  BY <1>2, UpdatePathKeeps
<1>3. ASSUME NEW q \in Requests, NEW body \in Bodies, Update(q, body)
      PROVE  ConfigIInv'
  BY <1>3, UpdateKeeps
<1>4. ASSUME NEW q \in Requests, NEW bundle \in Bundles, Import(q, bundle)
      PROVE  ConfigIInv'
  BY <1>4, ImportKeeps
<1>5. ASSUME NEW q \in Requests,
             Enter(q) \/ Apply(q) \/ ApplyFails(q) \/ Lock(q) \/ Write(q)
      PROVE  ConfigIInv'
  BY <1>5, EnterKeeps, ApplyKeeps, ApplyFailsKeeps, LockKeeps, WriteKeeps
<1>6. ASSUME NEW q \in Requests,
             WriteFails(q) \/ ReadBackFails(q) \/ Undo(q) \/ Commit(q)
             \/ Rotate(q) \/ RotateWrite(q)
      PROVE  ConfigIInv'
  BY <1>6, WriteFailsKeeps, ReadBackFailsKeeps, UndoKeeps, CommitKeeps, RotateKeeps,
     RotateWriteKeeps
<1>7. ASSUME NEW s \in Subscribers, Wake(s) \/ Snapshot(s) \/ Done(s)
      PROVE  ConfigIInv'
  BY <1>7, SubscriberKeeps
<1>8. CASE Restart
  BY <1>8, RestartKeeps
<1>9. CASE UNCHANGED vars
  <2>1. UNCHANGED <<rows, key, config, versions, applied, failed, mu, storeMu, request,
                    notice, phase, seen, lastKey>>
    BY <1>9 DEF vars
  <2>2. RequestsKnow'
    BY <2>1 DEF ConfigIInv, RequestsKnow, Knows, Informed, Edits
  <2>. QED
    BY <2>1, <2>2 DEF ConfigIInv, TypeOK, LocksHeld, RequestsApplied, AppliedSoFar,
       VersionsName, AppliedIsConfig, Unlocked, NoticeWaits, KeyIsKept
<1>. QED
  BY <1>1, <1>2, <1>3, <1>4, <1>5, <1>6, <1>7, <1>8, <1>9 DEF Next

\* The inductive invariant: who holds the two locks, what each request knows at
\* each of its steps, and what that says of rows, memory and what runs
\* (Manager.Update and Import, UpdateSystemConfig, SetAdminKeyHash).
THEOREM ConfigInvariance == Spec => []ConfigIInv
<1>1. Init => ConfigIInv
  BY InitHolds
<1>2. ConfigIInv /\ [Next]_vars => ConfigIInv'
  BY NextKeeps
<1>. QED
  BY <1>1, <1>2, PTL DEF Spec

\* For any number of requests and subscribers: no notice is lost, a refused
\* write is undone, and no replaced key comes back (notifyLocked, the rollbacks
\* of Update and Import, preserveAuthKey).
THEOREM ConfigHolds == Spec => []ConfigInv
<1>1. ConfigIInv => ConfigInv
  BY DEF ConfigIInv, ConfigInv
<1>. QED
  BY <1>1, ConfigInvariance, PTL

\* A version names one content, also after a write whose answer was lost and
\* after a restart (the expected version of UpdateSystemConfig).
THEOREM VersionsAreNames == Spec => []VersionNamesData
<1>1. ConfigIInv => VersionNamesData
  BY DEF ConfigIInv, VersionsName, VersionNamesData
<1>. QED
  BY <1>1, ConfigInvariance, PTL

\* Data that differ in one path at most differ in no second one.
LEMMA OnePathCounted ==
  ASSUME NEW new, NEW old, OnePath(new, old)
  PROVE  Cardinality({p \in Paths : new[p] # old[p]}) <= 1
<1>. DEFINE D == {p \in Paths : new[p] # old[p]}
<1>1. PICK p \in Paths : \A e \in Paths \ {p} : new[e] = old[e]
  BY DEF OnePath
<1>2. D \subseteq {p}
  BY <1>1
<1>3. IsFiniteSet({p}) /\ Cardinality({p}) = 1
  BY FS_Singleton
<1>4. Cardinality(D) <= Cardinality({p})
  BY <1>2, <1>3, FS_Subset
<1>. QED
  BY <1>3, <1>4

\* The edit that is committed was made on what memory held until then: no other
\* edit is overwritten (Manager.Update compares the version under its lock).
THEOREM NoUpdateIsLost == Spec => NoLostUpdate
<1>1. ASSUME ConfigIInv, NEW q \in Requests, Commit(q), request[q].op # "import"
      PROVE  LET d == request[q].domain IN
             /\ config[d] = request[q].base
             /\ \A e \in Domains \ {d} : config'[e] = config[e]
             /\ request[q].op = "path" =>
                  Cardinality({p \in Paths : config'[d][p] # config[d][p]}) <= 1
  <2>. DEFINE o == request[q]
              d == o.domain
  <2>1. /\ Informed(o) /\ Edits(o) /\ config' = o.candidate
    BY <1>1 DEF ConfigIInv, RequestsKnow, Knows, Commit, Holding
  <2>2. config[d] = o.base /\ \A e \in Domains \ {d} : config'[e] = config[e]
    BY <2>1 DEF Informed, Edits
  <2>3. ASSUME o.op = "path"
        PROVE  Cardinality({p \in Paths : config'[d][p] # config[d][p]}) <= 1
    <3>1. OnePath(o.candidate[d], config[d])
      BY <2>1, <2>2, <2>3 DEF Edits
    <3>2. Cardinality({p \in Paths : o.candidate[d][p] # config[d][p]}) <= 1
      BY <3>1, OnePathCounted
    <3>. QED
      BY <2>1, <3>2
  <2>. QED
    BY <2>2, <2>3
<1>2. ConfigIInv =>
        \A q \in Requests :
          Commit(q) /\ request[q].op # "import" =>
          LET d == request[q].domain IN
          /\ config[d] = request[q].base
          /\ \A e \in Domains \ {d} : config'[e] = config[e]
          /\ request[q].op = "path" =>
               Cardinality({p \in Paths : config'[d][p] # config[d][p]}) <= 1
  BY <1>1
<1>. QED
  BY <1>2, ConfigInvariance, PTL DEF NoLostUpdate

-----------------------------------------------------------------------------
(***************************************************************************)
(* Moving a configuration: the tables.                                     *)
(***************************************************************************)

\* Links that show something, and one link per token.
SharesShow(d) == \A s \in d["shares"] : s.monitors \cup s.items # {}
TokensNamed(d) == \A x, y \in d["shares"] : x.token = y.token => x.id = y.id

\* A bundle that was read and is well formed.
Read(b) == b \in BundleRecord /\ WellFormed(b) /\ NoneFresh(b.rows, fresh)

\* What is known of an import's bundle at each of its steps. A bundle that
\* replaces was accepted without a look at what is stored.
BundleFits(o) ==
  /\ o.phase \in {"validating", "summarising", "ready"} => Read(o.bundle)
  /\ o.phase \in {"summarising", "ready"} =>
       /\ SharesShow(o.bundle.rows)
       /\ o.replace => Resolves(o.bundle.rows)
  /\ o.phase = "ready" => o.summary = Summary(o.bundle, o.seen, o.replace)

BundlesFit == \A r \in Importers : BundleFits(import[r])

\* The rows an export has read so far, each table at its own time.
ExportedRows(d) ==
  /\ \A t \in Table : Distinct(d[t])
  /\ InApp \notin Ids(d["channels"])
  /\ SharesShow(d) /\ TokensNamed(d) /\ NoneFresh(d, fresh)

ExportFits ==
  /\ export.phase # "idle" => export.want \in Wants
  /\ \A t \in Table :
       export.rows[t] # {} => export.phase # "idle" /\ t \in export.want.contents
  /\ ExportedRows(export.rows)

\* What an export answered with.
BackupFits ==
  export.bundle # NoBundle =>
    /\ Read(export.bundle) /\ Decodes(export.bundle, TRUE)
    /\ SharesShow(export.bundle.rows) /\ TokensNamed(export.bundle.rows)

\* The database, and who has records.
TablesFit ==
  /\ Consistent(db) /\ SharesShow(db) /\ NoneFresh(db, fresh)
  /\ recorded \subseteq Ids(db["monitors"])

TransfersFit ==
  TransfersTypeOK /\ TablesFit /\ BundlesFit /\ ExportFits /\ BackupFits
RowOf(t) ==
  IF t = "monitors" THEN MonitorRow
  ELSE IF t = "channels" THEN ChannelRow
  ELSE IF t = "items" THEN ItemRow ELSE ShareRow

\* A database is a set of rows of its kind per table.
LEMMA RowsByTable ==
  ASSUME NEW d
  PROVE  d \in Rows <=> d \in [Table -> SUBSET AnyRow] /\ \A t \in Table : d[t] \subseteq RowOf(t)
<1>1. \A t \in Table : RowOf(t) \subseteq AnyRow
  BY Zenon DEF RowOf, AnyRow, Table
<1>2. RowOf("monitors") = MonitorRow /\ RowOf("channels") = ChannelRow
      /\ RowOf("items") = ItemRow /\ RowOf("shares") = ShareRow
  BY SMT DEF RowOf
<1>3. (\A t \in Table : d[t] \subseteq RowOf(t))
      <=> /\ d["monitors"] \subseteq MonitorRow /\ d["channels"] \subseteq ChannelRow
          /\ d["items"] \subseteq ItemRow /\ d["shares"] \subseteq ShareRow
  BY <1>2, SMT DEF Table
<1>. QED
  BY <1>3, Zenon DEF Rows

LEMMA RowKinds ==
  /\ RowOf("monitors") = MonitorRow /\ RowOf("channels") = ChannelRow
  /\ RowOf("items") = ItemRow /\ RowOf("shares") = ShareRow
  /\ \A t \in Table : RowOf(t) \subseteq AnyRow
<1>1. \A t \in Table : RowOf(t) \subseteq AnyRow
  BY Zenon DEF RowOf, AnyRow, Table
<1>. QED
  BY <1>1, SMT DEF RowOf

LEMMA TableNames ==
  /\ "monitors" \in Table /\ "channels" \in Table
  /\ "items" \in Table /\ "shares" \in Table
  /\ \A t \in Table : t \in {"monitors", "channels", "items", "shares"}
BY Zenon DEF Table

LEMMA RowsOfTable ==
  ASSUME NEW d \in Rows, NEW t \in Table
  PROVE  /\ d[t] \subseteq RowOf(t)
         /\ d \in [Table -> SUBSET AnyRow]
BY RowsByTable, Zenon

LEMMA NothingIsRows == Nothing \in Rows /\ \A t \in Table : Nothing[t] = {}
<1>1. Nothing \in [Table -> SUBSET AnyRow]
  BY SMT DEF Nothing
<1>2. \A t \in Table : Nothing[t] = {}
  BY Zenon DEF Nothing
<1>. QED
  BY <1>1, <1>2, RowsByTable, SMT

\* A statement changes one table.
Replaced(e, d, t, R) == e = [d EXCEPT ![t] = R]

\* The same, for terms of any shape.
Replacing(e, d, t, R) ==
  d \in Rows /\ t \in Table /\ R \subseteq RowOf(t) /\ Replaced(e, d, t, R)
Changed(e, d, t, R) ==
  e \in Rows /\ e[t] = R /\ \A u \in Table \ {t} : e[u] = d[u]

LEMMA AnyTable ==
  ASSUME NEW d, NEW t, NEW R, NEW e, Replacing(e, d, t, R)
  PROVE  Changed(e, d, t, R)
<1>1. d \in Rows /\ t \in Table /\ R \subseteq RowOf(t) /\ e = [d EXCEPT ![t] = R]
  BY Zenon DEF Replacing, Replaced
<1>2. d \in [Table -> SUBSET AnyRow] /\ \A u \in Table : d[u] \subseteq RowOf(u)
  BY <1>1, RowsByTable, Zenon
<1>3. R \in SUBSET AnyRow
  BY <1>1, RowKinds, Zenon
<1>4. e \in [Table -> SUBSET AnyRow]
  BY <1>1, <1>2, <1>3, SMT
<1>5. e[t] = R /\ \A u \in Table \ {t} : e[u] = d[u]
  BY <1>1, <1>2, SMT
<1>6. \A u \in Table : e[u] \subseteq RowOf(u)
  <2>1. \A u \in Table \ {t} : e[u] \subseteq RowOf(u)
    BY <1>2, <1>5, Zenon
  <2>2. e[t] \subseteq RowOf(t)
    BY <1>1, <1>5, Zenon
  <2>. QED
    BY <2>1, <2>2, SMT
<1>. QED
  BY <1>4, <1>5, <1>6, RowsByTable, Zenon DEF Changed

LEMMA IdsOf ==
  ASSUME NEW R, NEW i
  PROVE  i \in Ids(R) <=> \E x \in R : x.id = i
BY Zenon DEF Ids

LEMMA IdsHas ==
  ASSUME NEW R, NEW x \in R
  PROVE  x.id \in Ids(R)
BY Zenon DEF Ids

LEMMA IdsOfUnion ==
  ASSUME NEW R, NEW N
  PROVE  Ids(R \cup N) = Ids(R) \cup Ids(N)
BY Zenon DEF Ids

LEMMA IdsOfOne ==
  ASSUME NEW x
  PROVE  Ids({x}) = {x.id}
BY Zenon DEF Ids

LEMMA IdsWithout ==
  ASSUME NEW R, NEW S
  PROVE  Ids(Without(R, S)) = Ids(R) \ S
BY Zenon DEF Ids, Without

LEMMA DistinctSubset ==
  ASSUME NEW R, NEW N, Distinct(R), N \subseteq R
  PROVE  Distinct(N)
BY Zenon DEF Distinct

LEMMA DistinctUnion ==
  ASSUME NEW R, NEW N, Distinct(R), Distinct(N), Ids(R) \cap Ids(N) = {}
  PROVE  Distinct(R \cup N)
BY IdsHas, Zenon DEF Distinct

LEMMA DistinctOne ==
  ASSUME NEW x
  PROVE  Distinct({x})
BY Zenon DEF Distinct

\* An upsert keeps the primary key.
LEMMA UpsertedRows ==
  ASSUME NEW R, NEW N, Distinct(R), Distinct(N)
  PROVE  /\ Distinct(Upserted(R, N))
         /\ Ids(Upserted(R, N)) = Ids(R) \cup Ids(N)
         /\ N \subseteq Upserted(R, N) /\ Upserted(R, N) \subseteq R \cup N
<1>1. Distinct(Without(R, Ids(N)))
  BY DistinctSubset, Zenon DEF Without
<1>2. Ids(Without(R, Ids(N))) = Ids(R) \ Ids(N)
  BY IdsWithout, Zenon
<1>3. Distinct(Without(R, Ids(N)) \cup N)
  BY <1>1, <1>2, DistinctUnion, Zenon
<1>4. Ids(Without(R, Ids(N)) \cup N) = (Ids(R) \ Ids(N)) \cup Ids(N)
  <2>1. PICK W : W = Without(R, Ids(N))
    OBVIOUS
  <2>2. Ids(W \cup N) = Ids(W) \cup Ids(N)
    BY IdsOfUnion, Zenon
  <2>. QED
    BY <1>2, <2>1, <2>2, Zenon
<1>5. (Ids(R) \ Ids(N)) \cup Ids(N) = Ids(R) \cup Ids(N)
  BY Zenon
<1>6. Upserted(R, N) = Without(R, Ids(N)) \cup N
  BY Zenon DEF Upserted
<1>7. Without(R, Ids(N)) \subseteq R
  BY Zenon DEF Without
<1>8. N \subseteq Upserted(R, N) /\ Upserted(R, N) \subseteq R \cup N
  BY <1>6, <1>7, SMT
<1>. QED
  BY <1>3, <1>4, <1>5, <1>6, <1>8, Zenon


\* Ids that were given out stay given out.
LEMMA StaleStays ==
  ASSUME NEW d, NEW S, NEW T, T \subseteq S, NoneFresh(d, S)
  PROVE  NoneFresh(d, T)
BY Zenon DEF NoneFresh

\* What imports and the export hold survives an edit of the database.
LEMMA HeldStays ==
  ASSUME TransfersFit, import' = import, export' = export, fresh' \subseteq fresh
  PROVE  BundlesFit' /\ ExportFits' /\ BackupFits'
<1>1. BundlesFit'
  <2>1. ASSUME NEW r \in Importers
        PROVE  BundleFits(import[r])'
    <3>1. BundleFits(import[r]) /\ import'[r] = import[r]
      BY Zenon DEF TransfersFit, BundlesFit
    <3>2. Read(import[r].bundle) => Read(import[r].bundle)'
      BY StaleStays, Zenon DEF Read
    <3>. QED
      BY <3>1, <3>2, Zenon DEF BundleFits
  <2>. QED
    BY <2>1, Zenon DEF BundlesFit
<1>2. ExportFits'
  <2>1. NoneFresh(export.rows, fresh')
    BY StaleStays, Zenon DEF TransfersFit, ExportFits, ExportedRows
  <2>. QED
    BY <2>1, Zenon DEF TransfersFit, ExportFits, ExportedRows
<1>3. BackupFits'
  <2>. SUFFICES ASSUME export.bundle # NoBundle
                PROVE  /\ Read(export.bundle)' /\ Decodes(export.bundle, TRUE)
                       /\ SharesShow(export.bundle.rows) /\ TokensNamed(export.bundle.rows)
    BY Zenon DEF BackupFits
  <2>1. Read(export.bundle)
    BY Zenon DEF TransfersFit, BackupFits
  <2>2. NoneFresh(export.bundle.rows, fresh')
    BY <2>1, StaleStays, Zenon DEF Read
  <2>3. Read(export.bundle)'
    BY <2>1, <2>2, Zenon DEF Read
  <2>. QED
    BY <2>3, Zenon DEF TransfersFit, BackupFits
<1>. QED
  BY <1>1, <1>2, <1>3, Zenon


\* What an edit has to keep.
LEMMA EditFits ==
  ASSUME TransfersFit, Editing, NEW d \in Rows, Edit(d), fresh' \subseteq fresh,
         \A t \in Table : Distinct(d[t]), Consistent(d), SharesShow(d),
         NoneFresh(d, fresh'), recorded' \subseteq Ids(d["monitors"])
  PROVE  TransfersFit'
<1>1. db' = d /\ edits' = edits + 1 /\ import' = import /\ export' = export
  BY Zenon DEF Edit
<1>2. BundlesFit' /\ ExportFits' /\ BackupFits'
  BY <1>1, HeldStays, Zenon
<1>3. TablesFit'
  BY <1>1, Zenon DEF TablesFit
<1>4. Ids(d["monitors"]) \subseteq Monitors
  <2>1. d["monitors"] \subseteq MonitorRow
    BY RowsOfTable, RowKinds, TableNames, Zenon
  <2>2. \A x \in MonitorRow : x.id \in Monitors
    BY SMT DEF MonitorRow
  <2>. QED
    BY <2>1, <2>2, IdsOf, Zenon
<1>5. edits' \in 0..MaxEdits
  <2>1. edits \in 0..MaxEdits /\ MaxEdits \in Nat
    BY TransferAssumption, Zenon DEF TransfersFit, TransfersTypeOK
  <2>. QED
    BY <2>1, <1>1, SMT DEF Editing
<1>6. TransfersTypeOK'
  BY <1>1, <1>4, <1>5, Zenon DEF TransfersFit, TransfersTypeOK
<1>. QED
  BY <1>2, <1>3, <1>6, Zenon DEF TransfersFit

\* A statement on another table than that of the links, and one on it. The ids
\* in S are still to be given out when it is done.
NewTable(e, t, R, S) ==
  /\ t \in Table /\ t # "shares" /\ R \subseteq RowOf(t) /\ Distinct(R)
  /\ S \subseteq fresh /\ Ids(R) \cap S = {}
  /\ Replaced(e, db, t, R)

NewShares(e, R, S) ==
  /\ R \subseteq ShareRow /\ Distinct(R) /\ S \subseteq fresh
  /\ \A x \in R : /\ x.id \notin S /\ x.token \notin S
                  /\ x.monitors \cup x.items # {}
  /\ \A x, y \in R : x.token = y.token => x = y
  /\ Replaced(e, db, "shares", R)

LEMMA ChangedTable ==
  ASSUME TransfersFit, NEW t, NEW R, NEW S, NEW e, NewTable(e, t, R, S)
  PROVE  /\ e \in Rows /\ e[t] = R /\ \A u \in Table \ {t} : e[u] = db[u]
         /\ \A u \in Table : Distinct(e[u])
         /\ NoneFresh(e, S) /\ SharesShow(e)
         /\ \A x, y \in e["shares"] : x.token = y.token => x = y
<1>. t \in Table /\ t # "shares" /\ R \subseteq RowOf(t) /\ Distinct(R)
     /\ S \subseteq fresh /\ Ids(R) \cap S = {} /\ Replaced(e, db, t, R)
  BY Zenon DEF NewTable
<1>1. db \in Rows /\ \A u \in Table : Distinct(db[u])
  BY Zenon DEF TransfersFit, TransfersTypeOK
<1>2. e \in Rows /\ e[t] = R /\ \A u \in Table \ {t} : e[u] = db[u]
  <2>1. Replacing(e, db, t, R)
    BY <1>1, Zenon DEF Replacing
  <2>2. Changed(e, db, t, R)
    BY <2>1, AnyTable, Zenon
  <2>. QED
    BY <2>2, Zenon DEF Changed
<1>3. \A u \in Table : Distinct(e[u])
  BY <1>1, <1>2, Zenon
<1>4. NoneFresh(db, S)
  BY StaleStays, Zenon DEF TransfersFit, TablesFit
<1>5. e["shares"] = db["shares"]
  BY <1>2, TableNames, Zenon
<1>6. NoneFresh(e, S)
  <2>1. \A u \in Table : Ids(e[u]) \cap S = {}
    BY <1>2, <1>4, Zenon DEF NoneFresh
  <2>. QED
    BY <1>4, <1>5, <2>1, Zenon DEF NoneFresh
<1>7. SharesShow(e) /\ \A x, y \in e["shares"] : x.token = y.token => x = y
  BY <1>5, Zenon DEF TransfersFit, TablesFit, SharesShow, Consistent
<1>. QED
  BY <1>2, <1>3, <1>6, <1>7, Zenon

LEMMA ChangedShares ==
  ASSUME TransfersFit, NEW R, NEW S, NEW e, NewShares(e, R, S)
  PROVE  /\ e \in Rows /\ e["shares"] = R /\ e["monitors"] = db["monitors"]
         /\ \A u \in Table : Distinct(e[u])
         /\ NoneFresh(e, S) /\ SharesShow(e) /\ Consistent(e)
<1>. R \subseteq ShareRow /\ Distinct(R) /\ S \subseteq fresh
     /\ (\A x \in R : /\ x.id \notin S /\ x.token \notin S
                      /\ x.monitors \cup x.items # {})
     /\ (\A x, y \in R : x.token = y.token => x = y)
     /\ Replaced(e, db, "shares", R)
  BY Zenon DEF NewShares
<1>1. db \in Rows /\ \A u \in Table : Distinct(db[u])
  BY Zenon DEF TransfersFit, TransfersTypeOK
<1>2. "shares" \in Table /\ RowOf("shares") = ShareRow
  BY TableNames, RowKinds, Zenon
<1>3. e \in Rows /\ e["shares"] = R /\ \A u \in Table \ {"shares"} : e[u] = db[u]
  <2>1. PICK t \in Table : t = "shares"
    BY <1>2, Zenon
  <2>2. R \subseteq RowOf(t) /\ Replaced(e, db, t, R)
    BY <1>2, <2>1, Zenon
  <2>3. e \in Rows /\ e[t] = R /\ \A u \in Table \ {t} : e[u] = db[u]
    <3>1. Replacing(e, db, t, R)
      BY <1>1, <2>2, Zenon DEF Replacing
    <3>2. Changed(e, db, t, R)
      BY <3>1, AnyTable, Zenon
    <3>. QED
      BY <3>2, Zenon DEF Changed
  <2>. QED
    BY <2>1, <2>3, Zenon
<1>4. \A u \in Table : Distinct(e[u])
  BY <1>1, <1>3, Zenon
<1>5. e["monitors"] = db["monitors"] /\ e["items"] = db["items"]
  <2>1. "monitors" \in Table \ {"shares"} /\ "items" \in Table \ {"shares"}
    BY SMT DEF Table
  <2>. QED
    BY <2>1, <1>3, Zenon
<1>6. NoneFresh(e, S)
  <2>1. NoneFresh(db, S)
    BY StaleStays, Zenon DEF TransfersFit, TablesFit
  <2>2. \A i \in Ids(R) : i \notin S
    BY Zenon DEF Ids
  <2>3. \A u \in Table : Ids(e[u]) \cap S = {}
    BY <1>3, <2>1, <2>2, Zenon DEF NoneFresh
  <2>. QED
    BY <1>3, <2>3, Zenon DEF NoneFresh
<1>7. SharesShow(e)
  BY <1>3, Zenon DEF SharesShow
<1>8. Consistent(e)
  BY <1>3, <1>5, Zenon DEF TransfersFit, TablesFit, Consistent
<1>. QED
  BY <1>3, <1>4, <1>5, <1>6, <1>7, <1>8, Zenon

\* A row that is added, in place of one or with an id of its own.
LEMMA AddedRow ==
  ASSUME NEW R, Distinct(R), NEW x, x.id \notin Ids(R)
  PROVE  Distinct(R \cup {x}) /\ Ids(R \cup {x}) = Ids(R) \cup {x.id}
<1>1. Ids({x}) = {x.id} /\ Distinct({x})
  BY IdsOfOne, DistinctOne, Zenon
<1>2. Ids(R) \cap Ids({x}) = {}
  BY <1>1, Zenon
<1>3. Distinct(R \cup {x})
  BY <1>1, <1>2, DistinctUnion, Zenon
<1>4. Ids(R \cup {x}) = Ids(R) \cup Ids({x})
  BY IdsOfUnion, Zenon
<1>. QED
  BY <1>1, <1>3, <1>4, Zenon

LEMMA PutRow ==
  ASSUME NEW R, Distinct(R), NEW x
  PROVE  /\ Distinct(Upserted(R, {x})) /\ Ids(Upserted(R, {x})) = Ids(R) \cup {x.id}
         /\ \A y \in Upserted(R, {x}) : y = x \/ (y \in R /\ y.id # x.id)
<1>1. Ids({x}) = {x.id} /\ Distinct({x})
  BY IdsOfOne, DistinctOne, Zenon
<1>2. Distinct(Upserted(R, {x})) /\ Ids(Upserted(R, {x})) = Ids(R) \cup Ids({x})
  BY <1>1, UpsertedRows, Zenon
<1>3. \A y \in Upserted(R, {x}) : y = x \/ (y \in R /\ y.id # x.id)
  BY <1>1, Zenon DEF Upserted, Without
<1>. QED
  BY <1>1, <1>2, <1>3, Zenon


LEMMA FitFacts ==
  ASSUME TransfersFit
  PROVE  /\ db \in Rows /\ \A t \in Table : Distinct(db[t])
         /\ Consistent(db) /\ SharesShow(db) /\ NoneFresh(db, fresh)
         /\ \A t \in Table : Ids(db[t]) \cap fresh = {}
         /\ recorded \subseteq Ids(db["monitors"]) /\ fresh \subseteq Fresh
         /\ import \in [Importers -> ImportRecord] /\ export \in ExportRecord
BY Zenon DEF TransfersFit, TransfersTypeOK, TablesFit, NoneFresh

LEMMA TableRows ==
  ASSUME NEW d \in Rows
  PROVE  /\ d["monitors"] \subseteq MonitorRow /\ d["channels"] \subseteq ChannelRow
         /\ d["items"] \subseteq ItemRow /\ d["shares"] \subseteq ShareRow
BY Zenon DEF Rows

LEMMA MonitorsEdited ==
  ASSUME TransfersFit, Editing, NEW R, R \subseteq MonitorRow, Distinct(R),
         Ids(db["monitors"]) \subseteq Ids(R), Ids(R) \cap fresh' = {},
         fresh' \subseteq fresh, recorded' = recorded,
         NEW e, Replaced(e, db, "monitors", R), Edit(e)
  PROVE  TransfersFit'
<1>1. PICK t \in Table : t = "monitors"
  BY TableNames, Zenon
<1>2. R \subseteq RowOf(t) /\ Replaced(e, db, t, R) /\ t # "shares"
  BY <1>1, RowKinds, SMT
<1>3. PICK S : S = fresh'
  OBVIOUS
<1>4. NewTable(e, t, R, S)
  BY <1>2, <1>3, SMT DEF NewTable
<1>5. /\ e \in Rows /\ e[t] = R /\ \A u \in Table \ {t} : e[u] = db[u]
      /\ \A u \in Table : Distinct(e[u])
      /\ NoneFresh(e, S) /\ SharesShow(e)
      /\ \A x, y \in e["shares"] : x.token = y.token => x = y
  BY <1>4, ChangedTable
<1>6. e["items"] = db["items"]
  BY <1>1, <1>5, TableNames, SMT
<1>7. Consistent(e)
  BY <1>1, <1>5, <1>6, FitFacts, Zenon DEF Consistent
<1>8. recorded' \subseteq Ids(e["monitors"])
  BY <1>1, <1>5, FitFacts, Zenon
<1>9. NoneFresh(e, fresh')
  BY <1>3, <1>5
<1>. QED
  BY <1>5, <1>7, <1>8, <1>9, EditFits, Zenon

LEMMA ChannelsEdited ==
  ASSUME TransfersFit, Editing, NEW R, R \subseteq ChannelRow, Distinct(R),
         Ids(R) \cap fresh' = {}, fresh' \subseteq fresh, recorded' = recorded,
         NEW e, Replaced(e, db, "channels", R), Edit(e)
  PROVE  TransfersFit'
<1>1. PICK t \in Table : t = "channels"
  BY TableNames, Zenon
<1>2. R \subseteq RowOf(t) /\ Replaced(e, db, t, R) /\ t # "shares"
  BY <1>1, RowKinds, SMT
<1>3. PICK S : S = fresh'
  OBVIOUS
<1>4. NewTable(e, t, R, S)
  BY <1>2, <1>3, SMT DEF NewTable
<1>5. /\ e \in Rows /\ e[t] = R /\ \A u \in Table \ {t} : e[u] = db[u]
      /\ \A u \in Table : Distinct(e[u])
      /\ NoneFresh(e, S) /\ SharesShow(e)
      /\ \A x, y \in e["shares"] : x.token = y.token => x = y
  BY <1>4, ChangedTable
<1>6. e["items"] = db["items"] /\ e["monitors"] = db["monitors"]
  BY <1>1, <1>5, TableNames, SMT
<1>7. Consistent(e)
  BY <1>5, <1>6, FitFacts, Zenon DEF Consistent
<1>8. recorded' \subseteq Ids(e["monitors"])
  BY <1>6, FitFacts, Zenon
<1>9. NoneFresh(e, fresh')
  BY <1>3, <1>5
<1>. QED
  BY <1>5, <1>7, <1>8, <1>9, EditFits, Zenon

LEMMA ItemsEdited ==
  ASSUME TransfersFit, Editing, NEW R, R \subseteq ItemRow, Distinct(R),
         \A i \in R : i.monitor \in Ids(db["monitors"]),
         Ids(R) \cap fresh' = {}, fresh' \subseteq fresh, recorded' = recorded,
         NEW e, Replaced(e, db, "items", R), Edit(e)
  PROVE  TransfersFit'
<1>1. PICK t \in Table : t = "items"
  BY TableNames, Zenon
<1>2. R \subseteq RowOf(t) /\ Replaced(e, db, t, R) /\ t # "shares"
  BY <1>1, RowKinds, SMT
<1>3. PICK S : S = fresh'
  OBVIOUS
<1>4. NewTable(e, t, R, S)
  BY <1>2, <1>3, SMT DEF NewTable
<1>5. /\ e \in Rows /\ e[t] = R /\ \A u \in Table \ {t} : e[u] = db[u]
      /\ \A u \in Table : Distinct(e[u])
      /\ NoneFresh(e, S) /\ SharesShow(e)
      /\ \A x, y \in e["shares"] : x.token = y.token => x = y
  BY <1>4, ChangedTable
<1>6. e["monitors"] = db["monitors"]
  BY <1>1, <1>5, TableNames, SMT
<1>7. Consistent(e)
  BY <1>1, <1>5, <1>6, Zenon DEF Consistent
<1>8. recorded' \subseteq Ids(e["monitors"])
  BY <1>6, FitFacts, Zenon
<1>9. NoneFresh(e, fresh')
  BY <1>3, <1>5
<1>. QED
  BY <1>5, <1>7, <1>8, <1>9, EditFits, Zenon

LEMMA SharesEdited ==
  ASSUME TransfersFit, Editing, NEW R, R \subseteq ShareRow, Distinct(R),
         \A x \in R : /\ x.id \notin fresh' /\ x.token \notin fresh'
                      /\ x.monitors \cup x.items # {},
         \A x, y \in R : x.token = y.token => x = y,
         fresh' \subseteq fresh, recorded' = recorded,
         NEW e, Replaced(e, db, "shares", R), Edit(e)
  PROVE  TransfersFit'
<1>3. PICK S : S = fresh'
  OBVIOUS
<1>4. NewShares(e, R, S)
  BY <1>3, Zenon DEF NewShares
<1>5. /\ e \in Rows /\ e["shares"] = R /\ e["monitors"] = db["monitors"]
      /\ \A u \in Table : Distinct(e[u])
      /\ NoneFresh(e, S) /\ SharesShow(e) /\ Consistent(e)
  BY <1>4, ChangedShares, Zenon
<1>8. recorded' \subseteq Ids(e["monitors"])
  BY <1>5, FitFacts, Zenon
<1>9. NoneFresh(e, fresh')
  BY <1>3, <1>5
<1>. QED
  BY <1>5, <1>8, <1>9, EditFits, Zenon


LEMMA MonitorEdits ==
  ASSUME TransfersFit, NEW m \in Monitors, CreateMonitor(m) \/ UpdateMonitor(m)
  PROVE  TransfersFit'
<1>0. db["monitors"] \subseteq MonitorRow /\ Distinct(db["monitors"])
      /\ Ids(db["monitors"]) \cap fresh = {}
  BY FitFacts, TableRows, TableNames, Zenon
<1>1. ASSUME NEW cs \in ChannelSets
      PROVE  [id |-> m, channels |-> cs] \in MonitorRow
             /\ [id |-> m, channels |-> cs].id = m
  <2>1. cs \in SUBSET Channels
    BY TransferAssumption, Zenon
  <2>. QED
    BY <2>1, SMT DEF MonitorRow
<1>2. CASE CreateMonitor(m)
  <2>1. Editing /\ m \in fresh /\ fresh' = fresh \ {m} /\ recorded' = recorded
    BY <1>2, Zenon DEF CreateMonitor, Give
  <2>2. PICK cs \in ChannelSets :
          Edit([db EXCEPT !["monitors"] = @ \cup {[id |-> m, channels |-> cs]}])
    BY <1>2, Zenon DEF CreateMonitor
  <2>3. PICK x : x = [id |-> m, channels |-> cs]
    OBVIOUS
  <2>4. PICK R : R = db["monitors"] \cup {x}
    OBVIOUS
  <2>5. PICK e : e = [db EXCEPT !["monitors"] = R]
    OBVIOUS
  <2>6. Edit(e)
    BY <2>2, <2>3, <2>4, <2>5
  <2>7. Replaced(e, db, "monitors", R)
    BY <2>5 DEF Replaced
  <2>8. x \in MonitorRow /\ x.id = m
    BY <1>1, <2>3
  <2>9. R \subseteq MonitorRow
    BY <1>0, <2>4, <2>8, Zenon
  <2>10. m \notin Ids(db["monitors"])
    BY <1>0, <2>1, Zenon
  <2>11. Distinct(R) /\ Ids(R) = Ids(db["monitors"]) \cup {m}
    BY <1>0, <2>4, <2>8, <2>10, AddedRow, Zenon
  <2>12. fresh' \subseteq fresh /\ Ids(R) \cap fresh' = {}
    BY <1>0, <2>1, <2>11, Zenon
  <2>13. Ids(db["monitors"]) \subseteq Ids(R)
    BY <2>11, Zenon
  <2>. QED
    BY <2>1, <2>6, <2>7, <2>9, <2>11, <2>12, <2>13, MonitorsEdited, Zenon
<1>3. CASE UpdateMonitor(m)
  <2>1. Editing /\ m \in Ids(db["monitors"]) /\ fresh' = fresh /\ recorded' = recorded
    BY <1>3, Zenon DEF UpdateMonitor
  <2>2. PICK cs \in ChannelSets :
          Edit([db EXCEPT !["monitors"] = Upserted(@, {[id |-> m, channels |-> cs]})])
    BY <1>3, Zenon DEF UpdateMonitor
  <2>3. PICK x : x = [id |-> m, channels |-> cs]
    OBVIOUS
  <2>4. PICK R : R = Upserted(db["monitors"], {x})
    OBVIOUS
  <2>5. PICK e : e = [db EXCEPT !["monitors"] = R]
    OBVIOUS
  <2>6. Edit(e)
    BY <2>2, <2>3, <2>4, <2>5
  <2>7. Replaced(e, db, "monitors", R)
    BY <2>5 DEF Replaced
  <2>8. x \in MonitorRow /\ x.id = m
    BY <1>1, <2>3
  <2>9. Distinct(R) /\ Ids(R) = Ids(db["monitors"]) \cup {m}
        /\ \A y \in R : y = x \/ (y \in db["monitors"] /\ y.id # m)
    <3>1. /\ Distinct(Upserted(db["monitors"], {x}))
          /\ Ids(Upserted(db["monitors"], {x})) = Ids(db["monitors"]) \cup {x.id}
          /\ \A y \in Upserted(db["monitors"], {x}) :
               y = x \/ (y \in db["monitors"] /\ y.id # x.id)
      BY <1>0, PutRow, Zenon
    <3>. QED
      BY <2>4, <2>8, <3>1, Zenon
  <2>10. R \subseteq MonitorRow
    BY <1>0, <2>8, <2>9, Zenon
  <2>12. fresh' \subseteq fresh /\ Ids(R) \cap fresh' = {}
    BY <1>0, <2>1, <2>9, Zenon
  <2>13. Ids(db["monitors"]) \subseteq Ids(R)
    BY <2>9, Zenon
  <2>. QED
    BY <2>1, <2>6, <2>7, <2>9, <2>10, <2>12, <2>13, MonitorsEdited, Zenon
<1>. QED
  BY <1>2, <1>3

LEMMA ChannelEdits ==
  ASSUME TransfersFit, NEW c \in Channels, CreateChannel(c) \/ DeleteChannel(c)
  PROVE  TransfersFit'
<1>0. db["channels"] \subseteq ChannelRow /\ Distinct(db["channels"])
      /\ Ids(db["channels"]) \cap fresh = {}
  BY FitFacts, TableRows, TableNames, Zenon
<1>2. CASE CreateChannel(c)
  <2>1. Editing /\ c \in fresh /\ fresh' = fresh \ {c} /\ recorded' = recorded
    BY <1>2, Zenon DEF CreateChannel, Give
  <2>2. Edit([db EXCEPT !["channels"] = @ \cup {[id |-> c]}])
    BY <1>2, Zenon DEF CreateChannel
  <2>3. PICK x : x = [id |-> c]
    OBVIOUS
  <2>4. PICK R : R = db["channels"] \cup {x}
    OBVIOUS
  <2>5. PICK e : e = [db EXCEPT !["channels"] = R]
    OBVIOUS
  <2>6. Edit(e)
    BY <2>2, <2>3, <2>4, <2>5
  <2>7. Replaced(e, db, "channels", R)
    BY <2>5 DEF Replaced
  <2>8. x \in ChannelRow /\ x.id = c
    BY <2>3, SMT DEF ChannelRow
  <2>9. R \subseteq ChannelRow
    BY <1>0, <2>4, <2>8, Zenon
  <2>10. c \notin Ids(db["channels"])
    BY <1>0, <2>1, Zenon
  <2>11. Distinct(R) /\ Ids(R) = Ids(db["channels"]) \cup {c}
    BY <1>0, <2>4, <2>8, <2>10, AddedRow, Zenon
  <2>12. fresh' \subseteq fresh /\ Ids(R) \cap fresh' = {}
    BY <1>0, <2>1, <2>11, Zenon
  <2>. QED
    BY <2>1, <2>6, <2>7, <2>9, <2>11, <2>12, ChannelsEdited, Zenon
<1>3. CASE DeleteChannel(c)
  <2>1. Editing /\ fresh' = fresh /\ recorded' = recorded
    BY <1>3, Zenon DEF DeleteChannel
  <2>2. Edit([db EXCEPT !["channels"] = Without(@, {c})])
    BY <1>3, Zenon DEF DeleteChannel
  <2>4. PICK R : R = Without(db["channels"], {c})
    OBVIOUS
  <2>5. PICK e : e = [db EXCEPT !["channels"] = R]
    OBVIOUS
  <2>6. Edit(e)
    BY <2>2, <2>4, <2>5
  <2>7. Replaced(e, db, "channels", R)
    BY <2>5 DEF Replaced
  <2>8. R \subseteq db["channels"]
    BY <2>4, Zenon DEF Without
  <2>9. R \subseteq ChannelRow /\ Distinct(R)
    BY <1>0, <2>8, DistinctSubset, Zenon
  <2>10. Ids(R) = Ids(db["channels"]) \ {c}
    BY <2>4, IdsWithout, Zenon
  <2>12. fresh' \subseteq fresh /\ Ids(R) \cap fresh' = {}
    BY <1>0, <2>1, <2>10, Zenon
  <2>. QED
    BY <2>1, <2>6, <2>7, <2>9, <2>12, ChannelsEdited, Zenon
<1>. QED
  BY <1>2, <1>3


LEMMA ItemEdits ==
  ASSUME TransfersFit, NEW i \in Items, CreateItem(i) \/ UpdateItem(i) \/ DeleteItem(i)
  PROVE  TransfersFit'
<1>0. db["items"] \subseteq ItemRow /\ Distinct(db["items"])
      /\ Ids(db["items"]) \cap fresh = {} /\ db["monitors"] \subseteq MonitorRow
      /\ \A y \in db["items"] : y.monitor \in Ids(db["monitors"])
  BY FitFacts, TableRows, TableNames, Zenon DEF Consistent
<1>1. ASSUME NEW cs \in ChannelSets, NEW m \in Ids(db["monitors"]),
             NEW x, x = [id |-> i, monitor |-> m, channels |-> cs]
      PROVE  x \in ItemRow /\ x.id = i /\ x.monitor \in Ids(db["monitors"])
  <2>1. cs \in SUBSET Channels
    BY TransferAssumption, Zenon
  <2>2. PICK y \in db["monitors"] : y.id = m
    BY IdsOf, Zenon
  <2>3. y \in MonitorRow
    BY <1>0, Zenon
  <2>4. m \in Monitors
    BY <2>2, <2>3, SMT DEF MonitorRow
  <2>5. x \in ItemRow /\ x.id = i /\ x.monitor = m
    BY <1>1, <2>1, <2>4, SMT DEF ItemRow
  <2>. QED
    BY <2>5, Zenon
<1>2. CASE CreateItem(i)
  <2>1. Editing /\ i \in fresh /\ fresh' = fresh \ {i} /\ recorded' = recorded
    BY <1>2, Zenon DEF CreateItem, Give
  <2>2. PICK m \in Ids(db["monitors"]), cs \in ChannelSets :
          Edit([db EXCEPT !["items"] =
            @ \cup {[id |-> i, monitor |-> m, channels |-> cs]}])
    BY <1>2, Zenon DEF CreateItem
  <2>3. PICK x : x = [id |-> i, monitor |-> m, channels |-> cs]
    OBVIOUS
  <2>4. PICK R : R = db["items"] \cup {x}
    OBVIOUS
  <2>5. PICK e : e = [db EXCEPT !["items"] = R]
    OBVIOUS
  <2>6. Edit(e)
    BY <2>2, <2>3, <2>4, <2>5
  <2>7. Replaced(e, db, "items", R)
    BY <2>5 DEF Replaced
  <2>8. x \in ItemRow /\ x.id = i /\ x.monitor \in Ids(db["monitors"])
    BY <1>1, <2>3, Zenon
  <2>9. R \subseteq ItemRow /\ \A y \in R : y.monitor \in Ids(db["monitors"])
    BY <1>0, <2>4, <2>8, Zenon
  <2>10. i \notin Ids(db["items"])
    BY <1>0, <2>1, Zenon
  <2>11. Distinct(R) /\ Ids(R) = Ids(db["items"]) \cup {i}
    BY <1>0, <2>4, <2>8, <2>10, AddedRow, Zenon
  <2>12. fresh' \subseteq fresh /\ Ids(R) \cap fresh' = {}
    BY <1>0, <2>1, <2>11, Zenon
  <2>. QED
    BY <2>1, <2>6, <2>7, <2>9, <2>11, <2>12, ItemsEdited, Zenon
<1>3. CASE UpdateItem(i)
  <2>1. Editing /\ i \in Ids(db["items"]) /\ fresh' = fresh /\ recorded' = recorded
    BY <1>3, Zenon DEF UpdateItem
  <2>2. PICK m \in Ids(db["monitors"]), cs \in ChannelSets :
          Edit([db EXCEPT !["items"] =
            Upserted(@, {[id |-> i, monitor |-> m, channels |-> cs]})])
    BY <1>3, Zenon DEF UpdateItem
  <2>3. PICK x : x = [id |-> i, monitor |-> m, channels |-> cs]
    OBVIOUS
  <2>4. PICK R : R = Upserted(db["items"], {x})
    OBVIOUS
  <2>5. PICK e : e = [db EXCEPT !["items"] = R]
    OBVIOUS
  <2>6. Edit(e)
    BY <2>2, <2>3, <2>4, <2>5
  <2>7. Replaced(e, db, "items", R)
    BY <2>5 DEF Replaced
  <2>8. x \in ItemRow /\ x.id = i /\ x.monitor \in Ids(db["monitors"])
    BY <1>1, <2>3, Zenon
  <2>9. /\ Distinct(Upserted(db["items"], {x}))
        /\ Ids(Upserted(db["items"], {x})) = Ids(db["items"]) \cup {x.id}
        /\ \A y \in Upserted(db["items"], {x}) :
             y = x \/ (y \in db["items"] /\ y.id # x.id)
    BY <1>0, PutRow, Zenon
  <2>10. Distinct(R) /\ Ids(R) = Ids(db["items"]) \cup {i}
         /\ \A y \in R : y = x \/ y \in db["items"]
    BY <2>4, <2>8, <2>9, Zenon
  <2>11. R \subseteq ItemRow /\ \A y \in R : y.monitor \in Ids(db["monitors"])
    BY <1>0, <2>8, <2>10, Zenon
  <2>12. fresh' \subseteq fresh /\ Ids(R) \cap fresh' = {}
    BY <1>0, <2>1, <2>10, Zenon
  <2>. QED
    BY <2>1, <2>6, <2>7, <2>10, <2>11, <2>12, ItemsEdited, Zenon
<1>4. CASE DeleteItem(i)
  <2>1. Editing /\ fresh' = fresh /\ recorded' = recorded
    BY <1>4, Zenon DEF DeleteItem
  <2>2. Edit([db EXCEPT !["items"] = Without(@, {i})])
    BY <1>4, Zenon DEF DeleteItem
  <2>4. PICK R : R = Without(db["items"], {i})
    OBVIOUS
  <2>5. PICK e : e = [db EXCEPT !["items"] = R]
    OBVIOUS
  <2>6. Edit(e)
    BY <2>2, <2>4, <2>5
  <2>7. Replaced(e, db, "items", R)
    BY <2>5 DEF Replaced
  <2>8. R \subseteq db["items"]
    BY <2>4, Zenon DEF Without
  <2>9. R \subseteq ItemRow /\ Distinct(R) /\ \A y \in R : y.monitor \in Ids(db["monitors"])
    BY <1>0, <2>8, DistinctSubset, Zenon
  <2>10. Ids(R) = Ids(db["items"]) \ {i}
    BY <2>4, IdsWithout, Zenon
  <2>12. fresh' \subseteq fresh /\ Ids(R) \cap fresh' = {}
    BY <1>0, <2>1, <2>10, Zenon
  <2>. QED
    BY <2>1, <2>6, <2>7, <2>9, <2>12, ItemsEdited, Zenon
<1>. QED
  BY <1>2, <1>3, <1>4

\* Deleting a monitor: the statements on two tables in one step.
LEMMA MonitorDeleted ==
  ASSUME TransfersFit, NEW m \in Monitors, DeleteMonitor(m)
  PROVE  TransfersFit'
<1>0. db["items"] \subseteq ItemRow /\ Distinct(db["items"])
      /\ Ids(db["items"]) \cap fresh = {} /\ Ids(db["monitors"]) \cap fresh = {}
      /\ db["monitors"] \subseteq MonitorRow /\ Distinct(db["monitors"])
      /\ \A y \in db["items"] : y.monitor \in Ids(db["monitors"])
  BY FitFacts, TableRows, TableNames, Zenon DEF Consistent
<1>1. Editing /\ fresh' = fresh /\ recorded' = recorded \ {m}
  BY Zenon DEF DeleteMonitor
<1>2. Edit([db EXCEPT !["monitors"] = Without(@, {m}),
                      !["items"] = {i \in @ : i.monitor # m}])
  BY Zenon DEF DeleteMonitor
<1>3. PICK M : M = Without(db["monitors"], {m})
  OBVIOUS
<1>4. PICK R : R = {i \in db["items"] : i.monitor # m}
  OBVIOUS
<1>5. PICK f : f = [db EXCEPT !["monitors"] = M]
  OBVIOUS
<1>6. PICK e : e = [f EXCEPT !["items"] = R]
  OBVIOUS
<1>7. f["items"] = db["items"] /\ db \in [Table -> SUBSET AnyRow]
  BY <1>5, FitFacts, TableNames, RowsOfTable, SMT
<1>8. Edit(e)
  <2>1. e = [db EXCEPT !["monitors"] = Without(@, {m}),
                       !["items"] = {i \in @ : i.monitor # m}]
    BY <1>3, <1>4, <1>5, <1>6, <1>7, SMT
  <2>. QED
    BY <1>2, <2>1
<1>9. Replaced(f, db, "monitors", M) /\ Replaced(e, f, "items", R)
  BY <1>5, <1>6 DEF Replaced
<1>10. M \subseteq db["monitors"] /\ Ids(M) = Ids(db["monitors"]) \ {m}
  BY <1>3, IdsWithout, Zenon DEF Without
<1>11. R \subseteq db["items"] /\ \A y \in R : y.monitor \in Ids(db["monitors"]) \ {m}
  BY <1>0, <1>4, Zenon
<1>12. PICK t \in Table : t = "monitors"
  BY TableNames, Zenon
<1>13. M \subseteq MonitorRow /\ Distinct(M) /\ Ids(M) \cap fresh = {}
  BY <1>0, <1>10, DistinctSubset, Zenon
<1>14. M \subseteq RowOf(t) /\ t # "shares"
  BY <1>12, <1>13, RowKinds, SMT
<1>15. NewTable(f, t, M, fresh)
  BY <1>9, <1>12, <1>13, <1>14, SMT DEF NewTable
<1>16. /\ f \in Rows /\ f[t] = M /\ \A u \in Table \ {t} : f[u] = db[u]
       /\ \A u \in Table : Distinct(f[u])
       /\ NoneFresh(f, fresh) /\ SharesShow(f)
       /\ \A x, y \in f["shares"] : x.token = y.token => x = y
  BY <1>15, ChangedTable
<1>17. PICK s \in Table : s = "items"
  BY TableNames, Zenon
<1>18. R \subseteq RowOf(s) /\ Replaced(e, f, s, R)
  BY <1>0, <1>9, <1>11, <1>17, RowKinds, SMT
<1>19. e \in Rows /\ e[s] = R /\ \A u \in Table \ {s} : e[u] = f[u]
  <2>1. Replacing(e, f, s, R)
    BY <1>16, <1>18, Zenon DEF Replacing
  <2>2. Changed(e, f, s, R)
    BY <2>1, AnyTable, Zenon
  <2>. QED
    BY <2>2, Zenon DEF Changed
<1>20. e["items"] = R /\ e["monitors"] = M /\ e["shares"] = f["shares"]
  BY <1>12, <1>16, <1>17, <1>19, TableNames, SMT
<1>21. Distinct(R) /\ Ids(R) \cap fresh = {}
  <2>1. Ids(R) \subseteq Ids(db["items"])
    BY <1>11, Zenon DEF Ids
  <2>. QED
    BY <1>0, <1>11, <2>1, DistinctSubset, Zenon
<1>22. \A u \in Table : Distinct(e[u])
  BY <1>16, <1>19, <1>21, Zenon
<1>23. NoneFresh(e, fresh)
  <2>1. \A u \in Table : Ids(e[u]) \cap fresh = {}
    BY <1>16, <1>19, <1>21, Zenon DEF NoneFresh
  <2>. QED
    BY <1>16, <1>20, <2>1, Zenon DEF NoneFresh
<1>24. SharesShow(e)
  BY <1>16, <1>20, Zenon DEF SharesShow
<1>25. Consistent(e)
  BY <1>10, <1>11, <1>16, <1>20, Zenon DEF Consistent
<1>26. recorded' \subseteq Ids(e["monitors"])
  BY <1>1, <1>10, <1>20, FitFacts, Zenon
<1>27. NoneFresh(e, fresh')
  BY <1>1, <1>23
<1>. QED
  BY <1>1, <1>8, <1>19, <1>22, <1>24, <1>25, <1>26, <1>27, EditFits, Zenon


LEMMA LinkEdits ==
  ASSUME TransfersFit, NEW s \in Shares, CreateShare(s) \/ SwitchShare(s) \/ DeleteShare(s)
  PROVE  TransfersFit'
<1>0. /\ db["shares"] \subseteq ShareRow /\ Distinct(db["shares"])
      /\ Ids(db["shares"]) \cap fresh = {} /\ db["items"] \subseteq ItemRow
      /\ \A x \in db["shares"] : x.token \notin fresh /\ x.monitors \cup x.items # {}
      /\ \A x, y \in db["shares"] : x.token = y.token => x = y
  BY FitFacts, TableRows, TableNames, Zenon DEF Consistent, SharesShow, NoneFresh
<1>1. \A x \in db["shares"] : x.id \notin fresh
  BY <1>0, IdsHas, Zenon
<1>2. CASE CreateShare(s)
  <2>1. Editing /\ s \in fresh /\ fresh' = fresh \ {s} /\ recorded' = recorded
    BY <1>2, Zenon DEF CreateShare, Give
  <2>2. PICK ms \in SUBSET {i.monitor : i \in db["items"]}, is \in SUBSET db["items"] :
          /\ ms \cup Ids(is) # {}
          /\ Edit([db EXCEPT !["shares"] = @ \cup
               {[id |-> s, token |-> s, monitors |-> ms,
                 items |-> {i.id : i \in {x \in is : x.monitor \notin ms}},
                 active |-> TRUE]}])
    BY <1>2, Zenon DEF CreateShare
  <2>3. PICK js : js = {i.id : i \in {x \in is : x.monitor \notin ms}}
    OBVIOUS
  <2>4. PICK x : x = [id |-> s, token |-> s, monitors |-> ms, items |-> js, active |-> TRUE]
    OBVIOUS
  <2>5. PICK R : R = db["shares"] \cup {x}
    OBVIOUS
  <2>6. PICK e : e = [db EXCEPT !["shares"] = R]
    OBVIOUS
  <2>7. Edit(e)
    BY <2>2, <2>3, <2>4, <2>5, <2>6
  <2>8. Replaced(e, db, "shares", R)
    BY <2>6 DEF Replaced
  <2>9. ms \subseteq Monitors /\ js \subseteq Items
    <3>1. \A i \in db["items"] : i.monitor \in Monitors /\ i.id \in Items
      BY <1>0, SMT DEF ItemRow
    <3>. QED
      BY <2>2, <2>3, <3>1, Zenon
  <2>10. ms \cup js # {}
    <3>1. CASE ms # {}
      BY <3>1, Zenon
    <3>2. CASE ms = {}
      <4>1. PICK i \in is : TRUE
        BY <2>2, <3>2, Zenon DEF Ids
      <4>2. i.id \in js
        BY <2>3, <3>2, <4>1, Zenon
      <4>. QED
        BY <4>2, Zenon
    <3>. QED
      BY <3>1, <3>2
  <2>11. x \in ShareRow /\ x.id = s /\ x.token = s
         /\ x.monitors = ms /\ x.items = js
    BY <2>4, <2>9, SMT DEF ShareRow
  <2>12. s \notin Ids(db["shares"])
    BY <1>0, <2>1, Zenon
  <2>13. Distinct(R)
    BY <1>0, <2>5, <2>11, <2>12, AddedRow, Zenon
  <2>14. R \subseteq ShareRow
    BY <1>0, <2>5, <2>11, Zenon
  <2>15. \A y \in R : /\ y.id \notin fresh' /\ y.token \notin fresh'
                      /\ y.monitors \cup y.items # {}
    <3>1. x.id \notin fresh' /\ x.token \notin fresh' /\ x.monitors \cup x.items # {}
      BY <2>1, <2>10, <2>11, Zenon
    <3>2. \A y \in db["shares"] : /\ y.id \notin fresh' /\ y.token \notin fresh'
                                  /\ y.monitors \cup y.items # {}
      BY <1>0, <1>1, <2>1, Zenon
    <3>. QED
      BY <2>5, <3>1, <3>2, Zenon
  <2>16. \A y, z \in R : y.token = z.token => y = z
    <3>1. \A y \in db["shares"] : y.token # s
      BY <1>0, <2>1, Zenon
    <3>. QED
      BY <1>0, <2>5, <2>11, <3>1, Zenon
  <2>17. fresh' \subseteq fresh
    BY <2>1, Zenon
  <2>. QED
    BY <2>1, <2>7, <2>8, <2>13, <2>14, <2>15, <2>16, <2>17, SharesEdited, Zenon
<1>3. CASE SwitchShare(s)
  <2>1. Editing /\ fresh' = fresh /\ recorded' = recorded
    BY <1>3, Zenon DEF SwitchShare
  <2>2. PICK o \in db["shares"], on \in BOOLEAN :
          /\ o.id = s
          /\ Edit([db EXCEPT !["shares"] = Upserted(@, {[o EXCEPT !.active = on]})])
    BY <1>3, Zenon DEF SwitchShare
  <2>4. PICK x : x = [o EXCEPT !.active = on]
    OBVIOUS
  <2>5. PICK R : R = Upserted(db["shares"], {x})
    OBVIOUS
  <2>6. PICK e : e = [db EXCEPT !["shares"] = R]
    OBVIOUS
  <2>7. Edit(e)
    BY <2>2, <2>4, <2>5, <2>6
  <2>8. Replaced(e, db, "shares", R)
    BY <2>6 DEF Replaced
  <2>9. x \in ShareRow /\ x.id = o.id /\ x.token = o.token
        /\ x.monitors = o.monitors /\ x.items = o.items
    <3>1. o \in ShareRow
      BY <1>0, Zenon
    <3>. QED
      BY <2>4, <3>1, SMT DEF ShareRow
  <2>10. /\ Distinct(Upserted(db["shares"], {x}))
         /\ \A y \in Upserted(db["shares"], {x}) :
              y = x \/ (y \in db["shares"] /\ y.id # x.id)
    BY <1>0, PutRow, Zenon
  <2>11. Distinct(R) /\ \A y \in R : y = x \/ (y \in db["shares"] /\ y.id # o.id)
    BY <2>5, <2>9, <2>10, Zenon
  <2>12. R \subseteq ShareRow
    BY <1>0, <2>9, <2>11, Zenon
  <2>13. \A y \in R : /\ y.id \notin fresh' /\ y.token \notin fresh'
                      /\ y.monitors \cup y.items # {}
    <3>1. x.id \notin fresh' /\ x.token \notin fresh' /\ x.monitors \cup x.items # {}
      BY <1>0, <1>1, <2>1, <2>9, Zenon
    <3>2. \A y \in db["shares"] : /\ y.id \notin fresh' /\ y.token \notin fresh'
                                  /\ y.monitors \cup y.items # {}
      BY <1>0, <1>1, <2>1, Zenon
    <3>. QED
      BY <2>11, <3>1, <3>2, Zenon
  <2>14. \A y, z \in R : y.token = z.token => y = z
    <3>1. \A y \in db["shares"] : y.id # o.id => y.token # o.token
      BY <1>0, Zenon
    <3>2. \A y \in R : y = x \/ (y \in db["shares"] /\ y.token # x.token)
      BY <2>9, <2>11, <3>1, Zenon
    <3>. QED
      BY <1>0, <3>2, Zenon
  <2>15. fresh' \subseteq fresh
    BY <2>1, Zenon
  <2>. QED
    BY <2>1, <2>7, <2>8, <2>11, <2>12, <2>13, <2>14, <2>15, SharesEdited, Zenon
<1>4. CASE DeleteShare(s)
  <2>1. Editing /\ fresh' = fresh /\ recorded' = recorded
    BY <1>4, Zenon DEF DeleteShare
  <2>2. Edit([db EXCEPT !["shares"] = Without(@, {s})])
    BY <1>4, Zenon DEF DeleteShare
  <2>4. PICK R : R = Without(db["shares"], {s})
    OBVIOUS
  <2>5. PICK e : e = [db EXCEPT !["shares"] = R]
    OBVIOUS
  <2>6. Edit(e)
    BY <2>2, <2>4, <2>5
  <2>7. Replaced(e, db, "shares", R)
    BY <2>5 DEF Replaced
  <2>8. R \subseteq db["shares"]
    BY <2>4, Zenon DEF Without
  <2>9. R \subseteq ShareRow /\ Distinct(R)
    BY <1>0, <2>8, DistinctSubset, Zenon
  <2>10. \A y \in R : /\ y.id \notin fresh' /\ y.token \notin fresh'
                      /\ y.monitors \cup y.items # {}
    BY <1>0, <1>1, <2>1, <2>8, Zenon
  <2>11. \A y, z \in R : y.token = z.token => y = z
    BY <1>0, <2>8, Zenon
  <2>12. fresh' \subseteq fresh
    BY <2>1, Zenon
  <2>. QED
    BY <2>1, <2>6, <2>7, <2>9, <2>10, <2>11, <2>12, SharesEdited, Zenon
<1>. QED
  BY <1>2, <1>3, <1>4

LEMMA RecordAdded ==
  ASSUME TransfersFit, NEW m \in Monitors, Execute(m)
  PROVE  TransfersFit'
<1>1. /\ m \in Ids(db["monitors"]) /\ recorded' = recorded \cup {m}
      /\ db' = db /\ fresh' = fresh /\ import' = import /\ export' = export /\ edits' = edits
  BY Zenon DEF Execute
<1>2. BundlesFit' /\ ExportFits' /\ BackupFits'
  BY <1>1, HeldStays, Zenon
<1>3. TablesFit'
  BY <1>1, Zenon DEF TransfersFit, TablesFit
<1>4. TransfersTypeOK'
  BY <1>1, Zenon DEF TransfersFit, TransfersTypeOK
<1>. QED
  BY <1>2, <1>3, <1>4, Zenon DEF TransfersFit

LEMMA EditsFit ==
  ASSUME TransfersFit, EditStep
  PROVE  TransfersFit'
<1>1. ASSUME NEW m \in Monitors,
             CreateMonitor(m) \/ UpdateMonitor(m) \/ DeleteMonitor(m) \/ Execute(m)
      PROVE  TransfersFit'
  BY <1>1, MonitorEdits, MonitorDeleted, RecordAdded, Zenon
<1>2. ASSUME NEW c \in Channels, CreateChannel(c) \/ DeleteChannel(c)
      PROVE  TransfersFit'
  BY <1>2, ChannelEdits, Zenon
<1>3. ASSUME NEW i \in Items, CreateItem(i) \/ UpdateItem(i) \/ DeleteItem(i)
      PROVE  TransfersFit'
  BY <1>3, ItemEdits, Zenon
<1>4. ASSUME NEW s \in Shares, CreateShare(s) \/ SwitchShare(s) \/ DeleteShare(s)
      PROVE  TransfersFit'
  BY <1>4, LinkEdits, Zenon
<1>. QED
  BY <1>1, <1>2, <1>3, <1>4, Zenon DEF EditStep


-----------------------------------------------------------------------------
(***************************************************************************)
(* Imports.                                                                *)
(***************************************************************************)

LEMMA TablesInOrder ==
  Len(Tables) = 4 /\ \A i \in 1..4 : Tables[i] \in Table
<1>1. Len(Tables) = 4
  BY SMT DEF Tables
<1>2. /\ Tables[1] = "monitors" /\ Tables[2] = "channels"
      /\ Tables[3] = "items" /\ Tables[4] = "shares"
  BY SMT DEF Tables
<1>3. \A i \in 1..4 : i = 1 \/ i = 2 \/ i = 3 \/ i = 4
  BY SMT
<1>. QED
  BY <1>1, <1>2, <1>3, TableNames, Zenon

LEMMA IdsAny ==
  ASSUME NEW d \in Rows, NEW t \in Table
  PROVE  Ids(d[t]) \subseteq AnyId
<1>1. d[t] \subseteq RowOf(t)
  BY RowsOfTable, Zenon
<1>2. /\ \A x \in MonitorRow : x.id \in Monitors
      /\ \A x \in ChannelRow : x.id \in Channels
      /\ \A x \in ItemRow : x.id \in Items
      /\ \A x \in ShareRow : x.id \in Shares
  BY SMT DEF MonitorRow, ChannelRow, ItemRow, ShareRow
<1>3. \A x \in RowOf(t) : x.id \in AnyId
  BY <1>2, Zenon DEF RowOf, AnyId
<1>. QED
  BY <1>1, <1>3, IdsOf, Zenon

\* The built-in channel is not an installation's own.
LEMMA OwnRows ==
  ASSUME NEW d \in Rows
  PROVE  /\ Own(d) \in Rows
         /\ Own(d)["channels"] = Without(d["channels"], {InApp})
         /\ \A t \in Table : t # "channels" => Own(d)[t] = d[t]
         /\ \A t \in Table : Own(d)[t] \subseteq d[t]
<1>1. PICK t \in Table : t = "channels"
  BY TableNames, Zenon
<1>2. PICK R : R = Without(d["channels"], {InApp})
  OBVIOUS
<1>3. R \subseteq d[t]
  BY <1>1, <1>2, Zenon DEF Without
<1>4. R \subseteq RowOf(t)
  BY <1>3, RowsOfTable, Zenon
<1>5. Replaced(Own(d), d, t, R)
  BY <1>1, <1>2 DEF Own, Replaced
<1>6. Own(d) \in Rows /\ Own(d)[t] = R /\ \A u \in Table \ {t} : Own(d)[u] = d[u]
  <2>1. Replacing(Own(d), d, t, R)
    BY <1>4, <1>5, Zenon DEF Replacing
  <2>2. Changed(Own(d), d, t, R)
    BY <2>1, AnyTable, Zenon
  <2>. QED
    BY <2>2, Zenon DEF Changed
<1>7. \A u \in Table : u # "channels" => Own(d)[u] = d[u]
  BY <1>1, <1>6, Zenon
<1>8. \A u \in Table : Own(d)[u] \subseteq d[u]
  BY <1>1, <1>3, <1>6, Zenon
<1>. QED
  BY <1>1, <1>2, <1>6, <1>7, <1>8, Zenon

LEMMA SummaryTyped ==
  ASSUME NEW b \in BundleRecord, NEW d \in Rows, NEW replace \in BOOLEAN
  PROVE  Summary(b, d, replace) \in SummaryRecord
<1>1. b.rows \in Rows /\ Own(d) \in Rows
  BY OwnRows, SMT DEF BundleRecord
<1>2. ASSUME NEW t \in Table
      PROVE  Compared(b.rows[t], Own(d)[t], replace)
               \in [added : SUBSET AnyId, overwritten : SUBSET AnyId, deleted : SUBSET AnyId]
  <2>1. Ids(b.rows[t]) \subseteq AnyId /\ Ids(Own(d)[t]) \subseteq AnyId
    BY <1>1, IdsAny, Zenon
  <2>. QED
    BY <2>1, SMT DEF Compared
<1>. QED
  BY <1>2, Zenon DEF Summary, SummaryRecord

LEMMA IdleImport == Idle \in ImportRecord
<1>1. 1 \in 1..(Len(Tables) + 1)
  BY TablesInOrder, SMT
<1>. QED
  BY <1>1, NothingIsRows, SMT DEF Idle, ImportRecord

LEMMA EndedImport ==
  ASSUME NEW p \in {"refused", "previewed", "imported", "failed"}
  PROVE  Ended(p) \in ImportRecord /\ Ended(p).phase = p /\ BundleFits(Ended(p))
<1>2. Idle \in ImportRecord
  BY IdleImport
<1>3. p \in {"idle", "validating", "refused", "summarising", "previewed", "ready",
             "imported", "failed"}
  BY Zenon
<1>4. PICK o : o = Ended(p)
  OBVIOUS
<1>5. o \in ImportRecord /\ o.phase = p
  BY <1>2, <1>3, <1>4, SMT DEF Ended, ImportRecord
<1>6. BundleFits(o)
  <2>1. o.phase \notin {"validating", "summarising", "ready"} /\ o.phase # "ready"
        /\ o.phase \notin {"summarising", "ready"}
    BY <1>5, SMT
  <2>. QED
    BY <2>1, Zenon DEF BundleFits
<1>. QED
  BY <1>4, <1>5, <1>6

\* A step of one import keeps what the others and the export hold.
LEMMA OneImport ==
  ASSUME TransfersFit, NEW r \in Importers, NEW o \in ImportRecord, BundleFits(o),
         import' = [import EXCEPT ![r] = o], fresh' = fresh, export' = export
  PROVE  /\ BundlesFit' /\ ExportFits' /\ BackupFits'
         /\ import' \in [Importers -> ImportRecord]
<1>1. import \in [Importers -> ImportRecord]
  BY FitFacts, Zenon
<1>2. /\ import' \in [Importers -> ImportRecord] /\ import'[r] = o
      /\ \A q \in Importers \ {r} : import'[q] = import[q]
  BY <1>1, Zenon
<1>3. ASSUME NEW q \in Importers
      PROVE  BundleFits(import[q])'
  <2>1. BundleFits(import'[q])
    <3>1. CASE q = r
      BY <1>2, <3>1, Zenon
    <3>2. CASE q # r
      <4>1. import'[q] = import[q] /\ BundleFits(import[q])
        BY <1>2, <3>2, Zenon DEF TransfersFit, BundlesFit
      <4>. QED
        BY <4>1, Zenon
    <3>. QED
      BY <3>1, <3>2
  <2>2. Read(import'[q].bundle) => Read(import[q].bundle)'
    BY Zenon DEF Read
  <2>. QED
    BY <2>1, <2>2, Zenon DEF BundleFits
<1>4. BundlesFit'
  BY <1>3, Zenon DEF BundlesFit
<1>5. ExportFits' /\ BackupFits'
  BY Zenon DEF TransfersFit, ExportFits, ExportedRows, BackupFits, Read
<1>. QED
  BY <1>2, <1>4, <1>5, Zenon

\* Nothing but the import moves.
LEMMA ImportMoves ==
  ASSUME TransfersFit, NEW r \in Importers, NEW o \in ImportRecord, BundleFits(o),
         import' = [import EXCEPT ![r] = o],
         UNCHANGED <<db, recorded, fresh, export, edits>>
  PROVE  TransfersFit'
<1>1. /\ BundlesFit' /\ ExportFits' /\ BackupFits'
      /\ import' \in [Importers -> ImportRecord]
  BY OneImport, Zenon
<1>2. TablesFit'
  BY Zenon DEF TransfersFit, TablesFit
<1>3. TransfersTypeOK'
  BY <1>1, Zenon DEF TransfersFit, TransfersTypeOK
<1>. QED
  BY <1>1, <1>2, <1>3, Zenon DEF TransfersFit


LEMMA UploadsRead ==
  ASSUME TransfersFit, NEW b \in Uploads
  PROVE  b \in BundleRecord /\ NoneFresh(b.rows, fresh)
<1>1. CASE b \in Foreign
  <2>1. b \in BundleRecord /\ NoneFresh(b.rows, Fresh)
    BY <1>1, TransferAssumption, Zenon
  <2>2. fresh \subseteq Fresh
    BY FitFacts, Zenon
  <2>. QED
    BY <2>1, <2>2, StaleStays, Zenon
<1>2. CASE b \notin Foreign
  <2>1. b = export.bundle /\ b # NoBundle
    BY <1>2, Zenon DEF Uploads
  <2>. QED
    BY <2>1, Zenon DEF TransfersFit, BackupFits, Read
<1>. QED
  BY <1>1, <1>2

LEMMA StartFits ==
  ASSUME TransfersFit, NEW r \in Importers, StartImport(r)
  PROVE  TransfersFit'
<1>0. UNCHANGED <<db, recorded, fresh, export, edits>>
  BY Zenon DEF StartImport
<1>1. PICK b \in Uploads, password \in BOOLEAN, replace \in BOOLEAN :
       import' = [import EXCEPT ![r] =
         IF ~(Decodes(b, password) /\ WellFormed(b)) THEN Ended("refused")
         ELSE [Idle EXCEPT !.bundle = b, !.replace = replace, !.phase = "validating",
                           !.at = IF replace THEN Len(Tables) + 1 ELSE 1]]
  BY Zenon DEF StartImport
<1>2. b \in BundleRecord /\ NoneFresh(b.rows, fresh)
  BY UploadsRead, Zenon
<1>3. CASE ~(Decodes(b, password) /\ WellFormed(b))
  <2>1. import' = [import EXCEPT ![r] = Ended("refused")]
    BY <1>1, <1>3, Zenon
  <2>2. "refused" \in {"refused", "previewed", "imported", "failed"}
    BY Zenon
  <2>3. Ended("refused") \in ImportRecord /\ BundleFits(Ended("refused"))
    BY <2>2, EndedImport, Zenon
  <2>. QED
    BY <1>0, <2>1, <2>3, ImportMoves, Zenon
<1>4. CASE Decodes(b, password) /\ WellFormed(b)
  <2>1. PICK n : n = IF replace THEN Len(Tables) + 1 ELSE 1
    OBVIOUS
  <2>2. n \in 1..(Len(Tables) + 1)
    BY <2>1, TablesInOrder, SMT
  <2>3. PICK o : o = [Idle EXCEPT !.bundle = b, !.replace = replace, !.phase = "validating",
                                  !.at = n]
    OBVIOUS
  <2>4. import' = [import EXCEPT ![r] = o]
    BY <1>1, <1>4, <2>1, <2>3, Zenon
  <2>5. PICK u : u = [Idle EXCEPT !.bundle = b]
    OBVIOUS
  <2>9. PICK v : v = [u EXCEPT !.replace = replace]
    OBVIOUS
  <2>10. PICK w : w = [v EXCEPT !.phase = "validating"]
    OBVIOUS
  <2>11. o = [w EXCEPT !.at = n]
    BY <2>3, <2>5, <2>9, <2>10
  <2>12. u \in ImportRecord /\ u.bundle = b
    BY <1>2, <2>5, IdleImport, SMT DEF ImportRecord
  <2>13. v \in ImportRecord /\ v.bundle = b
    BY <2>9, <2>12, SMT DEF ImportRecord
  <2>14. w \in ImportRecord /\ w.bundle = b /\ w.phase = "validating"
    BY <2>10, <2>13, SMT DEF ImportRecord
  <2>6. o \in ImportRecord
    BY <2>2, <2>11, <2>14, SMT DEF ImportRecord
  <2>7. o.phase = "validating" /\ o.bundle = b
    BY <2>11, <2>14, SMT DEF ImportRecord
  <2>8. BundleFits(o)
    <3>1. Read(b)
      BY <1>2, <1>4, Zenon DEF Read
    <3>2. o.phase \notin {"summarising", "ready"} /\ o.phase # "ready"
      BY <2>7, SMT
    <3>. QED
      BY <2>7, <3>1, <3>2, Zenon DEF BundleFits
  <2>. QED
    BY <1>0, <2>4, <2>6, <2>8, ImportMoves, Zenon
<1>. QED
  BY <1>3, <1>4

LEMMA ReadFits ==
  ASSUME TransfersFit, NEW r \in Importers, ReadTable(r)
  PROVE  TransfersFit'
<1>0. /\ UNCHANGED <<db, recorded, fresh, export, edits>>
      /\ import[r].phase \in {"validating", "summarising"} /\ import[r].at <= Len(Tables)
  BY Zenon DEF ReadTable
<1>1. import[r] \in ImportRecord /\ import \in [Importers -> ImportRecord]
      /\ BundleFits(import[r]) /\ db \in Rows
  BY FitFacts, Zenon DEF TransfersFit, BundlesFit
<1>2. PICK k : k = import[r].at
  OBVIOUS
<1>3. k \in 1..4 /\ k + 1 \in 1..(Len(Tables) + 1)
  <2>1. k \in 1..(Len(Tables) + 1)
    BY <1>1, <1>2, SMT DEF ImportRecord
  <2>. QED
    BY <1>0, <1>2, <2>1, TablesInOrder, SMT
<1>4. PICK t \in Table : t = Tables[k]
  BY <1>3, TablesInOrder, Zenon
<1>5. import' = [import EXCEPT ![r].seen[t] = db[t], ![r].at = @ + 1]
  BY <1>2, <1>4, Zenon DEF ReadTable
<1>6. PICK d : d = [import[r].seen EXCEPT ![t] = db[t]]
  OBVIOUS
<1>7. PICK o : o = [import[r] EXCEPT !.seen = d, !.at = k + 1]
  OBVIOUS
<1>8. import' = [import EXCEPT ![r] = o]
  BY <1>1, <1>2, <1>5, <1>6, <1>7, SMT DEF ImportRecord
<1>9. d \in Rows
  <2>1. import[r].seen \in Rows
    BY <1>1, SMT DEF ImportRecord
  <2>2. db[t] \subseteq RowOf(t)
    BY <1>1, RowsOfTable, Zenon
  <2>3. Replaced(d, import[r].seen, t, db[t])
    BY <1>6 DEF Replaced
  <2>4. PICK R : R = db[t]
    OBVIOUS
  <2>5. PICK s : s = import[r].seen
    OBVIOUS
  <2>6. s \in Rows /\ R \subseteq RowOf(t) /\ Replaced(d, s, t, R)
    BY <2>1, <2>2, <2>3, <2>4, <2>5
  <2>7. Replacing(d, s, t, R)
    BY <2>6, Zenon DEF Replacing
  <2>8. Changed(d, s, t, R)
    BY <2>7, AnyTable, Zenon
  <2>. QED
    BY <2>8, Zenon DEF Changed
<1>10. o \in ImportRecord
  <2>1. PICK u : u = [import[r] EXCEPT !.seen = d]
    OBVIOUS
  <2>2. u \in ImportRecord
    BY <1>1, <1>9, <2>1, SMT DEF ImportRecord
  <2>3. o = [u EXCEPT !.at = k + 1]
    BY <1>7, <2>1
  <2>. QED
    BY <1>3, <2>2, <2>3, SMT DEF ImportRecord
<1>11. o.phase = import[r].phase /\ o.bundle = import[r].bundle
       /\ o.replace = import[r].replace
  BY <1>1, <1>7, SMT DEF ImportRecord
<1>12. o.phase # "ready"
  BY <1>0, <1>11, SMT
<1>13. (o.phase \in {"summarising", "ready"}) <=> o.phase = "summarising"
  BY <1>12, Zenon
<1>14. BundleFits(o)
  BY <1>1, <1>11, <1>12, Zenon DEF BundleFits
<1>. QED
  BY <1>0, <1>8, <1>10, <1>14, ImportMoves, Zenon

LEMMA ValidationFits ==
  ASSUME TransfersFit, NEW r \in Importers, FinishValidation(r)
  PROVE  TransfersFit'
<1>0. /\ UNCHANGED <<db, recorded, fresh, export, edits>>
      /\ import[r].phase = "validating"
  BY Zenon DEF FinishValidation
<1>1. import[r] \in ImportRecord /\ import \in [Importers -> ImportRecord]
      /\ BundleFits(import[r])
  BY FitFacts, Zenon DEF TransfersFit, BundlesFit
<1>2. PICK i : i = import[r]
  OBVIOUS
<1>3. PICK o : o = [i EXCEPT !.phase = "summarising", !.at = 1, !.seen = Nothing]
  OBVIOUS
<1>4. import' = [import EXCEPT ![r] =
        IF Accepts(i.bundle, i.seen, i.replace) THEN o ELSE Ended("refused")]
  BY <1>1, <1>2, <1>3 DEF FinishValidation
<1>5. CASE ~Accepts(i.bundle, i.seen, i.replace)
  <2>1. import' = [import EXCEPT ![r] = Ended("refused")]
    BY <1>4, <1>5, Zenon
  <2>2. "refused" \in {"refused", "previewed", "imported", "failed"}
    BY Zenon
  <2>3. Ended("refused") \in ImportRecord /\ BundleFits(Ended("refused"))
    BY <2>2, EndedImport, Zenon
  <2>. QED
    BY <1>0, <2>1, <2>3, ImportMoves, Zenon
<1>6. CASE Accepts(i.bundle, i.seen, i.replace)
  <2>1. import' = [import EXCEPT ![r] = o]
    BY <1>4, <1>6, Zenon
  <2>2. 1 \in 1..(Len(Tables) + 1)
    BY TablesInOrder, SMT
  <2>3. o \in ImportRecord
    <3>1. PICK u : u = [i EXCEPT !.phase = "summarising"]
      OBVIOUS
    <3>2. PICK v : v = [u EXCEPT !.at = 1]
      OBVIOUS
    <3>3. o = [v EXCEPT !.seen = Nothing]
      BY <1>3, <3>1, <3>2
    <3>4. u \in ImportRecord
      BY <1>1, <1>2, <3>1, SMT DEF ImportRecord
    <3>5. v \in ImportRecord
      BY <2>2, <3>2, <3>4, SMT DEF ImportRecord
    <3>. QED
      BY <3>3, <3>5, NothingIsRows, SMT DEF ImportRecord
  <2>4. o.phase = "summarising" /\ o.bundle = i.bundle /\ o.replace = i.replace
    BY <1>1, <1>2, <1>3, SMT DEF ImportRecord
  <2>5. Read(i.bundle)
    BY <1>0, <1>1, <1>2, Zenon DEF BundleFits
  <2>6. SharesShow(i.bundle.rows)
    BY <1>6, Zenon DEF Accepts, SharesValid, SharesShow
  <2>7. i.replace => Resolves(i.bundle.rows)
    <3>. SUFFICES ASSUME i.replace = TRUE PROVE Resolves(i.bundle.rows)
      BY <1>1, <1>2, SMT DEF ImportRecord
    <3>1. /\ Known(i.bundle, i.seen, TRUE, "channels")
               \subseteq {InApp} \cup Ids(i.bundle.rows["channels"])
          /\ Known(i.bundle, i.seen, TRUE, "monitors") \subseteq Ids(i.bundle.rows["monitors"])
          /\ Known(i.bundle, i.seen, TRUE, "items") \subseteq Ids(i.bundle.rows["items"])
      BY SMT DEF Known
    <3>2. Accepts(i.bundle, i.seen, TRUE)
      BY <1>6
    <3>3. \A m \in i.bundle.rows["monitors"] :
            m.channels \subseteq {InApp} \cup Ids(i.bundle.rows["channels"])
      BY <3>1, <3>2, Zenon DEF Accepts, ReferencesKnown
    <3>4. \A x \in i.bundle.rows["items"] :
            /\ x.monitor \in Ids(i.bundle.rows["monitors"])
            /\ x.channels \subseteq {InApp} \cup Ids(i.bundle.rows["channels"])
      BY <3>1, <3>2, Zenon DEF Accepts, ReferencesKnown
    <3>5. \A s \in i.bundle.rows["shares"] :
            /\ s.monitors \subseteq Ids(i.bundle.rows["monitors"])
            /\ s.items \subseteq Ids(i.bundle.rows["items"])
      BY <3>1, <3>2, Zenon DEF Accepts, SharesValid
    <3>. QED
      BY <3>3, <3>4, <3>5, Zenon DEF Resolves
  <2>8. o.phase # "ready"
    BY <2>4, SMT
  <2>9. BundleFits(o)
    BY <2>4, <2>5, <2>6, <2>7, <2>8, Zenon DEF BundleFits
  <2>. QED
    BY <1>0, <2>1, <2>3, <2>9, ImportMoves, Zenon
<1>. QED
  BY <1>5, <1>6

LEMMA SummaryFits ==
  ASSUME TransfersFit, NEW r \in Importers, FinishSummary(r)
  PROVE  TransfersFit'
<1>0. /\ UNCHANGED <<db, recorded, fresh, export, edits>>
      /\ import[r].phase = "summarising"
  BY Zenon DEF FinishSummary
<1>1. import[r] \in ImportRecord /\ import \in [Importers -> ImportRecord]
      /\ BundleFits(import[r])
  BY FitFacts, Zenon DEF TransfersFit, BundlesFit
<1>2. PICK i : i = import[r]
  OBVIOUS
<1>3. PICK s : s = Summary(i.bundle, i.seen, i.replace)
  OBVIOUS
<1>4. PICK o : o = [i EXCEPT !.phase = "ready", !.summary = s]
  OBVIOUS
<1>5. \/ import' = [import EXCEPT ![r] = Ended("previewed")]
      \/ import' = [import EXCEPT ![r] = o]
  BY <1>2, <1>3, <1>4 DEF FinishSummary
<1>6. CASE import' = [import EXCEPT ![r] = Ended("previewed")]
  <2>2. "previewed" \in {"refused", "previewed", "imported", "failed"}
    BY Zenon
  <2>3. Ended("previewed") \in ImportRecord /\ BundleFits(Ended("previewed"))
    BY <2>2, EndedImport, Zenon
  <2>. QED
    BY <1>0, <1>6, <2>3, ImportMoves, Zenon
<1>7. CASE import' = [import EXCEPT ![r] = o]
  <2>1. Read(i.bundle) /\ SharesShow(i.bundle.rows)
        /\ (i.replace => Resolves(i.bundle.rows))
    BY <1>0, <1>1, <1>2, Zenon DEF BundleFits
  <2>2. i.bundle \in BundleRecord
    BY <2>1, Zenon DEF Read
  <2>3. i.seen \in Rows /\ i.replace \in BOOLEAN
    BY <1>1, <1>2, SMT DEF ImportRecord
  <2>4. s \in SummaryRecord
    BY <1>3, <2>2, <2>3, SummaryTyped, Zenon
  <2>5. o \in ImportRecord
    <3>1. PICK u : u = [i EXCEPT !.phase = "ready"]
      OBVIOUS
    <3>2. o = [u EXCEPT !.summary = s]
      BY <1>4, <3>1
    <3>3. u \in ImportRecord
      BY <1>1, <1>2, <3>1, SMT DEF ImportRecord
    <3>. QED
      BY <2>4, <3>2, <3>3, SMT DEF ImportRecord
  <2>6. o.bundle = i.bundle /\ o.seen = i.seen /\ o.replace = i.replace /\ o.summary = s
    BY <1>1, <1>2, <1>4, SMT DEF ImportRecord
  <2>7. BundleFits(o)
    BY <1>3, <2>1, <2>6, Zenon DEF BundleFits
  <2>. QED
    BY <1>0, <1>7, <2>5, <2>7, ImportMoves, Zenon
<1>. QED
  BY <1>5, <1>6, <1>7

LEMMA RollbackFits ==
  ASSUME TransfersFit, NEW r \in Importers, Rollback(r)
  PROVE  TransfersFit'
<1>1. /\ UNCHANGED <<db, recorded, fresh, export, edits>>
      /\ import' = [import EXCEPT ![r] = Ended("failed")]
  BY Zenon DEF Rollback
<1>2. "failed" \in {"refused", "previewed", "imported", "failed"}
  BY Zenon
<1>3. Ended("failed") \in ImportRecord /\ BundleFits(Ended("failed"))
  BY <1>2, EndedImport, Zenon
<1>. QED
  BY <1>1, <1>3, ImportMoves, Zenon


\* The transaction, table by table.
Base(d, b, replace) == IF replace THEN Cleared(d, b) ELSE d

LEMMA ClearedRows ==
  ASSUME NEW d, NEW b
  PROVE  /\ Cleared(d, b)["monitors"] = {m \in d["monitors"] : m.id \in Ids(b.rows["monitors"])}
         /\ Cleared(d, b)["channels"]
              = {c \in d["channels"] : c.id \in Ids(b.rows["channels"]) \cup {InApp}}
         /\ Cleared(d, b)["items"] = {} /\ Cleared(d, b)["shares"] = {}
         /\ \A t \in Table : Cleared(d, b)[t] \subseteq d[t]
<1>1. PICK M : M = {m \in d["monitors"] : m.id \in Ids(b.rows["monitors"])}
  OBVIOUS
<1>2. PICK C : C = {c \in d["channels"] : c.id \in Ids(b.rows["channels"]) \cup {InApp}}
  OBVIOUS
<1>3. PICK k : k = [monitors |-> M, channels |-> C, items |-> {}, shares |-> {}]
  OBVIOUS
<1>4. k["monitors"] = M /\ k["channels"] = C /\ k["items"] = {} /\ k["shares"] = {}
  BY <1>3, SMT
<1>5. Cleared(d, b) = k
  BY <1>1, <1>2, <1>3 DEF Cleared
<1>6. M \subseteq d["monitors"] /\ C \subseteq d["channels"]
  BY <1>1, <1>2, Zenon
<1>7. ASSUME NEW t \in Table
      PROVE  k[t] \subseteq d[t]
  <2>1. t = "monitors" \/ t = "channels" \/ t = "items" \/ t = "shares"
    BY TableNames, Zenon
  <2>. QED
    BY <1>4, <1>6, <2>1, Zenon
<1>. QED
  BY <1>1, <1>2, <1>4, <1>5, <1>7, Zenon

LEMMA ClearedHas ==
  ASSUME NEW d, NEW b
  PROVE  /\ \A x : x \in Cleared(d, b)["monitors"]
                   <=> x \in d["monitors"] /\ x.id \in Ids(b.rows["monitors"])
         /\ \A x : x \in Cleared(d, b)["channels"]
                   <=> x \in d["channels"] /\ x.id \in Ids(b.rows["channels"]) \cup {InApp}
         /\ Cleared(d, b)["items"] = {} /\ Cleared(d, b)["shares"] = {}
<1>1. PICK M : M = {m \in d["monitors"] : m.id \in Ids(b.rows["monitors"])}
  OBVIOUS
<1>2. PICK C : C = {c \in d["channels"] : c.id \in Ids(b.rows["channels"]) \cup {InApp}}
  OBVIOUS
<1>3. /\ Cleared(d, b)["monitors"] = M /\ Cleared(d, b)["channels"] = C
      /\ Cleared(d, b)["items"] = {} /\ Cleared(d, b)["shares"] = {}
  BY <1>1, <1>2, ClearedRows
<1>4. \A x : x \in M <=> x \in d["monitors"] /\ x.id \in Ids(b.rows["monitors"])
  BY <1>1, Zenon
<1>5. \A x : x \in C
             <=> x \in d["channels"] /\ x.id \in Ids(b.rows["channels"]) \cup {InApp}
  BY <1>2, Zenon
<1>. QED
  BY <1>3, <1>4, <1>5, Zenon

LEMMA BaseRows ==
  ASSUME NEW d, NEW b, NEW replace \in BOOLEAN, NEW t \in Table
  PROVE  Base(d, b, replace)[t] \subseteq d[t]
<1>1. CASE replace = TRUE
  BY <1>1, ClearedRows, Zenon DEF Base
<1>2. CASE replace = FALSE
  BY <1>2, Zenon DEF Base
<1>. QED
  BY <1>1, <1>2, Zenon

Keyed(d) == d \in Rows /\ \A t \in Table : Distinct(d[t])

StoredAs(o, d, b, replace) ==
  /\ o \in Rows
  /\ \A t \in Table :
       /\ o[t] = Upserted(Base(d, b, replace)[t], b.rows[t])
       /\ Distinct(o[t])
       /\ Ids(o[t]) = Ids(Base(d, b, replace)[t]) \cup Ids(b.rows[t])
       /\ o[t] \subseteq d[t] \cup b.rows[t]

LEMMA StoredRows ==
  ASSUME NEW d, NEW b, NEW replace \in BOOLEAN, Keyed(d), Keyed(b.rows)
  PROVE  StoredAs(Stored(d, b, replace), d, b, replace)
<1>0. /\ d \in Rows /\ b.rows \in Rows
      /\ \A t \in Table : Distinct(d[t]) /\ Distinct(b.rows[t])
  BY Zenon DEF Keyed
<1>1. PICK o : o = Stored(d, b, replace)
  OBVIOUS
<1>2. PICK k : k = Base(d, b, replace)
  OBVIOUS
<1>3. o = [t \in Table |-> Upserted(k[t], b.rows[t])]
  BY <1>1, <1>2 DEF Stored, Base
<1>5. ASSUME NEW t \in Table
      PROVE  /\ o[t] = Upserted(k[t], b.rows[t])
             /\ Distinct(o[t]) /\ Ids(o[t]) = Ids(k[t]) \cup Ids(b.rows[t])
             /\ o[t] \subseteq d[t] \cup b.rows[t]
             /\ o[t] \subseteq RowOf(t)
  <2>1. o[t] = Upserted(k[t], b.rows[t])
    BY <1>3, Zenon
  <2>2. k[t] \subseteq d[t]
    BY <1>2, BaseRows, Zenon
  <2>3. Distinct(k[t]) /\ Distinct(b.rows[t])
    BY <1>0, <2>2, DistinctSubset, Zenon
  <2>4. /\ Distinct(Upserted(k[t], b.rows[t]))
        /\ Ids(Upserted(k[t], b.rows[t])) = Ids(k[t]) \cup Ids(b.rows[t])
        /\ Upserted(k[t], b.rows[t]) \subseteq k[t] \cup b.rows[t]
    BY <2>3, UpsertedRows, Zenon
  <2>5. d[t] \subseteq RowOf(t) /\ b.rows[t] \subseteq RowOf(t)
    BY <1>0, RowsOfTable, Zenon
  <2>6. o[t] \subseteq d[t] \cup b.rows[t]
    BY <2>1, <2>2, <2>4, Zenon
  <2>7. o[t] \subseteq RowOf(t)
    BY <2>5, <2>6, Zenon
  <2>. QED
    BY <2>1, <2>4, <2>6, <2>7, Zenon
<1>6. \A t \in Table : RowOf(t) \subseteq AnyRow
  BY RowKinds, Zenon
<1>7. o \in [Table -> SUBSET AnyRow]
  <2>1. \A t \in Table : Upserted(k[t], b.rows[t]) \in SUBSET AnyRow
    BY <1>5, <1>6, Zenon
  <2>. QED
    BY <1>3, <2>1, Zenon
<1>8. o \in Rows
  BY <1>5, <1>7, RowsByTable, Zenon
<1>9. StoredAs(o, d, b, replace)
  BY <1>2, <1>5, <1>8, Zenon DEF StoredAs
<1>. QED
  BY <1>1, <1>9, Zenon

LEMMA CommitFits ==
  ASSUME TransfersFit, NEW r \in Importers, CommitImport(r)
  PROVE  TransfersFit'
<1>1. import[r] \in ImportRecord /\ BundleFits(import[r])
      /\ db \in Rows /\ \A t \in Table : Distinct(db[t])
  BY FitFacts, Zenon DEF TransfersFit, BundlesFit
<1>2. PICK b : b = import[r].bundle
  OBVIOUS
<1>3. PICK replace : replace = import[r].replace
  OBVIOUS
<1>4. PICK new : new = Stored(db, b, replace)
  OBVIOUS
<1>5. /\ import[r].phase = "ready" /\ Consistent(new) /\ db' = new
      /\ recorded' = IF replace THEN recorded \cap Ids(Cleared(db, b)["monitors"])
                     ELSE recorded
      /\ import' = [import EXCEPT ![r] = Ended("imported")]
      /\ UNCHANGED <<fresh, export, edits>>
  BY <1>2, <1>3, <1>4 DEF CommitImport
<1>6. Read(b) /\ SharesShow(b.rows)
  BY <1>1, <1>2, <1>5, Zenon DEF BundleFits
<1>7. b \in BundleRecord /\ NoneFresh(b.rows, fresh) /\ \A t \in Table : Distinct(b.rows[t])
  BY <1>6, Zenon DEF Read, WellFormed
<1>8. replace \in BOOLEAN
  BY <1>1, <1>3, SMT DEF ImportRecord
<1>9. /\ new \in Rows
      /\ \A t \in Table :
           /\ Distinct(new[t])
           /\ Ids(new[t]) = Ids(Base(db, b, replace)[t]) \cup Ids(b.rows[t])
           /\ new[t] \subseteq db[t] \cup b.rows[t]
  <2>1. Keyed(db)
    BY <1>1, Zenon DEF Keyed
  <2>2. b.rows \in Rows
    BY <1>7, SMT DEF BundleRecord
  <2>3. Keyed(b.rows)
    BY <1>7, <2>2, Zenon DEF Keyed
  <2>4. StoredAs(new, db, b, replace)
    BY <1>4, <1>8, <2>1, <2>3, StoredRows, Zenon
  <2>. QED
    BY <2>4, Zenon DEF StoredAs
<1>10. NoneFresh(db, fresh) /\ SharesShow(db) /\ recorded \subseteq Ids(db["monitors"])
  BY FitFacts, Zenon
<1>11. NoneFresh(new, fresh)
  <2>1. ASSUME NEW t \in Table
        PROVE  Ids(new[t]) \cap fresh = {}
    <3>1. Ids(new[t]) \subseteq Ids(db[t]) \cup Ids(b.rows[t])
      BY <1>9, Zenon DEF Ids
    <3>2. Ids(db[t]) \cap fresh = {} /\ Ids(b.rows[t]) \cap fresh = {}
      BY <1>7, <1>10, Zenon DEF NoneFresh
    <3>. QED
      BY <3>1, <3>2, Zenon
  <2>2. new["shares"] \subseteq db["shares"] \cup b.rows["shares"]
    BY <1>9, TableNames, Zenon
  <2>3. \A s \in new["shares"] : s.token \notin fresh
    BY <1>7, <1>10, <2>2, Zenon DEF NoneFresh
  <2>. QED
    BY <2>1, <2>3, Zenon DEF NoneFresh
<1>12. SharesShow(new)
  <2>1. new["shares"] \subseteq db["shares"] \cup b.rows["shares"]
    BY <1>9, TableNames, Zenon
  <2>. QED
    BY <1>6, <1>10, <2>1, Zenon DEF SharesShow
<1>13. recorded' \subseteq Ids(new["monitors"]) /\ recorded' \subseteq Monitors
  <2>1. Ids(new["monitors"])
          = Ids(Base(db, b, replace)["monitors"]) \cup Ids(b.rows["monitors"])
    BY <1>9, TableNames, Zenon
  <2>2. CASE replace = TRUE
    <3>1. recorded' \subseteq Ids(Cleared(db, b)["monitors"])
      BY <1>5, <2>2, Zenon
    <3>2. Base(db, b, replace) = Cleared(db, b)
      BY <2>2, Zenon DEF Base
    <3>. QED
      BY <1>5, <2>1, <2>2, <3>1, <3>2, Zenon DEF TransfersFit, TransfersTypeOK
  <2>3. CASE replace = FALSE
    <3>1. recorded' = recorded /\ Base(db, b, replace) = db
      BY <1>5, <2>3, Zenon DEF Base
    <3>. QED
      BY <1>10, <2>1, <3>1, Zenon DEF TransfersFit, TransfersTypeOK
  <2>. QED
    BY <1>8, <2>2, <2>3, Zenon
<1>14. "imported" \in {"refused", "previewed", "imported", "failed"}
  BY Zenon
<1>15. Ended("imported") \in ImportRecord /\ BundleFits(Ended("imported"))
  BY <1>14, EndedImport, Zenon
<1>16. /\ BundlesFit' /\ ExportFits' /\ BackupFits'
       /\ import' \in [Importers -> ImportRecord]
  <2>1. PICK o : o = Ended("imported")
    OBVIOUS
  <2>2. o \in ImportRecord /\ BundleFits(o) /\ import' = [import EXCEPT ![r] = o]
        /\ fresh' = fresh /\ export' = export
    BY <1>5, <1>15, <2>1, Zenon
  <2>. QED
    BY <2>2, OneImport, Zenon
<1>17. TablesFit'
  BY <1>5, <1>11, <1>12, <1>13, Zenon DEF TablesFit
<1>18. TransfersTypeOK'
  BY <1>5, <1>9, <1>13, <1>16, Zenon DEF TransfersFit, TransfersTypeOK
<1>. QED
  BY <1>16, <1>17, <1>18, Zenon DEF TransfersFit

LEMMA ImportFits ==
  ASSUME TransfersFit, NEW r \in Importers, ImportStep(r)
  PROVE  TransfersFit'
BY StartFits, ReadFits, ValidationFits, SummaryFits, CommitFits, RollbackFits, Zenon
   DEF ImportStep


-----------------------------------------------------------------------------
(***************************************************************************)
(* The export, and the inductive invariant.                                *)
(***************************************************************************)

LEMMA ExportMoves ==
  ASSUME TransfersFit, export' \in ExportRecord, ExportFits', BackupFits',
         UNCHANGED <<db, recorded, fresh, import, edits>>
  PROVE  TransfersFit'
<1>1. BundlesFit'
  <2>1. ASSUME NEW r \in Importers
        PROVE  BundleFits(import[r])'
    <3>1. BundleFits(import[r]) /\ import'[r] = import[r]
      BY Zenon DEF TransfersFit, BundlesFit
    <3>2. Read(import[r].bundle) => Read(import[r].bundle)'
      BY Zenon DEF Read
    <3>. QED
      BY <3>1, <3>2, Zenon DEF BundleFits
  <2>. QED
    BY <2>1, Zenon DEF BundlesFit
<1>2. TablesFit'
  BY Zenon DEF TransfersFit, TablesFit
<1>3. TransfersTypeOK'
  BY Zenon DEF TransfersFit, TransfersTypeOK
<1>. QED
  BY <1>1, <1>2, <1>3, Zenon DEF TransfersFit

LEMMA StartExportFits ==
  ASSUME TransfersFit, StartExport
  PROVE  TransfersFit'
<1>0. export.phase = "idle" /\ UNCHANGED <<db, recorded, fresh, import, edits>>
  BY Zenon DEF StartExport
<1>1. PICK w \in Wants : export' = [export EXCEPT !.phase = "reading", !.want = w]
  BY Zenon DEF StartExport
<1>2. export \in ExportRecord
  BY FitFacts, Zenon
<1>3. PICK u : u = [export EXCEPT !.phase = "reading"]
  OBVIOUS
<1>4. export' = [u EXCEPT !.want = w]
  BY <1>1, <1>3
<1>5. u \in ExportRecord /\ u.phase = "reading" /\ u.rows = export.rows
      /\ u.bundle = export.bundle
  BY <1>2, <1>3, SMT DEF ExportRecord
<1>6. export' \in ExportRecord
  BY <1>4, <1>5, SMT DEF ExportRecord
<1>7. /\ export'.phase = "reading" /\ export'.want = w /\ export'.rows = export.rows
      /\ export'.bundle = export.bundle
  BY <1>4, <1>5, SMT DEF ExportRecord
<1>8. \A t \in Table : export.rows[t] = {}
  BY <1>0, Zenon DEF TransfersFit, ExportFits
<1>9. ExportFits'
  <2>1. ExportedRows(export.rows)'
    BY <1>0, <1>7, Zenon DEF TransfersFit, ExportFits, ExportedRows
  <2>2. \A t \in Table : ~(export'.rows[t] # {})
    BY <1>7, <1>8, Zenon
  <2>. QED
    BY <1>7, <2>1, <2>2, Zenon DEF ExportFits
<1>10. BackupFits'
  BY <1>0, <1>7, Zenon DEF TransfersFit, BackupFits, Read
<1>. QED
  BY <1>0, <1>6, <1>9, <1>10, ExportMoves, Zenon

\* What an export reads of a table of the database.
LEMMA OwnExported ==
  ASSUME TransfersFit
  PROVE  /\ Own(db) \in Rows /\ \A t \in Table : Distinct(Own(db)[t])
         /\ \A t \in Table : Ids(Own(db)[t]) \cap fresh = {}
         /\ InApp \notin Ids(Own(db)["channels"])
         /\ Own(db)["shares"] = db["shares"]
<1>1. db \in Rows /\ (\A t \in Table : Distinct(db[t]))
      /\ \A t \in Table : Ids(db[t]) \cap fresh = {}
  BY FitFacts, Zenon
<1>2. /\ Own(db) \in Rows
      /\ Own(db)["channels"] = Without(db["channels"], {InApp})
      /\ \A t \in Table : t # "channels" => Own(db)[t] = db[t]
      /\ \A t \in Table : Own(db)[t] \subseteq db[t]
  BY <1>1, OwnRows, Zenon
<1>3. \A t \in Table : Distinct(Own(db)[t])
  BY <1>1, <1>2, DistinctSubset, Zenon
<1>4. ASSUME NEW t \in Table
      PROVE  Ids(Own(db)[t]) \cap fresh = {}
  <2>1. Ids(Own(db)[t]) \subseteq Ids(db[t])
    BY <1>2, Zenon DEF Ids
  <2>. QED
    BY <1>1, <2>1, Zenon
<1>5. InApp \notin Ids(Own(db)["channels"])
  BY <1>2, Zenon DEF Ids, Without
<1>6. Own(db)["shares"] = db["shares"]
  <2>1. "shares" \in Table /\ "shares" # "channels"
    BY TableNames, SMT
  <2>. QED
    BY <1>2, <2>1, Zenon
<1>. QED
  BY <1>2, <1>3, <1>4, <1>5, <1>6, Zenon

LEMMA ExportTableFits ==
  ASSUME TransfersFit, ExportTable
  PROVE  TransfersFit'
<1>0. /\ export.phase = "reading" /\ export.at <= Len(Tables)
      /\ UNCHANGED <<db, recorded, fresh, import, edits>>
  BY Zenon DEF ExportTable
<1>1. export \in ExportRecord /\ ExportFits /\ BackupFits
  BY FitFacts, Zenon DEF TransfersFit
<1>2. PICK k : k = export.at
  OBVIOUS
<1>3. k \in 1..4 /\ k + 1 \in 1..(Len(Tables) + 1)
  <2>1. k \in 1..(Len(Tables) + 1)
    BY <1>1, <1>2, SMT DEF ExportRecord
  <2>. QED
    BY <1>0, <1>2, <2>1, TablesInOrder, SMT
<1>4. PICK t \in Table : t = Tables[k]
  BY <1>3, TablesInOrder, Zenon
<1>5. PICK R : R = IF t \in export.want.contents THEN Own(db)[t] ELSE {}
  OBVIOUS
<1>6. export' = [export EXCEPT !.at = @ + 1, !.rows[t] = R]
  BY <1>2, <1>4, <1>5 DEF ExportTable
<1>7. PICK o : o = export.rows
  OBVIOUS
<1>8. PICK d : d = [o EXCEPT ![t] = R]
  OBVIOUS
<1>9. PICK u : u = [export EXCEPT !.at = k + 1]
  OBVIOUS
<1>10. u \in ExportRecord /\ u.rows = o /\ u.phase = export.phase /\ u.want = export.want
       /\ u.bundle = export.bundle
  BY <1>1, <1>3, <1>7, <1>9, SMT DEF ExportRecord
<1>11. export' = [u EXCEPT !.rows = d]
  BY <1>1, <1>2, <1>6, <1>7, <1>8, <1>9, <1>10, SMT DEF ExportRecord
<1>12. o \in Rows
  BY <1>1, <1>7, SMT DEF ExportRecord
<1>13. R \subseteq Own(db)[t] /\ (R # {} => t \in export.want.contents)
  BY <1>5, Zenon
<1>14. Changed(d, o, t, R)
  <2>1. Own(db)[t] \subseteq RowOf(t)
    BY OwnExported, RowsOfTable, Zenon
  <2>2. R \subseteq RowOf(t)
    BY <1>13, <2>1, Zenon
  <2>3. Replacing(d, o, t, R)
    BY <1>8, <1>12, <2>2 DEF Replacing, Replaced
  <2>. QED
    BY <2>3, AnyTable, Zenon
<1>15. d \in Rows /\ d[t] = R /\ \A v \in Table \ {t} : d[v] = o[v]
  BY <1>14, Zenon DEF Changed
<1>16. export' \in ExportRecord
  BY <1>10, <1>11, <1>15, SMT DEF ExportRecord
<1>17. /\ export'.rows = d /\ export'.phase = "reading" /\ export'.want = export.want
       /\ export'.bundle = export.bundle
  BY <1>0, <1>10, <1>11, SMT DEF ExportRecord
<1>18. ExportedRows(o) /\ export.want \in Wants
       /\ \A v \in Table : o[v] # {} => v \in export.want.contents
  <2>1. export.phase # "idle"
    BY <1>0, SMT
  <2>. QED
    BY <1>1, <1>7, <2>1, Zenon DEF ExportFits
<1>19. Distinct(R) /\ Ids(R) \cap fresh = {}
  <2>1. Distinct(Own(db)[t]) /\ Ids(Own(db)[t]) \cap fresh = {}
    BY OwnExported, Zenon
  <2>2. Ids(R) \subseteq Ids(Own(db)[t])
    BY <1>13, Zenon DEF Ids
  <2>. QED
    BY <1>13, <2>1, <2>2, DistinctSubset, Zenon
<1>20. \A v \in Table : Distinct(d[v]) /\ Ids(d[v]) \cap fresh = {}
  <2>1. \A v \in Table : Distinct(o[v]) /\ Ids(o[v]) \cap fresh = {}
    BY <1>18, Zenon DEF ExportedRows, NoneFresh
  <2>. QED
    BY <1>15, <1>19, <2>1, Zenon
<1>21. InApp \notin Ids(d["channels"])
  <2>1. CASE t = "channels"
    <3>1. d["channels"] \subseteq Own(db)["channels"]
      BY <1>13, <1>15, <2>1, Zenon
    <3>2. InApp \notin Ids(Own(db)["channels"])
      BY OwnExported, Zenon
    <3>. QED
      BY <3>1, <3>2, Zenon DEF Ids
  <2>2. CASE t # "channels"
    <3>1. d["channels"] = o["channels"]
      BY <1>15, <2>2, TableNames, Zenon
    <3>. QED
      BY <1>18, <3>1, Zenon DEF ExportedRows
  <2>. QED
    BY <2>1, <2>2
<1>22. SharesShow(d) /\ TokensNamed(d) /\ \A s \in d["shares"] : s.token \notin fresh
  <2>1. CASE t = "shares"
    <3>1. d["shares"] \subseteq db["shares"]
      BY <1>13, <1>15, <2>1, OwnExported, Zenon
    <3>2. /\ \A s \in db["shares"] : s.monitors \cup s.items # {} /\ s.token \notin fresh
          /\ \A x, y \in db["shares"] : x.token = y.token => x = y
      BY FitFacts, Zenon DEF SharesShow, Consistent, NoneFresh
    <3>. QED
      BY <3>1, <3>2, Zenon DEF SharesShow, TokensNamed
  <2>2. CASE t # "shares"
    <3>1. d["shares"] = o["shares"]
      BY <1>15, <2>2, TableNames, Zenon
    <3>. QED
      BY <1>18, <3>1, Zenon DEF ExportedRows, SharesShow, TokensNamed, NoneFresh
  <2>. QED
    BY <2>1, <2>2
<1>23. ExportedRows(d)
  BY <1>20, <1>21, <1>22, Zenon DEF ExportedRows, NoneFresh
<1>24. \A v \in Table : d[v] # {} => v \in export.want.contents
  BY <1>13, <1>15, <1>18, Zenon
<1>25. ExportFits'
  <2>1. ExportedRows(export.rows)'
    BY <1>0, <1>17, <1>23, Zenon DEF ExportedRows
  <2>2. export'.phase # "idle"
    BY <1>17, SMT
  <2>. QED
    BY <1>17, <1>18, <1>24, <2>1, <2>2, Zenon DEF ExportFits
<1>26. BackupFits'
  BY <1>0, <1>1, <1>17, Zenon DEF BackupFits, Read
<1>. QED
  BY <1>0, <1>16, <1>25, <1>26, ExportMoves, Zenon

LEMMA FinishExportFits ==
  ASSUME TransfersFit, FinishExport
  PROVE  TransfersFit'
<1>0. /\ export.phase = "reading" /\ UNCHANGED <<db, recorded, fresh, import, edits>>
  BY Zenon DEF FinishExport
<1>1. export \in ExportRecord /\ ExportFits
  BY FitFacts, Zenon DEF TransfersFit
<1>2. PICK w : w = export.want
  OBVIOUS
<1>3. PICK o : o = export.rows
  OBVIOUS
<1>4. PICK b : b = [contents |-> {"runtime"} \cup w.contents, rows |-> o,
                    admin |-> "admin_key" \in w.contents, sealed |-> w.sealed, sound |-> TRUE]
  OBVIOUS
<1>5. export' = [export EXCEPT !.phase = "exported", !.bundle = b]
  BY <1>2, <1>3, <1>4 DEF FinishExport
<1>6. w \in Wants /\ ExportedRows(o) /\ \A t \in Table : o[t] # {} => t \in w.contents
  <2>1. export.phase # "idle"
    BY <1>0, SMT
  <2>. QED
    BY <1>1, <1>2, <1>3, <2>1, Zenon DEF ExportFits
<1>7. w.contents \subseteq Contents /\ w.sealed \in BOOLEAN
  <2>1. w \in [contents : SUBSET Contents, sealed : BOOLEAN]
    BY <1>6, TransferAssumption, Zenon
  <2>. QED
    BY <2>1, SMT
<1>8. o \in Rows
  BY <1>1, <1>3, SMT DEF ExportRecord
<1>9. /\ b.contents = {"runtime"} \cup w.contents /\ b.rows = o
      /\ b.admin = ("admin_key" \in w.contents) /\ b.sealed = w.sealed /\ b.sound = TRUE
  BY <1>4, SMT
<1>10. b \in BundleRecord
  <2>1. {"runtime"} \cup w.contents \in SUBSET Contents
    BY <1>7, Zenon DEF Contents
  <2>2. PICK a : a = ("admin_key" \in w.contents)
    OBVIOUS
  <2>3. a \in BOOLEAN
    BY <2>2, SMT
  <2>4. PICK cs : cs = {"runtime"} \cup w.contents
    OBVIOUS
  <2>5. b = [contents |-> cs, rows |-> o, admin |-> a, sealed |-> w.sealed, sound |-> TRUE]
    BY <1>4, <2>2, <2>4
  <2>. QED
    BY <1>7, <1>8, <2>1, <2>3, <2>4, <2>5, SMT DEF BundleRecord
<1>11. PICK u : u = [export EXCEPT !.phase = "exported"]
  OBVIOUS
<1>12. export' = [u EXCEPT !.bundle = b]
  BY <1>5, <1>11
<1>13. u \in ExportRecord /\ u.phase = "exported" /\ u.want = w /\ u.rows = o
  BY <1>1, <1>2, <1>3, <1>11, SMT DEF ExportRecord
<1>14. export' \in ExportRecord
  BY <1>10, <1>12, <1>13, SMT DEF ExportRecord
<1>15. export'.phase = "exported" /\ export'.want = w /\ export'.rows = o /\ export'.bundle = b
  BY <1>12, <1>13, SMT DEF ExportRecord
<1>16. ExportFits'
  <2>1. ExportedRows(export.rows)'
    BY <1>0, <1>6, <1>15, Zenon DEF ExportedRows
  <2>2. export'.phase # "idle"
    BY <1>15, SMT
  <2>. QED
    BY <1>6, <1>15, <2>1, <2>2, Zenon DEF ExportFits
<1>17. Decodes(b, TRUE)
  <2>1. "runtime" \in b.contents
    BY <1>9, Zenon
  <2>2. "admin_key" \in b.contents <=> b.admin
    <3>1. "admin_key" \in b.contents <=> "admin_key" \in w.contents
      BY <1>9, SMT
    <3>. QED
      BY <1>9, <3>1, Zenon
  <2>3. \A t \in Table : b.rows[t] # {} => t \in b.contents
    BY <1>6, <1>9, Zenon
  <2>. QED
    BY <2>1, <2>2, <2>3, Zenon DEF Decodes, Opens
<1>18. Read(b) /\ SharesShow(b.rows) /\ TokensNamed(b.rows)
  BY <1>6, <1>9, <1>10, Zenon DEF Read, WellFormed, ExportedRows
<1>19. BackupFits'
  <2>1. Read(export.bundle)'
    BY <1>0, <1>15, <1>18, Zenon DEF Read
  <2>. QED
    BY <1>15, <1>17, <1>18, <2>1, Zenon DEF BackupFits
<1>. QED
  BY <1>0, <1>14, <1>16, <1>19, ExportMoves, Zenon


LEMMA InitTransfers ==
  ASSUME TransferInit
  PROVE  TransfersFit
<1>0. /\ db \in Starts /\ recorded = Ids(db["monitors"]) /\ fresh = Fresh /\ edits = 0
      /\ import = [r \in Importers |-> Idle]
      /\ export = [phase |-> "idle", want |-> NoBundle, rows |-> Nothing, at |-> 1,
                   bundle |-> NoBundle]
  BY Zenon DEF TransferInit
<1>1. db \in Database /\ NoneFresh(db, Fresh)
  BY <1>0, TransferAssumption, Zenon
<1>2. db \in Rows /\ (\A t \in Table : Distinct(db[t])) /\ Consistent(db) /\ SharesShow(db)
  BY <1>1, Zenon DEF Database, SharesShow
<1>3. 1 \in 1..(Len(Tables) + 1)
  BY TablesInOrder, SMT
<1>4. import \in [Importers -> ImportRecord]
  BY <1>0, IdleImport, Zenon
<1>5. export \in ExportRecord
  BY <1>0, <1>3, NothingIsRows, SMT DEF ExportRecord
<1>6. export.phase = "idle" /\ export.rows = Nothing /\ export.bundle = NoBundle
  BY <1>0, SMT
<1>7. recorded \subseteq Monitors
  <2>1. db["monitors"] \subseteq MonitorRow
    BY <1>2, TableRows, Zenon
  <2>2. \A x \in MonitorRow : x.id \in Monitors
    BY SMT DEF MonitorRow
  <2>. QED
    BY <1>0, <2>1, <2>2, Zenon DEF Ids
<1>8. edits \in 0..MaxEdits
  BY <1>0, TransferAssumption, SMT
<1>9. TransfersTypeOK
  BY <1>0, <1>2, <1>4, <1>5, <1>7, <1>8, Zenon DEF TransfersTypeOK
<1>10. TablesFit
  BY <1>0, <1>1, <1>2, Zenon DEF TablesFit
<1>11. BundlesFit
  <2>1. ASSUME NEW r \in Importers
        PROVE  BundleFits(import[r])
    <3>1. import[r] = Idle
      BY <1>0, Zenon
    <3>2. Idle.phase = "idle"
      BY SMT DEF Idle
    <3>3. import[r].phase \notin {"validating", "summarising", "ready"}
          /\ import[r].phase \notin {"summarising", "ready"} /\ import[r].phase # "ready"
      BY <3>1, <3>2, SMT
    <3>. QED
      BY <3>3, Zenon DEF BundleFits
  <2>. QED
    BY <2>1, Zenon DEF BundlesFit
<1>12. ExportFits
  <2>1. \A t \in Table : Nothing[t] = {}
    BY NothingIsRows, Zenon
  <2>2. ExportedRows(Nothing)
    <3>1. \A t \in Table : Distinct(Nothing[t]) /\ Ids(Nothing[t]) = {}
      BY <2>1, Zenon DEF Distinct, Ids
    <3>2. Nothing["shares"] = {} /\ Ids(Nothing["channels"]) = {}
      BY <2>1, <3>1, TableNames, Zenon
    <3>3. SharesShow(Nothing) /\ TokensNamed(Nothing)
      BY <3>2, Zenon DEF SharesShow, TokensNamed
    <3>4. NoneFresh(Nothing, fresh)
      BY <3>1, <3>2, Zenon DEF NoneFresh
    <3>. QED
      BY <3>1, <3>2, <3>3, <3>4, Zenon DEF ExportedRows
  <2>. QED
    BY <1>6, <2>1, <2>2, Zenon DEF ExportFits
<1>13. BackupFits
  BY <1>6, Zenon DEF BackupFits
<1>. QED
  BY <1>9, <1>10, <1>11, <1>12, <1>13, Zenon DEF TransfersFit

LEMMA NextTransfers ==
  ASSUME TransfersFit, [TransferNext]_transferVars
  PROVE  TransfersFit'
<1>1. ASSUME NEW r \in Importers, ImportStep(r)
      PROVE  TransfersFit'
  BY <1>1, ImportFits, Zenon
<1>2. CASE ExportStep
  BY <1>2, StartExportFits, ExportTableFits, FinishExportFits, Zenon DEF ExportStep
<1>3. CASE EditStep
  BY <1>3, EditsFit, Zenon
<1>4. CASE UNCHANGED transferVars
  <2>1. UNCHANGED <<db, recorded, fresh, import, export, edits>>
    BY <1>4, Zenon DEF transferVars
  <2>2. BundlesFit' /\ ExportFits' /\ BackupFits'
    BY <2>1, HeldStays, Zenon
  <2>3. TablesFit'
    BY <2>1, Zenon DEF TransfersFit, TablesFit
  <2>4. TransfersTypeOK'
    BY <2>1, Zenon DEF TransfersFit, TransfersTypeOK
  <2>. QED
    BY <2>2, <2>3, <2>4, Zenon DEF TransfersFit
<1>. QED
  BY <1>1, <1>2, <1>3, <1>4, Zenon DEF TransferNext

\* What the tables, the bundles under way and the export keep at every step
\* (config_transfer.go, store/configuration_transfer.go and the handlers that
\* edit the same tables).
THEOREM TransferInvariance == TransferSpec => []TransfersFit
<1>1. TransferInit => TransfersFit
  BY InitTransfers
<1>2. TransfersFit /\ [TransferNext]_transferVars => TransfersFit'
  BY NextTransfers
<1>. QED
  BY <1>1, <1>2, PTL DEF TransferSpec

\* A bundle whose references resolve is accepted whatever is stored, if it
\* replaces, and by an empty installation.
LEMMA AcceptedAlone ==
  ASSUME NEW b, NEW d, NEW replace \in BOOLEAN,
         replace = TRUE \/ d["shares"] = {},
         Resolves(b.rows), SharesShow(b.rows), TokensNamed(b.rows)
  PROVE  Accepts(b, d, replace)
<1>1. /\ Ids(b.rows["channels"]) \cup {InApp} \subseteq Known(b, d, replace, "channels")
      /\ Ids(b.rows["monitors"]) \subseteq Known(b, d, replace, "monitors")
      /\ Ids(b.rows["items"]) \subseteq Known(b, d, replace, "items")
  BY SMT DEF Known
<1>2. ReferencesKnown(b, d, replace)
  <2>1. \A m \in b.rows["monitors"] : m.channels \subseteq Known(b, d, replace, "channels")
    BY <1>1, Zenon DEF Resolves
  <2>2. \A i \in b.rows["items"] :
          /\ i.monitor \in Known(b, d, replace, "monitors")
          /\ i.channels \subseteq Known(b, d, replace, "channels")
    BY <1>1, Zenon DEF Resolves
  <2>. QED
    BY <2>1, <2>2, Zenon DEF ReferencesKnown
<1>3. SharesValid(b, d, replace)
  <2>1. ASSUME NEW s \in b.rows["shares"]
        PROVE  /\ s.monitors \cup s.items # {}
               /\ s.monitors \subseteq Known(b, d, replace, "monitors")
               /\ s.items \subseteq Known(b, d, replace, "items")
    BY <1>1, Zenon DEF Resolves, SharesShow
  <2>2. b.rows["shares"] \cup (IF replace THEN {} ELSE d["shares"]) = b.rows["shares"]
    BY Zenon
  <2>3. \A s, x \in b.rows["shares"] : x.token = s.token => x.id = s.id
    BY Zenon DEF TokensNamed
  <2>. QED
    BY <2>1, <2>2, <2>3, Zenon DEF SharesValid
<1>. QED
  BY <1>2, <1>3, Zenon DEF Accepts

LEMMA BackupsReturn ==
  ASSUME TransfersFit
  PROVE  TransfersInv
<1>1. BackupIsTakenBack
  <2>. SUFFICES ASSUME export.bundle # NoBundle, Resolves(export.bundle.rows)
                PROVE  /\ Decodes(export.bundle, TRUE) /\ WellFormed(export.bundle)
                       /\ Accepts(export.bundle, db, TRUE)
                       /\ Accepts(export.bundle, Nothing, FALSE)
    BY Zenon DEF BackupIsTakenBack
  <2>1. /\ Read(export.bundle) /\ Decodes(export.bundle, TRUE)
        /\ SharesShow(export.bundle.rows) /\ TokensNamed(export.bundle.rows)
    BY Zenon DEF TransfersFit, BackupFits
  <2>2. Nothing["shares"] = {}
    BY NothingIsRows, TableNames, Zenon
  <2>3. TRUE \in BOOLEAN /\ FALSE \in BOOLEAN
    BY Zenon
  <2>4. Accepts(export.bundle, db, TRUE)
    BY <2>1, <2>3, AcceptedAlone, Zenon
  <2>5. Accepts(export.bundle, Nothing, FALSE)
    BY <2>1, <2>2, <2>3, AcceptedAlone, Zenon
  <2>. QED
    BY <2>1, <2>4, <2>5, Zenon DEF Read
<1>. QED
  BY <1>1, Zenon DEF TransfersInv, TransfersFit, TablesFit

\* Items stay on monitors that exist, a token names one link, and a backup can
\* be taken back, for any databases, bundles and imports.
THEOREM TransfersHold == TransferSpec => []TransfersInv
<1>1. TransfersFit => TransfersInv
  BY BackupsReturn
<1>. QED
  BY <1>1, TransferInvariance, PTL


-----------------------------------------------------------------------------
(***************************************************************************)
(* What a committed import did.                                            *)
(***************************************************************************)

\* A step of an import that moves it to another phase than that of the commit.
LEMMA OtherPhase ==
  ASSUME import \in [Importers -> ImportRecord], NEW r \in Importers, NEW q \in Importers,
         NEW o, import' = [import EXCEPT ![q] = o], o.phase # "imported"
  PROVE  ~Committed(r)
<1>1. CASE q = r
  <2>1. import'[r] = o
    BY <1>1, Zenon
  <2>. QED
    BY <2>1, Zenon DEF Committed
<1>2. CASE q # r
  <2>1. import'[r] = import[r]
    BY <1>2, Zenon
  <2>2. "ready" # "imported"
    BY SMT
  <2>. QED
    BY <2>1, <2>2, Zenon DEF Committed
<1>. QED
  BY <1>1, <1>2

LEMMA OnlyCommits ==
  ASSUME TransfersFit, TransferNext, NEW r \in Importers, Committed(r)
  PROVE  CommitImport(r)
<1>0. import \in [Importers -> ImportRecord]
  BY FitFacts, Zenon
<1>1. "ready" # "imported" /\ "ready" # "idle" /\ "ready" # "validating"
      /\ "ready" # "summarising"
  BY SMT
<1>2. import' # import
  BY <1>1, Zenon DEF Committed
<1>3. ~ExportStep
  BY <1>2, Zenon DEF ExportStep, StartExport, ExportTable, FinishExport
<1>4. ~EditStep
  <2>1. \A d : Edit(d) => import' = import
    BY Zenon DEF Edit
  <2>2. ASSUME NEW m \in Monitors
        PROVE  ~(CreateMonitor(m) \/ UpdateMonitor(m) \/ DeleteMonitor(m) \/ Execute(m))
    BY <1>2, <2>1, Zenon DEF CreateMonitor, UpdateMonitor, DeleteMonitor, Execute
  <2>3. ASSUME NEW c \in Channels
        PROVE  ~(CreateChannel(c) \/ DeleteChannel(c))
    BY <1>2, <2>1, Zenon DEF CreateChannel, DeleteChannel
  <2>4. ASSUME NEW i \in Items
        PROVE  ~(CreateItem(i) \/ UpdateItem(i) \/ DeleteItem(i))
    BY <1>2, <2>1, Zenon DEF CreateItem, UpdateItem, DeleteItem
  <2>5. ASSUME NEW s \in Shares
        PROVE  ~(CreateShare(s) \/ SwitchShare(s) \/ DeleteShare(s))
    BY <1>2, <2>1, Zenon DEF CreateShare, SwitchShare, DeleteShare
  <2>. QED
    BY <2>2, <2>3, <2>4, <2>5, Zenon DEF EditStep
<1>5. PICK q \in Importers : ImportStep(q)
  BY <1>3, <1>4, Zenon DEF TransferNext
<1>6. ASSUME NEW o, import' = [import EXCEPT ![q] = o], o.phase # "imported"
      PROVE  FALSE
  BY <1>0, <1>6, OtherPhase, Zenon
<1>7. ASSUME NEW p \in {"refused", "previewed", "failed"}, NEW o, o = Ended(p)
      PROVE  o.phase # "imported"
  <2>1. p \in {"refused", "previewed", "imported", "failed"} /\ p # "imported"
    BY SMT
  <2>. QED
    BY <1>7, <2>1, EndedImport, Zenon
<1>8. ~StartImport(q)
  <2>1. CASE q = r
    BY <1>1, <2>1, Zenon DEF StartImport, Committed
  <2>2. CASE q # r
    <3>1. StartImport(q) => import'[r] = import[r]
      BY <1>0, <2>2, Zenon DEF StartImport
    <3>. QED
      BY <1>1, <3>1, Zenon DEF Committed
  <2>. QED
    BY <2>1, <2>2
<1>9. ~ReadTable(q)
  <2>1. CASE q = r
    <3>1. import[r].phase = "ready"
      BY Zenon DEF Committed
    <3>. QED
      BY <1>1, <2>1, <3>1, Zenon DEF ReadTable
  <2>2. CASE q # r
    <3>1. ReadTable(q) => import'[r] = import[r]
      BY <1>0, <2>2, Zenon DEF ReadTable
    <3>. QED
      BY <1>1, <3>1, Zenon DEF Committed
  <2>. QED
    BY <2>1, <2>2
<1>10. ~FinishValidation(q)
  <2>1. CASE q = r
    BY <1>1, <2>1, Zenon DEF FinishValidation, Committed
  <2>2. CASE q # r
    <3>1. FinishValidation(q) => import'[r] = import[r]
      BY <1>0, <2>2, Zenon DEF FinishValidation
    <3>. QED
      BY <1>1, <3>1, Zenon DEF Committed
  <2>. QED
    BY <2>1, <2>2
<1>11. ~FinishSummary(q)
  <2>1. CASE q = r
    BY <1>1, <2>1, Zenon DEF FinishSummary, Committed
  <2>2. CASE q # r
    <3>1. FinishSummary(q) => import'[r] = import[r]
      BY <1>0, <2>2, Zenon DEF FinishSummary
    <3>. QED
      BY <1>1, <3>1, Zenon DEF Committed
  <2>. QED
    BY <2>1, <2>2
<1>12. ~Rollback(q)
  <2>1. PICK o : o = Ended("failed")
    OBVIOUS
  <2>2. "failed" \in {"refused", "previewed", "failed"}
    BY Zenon
  <2>3. o.phase # "imported"
    BY <1>7, <2>1, <2>2, Zenon
  <2>4. Rollback(q) => import' = [import EXCEPT ![q] = o]
    BY <2>1, Zenon DEF Rollback
  <2>. QED
    BY <1>6, <2>3, <2>4, Zenon
<1>13. CommitImport(q)
  BY <1>5, <1>8, <1>9, <1>10, <1>11, <1>12, Zenon DEF ImportStep
<1>14. q = r
  <2>. SUFFICES ASSUME q # r PROVE FALSE
    OBVIOUS
  <2>1. import'[r] = import[r]
    BY <1>0, <1>13, Zenon DEF CommitImport
  <2>. QED
    BY <1>1, <2>1, Zenon DEF Committed
<1>. QED
  BY <1>13, <1>14, Zenon


\* What a committed import read and wrote.
Imported(r, b, replace) ==
  /\ replace \in BOOLEAN /\ Read(b) /\ b.rows \in Rows
  /\ replace => Resolves(b.rows)
  /\ import[r].summary = Summary(b, import[r].seen, replace)
  /\ db \in Rows /\ db' \in Rows
  /\ \A t \in Table :
       /\ db'[t] = Upserted(Base(db, b, replace)[t], b.rows[t])
       /\ Ids(db'[t]) = Ids(Base(db, b, replace)[t]) \cup Ids(b.rows[t])
  /\ recorded' = IF replace THEN recorded \cap Ids(Cleared(db, b)["monitors"])
                 ELSE recorded

LEMMA CommitFacts ==
  ASSUME TransfersFit, NEW r \in Importers, CommitImport(r),
         NEW b, b = import[r].bundle, NEW replace, replace = import[r].replace
  PROVE  Imported(r, b, replace)
<1>1. import[r] \in ImportRecord /\ BundleFits(import[r]) /\ Keyed(db)
  BY FitFacts, Zenon DEF TransfersFit, BundlesFit, Keyed
<1>2. PICK new : new = Stored(db, b, replace)
  OBVIOUS
<1>3. /\ import[r].phase = "ready" /\ db' = new
      /\ recorded' = IF replace THEN recorded \cap Ids(Cleared(db, b)["monitors"])
                     ELSE recorded
  BY <1>2 DEF CommitImport
<1>4. Read(b) /\ (replace => Resolves(b.rows))
      /\ import[r].summary = Summary(b, import[r].seen, replace)
  BY <1>1, <1>3, Zenon DEF BundleFits
<1>5. replace \in BOOLEAN
  BY <1>1, SMT DEF ImportRecord
<1>6. b.rows \in Rows
  BY <1>4, SMT DEF Read, BundleRecord
<1>7. Keyed(b.rows)
  BY <1>4, <1>6, Zenon DEF Keyed, Read, WellFormed
<1>8. StoredAs(new, db, b, replace)
  BY <1>1, <1>2, <1>5, <1>7, StoredRows, Zenon
<1>9. /\ db' \in Rows
      /\ \A t \in Table :
           /\ db'[t] = Upserted(Base(db, b, replace)[t], b.rows[t])
           /\ Ids(db'[t]) = Ids(Base(db, b, replace)[t]) \cup Ids(b.rows[t])
  BY <1>3, <1>8, Zenon DEF StoredAs
<1>. QED
  BY <1>1, <1>3, <1>4, <1>5, <1>6, <1>9, Zenon DEF Keyed, Imported

\* Rows of the installation itself, after a merge and after a replacement.
Merging(e, d, R, t) ==
  /\ d \in Rows /\ e \in Rows /\ t \in Table
  /\ t = "channels" => InApp \notin Ids(R)
  /\ e[t] = Upserted(d[t], R)

LEMMA OwnMerged ==
  ASSUME NEW d, NEW e, NEW R, NEW t, Merging(e, d, R, t)
  PROVE  Own(e)[t] = R \cup Without(Own(d)[t], Ids(R))
<1>0. /\ d \in Rows /\ e \in Rows /\ t \in Table
      /\ t = "channels" => InApp \notin Ids(R)
      /\ e[t] = Upserted(d[t], R)
  BY Zenon DEF Merging
<1>1. CASE t = "channels"
  <2>1. Own(e)[t] = Without(e[t], {InApp}) /\ Own(d)[t] = Without(d[t], {InApp})
    BY <1>0, <1>1, OwnRows, Zenon
  <2>2. \A x \in R : x.id # InApp
    BY <1>0, <1>1, Zenon DEF Ids
  <2>3. ASSUME NEW x
        PROVE  x \in Own(e)[t] <=> x \in R \cup Without(Own(d)[t], Ids(R))
    BY <1>0, <2>1, <2>2, Zenon DEF Upserted, Without
  <2>. QED
    BY <2>3, Zenon
<1>2. CASE t # "channels"
  <2>1. Own(e)[t] = e[t] /\ Own(d)[t] = d[t]
    BY <1>0, <1>2, OwnRows, Zenon
  <2>2. Upserted(d[t], R) = R \cup Without(d[t], Ids(R))
    BY Zenon DEF Upserted
  <2>. QED
    BY <1>0, <2>1, <2>2, Zenon
<1>. QED
  BY <1>1, <1>2

Replacement(e, d, b, t) ==
  /\ e \in Rows /\ t \in Table /\ InApp \notin Ids(b.rows["channels"])
  /\ e[t] = Upserted(Cleared(d, b)[t], b.rows[t])

LEMMA OwnReplaced ==
  ASSUME NEW d, NEW e, NEW b, NEW t, Replacement(e, d, b, t)
  PROVE  Own(e)[t] = b.rows[t]
<1>. /\ e \in Rows /\ t \in Table /\ InApp \notin Ids(b.rows["channels"])
     /\ e[t] = Upserted(Cleared(d, b)[t], b.rows[t])
  BY Zenon DEF Replacement
<1>0. t = "monitors" \/ t = "channels" \/ t = "items" \/ t = "shares"
  BY TableNames, Zenon
<1>1. CASE t = "channels"
  <2>1. Own(e)[t] = Without(e[t], {InApp})
    BY <1>1, OwnRows, Zenon
  <2>2. \A x \in Cleared(d, b)[t] : x.id \in Ids(b.rows[t]) \cup {InApp}
    BY <1>1, ClearedHas, Zenon
  <2>3. \A x \in b.rows[t] : x.id # InApp
    BY <1>1, Zenon DEF Ids
  <2>4. ASSUME NEW x
        PROVE  x \in Own(e)[t] <=> x \in b.rows[t]
    BY <2>1, <2>2, <2>3, Zenon DEF Upserted, Without
  <2>. QED
    BY <2>4, Zenon
<1>2. CASE t # "channels"
  <2>1. Own(e)[t] = e[t]
    BY <1>2, OwnRows, Zenon
  <2>2. \A x \in Cleared(d, b)[t] : x.id \in Ids(b.rows[t])
    <3>1. /\ \A x \in Cleared(d, b)["monitors"] : x.id \in Ids(b.rows["monitors"])
          /\ Cleared(d, b)["items"] = {} /\ Cleared(d, b)["shares"] = {}
      BY ClearedHas, Zenon
    <3>. QED
      BY <1>0, <1>2, <3>1, Zenon
  <2>3. Without(Cleared(d, b)[t], Ids(b.rows[t])) = {}
    BY <2>2, Zenon DEF Without
  <2>4. e[t] = b.rows[t]
    BY <2>3, Zenon DEF Upserted
  <2>. QED
    BY <2>1, <2>4, Zenon
<1>. QED
  BY <1>1, <1>2

\* References resolve in a database that holds the rows of a bundle in which
\* they do, and the built-in channel besides.
LEMMA ResolvedIn ==
  ASSUME NEW d \in Rows, NEW e, Resolves(d), \A t \in Table : Own(e)[t] = d[t],
         e \in Rows
  PROVE  Resolves(e)
<1>1. e["monitors"] = d["monitors"] /\ e["items"] = d["items"] /\ e["shares"] = d["shares"]
  <2>1. "monitors" # "channels" /\ "items" # "channels" /\ "shares" # "channels"
    BY SMT
  <2>. QED
    BY <2>1, OwnRows, TableNames, Zenon
<1>2. Ids(d["channels"]) \subseteq Ids(e["channels"])
  <2>1. d["channels"] \subseteq e["channels"]
    BY OwnRows, TableNames, Zenon
  <2>. QED
    BY <2>1, Zenon DEF Ids
<1>3. \A m \in e["monitors"] : m.channels \subseteq {InApp} \cup Ids(e["channels"])
  BY <1>1, <1>2, Zenon DEF Resolves
<1>4. \A i \in e["items"] : /\ i.monitor \in Ids(e["monitors"])
                            /\ i.channels \subseteq {InApp} \cup Ids(e["channels"])
  BY <1>1, <1>2, Zenon DEF Resolves
<1>5. \A s \in e["shares"] : /\ s.monitors \subseteq Ids(e["monitors"])
                             /\ s.items \subseteq Ids(e["items"])
  BY <1>1, Zenon DEF Resolves
<1>. QED
  BY <1>3, <1>4, <1>5, Zenon DEF Resolves

StoresBundle(b, replace) ==
  /\ \A t \in Table :
       Own(db')[t] = b.rows[t] \cup (IF replace THEN {}
                                     ELSE Without(Own(db)[t], Ids(b.rows[t])))
  /\ replace => Resolves(db')
  /\ recorded' = recorded \cap Ids(db'["monitors"])

LEMMA CommitStores ==
  ASSUME TransfersFit, NEW r \in Importers, CommitImport(r)
  PROVE  StoresBundle(import[r].bundle, import[r].replace)
<1>. PICK b : b = import[r].bundle
  OBVIOUS
<1>. PICK replace : replace = import[r].replace
  OBVIOUS
<1>. SUFFICES /\ \A t \in Table :
                   Own(db')[t] = b.rows[t] \cup (IF replace THEN {}
                                                 ELSE Without(Own(db)[t], Ids(b.rows[t])))
              /\ replace => Resolves(db')
              /\ recorded' = recorded \cap Ids(db'["monitors"])
  BY DEF StoresBundle
<1>1. /\ replace \in BOOLEAN /\ Read(b) /\ b.rows \in Rows
      /\ replace => Resolves(b.rows)
      /\ db \in Rows /\ db' \in Rows
      /\ \A t \in Table :
           /\ db'[t] = Upserted(Base(db, b, replace)[t], b.rows[t])
           /\ Ids(db'[t]) = Ids(Base(db, b, replace)[t]) \cup Ids(b.rows[t])
      /\ recorded' = IF replace THEN recorded \cap Ids(Cleared(db, b)["monitors"])
                     ELSE recorded
  <2>1. Imported(r, b, replace)
    BY CommitFacts, Zenon
  <2>. QED
    BY <2>1, Zenon DEF Imported
<1>2. InApp \notin Ids(b.rows["channels"])
  BY <1>1, Zenon DEF Read, WellFormed
<1>3. PICK e : e = db'
  OBVIOUS
<1>4. recorded \subseteq Ids(db["monitors"])
  BY FitFacts, Zenon
<1>5. Ids(e["monitors"]) = Ids(Base(db, b, replace)["monitors"]) \cup Ids(b.rows["monitors"])
  BY <1>1, <1>3, TableNames, Zenon
<1>6. CASE replace = TRUE
  <2>1. Base(db, b, replace) = Cleared(db, b)
    BY <1>6, Zenon DEF Base
  <2>2. \A t \in Table : e[t] = Upserted(Cleared(db, b)[t], b.rows[t])
    BY <1>1, <1>3, <2>1, Zenon
  <2>3. \A t \in Table : Own(e)[t] = b.rows[t]
    <3>. SUFFICES ASSUME NEW t \in Table PROVE Own(e)[t] = b.rows[t]
      OBVIOUS
    <3>1. Replacement(e, db, b, t)
      BY <1>1, <1>2, <1>3, <2>2, Zenon DEF Replacement
    <3>. QED
      BY <3>1, OwnReplaced, SMT
  <2>4. Resolves(e)
    BY <1>1, <1>3, <1>6, <2>3, ResolvedIn, Zenon
  <2>5. recorded' = recorded \cap Ids(e["monitors"])
    <3>1. Ids(Cleared(db, b)["monitors"]) = Ids(db["monitors"]) \cap Ids(b.rows["monitors"])
      <4>1. \A x : x \in Cleared(db, b)["monitors"]
                   <=> x \in db["monitors"] /\ x.id \in Ids(b.rows["monitors"])
        BY ClearedHas, Zenon
      <4>2. ASSUME NEW i \in Ids(Cleared(db, b)["monitors"])
            PROVE  i \in Ids(db["monitors"]) /\ i \in Ids(b.rows["monitors"])
        BY <4>1, Zenon DEF Ids
      <4>3. ASSUME NEW i \in Ids(db["monitors"]), i \in Ids(b.rows["monitors"])
            PROVE  i \in Ids(Cleared(db, b)["monitors"])
        <5>1. PICK x \in db["monitors"] : x.id = i
          BY Zenon DEF Ids
        <5>2. x \in Cleared(db, b)["monitors"]
          BY <4>1, <4>3, <5>1, Zenon
        <5>. QED
          BY <5>1, <5>2, IdsHas, Zenon
      <4>. QED
        BY <4>2, <4>3, Zenon
    <3>2. recorded' = recorded \cap Ids(Cleared(db, b)["monitors"])
      BY <1>1, <1>6, Zenon
    <3>3. Ids(e["monitors"]) = Ids(b.rows["monitors"])
      BY <1>5, <2>1, <3>1, Zenon
    <3>. QED
      BY <1>4, <3>1, <3>2, <3>3, Zenon
  <2>6. \A t \in Table :
          Own(e)[t] = b.rows[t] \cup (IF replace THEN {}
                                      ELSE Without(Own(db)[t], Ids(b.rows[t])))
    BY <1>6, <2>3, Zenon
  <2>. QED
    BY <1>3, <2>4, <2>5, <2>6, Zenon
<1>7. CASE replace = FALSE
  <2>1. Base(db, b, replace) = db /\ recorded' = recorded
    BY <1>1, <1>7, Zenon DEF Base
  <2>2. \A t \in Table : e[t] = Upserted(db[t], b.rows[t])
    BY <1>1, <1>3, <2>1, Zenon
  <2>3. \A t \in Table : t = "channels" => InApp \notin Ids(b.rows[t])
    BY <1>2, Zenon
  <2>4. \A t \in Table : Own(e)[t] = b.rows[t] \cup Without(Own(db)[t], Ids(b.rows[t]))
    <3>. SUFFICES ASSUME NEW t \in Table
                  PROVE  Own(e)[t] = b.rows[t] \cup Without(Own(db)[t], Ids(b.rows[t]))
      OBVIOUS
    <3>1. Merging(e, db, b.rows[t], t)
      BY <1>1, <1>3, <2>2, <2>3, Zenon DEF Merging
    <3>. QED
      BY <3>1, OwnMerged, SMT
  <2>5. recorded' = recorded \cap Ids(e["monitors"])
    BY <1>4, <1>5, <2>1, Zenon
  <2>6. \A t \in Table :
          Own(e)[t] = b.rows[t] \cup (IF replace THEN {}
                                      ELSE Without(Own(db)[t], Ids(b.rows[t])))
    BY <1>7, <2>4, Zenon
  <2>. QED
    BY <1>3, <1>7, <2>5, <2>6, Zenon
<1>. QED
  BY <1>1, <1>6, <1>7, Zenon


\* An import stores its bundle, replacing or merging, leaves no reference
\* dangling when it replaces and keeps the records of monitors that stay
\* (ImportConfiguration), for any bundles and any edits meanwhile.
THEOREM ImportsStoreTheirBundle == TransferSpec => ImportIsTheBundle
<1>1. ASSUME TransfersFit, TransferNext, NEW r \in Importers, Committed(r)
      PROVE  LET rows_ == import[r].bundle.rows
             IN /\ \A t \in Table :
                     Own(db')[t] = rows_[t] \cup (IF import[r].replace THEN {}
                                                  ELSE Without(Own(db)[t], Ids(rows_[t])))
                /\ import[r].replace => Resolves(db')
                /\ recorded' = recorded \cap Ids(db'["monitors"])
  <2>1. CommitImport(r)
    BY <1>1, OnlyCommits, Zenon
  <2>2. StoresBundle(import[r].bundle, import[r].replace)
    BY <1>1, <2>1, CommitStores, Zenon
  <2>. QED
    BY <2>2 DEF StoresBundle
<1>2. ASSUME TransfersFit, UNCHANGED transferVars, NEW r \in Importers
      PROVE  ~Committed(r)
  <2>1. import' = import /\ "ready" # "imported"
    BY <1>2, SMT DEF transferVars
  <2>. QED
    BY <2>1, Zenon DEF Committed
<1>3. TransfersFit /\ [TransferNext]_transferVars =>
        \A r \in Importers : Committed(r) =>
          LET rows_ == import[r].bundle.rows
          IN /\ \A t \in Table :
                  Own(db')[t] = rows_[t] \cup (IF import[r].replace THEN {}
                                               ELSE Without(Own(db)[t], Ids(rows_[t])))
             /\ import[r].replace => Resolves(db')
             /\ recorded' = recorded \cap Ids(db'["monitors"])
  BY <1>1, <1>2
<1>. QED
  BY <1>3, TransferInvariance, PTL DEF TransferSpec, ImportIsTheBundle


\* What of the rows of a table is an installation's own.
LEMMA OwnIds ==
  ASSUME NEW d \in Rows, NEW t \in Table
  PROVE  Ids(Own(d)[t]) = IF t = "channels" THEN Ids(d[t]) \ {InApp} ELSE Ids(d[t])
<1>1. CASE t = "channels"
  <2>1. Own(d)[t] = Without(d[t], {InApp})
    BY <1>1, OwnRows, Zenon
  <2>. QED
    BY <1>1, <2>1, IdsWithout, Zenon
<1>2. CASE t # "channels"
  BY <1>2, OwnRows, Zenon
<1>. QED
  BY <1>1, <1>2

\* What a replacement leaves of a table are ids the bundle brings, and the
\* built-in channel.
LEMMA ClearedIds ==
  ASSUME NEW d, NEW b, NEW t \in Table
  PROVE  /\ Ids(Cleared(d, b)[t]) \subseteq Ids(d[t])
         /\ \A i \in Ids(Cleared(d, b)[t]) :
              i \in Ids(b.rows[t]) \/ (t = "channels" /\ i = InApp)
         /\ t = "channels" /\ InApp \in Ids(d[t]) => InApp \in Ids(Cleared(d, b)[t])
<1>0. t = "monitors" \/ t = "channels" \/ t = "items" \/ t = "shares"
  BY TableNames, Zenon
<1>1. Ids(Cleared(d, b)[t]) \subseteq Ids(d[t])
  <2>1. Cleared(d, b)[t] \subseteq d[t]
    BY ClearedRows, Zenon
  <2>. QED
    BY <2>1, Zenon DEF Ids
<1>2. \A x \in Cleared(d, b)[t] : x.id \in Ids(b.rows[t]) \/ (t = "channels" /\ x.id = InApp)
  <2>1. CASE t = "channels"
    <3>1. \A x \in Cleared(d, b)["channels"] : x.id \in Ids(b.rows["channels"]) \cup {InApp}
      BY ClearedHas, Zenon
    <3>. QED
      BY <2>1, <3>1, Zenon
  <2>2. CASE t # "channels"
    <3>1. /\ \A x \in Cleared(d, b)["monitors"] : x.id \in Ids(b.rows["monitors"])
          /\ Cleared(d, b)["items"] = {} /\ Cleared(d, b)["shares"] = {}
      BY ClearedHas, Zenon
    <3>. QED
      BY <1>0, <2>2, <3>1, Zenon
  <2>. QED
    BY <2>1, <2>2
<1>3. \A i \in Ids(Cleared(d, b)[t]) : i \in Ids(b.rows[t]) \/ (t = "channels" /\ i = InApp)
  <2>. SUFFICES ASSUME NEW i \in Ids(Cleared(d, b)[t])
                PROVE  i \in Ids(b.rows[t]) \/ (t = "channels" /\ i = InApp)
    OBVIOUS
  <2>1. PICK x \in Cleared(d, b)[t] : x.id = i
    BY Zenon DEF Ids
  <2>. QED
    BY <1>2, <2>1, Zenon
<1>4. ASSUME t = "channels", InApp \in Ids(d[t])
      PROVE  InApp \in Ids(Cleared(d, b)[t])
  <2>1. PICK x \in d[t] : x.id = InApp
    BY <1>4, Zenon DEF Ids
  <2>2. x \in Cleared(d, b)[t]
    BY <1>4, <2>1, ClearedHas, Zenon
  <2>. QED
    BY <2>1, <2>2, IdsHas, Zenon
<1>5. t = "channels" /\ InApp \in Ids(d[t]) => InApp \in Ids(Cleared(d, b)[t])
  BY <1>4, Zenon
<1>. QED
  BY <1>1, <1>3, <1>5

LEMMA CommitTells ==
  ASSUME TransfersFit, NEW r \in Importers, CommitImport(r), import[r].seen = db,
         NEW t \in Table
  PROVE  import[r].summary[t] =
           [added |-> Ids(db'[t]) \ Ids(db[t]),
            overwritten |-> Ids(db[t]) \cap Ids(import[r].bundle.rows[t]),
            deleted |-> Ids(db[t]) \ Ids(db'[t])]
<1>. PICK b : b = import[r].bundle
  OBVIOUS
<1>. PICK replace : replace = import[r].replace
  OBVIOUS
<1>0. Imported(r, b, replace)
  BY CommitFacts, Zenon
<1>1. /\ replace \in BOOLEAN /\ Read(b) /\ b.rows \in Rows
      /\ import[r].summary = Summary(b, db, replace) /\ db \in Rows
      /\ Ids(db'[t]) = Ids(Base(db, b, replace)[t]) \cup Ids(b.rows[t])
  BY <1>0, Zenon DEF Imported
<1>2. t = "channels" => InApp \notin Ids(b.rows[t])
  BY <1>1, Zenon DEF Read, WellFormed
<1>3. PICK N : N = Ids(b.rows[t])
  OBVIOUS
<1>4. PICK D : D = Ids(db[t])
  OBVIOUS
<1>5. PICK E : E = Ids(Own(db)[t])
  OBVIOUS
<1>6. PICK A : A = Ids(db'[t])
  OBVIOUS
<1>7. import[r].summary[t]
        = [added |-> N \ E, overwritten |-> N \cap E,
           deleted |-> IF replace THEN E \ N ELSE {}]
  <2>1. Summary(b, db, replace)[t] = Compared(b.rows[t], Own(db)[t], replace)
    BY Zenon DEF Summary
  <2>2. Compared(b.rows[t], Own(db)[t], replace)
          = [added |-> N \ E, overwritten |-> N \cap E,
             deleted |-> IF replace THEN E \ N ELSE {}]
    BY <1>3, <1>5 DEF Compared
  <2>. QED
    BY <1>1, <2>1, <2>2
<1>8. /\ t = "channels" => E = D \ {InApp} /\ InApp \notin N
      /\ t # "channels" => E = D
  <2>1. CASE t = "channels"
    <3>1. E = D \ {InApp}
      BY <1>1, <1>4, <1>5, <2>1, OwnIds, Zenon
    <3>. QED
      BY <1>2, <1>3, <2>1, <3>1, Zenon
  <2>2. CASE t # "channels"
    <3>1. E = D
      BY <1>1, <1>4, <1>5, <2>2, OwnIds, Zenon
    <3>. QED
      BY <2>2, <3>1, Zenon
  <2>. QED
    BY <2>1, <2>2, Zenon
<1>9. N \cap E = D \cap N
  BY <1>8, SMT
<1>10. CASE replace = FALSE
  <2>1. A = D \cup N
    BY <1>1, <1>3, <1>4, <1>6, <1>10, Zenon DEF Base
  <2>2. N \ E = A \ D /\ D \ A = {}
    BY <1>8, <2>1, SMT
  <2>3. import[r].summary[t] = [added |-> A \ D, overwritten |-> D \cap N, deleted |-> D \ A]
    BY <1>7, <1>9, <1>10, <2>2, Zenon
  <2>. QED
    BY <1>3, <1>4, <1>6, <2>3
<1>11. CASE replace = TRUE
  <2>1. PICK C : C = Ids(Cleared(db, b)[t])
    OBVIOUS
  <2>2. A = C \cup N
    BY <1>1, <1>3, <1>6, <1>11, <2>1, Zenon DEF Base
  <2>3. /\ C \subseteq D /\ \A i \in C : i \in N \/ (t = "channels" /\ i = InApp)
        /\ t = "channels" /\ InApp \in D => InApp \in C
    <3>1. C \subseteq D /\ \A i \in C : i \in N \/ (t = "channels" /\ i = InApp)
      BY <1>3, <1>4, <2>1, ClearedIds, Zenon
    <3>2. t = "channels" /\ InApp \in D => InApp \in C
      BY <1>4, <2>1, ClearedIds, Zenon
    <3>. QED
      BY <3>1, <3>2, Zenon
  <2>4. N \ E = A \ D
    <3>1. ASSUME NEW i
          PROVE  i \in N \ E <=> i \in A \ D
      <4>1. i \in N => (i \in E <=> i \in D)
        BY <1>8, Zenon
      <4>. QED
        BY <2>2, <2>3, <4>1, Zenon
    <3>. QED
      BY <3>1, Zenon
  <2>5. E \ N = D \ A
    <3>1. ASSUME NEW i
          PROVE  i \in E \ N <=> i \in D \ A
      <4>1. CASE t = "channels"
        BY <1>8, <2>2, <2>3, <4>1, Zenon
      <4>2. CASE t # "channels"
        BY <1>8, <2>2, <2>3, <4>2, Zenon
      <4>. QED
        BY <4>1, <4>2
    <3>. QED
      BY <3>1, Zenon
  <2>6. import[r].summary[t] = [added |-> A \ D, overwritten |-> D \cap N, deleted |-> D \ A]
    BY <1>7, <1>9, <1>11, <2>4, <2>5, Zenon
  <2>. QED
    BY <1>3, <1>4, <1>6, <2>6
<1>. QED
  BY <1>1, <1>10, <1>11, Zenon

\* The summary an import answers with tells what the import did, if nothing
\* changed between the reads it was made from and the transaction
\* (buildConfigImportSummary), in both modes.
THEOREM SummariesTell == TransferSpec => SummaryIsTrue
<1>1. ASSUME TransfersFit, TransferNext, NEW r \in Importers, Committed(r),
             import[r].seen = db, NEW t \in Table
      PROVE  import[r].summary[t] =
               [added |-> Ids(db'[t]) \ Ids(db[t]),
                overwritten |-> Ids(db[t]) \cap Ids(import[r].bundle.rows[t]),
                deleted |-> Ids(db[t]) \ Ids(db'[t])]
  <2>1. CommitImport(r)
    BY <1>1, OnlyCommits, Zenon
  <2>. QED
    BY <1>1, <2>1, CommitTells
<1>2. ASSUME TransfersFit, UNCHANGED transferVars, NEW r \in Importers
      PROVE  ~Committed(r)
  <2>1. import' = import /\ "ready" # "imported"
    BY <1>2, SMT DEF transferVars
  <2>. QED
    BY <2>1, Zenon DEF Committed
<1>3. TransfersFit /\ [TransferNext]_transferVars =>
        \A r \in Importers : Committed(r) /\ import[r].seen = db =>
          \A t \in Table :
            import[r].summary[t] =
              [added |-> Ids(db'[t]) \ Ids(db[t]),
               overwritten |-> Ids(db[t]) \cap Ids(import[r].bundle.rows[t]),
               deleted |-> Ids(db[t]) \ Ids(db'[t])]
  BY <1>1, <1>2
<1>. QED
  BY <1>3, TransferInvariance, PTL DEF TransferSpec, SummaryIsTrue

=============================================================================
