---------------------------- MODULE ConfigTransfer ----------------------------
(***************************************************************************)
(* Moving an installation's configuration: the export of the tables an     *)
(* administrator asks for, the validation, preview and import of a bundle  *)
(* (internal/api/config_transfer.go), the transaction that merges it into  *)
(* the database or replaces what is there                                  *)
(* (internal/store/configuration_transfer.go), and the handlers that edit  *)
(* the same tables meanwhile (internal/api/server.go and status_board.go). *)
(*                                                                         *)
(* A table is a set of rows, and a row keeps its id and what it refers to. *)
(* Abstracted: names, module configuration, sources, rules, times; whether *)
(* these are complete and accepted by the module or notifier is the flag   *)
(* sound of a bundle; the archive and the encryption, of which remains     *)
(* whether the password given opens a sealed bundle; the runtime domains   *)
(* and the administrator's key an import also writes (RuntimeConfig).      *)
(***************************************************************************)
EXTENDS Naturals, FiniteSets, Sequences

CONSTANTS
  Monitors, Channels, Items, Shares, \* ids
  InApp,      \* id of the built-in channel
  ChannelSets, \* what a monitor or item may name as its channels
  Starts,     \* databases the installation may begin with
  Fresh,      \* ids core.NewID is still to give out
  Foreign,    \* bundles that come from elsewhere
  Wants,      \* what an export may be asked for
  Importers,  \* requests to preview or import
  NoBundle,
  MaxEdits    \* bound: edits by the other handlers

Tables == <<"monitors", "channels", "items", "shares">>
Table == {"monitors", "channels", "items", "shares"}
Contents == Table \cup {"runtime", "admin_key"}

AnyId == Monitors \cup Channels \cup Items \cup Shares

\* A share's token is drawn with its id, and named by it.
MonitorRow == [id : Monitors, channels : SUBSET Channels]
ChannelRow == [id : Channels]
ItemRow == [id : Items, monitor : Monitors, channels : SUBSET Channels]
ShareRow ==
  [id : Shares, token : Shares, monitors : SUBSET Monitors, items : SUBSET Items,
   active : BOOLEAN]
AnyRow == MonitorRow \cup ChannelRow \cup ItemRow \cup ShareRow

Rows ==
  {d \in [Table -> SUBSET AnyRow] :
     /\ d["monitors"] \subseteq MonitorRow /\ d["channels"] \subseteq ChannelRow
     /\ d["items"] \subseteq ItemRow /\ d["shares"] \subseteq ShareRow}
Nothing == [t \in Table |-> {}]

BundleRecord ==
  [contents : SUBSET Contents, rows : Rows, admin : BOOLEAN, sealed : BOOLEAN,
   sound : BOOLEAN]

Ids(rows) == {row.id : row \in rows}
Without(rows, ids) == {row \in rows : row.id \notin ids}
Distinct(rows) == \A x, y \in rows : x.id = y.id => x = y

\* The foreign key of items and the unique index on tokens.
Consistent(d) ==
  /\ \A i \in d["items"] : i.monitor \in Ids(d["monitors"])
  /\ \A x, y \in d["shares"] : x.token = y.token => x = y

\* No row has an id, or a token, that is still to be given out.
NoneFresh(d, ids) ==
  /\ \A t \in Table : Ids(d[t]) \cap ids = {}
  /\ \A s \in d["shares"] : s.token \notin ids

\* A database the handlers and the constraints can have left: a primary key per
\* table, and links that show something.
Database ==
  {d \in Rows : /\ \A t \in Table : Distinct(d[t])
                /\ Consistent(d)
                /\ \A s \in d["shares"] : s.monitors \cup s.items # {}}

ASSUME TransferAssumption ==
  /\ InApp \in Channels /\ ChannelSets \subseteq SUBSET Channels
  /\ Fresh \subseteq AnyId
  /\ Starts \subseteq Database /\ \A d \in Starts : NoneFresh(d, Fresh)
  /\ Foreign \subseteq BundleRecord /\ \A b \in Foreign : NoneFresh(b.rows, Fresh)
  /\ Wants \subseteq [contents : SUBSET Contents, sealed : BOOLEAN]
  /\ MaxEdits \in Nat

VARIABLES
  db,       \* the four tables
  recorded, \* monitors that have execution records
  fresh,    \* ids not given out yet
  import,   \* requests to preview or import a bundle
  export,   \* the one export
  edits     \* bound: edits so far

transferVars == <<db, recorded, fresh, import, export, edits>>

Own(d) == [d EXCEPT !["channels"] = Without(@, {InApp})]

Idle ==
  [phase |-> "idle", replace |-> FALSE, bundle |-> NoBundle,
   seen |-> Nothing, at |-> 1, summary |-> NoBundle]
Ended(phase) == [Idle EXCEPT !.phase = phase]

TransferInit ==
  /\ db \in Starts /\ recorded = Ids(db["monitors"])
  /\ fresh = Fresh
  /\ import = [r \in Importers |-> Idle]
  /\ export = [phase |-> "idle", want |-> NoBundle, rows |-> Nothing, at |-> 1,
               bundle |-> NoBundle]
  /\ edits = 0

(***************************************************************************)
(* Reading a bundle.                                                       *)
(***************************************************************************)

\* decryptPayload: whether the password is the one the bundle was sealed with.
Opens(b, password) == b.sealed => password

\* readConfigBundle, decodeConfigBundle: the list of contents has the runtime
\* configuration and agrees with what is there.
Decodes(b, password) ==
  /\ Opens(b, password)
  /\ "runtime" \in b.contents
  /\ "admin_key" \in b.contents <=> b.admin
  /\ \A t \in Table : b.rows[t] # {} => t \in b.contents

\* validateConfigBundle before it reads the database. The built-in channel is
\* taken as present from the start, so that a bundle may not bring it.
WellFormed(b) ==
  /\ b.sound
  /\ \A t \in Table : Distinct(b.rows[t])
  /\ InApp \notin Ids(b.rows["channels"])

\* What the bundle may refer to: itself, the built-in channel and, unless it
\* replaces everything, what is stored already.
Known(b, seen, replace, t) ==
  Ids(b.rows[t]) \cup (IF t = "channels" THEN {InApp} ELSE {})
    \cup (IF replace THEN {} ELSE Ids(seen[t]))

ReferencesKnown(b, seen, replace) ==
  /\ \A m \in b.rows["monitors"] :
       m.channels \subseteq Known(b, seen, replace, "channels")
  /\ \A i \in b.rows["items"] :
       /\ i.monitor \in Known(b, seen, replace, "monitors")
       /\ i.channels \subseteq Known(b, seen, replace, "channels")

SharesValid(b, seen, replace) ==
  \A s \in b.rows["shares"] :
    /\ s.monitors \cup s.items # {}
    /\ s.monitors \subseteq Known(b, seen, replace, "monitors")
    /\ s.items \subseteq Known(b, seen, replace, "items")
    /\ \A x \in b.rows["shares"] \cup (IF replace THEN {} ELSE seen["shares"]) :
         x.token = s.token => x.id = s.id

Accepts(b, seen, replace) ==
  ReferencesKnown(b, seen, replace) /\ SharesValid(b, seen, replace)

(***************************************************************************)
(* What an import does to the tables, and what it tells.                   *)
(***************************************************************************)

FaultCompared(incoming, existing, replace) ==
  [added |-> Ids(incoming) \ Ids(existing),
   overwritten |-> Ids(incoming) \cap Ids(existing),
   deleted |-> {}]

\* compareConfigTransferItems
Compared(incoming, existing, replace) ==
  [added |-> Ids(incoming) \ Ids(existing),
   overwritten |-> Ids(incoming) \cap Ids(existing),
   deleted |-> IF replace THEN Ids(existing) \ Ids(incoming) ELSE {}]

\* buildConfigImportSummary
Summary(b, seen, replace) ==
  [t \in Table |-> Compared(b.rows[t], Own(seen)[t], replace)]

FaultCleared(d, b) == [Nothing EXCEPT !["channels"] = {[id |-> InApp]}]

\* clearTransferableConfigurationTx: monitors and channels the bundle brings
\* keep their rows, for their records hang on them.
Cleared(d, b) ==
  [monitors |-> {m \in d["monitors"] : m.id \in Ids(b.rows["monitors"])},
   channels |-> {c \in d["channels"] : c.id \in Ids(b.rows["channels"]) \cup {InApp}},
   items |-> {}, shares |-> {}]

\* upsertMonitorTx and the like
Upserted(rows, new) == Without(rows, Ids(new)) \cup new

Stored(d, b, replace) ==
  LET base == IF replace THEN Cleared(d, b) ELSE d
  IN [t \in Table |-> Upserted(base[t], b.rows[t])]

(***************************************************************************)
(* An import: parseConfigurationImport, the summary, the transaction.      *)
(***************************************************************************)
Uploads == Foreign \cup ({export.bundle} \ {NoBundle})

\* A replacing import looks at nothing that is stored before the summary.
StartImport(r) ==
  /\ import[r].phase = "idle"
  /\ \E b \in Uploads, password, replace \in BOOLEAN :
       import' = [import EXCEPT ![r] =
         IF ~(Decodes(b, password) /\ WellFormed(b)) THEN Ended("refused")
         ELSE [Idle EXCEPT !.bundle = b, !.replace = replace, !.phase = "validating",
                           !.at = IF replace THEN Len(Tables) + 1 ELSE 1]]
  /\ UNCHANGED <<db, recorded, fresh, export, edits>>

\* The tables are read one after the other, first to validate the bundle and
\* then once more for the summary.
ReadTable(r) ==
  /\ import[r].phase \in {"validating", "summarising"} /\ import[r].at <= Len(Tables)
  /\ LET t == Tables[import[r].at]
     IN import' = [import EXCEPT ![r].seen[t] = db[t], ![r].at = @ + 1]
  /\ UNCHANGED <<db, recorded, fresh, export, edits>>

FinishValidation(r) ==
  /\ import[r].phase = "validating" /\ import[r].at > Len(Tables)
  /\ import' = [import EXCEPT ![r] =
       IF Accepts(@.bundle, @.seen, @.replace)
       THEN [@ EXCEPT !.phase = "summarising", !.at = 1, !.seen = Nothing]
       ELSE Ended("refused")]
  /\ UNCHANGED <<db, recorded, fresh, export, edits>>

\* The answer of a preview; an import goes on to the transaction.
FinishSummary(r) ==
  /\ import[r].phase = "summarising" /\ import[r].at > Len(Tables)
  /\ LET summary == Summary(import[r].bundle, import[r].seen, import[r].replace)
     IN \E next \in {Ended("previewed"),
                     [import[r] EXCEPT !.phase = "ready", !.summary = summary]} :
          import' = [import EXCEPT ![r] = next]
  /\ UNCHANGED <<db, recorded, fresh, export, edits>>

\* ImportConfiguration: one transaction. Monitors it deletes take their records
\* and items with them.
CommitImport(r) ==
  LET b == import[r].bundle
      new == Stored(db, b, import[r].replace)
  IN /\ import[r].phase = "ready" /\ Consistent(new)
     /\ db' = new
     /\ recorded' = IF import[r].replace
                    THEN recorded \cap Ids(Cleared(db, b)["monitors"]) ELSE recorded
     /\ import' = [import EXCEPT ![r] = Ended("imported")]
     /\ UNCHANGED <<fresh, export, edits>>

\* A constraint, or an error of the database at any statement: all is undone.
Rollback(r) ==
  /\ import[r].phase = "ready"
  /\ import' = [import EXCEPT ![r] = Ended("failed")]
  /\ UNCHANGED <<db, recorded, fresh, export, edits>>

(***************************************************************************)
(* An export: exportConfiguration reads a table at a time.                 *)
(***************************************************************************)
StartExport ==
  /\ export.phase = "idle"
  /\ \E w \in Wants : export' = [export EXCEPT !.phase = "reading", !.want = w]
  /\ UNCHANGED <<db, recorded, fresh, import, edits>>

FaultExportTable ==
  /\ export.phase = "reading" /\ export.at <= Len(Tables)
  /\ LET t == Tables[export.at]
     IN export' = [export EXCEPT !.at = @ + 1,
          !.rows[t] = IF t \in export.want.contents THEN db[t] ELSE {}]
  /\ UNCHANGED <<db, recorded, fresh, import, edits>>

ExportTable ==
  /\ export.phase = "reading" /\ export.at <= Len(Tables)
  /\ LET t == Tables[export.at]
     IN export' = [export EXCEPT !.at = @ + 1,
          !.rows[t] = IF t \in export.want.contents THEN Own(db)[t] ELSE {}]
  /\ UNCHANGED <<db, recorded, fresh, import, edits>>

FinishExport ==
  /\ export.phase = "reading" /\ export.at > Len(Tables)
  /\ export' = [export EXCEPT !.phase = "exported", !.bundle =
       [contents |-> {"runtime"} \cup export.want.contents, rows |-> export.rows,
        admin |-> "admin_key" \in export.want.contents,
        sealed |-> export.want.sealed, sound |-> TRUE]]
  /\ UNCHANGED <<db, recorded, fresh, import, edits>>

(***************************************************************************)
(* The handlers that edit the tables.                                      *)
(***************************************************************************)
Edit(d) == db' = d /\ edits' = edits + 1 /\ UNCHANGED <<import, export>>
Editing == edits < MaxEdits
Give(id) == id \in fresh /\ fresh' = fresh \ {id}

\* createMonitor and createChannel; nothing looks at the channels it names.
CreateMonitor(m) ==
  /\ Editing /\ Give(m) /\ UNCHANGED recorded
  /\ \E cs \in ChannelSets :
       Edit([db EXCEPT !["monitors"] = @ \cup {[id |-> m, channels |-> cs]}])

UpdateMonitor(m) ==
  /\ Editing /\ m \in Ids(db["monitors"]) /\ UNCHANGED <<recorded, fresh>>
  /\ \E cs \in ChannelSets :
       Edit([db EXCEPT !["monitors"] = Upserted(@, {[id |-> m, channels |-> cs]})])

\* The items and records of a monitor go with it, its ids in shares stay.
DeleteMonitor(m) ==
  /\ Editing /\ m \in Ids(db["monitors"]) /\ UNCHANGED fresh
  /\ recorded' = recorded \ {m}
  /\ Edit([db EXCEPT !["monitors"] = Without(@, {m}),
                     !["items"] = {i \in @ : i.monitor # m}])

\* An execution stores a record.
Execute(m) ==
  /\ m \in Ids(db["monitors"]) \ recorded
  /\ recorded' = recorded \cup {m}
  /\ UNCHANGED <<db, fresh, import, export, edits>>

CreateChannel(c) ==
  /\ Editing /\ Give(c) /\ UNCHANGED recorded
  /\ Edit([db EXCEPT !["channels"] = @ \cup {[id |-> c]}])

\* Monitors and items that name the channel keep its id.
DeleteChannel(c) ==
  /\ Editing /\ c \in Ids(db["channels"]) \ {InApp} /\ UNCHANGED <<recorded, fresh>>
  /\ Edit([db EXCEPT !["channels"] = Without(@, {c})])

\* NormalizeAndValidate wants the monitor, not the channels.
CreateItem(i) ==
  /\ Editing /\ Give(i) /\ UNCHANGED recorded
  /\ \E m \in Ids(db["monitors"]), cs \in ChannelSets :
       Edit([db EXCEPT !["items"] = @ \cup {[id |-> i, monitor |-> m, channels |-> cs]}])

UpdateItem(i) ==
  /\ Editing /\ i \in Ids(db["items"]) /\ UNCHANGED <<recorded, fresh>>
  /\ \E m \in Ids(db["monitors"]), cs \in ChannelSets :
       Edit([db EXCEPT !["items"] =
         Upserted(@, {[id |-> i, monitor |-> m, channels |-> cs]})])

DeleteItem(i) ==
  /\ Editing /\ i \in Ids(db["items"]) /\ UNCHANGED <<recorded, fresh>>
  /\ Edit([db EXCEPT !["items"] = Without(@, {i})])

\* normalizeStatusBoardShareSelection: the choice must be on the board, where
\* only monitors with items are, and an item of a chosen monitor is dropped.
CreateShare(s) ==
  /\ Editing /\ Give(s) /\ UNCHANGED recorded
  /\ \E ms \in SUBSET {i.monitor : i \in db["items"]}, is \in SUBSET db["items"] :
       /\ ms \cup Ids(is) # {}
       /\ Edit([db EXCEPT !["shares"] = @ \cup
            {[id |-> s, token |-> s, monitors |-> ms,
              items |-> {i.id : i \in {x \in is : x.monitor \notin ms}},
              active |-> TRUE]}])

\* deleteStatusBoardShare and restoreStatusBoardShare
SwitchShare(s) ==
  /\ Editing /\ UNCHANGED <<recorded, fresh>>
  /\ \E x \in db["shares"], on \in BOOLEAN :
       /\ x.id = s
       /\ Edit([db EXCEPT !["shares"] = Upserted(@, {[x EXCEPT !.active = on]})])

DeleteShare(s) ==
  /\ Editing /\ UNCHANGED <<recorded, fresh>>
  /\ \E x \in db["shares"] : x.id = s /\ ~x.active
  /\ Edit([db EXCEPT !["shares"] = Without(@, {s})])

ImportStep(r) ==
  StartImport(r) \/ ReadTable(r) \/ FinishValidation(r) \/ FinishSummary(r)
  \/ CommitImport(r) \/ Rollback(r)

ExportStep == StartExport \/ ExportTable \/ FinishExport

EditStep ==
  \/ \E m \in Monitors :
       CreateMonitor(m) \/ UpdateMonitor(m) \/ DeleteMonitor(m) \/ Execute(m)
  \/ \E c \in Channels : CreateChannel(c) \/ DeleteChannel(c)
  \/ \E i \in Items : CreateItem(i) \/ UpdateItem(i) \/ DeleteItem(i)
  \/ \E s \in Shares : CreateShare(s) \/ SwitchShare(s) \/ DeleteShare(s)

TransferNext == (\E r \in Importers : ImportStep(r)) \/ ExportStep \/ EditStep

TransferSpec == TransferInit /\ [][TransferNext]_transferVars
-----------------------------------------------------------------------------
SummaryRecord ==
  [Table -> [added : SUBSET AnyId, overwritten : SUBSET AnyId, deleted : SUBSET AnyId]]

ImportRecord ==
  [phase : {"idle", "validating", "refused", "summarising", "previewed", "ready",
            "imported", "failed"},
   replace : BOOLEAN, bundle : {NoBundle} \cup BundleRecord, seen : Rows,
   at : 1..(Len(Tables) + 1), summary : {NoBundle} \cup SummaryRecord]

ExportRecord ==
  [phase : {"idle", "reading", "exported"}, want : {NoBundle} \cup Wants,
   rows : Rows, at : 1..(Len(Tables) + 1), bundle : {NoBundle} \cup BundleRecord]

\* Values of their type, and a primary key per table.
TransfersTypeOK ==
  /\ db \in Rows /\ \A t \in Table : Distinct(db[t])
  /\ recorded \subseteq Monitors /\ fresh \subseteq Fresh
  /\ import \in [Importers -> ImportRecord] /\ export \in ExportRecord
  /\ edits \in 0..MaxEdits

\* Every channel, monitor and item that is referred to is there.
Resolves(rows) ==
  LET monitors == Ids(rows["monitors"])
      channels == {InApp} \cup Ids(rows["channels"])
  IN /\ \A m \in rows["monitors"] : m.channels \subseteq channels
     /\ \A i \in rows["items"] : i.monitor \in monitors /\ i.channels \subseteq channels
     /\ \A s \in rows["shares"] :
          s.monitors \subseteq monitors /\ s.items \subseteq Ids(rows["items"])

\* A backup of everything is taken back by the installation that made it and by
\* an empty one, provided that what it holds refers to nothing that was deleted
\* (exportConfiguration against validateConfigBundle).
BackupIsTakenBack ==
  LET b == export.bundle
  IN b # NoBundle /\ Table \subseteq b.contents /\ Resolves(b.rows) =>
       Decodes(b, TRUE) /\ WellFormed(b) /\ Accepts(b, db, TRUE) /\ Accepts(b, Nothing, FALSE)

\* What every state keeps: values of their type, items on monitors that exist
\* and one link per token however imports and edits overlap
\* (configuration_transfer.go:14-65), and backups that can be taken back.
TransfersInv == TransfersTypeOK /\ Consistent(db) /\ BackupIsTakenBack

Committed(r) == import[r].phase = "ready" /\ import'[r].phase = "imported"

\* An import stores its bundle: every row of it as it is there, and of the other
\* rows none if it replaces and all of them, untouched, if it merges. Replacing
\* leaves no reference dangling, whatever was edited or imported since the
\* bundle was validated, and monitors that stay keep their records
\* (ImportConfiguration, store/configuration_transfer.go:14-65).
ImportIsTheBundle ==
  [][\A r \in Importers : Committed(r) =>
       LET rows == import[r].bundle.rows
       IN /\ \A t \in Table :
               Own(db')[t] = rows[t] \cup (IF import[r].replace THEN {}
                                           ELSE Without(Own(db)[t], Ids(rows[t])))
          /\ import[r].replace => Resolves(db')
          /\ recorded' = recorded \cap Ids(db'["monitors"])]_transferVars

\* The summary an import answers with tells what it did, row by row, if nothing
\* changed between the reads it was made from and the transaction
\* (buildConfigImportSummary, config_transfer.go:368-441).
SummaryIsTrue ==
  [][\A r \in Importers : Committed(r) /\ import[r].seen = db =>
       \A t \in Table :
         import[r].summary[t] =
           [added |-> Ids(db'[t]) \ Ids(db[t]),
            overwritten |-> Ids(db[t]) \cap Ids(import[r].bundle.rows[t]),
            deleted |-> Ids(db[t]) \ Ids(db'[t])]]_transferVars
=============================================================================
