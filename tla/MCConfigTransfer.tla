--------------------------- MODULE MCConfigTransfer ---------------------------
(* Small instances of ConfigTransfer for TLC. *)
EXTENDS ConfigTransfer, TLC

CONSTANTS m1, m2, m3, inapp, c1, c2, i1, i2, i3, s1, s2, s3

MCChannelSets == {{inapp}, {c1}}

Board ==
  [Nothing EXCEPT
     !["monitors"] = {[id |-> m1, channels |-> {c1}]},
     !["channels"] = {[id |-> inapp], [id |-> c1]},
     !["items"] = {[id |-> i1, monitor |-> m1, channels |-> {inapp}]},
     !["shares"] = {[id |-> s1, token |-> s1, monitors |-> {}, items |-> {i1},
                     active |-> TRUE]}]

MCStarts == {Board, [Nothing EXCEPT !["channels"] = {[id |-> inapp]}]}
MCFresh == {m3, c2, i3, s3}

Bundle(contents, rows, sealed, sound) ==
  [contents |-> contents \cup {"runtime"}, rows |-> rows, admin |-> FALSE,
   sealed |-> sealed, sound |-> sound]

\* Another installation: one that has a monitor of its own and an older version
\* of ours, with a link that was given another id.
Theirs ==
  [monitors |-> {[id |-> m1, channels |-> {inapp}], [id |-> m2, channels |-> {c1}]},
   channels |-> {},
   items |-> {},
   shares |-> {[id |-> s2, token |-> s1, monitors |-> {m1}, items |-> {},
                active |-> FALSE]}]

\* An item for our monitor, and a bundle that names the monitor twice.
Extra == [Nothing EXCEPT !["items"] = {[id |-> i2, monitor |-> m1, channels |-> {c1}]}]
Twice == [Nothing EXCEPT !["monitors"] = {[id |-> m1, channels |-> cs] : cs \in MCChannelSets}]

MCForeign ==
  {Bundle({"monitors", "shares"}, Theirs, TRUE, TRUE),
   Bundle(Table, [Theirs EXCEPT !["channels"] = {[id |-> c1]}], FALSE, TRUE),
   Bundle({"items"}, Extra, FALSE, TRUE),
   Bundle({"monitors"}, Twice, FALSE, TRUE)}

MCWants ==
  {[contents |-> Table, sealed |-> TRUE],
   [contents |-> {"monitors", "items"}, sealed |-> FALSE]}

MCSymmetry == Permutations(Importers)
=============================================================================
