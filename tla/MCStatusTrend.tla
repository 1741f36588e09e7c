--------------------------- MODULE MCStatusTrend ---------------------------
(* Small instances of StatusTrend. *)
EXTENDS StatusTrend

\* A number is below, at or above what the thresholds below tell apart.
MCOutcomes ==
  {[cond |-> "true", value |-> 0], [cond |-> "true", value |-> 1],
   [cond |-> "false", value |-> 3], [cond |-> "unknown", value |-> Missing]}

Number(thresholds, mappings, limit, rule) ==
  [type |-> "number", invert |-> FALSE, mappings |-> mappings,
   default |-> "success", thresholds |-> thresholds, limit |-> limit,
   rule |-> rule]

Boolean(invert, limit, rule) ==
  [type |-> "boolean", invert |-> invert, mappings |-> <<>>,
   default |-> "success", thresholds |-> <<>>, limit |-> limit, rule |-> rule]

Text(mappings, limit, rule) ==
  [type |-> "text", invert |-> FALSE, mappings |-> mappings,
   default |-> "success", thresholds |-> <<>>, limit |-> limit, rule |-> rule]

Upto(m, level) == [max |-> m, level |-> level]
Map(values, level) == [values |-> values, level |-> level]

Steps == <<Upto(1, "success"), Upto(2, "warning"), Upto(Unbounded, "failure")>>
Crossed == <<Upto(2, "warning"), Upto(1, "success"), Upto(Unbounded, "failure")>>
Open == <<Upto(1, "success")>>

Consecutive(w) == [type |-> "consecutive", window |-> w]
Count(w, m) == [type |-> "count", window |-> w, minimum |-> m]
Over(type, w, op, t) ==
  [type |-> type, window |-> w, op |-> op, threshold |-> t]
Delta(w, op, t, mode) ==
  [type |-> "delta", window |-> w, op |-> op, threshold |-> t, mode |-> mode]

\* Configurations whose windows and limits fit in a page.
FittingConfigs ==
  {Number(Steps, <<>>, 2, Consecutive(1)),
   Number(Steps, <<Map({0}, "warning")>>, 3, Count(3, 2)),
   Number(<<>>, <<Map({3}, "failure")>>, 2, Over("average", 2, "gte", 2)),
   Number(Steps, <<>>, 2, Over("slope", 3, "gt", 1)),
   Number(Steps, <<>>, 3, Delta(2, "lt", -1, "absolute")),
   Number(Steps, <<>>, 3, Delta(3, "lte", 200, "percent")),
   Number(Crossed, <<>>, 2, NoRule),
   Number(Open, <<>>, 2, NoRule),
   Number(Steps, <<>>, 2, Count(2, 3)),
   Boolean(FALSE, 3, Consecutive(2)),
   Boolean(TRUE, 3, Consecutive(2)),
   Boolean(FALSE, 3, Consecutive(MaxPage + 1)),
   Text(<<Map({0, 1}, "warning"), Map({0}, "success")>>, 2, Consecutive(2))}
=============================================================================
