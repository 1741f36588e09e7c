----------------------------- MODULE StatusTrend -----------------------------
(***************************************************************************)
(* One item of the status board and the executions of its monitor:         *)
(* samples and trend rules (internal/statusboard/evaluator.go), the window *)
(* of records a rule is evaluated on and the snapshot of the board         *)
(* (service.go), the edits of the item (internal/api/status_board.go) and  *)
(* what is removed from the history meanwhile (clearing, retention).       *)
(*                                                                         *)
(* EvaluateExecution and the write of its result are one step here; what   *)
(* may come between the two is the subject of MonitorExecution.            *)
(*                                                                         *)
(* Abstracted: names, labels, colours and heights; an item has one trend   *)
(* rule; measured numbers are integers, and a quotient is compared by      *)
(* multiplying out, where the code divides floats; a text is a number that *)
(* is only looked up, and the texts a mapping matches are a set (a regular *)
(* expression, or a single value).                                         *)
(***************************************************************************)
EXTENDS Integers, Sequences, FiniteSets, SequencesExt

CONSTANTS
  Outcomes,      \* what an execution may find: [cond, value]
  Configs,       \* configurations an operator may submit
  Missing,       \* the result has no such field
  Unbounded,     \* a threshold without maximum
  DefaultPage,   \* 20: page size when the asked one is out of range
  MaxPage,       \* 100: largest page
  MinShown,      \* 20 and 200: bounds of history_limit
  MaxShown,
  MaxWindow,     \* 200: largest window of a trend rule
  MaxExecutions  \* bound: executions of the monitor

Levels == {"success", "warning", "failure"}
Comparison == {"gt", "gte", "lt", "lte"}

Mapping == [values : SUBSET Int, level : Levels]
Threshold == [max : Int \cup {Unbounded}, level : Levels]

NoRule == [type |-> "none"]
Numeric == {"average", "delta", "slope"}
Rule ==
  {NoRule} \cup [type : {"consecutive"}, window : Int]
  \cup [type : {"count"}, window : Int, minimum : Int]
  \cup [type : {"average", "slope"}, window : Int, op : STRING, threshold : Int]
  \cup [type : {"delta"}, window : Int, op : STRING, threshold : Int, mode : STRING]

\* What an operator may submit for an item, accepted or not.
Configuration ==
  [type : {"boolean", "number", "text"}, invert : BOOLEAN, mappings : Seq(Mapping),
   default : Levels, thresholds : Seq(Threshold), limit : Int, rule : Rule]

ASSUME BoardAssumption ==
  /\ DefaultPage \in 1..MaxPage /\ MaxPage \in Nat
  /\ MinShown \in 1..MaxShown /\ MaxShown \in Nat
  /\ MaxWindow \in Nat \ {0}
  /\ MaxExecutions \in Nat
  /\ Missing \notin Int /\ Unbounded \notin Int
  /\ Outcomes \subseteq [cond : {"true", "false", "unknown"}, value : Int \cup {Missing}]
  /\ Configs \subseteq Configuration
  /\ \A c \in Configs : \A k \in DOMAIN c.mappings : IsFiniteSet(c.mappings[k].values)

VARIABLES
  item,    \* status_board_items: configuration, enabled and runtime state
  records, \* monitor_records of the monitor, oldest first: [at, outcome]
  running, \* when the execution in flight began, or 0
  clock,   \* the next instant
  since    \* history: outcomes since the evaluation last started

boardVars == <<item, records, running, clock, since>>

Smallest(S) == CHOOSE x \in S : \A y \in S : x <= y

SumOf(s) == FoldSeq(LAMBDA x, total : x + total, 0, s)

Newest(n, s) == SubSeq(s, IF n < Len(s) THEN Len(s) - n + 1 ELSE 1, Len(s))

-----------------------------------------------------------------------------
(* Samples: buildSample and what it matches. *)

Unknown == [state |-> "unknown", level |-> "unknown", numeric |-> Missing]

\* applySampleLevel: whatever is not a success is a failure to trend rules.
Leveled(level, numeric) ==
  [state |-> IF level = "success" THEN "success" ELSE "failure",
   level |-> level, numeric |-> numeric]

\* The value mappings a value matches, and the thresholds it stays below.
Mapped(c, v) == {k \in DOMAIN c.mappings : v \in c.mappings[k].values}

Below(c, v) ==
  {k \in DOMAIN c.thresholds :
     c.thresholds[k].max = Unbounded \/ v <= c.thresholds[k].max}

BooleanSample(c, cond) ==
  IF cond = "unknown" THEN Unknown
  ELSE Leveled(IF (cond = "true") # c.invert THEN "success" ELSE "failure",
               Missing)

NumberSample(c, v) ==
  IF v = Missing THEN Unknown
  ELSE IF Mapped(c, v) # {} THEN Leveled(c.mappings[Smallest(Mapped(c, v))].level, v)
  ELSE IF Below(c, v) # {} THEN Leveled(c.thresholds[Smallest(Below(c, v))].level, v)
  ELSE [Unknown EXCEPT !.numeric = v]

TextSample(c, v) ==
  IF v = Missing THEN Unknown
  ELSE IF Mapped(c, v) # {}
  THEN Leveled(c.mappings[Smallest(Mapped(c, v))].level, Missing)
  ELSE Leveled(c.default, Missing)

Sample(c, outcome) ==
  CASE c.type = "boolean" -> BooleanSample(c, outcome.cond)
    [] c.type = "number" -> NumberSample(c, outcome.value)
    [] c.type = "text" -> TextSample(c, outcome.value)

-----------------------------------------------------------------------------
(* Trend rules: EvaluateTrend. *)

CompareNumber(a, op, b) ==
  CASE op = "gt" -> a > b
    [] op = "gte" -> a >= b
    [] op = "lt" -> a < b
    [] op = "lte" -> a <= b

CountAbnormal(window) ==
  Cardinality({k \in DOMAIN window : window[k].state = "failure"})

Measured(window) == [k \in DOMAIN window |-> window[k].numeric]

\* linearSlope over x = 0..n-1, compared with the threshold.
SlopeCompares(values, op, threshold) ==
  LET n == Len(values)
      xs == [k \in 1..n |-> k - 1]
      sumXY == SumOf([k \in 1..n |-> xs[k] * values[k]])
      sumXX == SumOf([k \in 1..n |-> xs[k] * xs[k]])
  IN  CompareNumber(n * sumXY - SumOf(xs) * SumOf(values), op,
                    threshold * (n * sumXX - SumOf(xs) * SumOf(xs)))

DeltaCompares(rule, first, last) ==
  IF rule.mode = "percent"
  THEN CompareNumber((last - first) * 100, rule.op,
                     rule.threshold * (IF first < 0 THEN -first ELSE first))
  ELSE CompareNumber(last - first, rule.op, rule.threshold)

Matches(rule, window) ==
  CASE rule.type = "consecutive" -> CountAbnormal(window) = Len(window)
    [] rule.type = "count" -> CountAbnormal(window) >= rule.minimum
    [] rule.type = "average" ->
         CompareNumber(SumOf(Measured(window)), rule.op,
                       rule.threshold * Len(window))
    [] rule.type = "delta" ->
         DeltaCompares(rule, window[1].numeric, window[Len(window)].numeric)
    [] rule.type = "slope" ->
         SlopeCompares(Measured(window), rule.op, rule.threshold)

\* The reasons not to decide.
Undecided(rule, samples) ==
  \/ Len(samples) < rule.window
  \/ \E k \in DOMAIN Newest(rule.window, samples) :
       Newest(rule.window, samples)[k].state = "unknown"
  \/ /\ rule.type \in Numeric
     /\ \E k \in DOMAIN Newest(rule.window, samples) :
          Newest(rule.window, samples)[k].numeric = Missing
  \/ /\ rule.type = "delta" /\ rule.mode = "percent"
     /\ Newest(rule.window, samples)[1].numeric = 0

EvaluateTrend(rule, samples) ==
  IF Undecided(rule, samples) THEN "unknown"
  ELSE IF Matches(rule, Newest(rule.window, samples)) THEN "true" ELSE "false"

-----------------------------------------------------------------------------
(* Reading the history: normalizePage and the window of a rule. *)

\* Fault: the page is one record short.
PageSizeShort(asked) == IF asked \in 1..MaxPage THEN asked - 1 ELSE DefaultPage

\* A page size out of range is not cut down to the largest: it is replaced.
PageSize(asked) ==
  IF asked \in 1..MaxPage THEN asked ELSE DefaultPage

ListRecords(limit) == Newest(PageSize(limit), records)

\* Those since the evaluation of the item started.
Started(listed) ==
  FoldLeft(LAMBDA kept, r : IF r.at >= item.startedAt THEN Append(kept, r)
                                                      ELSE kept,
           <<>>, listed)

\* Fault: records from before the last edit or reset are evidence too.
AllSamples(record, window) ==
  LET listed == Append(ListRecords(window - 1), record)
  IN  [k \in DOMAIN listed |-> Sample(item.config, listed[k].outcome)]

\* What EvaluateExecution hands to EvaluateTrend: the samples since the
\* evaluation started, the new one included.
TrendSamples(record, window) ==
  LET fresh == Started(Append(ListRecords(window - 1), record))
  IN  [k \in DOMAIN fresh |-> Sample(item.config, fresh[k].outcome)]

ActiveAfter(evaluation, active) ==
  CASE evaluation = "true" -> TRUE
    [] evaluation = "false" -> FALSE
    [] OTHER -> active

EvaluateExecution(record) ==
  IF ~item.enabled \/ item.config.rule = NoRule THEN item
  ELSE [item EXCEPT !.active =
          ActiveAfter(EvaluateTrend(item.config.rule,
                        TrendSamples(record, item.config.rule.window)), @)]

\* Snapshot: the samples the board shows.
Shown ==
  LET listed == ListRecords(item.config.limit)
  IN  [k \in DOMAIN listed |-> Sample(item.config, listed[k].outcome)]

-----------------------------------------------------------------------------
(* The item as it is configured: NormalizeAndValidate. *)

\* Fault: the maxima may come in any order.
ThresholdsAnyOrder(thresholds) ==
  /\ thresholds # <<>> => Last(thresholds).max = Unbounded
  /\ \A k \in DOMAIN thresholds :
       k < Len(thresholds) => thresholds[k].max # Unbounded

ThresholdsAccepted(thresholds) ==
  \A k \in DOMAIN thresholds :
    IF k = Len(thresholds)
    THEN thresholds[k].max = Unbounded
    ELSE /\ thresholds[k].max # Unbounded
         /\ k > 1 => thresholds[k].max > thresholds[k - 1].max

\* Exact values may not be mapped twice; regular expressions may overlap, and
\* a number is only mapped exactly.
MappingsAccepted(c) ==
  /\ c.type = "number" =>
       \A k \in DOMAIN c.mappings : Cardinality(c.mappings[k].values) = 1
  /\ \A j, k \in DOMAIN c.mappings :
       /\ j # k
       /\ Cardinality(c.mappings[j].values) = 1
       => c.mappings[j].values # c.mappings[k].values

RuleAccepted(rule, type) ==
  rule # NoRule =>
    /\ rule.window \in 1..MaxWindow
    /\ rule.type = "count" => rule.minimum \in 1..rule.window
    /\ rule.type \in Numeric =>
         /\ type = "number"
         /\ rule.window >= 2
         /\ rule.op \in Comparison
    /\ rule.type = "delta" => rule.mode \in {"absolute", "percent"}

Accepted(c) ==
  /\ c.limit \in MinShown..MaxShown
  /\ c.type = "number" => ThresholdsAccepted(c.thresholds)
  /\ c.type # "boolean" => MappingsAccepted(c)
  /\ RuleAccepted(c.rule, c.type)

Normalized(c) ==
  [c EXCEPT
    !.mappings = IF c.type = "boolean" THEN <<>> ELSE @,
    !.thresholds =
      CASE c.type # "number" -> <<>>
        [] c.type = "number" /\ @ = <<>> ->
             <<[max |-> Unbounded, level |-> "success"]>>
        [] OTHER -> @]

\* updateStatusBoardItem resets the runtime state when the source, the
\* thresholds or the rules differ from what is stored; inverting the item, or
\* its limit, does not count.
Restarts(old, new) ==
  \/ <<old.type, old.mappings, old.default, old.thresholds>>
       # <<new.type, new.mappings, new.default, new.thresholds>>
  \/ old.rule # new.rule

-----------------------------------------------------------------------------

BoardInit ==
  /\ \E c \in Configs :
       /\ Accepted(c)
       /\ item = [config |-> Normalized(c), enabled |-> TRUE,
                  active |-> FALSE, startedAt |-> 1]
  /\ records = <<>> /\ since = <<>>
  /\ running = 0 /\ clock = 1

\* The runner begins an execution: StartedAt is now.
Begin ==
  /\ running = 0
  /\ clock <= MaxExecutions
  /\ running' = clock
  /\ clock' = clock + 1
  /\ UNCHANGED <<item, records, since>>

\* Its record is evaluated and committed.
FinishExecution ==
  /\ running # 0
  /\ \E outcome \in Outcomes :
       LET record == [at |-> running, outcome |-> outcome]
       IN  /\ item' = EvaluateExecution(record)
           /\ records' = Append(records, record)
           /\ since' = IF running < item.startedAt THEN since
                       ELSE Append(since, outcome)
  /\ running' = 0
  /\ UNCHANGED clock

\* PATCH of the item with another configuration.
EditItem ==
  /\ \E c \in Configs :
       /\ c # item.config /\ Accepted(c)
       /\ IF Restarts(item.config, c)
          THEN /\ item' = [item EXCEPT !.config = Normalized(c),
                                       !.active = FALSE, !.startedAt = clock]
               /\ since' = <<>>
          ELSE /\ item' = [item EXCEPT !.config = Normalized(c)]
               /\ UNCHANGED since
  /\ UNCHANGED <<records, running, clock>>

\* PATCH of enabled alone: the runtime state stays as it is.
Switch ==
  /\ item' = [item EXCEPT !.enabled = ~@]
  /\ UNCHANGED <<records, running, clock, since>>

\* DELETE of the monitor's records: DeleteMonitorRecords and
\* ResetStatusBoardRuntimeByMonitor.
ClearRecords ==
  /\ records # <<>>
  /\ records' = <<>> /\ since' = <<>>
  /\ item' = [item EXCEPT !.active = FALSE, !.startedAt = clock]
  /\ UNCHANGED <<running, clock>>

\* PruneRecords: the oldest records are past their retention.
Prune ==
  /\ records # <<>>
  /\ records' = Tail(records)
  /\ since' = Newest(Len(records) - 1, since)
  /\ UNCHANGED <<item, running, clock>>

BoardNext == Begin \/ FinishExecution \/ EditItem \/ Switch \/ ClearRecords \/ Prune

BoardSpec == BoardInit /\ [][BoardNext]_boardVars

-----------------------------------------------------------------------------
(* Properties. *)

\* The variables keep their types; the stored item is always one that
\* NormalizeAndValidate accepts and would not change again.
BoardTypeOK ==
  /\ item \in [config : {Normalized(c) : c \in Configs}, enabled : BOOLEAN,
               active : BOOLEAN, startedAt : 1..clock]
  /\ Accepted(item.config) /\ Normalized(item.config) = item.config
  /\ records \in Seq([at : 1..(clock - 1), outcome : Outcomes])
  /\ running \in 0..(clock - 1) /\ clock \in 1..(MaxExecutions + 1)
  /\ since \in Seq(Outcomes)

\* The evidence for a rule: the last executions that began since the
\* evaluation last started and are still kept.
Evidence(c) ==
  IF Len(since') < c.rule.window THEN <<>>
  ELSE [k \in 1..c.rule.window |->
          Sample(c, since'[Len(since') - c.rule.window + k])]

\* What each type of rule means, as the documentation describes it.
Means(rule, e) ==
  LET n == Len(e)
      Total(weight(_)) == SumOf([k \in 1..n |-> weight(k) * e[k].numeric])
      u(k) == 2 * k - n - 1
  IN  CASE rule.type = "consecutive" -> \A k \in 1..n : e[k].state # "success"
        [] rule.type = "count" ->
             \E S \in SUBSET (1..n) : /\ Cardinality(S) = rule.minimum
                                      /\ \A k \in S : e[k].state = "failure"
        [] rule.type = "average" ->
             CompareNumber(SumOf([k \in 1..n |-> e[k].numeric - rule.threshold]),
                           rule.op, 0)
        [] rule.type = "delta" /\ rule.mode = "absolute" ->
             CompareNumber(e[n].numeric, rule.op, e[1].numeric + rule.threshold)
        [] rule.type = "delta" /\ rule.mode = "percent" ->
             CompareNumber(100 * e[n].numeric, rule.op,
               100 * e[1].numeric + rule.threshold *
                 (IF e[1].numeric < 0 THEN -1 ELSE 1) * e[1].numeric)
        [] rule.type = "slope" ->
             CompareNumber(2 * Total(u), rule.op,
                           rule.threshold * SumOf([k \in 1..n |-> u(k) * u(k)]))

Decidable(rule, e) ==
  /\ e # <<>>
  /\ \A k \in DOMAIN e : e[k].state # "unknown"
  /\ rule.type = "delta" /\ rule.mode = "percent" => e[1].numeric # 0

\* After an execution the rule is active exactly when its meaning holds of the
\* executions since the last edit or reset; what cannot be decided (window
\* incomplete, a sample unknown, a zero baseline) leaves it as it was.  Says
\* of EvaluateExecution that paging, filtering, order and arithmetic are
\* right for every window, whatever was pruned, cleared, edited or switched.
TrendsMeanTheirRules ==
  [][running # 0 /\ running' = 0 /\ item.enabled /\ item.config.rule # NoRule =>
       item'.active =
         IF Decidable(item.config.rule, Evidence(item.config))
         THEN Means(item.config.rule, Evidence(item.config))
         ELSE item.active]_boardVars

\* A number that was measured is never unknown: it has the level of its exact
\* mapping, else of the tightest threshold it does not exceed.  Says of
\* validateThresholds that taking the first match is enough.
NumbersAreClassified ==
  item.config.type = "number" =>
    \A o \in {p \in Outcomes : p.value # Missing} :
      LET c == item.config
          exact == {m \in ToSet(c.mappings) : m.values = {o.value}}
          above == {t \in ToSet(c.thresholds) :
                      t.max # Unbounded /\ o.value <= t.max}
          tightest == {t \in above : \A s \in above : t.max <= s.max}
      IN  {Sample(c, o).level} =
            {t.level : t \in CASE exact # {} -> exact
                               [] exact = {} /\ above # {} -> tightest
                               [] OTHER -> {t \in ToSet(c.thresholds) :
                                              t.max = Unbounded}}

\* The board shows as many of the newest executions as the item asks for, or
\* all there are, unless it asks for more than a page.  Says of Snapshot that
\* history_limit is what is shown.
HistoryIsShown ==
  LET n == Len(records)
      expected == IF n < item.config.limit THEN n ELSE item.config.limit
  IN  Shown = [k \in 1..expected |->
                 Sample(item.config, records[n - expected + k].outcome)]

\* What every state of the board keeps: items of their type, and a number of an
\* accepted configuration always finds its threshold (matchThreshold,
\* evaluator.go:182-190, after any sequence of edits).
BoardInv == BoardTypeOK /\ NumbersAreClassified
=============================================================================
