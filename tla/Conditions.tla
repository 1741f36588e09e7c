----------------------------- MODULE Conditions -----------------------------
(* The condition engine (core/condition.go) and the part of an execution that *)
(* feeds it (runLocked, runtime.go:99-205): the results of one monitor, what   *)
(* is kept of them, and the verdicts of its rules.                             *)
(*                                                                             *)
(* A value is a record with one field, named for its Go kind: int (int64),     *)
(* float (float64), text, bool, list, object (a function from names to values) *)
(* or null.  Texts are opaque: the constants say which are numbers, contained  *)
(* in others, expressions, pairs.  One execution of a monitor runs at a time   *)
(* (MonitorExecution).                                                         *)
EXTENDS Integers, SequencesExt

CONSTANTS
  Parts,         \* a name with dots |-> its parts (strings.Split)
  Stripped,      \* a name with "result." or "current." before it |-> the rest
  NumberOf,      \* a text that strconv.ParseFloat accepts |-> the number
  Within,        \* the pairs <<s, t>> of texts such that t contains s
  LengthOf,      \* a text |-> the number of its runes
  Matched,       \* a text that compiles as an expression |-> what it matches
  BoundsOf,      \* a text with one comma |-> the texts around it, trimmed
  Sprint(_),     \* the text fmt.Sprint makes of a value
  Composed(_),   \* the text composeExecutionSummary makes of a summary
  Observations,  \* what the module may answer
  Durations,     \* how long it may take, in milliseconds
  Created,       \* the conditions a monitor may be created with
  Edited,        \* those it may be given later
  Values,        \* what results and rules may hold, with all that is in them
  MaxResults     \* a bound on the results that are kept

Null == [null |-> TRUE]

\* A value that is not there: lookupValue returned ok = false, or a nil map.
Absent == [missing |-> TRUE]

Kind(v, kind) == kind \in DOMAIN v

-----------------------------------------------------------------------------
(* Looking values up. *)

Member(v, name) ==
  IF Kind(v, "object") /\ name \in DOMAIN v.object THEN v.object[name]
                                                   ELSE Absent

Descend(v, names) == FoldLeft(Member, v, names)

\* lookupValue: a field is a name as it stands, or a way down the objects.
LookupValue(root, field, path) ==
  LET whole == Member(root, field)
      found == IF whole = Absent /\ field \in DOMAIN Parts
               THEN Descend(root, Parts[field]) ELSE whole
  IN  Descend(found, path)

NormalizeField(field) ==
  IF field \in DOMAIN Stripped THEN Stripped[field] ELSE field

LookupSourceValue(source, current, previous, field, path) ==
  LookupValue(IF source = "previous" THEN previous ELSE current,
              NormalizeField(field), path)

-----------------------------------------------------------------------------
(* Comparing values. *)

IsNumber(v) ==
  \/ Kind(v, "int") \/ Kind(v, "float")
  \/ Kind(v, "text") /\ v.text \in DOMAIN NumberOf

NumberValue(v) ==
  CASE Kind(v, "int")   -> v.int
    [] Kind(v, "float") -> v.float
    [] Kind(v, "text")  -> NumberOf[v.text]

ValuesEqual(v, w) ==
  IF IsNumber(v) /\ IsNumber(w) THEN NumberValue(v) = NumberValue(w)
                                ELSE v = w \/ Sprint(v) = Sprint(w)

HasLength(v) == Kind(v, "text") \/ Kind(v, "list") \/ Kind(v, "object")

ContainsValue(v, target) ==
  CASE Kind(v, "text")   -> <<Sprint(target), v.text>> \in Within
    [] Kind(v, "list")   -> \E item \in ToSet(v.list) : ValuesEqual(item, target)
    [] Kind(v, "object") -> Sprint(target) \in DOMAIN v.object

ValueLength(v) ==
  CASE Kind(v, "text")   -> LengthOf[v.text]
    [] Kind(v, "list")   -> Len(v.list)
    [] Kind(v, "object") -> Cardinality(DOMAIN v.object)

\* The bounds of between: a list of two values or a text with a comma.
Bounds(w) ==
  CASE Kind(w, "list") -> w.list
    [] Kind(w, "text") /\ w.text \in DOMAIN BoundsOf ->
         [i \in 1 .. 2 |-> [text |-> BoundsOf[w.text][i]]]
    [] OTHER -> <<>>

\* The operators of two values: whether they apply, and whether they match.
Applies(operator, v, w) ==
  CASE operator \in {"equals", "not_equals"} -> TRUE
    [] operator \in {"contains", "not_contains"} -> HasLength(v)
    [] operator = "regex" -> Kind(w, "text") /\ w.text \in DOMAIN Matched
    [] operator \in {"gt", "gte", "lt", "lte"} -> IsNumber(v) /\ IsNumber(w)
    [] operator = "between" ->
         LET bounds == Bounds(w) IN
         Len(bounds) = 2 /\ IsNumber(v) /\ IsNumber(bounds[1])
                         /\ IsNumber(bounds[2])
    [] operator \in {"length_gt", "length_eq"} -> HasLength(v) /\ IsNumber(w)
    [] operator \in {"is_true", "is_false"} -> Kind(v, "bool")

OperatorMatches(operator, v, w) ==
  CASE operator = "equals"       -> ValuesEqual(v, w)
    [] operator = "not_equals"   -> ~ValuesEqual(v, w)
    [] operator = "contains"     -> ContainsValue(v, w)
    [] operator = "not_contains" -> ~ContainsValue(v, w)
    [] operator = "regex"        -> Sprint(v) \in Matched[w.text]
    [] operator = "gt"           -> NumberValue(v) > NumberValue(w)
    [] operator = "gte"          -> NumberValue(v) >= NumberValue(w)
    [] operator = "lt"           -> NumberValue(v) < NumberValue(w)
    [] operator = "lte"          -> NumberValue(v) <= NumberValue(w)
    [] operator = "between"      ->
         /\ NumberValue(v) >= NumberValue(Bounds(w)[1])
         /\ NumberValue(v) <= NumberValue(Bounds(w)[2])
    [] operator = "length_gt"    -> ValueLength(v) > NumberValue(w)
    [] operator = "length_eq"    -> ValueLength(v) = NumberValue(w)
    [] operator = "is_true"      -> v.bool
    [] operator = "is_false"     -> ~v.bool

-----------------------------------------------------------------------------
(* Judging rules. *)

BoolState(b) == IF b THEN "true" ELSE "false"

\* The operator "changed": the first result only establishes the baseline.
Changed(rule, current, previous) ==
  LET field == NormalizeField(rule.field)
      newer == LookupValue(current, field, rule.path)
      older == LookupValue(previous, field, rule.path)
  IN  CASE previous = Absent -> "false"
        [] previous # Absent /\ Absent \in {newer, older} -> "unknown"
        [] OTHER -> BoolState(newer # older)

\* Fault: a value that is missing does not match.
FaultEvaluateRule(rule, current, previous) ==
  LET v == LookupSourceValue(rule.source, current, previous, rule.field,
                             rule.path)
      w == IF rule.valueSource = "literal" THEN rule.value
           ELSE LookupSourceValue(rule.valueSource, current, previous,
                                  rule.valueField, <<>>)
  IN  CASE rule.operator = "exists"     -> BoolState(v # Absent)
        [] rule.operator = "not_exists" -> BoolState(v = Absent)
        [] rule.operator = "changed"    -> Changed(rule, current, previous)
        [] OTHER -> BoolState(/\ Absent \notin {v, w}
                              /\ Applies(rule.operator, v, w)
                              /\ OperatorMatches(rule.operator, v, w))

EvaluateRule(rule, current, previous) ==
  LET v == LookupSourceValue(rule.source, current, previous, rule.field,
                             rule.path)
      w == IF rule.valueSource = "literal" THEN rule.value
           ELSE LookupSourceValue(rule.valueSource, current, previous,
                                  rule.valueField, <<>>)
  IN  CASE rule.operator = "exists"     -> BoolState(v # Absent)
        [] rule.operator = "not_exists" -> BoolState(v = Absent)
        [] rule.operator = "changed"    -> Changed(rule, current, previous)
        [] OTHER ->
             IF Absent \in {v, w} \/ ~Applies(rule.operator, v, w)
             THEN "unknown"
             ELSE BoolState(OperatorMatches(rule.operator, v, w))

EvaluateConditions(conditions, states) ==
  LET counted == ToSet(states) IN
  CASE states = <<>> -> "false"
    [] conditions.logic = "ANY" /\ states # <<>> ->
         IF "true" \in counted THEN "true"
         ELSE IF counted = {"unknown"} THEN "unknown" ELSE "false"
    [] OTHER ->
         IF "false" \in counted THEN "false"
         ELSE IF "unknown" \in counted THEN "unknown" ELSE "true"

-----------------------------------------------------------------------------
(* Results. *)

\* The result the rules see: what the module answered, below what the host
\* adds to it.  The common result set "summary" has the module's own text.
Answered(o, ms, text, number) ==
  LET summary == ("success" :> [bool |-> o.success])
              @@ ("duration_ms" :> number)
              @@ ("error_code" :> [text |-> o.error])
              @@ ("summary" :> [text |-> text])
  IN  [object |-> ("summary" :> [object |-> summary])
               @@ ("success" :> [bool |-> o.success])
               @@ ("duration_ms" :> number)
               @@ o.fields]

Current(o, ms) == Answered(o, ms, o.summary, [int |-> ms])

\* The result that is read back: the summary is replaced by the composed text
\* after the evaluation, and JSON has no integers.
Recorded(o, ms) == Answered(o, ms, Composed(o.summary), [float |-> ms])

-----------------------------------------------------------------------------
(* What the constants are. *)

Kinds == {"int", "float", "text", "bool", "list", "object", "null"}

\* The fields of a rule as they are once its sources have their defaults.
IsRule(rule) ==
  /\ rule = [operator |-> rule.operator, source |-> rule.source,
             field |-> rule.field, path |-> rule.path,
             valueSource |-> rule.valueSource, value |-> rule.value,
             valueField |-> rule.valueField]
  /\ rule.source \in {"current", "previous"}
  /\ rule.valueSource \in {"literal", "current", "previous"}
  /\ rule.path \in Seq(ToSet(rule.path))
  /\ rule.value \in Values

\* A value has one kind and only values in it, and what reads as a number is
\* one; answers, literals and bounds are values.
ConditionsAssumption ==
  /\ \A v \in Values :
       /\ \E kind \in Kinds : DOMAIN v = {kind}
       /\ Kind(v, "list") => v.list \in Seq(Values)
       /\ Kind(v, "object") =>
            \A name \in DOMAIN v.object : v.object[name] \in Values
       /\ IsNumber(v) => NumberValue(v) \in Int
  /\ \A o \in Observations :
       /\ o.success \in BOOLEAN
       /\ \A ms \in Durations : {Current(o, ms), Recorded(o, ms)} \subseteq Values
  /\ \A name \in DOMAIN Parts : Parts[name] \in Seq(ToSet(Parts[name]))
  /\ \A text \in DOMAIN BoundsOf, i \in 1 .. 2 :
       [text |-> BoundsOf[text][i]] \in Values
  /\ \A c \in Created \cup Edited :
       /\ c.rules \in Seq(ToSet(c.rules))
       /\ \A rule \in ToSet(c.rules) : IsRule(rule)
  /\ MaxResults \in Nat

ASSUME ConstantsAreValues == ConditionsAssumption

-----------------------------------------------------------------------------
(* Executions of the monitor. *)

VARIABLES
  config,   \* its conditions, in its row
  results,  \* its records, the oldest first: whether they succeeded, results
  run,      \* the execution under way
  base      \* history: the last successful result as it was answered

conditionVars == <<config, results, run, base>>

NoRun == [pc |-> "idle"]

\* Fault: the last record, successful or not.
FaultLatestSuccessfulRecord ==
  IF results = <<>> THEN Absent ELSE Last(results).result

\* LatestSuccessfulRecord.
LatestSuccessfulRecord ==
  LET good == {k \in DOMAIN results : results[k].success}
  IN  IF good = {} THEN Absent ELSE results[Max(good)].result

\* runLocked reads the monitor and its baseline before the module runs.
Load ==
  /\ run.pc = "idle"
  /\ run' = [pc |-> "loaded", config |-> config,
             previous |-> LatestSuccessfulRecord, base |-> base]
  /\ UNCHANGED <<config, results, base>>

Execute(o, ms) ==
  /\ run.pc = "loaded"
  /\ LET states == [i \in DOMAIN run.config.rules |->
                      EvaluateRule(run.config.rules[i], Current(o, ms),
                                   run.previous)]
     IN  run' = [pc |-> "evaluated", config |-> run.config,
                 previous |-> run.previous, base |-> run.base, answer |-> o,
                 ms |-> ms, states |-> states,
                 state |-> EvaluateConditions(run.config, states)]
  /\ UNCHANGED <<config, results, base>>

Commit ==
  /\ run.pc = "evaluated"
  /\ Len(results) < MaxResults
  /\ results' = Append(results, [success |-> run.answer.success,
                                 result |-> Recorded(run.answer, run.ms)])
  /\ base' = IF run.answer.success THEN Current(run.answer, run.ms) ELSE base
  /\ run' = NoRun
  /\ UNCHANGED config

\* The read of the baseline or the commit fails, or the process stops.
Fails ==
  /\ run.pc \in {"loaded", "evaluated"}
  /\ run' = NoRun
  /\ UNCHANGED <<config, results, base>>

\* updateMonitor, also while an execution is under way.
SetConditions(c) ==
  /\ config' = c
  /\ UNCHANGED <<results, run, base>>

\* DELETE of the monitor's records.
ForgetResults ==
  /\ results' = <<>>
  /\ base' = Absent
  /\ UNCHANGED <<config, run>>

\* PruneRecords removes the records from before an instant.
PruneResults ==
  /\ results # <<>>
  /\ results' = Tail(results)
  /\ base' = IF \E r \in ToSet(Tail(results)) : r.success THEN base
                                                          ELSE Absent
  /\ UNCHANGED <<config, run>>

ConditionsInit ==
  /\ config \in Created
  /\ results = <<>>
  /\ run = NoRun
  /\ base = Absent

ConditionsNext ==
  \/ Load \/ Commit \/ Fails \/ ForgetResults \/ PruneResults
  \/ \E o \in Observations, ms \in Durations : Execute(o, ms)
  \/ \E c \in Edited : SetConditions(c)

ConditionsSpec == ConditionsInit /\ [][ConditionsNext]_conditionVars

-----------------------------------------------------------------------------
(* Properties. *)

Trivalent == {"true", "false", "unknown"}

ConditionsTypeOK ==
  /\ config \in Created \cup Edited
  /\ results \in Seq([success : BOOLEAN, result : Values])
  /\ base \in Values \cup {Absent}
  /\ \/ run = NoRun
     \/ /\ run.pc \in {"loaded", "evaluated"}
        /\ run.config \in Created \cup Edited
        /\ {run.previous, run.base} \subseteq Values \cup {Absent}
  /\ run.pc = "evaluated" =>
       /\ run.answer \in Observations /\ run.ms \in Durations
       /\ run.states \in [DOMAIN run.config.rules -> Trivalent]
       /\ run.state \in Trivalent

Opposite == [equals |-> "not_equals", contains |-> "not_contains",
             exists |-> "not_exists", is_true |-> "is_false", gt |-> "lte",
             lt |-> "gte"]

Negated == [true |-> "false", false |-> "true", unknown |-> "unknown"]

\* A rule with its two sides exchanged.
Swapped(rule) ==
  [rule EXCEPT !.source = rule.valueSource, !.field = rule.valueField,
               !.valueSource = rule.source, !.valueField = rule.field]

\* The table of operators in docs/guide/monitoring.md, as the laws that relate
\* them on the same operands: opposites, the order of numbers, bounds that are
\* included, sides that may be exchanged, and unknown, never false, for what is
\* missing (evaluateRule, condition.go:103-254).
OperatorsAgree ==
  run.pc = "evaluated" =>
    LET current == Current(run.answer, run.ms)
        State(rule, operator) ==
          EvaluateRule([rule EXCEPT !.operator = operator], current,
                       run.previous)
    IN  \A rule \in ToSet(run.config.rules) :
          LET Is(operator) == State(rule, operator)
              Literal(v) == [rule EXCEPT !.valueSource = "literal",
                                         !.value = v]
          IN  /\ \A operator \in DOMAIN Opposite :
                   Is(Opposite[operator]) = Negated[Is(operator)]
              /\ Is("gt") # "unknown" =>
                   Cardinality({o \in {"lt", "equals", "gt"} :
                                  Is(o) = "true"}) = 1
              /\ Is("length_eq") = "true" => Is("length_gt") = "false"
              /\ Is("exists") = "false" =>
                   \A o \in {"equals", "contains", "regex", "gt", "between",
                             "length_gt", "is_true"} : Is(o) = "unknown"
              /\ rule.valueSource = "literal" /\ Len(Bounds(rule.value)) = 2 =>
                   (Is("between") = "true" <=>
                      /\ State(Literal(Bounds(rule.value)[1]), "gte") = "true"
                      /\ State(Literal(Bounds(rule.value)[2]), "lte") = "true")
              /\ rule.valueSource # "literal" /\ rule.path = <<>> =>
                   /\ Is("gt") = State(Swapped(rule), "lt")
                   /\ Is("equals") = State(Swapped(rule), "equals")

\* ALL and ANY as docs/guide/monitoring.md states them, in any order of the
\* rules (EvaluateConditions, condition.go:61-101).
CombinedAsDocumented ==
  run.pc = "evaluated" =>
    LET states == ToSet(run.states) IN
    CASE run.config.rules = <<>> -> run.state = "false"
      [] run.config.rules # <<>> /\ run.config.logic = "ANY" ->
           /\ run.state = "true" <=> "true" \in states
           /\ run.state = "unknown" <=> states = {"unknown"}
      [] OTHER ->
           /\ run.state = "false" <=> "false" \in states
           /\ run.state = "true" <=> states = {"true"}

\* What every state of a monitor's conditions keeps.
ConditionsInv == ConditionsTypeOK /\ OperatorsAgree /\ CombinedAsDocumented

\* "changed: whether the current value differs from the last successful result"
\* (docs/guide/monitoring.md): the result that was answered last with success,
\* before failures, not the last record, and none once the results are gone.
ChangedMeansChanged ==
  run.pc = "evaluated" =>
    \A i \in DOMAIN run.config.rules :
      LET rule == run.config.rules[i]
          field == NormalizeField(rule.field)
          newer == LookupValue(Current(run.answer, run.ms), field, rule.path)
          older == LookupValue(run.base, field, rule.path)
      IN  rule.operator = "changed" =>
            run.states[i] = CASE run.base = Absent -> "false"
                              [] run.base # Absent
                                   /\ Absent \in {newer, older} -> "unknown"
                              [] OTHER -> BoolState(newer # older)
=============================================================================
