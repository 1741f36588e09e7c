---------------------------- MODULE MCConditions ----------------------------
(* Small instances of Conditions for TLC.  Texts and names are strings. *)
EXTENDS Conditions

Text(t) == [text |-> t]
Num(n) == [float |-> n]
Pair(a, b) == [list |-> <<a, b>>]

MCParts == "page.code" :> <<"page", "code">> @@ "page.body" :> <<"page", "body">>
        @@ "page.tags" :> <<"page", "tags">>
        @@ "summary.duration_ms" :> <<"summary", "duration_ms">>
        @@ "summary.summary" :> <<"summary", "summary">>
MCStripped == "result.success" :> "success"
MCNumberOf == "12" :> 12 @@ "200" :> 200
MCWithin == {<<"up", "up 12">>, <<"12", "up 12">>, <<"up 12", "up 12">>,
             <<"12", "12">>, <<"up", "up">>, <<"200", "200">>}
MCLengthOf == "up 12" :> 5 @@ "12" :> 2 @@ "up" :> 2
MCMatched == "up" :> {"up 12", "up"} @@ "12" :> {"12", "up 12"}
MCBoundsOf == "12,200" :> <<"12", "200">>
MCSprint(v) ==
  CASE Kind(v, "text")  -> v.text
    [] Kind(v, "float") -> ToString(v.float)
    [] Kind(v, "int")   -> ToString(v.int)
    [] OTHER            -> ToString(v)
MCComposed(t) == "composed " \o t

Answer(page, ok, error) ==
  [fields |-> "page" :> [object |-> page], success |-> ok, error |-> error,
   summary |-> "up"]

MCObservations ==
  {Answer(("code" :> Num(200)) @@ ("body" :> Text("up 12"))
            @@ ("tags" :> Pair(Num(12), Text("up"))), TRUE, ""),
   Answer(("code" :> Num(12)) @@ ("body" :> Text("12"))
            @@ ("tags" :> [object |-> "up" :> Null]), TRUE, ""),
   Answer("body" :> Text("up 12"), FALSE, "refused")}

Rule(operator, field, path, value) ==
  [operator |-> operator, source |-> "current", field |-> field,
   path |-> path, valueSource |-> "literal", value |-> value,
   valueField |-> ""]

OfAll(rules) == [logic |-> "ALL", rules |-> rules]
OfAny(rules) == [logic |-> "ANY", rules |-> rules]

Fields == {"page.code", "page.body", "page.tags", "result.success",
           "duration_ms"}
Literals == {Null, Num(12), Num(200), Text("12"), Text("up"),
             Text("12,200"), Pair(Num(12), Text("200")), [bool |-> TRUE]}

\* The laws relate all the operators on the operands of a rule: one operator
\* per rule is enough for them.
Operands ==
  {Rule("equals", f, <<>>, w) : f \in Fields, w \in Literals}
  \cup {[Rule("gt", "page.tags", <<"up">>, w) EXCEPT !.source = s] :
          w \in {Null, Text("up")}, s \in {"current", "previous"}}
  \cup {[Rule("gt", f, <<>>, Null) EXCEPT !.source = s, !.valueSource = t,
                                          !.valueField = g] :
          f, g \in {"page.code", "page.body", "duration_ms"},
          s, t \in {"current", "previous"}}

ChangedRules ==
  {Rule("changed", f, p, Null) :
     f \in {"page.code", "page.tags", "page.body", "result.success"},
     p \in {<<>>, <<"up">>}}

\* True, false and unknown at times, for the logic.
Some == {Rule("gt", "page.code", <<>>, Num(12)),
         Rule("is_true", "result.success", <<>>, Null),
         Rule("changed", "page.code", <<>>, Null)}

MCCreated ==
  {OfAll(<<r>>) : r \in Operands \cup ChangedRules}
  \cup {OfAll(<<q, r>>) : q, r \in Some} \cup {OfAny(<<q, r>>) : q, r \in Some}
MCEdited == {OfAny(<<>>), OfAll(<<Rule("changed", "page", <<"tags", "up">>, Null)>>)}

\* The answers, the literals and what is in them: answers are three deep.
Inside(S) ==
  S \cup UNION {ToSet(v.list) : v \in {w \in S : Kind(w, "list")}}
    \cup UNION {Range(v.object) : v \in {w \in S : Kind(w, "object")}}
MCDurations == {12, 13}
MCValues ==
  Literals \cup {[text |-> t] : t \in {"12", "200"}} \cup
  Inside(Inside(Inside(Inside(
    Literals \cup {Current(o, ms) : o \in MCObservations, ms \in MCDurations}
             \cup {Recorded(o, ms) : o \in MCObservations, ms \in MCDurations}))))
=============================================================================
