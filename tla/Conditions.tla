----------------------------- MODULE Conditions -----------------------------
(***************************************************************************)
(* JSON values, the type system of workflow inputs and outputs, and the    *)
(* `when' conditions: what the YAML loader accepts, what it compiles them  *)
(* to and what the executor makes of them.                                 *)
(*                                                                         *)
(* A JSON value is <<tag>> or <<tag, payload>>; a float counts halves, so  *)
(* that 1 and 1.0 are different values with the same size, as they are for *)
(* serde_json.  Which strings are parts of which is a relation.            *)
(***************************************************************************)
EXTENDS Integers, Sequences, FiniteSets

CONSTANT PartOf    \* pairs of strings, the first a proper part of the second

Null == <<"null">>
Tag(v) == v[1]
IsNumber(v) == Tag(v) \in {"int", "float"}
as_f64(v) == IF Tag(v) = "int" THEN 2 * v[2] ELSE v[2]

\* data.get(key): only objects have keys.
HasKey(v, k) == Tag(v) = "object" /\ k \in DOMAIN v[2]

-----------------------------------------------------------------------------
(* Schema types: <<name>> or <<constructor, inner>>.                       *)

\* parse_type and parse_type_string: the words of the type, outermost first.
RECURSIVE parse_type(_)
parse_type(words) ==
  CASE words = <<>> -> <<"bad">>
    [] words # <<>> /\ Len(words) = 1 /\ words[1] \in {"string", "number", "integer", "bool", "any"} -> <<words[1]>>
    [] words # <<>> /\ Len(words) > 1 /\ words[1] \in {"optional", "list", "map"} ->
         LET inner == parse_type(Tail(words))
         IN  IF inner = <<"bad">> THEN inner ELSE <<words[1], inner>>
    [] OTHER -> <<"bad">>

RECURSIVE validate_value(_, _)
validate_value(v, type) ==
  CASE Tag(type) = "string" -> Tag(v) = "string"
    [] Tag(type) = "number" -> IsNumber(v)
    [] Tag(type) = "integer" -> Tag(v) = "int"
    [] Tag(type) = "bool" -> Tag(v) = "bool"
    [] Tag(type) = "optional" -> v = Null \/ validate_value(v, type[2])
    [] Tag(type) = "list" -> Tag(v) = "array" /\ \A i \in DOMAIN v[2] : validate_value(v[2][i], type[2])
    [] Tag(type) = "map" -> Tag(v) = "object" /\ \A k \in DOMAIN v[2] : validate_value(v[2][k], type[2])
    [] OTHER -> Tag(type) = "any"

\* WorkflowSchema::validate_fields: an optional field may be absent.
validate_fields(fields, data) ==
  /\ Tag(data) = "object"
  /\ \A f \in DOMAIN fields : IF HasKey(data, f) THEN validate_value(data[2][f], fields[f])
                                                 ELSE Tag(fields[f]) = "optional"

-----------------------------------------------------------------------------
(* Conditions as the YAML file has them: <<"cmp", path, ops>> where ops is *)
(* a set of <<operator, value>>, or <<"comb", keys>> with a set of         *)
(* <<combinator, children>>.  The untagged parse takes a mapping with a    *)
(* `field' for a comparison.                                               *)

Operators == {"equals", "not_equals", "gt", "gte", "lt", "lte", "contains", "is_null", "is_not_null"}
Combinators == {"all", "any", "none", "one_of", "not"}
Bad == <<"bad">>

\* compile_condition: exactly one operator, exactly one combinator.
RECURSIVE compile_condition(_)
compile_condition(y) ==
  IF y[1] = "cmp"
  THEN IF Cardinality(y[3]) # 1 THEN Bad
       ELSE LET op == CHOOSE o \in y[3] : TRUE IN <<"cmp", y[2], op[1], op[2]>>
  ELSE IF Cardinality(y[2]) # 1 THEN Bad
       ELSE LET comb == CHOOSE k \in y[2] : TRUE
                parts == [i \in DOMAIN comb[2] |-> compile_condition(comb[2][i])]
            IN  IF \E i \in DOMAIN parts : parts[i] = Bad THEN Bad ELSE <<comb[1], parts>>

\* The comparisons of a condition, at any depth.
RECURSIVE Comparisons(_)
Comparisons(y) ==
  IF y[1] = "cmp" THEN {y}
  ELSE UNION {UNION {Comparisons(k[2][i]) : i \in DOMAIN k[2]} : k \in y[2]}

\* validate_field_path, unless the workflow declares nothing.
validate_field_path(path, inputs, outputs, known) ==
  \/ DOMAIN inputs = {} /\ DOMAIN outputs = {}
  \/ /\ Len(path) >= 2
     /\ \/ path[1] = "inputs" /\ path[2] \in DOMAIN inputs
        \/ path[1] = "outputs" /\ path[2] \in DOMAIN outputs \cup known

resolve_field_type(path, inputs, outputs) ==
  CASE Len(path) < 2 -> Bad
    [] Len(path) >= 2 /\ path[1] = "inputs" /\ path[2] \in DOMAIN inputs -> parse_type(inputs[path[2]])
    [] Len(path) >= 2 /\ path[1] = "outputs" /\ path[2] \in DOMAIN outputs -> parse_type(outputs[path[2]])
    [] OTHER -> Bad

RECURSIVE Plain(_)
Plain(type) == IF Tag(type) = "optional" THEN Plain(type[2]) ELSE Tag(type)
is_numeric_type(type) == Plain(type) \in {"number", "integer", "any"}
is_containable_type(type) == Plain(type) \in {"string", "list", "any"}
is_optional_type(type) == Tag(type) \in {"optional", "any"}

\* Slip: the operand of contains is not checked.
validate_comparison_lax(c, inputs, outputs) ==
  LET type == resolve_field_type(c[2], inputs, outputs)
      ops == {o[1] : o \in c[3]}
  IN  \/ type = Bad
      \/ /\ ops \cap {"gt", "gte", "lt", "lte"} # {} => is_numeric_type(type)
         /\ ops \cap {"is_null", "is_not_null"} # {} => is_optional_type(type)

\* validate_comparison_type; a field without a known type is not checked.
validate_comparison_type(c, inputs, outputs) ==
  LET type == resolve_field_type(c[2], inputs, outputs)
      ops == {o[1] : o \in c[3]}
  IN  \/ type = Bad
      \/ /\ ops \cap {"gt", "gte", "lt", "lte"} # {} => is_numeric_type(type)
         /\ "contains" \in ops => is_containable_type(type)
         /\ ops \cap {"is_null", "is_not_null"} # {} => is_optional_type(type)

validate_condition(y, inputs, outputs, known) ==
  \A c \in Comparisons(y) : /\ validate_field_path(c[2], inputs, outputs, known)
                            /\ validate_comparison_type(c, inputs, outputs)

-----------------------------------------------------------------------------
(* The evaluator.  Inside, a comparison on a field that is not there is    *)
(* "missing", which ends the evaluation.                                   *)

Indices == [s \in {"0", "1"} |-> IF s = "0" THEN 1 ELSE 2]
Missing == <<"missing">>

RECURSIVE walk_segments(_, _)
walk_segments(path, v) ==
  CASE path = <<>> -> v
    [] path # <<>> /\ Head(path) \in DOMAIN Indices /\ Tag(v) = "array" /\ Indices[Head(path)] \in DOMAIN v[2] ->
         walk_segments(Tail(path), v[2][Indices[Head(path)]])
    [] path # <<>> /\ Head(path) \notin DOMAIN Indices /\ HasKey(v, Head(path)) ->
         walk_segments(Tail(path), v[2][Head(path)])
    [] OTHER -> Missing

\* Outputs are merged flat into the data, so the first segment is dropped when
\* the data has no such key.
resolve_field_path(path, data) ==
  IF Len(path) >= 2 /\ path[1] \in {"outputs", "inputs"} /\ ~HasKey(data, path[1])
  THEN walk_segments(Tail(path), data) ELSE walk_segments(path, data)

Truth(b) == IF b THEN "true" ELSE "false"

compare_numeric(v, expected, op) ==
  IF ~IsNumber(v) \/ ~IsNumber(expected) THEN "error"
  ELSE LET a == as_f64(v)
           b == as_f64(expected)
       IN  Truth(CASE op = "gt" -> a > b [] op = "gte" -> a >= b [] op = "lt" -> a < b [] OTHER -> a <= b)

evaluate_contains(v, expected) ==
  CASE Tag(v) = "string" /\ Tag(expected) = "string" -> Truth(v = expected \/ <<expected[2], v[2]>> \in PartOf)
    [] Tag(v) = "array" -> Truth(\E i \in DOMAIN v[2] : v[2][i] = expected)
    [] OTHER -> "error"

evaluate_comparison(c, data) ==
  LET v == resolve_field_path(c[2], data)
  IN  CASE v = Missing -> "missing"
        [] v # Missing /\ c[3] = "is_null" -> Truth(v = Null)
        [] v # Missing /\ c[3] = "is_not_null" -> Truth(v # Null)
        [] v # Missing /\ c[3] = "equals" -> Truth(v = c[4])
        [] v # Missing /\ c[3] = "not_equals" -> Truth(v # c[4])
        [] v # Missing /\ c[3] = "contains" -> evaluate_contains(v, c[4])
        [] OTHER -> compare_numeric(v, c[4], c[3])

Negated(r) == CASE r = "true" -> "false" [] r = "false" -> "true" [] OTHER -> r
\* The first result that is not r ends the loop; r if there is none.
FirstOther(rs, r) == IF \A i \in DOMAIN rs : rs[i] = r THEN r ELSE SelectSeq(rs, LAMBDA x : x # r)[1]

\* Exactly one: two that are true end the loop, and so does one without a value.
ExactlyOne(rs) ==
  LET ends == {i \in DOMAIN rs : rs[i] \notin {"true", "false"}
                                   \/ Cardinality({j \in 1 .. i : rs[j] = "true"}) > 1}
  IN  IF ends = {} THEN Truth(\E i \in DOMAIN rs : rs[i] = "true")
      ELSE LET i == CHOOSE i \in ends : \A j \in ends : i <= j
           IN  IF rs[i] = "true" THEN "false" ELSE rs[i]

RECURSIVE evaluate_inner(_, _)
evaluate_inner(c, data) ==
  IF c[1] = "cmp" THEN evaluate_comparison(c, data)
  ELSE LET rs == [i \in DOMAIN c[2] |-> evaluate_inner(c[2][i], data)]
       IN  CASE c[1] = "all" -> FirstOther(rs, "true")
             [] c[1] = "any" -> FirstOther(rs, "false")
             [] c[1] = "none" -> Negated(FirstOther(rs, "false"))
             [] c[1] = "not" -> Negated(rs[1])
             [] OTHER -> ExactlyOne(rs)

\* Slip: a missing field is an ordinary false, which `not' and `none' turn round.
evaluate_kept(c, data) ==
  LET r == evaluate_inner(c, data)
  IN  IF r = "missing" THEN Truth(c[1] \in {"not", "none"}) ELSE r

evaluate(c, data) ==
  LET r == evaluate_inner(c, data) IN IF r = "missing" THEN "false" ELSE r

-----------------------------------------------------------------------------
(* The meaning of a condition, read without an order: a comparison holds   *)
(* when its field is there and compares.                                   *)
RECURSIVE Holds(_, _)
Holds(c, data) ==
  IF c[1] = "cmp" THEN evaluate_comparison(c, data) = "true"
  ELSE LET yes == {i \in DOMAIN c[2] : Holds(c[2][i], data)}
       IN  CASE c[1] = "all" -> yes = DOMAIN c[2]
             [] c[1] = "any" -> yes # {}
             [] c[1] \in {"none", "not"} -> yes = {}
             [] OTHER -> Cardinality(yes) = 1
=============================================================================
