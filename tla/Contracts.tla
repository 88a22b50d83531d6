----------------------------- MODULE Contracts ------------------------------
(***************************************************************************)
(* What models are told about a command: the JSON Schema of its arguments  *)
(* (jscm.c), served by MCP, whose JSON arguments become xcdn values        *)
(* (mcp/main.c), and the grammar of its call lines (gbnf.c); and the       *)
(* reviewed schemas of foreign MCP servers, which calls and results are    *)
(* checked against (mcp_schema_*.c, mcp_contract.c).  A schema is a JSON   *)
(* document, a [type, datum] like any value; Accepts is what it means.     *)
(***************************************************************************)
EXTENDS Types

CONSTANTS
    JX_DEPTH_MAX,       \* 64 in jx_to_xcdn, arguments and validate
    VisitsMax           \* values one validation may visit (32768)

-----------------------------------------------------------------------------
(* JSON Schema                                                             *)

json_type_name(kind) ==
    CASE kind \in {"integer", "number", "boolean", "array"} -> kind
      [] kind \in {"map", "object"} -> "object"
      [] OTHER -> "string"

\* An integral number is written as an integer.
json_number(h) == IF h % 2 = 0 THEN V("int", h) ELSE V("float", h)
Keyword(key, bound) == SetToSeq({<<key, json_number(b)>> : b \in bound})
\* The names of a kind's bounds; "" : not written.
BoundNames(kind) ==
    CASE kind \in {"string", "path"} -> <<"minLength", "maxLength">>
      [] kind \in {"integer", "number"} -> <<"minimum", "maximum">>
      [] kind = "array" -> <<"minItems", "maxItems">>
      [] kind = "map" -> <<"minProperties", "maxProperties">>
      [] OTHER -> <<"", "">>

\* Fault: a nested object does not repeat its required fields.
NoneRequired(fields) == <<>>
Required(fields) == LET needed == SelectSeq(fields, LAMBDA f : f.required)
                    IN [k \in DOMAIN needed |-> Str(needed[k].name)]

RECURSIVE type_schema(_)
object_body(fields) ==
    <<<<"properties", Obj([k \in DOMAIN fields |-> <<fields[k].name, type_schema(fields[k].type)>>])>>,
      <<"required", Arr(Required(fields))>>,
      <<"additionalProperties", V("bool", FALSE)>>>>

type_schema(t) ==
    LET values == SetToSeq(t.values)
        names == BoundNames(t.kind)
    IN Obj((IF t.kind = "enum" THEN <<<<"enum", Arr([k \in DOMAIN values |-> Str(values[k])])>>>>
            ELSE <<<<"type", Str(json_type_name(t.kind))>>>>)
           \o (IF names[1] = "" THEN <<>> ELSE Keyword(names[2], t.hi) \o Keyword(names[1], t.lo))
           \o CASE t.kind = "array" -> <<<<"items", type_schema(t.item)>>>>
                [] t.kind = "map" -> <<<<"additionalProperties", type_schema(t.item)>>>>
                [] t.kind = "object" -> object_body(t.fields)
                [] t.kind = "bytes" -> <<<<"contentEncoding", Str("base64")>>>>
                [] t.kind = "datetime" -> <<<<"format", Str("date-time")>>>>
                [] t.kind \in {"duration", "uuid"} -> <<<<"format", Str(t.kind)>>>>
                [] OTHER -> <<>>)

\* reviewed: the input schema a command of an MCP server is bound to, if any.
\* Fault: the engine's own schema hides the reviewed one.
OwnOnly(params, reviewed) == Obj(<<<<"type", Str("object")>>>> \o object_body(params))
jschema_input(params, reviewed) ==
    LET own == Obj(<<<<"type", Str("object")>>>> \o object_body(params))
    IN IF reviewed = {} THEN own
       ELSE Obj(<<<<"type", Str("object")>>, <<"allOf", Arr(<<own>> \o SetToSeq(reviewed))>>>>)

-----------------------------------------------------------------------------
(* The meaning of the keywords (the reference): lengths are in characters, *)
(* 3.0 is an integer, contentEncoding and format are annotations.          *)

RECURSIVE Accepts(_, _), Same(_, _)
\* JSON values that are the same: numbers by value, objects in any order.
Same(a, b) ==
    CASE a.type \in {"int", "float"} -> b.type \in {"int", "float"} /\ a.datum = b.datum
      [] a.type = "array" -> /\ b.type = "array" /\ Len(a.datum) = Len(b.datum)
                             /\ \A k \in DOMAIN a.datum : Same(a.datum[k], b.datum[k])
      [] a.type = "object" -> /\ b.type = "object" /\ ToSet(Keys(a)) = ToSet(Keys(b))
                              /\ \A k \in ToSet(Keys(a)) : Same(Get(a, k), Get(b, k))
      [] OTHER -> a.type = b.type /\ a.datum = b.datum

OfType(name, j) ==
    CASE name = "integer" -> j.type \in {"int", "float"} /\ j.datum % 2 = 0
      [] name = "number" -> j.type \in {"int", "float"}
      [] name = "boolean" -> j.type = "bool"
      [] OTHER -> j.type = name
Between(s, n, min, max) ==
    (\A l \in Field(s, min) : n >= l.datum) /\ (\A h \in Field(s, max) : n <= h.datum)
Accepts(s, j) ==
    IF s.type = "bool" THEN s.datum
    ELSE /\ \A t \in Field(s, "type") : OfType(t.datum, j)
         /\ \A e \in Field(s, "enum") : \E k \in DOMAIN e.datum : Same(e.datum[k], j)
         /\ \A c \in Field(s, "const") : Same(c, j)
         /\ \A all \in Field(s, "allOf") : \A k \in DOMAIN all.datum : Accepts(all.datum[k], j)
         /\ CASE j.type \in {"int", "float"} ->
                     /\ Between(s, j.datum, "minimum", "maximum")
                     /\ \A l \in Field(s, "exclusiveMinimum") : j.datum > l.datum
                     /\ \A h \in Field(s, "exclusiveMaximum") : j.datum < h.datum
              [] j.type = "string" -> Between(s, 2 * Len(j.datum), "minLength", "maxLength")
              [] j.type = "array" ->
                     /\ Between(s, 2 * Len(j.datum), "minItems", "maxItems")
                     /\ \A i \in Field(s, "items"), k \in DOMAIN j.datum : Accepts(i, j.datum[k])
              [] j.type = "object" ->
                     LET props == UNION {ToSet(p.datum) : p \in Field(s, "properties")}
                     IN /\ Between(s, 2 * Len(j.datum), "minProperties", "maxProperties")
                        /\ \A r \in Field(s, "required") : \A k \in DOMAIN r.datum : Has(j, r.datum[k].datum)
                        /\ \A m \in ToSet(j.datum) :
                              IF \E p \in props : p[1] = m[1]
                              THEN \A p \in props : p[1] = m[1] => Accepts(p[2], m[2])
                              ELSE \A a \in Field(s, "additionalProperties") : Accepts(a, m[2])
              [] OTHER -> TRUE

-----------------------------------------------------------------------------
(* Schemas of foreign MCP servers                                          *)

Exact == 2 * 2^Precision       \* 2^53, in halves

RECURSIVE schema_equal(_, _), supported(_, _), validate(_, _, _), Visits(_, _), arguments(_, _)

\* Fault: numbers are compared as written.
EqualAsWritten(a, b) == a = b
number_equal(a, b) ==
    IF a.type = b.type THEN a.datum = b.datum
    ELSE LET n == IF a.type = "int" THEN a.datum ELSE b.datum
         IN -Exact <= n /\ n <= Exact /\ a.datum = b.datum
schema_equal(a, b) ==
    CASE a.type \in {"int", "float"} -> b.type \in {"int", "float"} /\ number_equal(a, b)
      [] a.type = "array" -> /\ b.type = "array" /\ Len(a.datum) = Len(b.datum)
                             /\ \A k \in DOMAIN a.datum : schema_equal(a.datum[k], b.datum[k])
      [] a.type = "object" -> /\ b.type = "object" /\ Len(a.datum) = Len(b.datum)
                              /\ \A k \in DOMAIN a.datum : /\ Has(b, a.datum[k][1])
                                                       /\ schema_equal(a.datum[k][2], Get(b, a.datum[k][1]))
      [] OTHER -> a.type = b.type /\ a.datum = b.datum

Counts == {"minLength", "maxLength", "minItems", "maxItems", "minProperties", "maxProperties"}
Limits == {"minimum", "maximum", "exclusiveMinimum", "exclusiveMaximum"}
SchemaDepth == 32
strings(v) == /\ v.type = "array" /\ \A k \in DOMAIN v.datum : v.datum[k].type = "string"
              /\ ~dup_str(v.datum)
\* Every keyword is known and has a value of its kind; titles, flags, examples
\* and the total of 1024 subschemas are left out.
supported(s, depth) ==
    CASE depth > SchemaDepth \/ s.type \notin {"bool", "object"} -> FALSE
      [] s.type = "bool" -> TRUE
      [] OTHER -> \A m \in ToSet(s.datum) :
            LET v == m[2]
            IN CASE m[1] = "type" -> v.type = "string" /\ v.datum \in {"null", "boolean", "number", "integer", "string", "array", "object"}
                 [] m[1] = "properties" -> v.type = "object" /\ \A k \in DOMAIN v.datum : supported(v.datum[k][2], depth + 1)
                 [] m[1] \in {"items", "additionalProperties"} -> supported(v, depth + 1)
                 [] m[1] = "required" -> strings(v)
                 [] m[1] \in Counts -> v.type = "int" /\ v.datum >= 0 /\ v.datum <= Exact
                 [] m[1] \in Limits -> v.type \in {"int", "float"} /\ -Exact <= v.datum /\ v.datum <= Exact
                 [] m[1] = "enum" -> /\ v.type = "array" /\ v.datum # <<>>
                                     /\ \A k \in DOMAIN v.datum, l \in DOMAIN v.datum :
                                           k < l => ~schema_equal(v.datum[k], v.datum[l])
                 [] OTHER -> m[1] \in {"default", "const"}

\* The sign of value - bound.
Sign(n) == IF n > 0 THEN 1 ELSE IF n < 0 THEN -1 ELSE 0
order(value, bound) ==
    CASE value.type = "int" /\ bound.type = "int" -> Sign(value.datum - bound.datum)
      [] value.type = "int" /\ bound.type = "float" /\ value.datum > Exact -> 1
      [] value.type = "int" /\ bound.type = "float" /\ value.datum < -Exact -> -1
      [] OTHER -> Sign(ToFloat(value.datum) - ToFloat(bound.datum))
number_ok(s, j) ==
    /\ \A b \in Field(s, "minimum") : order(j, b) >= 0
    /\ \A b \in Field(s, "maximum") : order(j, b) <= 0
    /\ \A b \in Field(s, "exclusiveMinimum") : order(j, b) > 0
    /\ \A b \in Field(s, "exclusiveMaximum") : order(j, b) < 0
count_ok(s, min, max, n) ==
    (\A l \in Field(s, min) : 2 * n >= l.datum) /\ (\A h \in Field(s, max) : 2 * n <= h.datum)

\* The schema of a member, {}: none, anything goes.
Child(s, key) ==
    LET own == UNION {Field(p, key) : p \in Field(s, "properties")}
    IN IF own # {} THEN own ELSE Field(s, "additionalProperties")
validate(s, j, depth) ==
    CASE depth > JX_DEPTH_MAX -> FALSE
      [] s.type = "bool" -> s.datum
      [] OTHER ->
            /\ \A t \in Field(s, "type") :
                  \/ t.datum = (IF j.type = "bool" THEN "boolean" ELSE IF j.type \in {"int", "float"} THEN "number" ELSE j.type)
                  \/ t.datum = "integer" /\ j.type \in {"int", "float"} /\ Floor(ToFloat(j.datum)) = ToFloat(j.datum)
            /\ \A c \in Field(s, "const") : schema_equal(c, j)
            /\ \A e \in Field(s, "enum") : \E k \in DOMAIN e.datum : schema_equal(e.datum[k], j)
            /\ CASE j.type \in {"int", "float"} -> number_ok(s, j)
                 [] j.type = "string" -> count_ok(s, "minLength", "maxLength", Len(j.datum))
                 [] j.type = "array" ->
                        /\ count_ok(s, "minItems", "maxItems", Len(j.datum))
                        /\ \A k \in DOMAIN j.datum, i \in Field(s, "items") : validate(i, j.datum[k], depth + 1)
                 [] j.type = "object" ->
                        /\ count_ok(s, "minProperties", "maxProperties", Len(j.datum))
                        /\ \A r \in Field(s, "required") : \A k \in DOMAIN r.datum : Has(j, r.datum[k].datum)
                        /\ \A k \in DOMAIN j.datum : \A c \in Child(s, j.datum[k][1]) : validate(c, j.datum[k][2], depth + 1)
                 [] OTHER -> TRUE

\* The values a validation that succeeds visits; it fails after VisitsMax.
Visits(s, j) ==
    LET Of(child, x) == IF child = {} THEN 1 ELSE Visits(CHOOSE c \in child : TRUE, x)
    IN CASE s.type = "object" /\ j.type = "array" ->
              FoldLeft(LAMBDA n, x : n + Of(Field(s, "items"), x), 1, j.datum)
         [] s.type = "object" /\ j.type = "object" ->
              FoldLeft(LAMBDA n, m : n + Of(Child(s, m[1]), m[2]), 1, j.datum)
         [] OTHER -> 1
schema_validate(s, j) == validate(s, j, 0) /\ Visits(s, j) <= VisitsMax

\* A member set again replaces the value, in the place of the first.
obj_put(entries, m) ==
    LET at == {k \in DOMAIN entries : entries[k][1] = m[1]}
    IN IF at = {} THEN Append(entries, m) ELSE [entries EXCEPT ![Min(at)] = m]
\* xcdn arguments as JSON, {}: they hold something JSON has not.
arguments(x, depth) ==
    CASE depth > JX_DEPTH_MAX \/ x.type \notin {"null", "bool", "int", "float", "string", "array", "object"} -> {}
      [] x.type = "float" -> IF x.datum = Infinite THEN {} ELSE {x}
      [] x.type = "array" ->
            LET items == [k \in DOMAIN x.datum |-> arguments(x.datum[k], depth + 1)]
            IN IF {} \in ToSet(items) THEN {} ELSE {Arr([k \in DOMAIN items |-> CHOOSE y \in items[k] : TRUE])}
      [] x.type = "object" ->
            LET items == [k \in DOMAIN x.datum |-> arguments(x.datum[k][2], depth + 1)]
            IN IF {} \in ToSet(items) THEN {}
               ELSE {Obj(FoldLeft(LAMBDA e, k : obj_put(e, <<x.datum[k][1], CHOOSE y \in items[k] : TRUE>>),
                                  <<>>, [k \in DOMAIN items |-> k]))}
      [] OTHER -> {x}
mcp_validate(s, args) == \E j \in arguments(args, 0) : schema_validate(s, j)

-----------------------------------------------------------------------------
(* JSON arguments as xcdn text, which the engine parses again.  A text is  *)
(* nested as the value is; its leaves are literals: the characters of a    *)
(* string with its quotes, or a number, marked when it is written with a   *)
(* point or an exponent.  A name is one token.                             *)

Quote == "\""
Backslash == "\\"
Escapes == [c \in {Quote, Backslash, "LF", "CR", "TAB", "ESC"} |->
              CASE c = "LF" -> "n" [] c = "CR" -> "r" [] c = "TAB" -> "t" [] c = "ESC" -> "u001B" [] OTHER -> c]
xb_string(s) ==
    <<Quote>> \o FlattenSeq([k \in DOMAIN s |-> IF s[k] \in DOMAIN Escapes THEN <<Backslash, Escapes[s[k]]>> ELSE <<s[k]>>])
    \o <<Quote>>
key_is_bare(key) == key # "Bad-Name"
KeyText(key) == IF key_is_bare(key) THEN <<key>> ELSE <<Quote, key, Quote>>

\* "%.17g": a point for a fraction, an exponent from 10^17 on, else neither.
Plain17 == 11 * Exact
Printed(h) == [number |-> h, marked |-> h % 2 # 0 \/ h >= Plain17 \/ h <= -Plain17]
\* Fault: a float is written as it is printed.
AsPrinted(h) == Printed(h)
FloatText(h) == IF Printed(h).marked THEN Printed(h) ELSE [number |-> h, marked |-> TRUE]      \* with ".0" behind

RECURSIVE jx_to_xcdn(_, _)
jx_to_xcdn(j, depth) ==       \* {} : too deep
    IF depth >= JX_DEPTH_MAX THEN {}
    ELSE CASE j.type = "int" -> {V("number", [number |-> j.datum, marked |-> FALSE])}
           [] j.type = "float" -> {V("number", FloatText(j.datum))}
           [] j.type = "string" -> {V("quoted", xb_string(j.datum))}
           [] j.type = "array" ->
                LET items == [k \in DOMAIN j.datum |-> jx_to_xcdn(j.datum[k], depth + 1)]
                IN IF {} \in ToSet(items) THEN {}
                   ELSE {Arr([k \in DOMAIN items |-> CHOOSE x \in items[k] : TRUE])}
           [] j.type = "object" ->
                LET items == [k \in DOMAIN j.datum |-> jx_to_xcdn(j.datum[k][2], depth + 1)]
                IN IF {} \in ToSet(items) THEN {}
                   ELSE {Obj([k \in DOMAIN items |-> <<KeyText(j.datum[k][1]), CHOOSE x \in items[k] : TRUE>>])}
           [] OTHER -> {V("word", j)}       \* null, true, false

\* The engine's parser of xcdn: what a text is read as, if it is one.
Unescape(c) == CHOOSE x \in DOMAIN Escapes : Escapes[x] = c
Unquoted(q) ==                   \* the strings that a literal from its quote on is read as
    LET rest[k \in 2..Len(q) + 1] ==
            CASE k > Len(q) -> {}
              [] k <= Len(q) /\ q[k] = Quote -> IF k = Len(q) THEN {<<>>} ELSE {}
              [] k < Len(q) /\ q[k] = Backslash /\ q[k + 1] \in Range(Escapes) -> {<<Unescape(q[k + 1])>> \o s : s \in rest[k + 2]}
              [] k <= Len(q) /\ q[k] \notin DOMAIN Escapes -> {<<q[k]>> \o s : s \in rest[k + 1]}
              [] OTHER -> {}
    IN rest[2]
RECURSIVE xcdn_parse(_)
xcdn_parse(x) ==
    CASE x.type = "number" -> {V(IF x.datum.marked THEN "float" ELSE "int", x.datum.number)}
      [] x.type = "quoted" -> {Str(s) : s \in Unquoted(x.datum)}
      [] x.type = "word" -> {x.datum}
      [] x.type = "array" ->
            LET items == [k \in DOMAIN x.datum |-> xcdn_parse(x.datum[k])]
            IN IF {} \in ToSet(items) THEN {} ELSE {Arr([k \in DOMAIN items |-> CHOOSE y \in items[k] : TRUE])}
      [] OTHER ->
            LET items == [k \in DOMAIN x.datum |-> xcdn_parse(x.datum[k][2])]
                name(t) == IF Len(t) = 1 THEN t[1] ELSE t[2]
            IN IF {} \in ToSet(items) THEN {}
               ELSE {Obj([k \in DOMAIN items |-> <<name(x.datum[k][1]), CHOOSE y \in items[k] : TRUE>>])}
\* The arguments the engine gets for JSON arguments.
Received(j) == UNION {xcdn_parse(text) : text \in jx_to_xcdn(j, 0)}

-----------------------------------------------------------------------------
(* The grammar of call lines                                               *)

\* emit_value: the values a production derives; maps and objects are any
\* balanced object.
RECURSIVE emit_value(_, _)
emit_value(t, x) ==
    CASE t.kind \in {"string", "path"} -> x.type = "string"
      [] t.kind = "integer" -> x.type = "int"
      [] t.kind = "number" -> x.type \in {"int", "float"}
      [] t.kind = "boolean" -> x.type = "bool"
      [] t.kind = "enum" -> x.type = "string" /\ x.datum \in t.values
      [] t.kind = "array" -> x.type = "array" /\ \A k \in DOMAIN x.datum : emit_value(t.item, x.datum[k])
      [] t.kind \in {"map", "object"} -> x.type = "object"
      [] OTHER -> x.type = t.kind

\* emit_cmd_rule: the required parameters in their order, then any of the
\* optional ones in theirs; without a required one, any object.
CallOrder(params) ==
    SelectSeq(params, LAMBDA p : p.required) \o SelectSeq(params, LAMBDA p : ~p.required)
emit_cmd_rule(params, o) ==
    CASE params = <<>> -> o.datum = <<>>
      [] params # <<>> /\ (\A k \in DOMAIN params : ~params[k].required) -> TRUE
      [] OTHER ->
            LET present == SelectSeq(CallOrder(params), LAMBDA p : Has(o, p.name))
            IN /\ \A k \in DOMAIN params : params[k].required => Has(o, params[k].name)
               /\ Len(present) = Len(o.datum)
               /\ \A k \in DOMAIN present : /\ o.datum[k][1] = present[k].name
                                            /\ emit_value(present[k].type, o.datum[k][2])

\* make_rule_name: the first of t-<tool>-c-<cmd>, -2, -3, ... nobody has yet.
Name(tool, cmd, n) ==
    <<"t", "-">> \o tool \o <<"-", "c", "-">> \o cmd \o (IF n = 1 THEN <<>> ELSE <<"-", ToString(n)>>)
\* Fault: the suffix is taken without looking again.
SuffixOnce(tool, cmd, taken) == IF Name(tool, cmd, 1) \notin taken THEN Name(tool, cmd, 1) ELSE Name(tool, cmd, 2)
make_rule_name(tool, cmd, taken) ==
    Name(tool, cmd, CHOOSE n \in 1..Cardinality(taken) + 1 :
                       /\ Name(tool, cmd, n) \notin taken
                       /\ \A m \in 1..n - 1 : Name(tool, cmd, m) \in taken)
build_rules(cmds) ==
    FoldLeft(LAMBDA acc, c : Append(acc, make_rule_name(c.tool, c.cmd, ToSet(acc))), <<>>, cmds)
=============================================================================
