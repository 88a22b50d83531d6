------------------------------- MODULE Types --------------------------------
(***************************************************************************)
(* The type system of tool arguments: #type documents and their parsing,   *)
(* the strict check of values with injection of defaults (types.c), the    *)
(* parameters of a command and their canonical documents (manifest.c).     *)
(*                                                                         *)
(* A value is [type, datum].  Strings are sequences of characters, objects *)
(* sequences of <<key, value>> (xcdn keeps duplicates).  Numbers are       *)
(* counted in halves, so that a float may lie between two integers.        *)
(***************************************************************************)
EXTENDS Integers, Sequences, FiniteSets, SequencesExt

CONSTANTS
    TYPE_DEPTH_MAX, CLONE_DEPTH_MAX,   \* 32 and 64 in the code
    Width,       \* integers have Width bits (64)
    Precision    \* and floats Precision significant ones (53)

V(type, v) == [type |-> type, datum |-> v]
Null == V("null", 0)
Whole(i) == V("int", 2 * i)
Float(h) == V("float", h)          \* h halves; Infinite for inf and nan
Infinite == 2 * 2^(2 * Width)
Str(s) == V("string", s)
Arr(items) == V("array", items)
Obj(entries) == V("object", entries)

Keys(o) == [k \in DOMAIN o.datum |-> o.datum[k][1]]
Has(o, key) == key \in ToSet(Keys(o))
Get(o, key) == o.datum[Min({k \in DOMAIN o.datum : o.datum[k][1] = key})][2]
dup_str(names) == \E j, k \in DOMAIN names : j < k /\ names[j] = names[k]

\* strlen: bytes, where a character may take several.
Bytes(s) == FoldLeft(LAMBDA n, c : n + (IF c = "e'" THEN 2 ELSE 1), 0, s)

-----------------------------------------------------------------------------
(* Integers against bounds that are floats                                 *)

TwoPow == 2 * 2^(Width - 1)      \* TWO_POW_63, in halves
IsFloat(h) == \E e \in 0..2 * Width : h % (2^e) = 0 /\ (IF h < 0 THEN -h ELSE h) < 2^(e + Precision)

\* (double)i rounds to the nearest float, of two to the even one.
Nearest(h, f, g) ==
    CASE h = f \/ h - f < g - h -> f
      [] h # f /\ h - f > g - h -> g
      [] OTHER -> IF f % (2 * (g - f)) = 0 THEN f ELSE g
Down(h) == CHOOSE f \in h - 2^Width..h : IsFloat(f) /\ \A g \in f + 1..h : ~IsFloat(g)
Up(h) == CHOOSE f \in h..h + 2^Width : IsFloat(f) /\ \A g \in h..f - 1 : ~IsFloat(g)
ToFloat(h) == Nearest(h, Down(h), Up(h))

Ceil(h) == 2 * ((h + 1) \div 2)
Floor(h) == 2 * (h \div 2)

\* Fault: the integer is converted instead of the bound.
int_geLossy(i, bound) == ToFloat(i) >= bound
int_ge(i, bound) ==
    CASE bound >= TwoPow -> FALSE
      [] bound < -TwoPow -> TRUE
      [] OTHER -> Ceil(bound) < TwoPow /\ i >= Ceil(bound)
int_le(i, bound) ==
    CASE bound >= TwoPow -> TRUE
      [] bound < -TwoPow -> FALSE
      [] OTHER -> i <= Floor(bound)

-----------------------------------------------------------------------------
(* #type documents.  A parsed type has the fields of its kind; an unset    *)
(* bound is the empty set.                                                 *)

Scalar == {"boolean", "datetime", "duration", "uuid"}
kind_keys(kind) ==
    {"kind"} \cup
    CASE kind \in {"string", "bytes"} -> {"min_len", "max_len"}
      [] kind \in {"integer", "number"} -> {"min", "max"}
      [] kind = "path" -> {"access", "must_exist"}
      [] kind = "enum" -> {"values"}
      [] kind = "array" -> {"item", "min_items", "max_items"}
      [] kind = "map" -> {"value", "max_entries"}
      [] kind = "object" -> {"fields"}
      [] OTHER -> {}
Kinds == Scalar \cup {"string", "bytes", "integer", "number", "path", "enum", "array", "map", "object"}

Bad == [kind |-> "bad"]
Field(o, key) == IF Has(o, key) THEN {Get(o, key)} ELSE {}
Bounds(o, key) == {x.datum : x \in Field(o, key)}

opt_nonneg(o, key) == \A x \in Field(o, key) : x.type = "int" /\ x.datum >= 0
opt_bound(o, key) == \A x \in Field(o, key) : x.type \in {"int", "float"} /\ x.datum # Infinite
opt_bool(o, key) == \A x \in Field(o, key) : x.type = "bool"
Ordered(lo, hi) == \A l \in lo, h \in hi : l <= h
\* A bound given as an integer is stored as a float.
Stored(o, key) == {ToFloat(b) : b \in Bounds(o, key)}

Type(kind, lo, hi, values, item, fields) ==
    [kind |-> kind, lo |-> lo, hi |-> hi, values |-> values, item |-> item, fields |-> fields]
Plain(kind, lo, hi) == Type(kind, lo, hi, {}, <<>>, <<>>)

RECURSIVE DepthOf(_)
DepthOf(x) ==
    LET inner == CASE x.type = "array" -> {DepthOf(x.datum[k]) : k \in DOMAIN x.datum}
                   [] x.type = "object" -> {DepthOf(x.datum[k][2]) : k \in DOMAIN x.datum}
                   [] OTHER -> {}
    IN IF inner = {} THEN 0 ELSE 1 + Max(inner)

\* clone_node and clone_value: each nesting costs two levels.
clone_node(x) == 2 * DepthOf(x) + 1 <= CLONE_DEPTH_MAX

\* param_name_ok: a lowercase identifier; the names used stand for both sorts.
param_name_ok(name) == name.type = "string" /\ name.datum \notin {"", "Bad-Name"}

RECURSIVE type_check(_, _), type_parse_at(_, _), param_parse(_, _)

-----------------------------------------------------------------------------
(* The check.  It returns the value with the defaults it injected.         *)

Ok(x) == [ok |-> TRUE, x |-> x]
Refused == [ok |-> FALSE, x |-> Null]
If(cond, x) == IF cond THEN Ok(x) ELSE Refused
Within(n, t) == (\A l \in t.lo : n >= l) /\ (\A h \in t.hi : n <= h)

All(results) == \A k \in DOMAIN results : results[k].ok
Items(r) == IF All(r) THEN Ok(Arr([k \in DOMAIN r |-> r[k].x])) ELSE Refused
Entries(o, r) == IF All(r) THEN Ok(Obj([k \in DOMAIN r |-> <<o.datum[k][1], r[k].x>>])) ELSE Refused

\* A copy of the default, which may be too deep to be copied, goes to the end.
obj_inject_default(o, f) ==
    IF \E d \in f.dflt : ~clone_node(d) THEN Refused
    ELSE Ok(Obj(o.datum \o SetToSeq({<<f.name, d>> : d \in f.dflt})))

\* check_obj_dups, the closed set of names, then the fields in their order:
\* a present one is checked, an absent one may have a default.  Command
\* parameters (astools_args_validate) and object types are checked alike.
CheckFields(fields, o) ==
    LET Names == {fields[k].name : k \in DOMAIN fields}
        Given(f) == Min({k \in DOMAIN o.datum : o.datum[k][1] = f.name})
        Put(acc, f, r) ==
            IF r.ok THEN Ok(Obj([acc.x.datum EXCEPT ![Given(f)] = <<f.name, r.x>>])) ELSE Refused
        Step(acc, f) ==
            CASE ~acc.ok -> acc
              [] acc.ok /\ Has(o, f.name) -> Put(acc, f, type_check(f.type, Get(o, f.name)))
              [] acc.ok /\ ~Has(o, f.name) /\ f.required -> Refused
              [] acc.ok /\ ~Has(o, f.name) /\ ~f.required -> obj_inject_default(acc.x, f)
    IN IF o.type # "object" THEN Refused
       ELSE IF dup_str(Keys(o)) \/ ~(ToSet(Keys(o)) \subseteq Names) THEN Refused
       ELSE FoldLeft(Step, Ok(o), fields)

type_check(t, x) ==
    CASE t.kind = "string" -> If(x.type = "string" /\ Within(2 * Bytes(x.datum), t), x)
      [] t.kind = "bytes" -> If(x.type = "bytes" /\ Within(2 * Len(x.datum), t), x)
      [] t.kind = "integer" -> If(/\ x.type = "int"
                                  /\ \A l \in t.lo : int_ge(x.datum, l)
                                  /\ \A h \in t.hi : int_le(x.datum, h), x)
      [] t.kind = "number" -> If(/\ x.type \in {"int", "float"} /\ x.datum # Infinite
                                 /\ Within(ToFloat(x.datum), t), x)
      [] t.kind = "boolean" -> If(x.type = "bool", x)
      [] t.kind \in {"datetime", "duration", "uuid"} -> If(x.type = t.kind /\ x.datum, x)
      [] t.kind = "path" -> If(x.type = "string" /\ x.datum # <<>>, x)
      [] t.kind = "enum" -> If(x.type = "string" /\ x.datum \in t.values, x)
      [] t.kind = "array" ->
            IF x.type # "array" \/ ~Within(2 * Len(x.datum), t) THEN Refused
            ELSE Items([k \in DOMAIN x.datum |-> type_check(t.item, x.datum[k])])
      [] t.kind = "map" ->
            IF x.type # "object" THEN Refused
            ELSE IF ~Within(2 * Len(x.datum), t) \/ dup_str(Keys(x)) THEN Refused
            ELSE Entries(x, [k \in DOMAIN x.datum |-> type_check(t.item, x.datum[k][2])])
      [] t.kind = "object" -> CheckFields(t.fields, x)

args_validate(params, args) == CheckFields(params, args)

-----------------------------------------------------------------------------
(* Parsing                                                                 *)

\* Fault: the default is stored as written.
DefaultAsGiven(type, d) == {d}
\* The stored default is checked, which completes it with nested defaults.
Canonical(type, d) == {type_check(type, d).x}

NoParam == [name |-> "", type |-> Bad, required |-> FALSE, dflt |-> {}]
ParamKeys == {"name", "type", "required", "default", "description", "examples"}

\* A parameter whose type and "required" are well formed; clone: whether its
\* default is copied by a bounded copy.
Declared(p, type, clone) ==
    LET required == \E x \in Field(p, "required") : x.datum
    IN IF type = Bad \/ \E d \in Field(p, "default") :
                            required \/ (clone /\ ~clone_node(d)) \/ ~type_check(type, d).ok
       THEN NoParam
       ELSE [name |-> Get(p, "name").datum, type |-> type, required |-> required,
             dflt |-> UNION {Canonical(type, d) : d \in Field(p, "default")}]
Named(p) == /\ p.type = "object"
            /\ Has(p, "name") /\ Has(p, "type") /\ opt_bool(p, "required")
            /\ param_name_ok(Get(p, "name"))

param_parse(p, depth) ==
    IF /\ Named(p)
       /\ ~dup_str(Keys(p)) /\ ToSet(Keys(p)) \subseteq ParamKeys
       /\ \A x \in Field(p, "description") : x.type = "string"
       /\ \A x \in Field(p, "examples") : x.type = "array"
    THEN Declared(p, type_parse_at(Get(p, "type"), depth + 1), TRUE) ELSE NoParam

ArrayOf(o, item) ==
    IF item # Bad /\ opt_nonneg(o, "min_items") /\ opt_nonneg(o, "max_items")
       /\ Ordered(Bounds(o, "min_items"), Bounds(o, "max_items"))
    THEN Type("array", Bounds(o, "min_items"), Bounds(o, "max_items"), {}, item, <<>>) ELSE Bad
MapOf(o, item) ==
    IF item # Bad /\ opt_nonneg(o, "max_entries")
    THEN Type("map", {}, Bounds(o, "max_entries"), {}, item, <<>>) ELSE Bad
ObjectOf(ps) ==
    IF NoParam \notin ToSet(ps) /\ ~dup_str([k \in DOMAIN ps |-> ps[k].name])
    THEN Type("object", {}, {}, {}, <<>>, ps) ELSE Bad

\* What a document of a known kind with known keys parses to.
ParseKind(o, kind, depth) ==
    CASE kind \in {"string", "bytes"} ->
            IF opt_nonneg(o, "min_len") /\ opt_nonneg(o, "max_len")
               /\ Ordered(Bounds(o, "min_len"), Bounds(o, "max_len"))
            THEN Plain(kind, Bounds(o, "min_len"), Bounds(o, "max_len")) ELSE Bad
      [] kind \in {"integer", "number"} ->
            IF ~opt_bound(o, "min") \/ ~opt_bound(o, "max") THEN Bad
            ELSE IF Ordered(Stored(o, "min"), Stored(o, "max"))
            THEN Plain(kind, Stored(o, "min"), Stored(o, "max")) ELSE Bad
      [] kind \in Scalar -> Plain(kind, {}, {})
      [] kind = "path" ->
            IF /\ \A x \in Field(o, "access") : x.type = "string" /\ x.datum \in {"read", "write", "read-write"}
               /\ opt_bool(o, "must_exist")
            THEN Plain(kind, {}, {}) ELSE Bad
      [] kind = "enum" ->
            IF ~Has(o, "values") THEN Bad
            ELSE LET vs == Get(o, "values")
                 IN IF vs.type # "array" THEN Bad
                    ELSE IF vs.datum # <<>> /\ \A k \in DOMAIN vs.datum : vs.datum[k].type = "string" /\ vs.datum[k].datum # <<>>
                    THEN Type(kind, {}, {}, {vs.datum[k].datum : k \in DOMAIN vs.datum}, <<>>, <<>>) ELSE Bad
      [] kind = "array" ->
            IF Has(o, "item") THEN ArrayOf(o, type_parse_at(Get(o, "item"), depth + 1)) ELSE Bad
      [] kind = "map" ->
            IF Has(o, "value") THEN MapOf(o, type_parse_at(Get(o, "value"), depth + 1)) ELSE Bad
      [] kind = "object" ->
            IF ~Has(o, "fields") THEN Bad
            ELSE LET fs == Get(o, "fields")
                 IN IF fs.type # "array" THEN Bad
                    ELSE ObjectOf([k \in DOMAIN fs.datum |-> param_parse(fs.datum[k], depth)])

type_parse_at(o, depth) ==
    CASE depth > TYPE_DEPTH_MAX \/ o.type # "object" -> Bad
      [] dup_str(Keys(o)) \/ ~Has(o, "kind") -> Bad
      [] Get(o, "kind").type # "string" \/ Get(o, "kind").datum \notin Kinds -> Bad
      [] ~(ToSet(Keys(o)) \subseteq kind_keys(Get(o, "kind").datum)) -> Bad
      [] OTHER -> ParseKind(o, Get(o, "kind").datum, depth)

\* The parameters of a command (manifest.c), {} when one is not well formed.
\* Keys beyond the known ones are ignored here, and the default is copied
\* however deep it is.
parse_param(p) ==
    IF Named(p) THEN Declared(p, type_parse_at(Get(p, "type"), 0), FALSE) ELSE NoParam
WellFormed(params) ==
    IF NoParam \in ToSet(params) \/ dup_str([k \in DOMAIN params |-> params[k].name]) THEN {} ELSE {params}
parse_params(ps) == WellFormed([k \in DOMAIN ps |-> parse_param(ps[k])])

-----------------------------------------------------------------------------
(* Canonical documents (manifest.c): what is written parses to the same    *)
(* type, except that fractional bounds of integers are cut.                *)

Truncated(h) == IF h < 0 THEN -Floor(-h) ELSE Floor(h)
Entry(key, bound, type) == SetToSeq({<<key, V(type, b)>> : b \in bound})
Doc(kind, entries) == Obj(<<<<"kind", V("string", kind)>>>> \o entries)

RECURSIVE render_type(_)
render_param(p) ==
    Obj(<<<<"name", V("string", p.name)>>, <<"type", render_type(p.type)>>>>
        \o (IF p.required THEN <<<<"required", V("bool", TRUE)>>>> ELSE <<>>)
        \o SetToSeq({<<"default", d>> : d \in p.dflt}))
render_type(t) ==
    Doc(t.kind,
        CASE t.kind \in {"string", "bytes"} -> Entry("min_len", t.lo, "int") \o Entry("max_len", t.hi, "int")
          [] t.kind = "integer" -> Entry("min", {Truncated(b) : b \in t.lo}, "int")
                                   \o Entry("max", {Truncated(b) : b \in t.hi}, "int")
          [] t.kind = "number" -> Entry("min", t.lo, "float") \o Entry("max", t.hi, "float")
          [] t.kind = "enum" -> LET vs == SetToSeq(t.values)
                                IN <<<<"values", Arr([k \in DOMAIN vs |-> Str(vs[k])])>>>>
          [] t.kind = "array" -> <<<<"item", render_type(t.item)>>>>
                                 \o Entry("min_items", t.lo, "int") \o Entry("max_items", t.hi, "int")
          [] t.kind = "map" -> <<<<"value", render_type(t.item)>>>> \o Entry("max_entries", t.hi, "int")
          [] t.kind = "object" -> <<<<"fields", Arr([k \in DOMAIN t.fields |-> render_param(t.fields[k])])>>>>
          [] OTHER -> <<>>)
=============================================================================
