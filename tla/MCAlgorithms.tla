---------------------------- MODULE MCAlgorithms ----------------------------
(***************************************************************************)
(* The algorithms without state of their own, on every input of bounded    *)
(* sets.  A behavior takes one input of one topic; the invariants compare  *)
(* what the code computes for it with reference definitions.               *)
(***************************************************************************)
EXTENDS Integers, Sequences, FiniteSets, FiniteSetsExt, SequencesExt, TLC

CONSTANTS TYPE_DEPTH_MAX, CLONE_DEPTH_MAX, Width, Precision, JX_DEPTH_MAX, VisitsMax,
          SelectionMax, HeaderSize, PathCap, HeaderCap, Int64Max, DigitsMax, Week, Day, Hour, Minute

E == INSTANCE EditText
C == INSTANCE Contracts
S == INSTANCE Selection
K == INSTANCE Codecs

VARIABLES topic, in, taken
vars == <<topic, in, taken>>

Upto(set, n) == UNION {[1..k -> set] : k \in 0..n}
On(t) == topic = t /\ taken

-----------------------------------------------------------------------------
(* Matchers *)

Bound(m, n) == <<"{", m, ",", n, "}">>
Tokens == {<<c>> : c \in {"a", "b", ".", "*", "|", "(", ")"}} \cup {Bound("1", "2")}
Anchors == {<<"^">>, <<"$">>, <<"a">>, <<"*">>, <<"|">>}
Members == {<<"[">> \o s : s \in Upto({"a", "^", "]", "-"}, 4)}
RegexPatterns == {FlattenSeq(s) : s \in Upto(Tokens, 5) \cup Upto(Anchors, 4)} \cup Members
Texts == Upto({"a", "b"}, 3)
ClassTexts == {<<>>, <<"a">>, <<"]">>, <<"-">>, <<"^">>, <<"\\">>, <<"b">>, <<"_">>}

\* Patterns the code refuses: nothing to repeat, malformed or reversed bounds,
\* open groups and classes, reversed ranges, escapes it does not know.
RefusedPatterns ==
    {<<"a", "{">> \o s : s \in {<<>>, <<"}">>, <<"1">>, <<"1", ",">>, <<",", "2", "}">>, <<"2", ",", "1", "}">>, <<"1", ",", "b", "}">>, <<"b", "}">>, <<"1", "b", "}">>}}
    \cup {<<"{", "2", "}">>, <<"a", "|", "{", "2", ",", "}">>, <<"(", "{", "1", "}", ")">>, <<"*">>, <<"(", "+", ")">>, <<"?", "a">>,
          <<"(">>, <<"(", "a">>, <<"a", ")">>, <<"[", "a">>, <<"[", "]">>, <<"[", "b", "-", "a", "]">>, <<"[", "[", ":", "a", "]">>, <<"\\">>}
    \cup {<<"a", "\\", c>> : c \in {"d", "w", "s", "0", "9", "a", "Z", "b"}}

\* Trees, whose written form must mean what they mean.
Leaves == {E!CHAR("a"), E!CHAR("*"), E!CHAR(E!LF), E!Leaf("any"), E!Leaf("bol"), E!Leaf("eol"), E!Leaf("empty"), E!CLASS({"a", "*"}, FALSE), E!CLASS({"a"}, TRUE)}
Grown(a, b) == {E!CAT(x, y) : x \in a, y \in b} \cup {E!ALT(x, y) : x \in a, y \in b}
               \cup {E!REP(x, m, n) : x \in a, m \in 1..2, n \in {-1, 2}}
Trees == Leaves \cup Grown(Leaves, Leaves) \cup Grown(Grown({E!CHAR("a"), E!Leaf("bol"), E!Leaf("empty")}, {E!CHAR("b"), E!Leaf("eol")}), {E!CHAR("a"), E!Leaf("any")})
TreeTexts == Upto({"a", "*", E!LF}, 3)

GlobTokens == {"a", "*", "?", "/"}
GlobPatterns == Upto(GlobTokens, 4)
                \cup {<<"[">> \o s : s \in Upto({"a", "-", "!", "]"}, 5)}
                \cup {x \o <<"[", "a", "-", "c", "]">> \o y : x, y \in Upto(GlobTokens, 2)}
                \cup {x \o <<"[", "^", "a", "]">> \o y : x, y \in Upto({"*", "/", "]"}, 2)}
GlobTexts(p) == IF Len(p) > 0 /\ p[1] = "[" THEN Upto({"a", "b", "-", "]", "[", "/"}, 2) \cup {<<"[", "a", "]">>, <<"[", "!", "a", "]">>}
                ELSE Upto({"a", "b", "/"}, 4)

SearchExact(prog, tree, texts) == \A x \in texts : E!astd_regex_search(prog, x) = E!LeftmostLongest(tree, x)
\* Simulated programs find the leftmost match and of these the longest, of
\* what their pattern says; what is no pattern is refused; globs match what
\* their pattern denotes, classes too, never crossing a separator.
MatchesExact ==
    /\ On("regex") => LET prog == E!astd_regex_compile(in)
                      IN prog # <<>> => SearchExact(prog, E!parse_alt(in).nd, IF in \in Members THEN ClassTexts ELSE Texts)
    /\ On("refused") => E!astd_regex_compile(in) = <<>>
    /\ On("tree") => SearchExact(E!astd_regex_compile(E!Written(in)), in, TreeTexts)
    /\ On("glob") =>
         \A x \in GlobTexts(in) :
            LET slash == {k \in DOMAIN x : x[k] = "/"}
                base == IF slash = {} THEN x ELSE SubSeq(x, Max(slash) + 1, Len(x))
            IN E!astd_glob_match(in, x) = E!GlobDenotes(in, IF "/" \in ToSet(in) THEN x ELSE base)

-----------------------------------------------------------------------------
(* Edits *)

Files == Upto({"a", E!LF, E!CR}, 5)
Wanted == {<<"a">>, <<"a", "a">>, <<"a", E!LF>>, <<E!LF, "a">>}
Contents == {<<"b">>, <<"b", E!LF>>, <<"b", E!LF, "b">>, <<E!LF>>}
Docs == Upto({"a", E!LF}, 5)
Bodies == Upto([kind : {" ", "-", "+"}, text : {<<"a">>, <<>>}], 2)
Hunks == [a : 0..3, body : Bodies \ {<<>>}]
TwoHunks == {<<h, [a |-> n, body |-> <<[kind |-> "-", text |-> <<"a">>]>>]>> : h \in [a : {1}, body : Bodies \ {<<>>}], n \in 1..3}

Uniform(raw) == E!CountCrlf(raw) = 0 \/ E!CountLf(raw) = 0
Cut(s, from, to) == SubSeq(s, from, to)

\* A file keeps its line endings when all are alike.
EndingsKept(raw) == Uniform(raw) => E!denorm(E!normalize_lf(raw), E!crlf(raw)) = raw

\* A single replacement changes one occurrence, refuses when another would fit
\* beside it, and tells apart none and several.
ReplaceExact(raw, pat) ==
    LET n == E!normalize_lf(raw)
        at == {k \in DOMAIN n : E!OccursAt(n, pat, k)}
        apart == \E j, k \in at : k >= j + Len(pat)
        r == E!cmd_replace(raw, pat, <<"R">>, FALSE)
    IN CASE at = {} -> r.code = "edit/not-found"
         [] apart -> r.code = "edit/ambiguous"
         [] OTHER -> r = E!Gives(E!denorm(Cut(n, 1, Min(at) - 1) \o <<"R">> \o Cut(n, Min(at) + Len(pat), Len(n)), E!crlf(raw)))

\* The number of replacements a line reports is the number it made.
CountExact(prog, s) ==
    LET r == E!re_replace_line(prog, s, <<"R">>)
    IN Cardinality({k \in DOMAIN r : r[k] = "R"}) = E!re_count_line(prog, s)

\* Inserted lines stand between the lines that were there.  (An empty last line
\* of a file without a final newline cannot be told from none, and a lone CR
\* before a new LF becomes part of it.)
InsertExact(raw, content, n) ==
    LET ls == E!split_spans(E!normalize_lf(raw))
        at == IF n > Len(ls) THEN Len(ls) ELSE n
        want == Cut(ls, 1, at) \o E!split_spans(E!normalize_lf(content)) \o Cut(ls, at + 1, Len(ls))
        final == raw = <<>> \/ Last(raw) = E!LF
        paired == \A k \in DOMAIN raw : raw[k] = E!CR => E!IsCrlf(raw, k)
    IN want # <<>> /\ paired /\ (final \/ Last(want) # <<>>) =>
         E!split_spans(E!normalize_lf(E!cmd_insert(raw, content, n))) = want

\* A patched document is the old one with each hunk's old side replaced, in
\* order, at the declared place or at the only one; else nothing is changed.
Places(ls, h, from) ==
    LET old == E!OldSide(h)
        all == {p \in from..Len(ls) : E!hunk_matches_at(ls, h, p)}
        said == IF old = <<>> THEN h.a ELSE h.a - 1
    IN IF said \in all THEN {said} ELSE IF old # <<>> /\ h.a > 0 /\ Cardinality(all) = 1 THEN all ELSE {}
PatchExact(doc, hunks) ==
    LET ls == E!split_spans(doc)
        r == E!apply_section(doc, hunks)
        old(k) == Len(E!OldSide(hunks[k]))
        new(k) == E!NewSide(hunks[k])
        one == Places(ls, hunks[1], 0)
        first == Min(one)
        two == IF Len(hunks) = 1 \/ one = {} THEN {} ELSE Places(ls, hunks[2], first + old(1))
        after == first + old(1)
        second == Min(two)
        want == IF Len(hunks) = 1 THEN Cut(ls, 1, first) \o new(1) \o Cut(ls, after + 1, Len(ls))
                ELSE Cut(ls, 1, first) \o new(1) \o Cut(ls, after + 1, second) \o new(2)
                     \o Cut(ls, second + old(2) + 1, Len(ls))
    IN IF one = {} \/ (Len(hunks) = 2 /\ two = {}) THEN r.code = "edit/patch-failed"
       ELSE r.code = "ok" /\ (want # <<>> /\ Last(want) # <<>> => E!split_spans(r.text) = want)

\* Edits do what they say to the text, and nothing else.
EditsExact ==
    /\ On("file") => /\ EndingsKept(in)
                     /\ \A pat \in Wanted : ReplaceExact(in, pat)
                     /\ \A c \in Contents, n \in 0..3 : InsertExact(in, c, n)
    /\ On("line") => \A p \in {<<"a">>, <<"a", "*">>, <<"b", "?">>, <<"(", "a", "|", "b", ")", "+">>} :
                        CountExact(E!astd_regex_compile(p), in)
    /\ On("patch") => /\ \A h \in Hunks : PatchExact(in, <<h>>)
                      /\ \A hs \in TwoHunks : PatchExact(in, hs)

-----------------------------------------------------------------------------
(* Types and contracts *)

Whole(n) == C!Whole(n)
Text(s) == C!Str(s)
Yes == C!V("bool", TRUE)
Name(s) == C!V("string", s)
With(key, values) == {<<>>} \cup {<<<<key, v>>>> : v \in values}
Both(a, b) == {x \o y : x \in a, y \in b}
DocsOf(kind, entries) == {C!Doc(kind, e) : e \in entries}

Halves == {C!Float(h) : h \in {-3, 3}}
PlainDocs ==
    DocsOf("string", Both(With("min_len", {Whole(1)}), With("max_len", {Whole(0), Whole(1), Whole(-1)})))
    \cup DocsOf("integer", Both(With("min", {Whole(1)} \cup Halves), With("max", {Whole(1), C!Float(C!Infinite)})))
    \cup DocsOf("number", Both(With("min", Halves), With("max", {Whole(1), Whole(15)})))
    \cup DocsOf("enum", With("values", {C!Arr(<<Text(<<"x">>)>>), C!Arr(<<>>)}))
    \cup DocsOf("path", {<<>>, <<<<"must_exist", Yes>>>>, <<<<"item", Yes>>>>})
    \cup DocsOf("boolean", {<<>>}) \cup DocsOf("bytes", {<<>>}) \cup DocsOf("uuid", {<<>>})
SmallDocs == DocsOf("integer", With("min", {Whole(1)})) \cup DocsOf("string", With("max_len", {Whole(1)})) \cup DocsOf("boolean", {<<>>})
ParamDoc(n, type, rest) == C!Obj(<<<<"name", Name(n)>>, <<"type", type>>>> \o rest)
Fields(docs) == {C!Arr(<<ParamDoc("x", d, r)>>) : d \in docs,
                   r \in {<<>>, <<<<"required", Yes>>>>, <<<<"default", Whole(1)>>>>, <<<<"default", C!Obj(<<>>)>>>>}}
ObjectDocs(docs) == DocsOf("object", {<<<<"fields", f>>>> : f \in Fields(docs)})
Nested(docs) ==
    DocsOf("array", {<<<<"item", d>>>> \o e : d \in docs, e \in With("max_items", {Whole(1)})})
    \cup DocsOf("map", {<<<<"value", d>>>> \o e : d \in docs, e \in With("max_entries", {Whole(1)})})
    \cup ObjectDocs(docs)
TypeDocs == PlainDocs \cup Nested(SmallDocs) \cup Nested(Nested(SmallDocs)) \cup ObjectDocs(ObjectDocs(Nested({C!Doc("boolean", <<>>)})))

Scalars == {C!Null, Yes, Whole(0), Whole(1), Whole(13), C!Float(2), C!Float(3), C!Float(C!Infinite), Text(<<>>), Text(<<"x">>), Text(<<"e'">>),
            C!V("uuid", TRUE), C!V("bytes", <<1>>)}
Few == {Yes, Whole(1), Text(<<"x">>)}
Values == Scalars \cup {C!Arr(s) : s \in Upto(Few, 2)} \cup {C!Obj(<<>>)}
          \cup {C!Obj(<<<<"x", v>>>>) : v \in Few \cup {C!Obj(<<>>), C!Arr(<<Whole(1)>>)}}
          \cup {C!Obj(<<<<"x", Whole(1)>>, <<k, Whole(1)>>>>) : k \in {"x", "y"}}
          \cup {C!Arr(<<C!Arr(<<Whole(1)>>)>>), C!Obj(<<<<"x", C!Obj(<<<<"x", Whole(1)>>>>)>>>>)}
IsJson(v) == /\ v.type \notin {"uuid", "bytes"} /\ (v.type = "float" => v.datum # C!Infinite)
             /\ v.type = "object" => ~C!dup_str(C!Keys(v))
JsonValues == {v \in Values : IsJson(v)}

\* Comparisons of integers and bounds are those of the numbers, also where a
\* float cannot hold the integer; reviewed schemas order numbers alike.
BoundExact(b) ==
    \A i \in -(2^(Width - 1))..2^(Width - 1) - 1 :
        /\ C!int_ge(2 * i, b) <=> 2 * i >= b
        /\ C!int_le(2 * i, b) <=> 2 * i <= b
        /\ -C!Exact <= b /\ b <= C!Exact => C!order(Whole(i), C!json_number(b)) = C!Sign(2 * i - b)

\* Checking is idempotent: what a check returns, with its defaults, is accepted
\* as it is, and nothing given was changed.
RECURSIVE Extends(_, _)
Extends(x, y) ==
    CASE x.type = "object" -> \A k \in ToSet(C!Keys(x)) : Extends(C!Get(x, k), C!Get(y, k))
      [] x.type = "array" -> Len(x.datum) = Len(y.datum) /\ \A k \in DOMAIN x.datum : Extends(x.datum[k], y.datum[k])
      [] OTHER -> x = y
Stable(t, x, r) == r.ok => C!type_check(t, r.x) = r /\ Extends(x, r.x)
CheckStable(t) == \A x \in Values : Stable(t, x, C!type_check(t, x))

\* A call without an optional parameter is refused only if its default is too
\* deep to be copied; else it runs with the default, complete in itself.
Complete(params, d, r) ==
    /\ r.ok <=> \A x \in params[1].dflt : C!clone_node(x)
    /\ r.ok => /\ C!Has(r.x, "a") /\ Extends(d, C!Get(r.x, "a"))
               /\ C!args_validate(params, r.x) = r
DefaultGiven(doc, d) ==
    \A params \in C!parse_params(<<ParamDoc("a", doc, <<<<"default", d>>>>)>>) :
        Complete(params, d, C!args_validate(params, C!Obj(<<>>)))

\* Every integer bound is an integer.
RECURSIVE WholeBounds(_)
WholeBounds(t) ==
    CASE t.kind = "integer" -> \A b \in t.lo \cup t.hi : b % 2 = 0
      [] t.kind \in {"array", "map"} -> WholeBounds(t.item)
      [] t.kind = "object" -> \A k \in DOMAIN t.fields : WholeBounds(t.fields[k].type)
      [] OTHER -> TRUE

TypeExact(doc, t) ==
    t # C!Bad => /\ CheckStable(t)
                 /\ \A d \in Values : DefaultGiven(doc, d)
                 /\ WholeBounds(t) => C!type_parse_at(C!render_type(t), 0) = t
\* What is accepted is complete, exact and stable: bounds are compared as
\* numbers, defaults are canonical, and a written type is the type.
ArgumentsExact ==
    /\ On("bound") => BoundExact(in)
    /\ On("type") => TypeExact(in, C!type_parse_at(in, 0))

CommandDocs ==
    {<<ParamDoc("x", d, r)>> : d \in PlainDocs \cup Nested(SmallDocs), r \in {<<>>, <<<<"required", Yes>>>>}}
    \cup {<<ParamDoc("x", d, r), ParamDoc("y", e, q)>> : d, e \in SmallDocs,
            r \in {<<>>, <<<<"default", Whole(1)>>>>}, q \in {<<>>, <<<<"required", Yes>>>>}}
Commands == UNION {C!parse_params(ps) : ps \in CommandDocs}
Arguments == {C!Obj(<<>>)} \cup {C!Obj(<<<<"x", v>>>>) : v \in Values}
             \cup {C!Obj(<<<<"x", v>>, <<"y", w>>>>) : v, w \in Few}
             \cup {C!Obj(<<<<"y", v>>, <<"x", w>>>>) : v, w \in Few}

RECURSIVE Everywhere(_, _)
Everywhere(P(_), x) ==
    /\ P(x)
    /\ x.type = "array" => \A k \in DOMAIN x.datum : Everywhere(P, x.datum[k])
    /\ x.type = "object" => \A k \in DOMAIN x.datum : Everywhere(P, x.datum[k][2])
\* One byte a character, and numbers that floats hold exactly.
Simple(x) == /\ x.type = "string" => "e'" \notin ToSet(x.datum)
             /\ x.type \in {"int", "float"} => -C!Exact <= x.datum /\ x.datum <= C!Exact
\* No empty strings, no 3.0.
Usual(x) == /\ x.type = "string" => x.datum # <<>>
            /\ x.type = "float" => x.datum % 2 # 0

RECURSIVE KindsOf(_)
KindsOf(t) == {t.kind} \cup CASE t.kind \in {"array", "map"} -> KindsOf(t.item)
                              [] t.kind = "object" -> UNION {KindsOf(t.fields[k].type) : k \in DOMAIN t.fields}
                              [] OTHER -> {}
KindsIn(params) == UNION {KindsOf(params[k].type) : k \in DOMAIN params}
Coded == {"bytes", "datetime", "duration", "uuid"}

Schema(entries) == C!Obj(entries)
Typed(name) == <<<<"type", Name(name)>>>>
Integers1 == Schema(Typed("integer") \o <<<<"minimum", Whole(1)>>>>)
Bindings ==
    {{}} \cup {{Schema(Typed("object") \o s)} : s \in
        {<<<<"properties", C!Obj(<<<<"x", Integers1>>>>)>>, <<"required", C!Arr(<<Name("x")>>)>>>>,
         <<<<"properties", C!Obj(<<<<"y", Schema(<<<<"enum", C!Arr(<<C!Float(2), Yes>>)>>>>)>>>>)>>,
           <<"additionalProperties", Schema(Typed("array"))>>>>,
         <<<<"maxProperties", Whole(1)>>>>}}

\* The schema a client is served and the check its call meets agree on JSON
\* arguments, except on the kinds that JSON has no values for.  A reviewed
\* schema is applied to the arguments with the defaults injected: the two are
\* compared where none is.
ServedAgrees(params, reviewed, j) ==
    LET served == C!Accepts(C!jschema_input(params, reviewed), j)
        checked == {C!args_validate(params, x) : x \in C!Received(j)}
        accepted == \E r \in checked : r.ok /\ \A s \in reviewed : C!mcp_validate(s, r.x)
    IN /\ Everywhere(IsJson, j) /\ Everywhere(Simple, j) /\ C!DepthOf(j) < JX_DEPTH_MAX
       /\ \A s \in reviewed : C!Visits(s, j) <= VisitsMax /\ \A r \in checked : r.ok => r.x = j
       =>
         /\ accepted => served
         /\ served /\ Everywhere(Usual, j) /\ KindsIn(params) \cap Coded = {} /\ (\A k \in DOMAIN params : \A d \in params[k].dflt : C!clone_node(d))
              => accepted

\* Valid arguments in the grammar's order can be written, and what it derives
\* for a command with a required parameter of unbounded types is valid.
GrammarAgrees(params, x) ==
    LET order == C!CallOrder(params)
        place(name) == CHOOSE k \in DOMAIN order : order[k].name = name
        declared == \A k \in DOMAIN x.datum : \E p \in ToSet(params) : p.name = x.datum[k][1]
        valid == C!args_validate(params, x).ok
        free(p) == p.type.kind \in {"string", "integer", "boolean", "enum"} /\ p.type.lo = {} /\ p.type.hi = {}
    IN /\ valid /\ declared /\ (\A j, k \in DOMAIN x.datum : j < k => place(x.datum[j][1]) < place(x.datum[k][1]))
            => C!emit_cmd_rule(params, x)
       /\ C!emit_cmd_rule(params, x) /\ (\A p \in ToSet(params) : free(p) /\ p.dflt = {}) /\ (\E p \in ToSet(params) : p.required)
            => valid

Numeric == {Schema(Typed(n) \o <<<<key, b>>>>) : n \in {"integer", "number"}, key \in C!Limits, b \in {Whole(1), C!Float(3), C!Float(2)}}
Literals == {Schema(<<<<"enum", C!Arr(s)>>>>) : s \in {<<Whole(1)>>, <<C!Float(2)>>, <<Whole(1), C!Float(2)>>, <<Text(<<"x">>), Yes>>, <<>>}}
           \cup {Schema(<<<<"const", v>>>>) : v \in Few \cup {C!Float(2), C!Arr(<<Whole(1)>>), C!Obj(<<<<"x", C!Float(2)>>>>)}}
Shapes == {Schema(Typed("array") \o <<<<"items", s>>, <<"maxItems", Whole(1)>>>>) : s \in Literals}
          \cup {Schema(Typed("object") \o <<<<"properties", C!Obj(<<<<"x", s>>>>)>>, <<"required", C!Arr(r)>>, <<"additionalProperties", a>>>>) :
                  s \in Literals, r \in {<<>>, <<Name("x")>>, <<Name("x"), Name("x")>>}, a \in {C!V("bool", FALSE), Schema(Typed("integer"))}}
          \cup {Schema(<<<<"additionalProperties", C!V("bool", FALSE)>>, <<"properties", C!Obj(<<<<"x", s>>>>)>>>>) : s \in Literals}
          \cup {Schema(<<<<"properties", C!Obj(<<<<"x", s>>>>)>>, <<"additionalProperties", C!V("bool", FALSE)>>>>) : s \in Literals}
Reviewed == Numeric \cup Literals \cup Shapes \cup {Schema(Typed("string") \o <<<<"minLength", Whole(1)>>>>), Schema(<<<<"pattern", Name("x")>>>>)}

\* A reviewed schema decides what its keywords mean, up to the size of values
\* one validation may visit; two schemas found equal decide alike.
ReviewedExact(s) ==
    C!supported(s, 0) => \A j \in JsonValues :
        /\ Everywhere(Simple, j) /\ C!Visits(s, j) <= VisitsMax => (C!mcp_validate(s, j) <=> C!Accepts(s, j))
        /\ C!mcp_validate(s, j) => C!Accepts(s, j)
EqualAlike(s) ==
    \A t \in Reviewed : /\ C!schema_equal(s, t) <=> C!Same(s, t)
                        /\ C!schema_equal(s, t) => \A j \in JsonValues : C!Accepts(s, j) <=> C!Accepts(t, j)

Tools == {<<"a">>, <<"a", "-", "c", "-", "a">>}
Verbs == {<<"a">>, <<"a", "-", "2">>, <<"a", "-", "c", "-", "a">>}
CommandNames == Upto([tool : Tools, cmd : Verbs], 4)

\* What a client sent is what a foreign server is sent.
ArrivesAs(j, received) == /\ Cardinality(received) = 1
                          /\ \A x \in received : C!arguments(x, 0) = {j}
Strings == {Text(s) : s \in Upto({"x", "n", "\"", "\\", "LF", "ESC"}, 2)}
Sent == Values \cup Strings \cup {C!Arr(<<s, C!Float(2)>>) : s \in Strings} \cup {C!Float(h) : h \in {-2, 0, 12, 13, 11 * C!Exact, 24 * C!Exact}}
        \cup {C!Obj(<<<<k, v>>>>) : k \in {"x", "Bad-Name"}, v \in {C!Float(2), Whole(1), Text(<<"\"">>), C!Arr(<<C!Arr(<<C!Arr(<<C!Null>>)>>)>>)}}

\* What a client is told of a command is what its call is held to: the served
\* schema, the grammar and the reviewed contract agree with the checks.
ContractsAgree ==
    /\ On("command") => \A x \in Arguments : GrammarAgrees(in, x) /\ \A b \in Bindings : ServedAgrees(in, b, x)
    /\ On("schema") => ReviewedExact(in) /\ EqualAlike(in)
    /\ On("value") => /\ \A j \in C!arguments(in, 0) : Everywhere(IsJson, j)
                      /\ Everywhere(IsJson, in) => IF C!DepthOf(in) < JX_DEPTH_MAX THEN ArrivesAs(in, C!Received(in)) ELSE C!Received(in) = {}
    /\ On("names") => LET rules == C!build_rules(in) IN Len(rules) = Len(in) /\ ~C!dup_str(rules)

-----------------------------------------------------------------------------
(* Selection *)

Num(a, b) == <<a, b, 0>>
PreFields == {<<>>, <<0>>, <<2>>, <<1, 0>>, <<0, 1>>, <<10>>, <<10, 2>>, <<2, 10>>, <<-1>>}
Pres == Upto(PreFields, 2)
Versions == [num : {Num(1, 0), Num(0, 10), Num(0, 9)}, pre : Pres, build : {<<>>}]
Release(n) == [num |-> Num(n, 0), pre |-> <<>>, build |-> <<>>]
Beta(n) == [num |-> Num(n, 0), pre |-> <<<<10>>>>, build |-> <<>>]
Built(n) == [num |-> Num(n, 0), pre |-> <<>>, build |-> <<<<1>>>>]
Command(n, terms, cost, ro) ==
    [name |-> n, terms |-> terms, cost |-> cost, read_only |-> ro, destructive |-> ~ro, possible |-> TRUE]
ToolOf(id, v, available, enabled) ==
    [id |-> id, version |-> v, available |-> available, enabled |-> enabled, permitted |-> TRUE, terms |-> {7},
     commands |-> <<>>, size |-> <<id, 2, 3>>]
Entries == {ToolOf(id, v, a, e) : id \in 1..2, v \in {Release(1), Beta(2), Built(1), Release(2)}, a \in BOOLEAN, e \in BOOLEAN}
OneOfEach == {ToolOf(1, v, TRUE, e) : v \in {Release(1), Beta(2)}, e \in BOOLEAN} \cup {ToolOf(2, Release(1), TRUE, TRUE)}
Tables == Upto(Entries, 2) \cup {<<a, b, c>> : a, b, c \in OneOfEach}
Ref(id, v) == [id |-> id, version |-> v]
PinSets == {<<>>, <<Ref(1, {Release(1)})>>, <<Ref(1, {Beta(2)}), Ref(2, {Release(1)})>>, <<Ref(1, {Built(1)}), Ref(1, {Release(1)})>>}
Priorities == {<<>>, <<2>>, <<2, 1, 2>>}

Options == [intent : {<<>>, <<1, 5>>}, allow : {{}, {<<1, 11>>, <<2, 12>>}}, read_only : BOOLEAN, limit : 1..2, budget : {2, 3, 5}]
Menu == {Command(11, {5}, 1, TRUE), Command(12, {}, 2, FALSE), Command(13, {5, 1}, 4, TRUE), Command(14, {}, 1, TRUE)}
Menus == {m \in Upto(Menu, 3) : ~C!dup_str([k \in DOMAIN m |-> m[k].name])}
Offered(menu) == <<[ToolOf(1, Release(1), TRUE, TRUE) EXCEPT !.commands = menu],
                   [ToolOf(2, Release(1), TRUE, TRUE) EXCEPT !.commands = <<Command(12, {5}, 1, TRUE)>>]>>
Sizes == Upto({ToolOf(1, Release(1), TRUE, TRUE), [ToolOf(2, Release(1), TRUE, TRUE) EXCEPT !.size = <<2, 4, 9>>]}, 3)

\* What is listed is what a call reaches, approval finds the same tool, ranked
\* selections and catalogs give their budget to the best.
ListingAgrees ==
    /\ On("version") => \A v \in Versions : S!semver_parse(in) # {} =>
           \A a \in S!semver_parse(in), b \in S!semver_parse(v) : S!PrecedenceExact(a, b)
    /\ On("table") => \A pins \in PinSets :
           /\ \A order \in Priorities : S!ListedIsResolved(in, pins, order)
           /\ \A id \in 1..2, v \in {{}, {Release(1)}, {Beta(2)}} : S!ApprovalFinds(in, pins, Ref(id, v))
    /\ On("menu") => \A o \in Options :
           LET tools == Offered(in) IN S!SelectionFair(S!Candidates(tools, o), o, S!discover(tools, <<>>, <<>>, o))
    /\ On("catalog") => \A level \in 0..2, budget \in {0, 1, 3, 5, 8, 12, 20} : S!CatalogFits(in, level, budget)

-----------------------------------------------------------------------------
(* Conversions *)

\* Bytes on both sides of every limit of UTF-8.
Edges == {127, 128, 143, 144, 159, 160, 191, 193, 194, 223, 224, 237, 239, 240, 244, 245}
Utf8Texts == Upto(Edges, 3) \cup {lead \o s : lead \in {<<224, 160>>, <<240, 143>>, <<240, 144>>, <<244, 143>>, <<244, 144>>},
                                              s \in [1..2 -> Edges]}
PathBytes == {47, 97, 37, 50, 70, 102, 63, 92, 195, 169}
LongPath == {<<47, 226, 130, 172>>, <<47, 240, 159, 146, 169>>, <<47, 226, 130, 97>>, <<47, 237, 160, 128>>, <<47, 97, 97, 97, 97, 97>>,
             FlattenSeq([k \in 1..5 |-> <<37, 50, 70>>]), <<47>> \o FlattenSeq([k \in 1..5 |-> <<37, 50, 70>>]),
             <<47>> \o FlattenSeq([k \in 1..6 |-> <<37, 50, 70>>])}
Streams ==
    LET header(n) == <<"length", ":", " ", n, "CR", "LF">>
        type(v) == <<"type", ":", v, "CR", "LF">>
        blank == <<"CR", "LF">>
        body == <<"x", "LF", "y">>
        tails == {SubSeq(body, 1, k) : k \in 0..3} \cup {<<"x">> \o header("1")}
        heads == {header("1") \o blank, header("2") \o blank, header("0") \o blank, header("x") \o blank,
                  header("1") \o type("vscode") \o blank, type("vscode") \o header("2") \o blank,
                  type("latin") \o header("1") \o blank, header("1") \o header("1") \o blank,
                  <<"length", ":", "2", "2", "CR", "LF">> \o blank, <<"length", ":", "CR", "LF">> \o blank,
                  <<":", "1">> \o blank \o blank, <<"length", "1">> \o blank \o blank, <<"bad">> \o blank,
                  <<"x", "x", "x", "x", "x", "x", "x", "x", "x", "x", "x", "x", "x">>, <<"other", ":">> \o blank \o blank, blank \o blank}
    IN {h \o t : h \in heads, t \in tails}
Data == Upto({0, 255, 77}, 5)
SymbolStrings == Upto({0, 63, 16, 64}, 4) \cup {<<1, 2, 3, 4>> \o s : s \in [1..4 -> {0, 48, 64}]}
Positions == Upto({97, 10, 13, 195, 169}, 4)

\* Texts that may be durations: P80 T84 W87 D68 H72 M77 S83, the point 46.
Dates == {<<>>, <<49, 68>>, <<51, 68>>, <<52, 68>>, <<57, 57, 57, 68>>, <<49, 87>>, <<50, 87>>, <<48, 68>>, <<68>>, <<49>>}
Times == {<<>>, <<49, 72>>, <<51, 72>>, <<50, 77>>, <<55, 77>>, <<48, 77>>, <<53, 83>>, <<48, 46, 53, 83>>, <<49, 53, 46, 53, 83>>,
          <<49, 53, 46, 53, 48, 49, 83>>, <<49, 46, 48, 57, 57, 83>>, <<49, 46, 48, 48, 48, 57, 83>>, <<49, 46, 83>>, <<46, 53, 83>>,
          <<49, 46, 53, 77>>, <<57, 57, 57, 57, 83>>, <<48, 48, 48, 48, 49, 83>>,
          <<48, 48, 48, 48, 48, 49, 83>>, <<49, 53, 53, 48, 48, 83>>, <<57, 57, 57, 57, 57, 83>>, <<83>>, <<49, 87>>, <<49, 68>>}
DurationTexts == {<<80>> \o s : s \in Upto({84, 87, 68, 83, 46, 48, 57}, 4)} \cup Upto({80, 49, 68}, 3)
                 \cup {<<80>> \o d \o t \o a \o b : d \in Dates, t \in {<<>>, <<84>>}, a, b \in Times}

\* What ISO 8601 says of the shapes the code takes: letters in their order, a
\* number before each but P and T, T right behind a letter and before a time.
Letters == {80, 84, 87, 68, 72, 77, 83}
Rank(c) == CHOOSE k \in 1..6 : <<80, 68, 84, 72, 77, 83>>[k] = c
At(s, set) == {k \in DOMAIN s : s[k] \in set}
IsDuration(s) ==
    LET marks == At(s, Letters)
        points == At(s, {46})
        before == {k \in marks : k < Len(s)}
    IN /\ Len(s) > 1 /\ s[1] = 80 /\ ToSet(s) \subseteq Letters \cup {46} \cup 48..57 /\ Last(s) \in Letters \ {80, 84}
       /\ \/ marks = {1, Len(s)} /\ Last(s) = 87
          \/ /\ 87 \notin ToSet(s) /\ \A j, k \in marks : j < k => Rank(s[j]) < Rank(s[k])
             /\ At(s, {72, 77, 83}) # {} => 84 \in ToSet(s)
       /\ \A k \in marks \ {1} : s[k] = 84 <=> s[k - 1] \in Letters
       /\ \A p \in points : /\ points = {p} /\ Last(s) = 83 /\ p > Max(before) + 1
                            /\ p + 1 < Len(s) /\ Len(s) <= p + 4
\* Each digit counts by its place.
Power(n) == <<1, 10, 100, 1000, 10000>>[n + 1]
Unit(c) == CASE c = 87 -> Week [] c = 68 -> Day [] c = 72 -> Hour [] c = 77 -> Minute [] c = 83 -> 1000
Following(s, j, set) == Min({k \in At(s, set) : k > j})
Decimal(s, j) == \E p \in At(s, {46}) : p < j
Worth(s, j) ==
    IF Decimal(s, j) THEN (s[j] - 48) * Power(3 - (j - Min(At(s, {46}))))
    ELSE (s[j] - 48) * Power(Following(s, j, Letters \cup {46}) - j - 1) * Unit(s[Following(s, j, Letters)])
DurationMeans(s) ==
    LET digits == At(s, 48..57)
        short == \A j \in digits : Decimal(s, j) \/ Following(s, j, Letters \cup {46}) - j <= DigitsMax
        total == MapThenSumSet(LAMBDA j : Worth(s, j), digits)
    IN K!duration_parse_ms(s) = IF IsDuration(s) /\ short THEN {n \in {total} : n <= Int64Max} ELSE {}

\* Whatever fails, a page that is told is of the file, and only a failing
\* probe hides that more follows.
ReadsTrue(data, max) ==
    \A fails \in {"", "no path", "open", "fstat", "directory", "lseek", "read", "probe"}, offset \in -1..2, enc \in {"utf8", "base64", "hex"} :
        LET r == K!cmd_read([data |-> data, fails |-> fails], offset, max, enc)
            rest == SubSeq(data, offset + 1, Len(data))
        IN r.code = "ok" =>
             /\ \E page \in (IF enc = "base64" THEN K!base64_decode(r.content) ELSE {r.content}) : IsPrefix(page, rest)
             /\ r.truncated => Len(rest) > max
             /\ ~r.truncated /\ fails # "probe" /\ enc = "base64" => K!base64_decode(r.content) = {rest}

\* Conversions are exact and total: nothing is lost on the way there and back,
\* no verdict depends on how bytes were cut, no sum overflows.
CodecsExact ==
    /\ On("utf8") => K!Utf8Exact(in)
    /\ On("uri") => K!UriExact(in)
    /\ On("position") => \A line \in 0..3, col \in 0..4 : K!PositionExact(in, line, col)
    /\ On("stream") => \A cap \in {1, 2, 30} : K!FrameStable(in, cap)
    /\ On("data") => K!Base64Exact(in, <<>>) /\ \A max \in 1..4 : K!PagesExact(in, max) /\ ReadsTrue(in, max)
    /\ On("symbols") => K!Base64Exact(<<>>, in)
    /\ On("duration") => K!DurationExact(in) /\ DurationMeans(in)

-----------------------------------------------------------------------------
Take == ~taken /\ taken' = TRUE /\ UNCHANGED <<topic, in>>
Init == /\ taken = FALSE
        /\ \/ topic = "regex" /\ in \in RegexPatterns
           \/ topic = "refused" /\ in \in RefusedPatterns
           \/ topic = "tree" /\ in \in Trees
           \/ topic = "glob" /\ in \in GlobPatterns
           \/ topic = "file" /\ in \in Files
           \/ topic = "line" /\ in \in Upto({"a", "b"}, 4)
           \/ topic = "patch" /\ in \in Docs
           \/ topic = "bound" /\ in \in {b \in -80..80 : C!IsFloat(b)}
           \/ topic = "type" /\ in \in TypeDocs
           \/ topic = "command" /\ in \in Commands
           \/ topic = "schema" /\ in \in Reviewed
           \/ topic = "value" /\ in \in Sent
           \/ topic = "names" /\ in \in CommandNames
           \/ topic = "version" /\ in \in Versions
           \/ topic = "table" /\ in \in Tables
           \/ topic = "menu" /\ in \in Menus
           \/ topic = "catalog" /\ in \in Sizes
           \/ topic = "utf8" /\ in \in Utf8Texts
           \/ topic = "uri" /\ in \in Upto(PathBytes, 4) \cup {<<47, 97>> \o s : s \in [1..3 -> PathBytes]} \cup LongPath
           \/ topic = "position" /\ in \in Positions
           \/ topic = "stream" /\ in \in Streams
           \/ topic = "data" /\ in \in Data
           \/ topic = "symbols" /\ in \in SymbolStrings
           \/ topic = "duration" /\ in \in DurationTexts
Next == Take \/ (taken /\ UNCHANGED vars)
Spec == Init /\ [][Next]_vars
=============================================================================
