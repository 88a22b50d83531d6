----------------------------- MODULE Selection ------------------------------
(***************************************************************************)
(* Which tools and commands a client is shown and which one its call       *)
(* reaches: SemVer precedence (semver.c), the resolution of refs           *)
(* (registry.c, and api.c for approval), the listing order (selection.c),  *)
(* ranked discovery under a budget (discovery.c) and the catalog's levels  *)
(* (catalog.c).  Ids are numbers (their strcmp order); a text is replaced  *)
(* by its size or by the terms it contains.                                *)
(***************************************************************************)
EXTENDS Integers, Sequences, SequencesExt, FiniteSets, FiniteSetsExt

-----------------------------------------------------------------------------
(* Versions: [num, pre, build]; pre and build are sequences of fields, a   *)
(* field a sequence of characters (digits are 0..9, letters above, - is    *)
(* -1).  <<>> : none.                                                      *)

IsDigit(c) == c \in 0..9
sv_field_numeric(f) == f # <<>> /\ \A k \in DOMAIN f : IsDigit(f[k])
sv_idents(fields, strict) ==
    \A k \in DOMAIN fields :
        fields[k] # <<>> /\ ~(strict /\ sv_field_numeric(fields[k]) /\ Len(fields[k]) > 1 /\ fields[k][1] = 0)
\* Build metadata is accepted and then discarded.
semver_parse(text) ==
    IF sv_idents(text.pre, TRUE) /\ sv_idents(text.build, FALSE)
    THEN {[num |-> text.num, pre |-> text.pre]} ELSE {}

Sign(n) == IF n < 0 THEN -1 ELSE IF n > 0 THEN 1 ELSE 0
\* The first difference of two sequences of equal length.
memcmp(f, g) ==
    LET diff == {k \in DOMAIN f : f[k] # g[k]}
    IN IF diff = {} THEN 0 ELSE Sign(f[Min(diff)] - g[Min(diff)])
Shorter(f, g) == IF Len(f) < Len(g) THEN Len(f) ELSE Len(g)
CmpField(f, g) ==
    LET n == Shorter(f, g)
        r == memcmp(SubSeq(f, 1, n), SubSeq(g, 1, n))
    IN CASE sv_field_numeric(f) # sv_field_numeric(g) -> IF sv_field_numeric(f) THEN -1 ELSE 1
         [] sv_field_numeric(f) /\ sv_field_numeric(g) ->
              IF Len(f) # Len(g) THEN Sign(Len(f) - Len(g)) ELSE memcmp(f, g)
         [] OTHER -> IF r # 0 THEN r ELSE Sign(Len(f) - Len(g))
semver_cmp(a, b) ==
    LET n == Shorter(a.pre, b.pre)
        diff == {k \in 1..n : CmpField(a.pre[k], b.pre[k]) # 0}
    IN CASE a.num # b.num -> memcmp(a.num, b.num)
         [] a.num = b.num /\ (a.pre = <<>>) # (b.pre = <<>>) -> IF a.pre = <<>> THEN 1 ELSE -1
         [] OTHER -> IF diff # {} THEN CmpField(a.pre[Min(diff)], b.pre[Min(diff)])
                     ELSE Sign(Len(a.pre) - Len(b.pre))

\* The order of the SemVer specification (the reference).
Value(f) ==
    LET upto[k \in 0..Len(f)] == IF k = 0 THEN 0 ELSE 10 * upto[k - 1] + f[k]
    IN upto[Len(f)]
Lexically(f, g, Before(_, _)) ==
    \/ IsStrictPrefix(f, g)
    \/ \E k \in 1..Shorter(f, g) : Before(f[k], g[k]) /\ SubSeq(f, 1, k - 1) = SubSeq(g, 1, k - 1)
FieldBefore(f, g) ==
    CASE sv_field_numeric(f) /\ sv_field_numeric(g) -> Value(f) < Value(g)
      [] sv_field_numeric(f) # sv_field_numeric(g) -> sv_field_numeric(f)
      [] OTHER -> Lexically(f, g, <)
Precedes(a, b) ==
    \/ Lexically(a.num, b.num, <)
    \/ a.num = b.num /\ a.pre # <<>> /\ (b.pre = <<>> \/ Lexically(a.pre, b.pre, FieldBefore))

-----------------------------------------------------------------------------
(* Resolution.  A tool is [id, version, available, enabled, ...]; a ref    *)
(* [id, version], version a set of at most one text; pins are such refs.   *)

Ver(t) == CHOOSE v \in semver_parse(t.version) : TRUE
Same(v, t) == semver_cmp(v, Ver(t)) = 0
PinOf(pins, id) ==
    LET own == SelectSeq(pins, LAMBDA p : p.id = id /\ p.version # {})
    IN IF own = <<>> THEN {} ELSE own[1].version

tool_better(cand, cur) ==
    LET rel(t) == Ver(t).pre = <<>>
    IN IF rel(cand) # rel(cur) THEN rel(cand) ELSE semver_cmp(Ver(cand), Ver(cur)) > 0
\* The first of the best ones, as a set.
Best(tools) ==
    FoldLeft(LAMBDA hit, t : IF \A h \in hit : tool_better(t, h) THEN {t} ELSE hit, {}, tools)

registry_resolve(table, pins, ref) ==
    LET want == IF ref.version # {} THEN ref.version ELSE PinOf(pins, ref.id)
        versions == UNION {semver_parse(w) : w \in want}
        match == SelectSeq(table, LAMBDA t : t.id = ref.id /\ \A v \in versions : Same(v, t))
        hit == Best(SelectSeq(match, LAMBDA t : t.available /\ t.enabled))
        blocked == Best(SelectSeq(match, LAMBDA t : t.available /\ ~t.enabled))
    IN CASE want # {} /\ versions = {} -> [code |-> "not_found", tool |-> {}]
         [] hit # {} -> [code |-> "ok", tool |-> hit]
         [] hit = {} /\ blocked # {} -> [code |-> "denied", tool |-> {}]
         [] OTHER -> [code |-> "not_found", tool |-> {}]

\* Approval finds disabled tools too, and compares the texts of versions.
find_tool_admin(table, pins, ref) ==
    LET want == IF ref.version # {} THEN ref.version ELSE PinOf(pins, ref.id)
        own == SelectSeq(table, LAMBDA t : t.id = ref.id)
        exact == SelectSeq(own, LAMBDA t : t.version \in want)
        pre(t) == Ver(t).pre # <<>>
        better(t, b) == (pre(b) /\ ~pre(t)) \/ (pre(b) = pre(t) /\ semver_cmp(Ver(t), Ver(b)) > 0)
    IN IF want # {} THEN (IF exact = <<>> THEN {} ELSE {exact[1]})
       ELSE FoldLeft(LAMBDA best, t : IF \A b \in best : better(t, b) THEN {t} ELSE best, {}, own)

-----------------------------------------------------------------------------
(* Listing                                                                 *)

tool_listed(t) == t.available /\ t.enabled
matches_pin(pins, t) ==
    PinOf(pins, t.id) = {} \/ \E w \in PinOf(pins, t.id) : \E v \in semver_parse(w) : Same(v, t)

\* Fault: the higher version wins, release or not.
HigherWins(cand, cur) == semver_cmp(Ver(cand), Ver(cur)) > 0
version_better(cand, cur) ==
    LET rel(t) == Ver(t).pre = <<>>
    IN IF rel(cand) # rel(cur) THEN rel(cand) ELSE semver_cmp(Ver(cand), Ver(cur)) > 0

\* One tool per id; those of the priority list first, the others by id.
collect_tools(table, pins, priority) ==
    LET Put(sel, t) ==
            LET at == {j \in DOMAIN sel : sel[j].id = t.id}
            IN IF at = {} THEN Append(sel, t)
               ELSE IF version_better(t, sel[Min(at)]) THEN [sel EXCEPT ![Min(at)] = t] ELSE sel
        sel == FoldLeft(Put, <<>>, SelectSeq(table, LAMBDA t : tool_listed(t) /\ matches_pin(pins, t)))
        Take(ordered, id) ==
            IF \E k \in DOMAIN ordered : ordered[k].id = id THEN ordered
            ELSE ordered \o SelectSeq(sel, LAMBDA t : t.id = id)
        first == FoldLeft(Take, <<>>, priority)
    IN first \o SortSeq(SelectSeq(sel, LAMBDA t : t \notin ToSet(first)), LAMBDA a, b : a.id < b.id)

-----------------------------------------------------------------------------
(* Discovery.  A command is [name, terms, cost, read_only, destructive,    *)
(* possible]; options are [intent, allow, read_only, limit, budget].       *)

CONSTANT SelectionMax      \* commands ranked and selected (64)

Hits(term, terms) == IF term \in terms THEN 1 ELSE 0
score(intent, t, c) ==
    FoldLeft(LAMBDA n, w : n + 12 * Hits(w, {t.id, c.name}) + 3 * Hits(w, c.terms) + Hits(w, t.terms),
             0, intent)
allowed(o, t, c) == o.allow = {} \/ <<t.id, c.name>> \in o.allow

\* Every command that may be shown, in listing order.
Candidates(tools, o) ==
    FlattenSeq([k \in DOMAIN tools |->
        LET t == tools[k]
            shown == SelectSeq(t.commands, LAMBDA c :
                        /\ t.permitted /\ c.possible /\ allowed(o, t, c)
                        /\ o.read_only => c.read_only /\ ~c.destructive)
        IN [j \in DOMAIN shown |-> [tool |-> t.id, command |-> shown[j].name, cost |-> shown[j].cost,
                                    score |-> score(o.intent, t, shown[j])]]])

\* Fault: a candidate goes before the others of its score.
BeforeEquals(best, c) ==
    LET k == Cardinality({j \in DOMAIN best : best[j].score > c.score}) IN InsertAt(best, k + 1, c)
Insert(best, c) ==
    LET k == Cardinality({j \in DOMAIN best : best[j].score >= c.score}) IN InsertAt(best, k + 1, c)
Rank(best, c, budget) ==
    IF \/ Len(best) = SelectionMax /\ c.score <= Last(best).score
       \/ c.cost > budget
    THEN best
    ELSE SubSeq(Insert(best, c), 1, IF Len(best) = SelectionMax THEN SelectionMax ELSE Len(best) + 1)

materialize(best, limit, budget) ==
    LET Add(acc, c) == IF Len(acc.views) >= limit \/ c.cost > acc.left THEN acc
                       ELSE [views |-> Append(acc.views, c), left |-> acc.left - c.cost]
    IN FoldLeft(Add, [views |-> <<>>, left |-> budget], best).views

discover(table, pins, priority, o) ==
    LET cands == Candidates(collect_tools(table, pins, priority), o)
        best == FoldLeft(LAMBDA b, c : Rank(b, c, o.budget), <<>>, cands)
        views == materialize(best, o.limit, o.budget)
    IN [views |-> views, omitted |-> Len(cands) - Len(views)]

-----------------------------------------------------------------------------
(* The catalog: tool t takes t.size[level + 1] at level 0 (index) to 2     *)
(* (full), after a header.                                                 *)

CONSTANT HeaderSize
CatalogSize(tools, keep, level) == FoldLeft(LAMBDA n, t : n + t.size[level + 1], HeaderSize, SubSeq(tools, 1, keep))
\* The forms the loop tries: all tools at ever lower levels, then ever fewer
\* tools at the lowest, down to the bare header.
Form(n, level, k) ==
    IF k <= level THEN [keep |-> n, level |-> level - k] ELSE [keep |-> n + level - k, level |-> 0]
\* The first that fits, or the last.
catalog_render(tools, level, budget) ==
    LET n == Len(tools)
        fit == {k \in 0..(level + n) : LET r == Form(n, level, k)
                                      IN budget = 0 \/ CatalogSize(tools, r.keep, r.level) <= budget}
    IN Form(n, level, IF fit = {} THEN level + n ELSE Min(fit))

-----------------------------------------------------------------------------
(* What the results promise                                                *)

\* Precedence is SemVer's, however fields are cut and compared as text.
PrecedenceExact(a, b) ==
    /\ (semver_cmp(a, b) < 0) <=> Precedes(a, b)
    /\ (semver_cmp(a, b) = 0) <=> (a = b)

\* A listed tool is the one a call by its bare id reaches, every id that can be
\* called is listed, once; a disabled version hides nothing.
ListedIsResolved(table, pins, priority) ==
    LET listed == collect_tools(table, pins, priority)
        Rating(id) == IF id \in ToSet(priority) THEN Min({p \in DOMAIN priority : priority[p] = id})
                      ELSE Len(priority) + id
        reached == UNION {registry_resolve(table, pins, [id |-> t.id, version |-> {}]).tool : t \in ToSet(table)}
    IN /\ ToSet(listed) = reached /\ Len(listed) = Cardinality(reached)
       /\ \A j, k \in DOMAIN listed : j < k => Rating(listed[j].id) < Rating(listed[k].id)

\* Approval finds what resolution would reach with every gate open, for refs
\* without build metadata.
ApprovalFinds(table, pins, ref) ==
    LET open == [k \in DOMAIN table |-> [table[k] EXCEPT !.available = TRUE, !.enabled = TRUE]]
        plain == \A p \in ToSet(pins) \cup {ref} : \A w \in p.version : w.build = <<>> /\ semver_parse(w) # {}
    IN plain /\ (\A t \in ToSet(table) : t.version.build = <<>>) =>
         {<<t.id, t.version>> : t \in find_tool_admin(table, pins, ref)}
            = {<<t.id, t.version>> : t \in registry_resolve(open, pins, ref).tool}

\* A selection is ranked, ties in listing order, within limit and budget, and
\* leaves out an affordable command only when the better ones left no room.
SelectionFair(cands, o, r) ==
    LET at(c) == CHOOSE k \in DOMAIN cands : cands[k] = c
        ahead(j, k) == \/ cands[j].score > cands[k].score
                       \/ cands[j].score = cands[k].score /\ j < k
        chosen == {at(c) : c \in ToSet(r.views)}
        Cost(s) == MapThenSumSet(LAMBDA k : cands[k].cost, s)
        affordable == {k \in DOMAIN cands : cands[k].cost <= o.budget}
    IN /\ \A j, k \in DOMAIN r.views : j < k => ahead(at(r.views[j]), at(r.views[k]))
       /\ Len(r.views) <= o.limit /\ Cost(chosen) <= o.budget
       /\ \A k \in affordable \ chosen :
            LET before == {j \in chosen : ahead(j, k)}
            IN \/ Cardinality({j \in affordable : ahead(j, k)}) >= SelectionMax
               \/ Cardinality(before) = o.limit
               \/ Cost(before) + cands[k].cost > o.budget
       /\ r.omitted = Len(cands) - Cardinality(chosen)

\* The catalog fits its budget or is the bare header, and no tool is dropped
\* while a shorter form of all of them, nor more tools, would have fitted.
CatalogFits(tools, level, budget) ==
    LET r == catalog_render(tools, level, budget)
        Fits(keep, l) == budget = 0 \/ CatalogSize(tools, keep, l) <= budget
    IN /\ Fits(r.keep, r.level) \/ (r.keep = 0 /\ r.level = 0)
       /\ r.keep < Len(tools) => /\ ~Fits(r.keep + 1, 0)
                                 /\ \A l \in 0..level : ~Fits(Len(tools), l)
       /\ \A l \in r.level + 1..level : ~Fits(Len(tools), l)
=============================================================================
