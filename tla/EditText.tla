------------------------------ MODULE EditText ------------------------------
(***************************************************************************)
(* What the edit tool computes (std/tool_edit.c): line endings, literal    *)
(* and regular-expression replacement, insertion of lines, hunks of a      *)
(* unified diff.  A text is a sequence of characters; LF and CR stand for  *)
(* the line ending characters.                                             *)
(***************************************************************************)
EXTENDS Matchers

-----------------------------------------------------------------------------
(* Line endings *)

IsCrlf(raw, k) == raw[k] = CR /\ k < Len(raw) /\ raw[k + 1] = LF
CountCrlf(raw) == Cardinality({k \in DOMAIN raw : IsCrlf(raw, k)})
CountLf(raw) == Cardinality({k \in DOMAIN raw : raw[k] = LF}) - CountCrlf(raw)

normalize_lf(raw) ==
    FlattenSeq([k \in DOMAIN raw |-> IF IsCrlf(raw, k) THEN <<>> ELSE <<raw[k]>>])
crlf(raw) == CountCrlf(raw) > CountLf(raw)

denorm(s, dos) ==
    FlattenSeq([k \in DOMAIN s |-> IF dos /\ s[k] = LF THEN <<CR, LF>> ELSE <<s[k]>>])

-----------------------------------------------------------------------------
(* Lines: the segments before each LF, and an unterminated last one *)

EndsLf(s) == s # <<>> /\ Last(s) = LF

split_spans(s) ==
    LET cut == FoldLeft(LAMBDA acc, c : IF c = LF THEN <<Append(acc[1], acc[2]), <<>>>>
                                        ELSE <<acc[1], Append(acc[2], c)>>,
                        <<<<>>, <<>>>>, s)
    IN IF cut[2] = <<>> THEN cut[1] ELSE Append(cut[1], cut[2])

JoinLines(lines, final) ==
    FlattenSeq([k \in DOMAIN lines |->
                  IF k < Len(lines) \/ final THEN Append(lines[k], LF) ELSE lines[k]])

-----------------------------------------------------------------------------
(* edit.replace *)

OccursAt(h, pat, k) == k + Len(pat) - 1 <= Len(h) /\ SubSeq(h, k, k + Len(pat) - 1) = pat

RECURSIVE CountFrom(_, _, _), ReplaceFrom(_, _, _, _)
CountFrom(h, pat, k) ==
    IF k + Len(pat) - 1 > Len(h) THEN 0
    ELSE IF OccursAt(h, pat, k) THEN 1 + CountFrom(h, pat, k + Len(pat)) ELSE CountFrom(h, pat, k + 1)
ReplaceFrom(h, pat, rep, k) ==
    IF k > Len(h) THEN <<>>
    ELSE IF OccursAt(h, pat, k) THEN rep \o ReplaceFrom(h, pat, rep, k + Len(pat))
    ELSE <<h[k]>> \o ReplaceFrom(h, pat, rep, k + 1)

count_literal(h, pat) == CountFrom(h, pat, 1)
replace_literal(h, pat, rep) == ReplaceFrom(h, pat, rep, 1)

\* One line under the sed rule: an empty match right after a match is skipped.
\* off and prev are offsets; prev = -1: no match yet.
RECURSIVE CountLine(_, _, _, _), ReplaceLine(_, _, _, _, _)
CountLine(prog, s, off, prev) ==
    LET m == astd_regex_search(prog, From(s, off + 1))
        as == off + m[1]
        ae == off + m[2]
    IN IF off > Len(s) \/ m = NoMatch THEN 0
       ELSE IF as = ae /\ as = prev THEN CountLine(prog, s, as + 1, prev)
       ELSE 1 + CountLine(prog, s, IF ae > as THEN ae ELSE as + 1, ae)

ReplaceLine(prog, s, rep, off, prev) ==
    LET m == astd_regex_search(prog, From(s, off + 1))
        as == off + m[1]
        ae == off + m[2]
        kept == IF as < Len(s) THEN <<s[as + 1]>> ELSE <<>>
    IN IF off > Len(s) THEN <<>>
       ELSE IF m = NoMatch THEN From(s, off + 1)
       ELSE SubSeq(s, off + 1, as)
            \o (IF as = ae /\ as = prev THEN kept \o ReplaceLine(prog, s, rep, as + 1, prev)
                ELSE IF ae > as THEN rep \o ReplaceLine(prog, s, rep, ae, ae)
                ELSE rep \o kept \o ReplaceLine(prog, s, rep, as + 1, ae))

re_count_line(prog, s) == CountLine(prog, s, 0, -1)
re_replace_line(prog, s, rep) == ReplaceLine(prog, s, rep, 0, -1)

\* The outcome of a replacement: a code, or the new text.
Fails(code) == [code |-> code, text |-> <<>>]
Gives(text) == [code |-> "ok", text |-> text]
cmd_replace(raw, pat, rep, all) ==
    LET norm == normalize_lf(raw)
        total == count_literal(norm, pat)
    IN CASE ~all /\ total = 0 -> Fails("edit/not-found")
         [] ~all /\ total > 1 -> Fails("edit/ambiguous")
         [] all /\ total = 0 -> Gives(raw)
         [] OTHER -> Gives(denorm(replace_literal(norm, pat, rep), crlf(raw)))

-----------------------------------------------------------------------------
(* edit.insert *)

cmd_insert(raw, content, line) ==
    LET norm == normalize_lf(raw)
        cnorm == normalize_lf(content)
        ls == split_spans(norm)
        n == IF line > Len(ls) THEN Len(ls) ELSE line
        trailing == IF norm # <<>> THEN EndsLf(norm) ELSE EndsLf(cnorm)
    IN denorm(JoinLines(SubSeq(ls, 1, n) \o split_spans(cnorm) \o From(ls, n + 1), trailing),
              crlf(raw))

-----------------------------------------------------------------------------
(* edit.patch: a hunk is [a, body], a the declared line, body a sequence of *)
(* [kind, text]; "no-nl" is the marker "\ No newline at end of file"        *)

OldSide(h) == LET old == SelectSeq(h.body, LAMBDA l : l.kind \in {" ", "-"})
              IN [k \in DOMAIN old |-> old[k].text]
NewSide(h) == LET new == SelectSeq(h.body, LAMBDA l : l.kind \in {" ", "+"})
              IN [k \in DOMAIN new |-> new[k].text]

hunk_matches_at(lines, h, start) ==
    /\ start + Len(OldSide(h)) <= Len(lines)
    /\ SubSeq(lines, start + 1, start + Len(OldSide(h))) = OldSide(h)

\* Where the hunk goes (an offset), -1: nowhere, -2: more than one place.
Nearest(lines, h, old_idx, declared) ==
    LET at == {k \in old_idx..Len(lines) : hunk_matches_at(lines, h, k)}
    IN IF at = {} THEN -1 ELSE Min(at)
relocate_hunk(lines, h, old_idx, declared) ==
    LET at == {k \in old_idx..Len(lines) : hunk_matches_at(lines, h, k)}
    IN CASE declared >= old_idx /\ hunk_matches_at(lines, h, declared) -> declared
         [] OldSide(h) = <<>> -> -1
         [] Cardinality(at) = 1 -> Min(at)
         [] at = {} -> -1
         [] OTHER -> -2

\* One hunk after the other; the state is the lines consumed and the new file.
Step(lines, st, h) ==
    LET declared == IF OldSide(h) = <<>> THEN h.a ELSE h.a - 1
        start == relocate_hunk(lines, h, st.old, declared)
    IN IF ~st.ok \/ (OldSide(h) # <<>> /\ h.a < 1) \/ start < 0 THEN [st EXCEPT !.ok = FALSE]
       ELSE [ok |-> TRUE, old |-> start + Len(OldSide(h)),
             new |-> st.new \o SubSeq(lines, st.old + 1, start) \o NewSide(h),
             nonl |-> st.nonl \/ \E k \in 2..Len(h.body) :
                         h.body[k].kind = "no-nl" /\ h.body[k - 1].kind # "-"]

apply_section(cur, hunks) ==
    LET lines == split_spans(cur)
        st == FoldLeft(LAMBDA acc, h : Step(lines, acc, h),
                       [ok |-> TRUE, old |-> 0, new |-> <<>>, nonl |-> FALSE], hunks)
        tail == From(lines, st.old + 1)
        final == IF tail # <<>> THEN EndsLf(cur) ELSE ~st.nonl
    IN IF st.ok THEN Gives(JoinLines(st.new \o tail, final)) ELSE Fails("edit/patch-failed")
=============================================================================
