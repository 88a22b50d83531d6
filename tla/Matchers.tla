------------------------------ MODULE Matchers ------------------------------
(***************************************************************************)
(* The matchers of the standard tools: the regular expressions of          *)
(* std/regex.c (a parse tree compiled to a Thompson NFA and simulated with *)
(* one thread per state) and the globs of std/sdk.c.  A text or pattern is *)
(* a sequence of one-character strings.  Case folding and the caps on the  *)
(* size, the nesting and the counts of a pattern are left out.             *)
(***************************************************************************)
EXTENDS Integers, Sequences, SequencesExt, FiniteSets, FiniteSetsExt

-----------------------------------------------------------------------------
(* Characters, in the order of their bytes *)

LF == "LF"
CR == "CR"
Ascii == <<"TAB", LF, CR, " ", "!", "#", "$", "&", "(", ")", "*", "+", ",", "-", ".", "/",
           "0", "1", "2", "3", "4", "5", "6", "7", "8", "9", ":", ";", "=", "?",
           "A", "B", "C", "D", "E", "F", "G", "H", "I", "J", "K", "L", "M", "N", "O", "P", "Q", "R", "S", "T", "U", "V", "W", "X", "Y", "Z",
           "[", "\\", "]", "^", "_",
           "a", "b", "c", "d", "e", "f", "g", "h", "i", "j", "k", "l", "m", "n", "o", "p", "q", "r", "s", "t", "u", "v", "w", "x", "y", "z",
           "{", "|", "}">>
Code == [c \in Range(Ascii) |-> CHOOSE k \in DOMAIN Ascii : Ascii[k] = c]
Between(lo, hi) == {Ascii[k] : k \in Code[lo]..Code[hi]}
Digits == Between("0", "9")
Alnum == Digits \cup Between("A", "Z") \cup Between("a", "z")

-----------------------------------------------------------------------------
(* Parse trees and the parser *)

CHAR(c) == [kind |-> "char", ch |-> c]
CLASS(set, neg) == [kind |-> "class", set |-> set, neg |-> neg]
Leaf(kind) == [kind |-> kind]                    \* empty, any, bol, eol
CAT(a, b) == [kind |-> "cat", a |-> a, b |-> b]  \* b chains further CATs
ALT(a, b) == [kind |-> "alt", a |-> a, b |-> b]
REP(a, m, n) == [kind |-> "rep", a |-> a, m |-> m, n |-> n]   \* n = -1: unbounded

\* A parser returns the tree and the rest of the pattern, or the tree Bad.
Bad == Leaf("bad")
At(p) == IF p = <<>> THEN "end" ELSE p[1]
From(p, k) == SubSeq(p, k, Len(p))
Parsed(nd, rest) == [nd |-> nd, rest |-> rest]

\* The members of a class from index k on, up to its ']'; one that comes first
\* is a member.  at = 0: no class.
NoClass == [set |-> {}, at |-> 0]
With(set, more) == IF more.at = 0 THEN more ELSE [more EXCEPT !.set = @ \cup set]
RECURSIVE Members(_, _, _)
Members(p, k, first) ==
    LET next == IF k < Len(p) THEN p[k + 1] ELSE "end"
        ranged == next = "-" /\ k + 2 <= Len(p) /\ p[k + 2] # "]"
    IN IF k > Len(p) THEN NoClass
       ELSE IF p[k] = "]" /\ ~first THEN [set |-> {}, at |-> k + 1]
       ELSE IF (p[k] = "[" /\ next = ":") \/ (ranged /\ Code[p[k]] > Code[p[k + 2]]) THEN NoClass
       ELSE IF ranged THEN With(Between(p[k], p[k + 2]), Members(p, k + 3, FALSE))
       ELSE With({p[k]}, Members(p, k + 1, FALSE))
parse_class(p) ==
    LET neg == Len(p) > 1 /\ p[2] = "^"
        m == Members(p, IF neg THEN 3 ELSE 2, TRUE)
    IN IF m.at = 0 THEN Parsed(Bad, p) ELSE Parsed(CLASS(m.set, neg), From(p, m.at))

RECURSIVE parse_alt(_), parse_concat(_), Quantified(_, _)

\* '(' was read, and g is what parse_alt made of the rest.
Grouped(p, g) ==
    IF g.nd = Bad \/ At(g.rest) # ")" THEN Parsed(Bad, p) ELSE Parsed(g.nd, Tail(g.rest))

\* A letter or a digit is no escape, but for three control characters.
Controls == [n |-> LF, t |-> "TAB", r |-> CR]
Escaped(p) ==
    IF Len(p) = 1 \/ p[2] \in Alnum \ DOMAIN Controls THEN Parsed(Bad, p)
    ELSE Parsed(CHAR(IF p[2] \in DOMAIN Controls THEN Controls[p[2]] ELSE p[2]), From(p, 3))

parse_atom(p) ==
    CASE At(p) = "(" -> Grouped(p, parse_alt(Tail(p)))
      [] At(p) = "." -> Parsed(Leaf("any"), Tail(p))
      [] At(p) = "^" -> Parsed(Leaf("bol"), Tail(p))
      [] At(p) = "$" -> Parsed(Leaf("eol"), Tail(p))
      [] At(p) = "[" -> parse_class(p)
      [] At(p) \in {"*", "+", "?", "{"} -> Parsed(Bad, p)
      [] At(p) = "\\" -> Escaped(p)
      [] OTHER -> Parsed(CHAR(At(p)), Tail(p))

\* The number at index k and the index behind it; n = -1: none.
parse_uint(p, k) ==
    LET end == Min({j \in k..Len(p) + 1 : j > Len(p) \/ p[j] \notin Digits})
        n[j \in k - 1..end - 1] == IF j < k THEN 0 ELSE 10 * n[j - 1] + Code[p[j]] - Code["0"]
    IN [n |-> IF end = k THEN -1 ELSE n[end - 1], at |-> end]
\* The bounds a pattern's first quantifier sets and the index behind it; m = -1: malformed.
Malformed == [m |-> -1, n |-> 0, at |-> 1]
Braces(p) ==
    LET low == parse_uint(p, 2)
        high == parse_uint(p, low.at + 1)
        Closes(k) == k <= Len(p) /\ p[k] = "}"
    IN IF low.n < 0 \/ low.at > Len(p) THEN Malformed
       ELSE IF Closes(low.at) THEN [m |-> low.n, n |-> low.n, at |-> low.at + 1]
       ELSE IF p[low.at] = "," /\ Closes(low.at + 1) THEN [m |-> low.n, n |-> -1, at |-> low.at + 2]
       ELSE IF p[low.at] = "," /\ Closes(high.at) /\ high.n >= low.n THEN [m |-> low.n, n |-> high.n, at |-> high.at + 1]
       ELSE Malformed
Bounds(p) ==
    CASE p[1] = "*" -> [m |-> 0, n |-> -1, at |-> 2]
      [] p[1] = "+" -> [m |-> 1, n |-> -1, at |-> 2]
      [] p[1] = "?" -> [m |-> 0, n |-> 1, at |-> 2]
      [] OTHER -> Braces(p)
\* Quantifiers stack.
Quantified(a, p) ==
    IF a = Bad \/ At(p) \notin {"*", "+", "?", "{"} THEN Parsed(a, p)
    ELSE LET b == Bounds(p)
         IN IF b.m < 0 THEN Parsed(Bad, p) ELSE Quantified(REP(a, b.m, b.n), From(p, b.at))

Repeated(a) == Quantified(a.nd, a.rest)
parse_piece(p) == Repeated(parse_atom(p))

\* A piece and, unless it is bad, what follows it.
Chained(h, t) == IF t.nd = Bad THEN t ELSE Parsed(CAT(h.nd, t.nd), t.rest)
Continued(h) == IF h.nd = Bad THEN h ELSE Chained(h, parse_concat(h.rest))
parse_concat(p) ==
    IF At(p) \in {"end", "|", ")"} THEN Parsed(Leaf("empty"), p) ELSE Continued(parse_piece(p))

\* A branch and, after a '|', the others.
Either(br, more) == IF more.nd = Bad THEN more ELSE Parsed(ALT(br.nd, more.nd), more.rest)
Branched(br) ==
    IF br.nd = Bad \/ At(br.rest) # "|" THEN br ELSE Either(br, parse_alt(Tail(br.rest)))
parse_alt(p) == Branched(parse_concat(p))

-----------------------------------------------------------------------------
(* Code: instruction k of the program has index k; targets are indices *)

Inst(op) == [op |-> op]
SPLIT(x, y) == [op |-> "split", x |-> x, y |-> y]
JMP(x) == [op |-> "jmp", x |-> x]

RECURSIVE emit_node(_, _), Copies(_, _, _), Optional(_, _, _, _)

\* Code for nd that starts at index l.
emit_node(nd, l) ==
    CASE nd.kind = "empty" -> <<>>
      [] nd.kind \in {"char", "class", "any", "bol", "eol"} -> <<[op |-> nd.kind, nd |-> nd]>>
      [] nd.kind = "cat" ->
           LET a == emit_node(nd.a, l) IN a \o emit_node(nd.b, l + Len(a))
      [] nd.kind = "alt" ->
           LET a == emit_node(nd.a, l + 1)
               b == emit_node(nd.b, l + Len(a) + 2)
           IN <<SPLIT(l + 1, l + Len(a) + 2)>> \o a \o <<JMP(l + Len(a) + 2 + Len(b))>> \o b
      [] nd.kind = "rep" /\ nd.n = -1 /\ nd.m = 0 ->
           LET a == emit_node(nd.a, l + 1)
           IN <<SPLIT(l + 1, l + Len(a) + 2)>> \o a \o <<JMP(l)>>
      [] nd.kind = "rep" /\ nd.n = -1 /\ nd.m > 0 ->
           LET c == Copies(nd.a, nd.m - 1, l)
               a == emit_node(nd.a, l + Len(c))
           IN c \o a \o <<SPLIT(l + Len(c), l + Len(c) + Len(a) + 1)>>
      [] OTHER ->
           LET c == Copies(nd.a, nd.m, l)
               size == Len(emit_node(nd.a, 1)) + 1
           IN c \o Optional(nd.a, nd.n - nd.m, l + Len(c), l + Len(c) + (nd.n - nd.m) * size)

Copies(a, k, l) ==
    IF k = 0 THEN <<>>
    ELSE LET c == emit_node(a, l) IN c \o Copies(a, k - 1, l + Len(c))

\* k optional copies, each behind a SPLIT to the common end.
Optional(a, k, l, end) ==
    IF k = 0 THEN <<>>
    ELSE LET c == emit_node(a, l + 1)
         IN <<SPLIT(l + 1, end)>> \o c \o Optional(a, k - 1, l + 1 + Len(c), end)

Program(g) ==
    IF g.nd = Bad \/ g.rest # <<>> THEN <<>>      \* no program: rejected
    ELSE Append(emit_node(g.nd, 1), Inst("match"))
astd_regex_compile(p) == Program(parse_alt(p))

-----------------------------------------------------------------------------
(* Simulation: threads = [list: states in order of arrival, start: start of each] *)

NoThreads == [list |-> <<>>, start |-> <<>>]
Marked(th, pc) == \E k \in DOMAIN th.start : th.start[k][1] = pc
StartOf(th, pc) == (CHOOSE e \in Range(th.start) : e[1] = pc)[2]

\* The epsilon closure of the states on the stack; the first arrival wins.
RECURSIVE re_add(_, _, _, _, _, _)
re_add(prog, th, stk, s, pos, len) ==
    IF stk = <<>> THEN th
    ELSE LET pc == Head(stk)
             ip == prog[pc]
             now == [th EXCEPT !.start = Append(@, <<pc, s>>)]
             on(push) == re_add(prog, now, push \o Tail(stk), s, pos, len)
         IN CASE Marked(th, pc) -> re_add(prog, th, Tail(stk), s, pos, len)
              [] ~Marked(th, pc) /\ ip.op = "jmp" -> on(<<ip.x>>)
              [] ~Marked(th, pc) /\ ip.op = "split" -> on(<<ip.x, ip.y>>)
              [] ~Marked(th, pc) /\ ip.op = "bol" -> on(IF pos = 0 THEN <<pc + 1>> ELSE <<>>)
              [] ~Marked(th, pc) /\ ip.op = "eol" -> on(IF pos = len THEN <<pc + 1>> ELSE <<>>)
              [] OTHER -> re_add(prog, [now EXCEPT !.list = Append(@, pc)], Tail(stk), s, pos, len)

cls_has(nd, c) == (c \in nd.set) # nd.neg
Takes(ip, c) == \/ ip.op = "any"
                \/ ip.op = "char" /\ ip.nd.ch = c
                \/ ip.op = "class" /\ cls_has(ip.nd, c)

NoMatch == <<-1, -1>>
Found(best) == best # NoMatch

\* Matches among the threads at pos: leftmost start first, then longest.
HarvestShortest(prog, th, pos, best) ==
    LET starts == {StartOf(th, pc) : pc \in {q \in Range(th.list) : prog[q].op = "match"}}
    IN IF starts = {} \/ Found(best) THEN best ELSE <<Min(starts), pos>>
Harvest(prog, th, pos, best) ==
    LET starts == {StartOf(th, pc) : pc \in {q \in Range(th.list) : prog[q].op = "match"}}
    IN IF starts = {} \/ (Found(best) /\ Min(starts) > best[1]) THEN best
       ELSE <<Min(starts), pos>>

\* The threads after one character; a fresh one starts until there is a match.
Advance(prog, th, text, pos, best) ==
    LET live == SelectSeq(th.list, LAMBDA pc : ~(Found(best) /\ StartOf(th, pc) > best[1])
                                                /\ Takes(prog[pc], text[pos + 1]))
        next == FoldLeft(LAMBDA acc, pc : re_add(prog, acc, <<pc + 1>>, StartOf(th, pc),
                                                 pos + 1, Len(text)), NoThreads, live)
    IN IF Found(best) THEN next ELSE re_add(prog, next, <<1>>, pos + 1, pos + 1, Len(text))

RECURSIVE Scan(_, _, _, _, _)
Scan(prog, text, pos, th, best0) ==
    LET best == Harvest(prog, th, pos, best0)
        next == Advance(prog, th, text, pos, best)
    IN IF pos = Len(text) \/ (Found(best) /\ next.list = <<>>) THEN best
       ELSE Scan(prog, text, pos + 1, next, best)

\* <<start, end>> (offsets, end exclusive), or NoMatch.
astd_regex_search(prog, text) ==
    Scan(prog, text, 0, re_add(prog, NoThreads, <<1>>, 0, 0, Len(text)), NoMatch)

-----------------------------------------------------------------------------
(* Globs: '*', '?' and '[...]' do not cross '/'; only the last '*' is      *)
(* retried                                                                 *)

\* Whether a class with the members p[k..end - 1] has c.
RECURSIVE Hit(_, _, _, _)
Hit(p, k, end, c) ==
    IF k >= end THEN FALSE
    ELSE IF k + 2 < end /\ p[k + 1] = "-"
         THEN (Code[p[k]] <= Code[c] /\ Code[c] <= Code[p[k + 2]]) \/ Hit(p, k + 3, end, c)
    ELSE p[k] = c \/ Hit(p, k + 1, end, c)
\* Whether what stands at index i, no '*', takes c, and the index behind it.
glob_bracket(p, i, c) ==
    LET neg == i < Len(p) /\ p[i + 1] \in {"!", "^"}
        first == IF neg THEN i + 2 ELSE i + 1
        close == {k \in first + 1..Len(p) : p[k] = "]"}
    IN IF close = {} THEN [ok |-> c = "[", next |-> i + 1]
       ELSE [ok |-> c # "/" /\ Hit(p, first, Min(close), c) # neg, next |-> Min(close) + 1]
Single(p, i, c) ==
    CASE p[i] = "?" -> [ok |-> c # "/", next |-> i + 1]
      [] p[i] = "[" -> glob_bracket(p, i, c)
      [] OTHER -> [ok |-> p[i] = c, next |-> i + 1]

RECURSIVE Glob(_, _, _, _, _, _)
Glob(p, s, i, j, starp, stars) ==
    IF j > Len(s) THEN \A k \in i..Len(p) : p[k] = "*"
    ELSE IF i <= Len(p) /\ p[i] = "*" THEN Glob(p, s, i + 1, j, i, j)
    ELSE IF i <= Len(p) /\ Single(p, i, s[j]).ok
         THEN Glob(p, s, Single(p, i, s[j]).next, j + 1, starp, stars)
    ELSE starp # 0 /\ s[stars] # "/" /\ Glob(p, s, starp + 1, stars + 1, starp, stars + 1)

\* A pattern without '/' is matched against the last component.
astd_glob_match(p, s) ==
    LET slash == {k \in DOMAIN s : s[k] = "/"}
        base == IF slash = {} THEN s ELSE From(s, Max(slash) + 1)
    IN Glob(p, IF "/" \in Range(p) THEN s ELSE base, 1, 1, 0, 0)

-----------------------------------------------------------------------------
(* Reference definitions *)

RECURSIVE Ends(_, _, _), Times(_, _, _, _)

\* Where a match of nd that starts at offset k of text can end.
Ends(nd, text, k) ==
    CASE nd.kind = "empty" -> {k}
      [] nd.kind = "any" -> {e \in {k + 1} : e <= Len(text)}
      [] nd.kind = "char" -> {e \in {k + 1} : e <= Len(text) /\ text[e] = nd.ch}
      [] nd.kind = "class" -> {e \in {k + 1} : e <= Len(text) /\ (text[e] \in nd.set) # nd.neg}
      [] nd.kind = "bol" -> {e \in {k} : e = 0}
      [] nd.kind = "eol" -> {e \in {k} : e = Len(text)}
      [] nd.kind = "cat" -> UNION {Ends(nd.b, text, e) : e \in Ends(nd.a, text, k)}
      [] nd.kind = "alt" -> Ends(nd.a, text, k) \cup Ends(nd.b, text, k)
      [] OTHER -> UNION {Times(nd.a, text, {k}, r) :
                           r \in nd.m..(IF nd.n = -1 THEN nd.m + Len(text) ELSE nd.n)}

Times(a, text, ks, r) ==
    IF r = 0 THEN ks ELSE Times(a, text, UNION {Ends(a, text, k) : k \in ks}, r - 1)

LeftmostLongest(nd, text) ==
    LET starts == {k \in 0..Len(text) : Ends(nd, text, k) # {}}
    IN IF starts = {} THEN NoMatch ELSE <<Min(starts), Max(Ends(nd, text, Min(starts)))>>

\* A tree written as a pattern.
Meta == {"(", ")", "[", "]", "{", "}", "*", "+", "?", "|", ".", "^", "$", "\\"}
Numeral == <<"1", "2", "3">>
RECURSIVE Written(_)
Written(nd) ==
    CASE nd.kind = "empty" -> <<"(", ")">>
      [] nd.kind = "any" -> <<".">>
      [] nd.kind = "bol" -> <<"^">>
      [] nd.kind = "eol" -> <<"$">>
      [] nd.kind = "char" -> IF nd.ch = LF THEN <<"\\", "n">> ELSE IF nd.ch \in Meta THEN <<"\\", nd.ch>> ELSE <<nd.ch>>
      [] nd.kind = "class" -> <<"[">> \o (IF nd.neg THEN <<"^">> ELSE <<>>) \o SetToSeq(nd.set) \o <<"]">>
      [] nd.kind = "cat" -> <<"(">> \o Written(nd.a) \o <<")", "(">> \o Written(nd.b) \o <<")">>
      [] nd.kind = "alt" -> <<"(">> \o Written(nd.a) \o <<"|">> \o Written(nd.b) \o <<")">>
      [] OTHER -> <<"(">> \o Written(nd.a) \o <<")", "{", Numeral[nd.m]>>
                  \o (IF nd.n < 0 THEN <<",">> ELSE IF nd.n = nd.m THEN <<>> ELSE <<",", Numeral[nd.n]>>) \o <<"}">>

\* The characters between the brackets of a class denote a set.
RECURSIVE ClassOf(_)
ClassOf(body) ==
    IF body = <<>> THEN {}
    ELSE IF Len(body) > 2 /\ body[2] = "-" THEN Between(body[1], body[3]) \cup ClassOf(From(body, 4))
    ELSE {body[1]} \cup ClassOf(Tail(body))
\* The lengths a class at the head of a pattern can have: none, or one.
ClassLength(p) ==
    LET negated == Len(p) > 1 /\ p[2] \in {"!", "^"}
        least == IF negated THEN 4 ELSE 3
    IN {n \in least..Len(p) : p[n] = "]" /\ \A k \in least..n - 1 : p[k] # "]"}

RECURSIVE GlobDenotes(_, _)
GlobDenotes(p, s) ==
    CASE p = <<>> -> s = <<>>
      [] p # <<>> /\ Head(p) = "*" ->
           \E k \in 0..Len(s) : "/" \notin Range(SubSeq(s, 1, k)) /\ GlobDenotes(Tail(p), From(s, k + 1))
      [] p # <<>> /\ Head(p) = "[" /\ ClassLength(p) # {} ->
           LET n == Min(ClassLength(p))
               negated == p[2] \in {"!", "^"}
               set == ClassOf(SubSeq(p, IF negated THEN 3 ELSE 2, n - 1))
           IN s # <<>> /\ Head(s) # "/" /\ (Head(s) \in set <=> ~negated) /\ GlobDenotes(From(p, n + 1), Tail(s))
      [] OTHER ->
           /\ s # <<>> /\ (IF Head(p) = "?" THEN Head(s) # "/" ELSE Head(p) = Head(s))
           /\ GlobDenotes(Tail(p), Tail(s))
=============================================================================
