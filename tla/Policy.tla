------------------------------- MODULE Policy -------------------------------
(***************************************************************************)
(* Paths and grants: the kernel's resolution of a path, canonicalization   *)
(* and containment (path.c), the effective policy of a tool and the        *)
(* pre-flight of its path arguments (policy.c).                            *)
(*                                                                         *)
(* A path is a sequence of names, names are positive numbers in the order  *)
(* strcmp has; Dot and DotDot are the special ones.  A tree is a function  *)
(* from canonical paths to [kind, data]: "dir", "file" with its content,   *)
(* or "link" with its absolute target.                                     *)
(***************************************************************************)
EXTENDS Integers, Sequences, SequencesExt, FiniteSets

Dot == 0
DotDot == -1
Name == Nat \ {0}
Text == Seq(Name \cup {Dot, DotDot})    \* an absolute path as it is written

Dir == [kind |-> "dir", data |-> <<>>]
FileOf(content) == [kind |-> "file", data |-> content]
LinkTo(target) == [kind |-> "link", data |-> target]
Node == {Dir} \cup [kind : {"file", "link"}, data : Seq(Int)]

Missing == <<-9>>       \* no such path: ENOENT, ENOTDIR
Failed == <<-8>>        \* any other error, ELOOP above all
Is(tree, p, kind) == p \in DOMAIN tree /\ tree[p].kind = kind
Children(tree, p) == {q \in DOMAIN tree : Len(q) = Len(p) + 1 /\ IsPrefix(p, q)}

\* A tree has a root, and everything in it is in a directory of it.
IsTree(tree) ==
    /\ IsFiniteSet(DOMAIN tree) /\ DOMAIN tree \subseteq Seq(Name) /\ tree \in [DOMAIN tree -> Node]
    /\ Is(tree, <<>>, "dir")
    /\ \A p \in DOMAIN tree : \A k \in 0..Len(p) - 1 : Is(tree, SubSeq(p, 1, k), "dir")

-----------------------------------------------------------------------------
(* The kernel: realpath(3) *)

HopMax == 8             \* links inside links followed before ELOOP

\* From a resolved path on to name; far resolves where a link leads.
Join(tree, far, at, name) ==
    LET next == Append(at, name)
    IN IF at = Failed THEN Failed
       ELSE IF ~Is(tree, at, "dir") THEN Missing
       ELSE IF name = Dot THEN at
       ELSE IF name = DotDot THEN IF at = <<>> THEN at ELSE Front(at)
       ELSE IF next \notin DOMAIN tree THEN Missing
       ELSE IF Is(tree, next, "link") THEN far[tree[next].data] ELSE next

\* What the first k names of p lead to.
Along(tree, far, p) ==
    LET upto[k \in Nat] == IF k = 0 THEN <<>> ELSE Join(tree, far, upto[k - 1], p[k])
    IN upto

\* Resolution through at most h links inside one another.
Through(tree) ==
    LET level[h \in Nat] == IF h = 0 THEN [p \in Seq(Int) |-> Failed]
                            ELSE [p \in Seq(Int) |-> Along(tree, level[h - 1], p)[Len(p)]]
    IN level

os_realpath(tree, p) == Through(tree)[HopMax][p]

-----------------------------------------------------------------------------
(* path.c *)

\* A path that does not exist: its deepest existing ancestor, and a tail of
\* ordinary names only.  missing_ok is TRUE in every use that matters here.
astools_path_canonical(tree, p) ==
    LET up(k) == os_realpath(tree, SubSeq(p, 1, k))
        deepest == CHOOSE k \in 0..Len(p) - 1 :
                     up(k) # Missing /\ \A j \in k + 1..Len(p) - 1 : up(j) = Missing
    IN IF os_realpath(tree, p) # Missing THEN os_realpath(tree, p)
       ELSE IF up(deepest) = Failed \/ \E j \in deepest + 1..Len(p) : p[j] \in {Dot, DotDot} THEN Failed
       ELSE up(deepest) \o SubSeq(p, deepest + 1, Len(p))

astools_path_under(p, prefix) == IsPrefix(prefix, p)

-----------------------------------------------------------------------------
(* policy.c: a permission is [path, access], access a subset of {"r", "w"} *)

\* A prefix that cannot be canonicalized is dropped.
canon_push(tree, perms) ==
    {[path |-> astools_path_canonical(tree, p.path), access |-> p.access] :
        p \in {q \in perms : q.access # {} /\ astools_path_canonical(tree, q.path) # Failed}}

\* Every pair of a request and a grant one of which contains the other gives the
\* deeper path with the access both allow.
astools_policy_effective(tree, requested, granted) ==
    LET pairs == {rg \in canon_push(tree, requested) \X canon_push(tree, granted) :
                    /\ rg[1].access \cap rg[2].access # {}
                    /\ \/ astools_path_under(rg[1].path, rg[2].path)
                       \/ astools_path_under(rg[2].path, rg[1].path)}
    IN {[path |-> IF astools_path_under(rg[1].path, rg[2].path) THEN rg[1].path ELSE rg[2].path,
         access |-> rg[1].access \cap rg[2].access] : rg \in pairs}

\* AT_PATH of walk_type: grants first, existence second.
Covered(eff, p, access) == \E e \in eff : access \subseteq e.access /\ astools_path_under(p, e.path)
\* Fault: checks the text of the path.
WalkLexical(tree, eff, p, access, must_exist) ==
    [code |-> IF Covered(eff, p, access) THEN "ok" ELSE "denied", path |-> p]
walk_type(tree, eff, p, access, must_exist) ==
    LET canon == astools_path_canonical(tree, p)
        refused(code) == [code |-> code, path |-> <<>>]
    IN IF canon = Failed THEN refused("io")
       ELSE IF ~Covered(eff, canon, access) THEN refused("denied")
       ELSE IF must_exist /\ os_realpath(tree, canon) \in {Missing, Failed} THEN refused("invalid")
       ELSE [code |-> "ok", path |-> canon]
=============================================================================
