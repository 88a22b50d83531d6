--------------------------------- MODULE Fs ---------------------------------
(***************************************************************************)
(* The fs tool (std/tool_fs.c) behind the pre-flight of policy.c: calls    *)
(* that change or list a tree with links in it.  A path argument is        *)
(* canonicalized and checked against the effective grants, and the tool    *)
(* sees the canonical path.  A command is a sequence of system calls, each *)
(* of which resolves its paths anew and may fail; `work' holds what is     *)
(* still to be done, as the C stack does.                                  *)
(***************************************************************************)
EXTENDS Policy

CONSTANTS
    Trees,       \* the trees to begin with
    Workspace,   \* the workspace's path
    Mount,       \* a directory of it on another device
    Grants,      \* the sets of granted permissions considered
    FsCalls,     \* the calls considered; paths are relative to the workspace
    DepthMax,    \* FS_MAX_DEPTH
    CallMax      \* bound: calls

\* The arguments: flag is parents or recursive, limit is max_entries.
FsCall == [cmd : {"create", "overwrite", "append", "mkdir", "remove", "copy", "move", "list"},
           a : Text, b : Text, flag : BOOLEAN, limit : Nat]
Permission == [path : Text, access : SUBSET {"r", "w"}]

ASSUME FsAssumption ==
    /\ \A t \in Trees : IsTree(t)
    /\ Workspace \in Seq(Name) /\ Mount \in Seq(Name)
    /\ \A g \in Grants : g \subseteq Permission
    /\ FsCalls \subseteq FsCall /\ DepthMax \in Nat /\ CallMax \in Nat

VARIABLES
    tree, granted, asked,
    op,        \* the call: [cmd, a, b, flag, limit], eff at the pre-flight, the tree before
    work,      \* frames, the innermost first
    outcome,   \* "none", "running", "ok", or what it failed with
    counted,   \* removed, created, or bytes; of a list, directories it could not read
    kept       \* the entries a list keeps

fsVars == <<tree, granted, asked, op, work, outcome, counted, kept>>

NoOp == [cmd |-> "none", a |-> <<>>, b |-> <<>>, flag |-> FALSE, limit |-> 0, eff |-> {}, before |-> <<>>]

FsInit ==
    /\ tree \in Trees /\ granted \in Grants
    /\ asked = 0 /\ op = NoOp /\ work = <<>> /\ outcome = "none" /\ counted = 0 /\ kept = {}

-----------------------------------------------------------------------------
(* System calls.  The last name of a path is not followed, unless it says so. *)

Parent(p) == p # <<>> /\ Is(tree, os_realpath(tree, Front(p)), "dir")
Place(p) == IF p = <<>> THEN p ELSE Append(os_realpath(tree, Front(p)), Last(p))
Holds(p) == (p = <<>> \/ Parent(p)) /\ Place(p) \in DOMAIN tree          \* lstat
HoldsA(p, kind) == Holds(p) /\ tree[Place(p)].kind = kind
Free(p) == Parent(p) /\ Last(p) \in Name /\ Place(p) \notin DOMAIN tree
dir_names(t, p) == {Last(q) : q \in Children(t, os_realpath(t, p))}          \* opendir, readdir

Put(p, node) == [q \in DOMAIN tree \cup {p} |-> IF q = p THEN node ELSE tree[q]]
Cut(p) == [q \in DOMAIN tree \ {p} |-> tree[q]]

\* open(2) with O_CREAT follows links in the last place to what they name.
Beyond(p) ==
    LET last[h \in Nat] == IF h = 0 THEN p
                           ELSE IF HoldsA(last[h - 1], "link") THEN tree[Place(last[h - 1])].data
                           ELSE last[h - 1]
    IN last[HopMax]

OnMount(p) == astools_path_under(p, Mount)
Renamed(src, dst) ==
    LET stay == {q \in DOMAIN tree : ~IsPrefix(src, q) /\ q # dst}
        moved == {q \in DOMAIN tree : IsPrefix(src, q)}
        to(q) == dst \o SubSeq(q, Len(src) + 1, Len(q))
    IN [q \in stay \cup {to(m) : m \in moved} |->
          IF q \in stay THEN tree[q] ELSE tree[CHOOSE m \in moved : to(m) = q]]

-----------------------------------------------------------------------------
(* Frames, and what a command begins with *)

Frame(do, at) == [do |-> do, at |-> at, from |-> <<>>, depth |-> 0, left |-> {}]
Pair(do, from, at, depth) == [Frame(do, at) EXCEPT !.from = from, !.depth = depth]

\* Every missing parent, from the root down.
ensure_parent_dirs(p, do) == [k \in 1..Len(p) - 1 |-> Frame(do, SubSeq(p, 1, k))]

cmd_write(p, mode, parents) ==
    (IF parents THEN ensure_parent_dirs(p, "parent") ELSE <<>>) \o <<Frame(mode, p)>>

\* Parents are made as far as possible here; the final call reports what is wrong.
cmd_mkdir(p, parents) ==
    LET real == os_realpath(tree, p)
    IN IF Is(tree, real, "dir") THEN <<>>
       ELSE IF real \in DOMAIN tree THEN <<Frame("refuse", p)>>
       ELSE (IF parents THEN ensure_parent_dirs(p, "parent?") ELSE <<>>) \o <<Frame("mkdir", p)>>

cmd_remove(p, recursive) ==
    <<Frame(IF HoldsA(p, "dir") /\ ~recursive THEN "rmdir" ELSE "drop", p)>>

cmd_copy(src, dst, recursive) ==
    LET real == os_realpath(tree, src)
    IN IF Is(tree, real, "dir") THEN <<Pair(IF recursive THEN "tree" ELSE "refuse", src, dst, 0)>>
       ELSE <<Pair(IF Is(tree, real, "file") THEN "file" ELSE "refuse", src, dst, 0)>>

cmd_move(src, dst) == <<Pair("rename", src, dst, 0)>>

\* Fault: removes the source before it has copied it.
UnlinkFirst(src, dst) == <<Frame("unlink", src), Pair("file", src, dst, 0)>>
\* rename(2) across devices: a regular file is copied and then unlinked.
across(src, dst) == <<Pair("file", src, dst, 0), Frame("unlink", src)>>

-----------------------------------------------------------------------------
(* Calls *)

\* The package requests read-write on the workspace.
Request == {[path |-> Workspace, access |-> {"r", "w"}]}
eff == astools_policy_effective(tree, Request, granted)

Checked(a, access, must_exist) == walk_type(tree, eff, Workspace \o a, access, must_exist)
First(c) == CASE c.cmd \in {"create", "overwrite", "append", "mkdir"} -> Checked(c.a, {"w"}, FALSE)
              [] c.cmd \in {"remove", "move"} -> Checked(c.a, {"w"}, TRUE)
              [] c.cmd \in {"copy", "list"} -> Checked(c.a, {"r"}, TRUE)
Second(c) == IF c.cmd \in {"copy", "move"} THEN Checked(c.b, {"w"}, FALSE) ELSE [code |-> "ok", path |-> <<>>]

\* A call and its two paths as the pre-flight leaves them.
Denied(a, b) ==
    /\ a.code # "ok" \/ b.code # "ok"
    /\ outcome' = IF a.code # "ok" THEN a.code ELSE b.code
    /\ op' = NoOp /\ work' = <<>>

\* The tool is given canonical paths.
Run(c, a, b) ==
    /\ a.code = "ok" /\ b.code = "ok"
    /\ work' = CASE c.cmd \in {"create", "overwrite", "append"} -> cmd_write(a.path, c.cmd, c.flag)
                 [] c.cmd = "mkdir" -> cmd_mkdir(a.path, c.flag)
                 [] c.cmd = "remove" -> cmd_remove(a.path, c.flag)
                 [] c.cmd = "copy" -> cmd_copy(a.path, b.path, c.flag)
                 [] c.cmd = "move" -> cmd_move(a.path, b.path)
                 [] c.cmd = "list" -> <<Frame("walk", a.path)>>
    /\ op' = [cmd |-> c.cmd, a |-> a.path, b |-> b.path, flag |-> c.flag, limit |-> c.limit,
              eff |-> eff, before |-> tree]
    /\ outcome' = "running"

Call(c) ==
    /\ outcome # "running" /\ asked < CallMax
    /\ LET a == First(c)
           b == Second(c)
       IN Denied(a, b) \/ Run(c, a, b)
    /\ asked' = asked + 1 /\ counted' = 0 /\ kept' = {}
    /\ UNCHANGED <<tree, granted>>

Running == outcome = "running"
f == Head(work)
Top(do) == Running /\ work # <<>> /\ f.do = do
Return == work' = Tail(work)
Calls(frames) == work' = frames \o Tail(work)

Finish == Running /\ work = <<>> /\ outcome' = "ok" /\ UNCHANGED <<tree, granted, asked, op, work, counted, kept>>

\* Any system call may fail, and the command with it.
Fails == /\ Running /\ work # <<>> /\ outcome' = "failed" /\ work' = <<>>
         /\ UNCHANGED <<tree, granted, asked, op, counted, kept>>

Frozen == UNCHANGED <<granted, asked, op, outcome>>
Same0 == UNCHANGED <<counted, kept>>

-----------------------------------------------------------------------------
(* fs.write, fs.mkdir *)

\* mkdir(2), where EEXIST is no error.
MakeParent ==
    /\ Top("parent") \/ Top("parent?")
    /\ \/ Free(f.at) /\ tree' = Put(Place(f.at), Dir)
       \/ (Holds(f.at) \/ f.do = "parent?") /\ UNCHANGED tree
    /\ Return /\ Frozen /\ Same0

\* Nobody else makes the directory in between, so EEXIST is a failure here.
MakeDir ==
    /\ Top("mkdir") /\ Free(f.at)
    /\ tree' = Put(Place(f.at), Dir) /\ counted' = 1
    /\ Return /\ Frozen /\ UNCHANGED kept

New == 77       \* the content a call writes

\* A file that exists is truncated, or kept to be appended to.
OpenOld ==
    LET real == os_realpath(tree, f.at)
    IN /\ Top("overwrite") \/ Top("append")
       /\ Is(tree, real, "file")
       /\ tree' = IF f.do = "append" THEN tree ELSE Put(real, FileOf(<<>>))
       /\ Calls(<<Frame("fill", real)>>) /\ Frozen /\ Same0

\* O_EXCL does not follow a link.
OpenNew ==
    /\ Top("create") \/ Top("overwrite") \/ Top("append")
    /\ LET p == IF f.do = "create" THEN f.at ELSE Beyond(f.at)
       IN /\ Free(p)
          /\ tree' = Put(Place(p), FileOf(<<>>)) /\ Calls(<<Frame("fill", Place(p))>>)
    /\ Frozen /\ Same0

Fill ==
    /\ Top("fill")
    /\ tree' = Put(f.at, FileOf(Append(tree[f.at].data, New))) /\ counted' = 1
    /\ Return /\ Frozen /\ UNCHANGED kept

-----------------------------------------------------------------------------
(* fs.remove *)

\* What is not a directory (a link too) is unlinked.
Unlinked ==
    /\ Top("drop") \/ Top("unlink")
    /\ Holds(f.at) /\ ~HoldsA(f.at, "dir")
    /\ tree' = Cut(Place(f.at)) /\ counted' = counted + 1
    /\ Return /\ Frozen /\ UNCHANGED kept

\* rmtree: the names are read first.
EnterRemoved ==
    /\ Top("drop") /\ HoldsA(f.at, "dir") /\ f.depth <= DepthMax
    /\ Calls(<<[f EXCEPT !.do = "rmdir", !.left = dir_names(tree, f.at)]>>)
    /\ UNCHANGED tree /\ Frozen /\ Same0

\* The next of the names that are left, in their order.
Next1(n) == n \in f.left /\ \A m \in f.left : n <= m
Rest(n) == [f EXCEPT !.left = @ \ {n}]

RemoveEntry ==
    /\ Top("rmdir")
    /\ \E n \in f.left : /\ Next1(n)
                         /\ Calls(<<Pair("drop", <<>>, Append(f.at, n), f.depth + 1), Rest(n)>>)
    /\ UNCHANGED tree /\ Frozen /\ Same0

RemoveDir ==
    /\ Top("rmdir") /\ f.left = {}
    /\ HoldsA(f.at, "dir") /\ Children(tree, Place(f.at)) = {} /\ Place(f.at) \notin {<<>>, Mount}
    /\ tree' = Cut(Place(f.at)) /\ counted' = counted + 1
    /\ Return /\ Frozen /\ UNCHANGED kept

-----------------------------------------------------------------------------
(* fs.copy, fs.move *)

\* copy_tree: a link in the place of the directory is refused.
EnterCopied ==
    /\ Top("tree") /\ f.depth <= DepthMax
    /\ Is(tree, os_realpath(tree, f.from), "dir")
    /\ \/ Free(f.at) /\ tree' = Put(Place(f.at), Dir)
       \/ HoldsA(f.at, "dir") /\ UNCHANGED tree
    /\ Calls(<<[f EXCEPT !.do = "entries", !.left = dir_names(tree', f.from)]>>)
    /\ Frozen /\ Same0

\* The entry's kind decides; a link is read here.
Entry(src, dst) ==
    IF ~Holds(src) THEN <<>>
    ELSE CASE tree[Place(src)].kind = "dir" -> <<Pair("tree", src, dst, f.depth + 1)>>
           [] tree[Place(src)].kind = "file" -> <<Pair("file", src, dst, 0)>>
           [] tree[Place(src)].kind = "link" -> <<Pair("link", tree[Place(src)].data, dst, 0)>>

CopyEntry ==
    /\ Top("entries")
    /\ \E n \in f.left : /\ Next1(n)
                         /\ Calls(Append(Entry(Append(f.from, n), Append(f.at, n)), Rest(n)))
    /\ UNCHANGED tree /\ Frozen /\ Same0

Copied == Top("entries") /\ f.left = {} /\ Return /\ UNCHANGED tree /\ Frozen /\ Same0

\* copy_file: the destination is truncated when it is opened, and only then
\* filled; O_NOFOLLOW refuses a link in its place.
OpenCopy ==
    /\ Top("file")
    /\ Is(tree, os_realpath(tree, f.from), "file")
    /\ Free(f.at) \/ HoldsA(f.at, "file")
    /\ tree' = Put(Place(f.at), FileOf(<<>>))
    /\ Calls(<<Pair("data", os_realpath(tree, f.from), Place(f.at), 0)>>)
    /\ Frozen /\ Same0

CopyData ==
    /\ Top("data")
    /\ tree' = Put(f.at, FileOf(tree[f.from].data)) /\ counted' = counted + Len(tree[f.from].data)
    /\ Return /\ Frozen /\ UNCHANGED kept

\* copy_symlink: on EEXIST what is there is unlinked, and it tries again.
MakeLink ==
    /\ Top("link") /\ Free(f.at)
    /\ tree' = Put(Place(f.at), LinkTo(f.from))
    /\ Return /\ Frozen /\ Same0

MakeRoom ==
    /\ Top("link") /\ Holds(f.at) /\ ~HoldsA(f.at, "dir")
    /\ tree' = Cut(Place(f.at)) /\ UNCHANGED work
    /\ Frozen /\ Same0

Rename1 ==
    LET src == Place(f.from)
        dst == Place(f.at)
    IN /\ Top("rename") /\ Holds(f.from) /\ src \notin {<<>>, Mount} /\ Parent(f.at)
       /\ OnMount(src) = OnMount(dst) /\ (IsPrefix(src, dst) => src = dst)
       /\ dst \in DOMAIN tree /\ src # dst =>
            IF HoldsA(f.from, "dir") THEN HoldsA(f.at, "dir") /\ Children(tree, dst) = {}
            ELSE ~HoldsA(f.at, "dir")
       /\ tree' = Renamed(src, dst)
       /\ Return /\ Frozen /\ Same0

\* EXDEV
Across ==
    /\ Top("rename") /\ HoldsA(f.from, "file") /\ OnMount(Place(f.from)) # OnMount(Place(f.at))
    /\ Calls(across(f.from, f.at))
    /\ UNCHANGED tree /\ Frozen /\ Same0

-----------------------------------------------------------------------------
(* fs.list: nothing changes *)

EnterListed ==
    /\ Top("walk") /\ Is(tree, os_realpath(tree, f.at), "dir")
    /\ Calls(<<[f EXCEPT !.do = "listing", !.left = dir_names(tree, f.at)]>>)
    /\ UNCHANGED tree /\ Frozen /\ Same0

\* Below the top an unreadable directory is left out.
SkipListed ==
    /\ Top("walk") /\ f.depth > 0
    /\ Return /\ counted' = counted + 1
    /\ UNCHANGED <<tree, kept>> /\ Frozen

\* A directory's entries before the directory itself; links are not followed.
ListEntry ==
    /\ Top("listing")
    /\ \E n \in f.left :
         LET q == Append(f.at, n)
             below == IF op.flag /\ HoldsA(q, "dir") /\ f.depth < DepthMax
                      THEN <<Pair("walk", <<>>, q, f.depth + 1)>> ELSE <<>>
             itself == IF Holds(q) THEN <<Frame("keep", q)>> ELSE <<>>
         IN Next1(n) /\ Calls(below \o itself \o <<Rest(n)>>)
    /\ UNCHANGED tree /\ Frozen /\ Same0

Listed == Top("listing") /\ f.left = {} /\ Return /\ UNCHANGED tree /\ Frozen /\ Same0

\* strcmp on the paths of entries, of names in which no character comes before `/'.
Less(p, q) == \E k \in DOMAIN q : /\ \A j \in 1..k - 1 : j \in DOMAIN p /\ p[j] = q[j]
                                  /\ k \in DOMAIN p => p[k] < q[k]

\* Only the smallest limit + 1 entries are kept.
ent_keep(q) ==
    IF Cardinality(kept) <= op.limit THEN kept' = kept \cup {q}
    ELSE \E last \in kept : /\ \A x \in kept : x = last \/ Less(x, last)
                            /\ kept' = IF Less(q, last) THEN (kept \ {last}) \cup {q} ELSE kept
\* Fault: keeps the entries it saw first.
KeepFirst(q) == kept' = IF Cardinality(kept) <= op.limit THEN kept \cup {q} ELSE kept

Keep == Top("keep") /\ ent_keep(f.at) /\ Return /\ UNCHANGED <<tree, counted>> /\ Frozen

-----------------------------------------------------------------------------
FsNext ==
    \/ \E c \in FsCalls : Call(c)
    \/ Finish \/ Fails
    \/ MakeParent \/ MakeDir \/ OpenOld \/ OpenNew \/ Fill
    \/ Unlinked \/ EnterRemoved \/ RemoveEntry \/ RemoveDir
    \/ EnterCopied \/ CopyEntry \/ Copied \/ OpenCopy \/ CopyData \/ MakeLink \/ MakeRoom
    \/ Rename1 \/ Across
    \/ EnterListed \/ SkipListed \/ ListEntry \/ Listed \/ Keep
    \/ outcome # "running" /\ asked = CallMax /\ UNCHANGED fsVars

FsSpec == FsInit /\ [][FsNext]_fsVars

-----------------------------------------------------------------------------
(* Properties *)

\* A directory made on the way to a granted path that does not exist.
OnTheWay(p) == /\ p \notin DOMAIN tree /\ Is(tree', p, "dir")
               /\ \E e \in op.eff : {"w"} \subseteq e.access /\ IsPrefix(p, e.path)

\* A write through a link in the last place that leads nowhere.
ThroughLink == op.cmd \in {"overwrite", "append"} /\ Is(op.before, op.a, "link")

\* Whatever links the tree holds and wherever a command stops, it changes only
\* what lies under a prefix that had an effective write grant at the pre-flight:
\* canonicalization before the check, lstat in rmtree, O_NOFOLLOW and lstat in the
\* copy.  Two things are excepted: directories on the way to a granted path that
\* does not exist, and what a link that leads nowhere names when it is written.
Touched == {p \in DOMAIN tree \cup DOMAIN tree' :
              p \notin DOMAIN tree \/ p \notin DOMAIN tree' \/ tree[p] # tree'[p]}
Granted == [][\A p \in Touched : Covered(op.eff, p, {"w"}) \/ OnTheWay(p) \/ ThroughLink]_fsVars

\* What p held is at q, links as links.
Same(t, p, u, q) ==
    \A x \in DOMAIN t : IsPrefix(p, x) =>
        LET y == q \o SubSeq(x, Len(p) + 1, Len(x)) IN y \in DOMAIN u /\ u[y] = t[x]

\* A result tells the truth: a removed tree is gone and its entries were counted,
\* nothing beside it changed; a copy holds what the source held; a moved tree is
\* at its new place, and a failed move has not lost it.  (A file copied onto
\* itself is excepted: opening truncates it.)
ResultTrue ==
    LET t == op.before
        apart == ~IsPrefix(op.a, op.b) /\ ~IsPrefix(op.b, op.a)
    IN /\ op.cmd = "remove" /\ outcome = "ok" =>
              /\ tree = [q \in {x \in DOMAIN t : ~IsPrefix(op.a, x)} |-> t[q]]
              /\ counted = Cardinality(DOMAIN t) - Cardinality(DOMAIN tree)
       /\ op.cmd = "copy" /\ outcome = "ok" /\ apart =>
              Same(t, op.a, tree, op.b) /\ Same(t, op.a, tree, op.a)
       /\ op.cmd = "move" /\ outcome = "ok" =>
              Same(t, op.a, tree, op.b) /\ (apart => op.a \notin DOMAIN tree)
       /\ op.cmd = "move" /\ outcome = "failed" /\ apart => Same(t, op.a, tree, op.a)

\* fs.list keeps only max_entries + 1 names while it walks, and still gives the
\* first entries of the whole listing, truncated exactly when there are more
\* (unless it could not read a directory).
Entries == {q \in kept : Cardinality({x \in kept : Less(x, q)}) < op.limit}
Truncated == Cardinality(kept) > op.limit
ListExact ==
    LET all == {q \in DOMAIN tree : /\ IsPrefix(op.a, q)
                                    /\ Len(q) - Len(op.a) \in 1..(IF op.flag THEN DepthMax + 1 ELSE 1)}
    IN op.cmd = "list" /\ outcome = "ok" /\ counted = 0 =>
         /\ Entries = {q \in all : Cardinality({x \in all : Less(x, q)}) < op.limit}
         /\ Truncated <=> Cardinality(all) > op.limit

FilesTrue == ResultTrue /\ ListExact
=============================================================================
