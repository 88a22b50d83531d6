------------------------------- MODULE MCHost -------------------------------
(***************************************************************************)
(* Host in one small instance, together with the file tool: the fourth     *)
(* subject, which shares no state with the others either.                  *)
(***************************************************************************)
EXTENDS Host, Fs, TLC

CONSTANTS a1, a2, t1, t2, h1, h2, i1

-----------------------------------------------------------------------------
On(p, k) == [path |-> p, kind |-> k]
SomeCalls ==
    {[command |-> "single", sections |-> <<On("a", "modify")>>, expected |-> e] : e \in {"none", "stale"}}
    \cup {[command |-> "patch", sections |-> s, expected |-> "current"] :
        s \in {<<On("a", "modify"), On("b", "create")>>, <<On("a", "delete"), On("b", "modify")>>,
               <<On("a", "create"), On("b", "delete"), On("a", "modify"), On("c", "modify")>>}}
    \cup {[command |-> "patch", sections |-> <<On("b", "modify")>>, expected |-> "stale"]}

\* Trees with links that lead out of the workspace <<1>>, to a directory, to a
\* file, and around; <<1, 3>> is on another device.
Root == (<<>> :> Dir) @@ (<<1>> :> Dir) @@ (<<2>> :> Dir) @@ (<<2, 1>> :> FileOf(<<20>>))
SomeTrees == {
    Root @@ (<<1, 1>> :> Dir) @@ (<<1, 1, 1>> :> FileOf(<<21>>)) @@ (<<1, 1, 2>> :> LinkTo(<<2>>))
         @@ (<<1, 2>> :> FileOf(<<22>>)),
    Root @@ (<<1, 1>> :> Dir) @@ (<<1, 1, 1>> :> Dir) @@ (<<1, 1, 1, 1>> :> FileOf(<<21>>))
         @@ (<<1, 2>> :> Dir) @@ (<<1, 2, 1>> :> LinkTo(<<2>>))
         @@ (<<1, 3>> :> Dir) @@ (<<1, 3, 1>> :> FileOf(<<23>>)),
    Root @@ (<<1, 1>> :> LinkTo(<<2, 1>>)) @@ (<<1, 2>> :> Dir) @@ (<<1, 2, 1>> :> LinkTo(<<1, 2>>))
         @@ (<<1, 6>> :> LinkTo(<<2, 2>>)) @@ (<<1, 5>> :> LinkTo(<<1, 5>>))}
SomeGrants == {{[path |-> <<1>>, access |-> {"r", "w"}]},
               {[path |-> <<1>>, access |-> {"r"}], [path |-> <<1, 1>>, access |-> {"r", "w"}],
                [path |-> <<1, 4, 1>>, access |-> {"w"}]}}

\* Paths relative to the workspace <<1>>: names, links, a missing tail, a link that
\* leads nowhere, one that leads to itself, `..' through a link and around the top.
Some1 == {<<1>>, <<2>>, <<1, 1>>, <<2, 1>>, <<4, 1>>}
Some2 == {<<6>>, <<5>>, <<3, 1>>, <<2, 1, 1>>, <<DotDot, 2>>, <<1, DotDot, 2>>}
OneCall(cmd, a, b, yes, max) == [cmd |-> cmd, a |-> a, b |-> b, flag |-> yes, limit |-> max]
SomeFsCalls ==
    {OneCall(cmd, a, <<>>, TRUE, 0) : cmd \in {"create", "overwrite", "append"}, a \in Some1 \cup Some2}
    \cup {OneCall(cmd, a, <<>>, yes, 0) : cmd \in {"mkdir", "remove"}, a \in Some1 \cup Some2, yes \in BOOLEAN}
    \cup {OneCall("copy", a, b, TRUE, 0) : a, b \in Some1}
    \cup {OneCall("move", a, b, FALSE, 0) : a, b \in Some1 \cup {<<3, 1>>}}
    \cup {OneCall("list", a, <<>>, yes, max) : a \in {<<>>, <<1>>}, yes \in BOOLEAN, max \in {0, 2}}

\* Every way to start and stop before serving, one way to serve.
SomeLaunches ==
    {o \in [usage : BOOLEAN, config_init : BOOLEAN, config : {"unnamed", "named"}, workspace : {FALSE},
            env : {"set"}, install : {TRUE}, roots : {1}] :
        /\ o.usage => (~o.config_init /\ o.config = "named")
        /\ (~o.usage /\ ~o.config_init) => o.config = "named"}

-----------------------------------------------------------------------------
allVars == <<hostVars, fsVars>>

WorkspacePath == <<1>>
MountPath == <<1, 3>>
Some(set) == CHOOSE x \in set : TRUE
AllInit ==
    /\ HostInit /\ FsInit
    /\ subject # "lockfile" => tool = [a \in Approver |-> t1] /\ disk = [t \in Tool |-> h1]
    /\ subject # "edit" => call = Some(EditCalls) /\ text = [p \in Path |-> "old"]
    /\ subject # "other" => tree = Some(SomeTrees) /\ granted = Some(SomeGrants)
    /\ subject # "server" => table = {} /\ config = "absent"

AllNext ==
    \/ HostNext /\ UNCHANGED fsVars
    \/ subject = "other" /\ FsNext /\ UNCHANGED hostVars

AllSpec == AllInit /\ [][AllNext]_allVars

Symmetry == Permutations({a1, a2}) \cup Permutations({t1, t2}) \cup Permutations(Hash)
=============================================================================
