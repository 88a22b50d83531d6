\* Two approvers with crashes and failing writes anywhere; patches of up to
\* three files beside another writer; two calls on trees with links; two tools,
\* one of which can vanish while the other is resolved.
SPECIFICATION AllSpec
SYMMETRY Symmetry
CONSTANTS
    a1 = a1
    a2 = a2
    Approver = {a1, a2}
    t1 = t1
    t2 = t2
    Tool = {t1, t2}
    h1 = h1
    h2 = h2
    Hash = {h1, h2}
    MaxEdits = 1
    MaxCalls = 2
    MayCrash = TRUE
    None = None
    Partial = Partial
    Path = {"a", "b", "c"}
    EditCalls <- SomeCalls
    MaxForeign = 2
    i1 = i1
    Id = {i1}
    Management = TRUE
    Launches <- SomeLaunches
    Trees <- SomeTrees
    Workspace <- WorkspacePath
    Mount <- MountPath
    Grants <- SomeGrants
    FsCalls <- SomeFsCalls
    DepthMax = 2
    CallMax = 2
    NoId = NoId
INVARIANTS
    OnlyApprovedTrusted
    LockfileKept
    EditAtomic
    FilesTrue
    ListFresh
    AnsweredOnce
PROPERTIES
    Granted
