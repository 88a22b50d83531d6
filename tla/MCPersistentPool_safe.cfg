\* Two calls of a tool that may write anything, one instance per identity.
SPECIFICATION Spec
SYMMETRY Symmetry
CONSTANTS
    i1 = i1
    i2 = i2
    n1 = n1
    n2 = n2
    Inv = {i1, i2}
    Node = {n1, n2}
    Parallel = 1
    InstanceLimit = 2
    Content = {"v1", "v2"}
    Manners = {TRUE, FALSE}
    Stray = Stray
    MaxLines = 2
    MaxEdits = 1
    None = None
INVARIANTS
    ExclusiveUse
    PoolSound
    InstanceFresh
    NoCrossTalk
