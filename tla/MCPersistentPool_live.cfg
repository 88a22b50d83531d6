\* Calls return and revoked instances go, whatever the tool does.
SPECIFICATION FairSpec
CONSTANTS
    i1 = i1
    i2 = i2
    n1 = n1
    n2 = n2
    Inv = {i1, i2}
    Node = {n1}
    Parallel = 1
    InstanceLimit = 1
    Content = {"v1", "v2"}
    Manners = {FALSE}
    Stray = Stray
    MaxLines = 1
    MaxEdits = 1
    None = None
PROPERTIES
    PoolProgress
