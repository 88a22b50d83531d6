\* Switching on a tool of another platform, then an identical refresh.
SPECIFICATION Spec
CONSTANTS
    p1 = p1
    p2 = p2
    t1 = t1
    t2 = t2
    Pkg = {p1}
    Refs <- OneRef
    Content = {"v1", "v2", "alien"}
    Usable = {"v1", "v2"}
    Enforce = FALSE
    Thread = {t1}
    Poller = t1
    MayRemove = FALSE
    MaxEdits = 0
    MaxToggles = 2
    MaxApprovals = 0
    None = None
PROPERTIES
    IdenticalRefreshStable
