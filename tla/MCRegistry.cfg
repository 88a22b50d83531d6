\* Overlapping scans of two threads against a toggle, an approval and two
\* replacements of a package that may also vanish; the supervisor polls for ever.
SPECIFICATION FairSpec
CONSTANTS
    p1 = p1
    p2 = p2
    t1 = t1
    t2 = t2
    Pkg = {p1}
    Refs <- OneRef
    Content = {"v1", "v2", "alien"}
    Usable = {"v1", "v2"}
    Enforce = TRUE
    Thread = {t1, t2}
    Poller = t1
    MayRemove = TRUE
    MaxEdits = 2
    MaxToggles = 1
    MaxApprovals = 1
    None = None
INVARIANTS
    TableSound
    HostDisableSticky
PROPERTIES
    RevisionTracks
    Converges
