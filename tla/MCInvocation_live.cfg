\* A process tool and a library call that may never return share one slot.
SPECIFICATION FairSpec
CONSTANTS
    i1 = i1
    i2 = i2
    Inv = {i1, i2}
    AsyncInv = {i1}
    MaxConcurrent = 1
    Content = {"v1"}
    Approved = {"v1"}
    Selections = {None}
    Enforce = FALSE
    Kinds = {"oneshot", "library"}
    MaxEdits = 0
    None = None
    Blocked = Blocked
INVARIANTS
    ResultOwnership
PROPERTIES
    StoppedNeverRuns
    NobodyHangs
