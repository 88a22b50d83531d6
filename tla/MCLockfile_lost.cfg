\* Two concurrent approvals: one of them is lost.
SPECIFICATION Spec
CONSTANTS
    a1 = a1
    a2 = a2
    Approver = {a1, a2}
    Tool = {"fs", "git"}
    Hash = {"h1"}
    MaxEdits = 0
    MaxCalls = 1
    MayCrash = FALSE
    None = None
    Partial = Partial
INVARIANTS
    ApprovalsNeverLost
