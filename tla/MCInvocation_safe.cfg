\* Two invocations, one slot, packages replaced and rescanned at any moment,
\* pinning "enforce" with only v1 approved.
SPECIFICATION Spec
CONSTANTS
    i1 = i1
    i2 = i2
    Inv = {i1, i2}
    AsyncInv = {}
    MaxConcurrent = 1
    Content = {"v1", "v2"}
    Approved = {"v1"}
    Selections = {None, "v1"}
    Enforce = TRUE
    Kinds = {"oneshot"}
    MaxEdits = 2
    None = None
    Blocked = Blocked
INVARIANTS
    SlotAccounting
    Ledger
    DispatchIsFresh
PROPERTIES
    ImplementsService
