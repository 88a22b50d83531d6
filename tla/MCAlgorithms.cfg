SPECIFICATION Spec
CONSTANTS
    TYPE_DEPTH_MAX = 2
    CLONE_DEPTH_MAX = 4
    Width = 5
    Precision = 3
    JX_DEPTH_MAX = 4
    VisitsMax = 6
    SelectionMax = 2
    HeaderSize = 2
    PathCap = 6
    HeaderCap = 14
    Int64Max = 15500
    DigitsMax = 5
    Week = 8000
    Day = 5000
    Hour = 4000
    Minute = 2000
INVARIANTS
    MatchesExact
    EditsExact
    ArgumentsExact
    ContractsAgree
    ListingAgrees
    CodecsExact
