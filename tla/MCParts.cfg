\* Two scans and two holders over four descriptors; two threads over three
\* contexts; a log of three files; three calls of one library; a program that writes
\* more than the pipes and the caps hold.
SPECIFICATION AllSpec
CONSTANTS
    d1 = d1
    d2 = d2
    d3 = d3
    d4 = d4
    h1 = h1
    h2 = h2
    s1 = s1
    s2 = s2
    t1 = t1
    t2 = t2
    c1 = c1
    c2 = c2
    c3 = c3
    Desc = {d1, d2, d3, d4}
    Holder = {h1, h2}
    Scanner = {s1, s2}
    None = None
    Thread = {t1, t2}
    Context = {c1, c2, c3}
    Slots = 2
    MaxCalls = 2
    MaxFiles = 3
    MaxSize = 2
    MaxRecords = 9
    MaxFaults = 2
    LibCall = {h1, h2, t1}
    LibContent = {c1, c2}
    Stream = {"out", "err"}
    PipeCap = 2
    OutCap = 2
    MaxBytes = 3
    InputLen = 3
INVARIANTS
    NoUseAfterFree
    RefcountExact
    ErrorTexts
    LogTrail
    LibraryOnce
    CaptureExact
PROPERTIES
    PartsFinish
