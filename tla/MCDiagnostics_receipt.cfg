\* Two threads of one context: a result carries another thread's text.
SPECIFICATION Spec
SYMMETRY Symmetry
CONSTANTS
    t1 = t1
    t2 = t2
    c1 = c1
    Thread = {t1, t2}
    Context = {c1}
    Slots = 2
    MaxCalls = 1
    None = None
INVARIANTS
    ReportIsOwn
