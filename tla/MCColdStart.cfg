SPECIFICATION FairSpec
CONSTANTS
    c1 = c1
    c2 = c2
    c3 = c3
    f1 = f1
    f2 = f2
    Callers = {c1, c2, c3}
    Funcs = {f1, f2}
    Checked = TRUE
    MaxBoots = 2
    Free = Free
INVARIANTS TypeOK MutexHeld OneBoot BootTableExact LiveIsCached InvalidatedStaysOut
PROPERTY EnsureReturns
