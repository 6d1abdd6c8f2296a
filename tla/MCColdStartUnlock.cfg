SPECIFICATION Spec
CONSTANTS
    c1 = c1
    c2 = c2
    f1 = f1
    Callers = {c1, c2}
    Funcs = {f1}
    Checked = TRUE
    MaxBoots = 2
    Free = Free
SYMMETRY Symmetry
INVARIANT RecheckHoldsLock
