CONSTANTS
    f = f
    g = g
    Names = {f, g}
    ConfiguredRate = 2
    Second = 3
    MaxTime = 6
SPECIFICATION Spec
SYMMETRY Symmetry
INVARIANTS TypeOK RateBounded RefusalsCostNothing
