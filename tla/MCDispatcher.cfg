CONSTANTS
    w1 = w1
    w2 = w2
    c1 = c1
    c2 = c2
    c3 = c3
    Workers = {w1, w2}
    Calls = {c1, c2, c3}
    BatchSize = 2
    MaxAttempts = 2
SPECIFICATION FairSpec
INVARIANTS TypeOK NoLostWakeup OnePlace
PROPERTIES EveryCallDispatched WorkersStop
