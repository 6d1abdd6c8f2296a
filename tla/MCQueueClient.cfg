CONSTANTS
    c1 = c1
    c2 = c2
    Calls = {c1, c2}
    BatchSizes <- MCBatchSizes
    MaxItems = 5
SPECIFICATION Spec
INVARIANT TypeOK
PROPERTY ImplementsFifo
