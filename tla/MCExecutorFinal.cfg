CONSTANTS
    w1 = w1
    w2 = w2
    e1 = e1
    e2 = e2
    i1 = i1
    NoEntry = NoEntry
    Nobody = Nobody
    Workers = {w1, w2}
    Entries = {e1, e2}
    Ids = {i1}
    IdOf <- Twins
    MaxRetries = 1
    HandleLimit = 2
SPECIFICATION Spec
PROPERTY SuccessIsFinal
