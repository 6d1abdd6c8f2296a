SPECIFICATION FairSpec
CONSTANTS
    r1 = r1
    r2 = r2
    r3 = r3
    f = f
    g = g
    Requests = {r1, r2, r3}
    Names = {f, g}
    NameOf <- MCNameOf
    Registered = {f}
INVARIANTS TypeOK ToldTheTruth TurnedAwayOnlyByTimeout BucketsBounded
PROPERTIES QuietAfterStop WindsUp AcceptedIsDispatched
