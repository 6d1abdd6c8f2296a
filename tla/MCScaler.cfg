CONSTANTS
    w1 = w1
    w2 = w2
    loop = loop
    stop = stop
    Workers = {w1, w2}
    Loops = {loop}
    Stoppers = {stop}
    Bounds <- MCBounds
    MaxMade = 2
SPECIFICATION Spec
SYMMETRY Symmetry
INVARIANTS TypeOK RunningExact RemovalAnnounced RoutesCatchUp DrainHolds
