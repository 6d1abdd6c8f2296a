CONSTANTS
    w1 = w1
    stop = stop
    Workers = {w1}
    Loops = {}
    Stoppers = {stop}
    Bounds <- MCBounds
    MaxMade = 1
SPECIFICATION Spec
INVARIANT DrainedBeforeRemoval
