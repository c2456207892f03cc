\* A map pumped by two goroutines shares its queue of length one with a map
\* that has no pump.
SPECIFICATION Spec
CONSTANTS
    a = a b = b u = u v = v s = s tile1 = tile1 tile2 = tile2 pic = pic
    Members = {a, b}
    Workers = {u, v}
    MapOf <- BothForA
    Settlers = {}
    Jobs = {tile1, pic}
    Tiles = {tile1}
    Limit = 1
    Slots = 2
    IdleLimit = 1
    Rendering = {a}
    Times = {1}
    MaxSeq = 2
    MaxView = 1
SYMMETRY Alike
INVARIANTS EveryJobIsAccounted WholePumpWakes
PROPERTIES BasemapGoesLast
CHECK_DEADLOCK FALSE
