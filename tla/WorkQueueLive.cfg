\* A map with a pump of one goroutine shares its queue with a map whose host
\* calls Settle once.
SPECIFICATION FairSpec
CONSTANTS
    a = a b = b u = u v = v s = s tile1 = tile1 tile2 = tile2 pic = pic
    Members = {a, b}
    Workers = {u, s}
    MapOf <- PumpAndSettle
    Settlers = {s}
    Jobs = {tile1, pic}
    Tiles = {tile1}
    Limit = 2
    Slots = 1
    IdleLimit = 1
    Rendering = {}
    Times = {}
    MaxSeq = 2
    MaxView = 0
PROPERTIES KeepsPromise NothingWaitsForEver
CHECK_DEADLOCK FALSE
