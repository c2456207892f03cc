\* Two overlays that together, or one alone, exceed the shape cache.
SPECIFICATION Spec
CONSTANTS
    alerts = alerts radar = radar one = one two = two
    Ids = {alerts, radar}
    Offers <- Pair
    Buckets = {0, 1}
    Workers = {one}
    StoreVertices = 8
    ShapeBytes = 4
    Budget = 1
    MaxSets = 2
    CallsOff = TRUE
    Sheds = TRUE
INVARIANTS ShapeCacheIsTrue
