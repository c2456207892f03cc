\* One overlay handed in three times, two jobs.
SPECIFICATION Spec
CONSTANTS
    alerts = alerts radar = radar one = one two = two
    Ids = {alerts}
    Offers <- Two
    Buckets = {0, 1}
    Workers = {one, two}
    StoreVertices = 8
    ShapeBytes = 4
    Budget = 1
    MaxSets = 3
    CallsOff = FALSE
    Sheds = FALSE
INVARIANTS MemoryIsGivenBack KeptIsCurrent
PROPERTIES FramesOnlyImprove
SYMMETRY Alike2
