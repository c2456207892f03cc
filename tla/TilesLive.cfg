SPECIFICATION FairSpec
CONSTANTS
    near = near far = far above = above s1 = s1 s2 = s2
    en = en fr = fr u = u v = v NoJob = NoJob
    Tiles = {near, above}
    Lineage <- Below
    EmbeddedTiles = {}
    Sources = {s1}
    Named <- OnlyS1
    Languages = {en}
    Views <- NearOrNone
    Workers = {u}
    Cancellable = {}
    Limit = 2
    FirstRetry = 1
    LastRetry = 1
    MaxFailures = 1
    Clockless = FALSE
    Purges = FALSE
    Panics = FALSE
    MaxUpsets = 0
PROPERTIES WantedIsTried
CHECK_DEADLOCK FALSE
