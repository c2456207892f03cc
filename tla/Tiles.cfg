\* One goroutine and one tile under every choice, two upsets a behaviour.
SPECIFICATION FromOneSpec
CONSTANTS
    near = near far = far above = above s1 = s1 s2 = s2
    en = en fr = fr u = u v = v NoJob = NoJob
    Tiles = {near}
    Lineage <- Roots
    EmbeddedTiles = {}
    Sources = {s1, s2}
    Named <- AllOrNone
    Languages = {en, fr}
    Views <- NearOrNone
    Workers = {u}
    Cancellable = {u}
    Limit = 1
    FirstRetry = 1
    LastRetry = 2
    MaxFailures = 2
    Clockless = TRUE
    Purges = TRUE
    Panics = FALSE
    MaxUpsets = 2
INVARIANTS LoadsLandWhereAsked NextCallKnowsEveryRetry
PROPERTIES NothingEndsEarly
CHECK_DEADLOCK FALSE
