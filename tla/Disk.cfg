\* Two tiles that do not both fit, two roots, one goroutine.
SPECIFICATION Spec
CONSTANTS
    r1 = r1 r2 = r2 t1 = t1 t2 = t2 u = u NoJob = NoJob
    Roots = {r1, r2}
    Tiles = {t1, t2}
    Sizes = {6}
    Limit = 10
    Workers = {u}
    Views <- SomeViews
    Ages = {0, 1}
    MaxTime = 2
    MaxSerial = 2
    MaxUpsets = 3
    Reopens = FALSE
INVARIANTS DiskIsAsCounted
PROPERTIES NothingForgottenStays StoresHoldTheCap
SYMMETRY Alike
CHECK_DEADLOCK FALSE
