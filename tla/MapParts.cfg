\* The parts of a map that share no state, each alone.
SPECIFICATION MCMapPartsSpec
CONSTANTS
  left = left
  right = right
  parent = parent
  world = world
  a = a
  b = b
  Keys = {left, right, parent, world}
  Fetched = {left, right, parent}
  Sizes = {1, 2}
  Cap = 3
  Maps = {a, b}
  Wanted <- LeftRight
  MinViewZoom <- MCMinZoom
  MaxViewZoom = 2
  MaxSourceZoom = 1
  TileCells = 2
  MostTiles = 5
  WholeTop = 2
  WholeBottom = 12
  MaxCells = 8
  ScreenSizes <- MCSizes
  Spots <- MCSpots
  Boxes <- MCBoxes
  Bounds <- MCBounds
  MaxMoves = 5
  None = None
  Ids = {al}
  al = al
  p = p
  v1 = v1
  v2 = v2
  plain = plain
  bright = bright
  s1 = s1
  s2 = s2
  o1 = o1
  o2 = o2
  w1 = w1
  w2 = w2
  Offers <- MCOffers
  AllPlaces = {p}
  Turns <- MCTurns
  TurnAhead = 2
  AheadAllowed = 0
  Views = {v1, v2}
  Looks = {plain, bright}
  ThinLooks = {bright}
  OwnLooks = {bright}
  Addresses = {s1, s2}
  Options = {o1, o2}
  Allowed <- MCAllowed
  Workers = {w1, w2}
  Times = {0, 2, 4}
  MaxOwn = 2
  MaxMeasures = 2
  MaxCalls = 3
  g1 = g1
  g2 = g2
  c1 = c1
  c2 = c2
  Pumps = {g1, g2}
  EventRoom = 1
  MostHeld = 4
  Reads <- MCReads
  Screens = {c1, c2}
  SizesAsked = {c2}
  MaxHappenings = 3
INVARIANTS OnlyNeedIsOverCap ViewIsAsAsked KeptReportIsFresh LandingIsTold FrameIsDue TheLastSizeWins KeysAreWhole
PROPERTY DrawnNeverWorse
SYMMETRY AlikeGoroutines
CHECK_DEADLOCK FALSE
