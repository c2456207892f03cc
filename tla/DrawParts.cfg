\* The parts that draw and share no state, each alone.
SPECIFICATION MCDrawPartsSpec
CONSTANTS
  TileBodies <- MCBodies
  TileLimits <- MCLimits
  DrawnLayers = {"drawn"}
  PenReach = 4
  FrameCols = 8
  FrameRows = 5
  LabelMargin = 1
  DigitStride = 3
  MaxLabels = 3
  ScaleLeast = 2
  FrameInputs <- MCInputs
  FrameTweaks <- MCTweaks
  MaxFrames = 2
  m1 = m1
  m2 = m2
  l1 = l1
  l2 = l2
  r1 = r1
  r2 = r2
  rain = rain
  heavy = heavy
  damaged = damaged
  LoopMaps = {m1, m2}
  LoopIds = {l1}
  LoopOffers <- MCLoopOffers
  Files <- MCFiles
  Legends <- MCLegends
  Readers = {r1, r2}
  ImageCap = 4
  SharedCap = 4
  Budgets = {12}
  MostFrames = 3
  Moments = {1, 2}
  Ahead = 1
  MaxHandIns = 2
  Half = 2
  Lons <- MCLons
  Lats <- MCLats
  Top = 4
  MostPoints = 4
  Tolerances = {1, 5}
  Spend <- MCSpend
  RunLength = 2
  Margin = 0
  MapViews <- MCMapViews
  red = red
  blue = blue
  CanvasCols = 2
  CanvasRows = 1
  LineMargin = 2
  Dark = Dark
  Inks = {red, blue}
  Streets <- MCStreets
  Areas <- MCAreas
  OverlayRings <- MCOverlayRings
  Marks <- MCMarks
  MostStrokes = 2
INVARIANTS DecodedIsWhole FrameIsItsInputs WordsAreWholeOrTold SharedReadingsAreTrue LoopsHoldTheMoment PreparedKeepsTheShape IndexOnlyCulls CellsShowTheirInk StrokesAreWhole
SYMMETRY AlikeInDrawing
CHECK_DEADLOCK FALSE
