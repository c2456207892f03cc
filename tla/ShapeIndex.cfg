SPECIFICATION ShapeSpec
CONSTANTS
  Half = 2
  Lons <- MCLons
  Lats <- MCLats
  Top = 4
  MostPoints = 4
  Tolerances = {1, 5}
  Spend <- MCSpend
  RunLength = 2
  Margin = 0
  MapViews <- MCMapViews
CHECK_DEADLOCK FALSE
INVARIANT IndexAlwaysOnlyCulls
