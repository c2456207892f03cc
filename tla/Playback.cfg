\* Two loops, a step faster than the ceiling, at it and slower, four time units.
SPECIFICATION Spec
CONSTANTS
  LoopIds = {radar, clouds}
  Loops <- MCLoops
  Steps = {1, 2}
  DefaultStep = 3
  CeilingStep = 2
  LastHold = 4
  BlinkHalf = 2
  Alert <- MCAlert
  Moments <- MCMoments
  Times = {3}
  MaxTime = 4
  MaxInputs = 3
INVARIANTS ToldTimesAreTrue FlashesKeepTheCeiling
PROPERTIES NothingPlaysByItself MovesAreTold
CHECK_DEADLOCK FALSE
SYMMETRY Alike
