SPECIFICATION ScreenSpec
CONSTANTS
  NULL = NULL
  Contents = {c1, c2}
  MaxRev = 2
  MaxLoads = 3
  MaxUnderWay = 2
SYMMETRY Symmetric
CHECK_DEADLOCK FALSE
PROPERTY SavesBuildOnWhatWasSeen
