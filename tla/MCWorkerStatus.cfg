SPECIFICATION Spec
CONSTANTS
  Instance = {a, b}
  Observed = {a}
PROPERTIES
  StopIsFinal
  HeardOfIsKept
  GoneIsPurged
