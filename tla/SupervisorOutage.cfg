SPECIFICATION FairSpec
CONSTANTS
  Place = {p1, p2}
  Extra = {x1, x2}
  NoRoute = NoRoute
PROPERTY KeepsMining
CHECK_DEADLOCK FALSE
