SPECIFICATION FairSpec
CONSTANTS
  Place = {p1, p2}
  Extra = {x1, x2}
  NoRoute = NoRoute
INVARIANTS OneMiner NothingLeft
PROPERTIES FeeSpaced FeeComesAround FollowsServer ShutdownEnds
