SPECIFICATION FairSpec
CONSTANTS
  FeeSingle = FALSE
  MainSingle = FALSE
  MayReload = TRUE
INVARIANTS MainServed HashingIsCovered FeeIsCovered
PROPERTIES FeeComesAround MainGetsItsTurn
