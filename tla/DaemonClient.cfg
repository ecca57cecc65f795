SPECIFICATION FairSpec
CONSTANTS
  MaxTip = 2
  MaxHttp = 3
PROPERTIES NeverStuck FollowsChain ComesToRest
CHECK_DEADLOCK FALSE
