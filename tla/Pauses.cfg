SPECIFICATION FairSpec
INVARIANTS OnBatteryRests PausedInStep AutoDecides
PROPERTY ComesBack
