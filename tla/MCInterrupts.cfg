CONSTANT Profiles <- MCProfiles
SPECIFICATION FairSpec
INVARIANTS LineFollowsFlags Ifl2IsVisible
PROPERTIES IdleIsFinal StopResolvesOutsideCdc
CHECK_DEADLOCK FALSE
