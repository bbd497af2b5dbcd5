\* The CDC's transfer-end request left on the line.
CONSTANT Profiles <- HangProfiles
SPECIFICATION FairSpec
PROPERTY StopResolves
CHECK_DEADLOCK FALSE
