\* Two data tracks and an audio track; the sub seeks into the gaps before the last two.
CONSTANTS
    Tracks <- ThreeTracks
    Targets = {1, 3}
    PowerOnTarget = 7
    BaseLatency = 1
    SeekDiv = 4
    MaxLba = 6
    Gaps = {1, 2}
    MaxLatency = 2
SPECIFICATION FairSpec
INVARIANTS TrackFollowsHead NoJump
PROPERTIES ImplementsDrive SeekIsTaken
CHECK_DEADLOCK FALSE
