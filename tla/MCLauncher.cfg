\* One cartridge game with two builds, one disc game; three things done by the user.
CONSTANTS
    c1 = c1
    d1 = d1
    NoOne = NoOne
    Carts = {c1}
    Discs = {d1}
    Earlier <- EarlierSessions
    KeepLastN = 1
    KeepOld = FALSE
    MaxActs = 3
SPECIFICATION Spec
INVARIANTS GuardCovers ReportIsFresh
PROPERTIES NoRemovalUnderUse KeepsN QueueDrains
\* An idle launcher waits for its user.
CHECK_DEADLOCK FALSE
