\* Three images, two of them admitted.
CONSTANTS
    PrgImages = {boot, game, other}
    Admitted = {boot, game}
    NoImage = none
SPECIFICATION ControlSpec
INVARIANTS GrantIsReal RunsVerifiedEntry
PROPERTIES VectorsFromOwnBus
CHECK_DEADLOCK FALSE
