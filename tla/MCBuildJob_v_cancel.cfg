SPECIFICATION Spec
CONSTANTS
    Kinds = {"cartridge", "disc"}
    MaxAttempts = 2
    MaxFaults = 2
CHECK_DEADLOCK FALSE
INVARIANTS
    AcceptedIsCancelled
