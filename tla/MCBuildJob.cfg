SPECIFICATION Spec
CONSTANTS
    Kinds = {"cartridge", "disc"}
    MaxAttempts = 2
    MaxFaults = 2
INVARIANTS BuildKept CancelledTouchesNothing SuccessIsWhole CancelWins
PROPERTY CancelEnds
CHECK_DEADLOCK FALSE
