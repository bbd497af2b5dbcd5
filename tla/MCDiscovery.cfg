CONSTANTS
    Size = 5
    MaxInstructions = 2
    UnitCeiling = 3
    Images <- MCImages
    Handlers = {3, 5}
SPECIFICATION Spec
INVARIANTS UnitCompletes CoversProgram StopIsReported
CHECK_DEADLOCK FALSE
