CONSTANTS
    Banks = {0}
    Cells = 3
    GranuleCells = 2
    Values = {0, 1}
    Candidates <- MCCandidates
    Images <- MCImages
    BlockCells = 2
    AnchorCells = 1
    MinRun = 2
    InstrCells = 2
    MaxBindings = 2
    MaxOrder = 3
SPECIFICATION Spec
INVARIANTS RunsLiveImage CleanIsImage ServesImage
PROPERTIES ReplacedIsEnteredAtRoot
CHECK_DEADLOCK FALSE
