\* Seven blocks, a list of four ranges of which the newest two are looked at.
CONSTANTS
    Blocks = {0, 1, 2, 3, 4, 5, 6}
    LedgerMax = 4
    Lookback = 2
SPECIFICATION LedgerSpec
INVARIANTS OnlyWhatWasRead NothingLost
