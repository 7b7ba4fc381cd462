SPECIFICATION DbSpec
CONSTANTS
    Ids = {i1, i2}
    MaxWrites = 3
    MaxRuns = 3
INVARIANT UpgradeSucceeds
INVARIANT EntitiesFit
INVARIANT DowngradeRefusedForCause
PROPERTY MoneyAndImagesKept
CHECK_DEADLOCK FALSE
