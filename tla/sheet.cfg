SPECIFICATION SheetSpec
CONSTANTS
    a = a
    b = b
    Absent = Absent
    NoRequest = NoRequest
    Ids = {a, b}
    Handlers = {h1, h2}
    Requests <- AllRequests
    MaxUses = 3
    MaxCount = 1
    MaxCoinAmount = 2
    MaxStored = 2
    Adjustments <- FewAdjustments
INVARIANTS WithinMax OneTimeEntriesEnd RefusedOnlyWhenEmpty NeverOverdrawn
PROPERTIES RefillActsOnTheStored ConversionKeepsWorth
SYMMETRY HandlersAlike
