SPECIFICATION Spec
CONSTANTS
    Garbled = Garbled
    Nothing = Nothing
    LongRows = 32
    Drafts = {}
    Uploads = {}
    Issuer <- seller
    Today = 20260131
    Headers <- MCHeaders
    Patches <- MCPatches
    PrepaidTexts <- MCPrepaidTexts
    MaxRows = 2
INVARIANTS LinesArriveParallel
CHECK_DEADLOCK FALSE
