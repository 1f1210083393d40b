SPECIFICATION Spec
CONSTANTS
    Garbled = Garbled
    Nothing = Nothing
    LongRows = 32
    Drafts <- MCDrafts
    Uploads <- MCUploads
    Issuer <- seller
    Today = 20260131
    Headers <- MCHeaders
    Patches <- MCPatches
    PrepaidTexts <- MCPrepaidTexts
    MaxRows = 2
INVARIANTS AcceptedConforms ChecksAgreeWithEngine OmittedLineIsSuspected LinesClearOfFoot NoFalsePass ReadAsJudged NumbersAgree SlipsAreCaught PreviewIsIssued
CHECK_DEADLOCK FALSE
