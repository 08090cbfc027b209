\* Violation: the Davra fw_execute() assigns State and Result without notifying observers.
CONSTANTS
    NoUri = NoUri
    plainUri = plainUri
    secureUri = secureUri
    badUri = badUri
    Uris <- MCUris
    EncryptedUris <- MCEncryptedUris
    UnsupportedUris <- MCUnsupportedUris
    HandlerResults <- MCHandlerResults
    StartResults <- MCStartResults
    DownloadStatuses <- AllDownloadStatuses
    MaxResumePolls = 2
    PreferSameSocketValues = {FALSE}
    SetResultStates = {0, 2, 3}
    SetResultValues = {0, 1, 5, 8}
    ServerExecutes = TRUE
SPECIFICATION FairSpec
INVARIANT NotifiedMatches
