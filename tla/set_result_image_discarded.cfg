\* Violation: after set_result during a pull download, a pushed package is discarded by the orphaned transfer's completion.
CONSTANTS
    NoUri = NoUri
    plainUri = plainUri
    secureUri = secureUri
    badUri = badUri
    Uris <- MCUris
    EncryptedUris <- MCEncryptedUris
    UnsupportedUris <- MCUnsupportedUris
    HandlerResults <- MCHandlerResults
    StartResults <- MCStartResults
    DownloadStatuses <- AllDownloadStatuses
    MaxResumePolls = 2
    PreferSameSocketValues = {FALSE}
    SetResultStates = {0, 1, 2, 3}
    SetResultValues = {0, 1, 5, 8}
    ServerExecutes = FALSE
SPECIFICATION FairSpec
INVARIANT AdapterMatchesState
