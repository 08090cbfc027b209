\* Violation: the Davra fw_execute() changes State and Result when State is not Downloaded.
CONSTANTS
    NoUri = NoUri
    plainUri = plainUri
    secureUri = secureUri
    badUri = badUri
    Uris <- MCUris
    EncryptedUris <- MCEncryptedUris
    UnsupportedUris <- MCUnsupportedUris
    HandlerResults <- MCHandlerResults
    StartResults <- MCStartResults
    DownloadStatuses <- AllDownloadStatuses
    MaxResumePolls = 2
    PreferSameSocketValues = {FALSE}
    SetResultStates = {0, 2, 3}
    SetResultValues = {0, 1, 5, 8}
    ServerExecutes = TRUE
SPECIFICATION FairSpec
PROPERTY UpdateRejectedUnlessDownloaded
