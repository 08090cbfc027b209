\* The core environment: the application never calls set_result while Downloading, but a stream_write handler reports a failure from inside its call.
CONSTANTS
    NoUri = NoUri
    plainUri = plainUri
    secureUri = secureUri
    badUri = badUri
    Uris <- MCUris
    EncryptedUris <- MCEncryptedUris
    UnsupportedUris <- MCUnsupportedUris
    HandlerResults <- MCHandlerResults
    StartResults <- MCStartResults
    DownloadStatuses <- AllDownloadStatuses
    MaxResumePolls = 2
    PreferSameSocketValues = {FALSE}
    SetResultStates = {0, 2, 3}
    SetResultValues = {0, 1, 5, 8}
    ServerExecutes = FALSE
    ReentrantResults = {0, 5}
SPECIFICATION ReentryFairSpec
INVARIANT NoAssertionFailure
CHECK_DEADLOCK FALSE
