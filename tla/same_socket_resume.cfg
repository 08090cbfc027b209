\* Same-socket resumption enabled at install; the debug build may abort (see resume_start_failure), so terminal states are expected.
CONSTANTS
    NoUri = NoUri
    plainUri = plainUri
    secureUri = secureUri
    badUri = badUri
    Uris <- MCUris
    EncryptedUris <- MCEncryptedUris
    UnsupportedUris <- MCUnsupportedUris
    HandlerResults <- MCHandlerResults
    StartResults <- MCStartResults
    DownloadStatuses <- AllDownloadStatuses
    MaxResumePolls = 2
    PreferSameSocketValues = {FALSE, TRUE}
    SetResultStates = {0, 2, 3}
    SetResultValues = {0, 1, 5, 8}
    ServerExecutes = FALSE
SPECIFICATION FairSpec
INVARIANT TypeOK
INVARIANT AdapterMatchesState
INVARIANT NotifiedMatches
PROPERTY ResumeSettles
CHECK_DEADLOCK FALSE
