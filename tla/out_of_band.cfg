\* Application reports results in every State and servers Execute Update through the Davra handler; the debug build may abort (see davra_execute_adapter), so terminal states are expected.
CONSTANTS
    NoUri = NoUri
    plainUri = plainUri
    secureUri = secureUri
    badUri = badUri
    Uris <- MCUris
    EncryptedUris <- MCEncryptedUris
    UnsupportedUris <- MCUnsupportedUris
    HandlerResults <- MCHandlerResults
    StartResults <- MCStartResults
    DownloadStatuses <- AllDownloadStatuses
    MaxResumePolls = 2
    PreferSameSocketValues = {FALSE}
    SetResultStates = {0, 1, 2, 3}
    SetResultValues = {0, 1, 5, 8}
    ServerExecutes = TRUE
SPECIFICATION FairSpec
INVARIANT TypeOK
INVARIANT StreamHasProducer
INVARIANT ProgressResultInitial
PROPERTY DownloadSettles
CHECK_DEADLOCK FALSE
