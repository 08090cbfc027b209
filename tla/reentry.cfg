\* The core environment, with the user's handlers reporting Integrity Failure (or an Initial the gate refuses) from inside their calls; a re-entrant report can make the debug build abort (see reentrant_report_mid_transfer), so terminal states are expected. The State/Result pair is checked against FwUpdateAbstract.
CONSTANTS
    NoUri = NoUri
    plainUri = plainUri
    secureUri = secureUri
    badUri = badUri
    Uris <- MCUris
    EncryptedUris <- MCEncryptedUris
    UnsupportedUris <- MCUnsupportedUris
    HandlerResults <- MCHandlerResults
    StartResults <- MCStartResults
    DownloadStatuses <- AllDownloadStatuses
    MaxResumePolls = 2
    PreferSameSocketValues = {FALSE}
    SetResultStates = {0, 2, 3}
    SetResultValues = {0, 1, 5, 8}
    ServerExecutes = FALSE
    ReentrantResults = {0, 5}
SPECIFICATION ReentryFairSpec
INVARIANT StreamHasProducer
INVARIANT ProgressResultInitial
INVARIANT NotifiedMatches
PROPERTY DownloadSettles
PROPERTY RefinesAbstract
CHECK_DEADLOCK FALSE
