\* The restricted core environment: servers do not Execute Update (the Davra
\* handler is left out), the application reports results only outside
\* Downloading (the code also allows a failure while Downloading, see
\* anjay_fw_update.c:1606-1607 and the set_result_* runs), no same-socket
\* resumption.
CONSTANTS
    NoUri = NoUri
    plainUri = plainUri
    secureUri = secureUri
    badUri = badUri
    Uris <- MCUris
    EncryptedUris <- MCEncryptedUris
    UnsupportedUris <- MCUnsupportedUris
    HandlerResults <- MCHandlerResults
    StartResults <- MCStartResults
    DownloadStatuses <- AllDownloadStatuses
    MaxResumePolls = 2
    PreferSameSocketValues = {FALSE}
    SetResultStates = {0, 2, 3}
    SetResultValues = {0, 1, 5, 8}
    ServerExecutes = FALSE
SPECIFICATION FairSpec
INVARIANT TypeOK
INVARIANT NoAssertionFailure
INVARIANT TransferMatchesState
INVARIANT StreamHasProducer
INVARIANT AdapterMatchesState
INVARIANT ProgressResultInitial
INVARIANT NotifiedMatches
PROPERTY DownloadSettles
PROPERTY RefinesAbstract
