------------------------- MODULE FwRefinementProofs -------------------------
(***************************************************************************)
(* Proof that, in the core environment (CoreEnvironment), the object       *)
(* implements the State/Update Result machine FwUpdateAbstract under the   *)
(* mapping state <- fw.state, result <- fw.result (RefinesAbstract).       *)
(*                                                                         *)
(* Each helper is characterised by what it does to the pair (State,        *)
(* Result); each action then moves the pair along an abstract step or      *)
(* leaves it alone.  Two facts about the state are needed: the transfer    *)
(* invariant IInv of FwUpdateProofs (a pending transfer means State is     *)
(* Downloading, so the callbacks run only there), and that Result is      *)
(* Initial while a download or an upgrade is in progress, without which    *)
(* the restart after an expired ETag (Downloading to Downloading with      *)
(* Result reset to Initial) would not be a stutter.                        *)
(***************************************************************************)
EXTENDS FwUpdateRefinement, FwUpdateProofs

(* The pair (State, Result) of g. *)
Pair(g, s, r) == g.state = s /\ g.result = r

(* g shows servers the same pair as f. *)
SamePair(g, f) == g.state = f.state /\ g.result = f.result

(* A result that reports a failure: neither Initial nor Success. *)
Failure(r) == r \notin {INITIAL, SUCCESS}

(* The invariant the abstract machine's initial condition states. *)
ResultInitialInProgress(f) ==
    f.state \in {DOWNLOADING, DOWNLOADED, UPDATING} => f.result = INITIAL

(* The pair of g follows from that of f by a step of FwUpdateAbstract    *)
(* (its StartUpdate is never taken: no reachable handler enters Updating) *)
(* or by none.                                                            *)
AbsMove(f, g) ==
    \/ SamePair(g, f)
    \/ f.state = IDLE /\ Pair(g, DOWNLOADING, INITIAL)
    \/ f.state \in {IDLE, DOWNLOADING} /\ Pair(g, DOWNLOADED, INITIAL)
    \/ f.state # UPDATING /\ g.state = IDLE /\ g.result # SUCCESS
    \/ f.state = UPDATING /\ g.state = IDLE /\ g.result # INITIAL

LEMMA ValuesDistinct ==
    /\ IDLE # DOWNLOADING /\ IDLE # DOWNLOADED /\ IDLE # UPDATING
    /\ DOWNLOADING # DOWNLOADED /\ DOWNLOADING # UPDATING
    /\ DOWNLOADED # UPDATING
    /\ \A r \in {NOT_ENOUGH_SPACE, OUT_OF_MEMORY, CONNECTION_LOST,
                 INTEGRITY_FAILURE, UNSUPPORTED_PACKAGE_TYPE, INVALID_URI,
                 FAILED, UNSUPPORTED_PROTOCOL} : Failure(r)
BY DEF IDLE, DOWNLOADING, DOWNLOADED, UPDATING, Failure, INITIAL, SUCCESS,
       NOT_ENOUGH_SPACE, OUT_OF_MEMORY, CONNECTION_LOST, INTEGRITY_FAILURE,
       UNSUPPORTED_PACKAGE_TYPE, INVALID_URI, FAILED, UNSUPPORTED_PROTOCOL

(* A step of the abstract machine keeps Result Initial while something  *)
(* is in progress.                                                        *)
LEMMA MoveKeepsInitial ==
    ASSUME NEW f, NEW g, AbsMove(f, g), ResultInitialInProgress(f)
    PROVE  ResultInitialInProgress(g)
BY ValuesDistinct DEF AbsMove, SamePair, Pair, ResultInitialInProgress

-----------------------------------------------------------------------------
(* What each helper does to the pair.                                      *)

LEMMA FailPair ==
    ASSUME NEW f \in FwRecords, NEW site
    PROVE  SamePair(fail(f, site), f)
BY DEF fail, SamePair, FwRecords

LEMMA SetUpdateResultPair ==
    ASSUME NEW f \in FwRecords, NEW r
    PROVE  set_update_result(f, r).state = f.state
           /\ set_update_result(f, r).result = r
BY DEF set_update_result, FwRecords

LEMMA SetStatePair ==
    ASSUME NEW f \in FwRecords, NEW s
    PROVE  set_state(f, s).state = s /\ set_state(f, s).result = f.result
BY DEF set_state, FwRecords

LEMMA UpdateStateAndResultPair ==
    ASSUME NEW f \in FwRecords, NEW s, NEW r \in Results
    PROVE  Pair(update_state_and_update_result(f, s, r), s, r)
BY SetUpdateResultPair, SetStatePair, SetUpdateResultType
DEF update_state_and_update_result, Pair

LEMMA EnsureStreamOpenPair ==
    ASSUME NEW f \in FwRecords, NEW open
    PROVE  SamePair(user_state_ensure_stream_open(f, open), f)
BY FailPair DEF user_state_ensure_stream_open, SamePair, FwRecords

LEMMA FinishUserStreamPair ==
    ASSUME NEW f \in FwRecords, NEW fin
    PROVE  SamePair(finish_user_stream(f, fin), f)
BY DEF finish_user_stream, SamePair, FwRecords

LEMMA ResetUserStatePair ==
    ASSUME NEW f \in FwRecords
    PROVE  SamePair(reset_user_state(f), f)
BY DEF reset_user_state, SamePair, FwRecords

(* handle_err_result() reports a failure whenever its default does. *)
LEMMA HandleErrResultPair ==
    ASSUME NEW f \in FwRecords, NEW s, NEW rc \in Int, NEW default \in Results,
           Failure(default)
    PROVE  /\ handle_err_result(f, s, rc, default).state = s
           /\ Failure(handle_err_result(f, s, rc, default).result)
<1>. DEFINE m == IF -rc \in {NOT_ENOUGH_SPACE, OUT_OF_MEMORY, INTEGRITY_FAILURE,
                             UNSUPPORTED_PACKAGE_TYPE} THEN -rc ELSE default
<1>1. m \in Results /\ Failure(m)
  BY ValuesDistinct DEF NOT_ENOUGH_SPACE, OUT_OF_MEMORY, INTEGRITY_FAILURE,
                        UNSUPPORTED_PACKAGE_TYPE, Results
<1>2. Pair(update_state_and_update_result(f, s, m), s, m)
  BY <1>1, UpdateStateAndResultPair
<1>. QED  BY <1>1, <1>2 DEF handle_err_result, Pair

LEMMA ResetPair ==
    ASSUME NEW f \in FwRecords
    PROVE  Pair(reset(f), IDLE, INITIAL)
BY ResetUserStateType, UpdateStateAndResultPair, ConstantValuesType DEF reset

(* The results of a failed start and of a failed transfer are failures. *)
LEMMA StartAndFailureResults ==
    ASSUME NEW err, NEW st
    PROVE  /\ download_start_result(err) \in Results
           /\ Failure(download_start_result(err))
           /\ download_failure_result(st) \in Results
           /\ Failure(download_failure_result(st))
<1>1. download_start_result(err) \in {INVALID_URI, OUT_OF_MEMORY,
                                      UNSUPPORTED_PROTOCOL, CONNECTION_LOST}
  BY DEF download_start_result
<1>2. download_failure_result(st) \in {OUT_OF_MEMORY, INVALID_URI,
                                       CONNECTION_LOST}
  BY DEF download_failure_result
<1>. QED  BY <1>1, <1>2, ValuesDistinct, ConstantValuesType

(* schedule_download(): a started download is Downloading with Result    *)
(* Initial; a failed one reports a failure and leaves State as it was    *)
(* (start error) or Idle (security configuration).                       *)
LEMMA SchedulePair ==
    ASSUME NEW f \in FwRecords, NEW etag \in BOOLEAN, NEW sec \in Int,
           NEW start
    PROVE  /\ schedule_download_ok(f, sec, start)
                => Pair(schedule_download(f, etag, sec, start),
                        DOWNLOADING, INITIAL)
           /\ ~schedule_download_ok(f, sec, start)
                => /\ schedule_download(f, etag, sec, start).state
                        \in {IDLE, f.state}
                   /\ Failure(schedule_download(f, etag, sec, start).result)
<1>. DEFINE r == schedule_download(f, etag, sec, start)
            c == transport_security_from_uri(f.package_uri) = "ENCRYPTED"
                 /\ f.user_state \notin {IDLE, DOWNLOADING}
            t == IF c THEN fail(f, "get_security_config: user_state IDLE or DOWNLOADING")
                 ELSE f
            d == IF t.download_handle
                 THEN fail(t, "schedule_download: !fw->download_handle") ELSE t
<1>0. /\ "get_security_config: user_state IDLE or DOWNLOADING" \in AssertionSites
      /\ "schedule_download: !fw->download_handle" \in AssertionSites
  BY DEF AssertionSites
<1>1. t \in FwRecords /\ SamePair(t, f)
  <2>1. CASE c
    BY <1>0, <2>1, FailType, FailPair
  <2>2. CASE ~c
    BY <2>2 DEF SamePair
  <2>. QED  BY <2>1, <2>2
<1>2. d \in FwRecords /\ SamePair(d, f)
  <2>1. CASE t.download_handle
    BY <1>0, <1>1, <2>1, FailType, FailPair DEF SamePair
  <2>2. CASE ~t.download_handle
    BY <1>1, <2>2
  <2>. QED  BY <2>1, <2>2
<1>. PICK g, h : g = t /\ h = d
  OBVIOUS
<1>. HIDE DEF t, d
<1>3. CASE security_config_fails(f, sec)
  <2>1. r = handle_err_result(g, IDLE, sec, UNSUPPORTED_PROTOCOL)
    BY <1>3 DEF schedule_download, t
  <2>2. UNSUPPORTED_PROTOCOL \in Results /\ Failure(UNSUPPORTED_PROTOCOL)
    BY ConstantValuesType, ValuesDistinct
  <2>3. r.state = IDLE /\ Failure(r.result)
    BY <1>1, <2>1, <2>2, HandleErrResultPair
  <2>. QED  BY <1>3, <2>3 DEF schedule_download_ok
<1>4. CASE ~security_config_fails(f, sec) /\ start # "OK"
  <2>1. r = set_update_result(reset_user_state(h), download_start_result(start))
    BY <1>4 DEF schedule_download, t, d
  <2>2. reset_user_state(h) \in FwRecords /\ SamePair(reset_user_state(h), f)
    BY <1>2, ResetUserStateType, ResetUserStatePair DEF SamePair
  <2>3. r.state = f.state /\ r.result = download_start_result(start)
    BY <2>1, <2>2, SetUpdateResultPair DEF SamePair
  <2>. QED  BY <1>4, <2>3, StartAndFailureResults DEF schedule_download_ok
<1>5. CASE ~security_config_fails(f, sec) /\ start = "OK"
  <2>. DEFINE k == [h EXCEPT !.download_handle = TRUE,
                             !.retry_download_on_expired = etag]
  <2>1. k \in FwRecords
    BY <1>2, StartTransferType
  <2>2. r = update_state_and_update_result(k, DOWNLOADING, INITIAL)
    BY <1>5 DEF schedule_download, t, d
  <2>3. Pair(r, DOWNLOADING, INITIAL)
    BY <2>1, <2>2, ConstantValuesType, UpdateStateAndResultPair
  <2>. QED  BY <1>5, <2>3 DEF schedule_download_ok
<1>. QED  BY <1>3, <1>4, <1>5

(* The pairs a callback may leave from Downloading with Result Initial. *)
DownloadOutcome(g) ==
    \/ Pair(g, DOWNLOADING, INITIAL)
    \/ Pair(g, DOWNLOADED, INITIAL)
    \/ g.state = IDLE /\ Failure(g.result)

(* download_failed(): restarted, or Idle with a failure. *)
LEMMA DownloadFailedPair ==
    ASSUME NEW g \in FwRecords, NEW st, NEW sec \in Int, NEW start
    PROVE  DownloadOutcome(download_failed(g, st, sec, start))
<1>. DEFINE h == reset_user_state(g)
            d == schedule_download(h, FALSE, sec, start)
            r == download_failed(g, st, sec, start)
<1>1. h \in FwRecords
  BY ResetUserStateType
<1>2. d \in FwRecords
  BY <1>1, ScheduleDownloadType
<1>3. CASE g.retry_download_on_expired /\ st = "EXPIRED"
           /\ schedule_download_ok(h, sec, start)
  <2>1. r = d
    BY <1>3 DEF download_failed
  <2>. QED  BY <1>1, <2>1, <1>3, SchedulePair DEF DownloadOutcome
<1>4. CASE g.retry_download_on_expired /\ st = "EXPIRED"
           /\ ~schedule_download_ok(h, sec, start)
  <2>1. r = set_state(d, IDLE)
    BY <1>4 DEF download_failed
  <2>2. Failure(d.result)
    BY <1>1, <1>4, SchedulePair
  <2>3. set_state(d, IDLE).state = IDLE /\ set_state(d, IDLE).result = d.result
    BY <1>2, SetStatePair
  <2>. QED  BY <2>1, <2>2, <2>3 DEF DownloadOutcome
<1>5. CASE ~(g.retry_download_on_expired /\ st = "EXPIRED")
  <2>1. r = update_state_and_update_result(h, IDLE, download_failure_result(st))
    BY <1>5 DEF download_failed
  <2>. QED  BY <1>1, <2>1, StartAndFailureResults, UpdateStateAndResultPair
            DEF DownloadOutcome, Pair
<1>. QED  BY <1>3, <1>4, <1>5

(* download_completed(): Downloaded with Result Initial, or Idle with a  *)
(* failure.                                                               *)
LEMMA DownloadCompletedPair ==
    ASSUME NEW g \in FwRecords, NEW open \in Int, NEW fin \in Int
    PROVE  DownloadOutcome(download_completed(g, open, fin))
<1>. DEFINE o == user_state_ensure_stream_open(g, open)
            r == download_completed(g, open, fin)
<1>1. o \in FwRecords
  BY EnsureStreamOpenType
<1>2. stream_open_rc(g, open) \in Int
  BY DEF stream_open_rc
<1>3. NOT_ENOUGH_SPACE \in Results /\ Failure(NOT_ENOUGH_SPACE)
  BY ConstantValuesType, ValuesDistinct
<1>4. CASE stream_open_rc(g, open) # 0
  <2>1. r = handle_err_result(o, IDLE, stream_open_rc(g, open), NOT_ENOUGH_SPACE)
    BY <1>4 DEF download_completed
  <2>. QED  BY <1>1, <1>2, <1>3, <2>1, HandleErrResultPair DEF DownloadOutcome
<1>5. CASE stream_open_rc(g, open) = 0 /\ fin # 0
  <2>1. r = handle_err_result(finish_user_stream(o, fin), IDLE, fin,
                              NOT_ENOUGH_SPACE)
    BY <1>5 DEF download_completed
  <2>2. finish_user_stream(o, fin) \in FwRecords
    BY <1>1, FinishUserStreamType
  <2>. QED  BY <1>3, <2>1, <2>2, HandleErrResultPair DEF DownloadOutcome
<1>6. CASE stream_open_rc(g, open) = 0 /\ fin = 0
  <2>1. r = update_state_and_update_result(finish_user_stream(o, fin),
                                           DOWNLOADED, INITIAL)
    BY <1>6 DEF download_completed
  <2>2. finish_user_stream(o, fin) \in FwRecords
    BY <1>1, FinishUserStreamType
  <2>. QED  BY <2>1, <2>2, ConstantValuesType, UpdateStateAndResultPair
            DEF DownloadOutcome
<1>. QED  BY <1>4, <1>5, <1>6

(* download_finished(): a transfer that ends after State left Downloading *)
(* changes nothing servers see; one that ends while Downloading settles.  *)
LEMMA DownloadFinishedPair ==
    ASSUME NEW f \in FwRecords, NEW st, NEW open \in Int, NEW fin \in Int,
           NEW sec \in Int, NEW start
    PROVE  /\ f.state # DOWNLOADING
                => SamePair(download_finished(f, st, open, fin, sec, start), f)
           /\ f.state = DOWNLOADING
                => DownloadOutcome(download_finished(f, st, open, fin, sec, start))
<1>. DEFINE g == [f EXCEPT !.download_handle = FALSE]
            r == download_finished(f, st, open, fin, sec, start)
<1>1. g \in FwRecords /\ SamePair(g, f)
  BY DEF FwRecords, SamePair
<1>2. CASE f.state # DOWNLOADING
  <2>1. r = reset_user_state(g)
    BY <1>1, <1>2 DEF download_finished, SamePair
  <2>2. SamePair(reset_user_state(g), g)
    BY <1>1, ResetUserStatePair
  <2>. QED  BY <1>1, <1>2, <2>1, <2>2 DEF SamePair
<1>3. CASE f.state = DOWNLOADING /\ st # "FINISHED"
  <2>1. r = download_failed(g, st, sec, start)
    BY <1>1, <1>3 DEF download_finished, SamePair
  <2>. QED  BY <1>1, <1>3, <2>1, DownloadFailedPair, ValuesDistinct
<1>4. CASE f.state = DOWNLOADING /\ st = "FINISHED"
  <2>1. r = download_completed(g, open, fin)
    BY <1>1, <1>4 DEF download_finished, SamePair
  <2>. QED  BY <1>1, <1>4, <2>1, DownloadCompletedPair, ValuesDistinct
<1>. QED  BY <1>2, <1>3, <1>4

(* download_write_block(): a delivered block changes nothing servers see, *)
(* and a failed open or write settles the object Idle with a failure.    *)
LEMMA DownloadWriteBlockPair ==
    ASSUME NEW f \in FwRecords, NEW open \in Int, NEW wr \in Int
    PROVE  \/ SamePair(download_write_block(f, open, wr), f)
           \/ /\ download_write_block(f, open, wr).state = IDLE
              /\ Failure(download_write_block(f, open, wr).result)
<1>. DEFINE g  == user_state_ensure_stream_open(f, open)
            rc == IF stream_open_rc(f, open) # 0 THEN stream_open_rc(f, open) ELSE wr
            k  == handle_err_result(g, IDLE, rc, NOT_ENOUGH_SPACE)
            r  == download_write_block(f, open, wr)
<1>1. g \in FwRecords /\ SamePair(g, f)
  BY EnsureStreamOpenType, EnsureStreamOpenPair
<1>2. rc \in Int
  BY DEF stream_open_rc
<1>3. CASE rc = 0
  BY <1>1, <1>3 DEF download_write_block
<1>4. CASE rc # 0
  <2>1. r = download_finished(k, "FAILED_OTHER", 0, 0, 0, "OK")
    BY <1>4 DEF download_write_block
  <2>2. NOT_ENOUGH_SPACE \in Results /\ Failure(NOT_ENOUGH_SPACE)
        /\ IDLE \in States
    BY ConstantValuesType, ValuesDistinct
  <2>3. k \in FwRecords /\ k.state = IDLE /\ Failure(k.result)
    BY <1>1, <1>2, <2>2, HandleErrResultType, HandleErrResultPair
  <2>4. SamePair(download_finished(k, "FAILED_OTHER", 0, 0, 0, "OK"), k)
    BY <2>3, ValuesDistinct, DownloadFinishedPair
  <2>. QED  BY <2>1, <2>3, <2>4 DEF SamePair
<1>. QED  BY <1>3, <1>4

(* write_firmware(): a push write leaves the pair alone (failed open),   *)
(* settles Idle without Success, or completes the package.               *)
LEMMA WriteFirmwarePair ==
    ASSUME NEW f \in FwRecords, NEW payload, NEW open \in Int, NEW wr \in Int,
           NEW fin \in Int
    PROVE  \/ SamePair(write_firmware(f, payload, open, wr, fin), f)
           \/ /\ write_firmware(f, payload, open, wr, fin).state = IDLE
              /\ write_firmware(f, payload, open, wr, fin).result # SUCCESS
           \/ Pair(write_firmware(f, payload, open, wr, fin), DOWNLOADED, INITIAL)
<1>. DEFINE o == user_state_ensure_stream_open(f, open)
            r == write_firmware(f, payload, open, wr, fin)
<1>1. o \in FwRecords /\ SamePair(o, f)
  BY EnsureStreamOpenType, EnsureStreamOpenPair
<1>2. /\ {IDLE, DOWNLOADED} \subseteq States
      /\ {CONNECTION_LOST, NOT_ENOUGH_SPACE, INITIAL} \subseteq Results
      /\ Failure(CONNECTION_LOST) /\ Failure(NOT_ENOUGH_SPACE)
  BY ConstantValuesType, ValuesDistinct
<1>3. \A x : Failure(x) => x # SUCCESS
  BY DEF Failure
<1>4. INITIAL # SUCCESS
  BY DEF INITIAL, SUCCESS
<1>5. CASE stream_open_rc(f, open) # 0
  BY <1>1, <1>5 DEF write_firmware
<1>6. CASE stream_open_rc(f, open) = 0 /\ payload = "BROKEN"
  <2>. DEFINE u == update_state_and_update_result(o, IDLE, CONNECTION_LOST)
  <2>1. r = reset_user_state(u)
    BY <1>6 DEF write_firmware
  <2>2. u \in FwRecords /\ Pair(u, IDLE, CONNECTION_LOST)
    BY <1>1, <1>2, UpdateStateAndResultType, UpdateStateAndResultPair
  <2>3. SamePair(reset_user_state(u), u)
    BY <2>2, ResetUserStatePair
  <2>. QED  BY <1>2, <1>3, <2>1, <2>2, <2>3 DEF SamePair, Pair
<1>7. CASE stream_open_rc(f, open) = 0 /\ payload # "BROKEN" /\ wr # 0
  <2>. DEFINE u == handle_err_result(o, IDLE, wr, NOT_ENOUGH_SPACE)
  <2>1. r = reset_user_state(u)
    BY <1>7 DEF write_firmware
  <2>2. u \in FwRecords /\ u.state = IDLE /\ Failure(u.result)
    BY <1>1, <1>2, HandleErrResultType, HandleErrResultPair
  <2>3. SamePair(reset_user_state(u), u)
    BY <2>2, ResetUserStatePair
  <2>. QED  BY <1>3, <2>1, <2>2, <2>3 DEF SamePair
<1>8. CASE stream_open_rc(f, open) = 0 /\ payload = "RESET" /\ wr = 0
  <2>1. r = reset(o)
    BY <1>8 DEF write_firmware
  <2>. QED  BY <1>1, <1>4, <2>1, ResetPair DEF Pair
<1>9. CASE stream_open_rc(f, open) = 0 /\ payload \notin {"BROKEN", "RESET"}
           /\ wr = 0 /\ fin # 0
  <2>1. r = handle_err_result(finish_user_stream(o, fin), IDLE, fin,
                              NOT_ENOUGH_SPACE)
    BY <1>9 DEF write_firmware
  <2>2. finish_user_stream(o, fin) \in FwRecords
    BY <1>1, FinishUserStreamType
  <2>. QED  BY <1>2, <1>3, <2>1, <2>2, HandleErrResultPair
<1>10. CASE stream_open_rc(f, open) = 0 /\ payload \notin {"BROKEN", "RESET"}
            /\ wr = 0 /\ fin = 0
  <2>1. r = update_state_and_update_result(finish_user_stream(o, fin),
                                           DOWNLOADED, INITIAL)
    BY <1>10 DEF write_firmware
  <2>2. finish_user_stream(o, fin) \in FwRecords
    BY <1>1, FinishUserStreamType
  <2>. QED  BY <1>2, <2>1, <2>2, UpdateStateAndResultPair
<1>. QED  BY <1>5, <1>6, <1>7, <1>8, <1>9, <1>10

(* fw_write() on /5/0/0. *)
LEMMA FwWritePackagePair ==
    ASSUME NEW f \in FwRecords, NEW payload, NEW open \in Int, NEW wr \in Int,
           NEW fin \in Int
    PROVE  \/ SamePair(fw_write_package(f, payload, open, wr, fin), f)
           \/ /\ f.state # UPDATING
              /\ fw_write_package(f, payload, open, wr, fin).state = IDLE
              /\ fw_write_package(f, payload, open, wr, fin).result # SUCCESS
           \/ /\ f.state = IDLE
              /\ Pair(fw_write_package(f, payload, open, wr, fin),
                      DOWNLOADED, INITIAL)
<1>. DEFINE r == fw_write_package(f, payload, open, wr, fin)
<1>1. CASE f.state = UPDATING
  BY <1>1, ValuesDistinct DEF fw_write_package, SamePair
<1>2. CASE f.state = IDLE
  <2>1. r = write_firmware(f, payload, open, wr, fin)
    BY <1>2, ValuesDistinct DEF fw_write_package
  <2>. QED  BY <1>2, <2>1, ValuesDistinct, WriteFirmwarePair
<1>3. CASE f.state \notin {UPDATING, IDLE} /\ payload = "RESET"
  <2>1. r = reset(cancel_existing_download_if_in_progress(f))
    BY <1>3 DEF fw_write_package
  <2>2. Pair(reset(cancel_existing_download_if_in_progress(f)), IDLE, INITIAL)
    BY CancelType, ResetPair
  <2>3. INITIAL # SUCCESS
    BY DEF INITIAL, SUCCESS
  <2>. QED  BY <1>3, <2>1, <2>2, <2>3 DEF Pair
<1>4. CASE f.state \notin {UPDATING, IDLE} /\ payload # "RESET"
  BY <1>4 DEF fw_write_package, SamePair
<1>. QED  BY <1>1, <1>2, <1>3, <1>4

(* fw_write() on /5/0/1: a cancel settles Idle/Initial, a URI written in *)
(* Idle starts a download or reports a failure.                          *)
LEMMA FwWritePackageUriPair ==
    ASSUME NEW f \in FwRecords, NEW uri \in {NoUri} \cup Uris, NEW sec \in Int,
           NEW start
    PROVE  \/ SamePair(fw_write_package_uri(f, uri, sec, start), f)
           \/ /\ f.state # UPDATING
              /\ fw_write_package_uri(f, uri, sec, start).state = IDLE
              /\ fw_write_package_uri(f, uri, sec, start).result # SUCCESS
           \/ /\ f.state = IDLE
              /\ Pair(fw_write_package_uri(f, uri, sec, start),
                      DOWNLOADING, INITIAL)
<1>. DEFINE r == fw_write_package_uri(f, uri, sec, start)
            c == cancel_existing_download_if_in_progress(f)
            u == [f EXCEPT !.package_uri = uri]
<1>0. /\ INITIAL # SUCCESS /\ UNSUPPORTED_PROTOCOL # SUCCESS
  BY DEF INITIAL, SUCCESS, UNSUPPORTED_PROTOCOL
<1>1. CASE uri = NoUri /\ f.state = UPDATING
  BY <1>1 DEF fw_write_package_uri, SamePair
<1>2. CASE uri = NoUri /\ f.state # UPDATING
  <2>1. r = reset([c EXCEPT !.package_uri = NoUri])
    BY <1>2 DEF fw_write_package_uri
  <2>2. c \in FwRecords
    BY CancelType
  <2>3. [c EXCEPT !.package_uri = NoUri] \in FwRecords
    BY <2>2 DEF FwRecords
  <2>4. Pair(reset([c EXCEPT !.package_uri = NoUri]), IDLE, INITIAL)
    BY <2>3, ResetPair
  <2>. QED  BY <1>0, <1>2, <2>1, <2>4 DEF Pair
<1>3. CASE uri # NoUri /\ f.state # IDLE
  BY <1>3 DEF fw_write_package_uri, SamePair
<1>4. CASE uri # NoUri /\ f.state = IDLE
           /\ transport_security_from_uri(uri) = "UNDEFINED"
  <2>1. r = set_update_result(f, UNSUPPORTED_PROTOCOL)
    BY <1>4 DEF fw_write_package_uri
  <2>2. r.state = f.state /\ r.result = UNSUPPORTED_PROTOCOL
    BY <2>1, SetUpdateResultPair
  <2>. QED  BY <1>0, <1>4, <2>2, ValuesDistinct
<1>5. CASE uri # NoUri /\ f.state = IDLE
           /\ transport_security_from_uri(uri) # "UNDEFINED"
  <2>1. r = schedule_download(u, FALSE, sec, start)
    BY <1>5 DEF fw_write_package_uri
  <2>2. u \in FwRecords /\ u.state = IDLE
    BY <1>5 DEF FwRecords
  <2>3. CASE schedule_download_ok(u, sec, start)
    BY <1>5, <2>1, <2>2, <2>3, SchedulePair
  <2>4. CASE ~schedule_download_ok(u, sec, start)
    <3>0. /\ schedule_download(u, FALSE, sec, start).state \in {IDLE, u.state}
          /\ Failure(schedule_download(u, FALSE, sec, start).result)
      BY <2>2, <2>4, SchedulePair
    <3>1. r.state = IDLE /\ Failure(r.result)
      BY <2>1, <2>2, <3>0
    <3>. QED  BY <1>5, <3>1, ValuesDistinct DEF Failure
  <2>. QED  BY <2>3, <2>4
<1>. QED  BY <1>1, <1>2, <1>3, <1>4, <1>5

(* anjay_fw_update_set_result(): Idle with the result the gate allowed. *)
LEMMA SetResultPair ==
    ASSUME NEW f \in FwRecords, NEW res \in Results
    PROVE  \/ SamePair(anjay_fw_update_set_result(f, res), f)
           \/ /\ is_result_change_allowed(f.state, res)
              /\ Pair(anjay_fw_update_set_result(f, res), IDLE, res)
<1>1. CASE is_result_change_allowed(f.state, res)
  <2>1. reset_user_state(f) \in FwRecords
    BY ResetUserStateType
  <2>2. Pair(update_state_and_update_result(reset_user_state(f), IDLE, res),
             IDLE, res)
    BY <2>1, UpdateStateAndResultPair
  <2>. QED  BY <1>1, <2>2 DEF anjay_fw_update_set_result
<1>2. CASE ~is_result_change_allowed(f.state, res)
  BY <1>2 DEF anjay_fw_update_set_result, SamePair
<1>. QED  BY <1>1, <1>2

-----------------------------------------------------------------------------
(* Initial states.                                                         *)

(* With prefer_same_socket_downloads off, a persisted Downloading state   *)
(* restarts Downloading with Result Initial, or Idle.                     *)
LEMMA InitializeDownloadingPair ==
    ASSUME NEW uri \in {NoUri} \cup Uris,
           NEW etag \in BOOLEAN, NEW offset \in BOOLEAN,
           NEW deferred \in BOOLEAN, NEW sec \in Int, NEW start,
           NEW sec2 \in Int, NEW start2
    PROVE  ResultInitialInProgress(initialize_downloading(FALSE, uri, etag,
                                       offset, deferred, sec, start, sec2, start2))
<1>. DEFINE f0 == [Zero EXCEPT !.user_state = DOWNLOADING]
            f1 == IF offset /\ ~etag THEN reset_user_state(f0) ELSE f0
            f2 == [f1 EXCEPT !.package_uri = uri]
            s2 == schedule_download(f2, etag, sec, start)
            f3 == reset_user_state(s2)
            r  == initialize_downloading(FALSE, uri, etag, offset, deferred,
                                         sec, start, sec2, start2)
<1>0. \A g : g.state = IDLE => ResultInitialInProgress(g)
  BY ValuesDistinct DEF ResultInitialInProgress
<1>1. f0 \in FwRecords /\ f0.state = IDLE
  BY ZeroType, ConstantValuesType DEF FwRecords, Zero
<1>2. f1 \in FwRecords /\ f1.state = IDLE
  BY <1>1, ResetUserStateType, ResetUserStatePair DEF SamePair
<1>3. f2 \in FwRecords /\ f2.state = IDLE
  BY <1>2 DEF FwRecords
<1>4. ~defers_download(FALSE, etag, deferred)
  BY DEF defers_download
<1>5. /\ schedule_background_anjay_download(f2, FALSE, etag, deferred, sec, start)
          = s2
      /\ schedule_background_anjay_download(f3, FALSE, FALSE, deferred, sec2,
                                            start2)
          = schedule_download(f3, FALSE, sec2, start2)
  BY <1>4 DEF schedule_background_anjay_download, defers_download
<1>6. r = IF uri = NoUri THEN reset_user_state(f1)
          ELSE IF schedule_download_ok(f2, sec, start) THEN s2
          ELSE IF f3.result = CONNECTION_LOST /\ etag
          THEN schedule_download(f3, FALSE, sec2, start2)
          ELSE f3
  BY <1>4, <1>5, Zenon DEF initialize_downloading
<1>7. CASE uri = NoUri
  <2>1. reset_user_state(f1).state = IDLE
    BY <1>2, ResetUserStatePair DEF SamePair
  <2>. QED  BY <1>0, <1>6, <1>7, <2>1
<1>8. CASE uri # NoUri /\ schedule_download_ok(f2, sec, start)
  <2>1. Pair(s2, DOWNLOADING, INITIAL)
    BY <1>3, <1>8, SchedulePair
  <2>. QED  BY <1>6, <1>8, <2>1 DEF Pair, ResultInitialInProgress
<1>9. CASE uri # NoUri /\ ~schedule_download_ok(f2, sec, start)
  <2>1. s2 \in FwRecords /\ s2.state \in {IDLE, f2.state}
    BY <1>3, <1>9, SchedulePair, ScheduleDownloadType
  <2>2. f3 \in FwRecords /\ f3.state = IDLE
    BY <1>3, <2>1, ResetUserStateType, ResetUserStatePair DEF SamePair
  <2>3. ResultInitialInProgress(schedule_download(f3, FALSE, sec2, start2))
    <3>1. CASE schedule_download_ok(f3, sec2, start2)
      <4>1. Pair(schedule_download(f3, FALSE, sec2, start2), DOWNLOADING, INITIAL)
        BY <2>2, <3>1, SchedulePair
      <4>. QED  BY <4>1 DEF Pair, ResultInitialInProgress
    <3>2. CASE ~schedule_download_ok(f3, sec2, start2)
      <4>1. schedule_download(f3, FALSE, sec2, start2).state \in {IDLE, f3.state}
        BY <2>2, <3>2, SchedulePair
      <4>. QED  BY <1>0, <2>2, <4>1
    <3>. QED  BY <3>1, <3>2
  <2>4. ResultInitialInProgress(f3)
    BY <1>0, <2>2
  <2>. QED  BY <1>6, <1>9, <2>3, <2>4
<1>. QED  BY <1>7, <1>8, <1>9

(* Every persisted state restarts with Result Initial if something is in *)
(* progress.                                                              *)
LEMMA InitializeFwReprPair ==
    ASSUME NEW kind, NEW uri \in {NoUri} \cup Uris,
           NEW etag \in BOOLEAN, NEW offset \in BOOLEAN,
           NEW deferred \in BOOLEAN, NEW sec \in Int, NEW start,
           NEW sec2 \in Int, NEW start2
    PROVE  ResultInitialInProgress(initialize_fw_repr(kind, FALSE, uri, etag,
                                       offset, deferred, sec, start, sec2, start2))
<1>1. ResultInitialInProgress([Zero EXCEPT !.package_uri = uri,
                               !.user_state = DOWNLOADED, !.state = DOWNLOADED])
  BY DEF Zero, ResultInitialInProgress
<1>2. ResultInitialInProgress([Zero EXCEPT !.user_state = UPDATING,
                               !.state = UPDATING])
  BY DEF Zero, ResultInitialInProgress
<1>3. \A res : ResultInitialInProgress([Zero EXCEPT !.result = res])
  BY ValuesDistinct DEF Zero, ResultInitialInProgress
<1>4. ResultInitialInProgress(Zero)
  BY DEF Zero, ResultInitialInProgress
<1>. QED  BY <1>1, <1>2, <1>3, <1>4, InitializeDownloadingPair
          DEF initialize_fw_repr

-----------------------------------------------------------------------------
(* The refinement.                                                         *)

RInv == IInv /\ ResultInitialInProgress(fw)

LEMMA InitRInv ==
    ASSUME CoreEnvironment
    PROVE  Init => RInv
<1>. SUFFICES ASSUME Init PROVE RInv
  OBVIOUS
<1>1. PICK kind \in InitialStateKinds, prefer \in PreferSameSocketValues,
           uri \in {NoUri} \cup ValidUris, etag, offset, deferred \in BOOLEAN,
           sec, sec2 \in HandlerResults, start, start2 \in StartResults :
          fw = installed(initialize_fw_repr(kind, prefer, uri, etag, offset,
                                            deferred, sec, start, sec2, start2))
  BY DEF Init
<1>2. prefer = FALSE
  BY <1>1 DEF CoreEnvironment
<1>3. ResultInitialInProgress(initialize_fw_repr(kind, FALSE, uri, etag, offset,
                                  deferred, sec, start, sec2, start2))
  BY InitializeFwReprPair, ConstantsAssumption DEF ValidUris
<1>4. \A f : ResultInitialInProgress(f) => ResultInitialInProgress(installed(f))
  BY DEF installed, ResultInitialInProgress
<1>. QED  BY <1>1, <1>2, <1>3, <1>4, InitIInv DEF RInv

(* Every step of the object moves (State, Result) along the abstract     *)
(* machine or leaves it alone.                                            *)
LEMMA NextMove ==
    ASSUME CoreEnvironment
    PROVE  RInv /\ [Next]_vars => AbsMove(fw, fw')
<1>. SUFFICES ASSUME RInv, [Next]_vars PROVE AbsMove(fw, fw')
  OBVIOUS
<1>0. /\ fw \in FwRecords /\ TransferConsistent(fw)
      /\ ResultInitialInProgress(fw)
      /\ HandlerResults \subseteq Int
  BY ConstantsAssumption DEF RInv, IInv, TypeOK
<1>1. CASE WritePackage
  <2>1. PICK payload \in Payloads, open, wr, fin \in HandlerResults :
            fw' = fw_write_package(fw, payload, open, wr, fin)
    BY <1>1 DEF WritePackage
  <2>. QED  BY <1>0, <2>1, FwWritePackagePair, ValuesDistinct DEF AbsMove
<1>2. CASE WritePackageUri
  <2>1. PICK uri \in {NoUri} \cup Uris, sec \in HandlerResults,
             start \in StartResults :
            fw' = fw_write_package_uri(fw, uri, sec, start)
    BY <1>2 DEF WritePackageUri
  <2>. QED  BY <1>0, <2>1, FwWritePackageUriPair DEF AbsMove
<1>3. CASE DownloadWriteBlock
  <2>1. PICK open, wr \in HandlerResults :
            fw' = download_write_block(fw, open, wr)
    BY <1>3 DEF DownloadWriteBlock
  <2>2. fw.state = DOWNLOADING
    BY <1>0, <1>3 DEF DownloadWriteBlock, TransferConsistent
  <2>3. \/ SamePair(fw', fw)
        \/ fw'.state = IDLE /\ Failure(fw'.result)
    BY <1>0, <2>1, DownloadWriteBlockPair
  <2>. QED  BY <2>2, <2>3, ValuesDistinct DEF AbsMove, Failure
<1>4. CASE DownloadFinished
  <2>1. PICK st \in DownloadStatuses, open, fin, sec \in HandlerResults,
             start \in StartResults :
            fw' = download_finished(fw, st, open, fin, sec, start)
    BY <1>4 DEF DownloadFinished
  <2>2. fw.state = DOWNLOADING /\ fw.result = INITIAL
    BY <1>0, <1>4 DEF DownloadFinished, TransferConsistent,
                      ResultInitialInProgress
  <2>3. DownloadOutcome(fw')
    BY <1>0, <2>1, <2>2, DownloadFinishedPair
  <2>. QED  BY <2>2, <2>3, ValuesDistinct
            DEF DownloadOutcome, AbsMove, SamePair, Pair, Failure
<1>5. CASE ResumeDownloadJob
  BY <1>0, <1>5 DEF ResumeDownloadJob, TransferConsistent
<1>6. CASE SetResult
  <2>1. PICK r \in SetResultValues : fw' = anjay_fw_update_set_result(fw, r)
    BY <1>6 DEF SetResult
  <2>2. r \in Results /\ fw.state \in States
    BY <1>0, ConstantsAssumption DEF FwRecords
  <2>3. \/ SamePair(fw', fw)
        \/ is_result_change_allowed(fw.state, r) /\ Pair(fw', IDLE, r)
    BY <1>0, <2>1, <2>2, SetResultPair
  <2>4. is_result_change_allowed(fw.state, r)
          => \/ fw.state \in {DOWNLOADING, DOWNLOADED} /\ r # SUCCESS
             \/ fw.state = UPDATING /\ r # INITIAL
    BY <2>2, ValuesDistinct DEF is_result_change_allowed, States
  <2>. QED  BY <2>3, <2>4, ValuesDistinct DEF AbsMove, Pair
<1>7. CASE Execute
  BY <1>7 DEF Execute, CoreEnvironment
<1>8. CASE RegistrationChange
  BY <1>8 DEF RegistrationChange, AbsMove, SamePair
<1>9. CASE UNCHANGED vars
  BY <1>9 DEF vars, AbsMove, SamePair
<1>. QED  BY <1>1, <1>2, <1>3, <1>4, <1>5, <1>6, <1>7, <1>8, <1>9 DEF Next

LEMMA NextRInv ==
    ASSUME CoreEnvironment
    PROVE  RInv /\ [Next]_vars => RInv'
<1>. SUFFICES ASSUME RInv, [Next]_vars PROVE RInv'
  OBVIOUS
<1>1. IInv'
  BY NextIInv DEF RInv
<1>2. AbsMove(fw, fw') /\ ResultInitialInProgress(fw)
  BY NextMove DEF RInv
<1>. QED  BY <1>1, <1>2, MoveKeepsInitial DEF RInv

(* The mapped initial state is one of the abstract machine. *)
LEMMA InitAbstract ==
    ASSUME CoreEnvironment
    PROVE  Init => Abs!Init
<1>. SUFFICES ASSUME Init PROVE Abs!Init
  OBVIOUS
<1>1. fw \in FwRecords /\ ResultInitialInProgress(fw)
  BY InitRInv DEF RInv, IInv, TypeOK
<1>. QED  BY <1>1 DEF FwRecords, ResultInitialInProgress, Abs!Init,
             Abs!States, Abs!Results, Abs!InProgress, Abs!IDLE,
             Abs!DOWNLOADING, Abs!DOWNLOADED, Abs!UPDATING, Abs!INITIAL,
             States, Results, IDLE, DOWNLOADING, DOWNLOADED, UPDATING, INITIAL

(* A move of the pair between two well-typed states is a step of the     *)
(* abstract machine or a stutter.                                         *)
LEMMA MoveAbstract ==
    ASSUME NEW f \in FwRecords, NEW g \in FwRecords, AbsMove(f, g)
    PROVE  \/ /\ f.state = IDLE
              /\ g.state = DOWNLOADING /\ g.result = INITIAL
           \/ /\ f.state \in {IDLE, DOWNLOADING}
              /\ g.state = DOWNLOADED /\ g.result = INITIAL
           \/ /\ f.state # UPDATING
              /\ g.state = IDLE /\ g.result \in Results \ {SUCCESS}
           \/ /\ f.state = UPDATING
              /\ g.state = IDLE /\ g.result \in Results \ {INITIAL}
           \/ g.state = f.state /\ g.result = f.result
BY DEF AbsMove, SamePair, Pair, FwRecords

LEMMA NextAbstract ==
    ASSUME CoreEnvironment
    PROVE  RInv /\ [Next]_vars => [Abs!Next]_Abs!vars
<1>. SUFFICES ASSUME RInv, [Next]_vars PROVE [Abs!Next]_Abs!vars
  OBVIOUS
<1>1. fw \in FwRecords /\ fw' \in FwRecords
  BY NextTypeOK DEF RInv, IInv, TypeOK
<1>2. AbsMove(fw, fw')
  BY NextMove
<1>3. \/ /\ fw.state = IDLE
         /\ fw'.state = DOWNLOADING /\ fw'.result = INITIAL
      \/ /\ fw.state \in {IDLE, DOWNLOADING}
         /\ fw'.state = DOWNLOADED /\ fw'.result = INITIAL
      \/ /\ fw.state # UPDATING
         /\ fw'.state = IDLE /\ fw'.result \in Results \ {SUCCESS}
      \/ /\ fw.state = UPDATING
         /\ fw'.state = IDLE /\ fw'.result \in Results \ {INITIAL}
      \/ fw'.state = fw.state /\ fw'.result = fw.result
  BY <1>1, <1>2, MoveAbstract
<1>. QED  BY <1>3 DEF Abs!Next, Abs!vars, Abs!StartDownload,
             Abs!FinishDownload, Abs!Abandon, Abs!StartUpdate,
             Abs!ReportUpdate, Abs!Results, Abs!IDLE, Abs!DOWNLOADING,
             Abs!DOWNLOADED, Abs!UPDATING, Abs!INITIAL, Abs!SUCCESS,
             Results, IDLE, DOWNLOADING, DOWNLOADED, UPDATING, INITIAL,
             SUCCESS

(* In the core environment, and for every value of the other               *)
(* constants, servers see State and Update Result move only as the LwM2M *)
(* state machine allows (RefinesAbstract): downloads start from Idle,    *)
(* packages are Downloaded only from Idle or Downloading and with Result *)
(* Initial, Success is never reported without an upgrade, through every  *)
(* handler, callback, ETag restart and persisted initial state.          *)
THEOREM RefinementCore ==
    ASSUME CoreEnvironment
    PROVE  Spec => RefinesAbstract
<1>1. Init => RInv /\ Abs!Init
  BY InitRInv, InitAbstract
<1>2. RInv /\ [Next]_vars => RInv'
  BY NextRInv
<1>3. RInv /\ [Next]_vars => [Abs!Next]_Abs!vars
  BY NextAbstract
<1>. QED  BY <1>1, <1>2, <1>3, PTL DEF Spec, RefinesAbstract, Abs!Spec

(* In the core environment a Downloading or Downloaded object always       *)
(* shows Result Initial (ProgressResultInitial): no start error, failed   *)
(* restart or application report leaves a failure next to a download in   *)
(* progress.                                                              *)
THEOREM ProgressResultInitialCore ==
    ASSUME CoreEnvironment
    PROVE  Spec => []ProgressResultInitial
<1>1. Init => RInv
  BY InitRInv
<1>2. RInv /\ [Next]_vars => RInv'
  BY NextRInv
<1>3. RInv => ProgressResultInitial
  BY DEF RInv, ResultInitialInProgress, ProgressResultInitial
<1>. QED  BY <1>1, <1>2, <1>3, PTL DEF Spec

=============================================================================
