------------------------------ MODULE FwUpdate ------------------------------
(***************************************************************************)
(* The LwM2M Firmware Update object (/5) of the client, as implemented in  *)
(* src/src/modules/fw_update/anjay_fw_update.c.                            *)
(*                                                                         *)
(* The object's state (struct fw_repr) is the record variable fw.  Every   *)
(* handler runs with the client mutex held, so each one is one atomic      *)
(* step; the static helpers of the C file are operators from a record to   *)
(* a record, composed in the order the handler calls them.  Calls into     *)
(* the user's handlers (stream_open, stream_write, stream_finish, reset,   *)
(* get_security_config) are nondeterministic results drawn from           *)
(* HandlerResults.  A failed assert() sets fw.fault to the site's name:   *)
(* the debug build aborts there, so a faulted state has no successor.     *)
(***************************************************************************)
EXTENDS Integers

CONSTANTS
    NoUri,                  \* package_uri == NULL (and the empty string written)
    Uris,                   \* non-empty Package URIs a server may write
    EncryptedUris,          \* those whose scheme is coaps/https/...
    UnsupportedUris,        \* those whose scheme has no transport
    HandlerResults,         \* values the user's handlers may return
    StartResults,           \* outcomes of _anjay_download_unlocked()
    DownloadStatuses,       \* outcomes the downloader reports at the end
    MaxResumePolls,         \* resumption polls before the 5 min deadline
    PreferSameSocketValues, \* prefer_same_socket_downloads at install
    SetResultStates,        \* States in which the application calls set_result
    SetResultValues,        \* results the application passes to set_result
    ServerExecutes          \* whether servers Execute /5/0/2

(* fw_update_state_t *)
IDLE == 0
DOWNLOADING == 1
DOWNLOADED == 2
UPDATING == 3
States == {IDLE, DOWNLOADING, DOWNLOADED, UPDATING}

(* anjay_fw_update_result_t *)
INITIAL == 0
SUCCESS == 1
NOT_ENOUGH_SPACE == 2
OUT_OF_MEMORY == 3
CONNECTION_LOST == 4
INTEGRITY_FAILURE == 5
UNSUPPORTED_PACKAGE_TYPE == 6
INVALID_URI == 7
FAILED == 8
UNSUPPORTED_PROTOCOL == 9
Results == 0..9

AllStartResults ==
    {"OK", "EADDRNOTAVAIL", "EINVAL", "ENOMEM", "EPROTONOSUPPORT", "EIO"}
AllDownloadStatuses ==
    {"FINISHED", "FAILED_ENOMEM", "FAILED_EADDRNOTAVAIL", "FAILED_OTHER",
     "INVALID_RESPONSE_NOT_FOUND", "INVALID_RESPONSE_OTHER", "EXPIRED"}

ValidUris == Uris \ UnsupportedUris

ASSUME ConstantsAssumption ==
    /\ NoUri \notin Uris
    /\ EncryptedUris \subseteq Uris /\ UnsupportedUris \subseteq Uris
    /\ EncryptedUris \cap UnsupportedUris = {}
    /\ HandlerResults \subseteq Int /\ 0 \in HandlerResults
    /\ StartResults \subseteq AllStartResults
    /\ DownloadStatuses \subseteq AllDownloadStatuses
    /\ MaxResumePolls \in Nat
    /\ PreferSameSocketValues \subseteq BOOLEAN
    /\ PreferSameSocketValues # {}
    /\ SetResultStates \subseteq States /\ SetResultValues \subseteq Results
    /\ ServerExecutes \in BOOLEAN

(* The assert() sites that a reachable state can violate. *)
NoFault == "none"
AssertionSites ==
    {"user_state_ensure_stream_open: user->state == IDLE",
     "get_security_config: user_state IDLE or DOWNLOADING",
     "schedule_download: !fw->download_handle",
     "cancel_existing_download: !fw->download_handle",
     "cancel_existing_download: fw->download_handle",
     "fw_execute: strlen(NULL package_uri)",
     "fw_execute: strcmp on a NULL checksum"}

VARIABLES
    fw,          \* struct fw_repr (plus the values last notified)
    registering  \* _anjay_ongoing_registration_exists_unlocked()

vars == <<fw, registering>>

FwRecords ==
    [state: States, result: Results, user_state: States,
     package_uri: {NoUri} \cup Uris,
     download_handle: BOOLEAN, retry_download_on_expired: BOOLEAN,
     resume_download_job: BOOLEAN, polls: 0..MaxResumePolls,
     notified_state: States, notified_result: Results,
     fault: {NoFault} \cup AssertionSites]

-----------------------------------------------------------------------------
(* Helpers of the C file, as record transformers.                          *)

fail(f, site) == IF f.fault = NoFault THEN [f EXCEPT !.fault = site] ELSE f

transport_security_from_uri(u) ==
    IF u \in EncryptedUris THEN "ENCRYPTED"
    ELSE IF u \in UnsupportedUris \/ u = NoUri THEN "UNDEFINED"
    ELSE "NOSEC"

set_update_result(f, r) ==
    IF f.result = r THEN f ELSE [f EXCEPT !.result = r, !.notified_result = r]

(* Mutant: the State change is not notified. *)
set_state_silent(f, s) == IF f.state = s THEN f ELSE [f EXCEPT !.state = s]

set_state(f, s) ==
    IF f.state = s THEN f ELSE [f EXCEPT !.state = s, !.notified_state = s]

update_state_and_update_result(f, s, r) == set_state(set_update_result(f, r), s)

(* The user's stream_open runs only when no stream is open yet. *)
user_state_ensure_stream_open(f, open) ==
    IF f.user_state = DOWNLOADING THEN f
    ELSE IF f.user_state # IDLE
         THEN fail(f, "user_state_ensure_stream_open: user->state == IDLE")
    ELSE IF open = 0 THEN [f EXCEPT !.user_state = DOWNLOADING] ELSE f

(* What user_state_ensure_stream_open() returns. *)
stream_open_rc(f, open) == IF f.user_state = DOWNLOADING THEN 0 ELSE open

(* Mutant: a failed stream_finish still counts as a finished stream. *)
finish_user_stream_ignoring_error(f, fin) == [f EXCEPT !.user_state = DOWNLOADED]

finish_user_stream(f, fin) ==
    [f EXCEPT !.user_state = IF fin = 0 THEN DOWNLOADED ELSE IDLE]

reset_user_state(f) == [f EXCEPT !.user_state = IDLE]

(* Mutant: the handler's code is stored without negating it. *)
handle_err_result_unnegated(f, s, rc, default) ==
    update_state_and_update_result(f, s,
        IF -rc \in {NOT_ENOUGH_SPACE, OUT_OF_MEMORY, INTEGRITY_FAILURE,
                    UNSUPPORTED_PACKAGE_TYPE} THEN rc ELSE default)

handle_err_result(f, s, rc, default) ==
    update_state_and_update_result(f, s,
        IF -rc \in {NOT_ENOUGH_SPACE, OUT_OF_MEMORY, INTEGRITY_FAILURE,
                    UNSUPPORTED_PACKAGE_TYPE} THEN -rc ELSE default)

reset(f) == update_state_and_update_result(reset_user_state(f), IDLE, INITIAL)

download_failure_result(st) ==
    CASE st = "FAILED_ENOMEM" -> OUT_OF_MEMORY
      [] st \in {"FAILED_EADDRNOTAVAIL", "INVALID_RESPONSE_NOT_FOUND"}
            -> INVALID_URI
      [] OTHER -> CONNECTION_LOST

download_start_result(err) ==
    CASE err \in {"EADDRNOTAVAIL", "EINVAL"} -> INVALID_URI
      [] err = "ENOMEM" -> OUT_OF_MEMORY
      [] err = "EPROTONOSUPPORT" -> UNSUPPORTED_PROTOCOL
      [] OTHER -> CONNECTION_LOST

(* get_security_config() is consulted only for an encrypted URI. *)
security_config_fails(f, sec) ==
    transport_security_from_uri(f.package_uri) = "ENCRYPTED" /\ sec # 0

(* schedule_download() returns 0. *)
schedule_download_ok(f, sec, start) ==
    ~security_config_fails(f, sec) /\ start = "OK"

(* Mutant: a started download keeps the previous Update Result. *)
schedule_download_keeping_result(f, etag, sec, start) ==
    IF security_config_fails(f, sec)
    THEN handle_err_result(f, IDLE, sec, UNSUPPORTED_PROTOCOL)
    ELSE IF start # "OK"
    THEN set_update_result(reset_user_state(f), download_start_result(start))
    ELSE set_state([f EXCEPT !.download_handle = TRUE,
                             !.retry_download_on_expired = etag], DOWNLOADING)

schedule_download(f, etag, sec, start) ==
    LET g == IF transport_security_from_uri(f.package_uri) = "ENCRYPTED"
                /\ f.user_state \notin {IDLE, DOWNLOADING}
             THEN fail(f, "get_security_config: user_state IDLE or DOWNLOADING")
             ELSE f
        h == IF g.download_handle
             THEN fail(g, "schedule_download: !fw->download_handle") ELSE g
    IN  IF security_config_fails(f, sec)
        THEN handle_err_result(g, IDLE, sec, UNSUPPORTED_PROTOCOL)
        ELSE IF start # "OK"
        THEN set_update_result(reset_user_state(h), download_start_result(start))
        ELSE update_state_and_update_result(
                 [h EXCEPT !.download_handle = TRUE,
                           !.retry_download_on_expired = etag],
                 DOWNLOADING, INITIAL)

(* Mutant: the restart after an expired ETag keeps the ETag policy. *)
download_failed_keeping_etag(g, st, sec, start) ==
    LET h == reset_user_state(g)
    IN  IF g.retry_download_on_expired /\ st = "EXPIRED"
        THEN IF schedule_download_ok(h, sec, start)
             THEN schedule_download(h, TRUE, sec, start)
             ELSE set_state(schedule_download(h, TRUE, sec, start), IDLE)
        ELSE update_state_and_update_result(h, IDLE, download_failure_result(st))

(* Mutant: a failed restart after an expired ETag leaves State as it is. *)
download_failed_no_idle(g, st, sec, start) ==
    LET h == reset_user_state(g)
    IN  IF g.retry_download_on_expired /\ st = "EXPIRED"
        THEN schedule_download(h, FALSE, sec, start)
        ELSE update_state_and_update_result(h, IDLE, download_failure_result(st))

(* Mutant: a failed transfer does not reset the user's stream. *)
download_failed_no_reset(g, st, sec, start) ==
    IF g.retry_download_on_expired /\ st = "EXPIRED"
    THEN IF schedule_download_ok(g, sec, start)
         THEN schedule_download(g, FALSE, sec, start)
         ELSE set_state(schedule_download(g, FALSE, sec, start), IDLE)
    ELSE update_state_and_update_result(g, IDLE, download_failure_result(st))

(* download_finished() when the transfer failed while State was         *)
(* Downloading: after an expired ETag the download restarts from scratch *)
(* (sec and start are the outcomes of that restart), otherwise State     *)
(* becomes Idle with the mapped result.                                   *)
download_failed(g, st, sec, start) ==
    LET h == reset_user_state(g)
    IN  IF g.retry_download_on_expired /\ st = "EXPIRED"
        THEN IF schedule_download_ok(h, sec, start)
             THEN schedule_download(h, FALSE, sec, start)
             ELSE set_state(schedule_download(h, FALSE, sec, start), IDLE)
        ELSE update_state_and_update_result(h, IDLE, download_failure_result(st))

(* download_finished() when the transfer completed: the stream is opened *)
(* if no block was delivered, then finished (open and fin are the results *)
(* of stream_open and stream_finish).                                     *)
download_completed(g, open, fin) ==
    LET o == user_state_ensure_stream_open(g, open)
    IN  IF stream_open_rc(g, open) # 0
        THEN handle_err_result(o, IDLE, stream_open_rc(g, open), NOT_ENOUGH_SPACE)
        ELSE IF fin # 0
        THEN handle_err_result(finish_user_stream(o, fin), IDLE, fin,
                               NOT_ENOUGH_SPACE)
        ELSE update_state_and_update_result(finish_user_stream(o, fin),
                                            DOWNLOADED, INITIAL)

(* Mutant: a transfer that ends after State left Downloading leaves the   *)
(* user's stream alone.                                                   *)
download_finished_no_reset_when_idle(f, st, open, fin, sec, start) ==
    LET g == [f EXCEPT !.download_handle = FALSE]
    IN  IF g.state # DOWNLOADING THEN g
        ELSE IF st # "FINISHED" THEN download_failed(g, st, sec, start)
        ELSE download_completed(g, open, fin)

(* download_finished(): the downloader's completion callback. *)
download_finished(f, st, open, fin, sec, start) ==
    LET g == [f EXCEPT !.download_handle = FALSE]
    IN  IF g.state # DOWNLOADING THEN reset_user_state(g)
        ELSE IF st # "FINISHED" THEN download_failed(g, st, sec, start)
        ELSE download_completed(g, open, fin)

(* download_write_block(): a failed open or write ends the transfer: the  *)
(* error returned to the downloader makes it call download_finished().    *)
download_write_block(f, open, wr) ==
    LET g  == user_state_ensure_stream_open(f, open)
        rc == IF stream_open_rc(f, open) # 0 THEN stream_open_rc(f, open) ELSE wr
    IN  IF rc = 0 THEN g
        ELSE download_finished(handle_err_result(g, IDLE, rc, NOT_ENOUGH_SPACE),
                               "FAILED_OTHER", 0, 0, 0, "OK")

(* resume_download_job(): the scheduler has already cleared the handle.   *)
(* Mutant: the expired branch resets the object but leaves the job queued. *)
resume_download_job_late_keeps_job(f, reg, late, resched, sec, start) ==
    LET g == [f EXCEPT !.resume_download_job = FALSE]
    IN  IF ~reg THEN schedule_download(g, TRUE, sec, start)
        ELSE IF late
        THEN update_state_and_update_result(reset_user_state(f), IDLE,
                                            CONNECTION_LOST)
        ELSE IF ~resched
        THEN update_state_and_update_result(reset_user_state(g), IDLE,
                                            OUT_OF_MEMORY)
        ELSE [g EXCEPT !.resume_download_job = TRUE, !.polls = g.polls + 1]

resume_download_job(f, reg, late, resched, sec, start) ==
    LET g == [f EXCEPT !.resume_download_job = FALSE]
    IN  IF ~reg THEN schedule_download(g, TRUE, sec, start)
        ELSE IF late
        THEN update_state_and_update_result(reset_user_state(g), IDLE,
                                            CONNECTION_LOST)
        ELSE IF ~resched
        THEN update_state_and_update_result(reset_user_state(g), IDLE,
                                            OUT_OF_MEMORY)
        ELSE [g EXCEPT !.resume_download_job = TRUE, !.polls = g.polls + 1]

(* schedule_background_anjay_download(); deferred is TRUE when both the  *)
(* avs_malloc() of the job's arguments and AVS_SCHED_NOW() succeed.       *)
defers_download(prefer, etag, deferred) == prefer /\ etag /\ deferred

schedule_background_anjay_download(f, prefer, etag, deferred, sec, start) ==
    IF defers_download(prefer, etag, deferred)
    THEN update_state_and_update_result(
             [f EXCEPT !.resume_download_job = TRUE, !.polls = 0],
             DOWNLOADING, INITIAL)
    ELSE schedule_download(f, etag, sec, start)

cancel_existing_download_if_in_progress(f) ==
    IF f.state # DOWNLOADING THEN f
    ELSE IF f.resume_download_job
    THEN IF f.download_handle
         THEN fail(f, "cancel_existing_download: !fw->download_handle")
         ELSE [f EXCEPT !.resume_download_job = FALSE]
    ELSE IF ~f.download_handle
    THEN fail(f, "cancel_existing_download: fw->download_handle")
    \* _anjay_download_abort_unlocked() calls download_finished() at once
    ELSE download_finished(f, "ABORTED", 0, 0, 0, "OK")

is_result_change_allowed(s, r) ==
    CASE s = IDLE -> FALSE
      [] s \in {DOWNLOADING, DOWNLOADED} -> r \notin {INITIAL, SUCCESS}
      [] s = UPDATING -> r # INITIAL

-----------------------------------------------------------------------------
(* The handlers.                                                           *)

(* Payload of a Write to /5/0/0: a single zero byte, other content, or a  *)
(* payload whose reading fails (_anjay_get_bytes_unlocked() != 0).        *)
Payloads == {"RESET", "DATA", "BROKEN"}

(* write_firmware() followed, in fw_write(), by reset() on a reset request *)
(* Mutant: a finished push download keeps the previous Update Result. *)
write_firmware_keeping_result(f, payload, open, wr, fin) ==
    LET o == user_state_ensure_stream_open(f, open)
    IN  IF stream_open_rc(f, open) # 0 THEN o
        ELSE IF payload = "BROKEN"
        THEN reset_user_state(
                 update_state_and_update_result(o, IDLE, CONNECTION_LOST))
        ELSE IF wr # 0
        THEN reset_user_state(handle_err_result(o, IDLE, wr, NOT_ENOUGH_SPACE))
        ELSE IF payload = "RESET" THEN reset(o)
        ELSE IF fin # 0
        THEN handle_err_result(finish_user_stream(o, fin), IDLE, fin,
                               NOT_ENOUGH_SPACE)
        ELSE set_state(finish_user_stream(o, fin), DOWNLOADED)

write_firmware(f, payload, open, wr, fin) ==
    LET o == user_state_ensure_stream_open(f, open)
    IN  IF stream_open_rc(f, open) # 0 THEN o
        ELSE IF payload = "BROKEN"
        THEN reset_user_state(
                 update_state_and_update_result(o, IDLE, CONNECTION_LOST))
        ELSE IF wr # 0
        THEN reset_user_state(handle_err_result(o, IDLE, wr, NOT_ENOUGH_SPACE))
        ELSE IF payload = "RESET" THEN reset(o)
        ELSE IF fin # 0
        THEN handle_err_result(finish_user_stream(o, fin), IDLE, fin,
                               NOT_ENOUGH_SPACE)
        ELSE update_state_and_update_result(finish_user_stream(o, fin),
                                            DOWNLOADED, INITIAL)

fw_write_package(f, payload, open, wr, fin) ==
    CASE f.state = UPDATING -> f
      [] f.state = IDLE -> write_firmware(f, payload, open, wr, fin)
      [] OTHER -> IF payload = "RESET"
                  THEN reset(cancel_existing_download_if_in_progress(f))
                  ELSE f

(* Mutant: a new Package URI is accepted in every State but Updating. *)
fw_write_package_uri_any_state(f, uri, sec, start) ==
    IF uri = NoUri
    THEN IF f.state = UPDATING THEN f
         ELSE reset([cancel_existing_download_if_in_progress(f)
                        EXCEPT !.package_uri = NoUri])
    ELSE IF f.state = UPDATING THEN f
    ELSE IF transport_security_from_uri(uri) = "UNDEFINED"
    THEN set_update_result(f, UNSUPPORTED_PROTOCOL)
    ELSE schedule_download([f EXCEPT !.package_uri = uri], FALSE, sec, start)

(* uri = NoUri is the empty string. *)
fw_write_package_uri(f, uri, sec, start) ==
    IF uri = NoUri
    THEN IF f.state = UPDATING THEN f
         ELSE reset([cancel_existing_download_if_in_progress(f)
                        EXCEPT !.package_uri = NoUri])
    ELSE IF f.state # IDLE THEN f
    ELSE IF transport_security_from_uri(uri) = "UNDEFINED"
    THEN set_update_result(f, UNSUPPORTED_PROTOCOL)
    ELSE schedule_download([f EXCEPT !.package_uri = uri], FALSE, sec, start)

(* The Davra fw_execute(): download_and_check_checksum() leaves result    *)
(* unchanged or sets it to 4, 7, 1 or 6, firmware_update() sets state 3,  *)
(* and fw_execute() then sets state 0, all by direct assignment.          *)
davra_checksum_results(f) ==
    {f.result, CONNECTION_LOST, INVALID_URI, SUCCESS, UNSUPPORTED_PACKAGE_TYPE}

fw_execute(f, r, crash) ==
    IF f.package_uri = NoUri THEN fail(f, "fw_execute: strlen(NULL package_uri)")
    ELSE IF crash THEN fail(f, "fw_execute: strcmp on a NULL checksum")
    ELSE [f EXCEPT !.result = r, !.state = IDLE]

(* Mutant: set_result does not reset the user's state. *)
set_result_without_user_reset(f, r) ==
    IF is_result_change_allowed(f.state, r)
    THEN update_state_and_update_result(f, IDLE, r)
    ELSE f

anjay_fw_update_set_result(f, r) ==
    IF is_result_change_allowed(f.state, r)
    THEN update_state_and_update_result(reset_user_state(f), IDLE, r)
    ELSE f

-----------------------------------------------------------------------------
(* Install: anjay_fw_update_install() with initialize_fw_repr().          *)

Zero ==
    [state |-> IDLE, result |-> INITIAL, user_state |-> IDLE,
     package_uri |-> NoUri, download_handle |-> FALSE,
     retry_download_on_expired |-> FALSE, resume_download_job |-> FALSE,
     polls |-> 0, notified_state |-> IDLE, notified_result |-> INITIAL,
     fault |-> NoFault]

(* ANJAY_FW_UPDATE_INITIAL_DOWNLOADING.  uri is the persisted URI (NoUri  *)
(* when absent or when avs_strdup() fails), offset records whether        *)
(* resume_offset > 0; sec2 and start2 are the outcomes of the retry.      *)
initialize_downloading(prefer, uri, etag, offset, deferred, sec, start, sec2, start2) ==
    LET f0 == [Zero EXCEPT !.user_state = DOWNLOADING]
        f1 == IF offset /\ ~etag THEN reset_user_state(f0) ELSE f0
        f2 == [f1 EXCEPT !.package_uri = uri]
        f3 == reset_user_state(schedule_background_anjay_download(
                                   f2, prefer, etag, deferred, sec, start))
    IN  IF uri = NoUri THEN reset_user_state(f1)
        ELSE IF defers_download(prefer, etag, deferred)
                \/ schedule_download_ok(f2, sec, start)
        THEN schedule_background_anjay_download(f2, prefer, etag, deferred,
                                                sec, start)
        ELSE IF f3.result = CONNECTION_LOST /\ etag
        THEN schedule_background_anjay_download(f3, prefer, FALSE, deferred,
                                                sec2, start2)
        ELSE f3

InitialStateKinds ==
    {"NONE", "DOWNLOADED", "DOWNLOADING", "UPDATING",
     "NEUTRAL", "SUCCESS", "INTEGRITY_FAILURE", "FAILED"}

initialize_fw_repr(kind, prefer, uri, etag, offset, deferred, sec, start, sec2, start2) ==
    CASE kind = "DOWNLOADED" ->
            [Zero EXCEPT !.package_uri = uri, !.user_state = DOWNLOADED,
                         !.state = DOWNLOADED]
      [] kind = "DOWNLOADING" ->
            initialize_downloading(prefer, uri, etag, offset, deferred, sec,
                                   start, sec2, start2)
      [] kind = "UPDATING" ->
            [Zero EXCEPT !.user_state = UPDATING, !.state = UPDATING]
      [] kind = "SUCCESS" -> [Zero EXCEPT !.result = SUCCESS]
      [] kind = "INTEGRITY_FAILURE" -> [Zero EXCEPT !.result = INTEGRITY_FAILURE]
      [] kind = "FAILED" -> [Zero EXCEPT !.result = FAILED]
      [] OTHER -> Zero

(* The object is registered only after initialisation: what observers     *)
(* first read is the installed state.                                     *)
installed(f) == [f EXCEPT !.notified_state = f.state,
                          !.notified_result = f.result]

Init ==
    /\ registering \in BOOLEAN
    /\ \E kind \in InitialStateKinds, prefer \in PreferSameSocketValues,
          uri \in {NoUri} \cup ValidUris, etag, offset, deferred \in BOOLEAN,
          sec, sec2 \in HandlerResults, start, start2 \in StartResults :
          fw = installed(initialize_fw_repr(kind, prefer, uri, etag, offset,
                                            deferred, sec, start, sec2, start2))

-----------------------------------------------------------------------------
(* Actions.  The guard fw.fault = NoFault: an aborted client does nothing. *)

(* A server writes /5/0/0 (push mode). *)
WritePackage ==
    /\ fw.fault = NoFault
    /\ \E payload \in Payloads, open, wr, fin \in HandlerResults :
          fw' = fw_write_package(fw, payload, open, wr, fin)
    /\ UNCHANGED registering

(* A server writes /5/0/1 (pull mode, or cancel with the empty string). *)
WritePackageUri ==
    /\ fw.fault = NoFault
    /\ \E uri \in {NoUri} \cup Uris, sec \in HandlerResults,
          start \in StartResults :
          fw' = fw_write_package_uri(fw, uri, sec, start)
    /\ UNCHANGED registering

(* The downloader delivers a block of the package. *)
DownloadWriteBlock ==
    /\ fw.fault = NoFault
    /\ fw.download_handle
    /\ \E open, wr \in HandlerResults :
          fw' = download_write_block(fw, open, wr)
    /\ UNCHANGED registering

(* The downloader reports the end of the transfer. *)
DownloadFinished ==
    /\ fw.fault = NoFault
    /\ fw.download_handle
    /\ \E st \in DownloadStatuses, open, fin, sec \in HandlerResults,
          start \in StartResults :
          fw' = download_finished(fw, st, open, fin, sec, start)
    /\ UNCHANGED registering

(* The scheduler runs resume_download_job.  late: the 5 minute deadline   *)
(* has passed, certainly so after MaxResumePolls polls; resched: the      *)
(* AVS_SCHED_DELAYED() of the next poll succeeds.                         *)
ResumeDownloadJob ==
    /\ fw.fault = NoFault
    /\ fw.resume_download_job
    /\ \E late \in IF fw.polls >= MaxResumePolls THEN {TRUE} ELSE BOOLEAN,
          resched \in BOOLEAN, sec \in HandlerResults, start \in StartResults :
          fw' = resume_download_job(fw, registering, late, resched, sec, start)
    /\ UNCHANGED registering

(* The application calls anjay_fw_update_set_result(). *)
SetResult ==
    /\ fw.fault = NoFault
    /\ fw.state \in SetResultStates
    /\ \E r \in SetResultValues : fw' = anjay_fw_update_set_result(fw, r)
    /\ UNCHANGED registering

(* A server executes /5/0/2, handled by the Davra fw_execute(). *)
Execute ==
    /\ fw.fault = NoFault
    /\ ServerExecutes
    /\ \E r \in davra_checksum_results(fw), crash \in BOOLEAN :
          fw' = fw_execute(fw, r, crash)
    /\ UNCHANGED registering

(* A registration with some server starts or settles (environment). *)
RegistrationChange ==
    /\ fw.fault = NoFault
    /\ registering' = ~registering
    /\ UNCHANGED fw

Next ==
    \/ WritePackage
    \/ WritePackageUri
    \/ DownloadWriteBlock
    \/ DownloadFinished
    \/ ResumeDownloadJob
    \/ SetResult
    \/ Execute
    \/ RegistrationChange

Spec == Init /\ [][Next]_vars

(* The restricted environment of the core run and the Core theorems: no  *)
(* same-socket resumption, no set_result while Downloading, and no       *)
(* Execute (the Davra handler is left out).  The code itself allows a    *)
(* failure report while Downloading (anjay_fw_update.c:1606-1607); the  *)
(* runs set_result_mid_download, set_result_image_discarded and          *)
(* reentrant_report_mid_transfer show what it breaks.                    *)
CoreEnvironment ==
    /\ PreferSameSocketValues = {FALSE}
    /\ DOWNLOADING \notin SetResultStates
    /\ ~ServerExecutes

(* The downloader ends every transfer (its own timeouts guarantee it) and *)
(* the scheduler runs every due job; servers and the application owe     *)
(* nothing.                                                               *)
FairSpec == Spec /\ WF_vars(DownloadFinished) /\ WF_vars(ResumeDownloadJob)

-----------------------------------------------------------------------------
(* Properties.                                                             *)

(* Every field of the object holds a value of its C type. *)
TypeOK == fw \in FwRecords /\ registering \in BOOLEAN

(* No assert() of the module fails: the debug build never aborts. *)
NoAssertionFailure == fw.fault = NoFault

(* A pull transfer is pending (a live download handle or a queued         *)
(* resumption job, never both) exactly while State is Downloading: the   *)
(* invariant cancel_existing_download_if_in_progress() relies on.        *)
TransferMatchesState ==
    /\ (fw.state = DOWNLOADING) <=> (fw.download_handle \/ fw.resume_download_job)
    /\ ~(fw.download_handle /\ fw.resume_download_job)

(* An open delivery stream always has a producer: while the user's stream *)
(* is open (user_state Downloading) a download or its resumption is       *)
(* pending, so the stream is finished or reset when that transfer ends.  *)
(* It says nothing of who writes: a push write in Idle may still append  *)
(* to a stream a transfer orphaned by set_result holds open.             *)
StreamHasProducer ==
    fw.user_state = DOWNLOADING
        => fw.download_handle \/ fw.resume_download_job

(* The user's state agrees with State on Downloaded and Updating: the     *)
(* image a server may ask to apply is the one the user's handlers hold.   *)
AdapterMatchesState ==
    \A s \in {DOWNLOADED, UPDATING} : (fw.state = s) <=> (fw.user_state = s)

(* While a package is being or has been downloaded the Update Result is   *)
(* Initial: a failure is never reported next to a State that claims       *)
(* progress.                                                              *)
ProgressResultInitial ==
    fw.state \in {DOWNLOADING, DOWNLOADED} => fw.result = INITIAL

(* Observers have been notified of the current State and Update Result.  *)
NotifiedMatches ==
    fw.notified_state = fw.state /\ fw.notified_result = fw.result

(* A download, once started, settles: State leaves Downloading, unless   *)
(* the client has aborted on a failed assert() (NoAssertionFailure).     *)
DownloadSettles ==
    fw.state = DOWNLOADING ~> (fw.state # DOWNLOADING \/ fw.fault # NoFault)

(* A deferred same-socket resumption ends: the job neither polls forever *)
(* nor is left queued (the 5 minute deadline of resume_download_job).    *)
ResumeSettles ==
    fw.resume_download_job ~> (~fw.resume_download_job \/ fw.fault # NoFault)

(* Executing Update is rejected without a change unless State is          *)
(* Downloaded (spec section 8).                                           *)
UpdateRejectedUnlessDownloaded ==
    [][Execute /\ fw.state # DOWNLOADED => fw' = fw]_vars

=============================================================================
