------------------------------ MODULE FwReentry ------------------------------
(***************************************************************************)
(* The pull-mode callbacks of FwUpdate with their calls into the user's    *)
(* handlers opened up.  Every such call releases the client mutex          *)
(* (ANJAY_MUTEX_UNLOCK_FOR_CALLBACK, anjay_fw_update.c:544 and after), and *)
(* the handler may re-enter the object through anjay_fw_update_set_result *)
(* before it returns; the callback then continues on what it decided      *)
(* before the call.  Since the core spawns no thread, the re-entrant call  *)
(* happens at the call point, inside the callback's step.                  *)
(*                                                                         *)
(* Bound: at most one re-entrant call per step, at one of the call sites   *)
(* stream_open, stream_write, stream_finish or reset, and none from the    *)
(* reset handler that the re-entrant                                       *)
(* set_result itself calls.  Handlers that run while State is Idle (push   *)
(* writes, Package URI writes, install) cannot change anything by          *)
(* re-entering, since set_result refuses every change in Idle; the         *)
(* windows of resume_download_job and of the reset requests of fw_write   *)
(* are left atomic.                                                        *)
(***************************************************************************)
EXTENDS FwUpdate

CONSTANTS
    ReentrantResults  \* results a user handler reports from inside its call

ASSUME ReentryAssumption == ReentrantResults \subseteq Results

(* The handler returns without calling set_result. *)
NoReport == -1

(* Mutant: the re-entrant call assigns the fields without notifying. *)
reenter_silent(f, here, site, rr) ==
    IF here = site /\ rr # NoReport /\ is_result_change_allowed(f.state, rr)
    THEN [f EXCEPT !.user_state = IDLE, !.state = IDLE, !.result = rr]
    ELSE f

(* The handler called at site here re-enters with rr when here = site.    *)
reenter(f, here, site, rr) ==
    IF here = site /\ rr # NoReport THEN anjay_fw_update_set_result(f, rr) ELSE f

(* user_state_ensure_stream_open(): stream_open runs only from user state *)
(* Idle, and a re-entrant set_result leaves the user state Idle.          *)
ensure_stream_open_re(f, open, site, rr) ==
    IF f.user_state = IDLE
    THEN user_state_ensure_stream_open(reenter(f, "stream_open", site, rr), open)
    ELSE user_state_ensure_stream_open(f, open)

finish_user_stream_re(f, fin, site, rr) ==
    finish_user_stream(reenter(f, "stream_finish", site, rr), fin)

reset_user_state_re(f, site, rr) ==
    reset_user_state(reenter(f, "reset", site, rr))

(* Mutant: the restart after an expired ETag keeps the ETag policy. *)
download_failed_re_keeping_etag(g, st, sec, start, site, rr) ==
    LET h == reset_user_state_re(g, site, rr)
    IN  IF h.retry_download_on_expired /\ st = "EXPIRED"
        THEN IF schedule_download_ok(h, sec, start)
             THEN schedule_download(h, TRUE, sec, start)
             ELSE set_state(schedule_download(h, TRUE, sec, start), IDLE)
        ELSE update_state_and_update_result(h, IDLE, download_failure_result(st))

(* download_failed() with its reset_user_state() opened up. *)
download_failed_re(g, st, sec, start, site, rr) ==
    LET h == reset_user_state_re(g, site, rr)
    IN  IF h.retry_download_on_expired /\ st = "EXPIRED"
        THEN IF schedule_download_ok(h, sec, start)
             THEN schedule_download(h, FALSE, sec, start)
             ELSE set_state(schedule_download(h, FALSE, sec, start), IDLE)
        ELSE update_state_and_update_result(h, IDLE, download_failure_result(st))

(* Mutant: a finished stream keeps the Result reported during the call. *)
download_completed_re_keeping_result(g, open, fin, site, rr) ==
    LET o == ensure_stream_open_re(g, open, site, rr)
    IN  IF stream_open_rc(g, open) # 0
        THEN handle_err_result(o, IDLE, stream_open_rc(g, open), NOT_ENOUGH_SPACE)
        ELSE IF fin # 0
        THEN handle_err_result(finish_user_stream_re(o, fin, site, rr), IDLE,
                               fin, NOT_ENOUGH_SPACE)
        ELSE set_state(finish_user_stream_re(o, fin, site, rr), DOWNLOADED)

(* download_completed() with stream_open and stream_finish opened up. *)
download_completed_re(g, open, fin, site, rr) ==
    LET o == ensure_stream_open_re(g, open, site, rr)
    IN  IF stream_open_rc(g, open) # 0
        THEN handle_err_result(o, IDLE, stream_open_rc(g, open), NOT_ENOUGH_SPACE)
        ELSE IF fin # 0
        THEN handle_err_result(finish_user_stream_re(o, fin, site, rr), IDLE,
                               fin, NOT_ENOUGH_SPACE)
        ELSE update_state_and_update_result(finish_user_stream_re(o, fin, site, rr),
                                            DOWNLOADED, INITIAL)

(* Mutant: a transfer that ends after State left Downloading leaves the   *)
(* user's stream alone.                                                   *)
download_finished_re_no_reset_when_idle(f, st, open, fin, sec, start, site, rr) ==
    LET g == [f EXCEPT !.download_handle = FALSE]
    IN  IF g.state # DOWNLOADING THEN g
        ELSE IF st # "FINISHED" THEN download_failed_re(g, st, sec, start, site, rr)
        ELSE download_completed_re(g, open, fin, site, rr)

(* download_finished(): the downloader's completion callback. *)
download_finished_re(f, st, open, fin, sec, start, site, rr) ==
    LET g == [f EXCEPT !.download_handle = FALSE]
    IN  IF g.state # DOWNLOADING THEN reset_user_state_re(g, site, rr)
        ELSE IF st # "FINISHED" THEN download_failed_re(g, st, sec, start, site, rr)
        ELSE download_completed_re(g, open, fin, site, rr)

(* download_write_block() with stream_open and stream_write opened up; a *)
(* failure ends the transfer through download_finished() as in FwUpdate.  *)
download_write_block_re(f, open, wr, site, rr) ==
    LET g  == ensure_stream_open_re(f, open, site, rr)
        w  == IF stream_open_rc(f, open) = 0
              THEN reenter(g, "stream_write", site, rr) ELSE g
        rc == IF stream_open_rc(f, open) # 0 THEN stream_open_rc(f, open) ELSE wr
    IN  IF rc = 0 THEN w
        ELSE download_finished_re(handle_err_result(w, IDLE, rc, NOT_ENOUGH_SPACE),
                                  "FAILED_OTHER", 0, 0, 0, "OK", site, rr)

(* The handlers download_write_block() calls: stream_open when no stream  *)
(* is open, stream_write when the stream is open.  The reset on its error *)
(* path runs with State already Idle, where set_result changes nothing.   *)
write_block_windows(f, open) ==
    {s \in {"stream_open", "stream_write"} :
        /\ s = "stream_open" => f.user_state = IDLE
        /\ s = "stream_write" => stream_open_rc(f, open) = 0}

(* The handlers download_finished() calls first: reset on the failure     *)
(* paths, stream_open and stream_finish on the completion path.           *)
finished_windows(f, st, open) ==
    IF f.state # DOWNLOADING \/ st # "FINISHED" THEN {"reset"}
    ELSE {s \in {"stream_open", "stream_finish"} :
             /\ s = "stream_open" => f.user_state = IDLE
             /\ s = "stream_finish" => stream_open_rc(f, open) = 0}

(* The downloader delivers a block; the handler at site may report rr    *)
(* from inside its call (site "none": no handler re-enters).  The State  *)
(* it is gated by is fw.state, which nothing before the call changes.    *)
DownloadWriteBlockRe ==
    /\ fw.fault = NoFault
    /\ fw.download_handle
    /\ \E open, wr \in HandlerResults :
       \E site \in {"none"} \cup write_block_windows(fw, open),
          rr \in {NoReport} \cup ReentrantResults :
          fw' = download_write_block_re(fw, open, wr, site, rr)
    /\ UNCHANGED registering

(* The downloader reports the end of the transfer; the handler called    *)
(* first may report rr from inside its call.                              *)
DownloadFinishedRe ==
    /\ fw.fault = NoFault
    /\ fw.download_handle
    /\ \E st \in DownloadStatuses, open, fin, sec \in HandlerResults,
          start \in StartResults :
       \E site \in {"none"} \cup finished_windows(fw, st, open),
          rr \in {NoReport} \cup ReentrantResults :
          fw' = download_finished_re(fw, st, open, fin, sec, start, site, rr)
    /\ UNCHANGED registering

(* Every other step is atomic and re-enters nothing. *)
AtomicStep ==
    \/ WritePackage \/ WritePackageUri \/ ResumeDownloadJob
    \/ SetResult \/ Execute \/ RegistrationChange

ReentryNext == DownloadWriteBlockRe \/ DownloadFinishedRe \/ AtomicStep

ReentrySpec == Init /\ [][ReentryNext]_vars

ReentryFairSpec ==
    ReentrySpec /\ WF_vars(DownloadFinishedRe) /\ WF_vars(ResumeDownloadJob)

=============================================================================
