-------------------------- MODULE FwReentryProofs --------------------------
(***************************************************************************)
(* Proofs about FwReentry, the pull-mode callbacks with re-entrant calls  *)
(* of anjay_fw_update_set_result() from inside the user's handlers.        *)
(*                                                                         *)
(* A re-entrant call is set_result itself, so it notifies what it changes *)
(* like every other helper: NotifiedMatches survives re-entry.            *)
(***************************************************************************)
EXTENDS FwReentry, FwAdapterProofs

(* The handler's call, re-entering or not, notifies what it changes. *)
LEMMA ReenterNotified ==
    ASSUME NEW f \in FwRecords, NEW here, NEW site, NEW rr \in {NoReport} \cup Results
    PROVE  /\ reenter(f, here, site, rr) \in FwRecords
           /\ Notified(f) => Notified(reenter(f, here, site, rr))
BY SetResultType, SetResultUser DEF reenter

LEMMA EnsureStreamOpenReNotified ==
    ASSUME NEW f \in FwRecords, NEW open \in Int, NEW site,
           NEW rr \in {NoReport} \cup Results
    PROVE  /\ ensure_stream_open_re(f, open, site, rr) \in FwRecords
           /\ Notified(f) => Notified(ensure_stream_open_re(f, open, site, rr))
<1>1. reenter(f, "stream_open", site, rr) \in FwRecords
      /\ (Notified(f) => Notified(reenter(f, "stream_open", site, rr)))
  BY ReenterNotified
<1>. QED  BY <1>1, EnsureStreamOpenType, EnsureStreamOpenUser
          DEF ensure_stream_open_re

LEMMA FinishUserStreamReNotified ==
    ASSUME NEW f \in FwRecords, NEW fin \in Int, NEW site,
           NEW rr \in {NoReport} \cup Results
    PROVE  /\ finish_user_stream_re(f, fin, site, rr) \in FwRecords
           /\ Notified(f) => Notified(finish_user_stream_re(f, fin, site, rr))
<1>1. reenter(f, "stream_finish", site, rr) \in FwRecords
      /\ (Notified(f) => Notified(reenter(f, "stream_finish", site, rr)))
  BY ReenterNotified
<1>. QED  BY <1>1, FinishUserStreamType, FinishUserStreamUser
          DEF finish_user_stream_re

LEMMA ResetUserStateReNotified ==
    ASSUME NEW f \in FwRecords, NEW site, NEW rr \in {NoReport} \cup Results
    PROVE  /\ reset_user_state_re(f, site, rr) \in FwRecords
           /\ reset_user_state_re(f, site, rr).user_state = IDLE
           /\ Notified(f) => Notified(reset_user_state_re(f, site, rr))
<1>1. reenter(f, "reset", site, rr) \in FwRecords
      /\ (Notified(f) => Notified(reenter(f, "reset", site, rr)))
  BY ReenterNotified
<1>. QED  BY <1>1, ResetUserStateType, ResetUserStateUser
          DEF reset_user_state_re

(* download_failed() with a re-entrant report from its reset handler. *)
LEMMA DownloadFailedReNotified ==
    ASSUME NEW g \in FwRecords, NEW st, NEW sec \in Int, NEW start, NEW site,
           NEW rr \in {NoReport} \cup Results
    PROVE  /\ download_failed_re(g, st, sec, start, site, rr) \in FwRecords
           /\ Notified(g)
                => Notified(download_failed_re(g, st, sec, start, site, rr))
<1>. DEFINE h == reset_user_state_re(g, site, rr)
            d == schedule_download(h, FALSE, sec, start)
            r == download_failed_re(g, st, sec, start, site, rr)
<1>. SUFFICES r \in FwRecords /\ (Notified(g) => Notified(r))
  OBVIOUS
<1>1. h \in FwRecords /\ (Notified(g) => Notified(h))
  BY ResetUserStateReNotified
<1>2. d \in FwRecords /\ (Notified(h) => Notified(d))
  BY <1>1, ScheduleDownloadType, ScheduleUser
<1>3. set_state(d, IDLE) \in FwRecords
      /\ (Notified(d) => Notified(set_state(d, IDLE)))
  BY <1>2, SetStateType, SetStateUser, ConstantValuesType
<1>4. update_state_and_update_result(h, IDLE, download_failure_result(st))
        \in FwRecords
      /\ (Notified(h) => Notified(update_state_and_update_result(h, IDLE,
                                       download_failure_result(st))))
  BY <1>1, UpdateStateAndResultType, UpdateStateAndResultUser,
     ConstantValuesType
<1>5. r = IF h.retry_download_on_expired /\ st = "EXPIRED"
          THEN IF schedule_download_ok(h, sec, start) THEN d
               ELSE set_state(d, IDLE)
          ELSE update_state_and_update_result(h, IDLE, download_failure_result(st))
  BY DEF download_failed_re
<1>. HIDE DEF h, d, r
<1>. QED  BY <1>1, <1>2, <1>3, <1>4, <1>5

(* download_completed() with re-entrant reports from stream_open and     *)
(* stream_finish.                                                         *)
LEMMA DownloadCompletedReNotified ==
    ASSUME NEW g \in FwRecords, NEW open \in Int, NEW fin \in Int, NEW site,
           NEW rr \in {NoReport} \cup Results
    PROVE  /\ download_completed_re(g, open, fin, site, rr) \in FwRecords
           /\ Notified(g)
                => Notified(download_completed_re(g, open, fin, site, rr))
<1>. DEFINE o  == ensure_stream_open_re(g, open, site, rr)
            e  == finish_user_stream_re(o, fin, site, rr)
            rc == stream_open_rc(g, open)
            r  == download_completed_re(g, open, fin, site, rr)
<1>. SUFFICES r \in FwRecords /\ (Notified(g) => Notified(r))
  OBVIOUS
<1>1. o \in FwRecords /\ (Notified(g) => Notified(o))
  BY EnsureStreamOpenReNotified
<1>2. e \in FwRecords /\ (Notified(o) => Notified(e))
  BY <1>1, FinishUserStreamReNotified
<1>3. rc \in Int
  BY StreamOpenRcType
<1>4. handle_err_result(o, IDLE, rc, NOT_ENOUGH_SPACE) \in FwRecords
      /\ (Notified(o)
            => Notified(handle_err_result(o, IDLE, rc, NOT_ENOUGH_SPACE)))
  BY <1>1, <1>3, HandleErrResultType, HandleErrResultUser, ConstantValuesType
<1>5. handle_err_result(e, IDLE, fin, NOT_ENOUGH_SPACE) \in FwRecords
      /\ (Notified(e)
            => Notified(handle_err_result(e, IDLE, fin, NOT_ENOUGH_SPACE)))
  BY <1>2, HandleErrResultType, HandleErrResultUser, ConstantValuesType
<1>6. update_state_and_update_result(e, DOWNLOADED, INITIAL) \in FwRecords
      /\ (Notified(e)
            => Notified(update_state_and_update_result(e, DOWNLOADED, INITIAL)))
  BY <1>2, UpdateStateAndResultType, UpdateStateAndResultUser,
     ConstantValuesType
<1>7. r = IF rc # 0 THEN handle_err_result(o, IDLE, rc, NOT_ENOUGH_SPACE)
          ELSE IF fin # 0 THEN handle_err_result(e, IDLE, fin, NOT_ENOUGH_SPACE)
          ELSE update_state_and_update_result(e, DOWNLOADED, INITIAL)
  BY DEF download_completed_re
<1>. HIDE DEF o, e, rc, r
<1>. QED  BY <1>1, <1>2, <1>4, <1>5, <1>6, <1>7

(* download_finished(): the downloader's completion callback, with the    *)
(* re-entrant report of the handler it calls first.                       *)
LEMMA DownloadFinishedReNotified ==
    ASSUME NEW f \in FwRecords, NEW st, NEW open \in Int, NEW fin \in Int,
           NEW sec \in Int, NEW start, NEW site,
           NEW rr \in {NoReport} \cup Results
    PROVE  /\ download_finished_re(f, st, open, fin, sec, start, site, rr)
                \in FwRecords
           /\ Notified(f)
                => Notified(download_finished_re(f, st, open, fin, sec, start,
                                                 site, rr))
<1>. DEFINE g == [f EXCEPT !.download_handle = FALSE]
            r == download_finished_re(f, st, open, fin, sec, start, site, rr)
<1>. SUFFICES r \in FwRecords /\ (Notified(f) => Notified(r))
  OBVIOUS
<1>1. g \in FwRecords /\ (Notified(f) => Notified(g))
  BY DEF FwRecords, Notified
<1>2. /\ reset_user_state_re(g, site, rr) \in FwRecords
      /\ Notified(g) => Notified(reset_user_state_re(g, site, rr))
  BY <1>1, ResetUserStateReNotified
<1>3. /\ download_failed_re(g, st, sec, start, site, rr) \in FwRecords
      /\ Notified(g) => Notified(download_failed_re(g, st, sec, start, site, rr))
  BY <1>1, DownloadFailedReNotified
<1>4. /\ download_completed_re(g, open, fin, site, rr) \in FwRecords
      /\ Notified(g) => Notified(download_completed_re(g, open, fin, site, rr))
  BY <1>1, DownloadCompletedReNotified
<1>5. r = IF g.state # DOWNLOADING THEN reset_user_state_re(g, site, rr)
          ELSE IF st # "FINISHED" THEN download_failed_re(g, st, sec, start, site, rr)
          ELSE download_completed_re(g, open, fin, site, rr)
  BY DEF download_finished_re
<1>. HIDE DEF g, r
<1>. QED  BY <1>1, <1>2, <1>3, <1>4, <1>5

(* download_write_block(), with the re-entrant report of stream_open or  *)
(* stream_write, and of the reset on its error path.                      *)
LEMMA DownloadWriteBlockReNotified ==
    ASSUME NEW f \in FwRecords, NEW open \in Int, NEW wr \in Int, NEW site,
           NEW rr \in {NoReport} \cup Results
    PROVE  /\ download_write_block_re(f, open, wr, site, rr) \in FwRecords
           /\ Notified(f)
                => Notified(download_write_block_re(f, open, wr, site, rr))
<1>. DEFINE g  == ensure_stream_open_re(f, open, site, rr)
            w  == IF stream_open_rc(f, open) = 0
                  THEN reenter(g, "stream_write", site, rr) ELSE g
            rc == IF stream_open_rc(f, open) # 0 THEN stream_open_rc(f, open)
                  ELSE wr
            e  == handle_err_result(w, IDLE, rc, NOT_ENOUGH_SPACE)
            r  == download_write_block_re(f, open, wr, site, rr)
<1>. SUFFICES r \in FwRecords /\ (Notified(f) => Notified(r))
  OBVIOUS
<1>1. g \in FwRecords /\ (Notified(f) => Notified(g))
  BY EnsureStreamOpenReNotified
<1>2. w \in FwRecords /\ (Notified(g) => Notified(w))
  BY <1>1, ReenterNotified
<1>3. rc \in Int
  BY StreamOpenRcType
<1>4. e \in FwRecords /\ (Notified(w) => Notified(e))
  BY <1>2, <1>3, HandleErrResultType, HandleErrResultUser, ConstantValuesType
<1>5. /\ download_finished_re(e, "FAILED_OTHER", 0, 0, 0, "OK", site, rr)
           \in FwRecords
      /\ Notified(e)
           => Notified(download_finished_re(e, "FAILED_OTHER", 0, 0, 0, "OK",
                                            site, rr))
  BY <1>4, DownloadFinishedReNotified
<1>6. r = IF rc = 0 THEN w
          ELSE download_finished_re(e, "FAILED_OTHER", 0, 0, 0, "OK", site, rr)
  BY DEF download_write_block_re
<1>. HIDE DEF g, w, rc, e, r
<1>. QED  BY <1>1, <1>2, <1>4, <1>5, <1>6

-----------------------------------------------------------------------------
(* The steps of ReentrySpec.                                               *)

(* Every other step of ReentrySpec is a step of Spec. *)
LEMMA AtomicStepIsNext == AtomicStep => Next
BY DEF AtomicStep, Next

LEMMA ReentryNextTypeOK == TypeOK /\ [ReentryNext]_vars => TypeOK'
<1>. SUFFICES ASSUME TypeOK, [ReentryNext]_vars PROVE TypeOK'
  OBVIOUS
<1>0. /\ fw \in FwRecords /\ registering \in BOOLEAN
      /\ HandlerResults \subseteq Int /\ ReentrantResults \subseteq Results
  BY ReentryAssumption, ConstantsAssumption DEF TypeOK
<1>1. CASE DownloadWriteBlockRe
  <2>1. PICK open \in HandlerResults, wr \in HandlerResults :
          \E site \in {"none"} \cup write_block_windows(fw, open),
             rr \in {NoReport} \cup ReentrantResults :
             fw' = download_write_block_re(fw, open, wr, site, rr)
    BY <1>1 DEF DownloadWriteBlockRe
  <2>2. fw' \in FwRecords
    BY <1>0, <2>1, DownloadWriteBlockReNotified
  <2>. QED  BY <1>0, <1>1, <2>2 DEF DownloadWriteBlockRe, TypeOK
<1>2. CASE DownloadFinishedRe
  <2>1. PICK st \in DownloadStatuses, open \in HandlerResults,
             fin \in HandlerResults, sec \in HandlerResults,
             start \in StartResults :
          \E site \in {"none"} \cup finished_windows(fw, st, open),
             rr \in {NoReport} \cup ReentrantResults :
             fw' = download_finished_re(fw, st, open, fin, sec, start, site, rr)
    BY <1>2 DEF DownloadFinishedRe
  <2>2. fw' \in FwRecords
    BY <1>0, <2>1, DownloadFinishedReNotified
  <2>. QED  BY <1>0, <1>2, <2>2 DEF DownloadFinishedRe, TypeOK
<1>3. CASE AtomicStep
  BY <1>3, AtomicStepIsNext, NextTypeOK
<1>4. CASE UNCHANGED vars
  BY <1>4 DEF vars, TypeOK
<1>. QED  BY <1>1, <1>2, <1>3, <1>4 DEF ReentryNext

(* The helper lemmas with the handler calls opened up keep the object    *)
(* well typed: ReentrySpec reaches only states of TypeOK.               *)
LEMMA ReentryTypeCorrect == ReentrySpec => []TypeOK
BY InitTypeOK, ReentryNextTypeOK, PTL DEF ReentrySpec

-----------------------------------------------------------------------------
(* Notifications under re-entry.                                           *)

(* NInv, the invariant of NotifiedMatchesNoExecute, is kept by every step *)
(* of ReentrySpec as well.                                                *)
LEMMA ReentryNextNInv ==
    ASSUME ~ServerExecutes
    PROVE  NInv /\ [ReentryNext]_vars => NInv'
<1>. SUFFICES ASSUME NInv, [ReentryNext]_vars PROVE NInv'
  OBVIOUS
<1>0. /\ TypeOK' /\ fw \in FwRecords /\ Notified(fw)
      /\ HandlerResults \subseteq Int /\ ReentrantResults \subseteq Results
  BY ReentryNextTypeOK, ReentryAssumption, ConstantsAssumption
     DEF NInv, TypeOK
<1>. SUFFICES Notified(fw')
  BY <1>0 DEF NInv
<1>1. CASE DownloadWriteBlockRe
  <2>0. PICK open \in HandlerResults, wr \in HandlerResults :
          \E site \in {"none"} \cup write_block_windows(fw, open),
             rr \in {NoReport} \cup ReentrantResults :
             fw' = download_write_block_re(fw, open, wr, site, rr)
    BY <1>1 DEF DownloadWriteBlockRe
  <2>1. PICK site \in {"none"} \cup write_block_windows(fw, open),
             rr \in {NoReport} \cup ReentrantResults :
          fw' = download_write_block_re(fw, open, wr, site, rr)
    BY <2>0
  <2>. QED  BY <1>0, <2>1, DownloadWriteBlockReNotified
<1>2. CASE DownloadFinishedRe
  <2>0. PICK st \in DownloadStatuses, open \in HandlerResults,
             fin \in HandlerResults, sec \in HandlerResults,
             start \in StartResults :
          \E site \in {"none"} \cup finished_windows(fw, st, open),
             rr \in {NoReport} \cup ReentrantResults :
             fw' = download_finished_re(fw, st, open, fin, sec, start, site, rr)
    BY <1>2 DEF DownloadFinishedRe
  <2>1. PICK site \in {"none"} \cup finished_windows(fw, st, open),
             rr \in {NoReport} \cup ReentrantResults :
          fw' = download_finished_re(fw, st, open, fin, sec, start, site, rr)
    BY <2>0
  <2>. QED  BY <1>0, <2>1, DownloadFinishedReNotified
<1>3. CASE AtomicStep
  <2>1. Next
    BY <1>3, AtomicStepIsNext
  <2>. QED  BY <2>1, NextNInv DEF NInv
<1>4. CASE UNCHANGED vars
  BY <1>0, <1>4 DEF vars, Notified
<1>. QED  BY <1>1, <1>2, <1>3, <1>4 DEF ReentryNext

(* Whenever servers do not Execute Update, observers have been notified   *)
(* of the current State and Update Result (NotifiedMatches) even when the *)
(* user's handlers call anjay_fw_update_set_result() from inside their    *)
(* calls: the re-entrant call notifies what it changes, and the callback *)
(* after it notifies through set_state()/set_update_result() as before.  *)
THEOREM NotifiedMatchesReentry ==
    ASSUME ~ServerExecutes
    PROVE  ReentrySpec => []NotifiedMatches
<1>1. Init => NInv
  BY InitNInv
<1>2. NInv /\ [ReentryNext]_vars => NInv'
  BY ReentryNextNInv
<1>3. NInv => NotifiedMatches
  BY DEF NInv, Notified, NotifiedMatches
<1>. QED  BY <1>1, <1>2, <1>3, PTL DEF ReentrySpec

=============================================================================
