-------------------------- MODULE FwAdapterProofs --------------------------
(***************************************************************************)
(* Proofs about the user-delivery adapter (user_state), the assert()s and *)
(* the notifications of the Firmware Update object model FwUpdate.         *)
(*                                                                         *)
(* NotifiedMatches holds whenever Execute is not used: every helper that  *)
(* changes State or Update Result goes through set_state() or            *)
(* set_update_result(), which notify, and nothing else touches either.   *)
(*                                                                         *)
(* NoAssertionFailure, StreamHasProducer and AdapterMatchesState hold in  *)
(* the core environment (CoreEnvironment).  Together they are not          *)
(* inductive; the strengthening AInv adds TransferConsistent (IInv) and   *)
(* says that the user's state either equals State or is Idle while State *)
(* is Idle or Downloading (UserConsistent).                              *)
(***************************************************************************)
EXTENDS FwUpdateProofs

(* Observers have seen the State and Update Result of record f. *)
Notified(f) == f.notified_state = f.state /\ f.notified_result = f.result

(* The user's handlers hold what State says: the same state, or nothing   *)
(* yet while State is Idle or Downloading; and no assert() has failed.   *)
UserConsistent(f) ==
    /\ f.fault = NoFault
    /\ \/ f.user_state = f.state
       \/ f.user_state = IDLE /\ f.state \in {IDLE, DOWNLOADING}

(* g has the user state and the fault of f. *)
SameUser(g, f) ==
    /\ g.user_state = f.user_state
    /\ g.fault = f.fault

AInv == IInv /\ UserConsistent(fw)

-----------------------------------------------------------------------------
(* The primitive helpers.                                                  *)

LEMMA SetUpdateResultUser ==
    ASSUME NEW f \in FwRecords, NEW r
    PROVE  /\ set_update_result(f, r).state = f.state
           /\ set_update_result(f, r).result = r
           /\ SameUser(set_update_result(f, r), f)
           /\ Notified(f) => Notified(set_update_result(f, r))
BY DEF set_update_result, SameUser, Notified, FwRecords

LEMMA SetStateUser ==
    ASSUME NEW f \in FwRecords, NEW s
    PROVE  /\ set_state(f, s).state = s
           /\ set_state(f, s).result = f.result
           /\ SameUser(set_state(f, s), f)
           /\ Notified(f) => Notified(set_state(f, s))
BY DEF set_state, SameUser, Notified, FwRecords

LEMMA UpdateStateAndResultUser ==
    ASSUME NEW f \in FwRecords, NEW s \in States, NEW r \in Results
    PROVE  /\ update_state_and_update_result(f, s, r).state = s
           /\ SameUser(update_state_and_update_result(f, s, r), f)
           /\ Notified(f) => Notified(update_state_and_update_result(f, s, r))
BY SetUpdateResultUser, SetStateUser, SetUpdateResultType
   DEF update_state_and_update_result, SameUser

LEMMA ResetUserStateUser ==
    ASSUME NEW f \in FwRecords
    PROVE  /\ reset_user_state(f).state = f.state
           /\ reset_user_state(f).user_state = IDLE
           /\ reset_user_state(f).fault = f.fault
           /\ Notified(f) => Notified(reset_user_state(f))
BY DEF reset_user_state, Notified, FwRecords

LEMMA FinishUserStreamUser ==
    ASSUME NEW f \in FwRecords, NEW fin
    PROVE  /\ finish_user_stream(f, fin).state = f.state
           /\ finish_user_stream(f, fin).user_state
                = IF fin = 0 THEN DOWNLOADED ELSE IDLE
           /\ finish_user_stream(f, fin).fault = f.fault
           /\ Notified(f) => Notified(finish_user_stream(f, fin))
BY DEF finish_user_stream, Notified, FwRecords

LEMMA HandleErrResultUser ==
    ASSUME NEW f \in FwRecords, NEW s \in States, NEW rc \in Int,
           NEW default \in Results
    PROVE  /\ handle_err_result(f, s, rc, default).state = s
           /\ SameUser(handle_err_result(f, s, rc, default), f)
           /\ Notified(f) => Notified(handle_err_result(f, s, rc, default))
<1>1. (IF -rc \in {NOT_ENOUGH_SPACE, OUT_OF_MEMORY, INTEGRITY_FAILURE,
                   UNSUPPORTED_PACKAGE_TYPE} THEN -rc ELSE default) \in Results
  BY DEF NOT_ENOUGH_SPACE, OUT_OF_MEMORY, INTEGRITY_FAILURE,
         UNSUPPORTED_PACKAGE_TYPE, Results
<1>. QED  BY <1>1, UpdateStateAndResultUser DEF handle_err_result

LEMMA ResetUser ==
    ASSUME NEW f \in FwRecords
    PROVE  /\ reset(f).state = IDLE /\ reset(f).user_state = IDLE
           /\ reset(f).fault = f.fault
           /\ Notified(f) => Notified(reset(f))
BY ResetUserStateUser, ResetUserStateType, UpdateStateAndResultUser,
   ConstantValuesType DEF reset, SameUser

(* Notifications do not depend on the assert()s: a failed one changes    *)
(* only the fault.                                                       *)
LEMMA FailNotified ==
    ASSUME NEW f \in FwRecords, NEW site
    PROVE  /\ fail(f, site).state = f.state
           /\ fail(f, site).user_state = f.user_state
           /\ Notified(f) => Notified(fail(f, site))
BY DEF fail, Notified, FwRecords

(* stream_open is called only from user state Idle; from Idle or         *)
(* Downloading the helper opens the stream (user state Downloading) when *)
(* it returns 0, leaves the user state Idle otherwise, and asserts       *)
(* nothing.                                                              *)
LEMMA EnsureStreamOpenUser ==
    ASSUME NEW f \in FwRecords, NEW open \in Int
    PROVE  /\ user_state_ensure_stream_open(f, open).state = f.state
           /\ Notified(f) => Notified(user_state_ensure_stream_open(f, open))
           /\ f.user_state \in {IDLE, DOWNLOADING} =>
                /\ user_state_ensure_stream_open(f, open).fault = f.fault
                /\ user_state_ensure_stream_open(f, open).user_state
                     = IF stream_open_rc(f, open) = 0 THEN DOWNLOADING ELSE IDLE
BY DEF user_state_ensure_stream_open, stream_open_rc, fail, Notified,
       FwRecords

-----------------------------------------------------------------------------
(* schedule_download() and the downloader's callbacks.                     *)

(* schedule_download() notifies what it changes.  Called with no handle   *)
(* and with the user state Idle or Downloading it asserts nothing, keeps *)
(* or resets the user state, and leaves State Downloading, Idle or as it *)
(* was.                                                                  *)
LEMMA ScheduleUser ==
    ASSUME NEW f \in FwRecords, NEW etag \in BOOLEAN, NEW sec \in Int,
           NEW start
    PROVE  /\ Notified(f) => Notified(schedule_download(f, etag, sec, start))
           /\ schedule_download_ok(f, sec, start)
                => schedule_download(f, etag, sec, start).state = DOWNLOADING
           /\ f.fault = NoFault /\ ~f.download_handle
              /\ f.user_state \in {IDLE, DOWNLOADING} =>
                /\ schedule_download(f, etag, sec, start).fault = NoFault
                /\ schedule_download(f, etag, sec, start).user_state
                     \in {IDLE, f.user_state}
                /\ schedule_download(f, etag, sec, start).state
                     \in {IDLE, DOWNLOADING, f.state}
<1>. DEFINE r == schedule_download(f, etag, sec, start)
            c == transport_security_from_uri(f.package_uri) = "ENCRYPTED"
                 /\ f.user_state \notin {IDLE, DOWNLOADING}
            g == IF c THEN fail(f, "get_security_config: user_state IDLE or DOWNLOADING")
                 ELSE f
            h == IF g.download_handle
                 THEN fail(g, "schedule_download: !fw->download_handle") ELSE g
            k == [h EXCEPT !.download_handle = TRUE,
                           !.retry_download_on_expired = etag]
<1>1. g \in FwRecords /\ h \in FwRecords /\ k \in FwRecords
  BY FailType, StartTransferType DEF AssertionSites
<1>2. /\ Notified(f) => Notified(g)
      /\ Notified(g) => Notified(h)
      /\ Notified(h) => Notified(k)
  <2>1. Notified(f) => Notified(g)
    <3>1. Notified(f)
            => Notified(fail(f, "get_security_config: user_state IDLE or DOWNLOADING"))
      BY FailNotified
    <3>. QED  BY <3>1
  <2>2. Notified(g) => Notified(h)
    <3>1. Notified(g) => Notified(fail(g, "schedule_download: !fw->download_handle"))
      BY <1>1, FailNotified
    <3>. QED  BY <3>1
  <2>3. Notified(h) => Notified(k)
    BY <1>1 DEF Notified, FwRecords
  <2>. QED  BY <2>1, <2>2, <2>3
<1>3. \/ r = handle_err_result(g, IDLE, sec, UNSUPPORTED_PROTOCOL)
      \/ r = set_update_result(reset_user_state(h), download_start_result(start))
      \/ r = update_state_and_update_result(k, DOWNLOADING, INITIAL)
  BY DEF schedule_download
<1>4. schedule_download_ok(f, sec, start)
        => r = update_state_and_update_result(k, DOWNLOADING, INITIAL)
  BY DEF schedule_download, schedule_download_ok
<1>5. f.fault = NoFault /\ ~f.download_handle
      /\ f.user_state \in {IDLE, DOWNLOADING}
        => /\ h = f
           /\ SameUser(k, f) /\ k.state = f.state
  BY DEF SameUser, FwRecords
<1>6. /\ IDLE \in States /\ DOWNLOADING \in States
      /\ UNSUPPORTED_PROTOCOL \in Results /\ INITIAL \in Results
      /\ download_start_result(start) \in Results
  BY ConstantValuesType
<1>. HIDE DEF r, c, g, h, k
<1>7. Notified(f) => Notified(r)
  <2>. SUFFICES ASSUME Notified(f) PROVE Notified(r)
    OBVIOUS
  <2>1. CASE r = handle_err_result(g, IDLE, sec, UNSUPPORTED_PROTOCOL)
    BY <1>1, <1>2, <1>6, <2>1, HandleErrResultUser
  <2>2. CASE r = set_update_result(reset_user_state(h), download_start_result(start))
    <3>1. reset_user_state(h) \in FwRecords /\ Notified(reset_user_state(h))
      BY <1>1, <1>2, ResetUserStateUser, ResetUserStateType
    <3>. QED  BY <2>2, <3>1, SetUpdateResultUser
  <2>3. CASE r = update_state_and_update_result(k, DOWNLOADING, INITIAL)
    BY <1>1, <1>2, <1>6, <2>3, UpdateStateAndResultUser
  <2>. QED  BY <1>3, <2>1, <2>2, <2>3
<1>8. schedule_download_ok(f, sec, start) => r.state = DOWNLOADING
  BY <1>1, <1>4, <1>6, UpdateStateAndResultUser
<1>9. ASSUME f.fault = NoFault, ~f.download_handle,
             f.user_state \in {IDLE, DOWNLOADING}
      PROVE  /\ r.fault = NoFault
             /\ r.user_state \in {IDLE, f.user_state}
             /\ r.state \in {IDLE, DOWNLOADING, f.state}
  <2>0. h = f /\ SameUser(k, f) /\ k.state = f.state
    BY <1>5, <1>9
  <2>1. CASE r = handle_err_result(g, IDLE, sec, UNSUPPORTED_PROTOCOL)
    <3>1. g = f
      BY <1>9 DEF g, c
    <3>. QED  BY <1>6, <1>9, <2>1, <3>1, HandleErrResultUser DEF SameUser
  <2>2. CASE r = set_update_result(reset_user_state(h), download_start_result(start))
    <3>1. reset_user_state(h) \in FwRecords
          /\ reset_user_state(h).user_state = IDLE
          /\ reset_user_state(h).fault = f.fault
          /\ reset_user_state(h).state = f.state
      BY <2>0, ResetUserStateUser, ResetUserStateType
    <3>. QED  BY <1>9, <2>2, <3>1, SetUpdateResultUser DEF SameUser
  <2>3. CASE r = update_state_and_update_result(k, DOWNLOADING, INITIAL)
    BY <1>1, <1>6, <1>9, <2>0, <2>3, UpdateStateAndResultUser DEF SameUser
  <2>. QED  BY <1>3, <2>1, <2>2, <2>3
<1>. QED  BY <1>7, <1>8, <1>9 DEF r

(* download_failed() from a Downloading record with no handle and a      *)
(* usable user state: the stream is reset, and State is Idle or, after a *)
(* restart, Downloading.                                                 *)
LEMMA DownloadFailedUser ==
    ASSUME NEW g \in FwRecords, NEW st, NEW sec \in Int, NEW start
    PROVE  /\ Notified(g) => Notified(download_failed(g, st, sec, start))
           /\ g.fault = NoFault /\ ~g.download_handle =>
                /\ download_failed(g, st, sec, start).fault = NoFault
                /\ download_failed(g, st, sec, start).user_state = IDLE
                /\ download_failed(g, st, sec, start).state \in {IDLE, DOWNLOADING}
<1>. DEFINE h == reset_user_state(g)
            d == schedule_download(h, FALSE, sec, start)
            r == download_failed(g, st, sec, start)
<1>1. h \in FwRecords /\ h.user_state = IDLE /\ h.fault = g.fault
      /\ h.download_handle = g.download_handle
      /\ (Notified(g) => Notified(h))
  BY ResetUserStateType, ResetUserStateUser DEF reset_user_state, FwRecords
<1>2. d \in FwRecords /\ (Notified(h) => Notified(d))
  BY <1>1, ScheduleDownloadType, ScheduleUser
<1>3. g.fault = NoFault /\ ~g.download_handle =>
        d.fault = NoFault /\ d.user_state = IDLE
  <2>1. h.fault = NoFault /\ ~h.download_handle /\ h.user_state \in {IDLE, DOWNLOADING}
          => d.fault = NoFault /\ d.user_state \in {IDLE, h.user_state}
    BY <1>1, ScheduleUser
  <2>. QED  BY <1>1, <2>1
<1>4. \/ r = d /\ schedule_download_ok(h, sec, start)
      \/ r = set_state(d, IDLE)
      \/ r = update_state_and_update_result(h, IDLE, download_failure_result(st))
  <2>1. CASE g.retry_download_on_expired /\ st = "EXPIRED"
    BY <2>1 DEF download_failed
  <2>2. CASE ~(g.retry_download_on_expired /\ st = "EXPIRED")
    BY <2>2 DEF download_failed
  <2>. QED  BY <2>1, <2>2
<1>5. schedule_download_ok(h, sec, start) => d.state = DOWNLOADING
  BY <1>1, ScheduleUser
<1>6. IDLE \in States /\ download_failure_result(st) \in Results
  BY ConstantValuesType
<1>. QED
  <2>1. Notified(g) => Notified(r)
    BY <1>1, <1>2, <1>4, <1>6, SetStateUser, UpdateStateAndResultUser
  <2>2. ASSUME g.fault = NoFault, ~g.download_handle
        PROVE  r.fault = NoFault /\ r.user_state = IDLE /\ r.state \in {IDLE, DOWNLOADING}
    <3>1. CASE r = d /\ schedule_download_ok(h, sec, start)
      BY <1>1, <1>3, <1>5, <2>2, <3>1
    <3>2. CASE r = set_state(d, IDLE)
      <4>1. set_state(d, IDLE).state = IDLE /\ SameUser(set_state(d, IDLE), d)
        BY <1>2, SetStateUser
      <4>. QED  BY <1>3, <2>2, <3>2, <4>1 DEF SameUser
    <3>3. CASE r = update_state_and_update_result(h, IDLE, download_failure_result(st))
      BY <1>1, <1>6, <2>2, <3>3, UpdateStateAndResultUser DEF SameUser
    <3>. QED  BY <1>4, <3>1, <3>2, <3>3
  <2>. QED  BY <2>1, <2>2

(* download_completed() with the user state Idle or Downloading: the     *)
(* object ends Idle with no stream or Downloaded with a finished one.    *)
LEMMA DownloadCompletedUser ==
    ASSUME NEW g \in FwRecords, NEW open \in Int, NEW fin \in Int
    PROVE  /\ Notified(g) => Notified(download_completed(g, open, fin))
           /\ g.fault = NoFault /\ g.user_state \in {IDLE, DOWNLOADING} =>
                /\ download_completed(g, open, fin).fault = NoFault
                /\ download_completed(g, open, fin).state \in {IDLE, DOWNLOADED}
                /\ download_completed(g, open, fin).user_state
                     = download_completed(g, open, fin).state
<1>. DEFINE o  == user_state_ensure_stream_open(g, open)
            e  == finish_user_stream(o, fin)
            rc == stream_open_rc(g, open)
            r  == download_completed(g, open, fin)
<1>1. o \in FwRecords /\ e \in FwRecords /\ rc \in Int
  BY EnsureStreamOpenType, FinishUserStreamType, StreamOpenRcType
<1>2. /\ Notified(g) => Notified(o)
      /\ Notified(o) => Notified(e)
      /\ e.user_state = IF fin = 0 THEN DOWNLOADED ELSE IDLE
      /\ e.fault = o.fault
  BY <1>1, EnsureStreamOpenUser, FinishUserStreamUser
<1>3. g.user_state \in {IDLE, DOWNLOADING}
        => /\ o.fault = g.fault
           /\ o.user_state = IF rc = 0 THEN DOWNLOADING ELSE IDLE
  BY EnsureStreamOpenUser
<1>4. IDLE \in States /\ DOWNLOADED \in States /\ NOT_ENOUGH_SPACE \in Results
      /\ INITIAL \in Results
  BY ConstantValuesType
<1>5. CASE rc # 0
  <2>1. r = handle_err_result(o, IDLE, rc, NOT_ENOUGH_SPACE)
    BY <1>5 DEF download_completed
  <2>2. /\ r.state = IDLE /\ SameUser(r, o)
        /\ Notified(o) => Notified(r)
    BY <1>1, <1>4, <2>1, HandleErrResultUser
  <2>. QED  BY <1>2, <1>3, <1>5, <2>2 DEF SameUser
<1>6. CASE rc = 0 /\ fin # 0
  <2>1. r = handle_err_result(e, IDLE, fin, NOT_ENOUGH_SPACE)
    BY <1>6 DEF download_completed
  <2>2. /\ r.state = IDLE /\ SameUser(r, e)
        /\ Notified(e) => Notified(r)
    BY <1>1, <1>4, <2>1, HandleErrResultUser
  <2>. QED  BY <1>2, <1>3, <1>6, <2>2 DEF SameUser
<1>7. CASE rc = 0 /\ fin = 0
  <2>1. r = update_state_and_update_result(e, DOWNLOADED, INITIAL)
    BY <1>7 DEF download_completed
  <2>2. /\ r.state = DOWNLOADED /\ SameUser(r, e)
        /\ Notified(e) => Notified(r)
    BY <1>1, <1>4, <2>1, UpdateStateAndResultUser
  <2>. QED  BY <1>2, <1>3, <1>7, <2>2 DEF SameUser
<1>. QED  BY <1>5, <1>6, <1>7

(* download_finished() from a record whose State and user state are Idle *)
(* or Downloading leaves them consistent and asserts nothing.            *)
LEMMA DownloadFinishedUser ==
    ASSUME NEW f \in FwRecords, NEW st, NEW open \in Int, NEW fin \in Int,
           NEW sec \in Int, NEW start
    PROVE  /\ Notified(f) => Notified(download_finished(f, st, open, fin, sec, start))
           /\ /\ f.fault = NoFault
              /\ f.state \in {IDLE, DOWNLOADING}
              /\ f.user_state \in {IDLE, DOWNLOADING}
              => UserConsistent(download_finished(f, st, open, fin, sec, start))
<1>. DEFINE g == [f EXCEPT !.download_handle = FALSE]
            r == download_finished(f, st, open, fin, sec, start)
<1>. SUFFICES /\ Notified(f) => Notified(r)
              /\ /\ f.fault = NoFault
                 /\ f.state \in {IDLE, DOWNLOADING}
                 /\ f.user_state \in {IDLE, DOWNLOADING}
                 => UserConsistent(r)
  OBVIOUS
<1>1. g \in FwRecords /\ ~g.download_handle /\ g.state = f.state
      /\ SameUser(g, f) /\ (Notified(f) => Notified(g))
  BY DEF FwRecords, SameUser, Notified
<1>0. r = IF g.state # DOWNLOADING THEN reset_user_state(g)
          ELSE IF st # "FINISHED" THEN download_failed(g, st, sec, start)
          ELSE download_completed(g, open, fin)
  BY DEF download_finished
<1>. HIDE DEF g, r
<1>2. CASE g.state # DOWNLOADING
  <2>1. r = reset_user_state(g)
    BY <1>0, <1>2
  <2>2. /\ r.state = g.state /\ r.user_state = IDLE /\ r.fault = g.fault
        /\ Notified(g) => Notified(r)
    BY <1>1, <2>1, ResetUserStateUser
  <2>. QED  BY <1>1, <1>2, <2>2 DEF UserConsistent, SameUser
<1>3. CASE g.state = DOWNLOADING /\ st # "FINISHED"
  <2>1. r = download_failed(g, st, sec, start)
    BY <1>0, <1>3
  <2>2. /\ Notified(g) => Notified(r)
        /\ g.fault = NoFault =>
             r.fault = NoFault /\ r.user_state = IDLE /\ r.state \in {IDLE, DOWNLOADING}
    BY <1>1, <2>1, DownloadFailedUser
  <2>. QED  BY <1>1, <2>2 DEF UserConsistent, SameUser
<1>4. CASE g.state = DOWNLOADING /\ st = "FINISHED"
  <2>1. r = download_completed(g, open, fin)
    BY <1>0, <1>4
  <2>2. /\ Notified(g) => Notified(r)
        /\ g.fault = NoFault /\ g.user_state \in {IDLE, DOWNLOADING} =>
             r.fault = NoFault /\ r.user_state = r.state
    BY <1>1, <2>1, DownloadCompletedUser
  <2>. QED  BY <1>1, <2>2 DEF UserConsistent, SameUser
<1>. QED  BY <1>2, <1>3, <1>4

(* A block delivered while Downloading either lands in the open stream or *)
(* ends the transfer through download_finished().                         *)
LEMMA DownloadWriteBlockUser ==
    ASSUME NEW f \in FwRecords, NEW open \in Int, NEW wr \in Int
    PROVE  /\ Notified(f) => Notified(download_write_block(f, open, wr))
           /\ /\ f.fault = NoFault /\ f.state = DOWNLOADING
              /\ f.user_state \in {IDLE, DOWNLOADING}
              => UserConsistent(download_write_block(f, open, wr))
<1>. DEFINE g  == user_state_ensure_stream_open(f, open)
            rc == IF stream_open_rc(f, open) # 0 THEN stream_open_rc(f, open) ELSE wr
            e  == handle_err_result(g, IDLE, rc, NOT_ENOUGH_SPACE)
            r  == download_write_block(f, open, wr)
<1>. SUFFICES /\ Notified(f) => Notified(r)
              /\ /\ f.fault = NoFault /\ f.state = DOWNLOADING
                 /\ f.user_state \in {IDLE, DOWNLOADING}
                 => UserConsistent(r)
  OBVIOUS
<1>1. g \in FwRecords /\ rc \in Int /\ g.state = f.state
      /\ (Notified(f) => Notified(g))
  BY EnsureStreamOpenType, EnsureStreamOpenUser, StreamOpenRcType
<1>2. f.user_state \in {IDLE, DOWNLOADING} =>
        g.fault = f.fault /\ g.user_state \in {IDLE, DOWNLOADING}
  BY EnsureStreamOpenUser
<1>3. rc = 0 => stream_open_rc(f, open) = 0
  OBVIOUS
<1>4. f.user_state \in {IDLE, DOWNLOADING} /\ stream_open_rc(f, open) = 0
        => g.user_state = DOWNLOADING
  BY EnsureStreamOpenUser
<1>5. /\ e \in FwRecords /\ e.state = IDLE /\ SameUser(e, g)
      /\ Notified(g) => Notified(e)
  BY <1>1, HandleErrResultType, HandleErrResultUser, ConstantValuesType
<1>6. r = IF rc = 0 THEN g ELSE download_finished(e, "FAILED_OTHER", 0, 0, 0, "OK")
  BY DEF download_write_block
<1>. HIDE DEF g, rc, e, r
<1>7. CASE rc = 0
  BY <1>1, <1>2, <1>3, <1>4, <1>6, <1>7 DEF UserConsistent
<1>8. CASE rc # 0
  <2>1. /\ Notified(e) => Notified(download_finished(e, "FAILED_OTHER", 0, 0, 0, "OK"))
        /\ /\ e.fault = NoFault
           /\ e.state \in {IDLE, DOWNLOADING}
           /\ e.user_state \in {IDLE, DOWNLOADING}
           => UserConsistent(download_finished(e, "FAILED_OTHER", 0, 0, 0, "OK"))
    BY <1>5, DownloadFinishedUser
  <2>. QED  BY <1>1, <1>2, <1>5, <1>6, <1>8, <2>1 DEF SameUser
<1>. QED  BY <1>7, <1>8

(* Cancelling a transfer (cancel_existing_download_if_in_progress()) in a *)
(* consistent record asserts nothing and keeps it consistent.             *)
LEMMA CancelUser ==
    ASSUME NEW f \in FwRecords
    PROVE  /\ Notified(f) => Notified(cancel_existing_download_if_in_progress(f))
           /\ TransferConsistent(f) /\ UserConsistent(f)
                => UserConsistent(cancel_existing_download_if_in_progress(f))
<1>. DEFINE r == cancel_existing_download_if_in_progress(f)
            a == download_finished(f, "ABORTED", 0, 0, 0, "OK")
<1>1. /\ Notified(f) => Notified(a)
      /\ /\ f.fault = NoFault
         /\ f.state \in {IDLE, DOWNLOADING}
         /\ f.user_state \in {IDLE, DOWNLOADING}
         => UserConsistent(a)
  BY DownloadFinishedUser
<1>2. Notified(f) => Notified([f EXCEPT !.resume_download_job = FALSE])
  BY DEF Notified, FwRecords
<1>3. /\ Notified(f) => Notified(fail(f, "cancel_existing_download: !fw->download_handle"))
      /\ Notified(f) => Notified(fail(f, "cancel_existing_download: fw->download_handle"))
  BY FailNotified
<1>4. Notified(f) => Notified(r)
  BY <1>1, <1>2, <1>3 DEF cancel_existing_download_if_in_progress
<1>5. ASSUME TransferConsistent(f), UserConsistent(f) PROVE UserConsistent(r)
  <2>1. CASE f.state # DOWNLOADING
    BY <1>5, <2>1 DEF cancel_existing_download_if_in_progress
  <2>2. CASE f.state = DOWNLOADING
    <3>1. f.download_handle /\ ~f.resume_download_job
      BY <1>5, <2>2 DEF TransferConsistent
    <3>2. r = a
      BY <2>2, <3>1 DEF cancel_existing_download_if_in_progress
    <3>3. f.fault = NoFault /\ f.user_state \in {IDLE, DOWNLOADING}
      BY <1>5, <2>2 DEF UserConsistent
    <3>. QED  BY <1>1, <2>2, <3>2, <3>3
  <2>. QED  BY <2>1, <2>2
<1>. QED  BY <1>4, <1>5

-----------------------------------------------------------------------------
(* The server's writes and the application's set_result.                   *)

(* A push write from Idle with no stream ends Idle with no stream, or     *)
(* Downloaded with a finished one.                                        *)
LEMMA WriteFirmwareUser ==
    ASSUME NEW f \in FwRecords, NEW payload, NEW open \in Int, NEW wr \in Int,
           NEW fin \in Int
    PROVE  /\ Notified(f) => Notified(write_firmware(f, payload, open, wr, fin))
           /\ f.fault = NoFault /\ f.state = IDLE /\ f.user_state = IDLE
                => UserConsistent(write_firmware(f, payload, open, wr, fin))
<1>. DEFINE o == user_state_ensure_stream_open(f, open)
            e == finish_user_stream(o, fin)
            r == write_firmware(f, payload, open, wr, fin)
<1>. SUFFICES /\ Notified(f) => Notified(r)
              /\ f.fault = NoFault /\ f.state = IDLE /\ f.user_state = IDLE
                   => UserConsistent(r)
  OBVIOUS
<1>0. /\ o \in FwRecords /\ o.state = f.state
      /\ Notified(f) => Notified(o)
  BY EnsureStreamOpenType, EnsureStreamOpenUser
<1>1. /\ o \in FwRecords /\ e \in FwRecords /\ o.state = f.state
      /\ e.state = o.state /\ e.fault = o.fault
      /\ e.user_state = IF fin = 0 THEN DOWNLOADED ELSE IDLE
      /\ Notified(f) => Notified(o)
      /\ Notified(o) => Notified(e)
  BY <1>0, FinishUserStreamType, FinishUserStreamUser
<1>2. f.user_state = IDLE =>
        /\ o.fault = f.fault
        /\ o.user_state = IF stream_open_rc(f, open) = 0 THEN DOWNLOADING ELSE IDLE
  BY EnsureStreamOpenUser
<1>3. /\ IDLE \in States /\ DOWNLOADED \in States /\ CONNECTION_LOST \in Results
      /\ NOT_ENOUGH_SPACE \in Results /\ INITIAL \in Results
  BY ConstantValuesType
<1>4. /\ update_state_and_update_result(o, IDLE, CONNECTION_LOST) \in FwRecords
      /\ update_state_and_update_result(o, IDLE, CONNECTION_LOST).state = IDLE
      /\ SameUser(update_state_and_update_result(o, IDLE, CONNECTION_LOST), o)
      /\ Notified(o) => Notified(update_state_and_update_result(o, IDLE, CONNECTION_LOST))
  BY <1>1, <1>3, UpdateStateAndResultType, UpdateStateAndResultUser
<1>11. /\ handle_err_result(o, IDLE, wr, NOT_ENOUGH_SPACE) \in FwRecords
       /\ handle_err_result(o, IDLE, wr, NOT_ENOUGH_SPACE).state = IDLE
       /\ SameUser(handle_err_result(o, IDLE, wr, NOT_ENOUGH_SPACE), o)
       /\ Notified(o) => Notified(handle_err_result(o, IDLE, wr, NOT_ENOUGH_SPACE))
  BY <1>1, <1>3, HandleErrResultType, HandleErrResultUser
<1>5. CASE stream_open_rc(f, open) # 0
  <2>1. r = o
    BY <1>5 DEF write_firmware
  <2>. QED  BY <1>1, <1>2, <1>5, <2>1 DEF UserConsistent
<1>6. CASE stream_open_rc(f, open) = 0 /\ payload = "BROKEN"
  <2>1. r = reset_user_state(update_state_and_update_result(o, IDLE, CONNECTION_LOST))
    BY <1>6 DEF write_firmware
  <2>. QED  BY <1>1, <1>2, <1>4, <2>1, ResetUserStateUser DEF UserConsistent, SameUser
<1>7. CASE stream_open_rc(f, open) = 0 /\ payload # "BROKEN" /\ wr # 0
  <2>1. r = reset_user_state(handle_err_result(o, IDLE, wr, NOT_ENOUGH_SPACE))
    BY <1>7 DEF write_firmware
  <2>. QED  BY <1>1, <1>2, <1>11, <2>1, ResetUserStateUser DEF UserConsistent, SameUser
<1>8. CASE stream_open_rc(f, open) = 0 /\ payload = "RESET" /\ wr = 0
  <2>1. r = reset(o)
    BY <1>8 DEF write_firmware
  <2>. QED  BY <1>1, <1>2, <2>1, ResetUser DEF UserConsistent
<1>9. CASE stream_open_rc(f, open) = 0 /\ payload \notin {"BROKEN", "RESET"}
           /\ wr = 0 /\ fin # 0
  <2>1. r = handle_err_result(e, IDLE, fin, NOT_ENOUGH_SPACE)
    BY <1>9 DEF write_firmware
  <2>2. r.state = IDLE /\ SameUser(r, e) /\ (Notified(e) => Notified(r))
    BY <1>1, <1>3, <2>1, HandleErrResultUser
  <2>. QED  BY <1>1, <1>2, <1>9, <2>2 DEF UserConsistent, SameUser
<1>10. CASE stream_open_rc(f, open) = 0 /\ payload \notin {"BROKEN", "RESET"}
            /\ wr = 0 /\ fin = 0
  <2>1. r = update_state_and_update_result(e, DOWNLOADED, INITIAL)
    BY <1>10 DEF write_firmware
  <2>2. r.state = DOWNLOADED /\ SameUser(r, e) /\ (Notified(e) => Notified(r))
    BY <1>1, <1>3, <2>1, UpdateStateAndResultUser
  <2>. QED  BY <1>1, <1>2, <1>10, <2>2 DEF UserConsistent, SameUser
<1>. QED  BY <1>5, <1>6, <1>7, <1>8, <1>9, <1>10

(* fw_write(): a push write in Idle, a reset request in Downloading or    *)
(* Downloaded, nothing in Updating.                                       *)
LEMMA FwWritePackageUser ==
    ASSUME NEW f \in FwRecords, NEW payload, NEW open \in Int, NEW wr \in Int,
           NEW fin \in Int
    PROVE  /\ Notified(f) => Notified(fw_write_package(f, payload, open, wr, fin))
           /\ TransferConsistent(f) /\ UserConsistent(f)
                => UserConsistent(fw_write_package(f, payload, open, wr, fin))
<1>. DEFINE r == fw_write_package(f, payload, open, wr, fin)
            c == cancel_existing_download_if_in_progress(f)
<1>1. c \in FwRecords
  BY CancelType
<1>2. /\ Notified(c) => Notified(reset(c))
      /\ reset(c).state = IDLE /\ reset(c).user_state = IDLE
      /\ reset(c).fault = c.fault
  BY <1>1, ResetUser
<1>3. /\ Notified(f) => Notified(c)
      /\ TransferConsistent(f) /\ UserConsistent(f) => UserConsistent(c)
  BY CancelUser
<1>4. /\ Notified(f) => Notified(write_firmware(f, payload, open, wr, fin))
      /\ f.fault = NoFault /\ f.state = IDLE /\ f.user_state = IDLE
           => UserConsistent(write_firmware(f, payload, open, wr, fin))
  BY WriteFirmwareUser
<1>5. f.state = IDLE /\ UserConsistent(f) => f.user_state = IDLE
  BY DEF UserConsistent
<1>6. CASE f.state = UPDATING
  <2>1. r = f
    BY <1>6 DEF fw_write_package, IDLE, UPDATING
  <2>. QED  BY <2>1
<1>7. CASE f.state = IDLE
  <2>1. r = write_firmware(f, payload, open, wr, fin)
    BY <1>7 DEF fw_write_package, IDLE, UPDATING
  <2>. QED  BY <1>4, <1>5, <1>7, <2>1 DEF UserConsistent
<1>8. CASE f.state \notin {IDLE, UPDATING}
  <2>1. r = IF payload = "RESET" THEN reset(c) ELSE f
    BY <1>8 DEF fw_write_package, IDLE, UPDATING
  <2>2. TransferConsistent(f) /\ UserConsistent(f) => reset(c).fault = NoFault
    BY <1>2, <1>3 DEF UserConsistent
  <2>. QED  BY <1>2, <1>3, <2>1, <2>2 DEF UserConsistent
<1>. QED  BY <1>6, <1>7, <1>8

(* A Package URI write: cancel and reset on the empty string, a start     *)
(* of the pull transfer from Idle, nothing in other States.               *)
LEMMA FwWritePackageUriUser ==
    ASSUME NEW f \in FwRecords, NEW uri \in {NoUri} \cup Uris, NEW sec \in Int,
           NEW start
    PROVE  /\ Notified(f) => Notified(fw_write_package_uri(f, uri, sec, start))
           /\ TransferConsistent(f) /\ UserConsistent(f)
                => UserConsistent(fw_write_package_uri(f, uri, sec, start))
<1>. DEFINE r == fw_write_package_uri(f, uri, sec, start)
            c == [cancel_existing_download_if_in_progress(f)
                     EXCEPT !.package_uri = NoUri]
            u == [f EXCEPT !.package_uri = uri]
<1>1. c \in FwRecords /\ u \in FwRecords
  BY CancelType DEF FwRecords
<1>2. /\ Notified(f) => Notified(c)
      /\ TransferConsistent(f) /\ UserConsistent(f) => c.fault = NoFault
  <2>1. /\ Notified(f) => Notified(cancel_existing_download_if_in_progress(f))
        /\ TransferConsistent(f) /\ UserConsistent(f)
             => UserConsistent(cancel_existing_download_if_in_progress(f))
    BY CancelUser
  <2>. QED  BY <2>1, CancelType DEF Notified, UserConsistent, FwRecords
<1>3. /\ Notified(c) => Notified(reset(c))
      /\ reset(c).state = IDLE /\ reset(c).user_state = IDLE
      /\ reset(c).fault = c.fault
  BY <1>1, ResetUser
<1>4. /\ Notified(f) => Notified(u)
      /\ u.state = f.state /\ u.user_state = f.user_state /\ u.fault = f.fault
      /\ u.download_handle = f.download_handle
  BY DEF Notified, FwRecords
<1>5. /\ Notified(u) => Notified(schedule_download(u, FALSE, sec, start))
      /\ u.fault = NoFault /\ ~u.download_handle
         /\ u.user_state \in {IDLE, DOWNLOADING} =>
           /\ schedule_download(u, FALSE, sec, start).fault = NoFault
           /\ schedule_download(u, FALSE, sec, start).user_state \in {IDLE, u.user_state}
           /\ schedule_download(u, FALSE, sec, start).state \in {IDLE, DOWNLOADING, u.state}
  BY <1>1, ScheduleUser
<1>6. /\ Notified(f) => Notified(set_update_result(f, UNSUPPORTED_PROTOCOL))
      /\ set_update_result(f, UNSUPPORTED_PROTOCOL).state = f.state
      /\ SameUser(set_update_result(f, UNSUPPORTED_PROTOCOL), f)
  BY SetUpdateResultUser
<1>7. CASE uri = NoUri
  <2>1. r = IF f.state = UPDATING THEN f ELSE reset(c)
    BY <1>7 DEF fw_write_package_uri
  <2>. QED  BY <1>2, <1>3, <2>1 DEF UserConsistent
<1>8. CASE uri # NoUri /\ f.state # IDLE
  <2>1. r = f
    BY <1>8 DEF fw_write_package_uri
  <2>. QED  BY <2>1
<1>9. CASE uri # NoUri /\ f.state = IDLE
  <2>1. r = IF transport_security_from_uri(uri) = "UNDEFINED"
            THEN set_update_result(f, UNSUPPORTED_PROTOCOL)
            ELSE schedule_download(u, FALSE, sec, start)
    BY <1>9 DEF fw_write_package_uri
  <2>2. TransferConsistent(f) /\ UserConsistent(f)
          => /\ u.fault = NoFault /\ ~u.download_handle
             /\ u.user_state = IDLE /\ u.state = IDLE
    BY <1>4, <1>9 DEF TransferConsistent, UserConsistent, IDLE, DOWNLOADING
  <2>. QED  BY <1>4, <1>5, <1>6, <2>1, <2>2 DEF UserConsistent, SameUser
<1>. QED  BY <1>7, <1>8, <1>9

(* anjay_fw_update_set_result(): an accepted result resets the user's     *)
(* state along with State.                                                *)
LEMMA SetResultUser ==
    ASSUME NEW f \in FwRecords, NEW res \in Results
    PROVE  /\ Notified(f) => Notified(anjay_fw_update_set_result(f, res))
           /\ UserConsistent(f)
                => UserConsistent(anjay_fw_update_set_result(f, res))
<1>1. reset_user_state(f) \in FwRecords /\ reset_user_state(f).user_state = IDLE
      /\ reset_user_state(f).fault = f.fault
      /\ (Notified(f) => Notified(reset_user_state(f)))
  BY ResetUserStateType, ResetUserStateUser
<1>2. /\ update_state_and_update_result(reset_user_state(f), IDLE, res).state = IDLE
      /\ SameUser(update_state_and_update_result(reset_user_state(f), IDLE, res),
                  reset_user_state(f))
      /\ Notified(reset_user_state(f))
           => Notified(update_state_and_update_result(reset_user_state(f), IDLE, res))
  BY <1>1, UpdateStateAndResultUser, ConstantValuesType
<1>. QED  BY <1>1, <1>2 DEF anjay_fw_update_set_result, UserConsistent, SameUser

(* resume_download_job() notifies what it changes. *)
LEMMA ResumeNotified ==
    ASSUME NEW f \in FwRecords, NEW reg, NEW late, NEW resched, NEW sec \in Int,
           NEW start
    PROVE  Notified(f) => Notified(resume_download_job(f, reg, late, resched, sec, start))
<1>. DEFINE g == [f EXCEPT !.resume_download_job = FALSE]
<1>1. g \in FwRecords /\ (Notified(f) => Notified(g))
  BY DEF FwRecords, Notified
<1>2. Notified(g) => Notified(schedule_download(g, TRUE, sec, start))
  BY <1>1, ScheduleUser
<1>3. /\ reset_user_state(g) \in FwRecords
      /\ Notified(g) => Notified(reset_user_state(g))
  BY <1>1, ResetUserStateType, ResetUserStateUser
<1>4. /\ Notified(reset_user_state(g))
           => Notified(update_state_and_update_result(reset_user_state(g), IDLE,
                                                      CONNECTION_LOST))
      /\ Notified(reset_user_state(g))
           => Notified(update_state_and_update_result(reset_user_state(g), IDLE,
                                                      OUT_OF_MEMORY))
  BY <1>3, UpdateStateAndResultUser, ConstantValuesType
<1>5. Notified(g) => Notified([g EXCEPT !.resume_download_job = TRUE,
                                        !.polls = g.polls + 1])
  BY <1>1 DEF Notified, FwRecords
<1>. QED  BY <1>1, <1>2, <1>3, <1>4, <1>5 DEF resume_download_job

-----------------------------------------------------------------------------
(* Install.                                                                *)

(* With prefer_same_socket_downloads off, a persisted Downloading state   *)
(* restarts with a consistent user state and asserts nothing.             *)
LEMMA InitializeDownloadingUser ==
    ASSUME NEW uri \in {NoUri} \cup Uris,
           NEW etag \in BOOLEAN, NEW offset \in BOOLEAN,
           NEW deferred \in BOOLEAN, NEW sec \in Int, NEW start,
           NEW sec2 \in Int, NEW start2
    PROVE  UserConsistent(initialize_downloading(FALSE, uri, etag, offset,
                                  deferred, sec, start, sec2, start2))
<1>. DEFINE f0 == [Zero EXCEPT !.user_state = DOWNLOADING]
            f1 == IF offset /\ ~etag THEN reset_user_state(f0) ELSE f0
            f2 == [f1 EXCEPT !.package_uri = uri]
            s2 == schedule_download(f2, etag, sec, start)
            f3 == reset_user_state(s2)
            r  == initialize_downloading(FALSE, uri, etag, offset, deferred,
                                         sec, start, sec2, start2)
<1>1. /\ f0 \in FwRecords /\ f0.state = IDLE /\ f0.fault = NoFault
      /\ f0.user_state = DOWNLOADING
      /\ ~f0.download_handle /\ ~f0.resume_download_job
  BY ZeroType, ConstantValuesType DEF FwRecords, Zero
<1>2. /\ f1 \in FwRecords /\ f1.state = IDLE /\ f1.fault = NoFault
      /\ f1.user_state \in {IDLE, DOWNLOADING}
      /\ ~f1.download_handle /\ ~f1.resume_download_job
  BY <1>1, ResetUserStateType, ResetUserStateUser, ResetUserStateFrame
     DEF SameTransfer
<1>4. r = IF uri = NoUri THEN reset_user_state(f1)
          ELSE IF schedule_download_ok(f2, sec, start) THEN s2
          ELSE IF f3.result = CONNECTION_LOST /\ etag
          THEN schedule_download(f3, FALSE, sec2, start2)
          ELSE f3
  BY Zenon DEF initialize_downloading, schedule_background_anjay_download,
               defers_download
<1>3. /\ f2 \in FwRecords /\ f2.state = IDLE /\ f2.fault = NoFault
      /\ f2.user_state \in {IDLE, DOWNLOADING}
      /\ ~f2.download_handle /\ ~f2.resume_download_job
  BY <1>2 DEF FwRecords
<1>. HIDE DEF f0, f1, f2
<1>5. /\ s2 \in FwRecords
      /\ s2.fault = NoFault /\ s2.user_state \in {IDLE, f2.user_state}
      /\ s2.state \in {IDLE, DOWNLOADING, f2.state}
      /\ schedule_download_ok(f2, sec, start) => s2.state = DOWNLOADING
      /\ ~schedule_download_ok(f2, sec, start) => ~s2.download_handle
  <2>1. s2 \in FwRecords
    BY <1>3, ScheduleDownloadType
  <2>2. /\ schedule_download_ok(f2, sec, start) => s2.state = DOWNLOADING
        /\ s2.fault = NoFault /\ s2.user_state \in {IDLE, f2.user_state}
        /\ s2.state \in {IDLE, DOWNLOADING, f2.state}
    BY <1>3, ScheduleUser
  <2>3. ~schedule_download_ok(f2, sec, start) => ~s2.download_handle
    BY <1>3, ScheduleDownloadTransfer
  <2>. QED  BY <2>1, <2>2, <2>3
<1>6. /\ f3 \in FwRecords /\ f3.fault = NoFault /\ f3.user_state = IDLE
      /\ f3.state \in {IDLE, DOWNLOADING}
      /\ f3.download_handle = s2.download_handle
  BY <1>3, <1>5, ResetUserStateType, ResetUserStateUser, ResetUserStateFrame
     DEF SameTransfer
<1>7. CASE uri = NoUri
  <2>1. /\ reset_user_state(f1).state = IDLE
        /\ reset_user_state(f1).user_state = IDLE
        /\ reset_user_state(f1).fault = NoFault
    BY <1>2, ResetUserStateUser
  <2>. QED  BY <1>4, <1>7, <2>1 DEF UserConsistent
<1>8. CASE uri # NoUri /\ schedule_download_ok(f2, sec, start)
  BY <1>3, <1>4, <1>5, <1>8 DEF UserConsistent
<1>9. CASE uri # NoUri /\ ~schedule_download_ok(f2, sec, start)
  <2>1. ~f3.download_handle
    BY <1>5, <1>6, <1>9
  <2>2. LET t == schedule_download(f3, FALSE, sec2, start2)
        IN  /\ t.fault = NoFault /\ t.user_state \in {IDLE, f3.user_state}
            /\ t.state \in {IDLE, DOWNLOADING, f3.state}
    BY <1>6, <2>1, ScheduleUser
  <2>. QED  BY <1>4, <1>6, <1>9, <2>2 DEF UserConsistent
<1>. QED  BY <1>7, <1>8, <1>9

(* Every persisted state restarts with a consistent user state. *)
LEMMA InitializeFwReprUser ==
    ASSUME NEW kind, NEW uri \in {NoUri} \cup Uris,
           NEW etag \in BOOLEAN, NEW offset \in BOOLEAN,
           NEW deferred \in BOOLEAN, NEW sec \in Int, NEW start,
           NEW sec2 \in Int, NEW start2
    PROVE  UserConsistent(initialize_fw_repr(kind, FALSE, uri, etag, offset,
                              deferred, sec, start, sec2, start2))
<1>1. UserConsistent([Zero EXCEPT !.package_uri = uri,
                      !.user_state = DOWNLOADED, !.state = DOWNLOADED])
  BY DEF Zero, UserConsistent
<1>2. UserConsistent([Zero EXCEPT !.user_state = UPDATING, !.state = UPDATING])
  BY DEF Zero, UserConsistent
<1>3. \A res : UserConsistent([Zero EXCEPT !.result = res])
  BY DEF Zero, UserConsistent
<1>4. UserConsistent(Zero)
  BY DEF Zero, UserConsistent
<1>. QED  BY <1>1, <1>2, <1>3, <1>4, InitializeDownloadingUser
          DEF initialize_fw_repr

-----------------------------------------------------------------------------
(* The user-delivery adapter in the core environment.                      *)

LEMMA InitAInv ==
    ASSUME CoreEnvironment
    PROVE  Init => AInv
<1>. SUFFICES ASSUME Init PROVE AInv
  OBVIOUS
<1>1. PICK kind \in InitialStateKinds, prefer \in PreferSameSocketValues,
           uri \in {NoUri} \cup ValidUris, etag, offset, deferred \in BOOLEAN,
           sec, sec2 \in HandlerResults, start, start2 \in StartResults :
          fw = installed(initialize_fw_repr(kind, prefer, uri, etag, offset,
                                            deferred, sec, start, sec2, start2))
  BY DEF Init
<1>2. prefer = FALSE /\ sec \in Int /\ sec2 \in Int
  BY <1>1, ConstantsAssumption DEF CoreEnvironment
<1>3. UserConsistent(initialize_fw_repr(kind, FALSE, uri, etag, offset,
                         deferred, sec, start, sec2, start2))
  BY <1>2, InitializeFwReprUser DEF ValidUris
<1>4. \A f : UserConsistent(f) => UserConsistent(installed(f))
  BY DEF installed, UserConsistent
<1>. QED  BY <1>1, <1>2, <1>3, <1>4, InitIInv DEF AInv

LEMMA NextAInv ==
    ASSUME CoreEnvironment
    PROVE  AInv /\ [Next]_vars => AInv'
<1>. SUFFICES ASSUME AInv, [Next]_vars PROVE AInv'
  OBVIOUS
<1>0. /\ IInv' /\ fw \in FwRecords /\ TransferConsistent(fw)
      /\ UserConsistent(fw) /\ HandlerResults \subseteq Int
      /\ SetResultValues \subseteq Results
  BY NextIInv, ConstantsAssumption DEF AInv, IInv, TypeOK
<1>. SUFFICES UserConsistent(fw')
  BY <1>0 DEF AInv
<1>1. CASE WritePackage
  BY <1>0, <1>1, FwWritePackageUser DEF WritePackage
<1>2. CASE WritePackageUri
  BY <1>0, <1>2, FwWritePackageUriUser DEF WritePackageUri
<1>3. CASE DownloadWriteBlock
  <2>1. fw.state = DOWNLOADING /\ fw.user_state \in {IDLE, DOWNLOADING}
        /\ fw.fault = NoFault
    BY <1>0, <1>3 DEF DownloadWriteBlock, TransferConsistent, UserConsistent
  <2>. QED  BY <1>0, <1>3, <2>1, DownloadWriteBlockUser DEF DownloadWriteBlock
<1>4. CASE DownloadFinished
  <2>1. fw.state = DOWNLOADING /\ fw.user_state \in {IDLE, DOWNLOADING}
        /\ fw.fault = NoFault
    BY <1>0, <1>4 DEF DownloadFinished, TransferConsistent, UserConsistent
  <2>. QED  BY <1>0, <1>4, <2>1, DownloadFinishedUser DEF DownloadFinished
<1>5. CASE ResumeDownloadJob
  BY <1>0, <1>5 DEF ResumeDownloadJob, TransferConsistent
<1>6. CASE SetResult
  BY <1>0, <1>6, SetResultUser DEF SetResult
<1>7. CASE Execute
  BY <1>7 DEF Execute, CoreEnvironment
<1>8. CASE RegistrationChange
  BY <1>0, <1>8 DEF RegistrationChange
<1>9. CASE UNCHANGED vars
  BY <1>0, <1>9 DEF vars
<1>. QED  BY <1>1, <1>2, <1>3, <1>4, <1>5, <1>6, <1>7, <1>8, <1>9 DEF Next

(* In the core environment, and for every value of the other               *)
(* constants, no assert() of anjay_fw_update.c fails: stream_open is     *)
(* only called with no stream open, get_security_config() only with the *)
(* user state Idle or Downloading, and no download is scheduled over a   *)
(* live handle or cancelled without one (NoAssertionFailure).            *)
THEOREM NoAssertionFailureCore ==
    ASSUME CoreEnvironment
    PROVE  Spec => []NoAssertionFailure
<1>1. Init => AInv
  BY InitAInv
<1>2. AInv /\ [Next]_vars => AInv'
  BY NextAInv
<1>3. AInv => NoAssertionFailure
  BY DEF AInv, UserConsistent, NoAssertionFailure
<1>. QED  BY <1>1, <1>2, <1>3, PTL DEF Spec

(* In the core environment the user's stream is open only while a          *)
(* download is pending to feed it (StreamHasProducer): every path that    *)
(* ends a transfer, cancels it or reports a result also resets the       *)
(* user's state.                                                          *)
THEOREM StreamHasProducerCore ==
    ASSUME CoreEnvironment
    PROVE  Spec => []StreamHasProducer
<1>1. Init => AInv
  BY InitAInv
<1>2. AInv /\ [Next]_vars => AInv'
  BY NextAInv
<1>3. AInv => StreamHasProducer
  BY DEF AInv, IInv, UserConsistent, TransferConsistent, StreamHasProducer,
         IDLE, DOWNLOADING
<1>. QED  BY <1>1, <1>2, <1>3, PTL DEF Spec

(* In the core environment State is Downloaded or Updating exactly         *)
(* when the user's handlers are (AdapterMatchesState): an Update is      *)
(* never applied to an image the user does not hold, and the user never  *)
(* holds a finished image that State does not report.                     *)
THEOREM AdapterMatchesStateCore ==
    ASSUME CoreEnvironment
    PROVE  Spec => []AdapterMatchesState
<1>1. Init => AInv
  BY InitAInv
<1>2. AInv /\ [Next]_vars => AInv'
  BY NextAInv
<1>3. AInv => AdapterMatchesState
  BY DEF AInv, UserConsistent, AdapterMatchesState, IDLE, DOWNLOADING,
         DOWNLOADED, UPDATING
<1>. QED  BY <1>1, <1>2, <1>3, PTL DEF Spec

-----------------------------------------------------------------------------
(* Notifications, whatever the resumption and set_result settings.         *)

NInv == TypeOK /\ Notified(fw)

LEMMA InitNInv == Init => NInv
<1>. SUFFICES ASSUME Init PROVE NInv
  OBVIOUS
<1>1. \A f : Notified(installed(f))
  BY DEF installed, Notified
<1>. QED  BY <1>1, InitTypeOK DEF Init, NInv

LEMMA NextNInv ==
    ASSUME ~ServerExecutes
    PROVE  NInv /\ [Next]_vars => NInv'
<1>. SUFFICES ASSUME NInv, [Next]_vars PROVE NInv'
  OBVIOUS
<1>0. /\ TypeOK' /\ fw \in FwRecords /\ Notified(fw)
      /\ HandlerResults \subseteq Int /\ SetResultValues \subseteq Results
  BY NextTypeOK, ConstantsAssumption DEF NInv, TypeOK
<1>. SUFFICES Notified(fw')
  BY <1>0 DEF NInv
<1>1. CASE WritePackage
  BY <1>0, <1>1, FwWritePackageUser DEF WritePackage
<1>2. CASE WritePackageUri
  BY <1>0, <1>2, FwWritePackageUriUser DEF WritePackageUri
<1>3. CASE DownloadWriteBlock
  BY <1>0, <1>3, DownloadWriteBlockUser DEF DownloadWriteBlock
<1>4. CASE DownloadFinished
  BY <1>0, <1>4, DownloadFinishedUser DEF DownloadFinished
<1>5. CASE ResumeDownloadJob
  BY <1>0, <1>5, ResumeNotified DEF ResumeDownloadJob
<1>6. CASE SetResult
  BY <1>0, <1>6, SetResultUser DEF SetResult
<1>7. CASE Execute
  BY <1>7 DEF Execute
<1>8. CASE RegistrationChange
  BY <1>0, <1>8 DEF RegistrationChange
<1>9. CASE UNCHANGED vars
  BY <1>0, <1>9 DEF vars
<1>. QED  BY <1>1, <1>2, <1>3, <1>4, <1>5, <1>6, <1>7, <1>8, <1>9 DEF Next

(* Whenever servers do not Execute Update, and whatever the same-socket   *)
(* and set_result settings, observers have been notified of the current   *)
(* State and Update Result (NotifiedMatches): every helper that changes  *)
(* either goes through set_state() or set_update_result().               *)
THEOREM NotifiedMatchesNoExecute ==
    ASSUME ~ServerExecutes
    PROVE  Spec => []NotifiedMatches
<1>1. Init => NInv
  BY InitNInv
<1>2. NInv /\ [Next]_vars => NInv'
  BY NextNInv
<1>3. NInv => NotifiedMatches
  BY DEF NInv, Notified, NotifiedMatches
<1>. QED  BY <1>1, <1>2, <1>3, PTL DEF Spec

=============================================================================
