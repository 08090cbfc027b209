--------------------------- MODULE FwUpdateProofs ---------------------------
(***************************************************************************)
(* Proofs about the Firmware Update object model FwUpdate, for every value *)
(* of its constants that ConstantsAssumption allows.                       *)
(*                                                                         *)
(* Type correctness rests on one lemma per C helper: each record           *)
(* transformer maps a well-typed fw_repr (FwRecords) to a well-typed one,  *)
(* given well-typed inputs.  The only non-local fact is the resumption     *)
(* counter: resume_download_job() increments polls only when the deadline  *)
(* has not passed, which the action guarantees below MaxResumePolls.       *)
(***************************************************************************)
EXTENDS FwUpdate, TLAPS

USE ConstantsAssumption

(* The record operations the helpers are built from. *)
LEMMA FailType ==
    ASSUME NEW f \in FwRecords, NEW site \in AssertionSites
    PROVE  fail(f, site) \in FwRecords
BY DEF fail, FwRecords

LEMMA SetUpdateResultType ==
    ASSUME NEW f \in FwRecords, NEW r \in Results
    PROVE  set_update_result(f, r) \in FwRecords
BY DEF set_update_result, FwRecords

LEMMA SetStateType ==
    ASSUME NEW f \in FwRecords, NEW s \in States
    PROVE  set_state(f, s) \in FwRecords
BY DEF set_state, FwRecords

LEMMA UpdateStateAndResultType ==
    ASSUME NEW f \in FwRecords, NEW s \in States, NEW r \in Results
    PROVE  update_state_and_update_result(f, s, r) \in FwRecords
BY SetUpdateResultType, SetStateType DEF update_state_and_update_result

LEMMA EnsureStreamOpenType ==
    ASSUME NEW f \in FwRecords, NEW open \in Int
    PROVE  user_state_ensure_stream_open(f, open) \in FwRecords
<1>1. fail(f, "user_state_ensure_stream_open: user->state == IDLE")
        \in FwRecords
  BY FailType DEF AssertionSites
<1>2. [f EXCEPT !.user_state = DOWNLOADING] \in FwRecords
  BY DEF FwRecords, States, IDLE, DOWNLOADING, DOWNLOADED, UPDATING
<1>. QED  BY <1>1, <1>2 DEF user_state_ensure_stream_open

LEMMA StreamOpenRcType ==
    ASSUME NEW f \in FwRecords, NEW open \in Int
    PROVE  stream_open_rc(f, open) \in Int
BY DEF stream_open_rc

LEMMA FinishUserStreamType ==
    ASSUME NEW f \in FwRecords, NEW fin \in Int
    PROVE  finish_user_stream(f, fin) \in FwRecords
BY DEF finish_user_stream, FwRecords, States, IDLE, DOWNLOADING, DOWNLOADED,
       UPDATING

LEMMA ResetUserStateType ==
    ASSUME NEW f \in FwRecords
    PROVE  reset_user_state(f) \in FwRecords
BY DEF reset_user_state, FwRecords, States, IDLE, DOWNLOADING, DOWNLOADED,
       UPDATING

LEMMA HandleErrResultType ==
    ASSUME NEW f \in FwRecords, NEW s \in States, NEW rc \in Int,
           NEW default \in Results
    PROVE  handle_err_result(f, s, rc, default) \in FwRecords
<1>1. (IF -rc \in {NOT_ENOUGH_SPACE, OUT_OF_MEMORY, INTEGRITY_FAILURE,
                   UNSUPPORTED_PACKAGE_TYPE} THEN -rc ELSE default) \in Results
  BY DEF NOT_ENOUGH_SPACE, OUT_OF_MEMORY, INTEGRITY_FAILURE,
         UNSUPPORTED_PACKAGE_TYPE, Results
<1>. QED  BY <1>1, UpdateStateAndResultType DEF handle_err_result

LEMMA ResetType ==
    ASSUME NEW f \in FwRecords
    PROVE  reset(f) \in FwRecords
BY ResetUserStateType, UpdateStateAndResultType
   DEF reset, States, Results, IDLE, DOWNLOADING, DOWNLOADED, UPDATING, INITIAL

(* The fixed values the helpers store are of their types. *)
LEMMA ConstantValuesType ==
    /\ {IDLE, DOWNLOADING, DOWNLOADED, UPDATING} \subseteq States
    /\ {INITIAL, SUCCESS, NOT_ENOUGH_SPACE, OUT_OF_MEMORY, CONNECTION_LOST,
        INTEGRITY_FAILURE, UNSUPPORTED_PACKAGE_TYPE, INVALID_URI, FAILED,
        UNSUPPORTED_PROTOCOL} \subseteq Results
    /\ \A st : download_failure_result(st) \in Results
    /\ \A err : download_start_result(err) \in Results
BY DEF States, Results, IDLE, DOWNLOADING, DOWNLOADED, UPDATING, INITIAL,
       SUCCESS, NOT_ENOUGH_SPACE, OUT_OF_MEMORY, CONNECTION_LOST,
       INTEGRITY_FAILURE, UNSUPPORTED_PACKAGE_TYPE, INVALID_URI, FAILED,
       UNSUPPORTED_PROTOCOL, download_failure_result, download_start_result

(* The transfer fields schedule_download() sets. *)
LEMMA StartTransferType ==
    ASSUME NEW f \in FwRecords, NEW etag \in BOOLEAN
    PROVE  [f EXCEPT !.download_handle = TRUE,
                     !.retry_download_on_expired = etag] \in FwRecords
BY Zenon DEF FwRecords

LEMMA ScheduleDownloadType ==
    ASSUME NEW f \in FwRecords, NEW etag \in BOOLEAN, NEW sec \in Int,
           NEW start
    PROVE  schedule_download(f, etag, sec, start) \in FwRecords
<1>. DEFINE g == IF transport_security_from_uri(f.package_uri) = "ENCRYPTED"
                    /\ f.user_state \notin {IDLE, DOWNLOADING}
                 THEN fail(f, "get_security_config: user_state IDLE or DOWNLOADING")
                 ELSE f
            h == IF g.download_handle
                 THEN fail(g, "schedule_download: !fw->download_handle") ELSE g
<1>1. g \in FwRecords
  BY FailType DEF AssertionSites
<1>2. h \in FwRecords
  BY <1>1, FailType DEF AssertionSites
<1>3. [h EXCEPT !.download_handle = TRUE, !.retry_download_on_expired = etag]
        \in FwRecords
  BY <1>2, StartTransferType
<1>4. handle_err_result(g, IDLE, sec, UNSUPPORTED_PROTOCOL) \in FwRecords
  BY <1>1, HandleErrResultType, ConstantValuesType
<1>5. set_update_result(reset_user_state(h), download_start_result(start))
        \in FwRecords
  BY <1>2, ResetUserStateType, SetUpdateResultType, ConstantValuesType
<1>6. update_state_and_update_result(
          [h EXCEPT !.download_handle = TRUE, !.retry_download_on_expired = etag],
          DOWNLOADING, INITIAL) \in FwRecords
  BY <1>3, UpdateStateAndResultType, ConstantValuesType
<1>. QED  BY <1>4, <1>5, <1>6 DEF schedule_download

LEMMA DownloadFailedType ==
    ASSUME NEW g \in FwRecords, NEW st, NEW sec \in Int, NEW start
    PROVE  download_failed(g, st, sec, start) \in FwRecords
<1>1. reset_user_state(g) \in FwRecords
  BY ResetUserStateType
<1>2. schedule_download(reset_user_state(g), FALSE, sec, start) \in FwRecords
  BY <1>1, ScheduleDownloadType
<1>3. set_state(schedule_download(reset_user_state(g), FALSE, sec, start), IDLE)
        \in FwRecords
  BY <1>2, SetStateType, ConstantValuesType
<1>4. update_state_and_update_result(reset_user_state(g), IDLE,
                                     download_failure_result(st)) \in FwRecords
  BY <1>1, UpdateStateAndResultType, ConstantValuesType
<1>. QED  BY <1>2, <1>3, <1>4 DEF download_failed

LEMMA DownloadCompletedType ==
    ASSUME NEW g \in FwRecords, NEW open \in Int, NEW fin \in Int
    PROVE  download_completed(g, open, fin) \in FwRecords
<1>1. user_state_ensure_stream_open(g, open) \in FwRecords
  BY EnsureStreamOpenType
<1>2. finish_user_stream(user_state_ensure_stream_open(g, open), fin)
        \in FwRecords
  BY <1>1, FinishUserStreamType
<1>3. stream_open_rc(g, open) \in Int
  BY StreamOpenRcType
<1>. QED
  BY <1>1, <1>2, <1>3, HandleErrResultType, UpdateStateAndResultType,
     ConstantValuesType DEF download_completed

LEMMA DownloadFinishedType ==
    ASSUME NEW f \in FwRecords, NEW st, NEW open \in Int, NEW fin \in Int,
           NEW sec \in Int, NEW start
    PROVE  download_finished(f, st, open, fin, sec, start) \in FwRecords
<1>1. [f EXCEPT !.download_handle = FALSE] \in FwRecords
  BY DEF FwRecords
<1>. QED
  BY <1>1, ResetUserStateType, DownloadFailedType, DownloadCompletedType
  DEF download_finished

LEMMA DownloadWriteBlockType ==
    ASSUME NEW f \in FwRecords, NEW open \in Int, NEW wr \in Int
    PROVE  download_write_block(f, open, wr) \in FwRecords
<1>1. user_state_ensure_stream_open(f, open) \in FwRecords
  BY EnsureStreamOpenType
<1>2. (IF stream_open_rc(f, open) # 0 THEN stream_open_rc(f, open) ELSE wr)
        \in Int
  BY StreamOpenRcType
<1>3. handle_err_result(user_state_ensure_stream_open(f, open), IDLE,
          IF stream_open_rc(f, open) # 0 THEN stream_open_rc(f, open) ELSE wr,
          NOT_ENOUGH_SPACE) \in FwRecords
  BY <1>1, <1>2, HandleErrResultType, ConstantValuesType
<1>. QED
  BY <1>1, <1>3, DownloadFinishedType DEF download_write_block

(* resume_download_job() increments polls only before the deadline. *)
LEMMA ResumeDownloadJobType ==
    ASSUME NEW f \in FwRecords, NEW reg \in BOOLEAN, NEW late \in BOOLEAN,
           NEW resched \in BOOLEAN, NEW sec \in Int, NEW start,
           late \/ f.polls < MaxResumePolls
    PROVE  resume_download_job(f, reg, late, resched, sec, start) \in FwRecords
<1>1. [f EXCEPT !.resume_download_job = FALSE] \in FwRecords
  BY DEF FwRecords
<1>2. ASSUME ~late
      PROVE  [f EXCEPT !.resume_download_job = TRUE, !.polls = f.polls + 1]
               \in FwRecords
  <2>1. f.polls + 1 \in 0..MaxResumePolls
    BY <1>2 DEF FwRecords
  <2>. QED  BY <2>1, Zenon DEF FwRecords
<1>. QED
  BY <1>1, <1>2, ScheduleDownloadType, ResetUserStateType,
     UpdateStateAndResultType, ConstantValuesType DEF resume_download_job

LEMMA ScheduleBackgroundType ==
    ASSUME NEW f \in FwRecords, NEW prefer \in BOOLEAN, NEW etag \in BOOLEAN,
           NEW deferred \in BOOLEAN, NEW sec \in Int, NEW start
    PROVE  schedule_background_anjay_download(f, prefer, etag, deferred, sec,
                                              start) \in FwRecords
<1>1. [f EXCEPT !.resume_download_job = TRUE, !.polls = 0] \in FwRecords
  <2>1. 0 \in 0..MaxResumePolls
    OBVIOUS
  <2>. QED  BY <2>1, Zenon DEF FwRecords
<1>. QED
  BY <1>1, ScheduleDownloadType, UpdateStateAndResultType, ConstantValuesType
  DEF schedule_background_anjay_download

LEMMA CancelType ==
    ASSUME NEW f \in FwRecords
    PROVE  cancel_existing_download_if_in_progress(f) \in FwRecords
<1>1. [f EXCEPT !.resume_download_job = FALSE] \in FwRecords
  BY DEF FwRecords
<1>. QED
  BY <1>1, FailType, DownloadFinishedType
  DEF cancel_existing_download_if_in_progress, AssertionSites

LEMMA WriteFirmwareType ==
    ASSUME NEW f \in FwRecords, NEW payload, NEW open \in Int, NEW wr \in Int,
           NEW fin \in Int
    PROVE  write_firmware(f, payload, open, wr, fin) \in FwRecords
<1>. DEFINE o == user_state_ensure_stream_open(f, open)
<1>1. o \in FwRecords
  BY EnsureStreamOpenType
<1>2. reset_user_state(update_state_and_update_result(o, IDLE, CONNECTION_LOST))
        \in FwRecords
  BY <1>1, UpdateStateAndResultType, ResetUserStateType, ConstantValuesType
<1>3. reset_user_state(handle_err_result(o, IDLE, wr, NOT_ENOUGH_SPACE))
        \in FwRecords
  BY <1>1, HandleErrResultType, ResetUserStateType, ConstantValuesType
<1>4. finish_user_stream(o, fin) \in FwRecords
  BY <1>1, FinishUserStreamType
<1>. QED
  BY <1>1, <1>2, <1>3, <1>4, ResetType, HandleErrResultType,
     UpdateStateAndResultType, ConstantValuesType DEF write_firmware

LEMMA FwWritePackageType ==
    ASSUME NEW f \in FwRecords, NEW payload, NEW open \in Int, NEW wr \in Int,
           NEW fin \in Int
    PROVE  fw_write_package(f, payload, open, wr, fin) \in FwRecords
BY WriteFirmwareType, CancelType, ResetType DEF fw_write_package

LEMMA FwWritePackageUriType ==
    ASSUME NEW f \in FwRecords, NEW uri \in {NoUri} \cup Uris, NEW sec \in Int,
           NEW start
    PROVE  fw_write_package_uri(f, uri, sec, start) \in FwRecords
<1>1. [cancel_existing_download_if_in_progress(f) EXCEPT !.package_uri = NoUri]
        \in FwRecords
  BY CancelType DEF FwRecords
<1>2. [f EXCEPT !.package_uri = uri] \in FwRecords
  BY DEF FwRecords
<1>. QED
  BY <1>1, <1>2, ResetType, SetUpdateResultType, ScheduleDownloadType,
     ConstantValuesType DEF fw_write_package_uri

LEMMA FwExecuteType ==
    ASSUME NEW f \in FwRecords, NEW r \in Results, NEW crash \in BOOLEAN
    PROVE  fw_execute(f, r, crash) \in FwRecords
<1>1. [f EXCEPT !.result = r, !.state = IDLE] \in FwRecords
  BY ConstantValuesType DEF FwRecords
<1>. QED  BY <1>1, FailType DEF fw_execute, AssertionSites

LEMMA SetResultType ==
    ASSUME NEW f \in FwRecords, NEW r \in Results
    PROVE  anjay_fw_update_set_result(f, r) \in FwRecords
BY ResetUserStateType, UpdateStateAndResultType, ConstantValuesType
DEF anjay_fw_update_set_result

-----------------------------------------------------------------------------
(* Install. *)

LEMMA ZeroType == Zero \in FwRecords
BY ConstantValuesType DEF Zero, FwRecords, NoFault

LEMMA InitializeDownloadingType ==
    ASSUME NEW prefer \in BOOLEAN, NEW uri \in {NoUri} \cup Uris,
           NEW etag \in BOOLEAN, NEW offset \in BOOLEAN,
           NEW deferred \in BOOLEAN, NEW sec \in Int, NEW start,
           NEW sec2 \in Int, NEW start2
    PROVE  initialize_downloading(prefer, uri, etag, offset, deferred, sec,
                                  start, sec2, start2) \in FwRecords
<1>. DEFINE f0 == [Zero EXCEPT !.user_state = DOWNLOADING]
            f1 == IF offset /\ ~etag THEN reset_user_state(f0) ELSE f0
            f2 == [f1 EXCEPT !.package_uri = uri]
            f3 == reset_user_state(schedule_background_anjay_download(
                                       f2, prefer, etag, deferred, sec, start))
<1>1. f0 \in FwRecords
  BY ZeroType, ConstantValuesType DEF FwRecords
<1>2. f1 \in FwRecords
  BY <1>1, ResetUserStateType
<1>3. f2 \in FwRecords
  BY <1>2 DEF FwRecords
<1>4. f3 \in FwRecords
  BY <1>3, ScheduleBackgroundType, ResetUserStateType
<1>. QED
  BY <1>2, <1>3, <1>4, ResetUserStateType, ScheduleBackgroundType
  DEF initialize_downloading

LEMMA InitializeFwReprType ==
    ASSUME NEW kind, NEW prefer \in BOOLEAN, NEW uri \in {NoUri} \cup Uris,
           NEW etag \in BOOLEAN, NEW offset \in BOOLEAN,
           NEW deferred \in BOOLEAN, NEW sec \in Int, NEW start,
           NEW sec2 \in Int, NEW start2
    PROVE  initialize_fw_repr(kind, prefer, uri, etag, offset, deferred, sec,
                              start, sec2, start2) \in FwRecords
<1>1. [Zero EXCEPT !.package_uri = uri, !.user_state = DOWNLOADED,
                   !.state = DOWNLOADED] \in FwRecords
  BY ZeroType, ConstantValuesType DEF FwRecords
<1>2. [Zero EXCEPT !.user_state = UPDATING, !.state = UPDATING] \in FwRecords
  BY ZeroType, ConstantValuesType DEF FwRecords
<1>3. \A r \in {SUCCESS, INTEGRITY_FAILURE, FAILED} :
        [Zero EXCEPT !.result = r] \in FwRecords
  BY ZeroType, ConstantValuesType DEF FwRecords
<1>. QED
  BY <1>1, <1>2, <1>3, ZeroType, InitializeDownloadingType
  DEF initialize_fw_repr

LEMMA InstalledType ==
    ASSUME NEW f \in FwRecords
    PROVE  installed(f) \in FwRecords
BY DEF installed, FwRecords


-----------------------------------------------------------------------------
(* Type correctness of the object: every handler, callback and job keeps  *)
(* struct fw_repr well typed.                                             *)

LEMMA InitTypeOK == Init => TypeOK
<1>. SUFFICES ASSUME Init PROVE TypeOK
  OBVIOUS
<1>1. PICK kind \in InitialStateKinds, prefer \in PreferSameSocketValues,
           uri \in {NoUri} \cup ValidUris, etag, offset, deferred \in BOOLEAN,
           sec, sec2 \in HandlerResults, start, start2 \in StartResults :
          fw = installed(initialize_fw_repr(kind, prefer, uri, etag, offset,
                                            deferred, sec, start, sec2, start2))
  BY DEF Init
<1>2. initialize_fw_repr(kind, prefer, uri, etag, offset, deferred, sec,
                         start, sec2, start2) \in FwRecords
  BY InitializeFwReprType DEF ValidUris
<1>. QED  BY <1>1, <1>2, InstalledType DEF Init, TypeOK

LEMMA NextTypeOK == TypeOK /\ [Next]_vars => TypeOK'
<1>. SUFFICES ASSUME TypeOK, [Next]_vars PROVE TypeOK'
  OBVIOUS
<1>. USE DEF TypeOK
<1>1. CASE WritePackage
  BY <1>1, FwWritePackageType DEF WritePackage
<1>2. CASE WritePackageUri
  BY <1>2, FwWritePackageUriType DEF WritePackageUri
<1>3. CASE DownloadWriteBlock
  BY <1>3, DownloadWriteBlockType DEF DownloadWriteBlock
<1>4. CASE DownloadFinished
  BY <1>4, DownloadFinishedType DEF DownloadFinished
<1>5. CASE ResumeDownloadJob
  <2>1. PICK late \in IF fw.polls >= MaxResumePolls THEN {TRUE} ELSE BOOLEAN,
             resched \in BOOLEAN, sec \in HandlerResults, start \in StartResults :
             fw' = resume_download_job(fw, registering, late, resched, sec,
                                       start)
    BY <1>5 DEF ResumeDownloadJob
  <2>2. late \in BOOLEAN /\ (late \/ fw.polls < MaxResumePolls)
    <3>1. fw.polls \in Int
      BY DEF FwRecords
    <3>2. CASE fw.polls >= MaxResumePolls
      BY <2>1, <3>2
    <3>3. CASE ~(fw.polls >= MaxResumePolls)
      <4>1. late \in BOOLEAN
        BY <2>1, <3>3, Zenon
      <4>2. fw.polls < MaxResumePolls
        BY <3>1, <3>3
      <4>. QED  BY <4>1, <4>2
    <3>. QED  BY <3>2, <3>3
  <2>. QED  BY <1>5, <2>1, <2>2, ResumeDownloadJobType DEF ResumeDownloadJob
<1>6. CASE SetResult
  BY <1>6, SetResultType DEF SetResult
<1>7. CASE Execute
  <2>1. davra_checksum_results(fw) \subseteq Results
    BY ConstantValuesType DEF davra_checksum_results, FwRecords
  <2>. QED  BY <1>7, <2>1, FwExecuteType DEF Execute
<1>8. CASE RegistrationChange
  BY <1>8 DEF RegistrationChange
<1>9. CASE UNCHANGED vars
  BY <1>9 DEF vars
<1>. QED  BY <1>1, <1>2, <1>3, <1>4, <1>5, <1>6, <1>7, <1>8, <1>9 DEF Next

(* Every reachable state of the object is well typed (TypeOK).           *)
THEOREM TypeCorrect == Spec => []TypeOK
BY InitTypeOK, NextTypeOK, PTL DEF Spec


-----------------------------------------------------------------------------
(* The transfer fields.  A pull transfer is represented by download_handle *)
(* and resume_download_job; TransferConsistent is the strengthening of     *)
(* TransferMatchesState that is inductive when no job is ever queued.      *)

TransferConsistent(f) ==
    /\ ~f.resume_download_job
    /\ (f.state = DOWNLOADING <=> f.download_handle)

(* g has the transfer fields of f. *)
SameTransfer(g, f) ==
    /\ g.download_handle = f.download_handle
    /\ g.resume_download_job = f.resume_download_job

(* What each helper leaves alone: the State and transfer fields are       *)
(* touched only by set_state, by schedule_download and by the callbacks.   *)
LEMMA FailFrame ==
    ASSUME NEW f \in FwRecords, NEW site
    PROVE  fail(f, site).state = f.state /\ SameTransfer(fail(f, site), f)
BY DEF fail, SameTransfer, FwRecords

LEMMA SetUpdateResultFrame ==
    ASSUME NEW f \in FwRecords, NEW r
    PROVE  /\ set_update_result(f, r).state = f.state
           /\ SameTransfer(set_update_result(f, r), f)
BY DEF set_update_result, SameTransfer, FwRecords

LEMMA SetStateFrame ==
    ASSUME NEW f \in FwRecords, NEW s
    PROVE  set_state(f, s).state = s /\ SameTransfer(set_state(f, s), f)
BY DEF set_state, SameTransfer, FwRecords

LEMMA UpdateStateAndResultFrame ==
    ASSUME NEW f \in FwRecords, NEW s, NEW r \in Results
    PROVE  /\ update_state_and_update_result(f, s, r).state = s
           /\ SameTransfer(update_state_and_update_result(f, s, r), f)
BY SetUpdateResultFrame, SetStateFrame, SetUpdateResultType
DEF update_state_and_update_result, SameTransfer

LEMMA EnsureStreamOpenFrame ==
    ASSUME NEW f \in FwRecords, NEW open
    PROVE  /\ user_state_ensure_stream_open(f, open).state = f.state
           /\ SameTransfer(user_state_ensure_stream_open(f, open), f)
BY FailFrame DEF user_state_ensure_stream_open, SameTransfer, FwRecords

LEMMA FinishUserStreamFrame ==
    ASSUME NEW f \in FwRecords, NEW fin
    PROVE  /\ finish_user_stream(f, fin).state = f.state
           /\ SameTransfer(finish_user_stream(f, fin), f)
BY DEF finish_user_stream, SameTransfer, FwRecords

LEMMA ResetUserStateFrame ==
    ASSUME NEW f \in FwRecords
    PROVE  /\ reset_user_state(f).state = f.state
           /\ SameTransfer(reset_user_state(f), f)
BY DEF reset_user_state, SameTransfer, FwRecords

LEMMA HandleErrResultFrame ==
    ASSUME NEW f \in FwRecords, NEW s, NEW rc \in Int, NEW default \in Results
    PROVE  /\ handle_err_result(f, s, rc, default).state = s
           /\ SameTransfer(handle_err_result(f, s, rc, default), f)
<1>1. (IF -rc \in {NOT_ENOUGH_SPACE, OUT_OF_MEMORY, INTEGRITY_FAILURE,
                   UNSUPPORTED_PACKAGE_TYPE} THEN -rc ELSE default) \in Results
  BY DEF NOT_ENOUGH_SPACE, OUT_OF_MEMORY, INTEGRITY_FAILURE,
         UNSUPPORTED_PACKAGE_TYPE, Results
<1>. QED  BY <1>1, UpdateStateAndResultFrame DEF handle_err_result

LEMMA ResetFrame ==
    ASSUME NEW f \in FwRecords
    PROVE  reset(f).state = IDLE /\ SameTransfer(reset(f), f)
BY ResetUserStateFrame, ResetUserStateType, UpdateStateAndResultFrame,
   ConstantValuesType DEF reset, SameTransfer


(* schedule_download() from a state with no transfer: a started download  *)
(* is Downloading with a handle; a failed one has no handle and leaves    *)
(* State as it was (start error) or Idle (security configuration).       *)
LEMMA ScheduleDownloadTransfer ==
    ASSUME NEW f \in FwRecords, NEW etag \in BOOLEAN, NEW sec \in Int,
           NEW start, ~f.download_handle, ~f.resume_download_job
    PROVE  /\ ~schedule_download(f, etag, sec, start).resume_download_job
           /\ schedule_download_ok(f, sec, start)
                => /\ schedule_download(f, etag, sec, start).state = DOWNLOADING
                   /\ schedule_download(f, etag, sec, start).download_handle
           /\ ~schedule_download_ok(f, sec, start)
                => /\ ~schedule_download(f, etag, sec, start).download_handle
                   /\ schedule_download(f, etag, sec, start).state \in {IDLE, f.state}
<1>. DEFINE r == schedule_download(f, etag, sec, start)
            c == transport_security_from_uri(f.package_uri) = "ENCRYPTED"
                 /\ f.user_state \notin {IDLE, DOWNLOADING}
            t == IF c THEN fail(f, "get_security_config: user_state IDLE or DOWNLOADING")
                 ELSE f
<1>0. /\ t \in FwRecords
      /\ t.state = f.state /\ ~t.download_handle /\ ~t.resume_download_job
  <2>1. CASE c
    <3>1. "get_security_config: user_state IDLE or DOWNLOADING" \in AssertionSites
      BY DEF AssertionSites
    <3>2. t = fail(f, "get_security_config: user_state IDLE or DOWNLOADING")
      BY <2>1
    <3>3. fail(f, "get_security_config: user_state IDLE or DOWNLOADING") \in FwRecords
      BY <3>1, FailType
    <3>4. /\ fail(f, "get_security_config: user_state IDLE or DOWNLOADING").state
               = f.state
          /\ SameTransfer(fail(f, "get_security_config: user_state IDLE or DOWNLOADING"), f)
      BY FailFrame
    <3>. QED  BY <3>2, <3>3, <3>4, Zenon DEF SameTransfer
  <2>2. CASE ~c
    BY <2>2
  <2>. QED  BY <2>1, <2>2
<1>1. PICK g : g = t
  OBVIOUS
<1>. HIDE DEF t
<1>5. g \in FwRecords /\ g.state = f.state /\ ~g.download_handle
      /\ ~g.resume_download_job
  BY <1>0, <1>1
<1>2. CASE security_config_fails(f, sec)
  <2>1. r = handle_err_result(g, IDLE, sec, UNSUPPORTED_PROTOCOL)
    BY <1>1, <1>2 DEF schedule_download, t
  <2>2. UNSUPPORTED_PROTOCOL \in Results
    BY ConstantValuesType
  <2>3. r.state = IDLE /\ SameTransfer(r, g)
    BY <1>5, <2>1, <2>2, HandleErrResultFrame
  <2>4. ~schedule_download_ok(f, sec, start)
    BY <1>2 DEF schedule_download_ok
  <2>. QED  BY <1>5, <2>3, <2>4, Zenon DEF SameTransfer
<1>3. CASE ~security_config_fails(f, sec) /\ start # "OK"
  <2>1. r = set_update_result(reset_user_state(g), download_start_result(start))
    BY <1>1, <1>3, <1>5 DEF schedule_download, t
  <2>2. /\ reset_user_state(g) \in FwRecords
        /\ reset_user_state(g).state = f.state
        /\ SameTransfer(reset_user_state(g), g)
    BY <1>5, ResetUserStateFrame, ResetUserStateType
  <2>3. /\ r.state = f.state
        /\ SameTransfer(r, reset_user_state(g))
    BY <2>1, <2>2, SetUpdateResultFrame
  <2>4. ~schedule_download_ok(f, sec, start)
    BY <1>3 DEF schedule_download_ok
  <2>. QED  BY <1>5, <2>2, <2>3, <2>4, Zenon DEF SameTransfer
<1>4. CASE ~security_config_fails(f, sec) /\ start = "OK"
  <2>. DEFINE k == [g EXCEPT !.download_handle = TRUE,
                             !.retry_download_on_expired = etag]
  <2>1. k \in FwRecords
    BY <1>5, StartTransferType
  <2>2. k.download_handle /\ ~k.resume_download_job
    BY <1>5, Zenon DEF FwRecords
  <2>3. r = update_state_and_update_result(k, DOWNLOADING, INITIAL)
    BY <1>1, <1>4, <1>5 DEF schedule_download, t
  <2>4. INITIAL \in Results
    BY ConstantValuesType
  <2>5. r.state = DOWNLOADING /\ SameTransfer(r, k)
    BY <2>1, <2>3, <2>4, UpdateStateAndResultFrame
  <2>6. schedule_download_ok(f, sec, start)
    BY <1>4 DEF schedule_download_ok
  <2>. QED  BY <2>2, <2>5, <2>6, Zenon DEF SameTransfer
<1>. QED  BY <1>2, <1>3, <1>4

(* download_failed() always settles the transfer; it is left Idle unless  *)
(* an expired ETag restarted the download.                                *)
LEMMA DownloadFailedTransfer ==
    ASSUME NEW g \in FwRecords, NEW st, NEW sec \in Int, NEW start,
           ~g.download_handle, ~g.resume_download_job
    PROVE  /\ TransferConsistent(download_failed(g, st, sec, start))
           /\ st # "EXPIRED" => /\ download_failed(g, st, sec, start).state = IDLE
                                /\ ~download_failed(g, st, sec, start).download_handle
<1>. DEFINE h == reset_user_state(g)
            d == schedule_download(h, FALSE, sec, start)
            r == download_failed(g, st, sec, start)
<1>1. h \in FwRecords /\ ~h.download_handle /\ ~h.resume_download_job
  BY ResetUserStateType, ResetUserStateFrame DEF SameTransfer
<1>2. CASE g.retry_download_on_expired /\ st = "EXPIRED"
  <2>1. CASE schedule_download_ok(h, sec, start)
    <3>1. r = d
      BY <1>2, <2>1 DEF download_failed
    <3>2. ~d.resume_download_job /\ d.state = DOWNLOADING /\ d.download_handle
      BY <1>1, <2>1, ScheduleDownloadTransfer
    <3>. QED  BY <1>2, <3>1, <3>2, Zenon DEF TransferConsistent
  <2>2. CASE ~schedule_download_ok(h, sec, start)
    <3>1. r = set_state(d, IDLE)
      BY <1>2, <2>2 DEF download_failed
    <3>2. d \in FwRecords /\ ~d.download_handle /\ ~d.resume_download_job
      BY <1>1, <2>2, ScheduleDownloadType, ScheduleDownloadTransfer
    <3>3. r.state = IDLE /\ SameTransfer(r, d)
      BY <3>1, <3>2, SetStateFrame
    <3>4. IDLE # DOWNLOADING
      BY DEF IDLE, DOWNLOADING
    <3>. QED  BY <1>2, <3>2, <3>3, <3>4, Zenon DEF TransferConsistent, SameTransfer
  <2>. QED  BY <2>1, <2>2
<1>3. CASE ~(g.retry_download_on_expired /\ st = "EXPIRED")
  <2>1. r = update_state_and_update_result(h, IDLE, download_failure_result(st))
    BY <1>3 DEF download_failed
  <2>2. r.state = IDLE /\ SameTransfer(r, h)
    BY <1>1, <2>1, UpdateStateAndResultFrame, ConstantValuesType
  <2>. QED  BY <1>1, <2>2 DEF TransferConsistent, SameTransfer, IDLE, DOWNLOADING
<1>. QED  BY <1>2, <1>3


(* A completed transfer leaves State Downloaded or Idle with no handle. *)
LEMMA DownloadCompletedTransfer ==
    ASSUME NEW g \in FwRecords, NEW open \in Int, NEW fin \in Int,
           ~g.download_handle, ~g.resume_download_job
    PROVE  /\ download_completed(g, open, fin).state \in {DOWNLOADED, IDLE}
           /\ ~download_completed(g, open, fin).download_handle
           /\ ~download_completed(g, open, fin).resume_download_job
<1>. DEFINE o == user_state_ensure_stream_open(g, open)
            e == finish_user_stream(o, fin)
            r == download_completed(g, open, fin)
<1>1. o \in FwRecords /\ SameTransfer(o, g)
  BY EnsureStreamOpenType, EnsureStreamOpenFrame
<1>2. e \in FwRecords /\ SameTransfer(e, o)
  BY <1>1, FinishUserStreamType, FinishUserStreamFrame
<1>3. stream_open_rc(g, open) \in Int /\ NOT_ENOUGH_SPACE \in Results
      /\ INITIAL \in Results
  BY StreamOpenRcType, ConstantValuesType
<1>4. r.state \in {DOWNLOADED, IDLE} /\ SameTransfer(r, g)
  <2>1. CASE stream_open_rc(g, open) # 0
    <3>1. r = handle_err_result(o, IDLE, stream_open_rc(g, open), NOT_ENOUGH_SPACE)
      BY <2>1 DEF download_completed
    <3>. QED  BY <1>1, <1>3, <3>1, HandleErrResultFrame DEF SameTransfer
  <2>2. CASE stream_open_rc(g, open) = 0 /\ fin # 0
    <3>1. r = handle_err_result(e, IDLE, fin, NOT_ENOUGH_SPACE)
      BY <2>2 DEF download_completed
    <3>. QED  BY <1>1, <1>2, <1>3, <3>1, HandleErrResultFrame DEF SameTransfer
  <2>3. CASE stream_open_rc(g, open) = 0 /\ fin = 0
    <3>1. r = update_state_and_update_result(e, DOWNLOADED, INITIAL)
      BY <2>3 DEF download_completed
    <3>. QED  BY <1>1, <1>2, <1>3, <3>1, UpdateStateAndResultFrame DEF SameTransfer
  <2>. QED  BY <2>1, <2>2, <2>3
<1>. QED  BY <1>4, Zenon DEF SameTransfer

(* download_finished() settles the transfer; short of an expired ETag    *)
(* restart, State is left out of Downloading with no handle.             *)
LEMMA DownloadFinishedTransfer ==
    ASSUME NEW f \in FwRecords, NEW st, NEW open \in Int, NEW fin \in Int,
           NEW sec \in Int, NEW start, ~f.resume_download_job
    PROVE  /\ TransferConsistent(download_finished(f, st, open, fin, sec, start))
           /\ st # "EXPIRED" =>
                /\ download_finished(f, st, open, fin, sec, start).state # DOWNLOADING
                /\ ~download_finished(f, st, open, fin, sec, start).download_handle
<1>. DEFINE g == [f EXCEPT !.download_handle = FALSE]
            r == download_finished(f, st, open, fin, sec, start)
<1>1. g \in FwRecords /\ ~g.download_handle /\ ~g.resume_download_job
      /\ g.state = f.state
  BY Zenon DEF FwRecords
<1>2. IDLE # DOWNLOADING /\ DOWNLOADED # DOWNLOADING
  BY DEF IDLE, DOWNLOADING, DOWNLOADED
<1>3. CASE g.state # DOWNLOADING
  <2>1. r = reset_user_state(g)
    BY <1>3 DEF download_finished
  <2>2. r.state = g.state /\ SameTransfer(r, g)
    BY <1>1, <2>1, ResetUserStateFrame
  <2>. QED  BY <1>1, <1>3, <2>2, Zenon DEF TransferConsistent, SameTransfer
<1>4. CASE g.state = DOWNLOADING /\ st # "FINISHED"
  <2>1. r = download_failed(g, st, sec, start)
    BY <1>4 DEF download_finished
  <2>2. /\ TransferConsistent(download_failed(g, st, sec, start))
        /\ st # "EXPIRED" => /\ download_failed(g, st, sec, start).state = IDLE
                             /\ ~download_failed(g, st, sec, start).download_handle
    BY <1>1, DownloadFailedTransfer
  <2>. QED  BY <1>2, <2>1, <2>2, Zenon
<1>5. CASE g.state = DOWNLOADING /\ st = "FINISHED"
  <2>1. r = download_completed(g, open, fin)
    BY <1>5 DEF download_finished
  <2>2. /\ download_completed(g, open, fin).state \in {DOWNLOADED, IDLE}
        /\ ~download_completed(g, open, fin).download_handle
        /\ ~download_completed(g, open, fin).resume_download_job
    BY <1>1, DownloadCompletedTransfer
  <2>. QED  BY <1>2, <2>1, <2>2, Zenon DEF TransferConsistent
<1>. QED  BY <1>3, <1>4, <1>5


(* A failed block write settles the transfer through download_finished(). *)
LEMMA DownloadWriteBlockTransfer ==
    ASSUME NEW f \in FwRecords, NEW open \in Int, NEW wr \in Int,
           TransferConsistent(f)
    PROVE  TransferConsistent(download_write_block(f, open, wr))
<1>. DEFINE g  == user_state_ensure_stream_open(f, open)
            rc == IF stream_open_rc(f, open) # 0 THEN stream_open_rc(f, open) ELSE wr
            e  == handle_err_result(g, IDLE, rc, NOT_ENOUGH_SPACE)
<1>1. g \in FwRecords /\ g.state = f.state /\ SameTransfer(g, f)
  BY EnsureStreamOpenType, EnsureStreamOpenFrame
<1>2. rc \in Int
  BY StreamOpenRcType
<1>3. e \in FwRecords /\ SameTransfer(e, g)
  <2>1. NOT_ENOUGH_SPACE \in Results
    BY ConstantValuesType
  <2>. QED  BY <1>1, <1>2, <2>1, ConstantValuesType, HandleErrResultType,
               HandleErrResultFrame
<1>4. CASE rc = 0
  <2>1. download_write_block(f, open, wr) = g
    BY <1>4 DEF download_write_block
  <2>. QED  BY <1>1, <2>1, Zenon DEF TransferConsistent, SameTransfer
<1>5. CASE rc # 0
  <2>1. download_write_block(f, open, wr)
          = download_finished(e, "FAILED_OTHER", 0, 0, 0, "OK")
    BY <1>5 DEF download_write_block
  <2>2. ~e.resume_download_job
    BY <1>1, <1>3, Zenon DEF TransferConsistent, SameTransfer
  <2>3. TransferConsistent(download_finished(e, "FAILED_OTHER", 0, 0, 0, "OK"))
    BY <1>3, <2>2, DownloadFinishedTransfer
  <2>. QED  BY <2>1, <2>3
<1>. QED  BY <1>4, <1>5

(* Cancelling leaves no transfer and State out of Downloading. *)
LEMMA CancelTransfer ==
    ASSUME NEW f \in FwRecords, TransferConsistent(f)
    PROVE  /\ cancel_existing_download_if_in_progress(f).state # DOWNLOADING
           /\ ~cancel_existing_download_if_in_progress(f).download_handle
           /\ ~cancel_existing_download_if_in_progress(f).resume_download_job
<1>. DEFINE r == cancel_existing_download_if_in_progress(f)
<1>1. CASE f.state # DOWNLOADING
  <2>1. r = f
    BY <1>1 DEF cancel_existing_download_if_in_progress
  <2>. QED  BY <1>1, <2>1, Zenon DEF TransferConsistent
<1>2. CASE f.state = DOWNLOADING
  <2>1. f.download_handle /\ ~f.resume_download_job
    BY <1>2, Zenon DEF TransferConsistent
  <2>2. r = download_finished(f, "ABORTED", 0, 0, 0, "OK")
    BY <1>2, <2>1 DEF cancel_existing_download_if_in_progress
  <2>3. /\ download_finished(f, "ABORTED", 0, 0, 0, "OK").state # DOWNLOADING
        /\ ~download_finished(f, "ABORTED", 0, 0, 0, "OK").download_handle
        /\ TransferConsistent(download_finished(f, "ABORTED", 0, 0, 0, "OK"))
    BY <2>1, DownloadFinishedTransfer
  <2>. QED  BY <2>2, <2>3, Zenon DEF TransferConsistent
<1>. QED  BY <1>1, <1>2


(* A push write from Idle never starts a transfer. *)
LEMMA WriteFirmwareTransfer ==
    ASSUME NEW f \in FwRecords, NEW payload, NEW open \in Int, NEW wr \in Int,
           NEW fin \in Int, ~f.download_handle, ~f.resume_download_job,
           f.state = IDLE
    PROVE  TransferConsistent(write_firmware(f, payload, open, wr, fin))
<1>. DEFINE o == user_state_ensure_stream_open(f, open)
            r == write_firmware(f, payload, open, wr, fin)
<1>1. o \in FwRecords /\ o.state = IDLE /\ SameTransfer(o, f)
  BY EnsureStreamOpenType, EnsureStreamOpenFrame
<1>2. /\ {IDLE, DOWNLOADED} \subseteq States
      /\ {CONNECTION_LOST, NOT_ENOUGH_SPACE, INITIAL} \subseteq Results
      /\ IDLE # DOWNLOADING /\ DOWNLOADED # DOWNLOADING
  BY ConstantValuesType DEF IDLE, DOWNLOADING, DOWNLOADED
<1>3. r.state \in {IDLE, DOWNLOADED} /\ SameTransfer(r, o)
  <2>1. CASE stream_open_rc(f, open) # 0
    BY <1>1, <2>1, Zenon DEF write_firmware, SameTransfer
  <2>2. CASE stream_open_rc(f, open) = 0 /\ payload = "BROKEN"
    <3>1. r = reset_user_state(update_state_and_update_result(o, IDLE, CONNECTION_LOST))
      BY <2>2 DEF write_firmware
    <3>2. /\ update_state_and_update_result(o, IDLE, CONNECTION_LOST) \in FwRecords
          /\ update_state_and_update_result(o, IDLE, CONNECTION_LOST).state = IDLE
          /\ SameTransfer(update_state_and_update_result(o, IDLE, CONNECTION_LOST), o)
      BY <1>1, <1>2, UpdateStateAndResultType, UpdateStateAndResultFrame
    <3>. QED  BY <3>1, <3>2, ResetUserStateFrame, Zenon DEF SameTransfer
  <2>3. CASE stream_open_rc(f, open) = 0 /\ payload # "BROKEN" /\ wr # 0
    <3>1. r = reset_user_state(handle_err_result(o, IDLE, wr, NOT_ENOUGH_SPACE))
      BY <2>3 DEF write_firmware
    <3>2. /\ handle_err_result(o, IDLE, wr, NOT_ENOUGH_SPACE) \in FwRecords
          /\ handle_err_result(o, IDLE, wr, NOT_ENOUGH_SPACE).state = IDLE
          /\ SameTransfer(handle_err_result(o, IDLE, wr, NOT_ENOUGH_SPACE), o)
      BY <1>1, <1>2, HandleErrResultType, HandleErrResultFrame
    <3>. QED  BY <3>1, <3>2, ResetUserStateFrame, Zenon DEF SameTransfer
  <2>4. CASE stream_open_rc(f, open) = 0 /\ payload = "RESET" /\ wr = 0
    <3>1. r = reset(o)
      BY <2>4 DEF write_firmware
    <3>. QED  BY <1>1, <3>1, ResetFrame
  <2>5. CASE stream_open_rc(f, open) = 0 /\ payload \notin {"BROKEN", "RESET"}
             /\ wr = 0 /\ fin # 0
    <3>1. r = handle_err_result(finish_user_stream(o, fin), IDLE, fin,
                                NOT_ENOUGH_SPACE)
      BY <2>5 DEF write_firmware
    <3>2. finish_user_stream(o, fin) \in FwRecords
          /\ SameTransfer(finish_user_stream(o, fin), o)
      BY <1>1, FinishUserStreamType, FinishUserStreamFrame
    <3>3. /\ handle_err_result(finish_user_stream(o, fin), IDLE, fin,
                               NOT_ENOUGH_SPACE).state = IDLE
          /\ SameTransfer(handle_err_result(finish_user_stream(o, fin), IDLE,
                                            fin, NOT_ENOUGH_SPACE),
                          finish_user_stream(o, fin))
      BY <1>2, <3>2, HandleErrResultFrame
    <3>. QED  BY <3>1, <3>2, <3>3, Zenon DEF SameTransfer
  <2>6. CASE stream_open_rc(f, open) = 0 /\ payload \notin {"BROKEN", "RESET"}
             /\ wr = 0 /\ fin = 0
    <3>1. r = update_state_and_update_result(finish_user_stream(o, fin),
                                             DOWNLOADED, INITIAL)
      BY <2>6 DEF write_firmware
    <3>2. finish_user_stream(o, fin) \in FwRecords
          /\ SameTransfer(finish_user_stream(o, fin), o)
      BY <1>1, FinishUserStreamType, FinishUserStreamFrame
    <3>3. /\ update_state_and_update_result(finish_user_stream(o, fin),
                                            DOWNLOADED, INITIAL).state = DOWNLOADED
          /\ SameTransfer(update_state_and_update_result(
                              finish_user_stream(o, fin), DOWNLOADED, INITIAL),
                          finish_user_stream(o, fin))
      BY <1>2, <3>2, UpdateStateAndResultFrame
    <3>. QED  BY <3>1, <3>2, <3>3, Zenon DEF SameTransfer
  <2>. QED  BY <2>1, <2>2, <2>3, <2>4, <2>5, <2>6
<1>. QED  BY <1>1, <1>2, <1>3, Zenon DEF TransferConsistent, SameTransfer


(* A state of no transfer is kept by the Write of /5/0/0. *)
LEMMA FwWritePackageTransfer ==
    ASSUME NEW f \in FwRecords, NEW payload, NEW open \in Int, NEW wr \in Int,
           NEW fin \in Int, TransferConsistent(f)
    PROVE  TransferConsistent(fw_write_package(f, payload, open, wr, fin))
<1>. DEFINE r == fw_write_package(f, payload, open, wr, fin)
<1>0. /\ IDLE # DOWNLOADING /\ IDLE # UPDATING
  BY DEF IDLE, DOWNLOADING, UPDATING
<1>1. CASE f.state = UPDATING
  BY <1>1, <1>0 DEF fw_write_package
<1>2. CASE f.state = IDLE
  <2>1. r = write_firmware(f, payload, open, wr, fin)
    BY <1>2, <1>0 DEF fw_write_package
  <2>2. ~f.download_handle /\ ~f.resume_download_job
    BY <1>2, <1>0, Zenon DEF TransferConsistent
  <2>. QED  BY <1>2, <2>1, <2>2, WriteFirmwareTransfer
<1>3. CASE f.state \notin {UPDATING, IDLE} /\ payload = "RESET"
  <2>1. r = reset(cancel_existing_download_if_in_progress(f))
    BY <1>3 DEF fw_write_package
  <2>2. /\ cancel_existing_download_if_in_progress(f) \in FwRecords
        /\ ~cancel_existing_download_if_in_progress(f).download_handle
        /\ ~cancel_existing_download_if_in_progress(f).resume_download_job
    BY CancelType, CancelTransfer
  <2>3. /\ reset(cancel_existing_download_if_in_progress(f)).state = IDLE
        /\ SameTransfer(reset(cancel_existing_download_if_in_progress(f)),
                        cancel_existing_download_if_in_progress(f))
    BY <2>2, ResetFrame
  <2>. QED  BY <1>0, <2>1, <2>2, <2>3, Zenon DEF TransferConsistent, SameTransfer
<1>4. CASE f.state \notin {UPDATING, IDLE} /\ payload # "RESET"
  BY <1>4 DEF fw_write_package
<1>. QED  BY <1>1, <1>2, <1>3, <1>4

(* A state of no transfer is kept by the Write of /5/0/1: the pull        *)
(* download it schedules is Downloading exactly when it has a handle.     *)
LEMMA FwWritePackageUriTransfer ==
    ASSUME NEW f \in FwRecords, NEW uri \in {NoUri} \cup Uris, NEW sec \in Int,
           NEW start, TransferConsistent(f)
    PROVE  TransferConsistent(fw_write_package_uri(f, uri, sec, start))
<1>. DEFINE r == fw_write_package_uri(f, uri, sec, start)
            c == cancel_existing_download_if_in_progress(f)
            u == [f EXCEPT !.package_uri = uri]
<1>0. /\ IDLE # DOWNLOADING /\ UNSUPPORTED_PROTOCOL \in Results
  BY ConstantValuesType DEF IDLE, DOWNLOADING
<1>1. CASE uri = NoUri /\ f.state = UPDATING
  BY <1>1 DEF fw_write_package_uri
<1>2. CASE uri = NoUri /\ f.state # UPDATING
  <2>1. r = reset([c EXCEPT !.package_uri = NoUri])
    BY <1>2 DEF fw_write_package_uri
  <2>2. /\ c \in FwRecords /\ ~c.download_handle /\ ~c.resume_download_job
    BY CancelType, CancelTransfer
  <2>3. /\ [c EXCEPT !.package_uri = NoUri] \in FwRecords
        /\ SameTransfer([c EXCEPT !.package_uri = NoUri], c)
    BY <2>2 DEF FwRecords, SameTransfer
  <2>4. /\ reset([c EXCEPT !.package_uri = NoUri]).state = IDLE
        /\ SameTransfer(reset([c EXCEPT !.package_uri = NoUri]),
                        [c EXCEPT !.package_uri = NoUri])
    BY <2>3, ResetFrame
  <2>. QED  BY <1>0, <2>1, <2>2, <2>3, <2>4, Zenon
            DEF TransferConsistent, SameTransfer
<1>3. CASE uri # NoUri /\ f.state # IDLE
  BY <1>3 DEF fw_write_package_uri
<1>4. CASE uri # NoUri /\ f.state = IDLE
           /\ transport_security_from_uri(uri) = "UNDEFINED"
  <2>1. r = set_update_result(f, UNSUPPORTED_PROTOCOL)
    BY <1>4 DEF fw_write_package_uri
  <2>2. /\ set_update_result(f, UNSUPPORTED_PROTOCOL).state = f.state
        /\ SameTransfer(set_update_result(f, UNSUPPORTED_PROTOCOL), f)
    BY SetUpdateResultFrame
  <2>. QED  BY <2>1, <2>2, Zenon DEF TransferConsistent, SameTransfer
<1>5. CASE uri # NoUri /\ f.state = IDLE
           /\ transport_security_from_uri(uri) # "UNDEFINED"
  <2>1. r = schedule_download(u, FALSE, sec, start)
    BY <1>5 DEF fw_write_package_uri
  <2>2. /\ u \in FwRecords /\ u.state = IDLE
        /\ ~u.download_handle /\ ~u.resume_download_job
    BY <1>0, <1>5, Zenon DEF FwRecords, TransferConsistent
  <2>3. /\ ~schedule_download(u, FALSE, sec, start).resume_download_job
        /\ schedule_download_ok(u, sec, start)
             => /\ schedule_download(u, FALSE, sec, start).state = DOWNLOADING
                /\ schedule_download(u, FALSE, sec, start).download_handle
        /\ ~schedule_download_ok(u, sec, start)
             => /\ ~schedule_download(u, FALSE, sec, start).download_handle
                /\ schedule_download(u, FALSE, sec, start).state \in {IDLE, u.state}
    BY <2>2, ScheduleDownloadTransfer
  <2>. QED  BY <1>0, <2>1, <2>2, <2>3, Zenon DEF TransferConsistent
<1>. QED  BY <1>1, <1>2, <1>3, <1>4, <1>5

(* Outside Downloading, set_result() never creates a transfer. *)
LEMMA SetResultTransfer ==
    ASSUME NEW f \in FwRecords, NEW res \in Results, TransferConsistent(f),
           f.state # DOWNLOADING
    PROVE  TransferConsistent(anjay_fw_update_set_result(f, res))
<1>1. CASE is_result_change_allowed(f.state, res)
  <2>1. /\ reset_user_state(f) \in FwRecords
        /\ SameTransfer(reset_user_state(f), f)
    BY ResetUserStateType, ResetUserStateFrame
  <2>2. /\ update_state_and_update_result(reset_user_state(f), IDLE, res).state = IDLE
        /\ SameTransfer(update_state_and_update_result(reset_user_state(f), IDLE, res),
                        reset_user_state(f))
    BY <2>1, UpdateStateAndResultFrame
  <2>3. IDLE # DOWNLOADING
    BY DEF IDLE, DOWNLOADING
  <2>. QED  BY <1>1, <2>1, <2>2, <2>3, Zenon
            DEF anjay_fw_update_set_result, TransferConsistent, SameTransfer
<1>2. CASE ~is_result_change_allowed(f.state, res)
  BY <1>2 DEF anjay_fw_update_set_result
<1>. QED  BY <1>1, <1>2


(* A download scheduled from Idle is Downloading exactly when it started. *)
LEMMA ScheduleFromIdleConsistent ==
    ASSUME NEW f \in FwRecords, NEW etag \in BOOLEAN, NEW sec \in Int,
           NEW start, ~f.download_handle, ~f.resume_download_job,
           f.state = IDLE
    PROVE  /\ schedule_download(f, etag, sec, start) \in FwRecords
           /\ TransferConsistent(schedule_download(f, etag, sec, start))
<1>1. IDLE # DOWNLOADING
  BY DEF IDLE, DOWNLOADING
<1>2. /\ ~schedule_download(f, etag, sec, start).resume_download_job
      /\ schedule_download_ok(f, sec, start)
           => /\ schedule_download(f, etag, sec, start).state = DOWNLOADING
              /\ schedule_download(f, etag, sec, start).download_handle
      /\ ~schedule_download_ok(f, sec, start)
           => /\ ~schedule_download(f, etag, sec, start).download_handle
              /\ schedule_download(f, etag, sec, start).state \in {IDLE, f.state}
  BY ScheduleDownloadTransfer
<1>3. schedule_download(f, etag, sec, start) \in FwRecords
  BY ScheduleDownloadType
<1>4. TransferConsistent(schedule_download(f, etag, sec, start))
  <2>1. CASE schedule_download_ok(f, sec, start)
    BY <1>1, <1>2, <2>1, Zenon DEF TransferConsistent
  <2>2. CASE ~schedule_download_ok(f, sec, start)
    <3>1. schedule_download(f, etag, sec, start).state = IDLE
      BY <1>2, <2>2
    <3>. QED  BY <1>1, <1>2, <2>2, <3>1, Zenon DEF TransferConsistent
  <2>. QED  BY <2>1, <2>2
<1>. QED  BY <1>3, <1>4

(* Clearing the user's stream keeps a consistent transfer. *)
LEMMA ResetUserStateConsistent ==
    ASSUME NEW f \in FwRecords, TransferConsistent(f)
    PROVE  TransferConsistent(reset_user_state(f))
BY DEF reset_user_state, TransferConsistent, FwRecords

(* With prefer_same_socket_downloads off, a persisted Downloading state   *)
(* restarts as a transfer that is Downloading exactly when it has a       *)
(* handle, and never as a queued job.                                     *)
LEMMA InitializeDownloadingTransfer ==
    ASSUME NEW uri \in {NoUri} \cup Uris,
           NEW etag \in BOOLEAN, NEW offset \in BOOLEAN,
           NEW deferred \in BOOLEAN, NEW sec \in Int, NEW start,
           NEW sec2 \in Int, NEW start2
    PROVE  TransferConsistent(initialize_downloading(FALSE, uri, etag, offset,
                                  deferred, sec, start, sec2, start2))
<1>. DEFINE f0 == [Zero EXCEPT !.user_state = DOWNLOADING]
            f1 == IF offset /\ ~etag THEN reset_user_state(f0) ELSE f0
            f2 == [f1 EXCEPT !.package_uri = uri]
            s2 == schedule_download(f2, etag, sec, start)
            f3 == reset_user_state(s2)
            r  == initialize_downloading(FALSE, uri, etag, offset, deferred,
                                         sec, start, sec2, start2)
<1>0. IDLE # DOWNLOADING
  BY DEF IDLE, DOWNLOADING
<1>1. /\ f0 \in FwRecords /\ f0.state = IDLE
      /\ ~f0.download_handle /\ ~f0.resume_download_job
  BY ZeroType, ConstantValuesType DEF FwRecords, Zero
<1>2. /\ f1 \in FwRecords /\ f1.state = IDLE
      /\ ~f1.download_handle /\ ~f1.resume_download_job
  BY <1>1, ResetUserStateType, ResetUserStateFrame, Zenon DEF SameTransfer
<1>3. /\ f2 \in FwRecords /\ f2.state = IDLE
      /\ ~f2.download_handle /\ ~f2.resume_download_job
  BY <1>2 DEF FwRecords
<1>4. ~defers_download(FALSE, etag, deferred)
  BY DEF defers_download
<1>5a. schedule_background_anjay_download(f2, FALSE, etag, deferred, sec, start)
        = s2
  BY <1>4 DEF schedule_background_anjay_download
<1>5b. f3 = reset_user_state(schedule_background_anjay_download(
                                 f2, FALSE, etag, deferred, sec, start))
  BY <1>5a
<1>5c. schedule_background_anjay_download(f3, FALSE, FALSE, deferred, sec2, start2)
        = schedule_download(f3, FALSE, sec2, start2)
  BY DEF defers_download, schedule_background_anjay_download
<1>6. r = IF uri = NoUri THEN reset_user_state(f1)
          ELSE IF schedule_download_ok(f2, sec, start) THEN s2
          ELSE IF f3.result = CONNECTION_LOST /\ etag
          THEN schedule_download(f3, FALSE, sec2, start2)
          ELSE f3
  BY <1>4, <1>5a, <1>5b, <1>5c, Zenon DEF initialize_downloading
<1>7. CASE uri = NoUri
  <2>1. /\ reset_user_state(f1).state = IDLE
        /\ SameTransfer(reset_user_state(f1), f1)
    BY <1>2, ResetUserStateFrame
  <2>2. r = reset_user_state(f1)
    BY <1>6, <1>7
  <2>3. TransferConsistent(f1)
    BY <1>0, <1>2 DEF TransferConsistent
  <2>4. TransferConsistent(reset_user_state(f1))
    BY <1>2, <2>3, ResetUserStateConsistent
  <2>. QED  BY <2>2, <2>4
<1>8. /\ s2 \in FwRecords /\ TransferConsistent(s2)
      /\ ~schedule_download_ok(f2, sec, start)
           => ~s2.download_handle /\ s2.state \in {IDLE, f2.state}
  BY <1>3, ScheduleFromIdleConsistent, ScheduleDownloadTransfer
<1>9. CASE uri # NoUri /\ schedule_download_ok(f2, sec, start)
  BY <1>6, <1>8, <1>9
<1>10. CASE uri # NoUri /\ ~schedule_download_ok(f2, sec, start)
  <2>1. /\ f3 \in FwRecords /\ f3.state = IDLE
        /\ ~f3.download_handle /\ ~f3.resume_download_job
    <3>1. f3.state = s2.state /\ SameTransfer(f3, s2) /\ f3 \in FwRecords
      BY <1>8, ResetUserStateFrame, ResetUserStateType
    <3>. QED  BY <1>3, <1>8, <1>10, <3>1, Zenon DEF TransferConsistent, SameTransfer
  <2>2. TransferConsistent(f3)
    BY <1>0, <2>1, Zenon DEF TransferConsistent
  <2>3. TransferConsistent(schedule_download(f3, FALSE, sec2, start2))
    BY <2>1, ScheduleFromIdleConsistent
  <2>. QED  BY <1>6, <1>10, <2>2, <2>3
<1>. QED  BY <1>7, <1>9, <1>10

(* Every persisted state restarts consistently. *)
LEMMA InitializeFwReprTransfer ==
    ASSUME NEW kind, NEW uri \in {NoUri} \cup Uris,
           NEW etag \in BOOLEAN, NEW offset \in BOOLEAN,
           NEW deferred \in BOOLEAN, NEW sec \in Int, NEW start,
           NEW sec2 \in Int, NEW start2
    PROVE  TransferConsistent(initialize_fw_repr(kind, FALSE, uri, etag, offset,
                                  deferred, sec, start, sec2, start2))
<1>0. /\ IDLE # DOWNLOADING /\ DOWNLOADED # DOWNLOADING
      /\ UPDATING # DOWNLOADING
  BY DEF IDLE, DOWNLOADING, DOWNLOADED, UPDATING
<1>1. TransferConsistent([Zero EXCEPT !.package_uri = uri,
                          !.user_state = DOWNLOADED, !.state = DOWNLOADED])
  BY <1>0 DEF Zero, TransferConsistent
<1>2. TransferConsistent([Zero EXCEPT !.user_state = UPDATING, !.state = UPDATING])
  BY <1>0 DEF Zero, TransferConsistent
<1>3. \A res : TransferConsistent([Zero EXCEPT !.result = res])
  BY <1>0 DEF Zero, TransferConsistent
<1>4. TransferConsistent(Zero)
  BY <1>0 DEF Zero, TransferConsistent
<1>. QED  BY <1>1, <1>2, <1>3, <1>4, InitializeDownloadingTransfer
          DEF initialize_fw_repr


-----------------------------------------------------------------------------
(* TransferMatchesState in the core environment.  No handler queues        *)
(* resume_download_job when prefer_same_socket_downloads is off, so       *)
(* TransferConsistent, with the type, is inductive.                       *)

IInv == TypeOK /\ TransferConsistent(fw)

LEMMA InitIInv ==
    ASSUME CoreEnvironment
    PROVE  Init => IInv
<1>. SUFFICES ASSUME Init PROVE IInv
  OBVIOUS
<1>1. PICK kind \in InitialStateKinds, prefer \in PreferSameSocketValues,
           uri \in {NoUri} \cup ValidUris, etag, offset, deferred \in BOOLEAN,
           sec, sec2 \in HandlerResults, start, start2 \in StartResults :
          fw = installed(initialize_fw_repr(kind, prefer, uri, etag, offset,
                                            deferred, sec, start, sec2, start2))
  BY DEF Init
<1>2. prefer = FALSE
  BY <1>1 DEF CoreEnvironment
<1>3. TransferConsistent(initialize_fw_repr(kind, FALSE, uri, etag, offset,
                             deferred, sec, start, sec2, start2))
  BY InitializeFwReprTransfer DEF ValidUris
<1>4. \A f : TransferConsistent(f) => TransferConsistent(installed(f))
  BY DEF installed, TransferConsistent
<1>5. TransferConsistent(fw)
  BY <1>1, <1>2, <1>3, <1>4
<1>. QED  BY <1>5, InitTypeOK DEF IInv

LEMMA NextIInv ==
    ASSUME CoreEnvironment
    PROVE  IInv /\ [Next]_vars => IInv'
<1>. SUFFICES ASSUME IInv, [Next]_vars PROVE IInv'
  OBVIOUS
<1>0. TypeOK' /\ fw \in FwRecords /\ TransferConsistent(fw)
  BY NextTypeOK DEF IInv, TypeOK
<1>. SUFFICES TransferConsistent(fw')
  BY <1>0 DEF IInv
<1>1. CASE WritePackage
  BY <1>0, <1>1, FwWritePackageTransfer, ConstantsAssumption DEF WritePackage
<1>2. CASE WritePackageUri
  BY <1>0, <1>2, FwWritePackageUriTransfer, ConstantsAssumption
  DEF WritePackageUri
<1>3. CASE DownloadWriteBlock
  BY <1>0, <1>3, DownloadWriteBlockTransfer, ConstantsAssumption
  DEF DownloadWriteBlock
<1>4. CASE DownloadFinished
  <2>1. ~fw.resume_download_job
    BY <1>0 DEF TransferConsistent
  <2>. QED  BY <1>0, <1>4, <2>1, DownloadFinishedTransfer, ConstantsAssumption
            DEF DownloadFinished
<1>5. CASE ResumeDownloadJob
  BY <1>0, <1>5 DEF ResumeDownloadJob, TransferConsistent
<1>6. CASE SetResult
  <2>1. fw.state # DOWNLOADING
    BY <1>6 DEF SetResult, CoreEnvironment
  <2>. QED  BY <1>0, <1>6, <2>1, SetResultTransfer, ConstantsAssumption
            DEF SetResult
<1>7. CASE Execute
  BY <1>7 DEF Execute, CoreEnvironment
<1>8. CASE RegistrationChange
  BY <1>0, <1>8 DEF RegistrationChange
<1>9. CASE UNCHANGED vars
  BY <1>0, <1>9 DEF vars
<1>. QED  BY <1>1, <1>2, <1>3, <1>4, <1>5, <1>6, <1>7, <1>8, <1>9 DEF Next

(* With prefer_same_socket_downloads off, set_result() confined to the   *)
(* States other than Downloading and no Execute handler, a pull transfer *)
(* is pending exactly while State is Downloading, in every reachable     *)
(* state and for every value of the constants (TransferMatchesState).    *)
THEOREM TransferMatchesStateCore ==
    ASSUME CoreEnvironment
    PROVE  Spec => []TransferMatchesState
<1>1. Init => IInv
  BY InitIInv
<1>2. IInv /\ [Next]_vars => IInv'
  BY NextIInv
<1>3. IInv => TransferMatchesState
  BY DEF IInv, TransferConsistent, TransferMatchesState
<1>. QED  BY <1>1, <1>2, <1>3, PTL DEF Spec

=============================================================================
