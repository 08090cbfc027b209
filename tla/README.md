# Formal model of the LwM2M Firmware Update object

This directory is the TLA+ verification project for the Firmware Update
object (/5) of the client. Its code is `src/src/modules/fw_update/anjay_fw_update.c`,
an Anjay module in which the Davra port has replaced the Execute handler.
The directory holds:

- the TLA+ modules that model the object;
- the TLC configurations that check them on small instances;
- the TLAPS proofs of the properties that hold for every instance.

`PROJECT.json` lists the components, the runs, the mutants, the
definition-to-source map, the findings, the hazards and the theorems.

## 1. The system

The repository's source has three files:

| File | What it is | Modelled |
|---|---|---|
| `src/src/modules/fw_update/anjay_fw_update.c` | the Firmware Update object | yes (`FwUpdate`) |
| `src/tools/davra_peripheral.c` | a standalone socket echo tool | no: it does not touch the object |
| `src/examples/tutorial/BC-Send/src/time_object.h` | declarations | no: it has no behaviour |

The object's state is `struct fw_repr` (lines 64-88). The parts that matter
are these:

- `state` is the LwM2M State: Idle, Downloading, Downloaded or Updating.
- `result` is the Update Result, with values 0..9.
- `user_state.state` is the user's delivery stream.
- `package_uri` is the Package URI.
- `download_handle` is the live pull transfer.
- `retry_download_on_expired` is the ETag restart policy.
- `resume_download_job` is the deferred same-socket resumption.
- `prefer_same_socket_downloads` is a setting taken at install.

The object has these components. The spec's names are used where it has them.

- **State Controller.** It is made of:
  - `set_state` and `set_update_result`, which change the value and notify only on a change;
  - `update_state_and_update_result`, which sets the result first and then the state;
  - `handle_err_result`, which maps the user's negative codes to results;
  - `reset`;
  - the application's `anjay_fw_update_set_result`, gated by `is_result_change_allowed`.
- **User-Delivery Adapter shim.** It wraps the user's handlers:
  - `user_state_ensure_stream_open`, `user_state_stream_write`, `finish_user_stream` and `reset_user_state`;
  - `get_security_config`.

  Each of these releases the client mutex around the call into the user's code.
- **Download Orchestrator.** It is made of:
  - `schedule_download`, which starts a transfer and classifies start errors;
  - `download_write_block` and `download_finished`, the downloader's callbacks. `download_finished` classifies failures and restarts once after an expired ETag;
  - `cancel_existing_download_if_in_progress`, which aborts synchronously through the downloader;
  - `schedule_background_anjay_download` and `resume_download_job`. They defer a same-socket resumption until registrations settle, polling once a second with a 5 minute deadline.
- **Server writes.** `fw_write` handles two resources:
  - `/5/0/0` is push mode: a package, or a single zero byte that resets;
  - `/5/0/1` is the Package URI: an empty URI cancels, any other starts a pull.
- **Install.** `anjay_fw_update_install` and `initialize_fw_repr` seed the object from a persisted state. A persisted Downloading state resumes the download.
- **Davra Execute.** `fw_execute` (1377) replaces the upstream handler. It calls:
  - `download_and_check_checksum`, which does an HTTP fetch of an MD5, hashes the file and assigns `result` directly;
  - `firmware_update`, which assigns `state = 3`.

  It then assigns `state = 0`.
- **Not reachable or read-only:**
  - `schedule_upgrade`, `perform_upgrade` and `user_state_perform_upgrade` are dead. Their only caller is the commented-out upstream Execute body.
  - `fw_read` and the list handlers are read-only.
  - LwM2M Send only publishes.

How they interact:

1. Server writes, downloader callbacks, scheduler jobs and the application's `set_result` all enter under the client mutex.
2. Each entry runs the Controller's transitions.
3. Those call into the Orchestrator (start, abort, restart) and into the Adapter (the user's handlers).
4. A transfer outlives the handler that started it. It ends in `download_finished`, whatever the object did in between.

## 2. The model

### Modules

| Module | What it is |
|---|---|
| `FwUpdate` | the object: state, helpers, handlers, actions and properties |
| `FwUpdateAbstract` | what the object promises: the State/Update Result machine of spec sections 3, 4.1 and 8 |
| `FwUpdateRefinement` | the refinement mapping: `Abs == INSTANCE FwUpdateAbstract WITH state <- fw.state, result <- fw.result`, and `RefinesAbstract == Abs!Spec` |
| `MC_FwUpdate` | the TLC instance (EXTENDS `FwUpdateRefinement`): model values for URIs, and small sets of handler and start results |
| `FwUpdateProofs` | the TLAPS proofs of typing and of `TransferMatchesState` (EXTENDS `FwUpdate`) |
| `FwRefinementProofs` | the TLAPS proof that the object implements `FwUpdateAbstract` (EXTENDS `FwUpdateRefinement` and `FwUpdateProofs`) |
| `FwAdapterProofs` | the TLAPS proofs of `NoAssertionFailure`, `StreamHasProducer`, `AdapterMatchesState` and `NotifiedMatches` (EXTENDS `FwUpdateProofs`) |
| `FwReentryProofs` | the TLAPS proof of `NotifiedMatches` under `ReentrySpec`, with the type lemmas for the re-entrant callbacks (EXTENDS `FwReentry`, `FwAdapterProofs`) |
| `FwReentry` | `FwUpdate` with the user-handler calls of the pull callbacks opened up: a handler may re-enter through `anjay_fw_update_set_result` (see below) |
| `MC_FwReentry` | the TLC instance of `FwReentry` (EXTENDS `FwReentry` and `MC_FwUpdate`) |

### State

- `fw` is a record of the fields above. It has three extra fields:
  - `polls` counts the resumption polls.
  - `notified_state` and `notified_result` hold the last values sent to observers. `set_state` and `set_update_result` write them exactly where the C code calls `_anjay_notify_changed_unlocked`.
  - `fault` names the `assert()` that failed, or is `NoFault`.
- `registering` is the environment's `_anjay_ongoing_registration_exists_unlocked()`.

### Helpers and actions

Every C helper is an operator from a record to a record, named after the C
function. A handler is the composition of its helpers in the order the C code
calls them. The outcomes of the user's handlers, of the downloader and of the
scheduler are drawn with `\E` from small sets:

- `HandlerResults`;
- `StartResults`;
- `DownloadStatuses`;
- BOOLEANs.

A failed `assert()` sets `fault`, and every action is guarded by
`fw.fault = NoFault`. The debug build aborts there.

There is one action per entry point:

| Action | Entry point | Lines |
|---|---|---|
| `WritePackage` | `fw_write` /5/0/0 | 1230-1253 |
| `WritePackageUri` | `fw_write` /5/0/1 | 1255-1316 |
| `DownloadWriteBlock` | `download_write_block` | 867-889 |
| `DownloadFinished` | `download_finished` | 896-959 |
| `ResumeDownloadJob` | `resume_download_job` | 1037-1073 |
| `SetResult` | `anjay_fw_update_set_result` | 1618-1645 |
| `Execute` | Davra `fw_execute` | 1377-1424 |
| `RegistrationChange` | environment | — |

`Init` is every state that `initialize_fw_repr` can produce from every
persisted initial state. Each initial state is followed by registration,
which is why `notified_*` starts in sync.

### Abstractions

- **The lock.** Every handler holds the client mutex, so each action is atomic. Two exceptions:
  - The calls into the user's handlers release the lock. The model still runs them atomically; see Plan.
  - A failed block write makes the downloader abort the transfer and call `download_finished` in the same downloader call. `download_write_block` is modelled as including that completion.
- **The abort.** The abort inside `cancel_existing_download_if_in_progress` calls `download_finished` re-entrantly. It is modelled as `download_finished(f, "ABORTED", ...)`.
- **The 5 minute deadline.** It is `MaxResumePolls` polls. After that many polls the job must see the deadline passed; before, either outcome is possible.
- **The Davra Execute.** It is modelled by its effect:
  - the Update Result becomes one of {unchanged, 4, 7, 1, 6};
  - State becomes Idle;
  - the client crashes on `strlen(NULL)` when no URI was written (line 228);
  - it may also crash on `strcmp` with a NULL checksum (line 389).
- **Left out.** URIs, ETags, bytes and MD5 strings are not modelled. URIs are three model values: one plain, one encrypted, one with an unknown scheme.

### Re-entrant handlers (`FwReentry`)

Every call into a user handler runs between `ANJAY_MUTEX_UNLOCK_FOR_CALLBACK`
and `ANJAY_MUTEX_LOCK_AFTER_CALLBACK` (line 544 and after). The handler may
call `anjay_fw_update_set_result` before it returns, and the caller then
continues on what it decided before the call. The core spawns no thread, so
the re-entrant call happens at the call point, inside the callback's step.

- `reenter(f, here, site, rr)` applies `anjay_fw_update_set_result(f, rr)` when the handler called at `here` is the one that re-enters (`site`).
- `ensure_stream_open_re`, `finish_user_stream_re` and `reset_user_state_re` wrap the helpers of `FwUpdate` with that window. `download_failed_re`, `download_completed_re`, `download_finished_re` and `download_write_block_re` are the callbacks built from them, with the same control flow as in `FwUpdate`.
- `write_block_windows` and `finished_windows` are the handlers a callback actually calls on its path: stream_open only from user state Idle, stream_write and stream_finish only after a successful open, reset on the failure paths.
- `NoReport` is the choice of a handler that returns without calling set_result. `FwReentry` adds no variable. What a re-entrant call established shows in `fw` itself.
- `DownloadWriteBlockRe` and `DownloadFinishedRe` choose a site (or `"none"`) and a result from `ReentrantResults`. `AtomicStep` is every other action of `FwUpdate`, unchanged.

Bounds: at most one re-entrant call per step. The reset handler that the
re-entrant set_result itself calls does not re-enter again. Handlers that run
while State is Idle (push writes, Package URI writes, install) cannot change
anything by re-entering, since set_result refuses every change in Idle. The
windows inside `resume_download_job`, the reset requests of `fw_write` and
`get_security_config` stay atomic.

### The abstract specification (`FwUpdateAbstract`)

Its variables are the two resources a server reads, `state` and `result`.
Its moves are:

- `StartDownload`: Idle to Downloading, with Result Initial.
- `FinishDownload`: Idle (a push in one write) or Downloading to Downloaded, with Result Initial.
- `Abandon`: any State but Updating to Idle, with any Result except Success.
- `StartUpdate`: Downloaded to Updating.
- `ReportUpdate`: Updating to Idle, with any Result except Initial.

Its initial states have Result Initial whenever something is in progress.
Everything else of `fw` is internal to the implementation, so the mapping
is the two fields. A restart after an expired ETag is a stutter of the
abstract machine. The spec's Updating -> Downloaded revert (section 4.5)
belongs to unreachable code and is left out.

`RefinesAbstract` is what a server may rely on:

- a download starts only from Idle;
- a package counts as downloaded only after Idle or Downloading;
- Success is reported only when an upgrade ends;
- Updating is left only with a non-Initial result.

## 3. Properties

| Property | Kind | What it says |
|---|---|---|
| `TypeOK` | invariant | every field holds a value of its C type |
| `NoAssertionFailure` | invariant | no `assert()` fails |
| `TransferMatchesState` | invariant | a handle or a resumption job (never both) is pending exactly while State is Downloading; `cancel_existing_download_if_in_progress` relies on this |
| `StreamHasProducer` | invariant | an open user stream always has a transfer feeding it |
| `AdapterMatchesState` | invariant | State and the user's state agree on Downloaded and Updating |
| `ProgressResultInitial` | invariant | Downloading or Downloaded goes with Result Initial |
| `NotifiedMatches` | invariant | observers have been told the current State and Result |
| `DownloadSettles` | liveness | Downloading is always left, unless the client aborted |
| `ResumeSettles` | liveness | a deferred resumption job always ends |
| `UpdateRejectedUnlessDownloaded` | action | Execute changes nothing unless State is Downloaded |
| `RefinesAbstract` | temporal | seen through State and Result, every behaviour is one of `FwUpdateAbstract` |

## 4. Runs

All runs use `MC_FwUpdate` with these constants:

- three URIs;
- `HandlerResults = {0, -1, -5}`: success, an unclassified error, and a code `handle_err_result` maps;
- `StartResults = {OK, ENOMEM, EIO}`;
- every download status;
- `SetResultValues = {0, 1, 5, 8}`;
- `MaxResumePolls = 2`.

These bounds already reach every branch of every helper:

- each kind of security;
- each start-error class;
- each class of finish status, including the expired-ETag restart;
- a poll that reschedules, one that hits the deadline, and one that starts.

A second transfer is never needed to reach a new branch.

### Passing runs

| Run | Environment | Properties |
|---|---|---|
| `core` | no same-socket, set_result outside Downloading, no Execute | all 7 invariants, `DownloadSettles`, `RefinesAbstract`; deadlock checked |
| `same_socket_resume` | same-socket resumption on | `TypeOK`, `AdapterMatchesState`, `NotifiedMatches`, `ResumeSettles` |
| `out_of_band` | set_result in every State, Execute on | `TypeOK`, `StreamHasProducer`, `ProgressResultInitial`, `DownloadSettles` |

| `reentry` | `core` constants, `ReentrantResults = {0, 5}`, handlers re-enter | `StreamHasProducer`, `ProgressResultInitial`, `NotifiedMatches`, `DownloadSettles`, `RefinesAbstract` |

`reentry` runs `MC_FwReentry` under `ReentryFairSpec`. `ReentrantResults`
holds one result the gate always refuses outside Updating (0, Initial) and one
it lets through (5, Integrity failure), so both outcomes of the re-entrant
call are reached at every site. Allowing the application's set_result in
every State adds no state to this run (356 either way): a handler's report
already covers set_result during Downloading.

`RefinesAbstract` is also violated, in two environments already shown by
findings:

- With same-socket resumption on, a failed start leaves Downloading with a failure result (`resume_start_failure`).
- With Execute on, the Davra handler goes from Downloaded straight to Idle/Success. Servers never see Updating (`davra_execute_state`).

The `core` run checks for deadlock. In the other two the debug build can
abort (see the findings), and an aborted client has no step, so they use
`CHECK_DEADLOCK FALSE`.

Each passing property has a mutant in `PROJECT.json`. The mutant is a
plausible bug in the mapped helper, and TLC finds the property violated
under it. Examples:

- a dropped negation in `handle_err_result`;
- a missing `reset_user_state`;
- a notification skipped in `set_state`;
- the ETag policy kept on restart;
- an expired resumption that leaves its job queued.

### Violation runs

Each violation run checks one property. Each is a finding in `PROJECT.json`:

- **`set_result_mid_download`.** `anjay_fw_update_set_result` moves to Idle during a pull transfer without aborting it. The next Package URI write then hits `assert(!fw->download_handle)`.
- **`set_result_image_discarded`.** After that, a pushed package reaches Downloaded. The orphaned transfer's `download_finished` then resets the user's stream, while State stays Downloaded.
- **`resume_start_failure`.** `resume_download_job` ignores a failing `schedule_download`, whose start-error path leaves State unchanged. The object then stays Downloading with nothing pending.
- **`resume_security_failure`.** A security-config failure in a deferred resumption moves State to Idle, but leaves the user's stream open.
- **Davra `fw_execute`** (three runs):
  - `davra_execute_notify`: it assigns State and Result without notifying;
  - `davra_execute_adapter`: it leaves the user's stream Downloaded while State is Idle;
  - `davra_execute_state`: it acts in every State.
- **`reentrant_report_mid_transfer`** (`FwReentry`). A stream_write handler reports a failure from inside its call. State goes Idle while the transfer stays live, and the next Package URI write hits `assert(!fw->download_handle)`. This needs no application call to set_result: the constants are those of `core`.

Not a run, but seen while modelling `FwReentry`: a result a stream_finish
handler reports from inside its call is overwritten. If the handler returns
0, `download_finished` sets Downloaded/Initial afterwards (line 954). Spec
4.2 states the don't-overwrite rule only for `perform_upgrade`, which is
unreachable here.

## 5. Fairness

`FairSpec` assumes weak fairness on two actions:

- **`DownloadFinished`.** The downloader's own timeouts end every transfer with a status.
- **`ResumeDownloadJob`.** The scheduler runs a due job.

No fairness is assumed for servers, the application or registration churn:

- nothing obliges them to act;
- the liveness properties must hold whatever they do.

`ReentryFairSpec` assumes the same two fairness conditions, on the
re-entrant `DownloadFinishedRe` and on `ResumeDownloadJob`.

`ResumeSettles` therefore rests on the deadline: after `MaxResumePolls` polls the job must give up.

## 6. Proofs

`FwUpdateProofs` proves `THEOREM TypeCorrect == Spec => []TypeOK`. It holds
for every value of the constants that `ConstantsAssumption` allows. The
argument:

- one lemma per helper shows that it maps `FwRecords` to `FwRecords` on well-typed inputs;
- `InitTypeOK` and `NextTypeOK` compose those lemmas, with one case per action;
- the theorem follows by PTL.

`TypeOK` is inductive as it stands, with one non-local fact: the poll
counter. `resume_download_job` increments `polls` only when the deadline
has not passed, and the action forces the deadline once `polls` reaches
`MaxResumePolls`. So the lemma for `resume_download_job` carries that
hypothesis, and the action discharges it.

`FwUpdateProofs` also proves
`THEOREM TransferMatchesStateCore == ASSUME CoreEnvironment PROVE Spec => []TransferMatchesState`.
`CoreEnvironment` is the environment of the `core` run:

- `prefer_same_socket_downloads` is off;
- the application calls `set_result` only outside Downloading;
- no Execute handler is installed.

This is a restriction, not what the code promises its users. The comment at
`anjay_fw_update.c:1606-1607` says that "failing while downloading should
still be an option", and `is_result_change_allowed` accepts an error result
in Downloading. The Core theorems therefore do not cover that supported use.
The runs `set_result_mid_download`, `set_result_image_discarded` and
`reentrant_report_mid_transfer` show what it breaks.

Outside it the property fails; the violation runs show how. It is not
inductive as it stands: `DownloadFinished` with a live handle can be taken
only while no job is queued. The strengthening is
`IInv == TypeOK /\ TransferConsistent(fw)`. `TransferConsistent` says two
things: no resumption job is ever queued, and State is Downloading exactly
when a download handle is live. TLC checked `IInv` on the `core` instance
before the proof. The argument:

- frame lemmas show that each helper other than `schedule_download` and
  the callbacks leaves the transfer fields alone, and which State it leaves;
- `ScheduleDownloadTransfer` shows that a download started from a state
  with no transfer is Downloading with a handle when it succeeds, and has no
  handle when it fails;
- one lemma per handler (`FwWritePackageTransfer`, `FwWritePackageUriTransfer`,
  `DownloadWriteBlockTransfer`, `DownloadFinishedTransfer`, `SetResultTransfer`,
  `CancelTransfer`) and per restart path (`InitializeDownloadingTransfer`,
  `InitializeFwReprTransfer`) preserves or establishes `TransferConsistent`;
- `InitIInv` and `NextIInv` compose them. `ResumeDownloadJob` is never
  enabled, because no job is queued, and `Execute` is excluded by the
  assumption.

`FwRefinementProofs` proves, under the same `CoreEnvironment`,
`THEOREM RefinementCore == Spec => RefinesAbstract` and
`THEOREM ProgressResultInitialCore == Spec => []ProgressResultInitial`.
The refinement needs more than `IInv`. A step that finishes a download
(Downloading to Downloaded) must leave Result Initial, and the abstract
machine allows it only from Idle or Downloading. Both hold only because
Result is Initial throughout a download. So the invariant is
`RInv == IInv /\ ResultInitialInProgress(fw)`: State in
Downloading/Downloaded/Updating implies Result Initial. This is
`ProgressResultInitial`, and it is proved along the way. The argument:

- `AbsMove(f, g)` names the five moves of the pair (State, Result) that the
  abstract machine allows, plus the stutter;
- one "pair" lemma per helper (`SchedulePair`, `HandleErrResultPair`,
  `DownloadFailedPair`, `DownloadCompletedPair`, `SetResultPair`, ...) states
  what the helper does to the pair, for example that `schedule_download`
  either leaves Downloading/Initial or Idle or the old State with a failure
  result;
- `NextMove` shows that every step of `Next` under `RInv` is an `AbsMove`.
  `DownloadWriteBlock` and `DownloadFinished` run only in Downloading with
  Result Initial (from `TransferConsistent` and `ResultInitialInProgress`).
  `SetResult` passes through `is_result_change_allowed`, which refuses Idle,
  refuses Success before Updating and refuses Initial in Updating;
- `MoveKeepsInitial` shows that an `AbsMove` preserves `ResultInitialInProgress`,
  so `NextRInv` follows from `NextIInv`;
- `InitAbstract` and `NextAbstract` map the initial states and the `AbsMove`s
  onto `Abs!Init` and `[Abs!Next]_Abs!vars`. The theorems then follow by PTL.

`FwAdapterProofs` proves, under `CoreEnvironment`,
`NoAssertionFailureCore`, `StreamHasProducerCore` and
`AdapterMatchesStateCore` (each `Spec => []P`). The three invariants are
not inductive, alone or together. For example, `download_write_block`
calls `stream_open` without an assert failing only if the user's state is
Idle or Downloading whenever a handle is live. The strengthening is
`AInv == IInv /\ UserConsistent(fw)`. `UserConsistent` says that no
assert has failed, and that the user's state either equals State or is
Idle while State is Idle or Downloading. TLC checked `AInv` on the `core`
instance before the proof. The argument:

- primitive lemmas (`SetStateUser`, `ResetUserStateUser`,
  `EnsureStreamOpenUser`, ...) give what each helper does to State, the
  user's state and the fault;
- `ScheduleUser` shows that `schedule_download` asserts nothing when it is
  called with no handle and the user's state Idle or Downloading. Every
  caller in this environment meets that condition: the URI write from
  Idle, the restart after an expired ETag once the stream is reset, and
  the install of a persisted Downloading state;
- one lemma per handler (`DownloadWriteBlockUser`, `DownloadFinishedUser`,
  `CancelUser`, `WriteFirmwareUser`, `FwWritePackageUser`,
  `FwWritePackageUriUser`, `SetResultUser`) and for install
  (`InitializeFwReprUser`) preserves or establishes `UserConsistent`;
- `InitAInv` and `NextAInv` compose them with `InitIInv` and `NextIInv`.
  `TransferConsistent` supplies the fact the callbacks need: a live handle
  means State is Downloading.

`FwAdapterProofs` also proves `NotifiedMatchesNoExecute`:
`ASSUME ~ServerExecutes PROVE Spec => []NotifiedMatches`. It needs no
other part of `CoreEnvironment`, because every helper changes State and
Update Result only through `set_state` and `set_update_result`, which
notify. So the same lemmas carry an unconditional `Notified` conjunct, and
`ResumeNotified` covers the same-socket resumption job. Its invariant is
`TypeOK /\ Notified(fw)`. The hypothesis is exactly where the runs draw
the line: `same_socket_resume` passes `NotifiedMatches`, and
`davra_execute_notify` violates it through the Davra `fw_execute`.

`FwReentryProofs` carries `NotifiedMatches` over to re-entry (`ReentrySpec`, where a
user handler calls `anjay_fw_update_set_result` from inside its call):

- `NotifiedMatchesReentry`: `ASSUME ~ServerExecutes PROVE ReentrySpec =>
  []NotifiedMatches`. Its invariant is `NInv`, the same invariant as in the
  core proof.
- The lemma `ReentryTypeCorrect` (`ReentrySpec => []TypeOK`) supplies the types.

Each lemma covers one callback with the handler calls opened up
(`ReenterNotified`, `EnsureStreamOpenReNotified`, `FinishUserStreamReNotified`,
`ResetUserStateReNotified`, `DownloadFailedReNotified`,
`DownloadCompletedReNotified`, `DownloadFinishedReNotified`,
`DownloadWriteBlockReNotified`). Each one shows that the result is well typed
and that `Notified` is kept. The re-entrant call is `set_result` itself, which
notifies through `set_state`/`set_update_result` like every other helper.
`AtomicStepIsNext` reduces the other steps to `Next`, where `NextTypeOK` and
`NextNInv` apply.

Only TLC checks the rest:

- **Liveness** (`DownloadSettles`, `ResumeSettles`): TLAPS does not handle fairness or ENABLED.
- **`RefinesAbstract`, `ProgressResultInitial` and `StreamHasProducer` under re-entry** (`FwReentry`): the `reentry` run checks them. Their core proofs rest on `TransferConsistent`, which re-entry breaks. A handler that reports Integrity Failure from inside `stream_write` sets State to Idle while the download handle is still live, until `download_finished` clears it. A proof under `ReentrySpec` needs a weaker transfer invariant that allows Idle with a live handle.
- **The action property `UpdateRejectedUnlessDownloaded`**: it is about the Davra Execute handler, and the runs violate it.

## 7. Plan

1. **Refinement under re-entry.** `RefinementCore` proves the refinement for `Spec`. Extend the proof to `ReentrySpec`. This needs pair lemmas for the `_re` callbacks and a transfer invariant that allows Idle with a live handle.
2. **Reentrancy.** `FwReentry` covers the handlers of the pull callbacks. Still to do: the windows inside `resume_download_job` and the `fw_write` reset requests, and more than one re-entry per step.
3. **Restarts.** Add crash/restart with a bounded number of restarts. A restart re-runs `initialize_fw_repr` from the state the application persisted.
4. **Proofs.** Every invariant of the `core` run is proved, and so is `NotifiedMatches` of the `reentry` run. The remaining `reentry` invariants need the weaker transfer invariant of item 1.

## 8. Not modelled

- LwM2M Send, and the read and list handlers: they change no state.
- The dead upgrade path.
- The bytes of packages.
- The HTTP and MD5 work of the Davra helpers, and the blocking of the client while `fw_execute` runs it under the lock (listed as a hazard).
- `davra_peripheral.c` and `time_object.h`.
