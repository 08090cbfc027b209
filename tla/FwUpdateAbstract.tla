--------------------------- MODULE FwUpdateAbstract ---------------------------
(***************************************************************************)
(* What the Firmware Update object promises its servers: the pair of the  *)
(* State (/5/0/3) and Update Result (/5/0/5) resources, and the moves      *)
(* between them that the LwM2M firmware update state machine allows        *)
(* (spec sections 3, 4.1 and 8).  Transfers, the user's stream, jobs and   *)
(* notifications are not visible here.                                     *)
(*                                                                         *)
(* The spec's one exception, the Updating -> Downloaded/OutOfMemory revert *)
(* of section 4.5 when an upgrade step cannot be scheduled, belongs to     *)
(* code that is unreachable in this repository and is left out.          *)
(***************************************************************************)
EXTENDS Naturals

VARIABLES
    state,   \* the State resource
    result   \* the Update Result resource

vars == <<state, result>>

IDLE == 0
DOWNLOADING == 1
DOWNLOADED == 2
UPDATING == 3
States == {IDLE, DOWNLOADING, DOWNLOADED, UPDATING}

INITIAL == 0
SUCCESS == 1
Results == 0..9

(* A transfer or an upgrade under way reports nothing yet. *)
InProgress == {DOWNLOADING, DOWNLOADED, UPDATING}

Init ==
    /\ state \in States
    /\ result \in Results
    /\ state \in InProgress => result = INITIAL

(* A Package URI is accepted in Idle: the pull transfer starts. *)
StartDownload ==
    /\ state = IDLE
    /\ state' = DOWNLOADING
    /\ result' = INITIAL

(* The whole package has reached the device, pushed in one write from    *)
(* Idle or pulled while Downloading.                                      *)
FinishDownload ==
    /\ state \in {IDLE, DOWNLOADING}
    /\ state' = DOWNLOADED
    /\ result' = INITIAL

(* A reset, a cancel or a failure before the upgrade: back to Idle with   *)
(* Initial or a failure result.  Success is never reported without an     *)
(* upgrade.                                                               *)
Abandon ==
    /\ state # UPDATING
    /\ state' = IDLE
    /\ result' \in Results \ {SUCCESS}

(* Update is executed on a downloaded package. *)
StartUpdate ==
    /\ state = DOWNLOADED
    /\ state' = UPDATING
    /\ result' = INITIAL

(* The upgrade's outcome is reported: any result but Initial (the gate of *)
(* section 4.1 for Updating).                                             *)
ReportUpdate ==
    /\ state = UPDATING
    /\ state' = IDLE
    /\ result' \in Results \ {INITIAL}

Next == StartDownload \/ FinishDownload \/ Abandon \/ StartUpdate \/ ReportUpdate

Spec == Init /\ [][Next]_vars

=============================================================================
