-------------------------- MODULE FwUpdateRefinement --------------------------
(***************************************************************************)
(* The object as FwUpdate models it implements the State/Update Result    *)
(* machine of FwUpdateAbstract: the refinement mapping reads the two       *)
(* resources off the fw_repr record, and every other field is internal.   *)
(***************************************************************************)
EXTENDS FwUpdate

Abs == INSTANCE FwUpdateAbstract WITH state <- fw.state, result <- fw.result

(* Every behaviour of the object, seen through State and Update Result,   *)
(* is one the LwM2M state machine allows: a download starts only from     *)
(* Idle, a package is Downloaded only after Idle or Downloading, both     *)
(* with Result Initial, Success is reported only when an upgrade ends,   *)
(* and Updating is left only through a non-Initial result.               *)
RefinesAbstract == Abs!Spec

=============================================================================
