---------------------------- MODULE MC_FwReentry ----------------------------
(* Small instances of FwReentry for TLC, on the constants of MC_FwUpdate. *)
EXTENDS FwReentry, MC_FwUpdate
=============================================================================
