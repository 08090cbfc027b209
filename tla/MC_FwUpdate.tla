---------------------------- MODULE MC_FwUpdate ----------------------------
(* Small instances of FwUpdate for TLC. *)
EXTENDS FwUpdateRefinement

CONSTANTS plainUri, secureUri, badUri   \* model values

(* One URI per transport security class: coap://, coaps:// and an        *)
(* unknown scheme.                                                       *)
MCUris == {plainUri, secureUri, badUri}
MCEncryptedUris == {secureUri}
MCUnsupportedUris == {badUri}

(* Success, an unclassified error and a code handle_err_result() maps.  *)
MCHandlerResults == {0, -1, -INTEGRITY_FAILURE}

(* Success, an errno mapped to its own result, and an unmapped one.     *)
MCStartResults == {"OK", "ENOMEM", "EIO"}
=============================================================================
