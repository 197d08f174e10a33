------------------------ MODULE OperationValidation ------------------------
(***************************************************************************)
(* The gate every recovery operation passes first: the registry of         *)
(* capabilities, a bit mask kept as a set, the safety policy, and the      *)
(* report RecoveryOperationValidator writes, kept as the set of its error  *)
(* types.                                                                  *)
(***************************************************************************)

Capabilities == {"FILESYSTEM_DETECTION", "FILESYSTEM_ANALYSIS", "METADATA_RECOVERY",
                 "FILE_RECOVERY", "CARVING", "OUTPUT_EXPORT"}

(* What a caller vouches for; "failing" below is what it does not.         *)
Assurances == {"SOURCE_NOT_READONLY", "DESTINATION_SAME_AS_SOURCE", "INVALID_SOURCE_RANGES",
               "INVALID_OUTPUT_PATH", "ARITHMETIC_OVERFLOW_RISK", "INVALID_CANCELLATION_STATE"}

RegisterCapability(registry, mask) == registry \cup mask
UnregisterCapability(registry, mask) == registry \ mask
ClearCapabilities == {}

(* One common bit is enough: a mask of several capabilities counts as      *)
(* registered when any of them is.                                         *)
IsCapabilityRegistered(registry, mask) == registry \cap mask # {}
IsCapabilitySupported(registry, mask) == IsCapabilityRegistered(registry, mask)

ValidateOperation(registry, mask, failing) ==
    failing \cup IF IsCapabilitySupported(registry, mask) THEN {} ELSE {"UNSUPPORTED_CAPABILITY"}

ValidationPassed(report) == report = {}

=============================================================================
