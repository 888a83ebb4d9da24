------------------------------ MODULE EfiStatus ------------------------------
(***************************************************************************)
(* EFI_STATUS as the loader sees it.  Only the codes the loader itself     *)
(* produces or compares with are named; every other code a firmware        *)
(* service may return is a member of FirmwareErrors.  All warning codes    *)
(* are one value: the code only ever asks is_error() or "= SUCCESS".       *)
(***************************************************************************)
CONSTANT FirmwareErrors   \* error codes returned by firmware services

NoStatus == "none"
Success == "SUCCESS"
Warn == "WARN"

\* The error codes named in main.rs, picker.rs, exit_data.rs and
\* configuration_recovery.rs.
LoaderErrors ==
    {"ABORTED", "BAD_BUFFER_SIZE", "DEVICE_ERROR", "END_OF_FILE",
     "INVALID_PARAMETER", "NOT_FOUND", "NOT_READY", "OUT_OF_RESOURCES",
     "UNSUPPORTED"}

Errors == LoaderErrors \cup FirmwareErrors
Statuses == Errors \cup {Success, Warn}

\* Status::is_error: neither SUCCESS nor a warning.
IsError(s) == s \notin {Success, Warn}

ASSUME FirmwareErrorsAssumption ==
    FirmwareErrors \cap {NoStatus, Success, Warn} = {}
=============================================================================
