--------------------------- MODULE MCProcessStart ---------------------------
(*****************************************************************************)
(* The process that starts with main -s.                                     *)
(*****************************************************************************)
EXTENDS ProcessStart

CONSTANT p

Own      == {p}
AllFuncs == {"singleJobPush", "scheduler"}
OneArg   == {"firstJob"}
=============================================================================
