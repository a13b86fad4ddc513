--------------------------- MODULE MCJobHandover ---------------------------
(*****************************************************************************)
(* One thread that a scheduler hands a job to.                               *)
(*****************************************************************************)
EXTENDS JobHandover

CONSTANT p

Own      == {p}
AllFuncs == {"scheduler"}
OneArg   == {"x"}
=============================================================================
