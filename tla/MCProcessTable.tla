--------------------------- MODULE MCProcessTable ---------------------------
(***************************************************************************)
(* Processes that are started the same way, more than there are indices.   *)
(***************************************************************************)
EXTENDS ProcessTable

SomePids == 2 .. 5
OneCommand == {"ppmm"}
=============================================================================
