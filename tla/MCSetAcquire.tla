---------------------------- MODULE MCSetAcquire ----------------------------
(*****************************************************************************)
(* One fork that acquires a set for one job.                                 *)
(*****************************************************************************)
EXTENDS SetAcquire

Names == <<"forkCnt", "getAndInitSet", "loopGetSet", "aquireSet", "gotSet">>

OneJob == <<7, 8>>
=============================================================================
