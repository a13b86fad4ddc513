-------------------------- MODULE MCCapsuleMachine --------------------------
(***************************************************************************)
(* Small instances of CapsuleMachine for TLC.                              *)
(***************************************************************************)
EXTENDS CapsuleMachine

CONSTANTS p, q

Own    == {p}
Both   == {p, q}
Stolen == {q}

AllFuncs  == {"job", "sched"}
WithReset == AllFuncs \union {"resetWhoAmI"}
OneFunc  == {"sched"}
OneReset == OneFunc \union {"resetWhoAmI"}
OneArg    == {"x"}
=============================================================================
