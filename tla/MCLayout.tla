------------------------------ MODULE MCLayout ------------------------------
(***************************************************************************)
(* The configuration of typesAndDecs.h and larger ones.                    *)
(***************************************************************************)
EXTENDS Layout

MB == 1048576

Config(n, length, arg) ==
  [procs |-> n, dequeLength |-> length, argSize |-> arg, sets |-> 256,
   holding |-> 4 * arg, pstack |-> 8 * MB, pool |-> 32 * MB, entries |-> 2048]

RealAndLarger ==
  {Config(n, length, arg) : n \in 3 .. 8, length \in {256, 320}, arg \in {256, 260}}
=============================================================================
