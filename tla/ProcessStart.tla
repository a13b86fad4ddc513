---------------------------- MODULE ProcessStart ----------------------------
(***************************************************************************)
(* How main() in main.c puts the starting process (-s) on the trampoline.  *)
(* The other two ways, -t and neither, are Init of CapsuleMachine.         *)
(***************************************************************************)
EXTENDS CapsuleMachine

CONSTANTS
  JobPush,     \* singleJobPush, of scheduler.c
  FirstJob     \* the job pushed for it, an argument

\* main.c, startingProc: the capsule `overhead` is made while the holder is
\* empty, the job and the function are pushed after that.
StartingInit ==
  /\ stack = [r \in Regions |-> [i \in 0 .. StackSize - 1 |-> Junk]]
  /\ cntHolder = [r \in Regions |-> [i \in 0 .. HolderSize - 1 |->
                    CASE r = Hard /\ i = 0 -> FirstJob
                      [] r = Hard /\ i = 1 -> JobPush
                      [] OTHER -> Junk]]
  /\ callHolder = [r \in Regions |-> [i \in 0 .. HolderSize - 1 |-> Junk]]
  /\ next = First(Hard, "pCntInternal")
  /\ slot = <<next, Torn>>
  /\ dirty = Three(At(Hard), Grow(At(Hard), 2), At(Hard))
  /\ current = 1
  /\ quit = FALSE
  /\ copied = 0
  /\ pc = "load"
  /\ faults = 0

StartingSpec == StartingInit /\ [][Machine]_vars /\ WF_vars(Machine)

-----------------------------------------------------------------------------

\* main.c on the starting process: "The current capsule at start is some
\* overhead to call the singlePushJob function".  Sooner or later that
\* function is installed.
OverheadCallsJobPush == <>(rst = JobPush)
=============================================================================
