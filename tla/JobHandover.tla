---------------------------- MODULE JobHandover ----------------------------
(***************************************************************************)
(* How the scheduler starts the thread of a job: it pushes the arguments   *)
(* of the job and then the capsule stored in the job (pPushCntArg), and    *)
(* returns makeCapsule(&pStackReset) - findWork, stealCnt, graveRob and    *)
(* others in scheduler.c.  The capsule is one argument here, Work.         *)
(***************************************************************************)
EXTENDS CapsuleMachine

CONSTANTS
  Work,     \* the argument that holds the capsule of the job
  JobFunc   \* the function of that capsule

WorkCapsule == First(Hard, JobFunc)

\* The scheduler pushes the capsule last and leaves by pStackReset.
StartJob ==
  /\ InClient
  /\ dirty.call.size = 0
  /\ dirty.cnt.size < HolderSize
  /\ cntHolder' = PushedCnt(Work)
  /\ Finish("pStackReset", Three(dirty.stack, Grow(dirty.cnt, 1), dirty.call))
  /\ UNCHANGED <<stack, callHolder, slot, current, quit, copied, faults>>

Resetting == pc = "body" /\ rst = "pStackReset"

LoadReset ==
  /\ pc = "load"
  /\ ~quit
  /\ rst = "pStackReset"
  /\ dirty' = [Installed.clean EXCEPT !.stack = Emptied(@)]
  /\ copied' = 0
  /\ pc' = "body"
  /\ UNCHANGED <<persistent, next, faults>>

\* What lies under and above the pointer to the top of the continuation
\* holder; bytes past the end of the holder are somebody else's.
AboveTop(i) ==
  LET at == dirty.cnt.offset + i IN
  IF at < HolderSize THEN cntHolder[dirty.cnt.region][at] ELSE Junk

ResetCopy ==
  /\ Resetting
  /\ copied < dirty.cnt.size
  /\ stack' = [stack EXCEPT ![dirty.stack.region][dirty.stack.offset + copied]
                              = AboveTop(copied)]
  /\ copied' = copied + 1
  /\ UNCHANGED <<cntHolder, callHolder, slot, current, quit, dirty, next, pc,
                 faults>>

\* The capsule popped is returned as it is: it keeps its own clean pointers.
ResetDone ==
  LET top == Grow(dirty.stack, dirty.cnt.size) IN
  /\ Resetting
  /\ copied = dirty.cnt.size
  /\ next' = IF Top(top) = Work THEN WorkCapsule ELSE Torn
  /\ dirty' = [dirty EXCEPT !.stack = Grow(top, -1)]
  /\ pc' = "write"
  /\ UNCHANGED <<persistent, copied, faults>>

HandoverNext == Machine \/ StartJob \/ LoadReset \/ ResetCopy \/ ResetDone

HandoverSpec == Init /\ [][HandoverNext]_vars

-----------------------------------------------------------------------------

\* pStack-internal.h on pStackReset: "takes starting arguments and
\* continuation in cnt holding area, then resets the stack, copies the
\* arguments, and starts the continuation".
ResetStartsTheJob == [][ResetDone => next' = WorkCapsule]_vars
=============================================================================
