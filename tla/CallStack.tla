------------------------------ MODULE CallStack ------------------------------
(***************************************************************************)
(* What the persistent stack promises to the code written on top of it     *)
(* (pStack.h, README "Persistent Stack"): a program is a chain of          *)
(* capsules; every capsule finds on top of the stack exactly the arguments *)
(* pushed for it, runs once, and passes control by a continuation (pcnt),  *)
(* a call (pcall) or a return (pret, pretvoid).                            *)
(*                                                                         *)
(* There are no faults, no holders and no installed capsules here: each    *)
(* capsule is one atomic step.  CapsuleMachine implements this             *)
(* specification with faults between any two writes.                       *)
(***************************************************************************)
EXTENDS Naturals, Sequences

CONSTANTS
  Funcs,    \* functions written by the clients of the stack
  Args,     \* values passed as arguments
  Regions,  \* process indices a thread can be associated with (soft whoAmI)
  Hard      \* index of the process that executes (hard whoAmI)

VARIABLES
  frames,   \* the live part of the stack: arguments and continuations
  run,      \* the function whose capsule is to run next
  who       \* soft whoAmI of the thread

vars == <<frames, run, who>>

-----------------------------------------------------------------------------

\* The stack once the running capsule has popped its top k arguments.
Keep(k) == SubSeq(frames, 1, Len(frames) - k)

Popped(k) == \A i \in Len(frames) - k + 1 .. Len(frames) : frames[i] \in Args

\* s is the stack base with some arguments pushed on it.
Pushed(base, s) ==
  /\ Len(base) <= Len(s)
  /\ SubSeq(s, 1, Len(base)) = base
  /\ \A i \in Len(base) + 1 .. Len(s) : s[i] \in Args

\* pcnt: the next capsule gets the arguments this one leaves for it.
Continue(k) ==
  /\ run \in Funcs
  /\ Popped(k)
  /\ Pushed(Keep(k), frames')
  /\ run' \in Funcs \union {"shutdown"}
  /\ UNCHANGED who

\* pcall: the continuation and its arguments stay under those of the callee.
Call(k) ==
  /\ run \in Funcs
  /\ Popped(k)
  /\ \E p \in Len(Keep(k)) + 1 .. Len(frames') :
       /\ Pushed(Keep(k), SubSeq(frames', 1, p - 1))
       /\ frames'[p] \in Funcs
       /\ Pushed(SubSeq(frames', 1, p), frames')
  /\ run' \in Funcs \union {"resetWhoAmI"}
  /\ UNCHANGED who

\* pret, pretvoid: control goes to the continuation on top of the stack, and
\* a returned value takes its place.
Return(k) ==
  LET kept == Keep(k) IN
  /\ run \in Funcs \/ (run = "resetWhoAmI" /\ who = Hard /\ k = 0)
  /\ Popped(k)
  /\ kept # <<>>
  /\ kept[Len(kept)] \in Funcs
  /\ run' = kept[Len(kept)]
  /\ Pushed(SubSeq(kept, 1, Len(kept) - 1), frames')
  /\ Len(frames') <= Len(kept)
  /\ UNCHANGED who

\* resetWhoAmI: the thread becomes associated with the process running it.
SetIdentity ==
  /\ run = "resetWhoAmI"
  /\ who' = Hard
  /\ UNCHANGED <<frames, run>>

-----------------------------------------------------------------------------

Init ==
  /\ frames = <<>>
  /\ run \in Funcs
  /\ who \in Regions

Next ==
  \/ \E k \in 0 .. Len(frames) : Continue(k) \/ Call(k) \/ Return(k)
  \/ SetIdentity

Spec == Init /\ [][Next]_vars
=============================================================================
