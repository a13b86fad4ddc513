------------------------------ MODULE WordStack ------------------------------
(***************************************************************************)
(* The persistent stack as the code on top of it sees it, in words of four *)
(* bytes: an int takes one, a function pointer two.  pPopArg takes as many *)
(* bytes as its variable has, whatever was pushed (pStack.h), so a capsule *)
(* that pops other types than were pushed gets parts of other values.      *)
(*                                                                         *)
(* A thread is its installed capsule and the live part of its stack.  That *)
(* the machine of capsule.c and pStack-internal.c carries out these calls  *)
(* and returns whole, faults or not, is what CapsuleMachine shows.         *)
(***************************************************************************)
EXTENDS Integers, Sequences

CONSTANTS
  Code,   \* the functions, a sequence of names; its order gives addresses
  High    \* upper half of every function pointer

\* Function pointers: the lower halves are far from small integers.
Base == 1000

\* The upper half, bits 32 to 46 of a user address, is not the lower half of a
\* function as well.
ASSUME CodeAssumption ==
  /\ DOMAIN Code = 1 .. Len(Code)
  /\ High \in Int
  /\ High - Base \notin DOMAIN Code

Pointer(f) == <<Base + CHOOSE i \in DOMAIN Code : Code[i] = f, High>>

Functions == {Code[i] : i \in DOMAIN Code}

\* Where a process is that has jumped through something else.
Lost == [capsule |-> "lost", stack |-> <<>>]

\* The i-th word from the top, and the stack without its top n words.  Under
\* the stack is memory nobody has written: zeros.
Word(t, i) ==
  IF i <= Len(t.stack) THEN t.stack[Len(t.stack) + 1 - i] ELSE 0
Under(t, n) == SubSeq(t.stack, 1, Len(t.stack) - n)

\* A capsule that has popped n words leaves by pcnt: args are pushed for f.
Pcnt(t, n, args, f) == [capsule |-> f, stack |-> Under(t, n) \o args]

\* It leaves by pcall: args are for f, calleeArgs for g.
Pcall(t, n, args, f, calleeArgs, g) ==
  [capsule |-> g, stack |-> Under(t, n) \o args \o Pointer(f) \o calleeArgs]

\* It leaves by pret or pretvoid: the two words on top are jumped through.
Pret(t, n, value) ==
  LET left  == [stack |-> Under(t, n)]
      index == Word(left, 2) - Base
  IN IF Word(left, 1) = High /\ index \in DOMAIN Code
       THEN [capsule |-> Code[index], stack |-> Under(left, 2) \o value]
       ELSE Lost
=============================================================================
