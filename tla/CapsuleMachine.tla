--------------------------- MODULE CapsuleMachine ---------------------------
(***************************************************************************)
(* The machine one process runs: trampolineCapsule of capsule.c and the    *)
(* persistent stack of pStack-internal.c, with soft faults.                *)
(*                                                                         *)
(* Persistent memory survives a fault: the stacks, the continuation and    *)
(* callee holders, the two capsules of installedSwap and the pointer       *)
(* currentlyInstalled.  The dirty pointers and everything local to the     *)
(* capsule being run is ephemeral.  A step is one write to persistent      *)
(* memory (of one argument, whatever its width) or one ephemeral update.   *)
(* Offsets are relative to the start of the region they point into         *)
(* (setup.c gives every process one stack and two holders).                *)
(*                                                                         *)
(* A definition marked Slip is a wrong variant of the one after it, for    *)
(* checking that the properties would notice.                              *)
(***************************************************************************)
EXTENDS Integers, SequencesExt

CONSTANTS
  Funcs,       \* functions of the clients: user code and scheduler code
  Args,        \* argument values
  Regions,     \* process indices, each owns a stack and two holders
  Hard,        \* the index of the process modelled
  Callees,     \* what pcall is used with: functions, resetWhoAmI
  Owners,      \* whose thread it runs: its own, or that of a dead process
  StackSize,   \* PSTACK_STACK_SIZE, in arguments
  HolderSize,  \* PSTACK_HOLDING_SIZE, in arguments
  MaxFaults,   \* bound: how many faults happen
  Junk,        \* bytes never written
  Torn         \* a capsule of installedSwap of which only a part is written

VARIABLES
  stack,       \* stack[r][i]: the persistent stack of r
  cntHolder,   \* cntHolder[r][i]: the continuation holder of r
  callHolder,  \* callHolder[r][i]: the callee holder of r
  slot,        \* installedSwap: the pair of capsules the process swaps
  current,     \* currentlyInstalled: which of the two is installed
  quit,        \* trampolineQuit
  dirty,       \* ephemeral: pStackDirty, cntHolderDirty, callHolderDirty
  next,        \* ephemeral: the capsule returned by the one that ran
  copied,      \* ephemeral: how far a copying loop has got
  pc,          \* ephemeral: where in trampolineCapsule or a capsule
  faults       \* number of faults so far

persistent == <<stack, cntHolder, callHolder, slot, current, quit>>
memory     == <<stack, cntHolder, callHolder>>
vars       == <<persistent, dirty, next, copied, pc, faults>>

-----------------------------------------------------------------------------
\* Functions and capsules

Internal == {"pCntInternal", "pCallInternal", "pRetInternal",
             "pRetCntInternal"}
Code     == Funcs \union Internal \union {"resetWhoAmI", "shutdown"}
Cells    == Args \union Code \union {Junk}

ASSUME NamesAssumption ==
  /\ Funcs \intersect (Internal \union {"resetWhoAmI", "shutdown"}) = {}
  /\ Args \intersect Code = {}
  /\ Callees \subseteq Funcs \union {"resetWhoAmI"}

ASSUME RegionsAssumption ==
  /\ Hard \in Regions
  /\ Owners \subseteq Regions

ASSUME BoundsAssumption ==
  /\ StackSize \in Nat
  /\ HolderSize \in Nat
  /\ HolderSize >= 2
  /\ MaxFaults \in Nat

\* A PMem into a holder or a stack: where it starts, and how far it reaches.
At(r) == [region |-> r, offset |-> 0, size |-> 0]

Pointers == [region : Regions, offset : Nat, size : Nat]
Heads    == [stack : Pointers, cnt : Pointers, call : Pointers]
Capsules == [rst : Cells, who : Regions, clean : Heads]

ASSUME TornAssumption == Torn \notin Capsules

Grow(p, n) ==
  [region |-> p.region, offset |-> p.offset + n, size |-> p.size + n]

\* Slip: the size is not reset.
EmptiedHeadOnly(p) ==
  [region |-> p.region, offset |-> p.offset - p.size, size |-> p.size]

Emptied(p) == [region |-> p.region, offset |-> p.offset - p.size, size |-> 0]

\* The heads of the stack, the continuation holder and the callee holder.
Three(s, n, k) == [stack |-> s, cnt |-> n, call |-> k]

\* The three pointers of process r as everybodyInit sets them.
Start(r) == Three(At(r), At(r), At(r))

Other(s)  == 3 - s
Installed == slot[current]
rst       == Installed.rst

\* Slip: the identity of the process instead of that of the thread.
MakeCapsuleHard(f, d) == [rst |-> f, who |-> Hard, clean |-> d]

\* makeCapsule: the new capsule inherits the identity of the installed one
\* and its clean pointers are the dirty ones.
MakeCapsule(f, d) == [rst |-> f, who |-> Installed.who, clean |-> d]

\* Slip: the holder of the process instead of that of the thread.
MyCntHard(i) == cntHolder[Hard][i]

\* myCntHolder and myCalleeHolder are found by the soft whoAmI.
MyCnt(i)    == cntHolder[Installed.who][i]
MyCallee(i) == callHolder[Installed.who][i]

\* The argument under the dirty stack pointer.
Top(p) == stack[p.region][p.offset - 1]

\* Return from the capsule body with a new capsule.
Finish(f, d) ==
  /\ next' = MakeCapsule(f, d)
  /\ dirty' = d
  /\ pc' = "write"

\* Store v at the top of a holder: the pushing loops of ppcnaInternal and
\* ppcaaInternal.
PushedCnt(v) ==
  [cntHolder EXCEPT ![dirty.cnt.region][dirty.cnt.offset] = v]
PushedCallee(v) ==
  [callHolder EXCEPT ![dirty.call.region][dirty.call.offset] = v]

-----------------------------------------------------------------------------
\* trampolineCapsule

\* The head of the loop: copy the installed capsule, take its clean pointers,
\* call its function.  A half written capsule or a pointer that is not code has
\* no step here: the process is lost.
Load ==
  /\ pc = "load"
  /\ ~quit
  /\ Installed # Torn
  /\ rst \in Code
  /\ dirty' = Installed.clean
  /\ copied' = 0
  /\ pc' = "body"
  /\ UNCHANGED <<persistent, next, faults>>

Exit ==
  /\ pc = "load"
  /\ quit
  /\ pc' = "exit"
  /\ UNCHANGED <<persistent, dirty, next, copied, faults>>

\* Slip: the pointer swings before the capsule is written to the end.
WriteFirstOnly ==
  /\ pc = "write"
  /\ slot' = [slot EXCEPT ![Other(current)] = Torn]
  /\ pc' = "swing"
  /\ UNCHANGED <<memory, current, quit, dirty, next, copied, faults>>

\* The capsule that is not installed is overwritten, field after field.
WriteFirst ==
  /\ pc = "write"
  /\ slot' = [slot EXCEPT ![Other(current)] = Torn]
  /\ pc' = "written"
  /\ UNCHANGED <<memory, current, quit, dirty, next, copied, faults>>

WriteRest ==
  /\ pc = "written"
  /\ slot' = [slot EXCEPT ![Other(current)] = next]
  /\ pc' = "swing"
  /\ UNCHANGED <<memory, current, quit, dirty, next, copied, faults>>

\* __atomic_store of currentlyInstalled.
Swing ==
  /\ pc = "swing"
  /\ current' = Other(current)
  /\ pc' = "load"
  /\ UNCHANGED <<memory, slot, quit, dirty, next, copied, faults>>

-----------------------------------------------------------------------------
\* The capsule of a client.  It pops arguments, pushes arguments and leaves by
\* one of the macros of pStack.h.  What a client owes the stack is stated in
\* the guards: it pops arguments only, it keeps the sizes within those of
\* setup.c (an argument leaves room for the function pointers pcall adds), it
\* pushes callee arguments for a pcall only, none for resetWhoAmI, and nothing
\* under a returned value.

InClient == pc = "body" /\ rst \in Funcs

Room(n) == dirty.stack.size + dirty.cnt.size + dirty.call.size + n <= StackSize

PopArg ==
  /\ InClient
  /\ dirty.stack.size > 0
  /\ Top(dirty.stack) \in Args
  /\ dirty' = Three(Grow(dirty.stack, -1), dirty.cnt, dirty.call)
  /\ UNCHANGED <<persistent, next, copied, pc, faults>>

PushCntArg(v) ==
  /\ InClient
  /\ dirty.cnt.size + 1 < HolderSize
  /\ Room(3)
  /\ cntHolder' = PushedCnt(v)
  /\ dirty' = Three(dirty.stack, Grow(dirty.cnt, 1), dirty.call)
  /\ UNCHANGED <<stack, callHolder, slot, current, quit, next, copied, pc,
                 faults>>

PushCalleeArg(v) ==
  /\ InClient
  /\ dirty.call.size + 1 < HolderSize
  /\ Room(3)
  /\ callHolder' = PushedCallee(v)
  /\ dirty' = Three(dirty.stack, dirty.cnt, Grow(dirty.call, 1))
  /\ UNCHANGED <<stack, cntHolder, slot, current, quit, next, copied, pc,
                 faults>>

Pcnt(f) ==
  /\ InClient
  /\ dirty.call.size = 0
  /\ dirty.cnt.size < HolderSize
  /\ Room(1)
  /\ cntHolder' = PushedCnt(f)
  /\ Finish("pCntInternal",
            Three(dirty.stack, Grow(dirty.cnt, 1), dirty.call))
  /\ UNCHANGED <<stack, callHolder, slot, current, quit, copied, faults>>

Pcall(g, f) ==
  /\ InClient
  /\ dirty.cnt.size < HolderSize
  /\ dirty.call.size < HolderSize
  /\ g = "resetWhoAmI" => dirty.call.size = 0
  /\ Room(2)
  /\ cntHolder' = PushedCnt(f)
  /\ callHolder' = PushedCallee(g)
  /\ Finish("pCallInternal",
            Three(dirty.stack, Grow(dirty.cnt, 1), Grow(dirty.call, 1)))
  /\ UNCHANGED <<stack, slot, current, quit, copied, faults>>

\* A client that returns has popped all its arguments and pushed none.
ReadyToReturn ==
  /\ InClient
  /\ dirty.cnt.size = 0
  /\ dirty.call.size = 0
  /\ dirty.stack.size > 0
  /\ Top(dirty.stack) \in Funcs

Pret(v) ==
  /\ ReadyToReturn
  /\ Room(1)
  /\ cntHolder' = PushedCnt(v)
  /\ Finish("pRetInternal",
            Three(dirty.stack, Grow(dirty.cnt, 1), dirty.call))
  /\ UNCHANGED <<stack, callHolder, slot, current, quit, copied, faults>>

PretVoid ==
  /\ ReadyToReturn
  /\ Finish("pRetInternal", dirty)
  /\ UNCHANGED <<persistent, copied, faults>>

-----------------------------------------------------------------------------
\* The capsules of pStack-internal.c

\* Slip: the callee and its arguments go under those of the continuation.
CopySourceCalleeFirst(i) ==
  IF rst = "pCallInternal" /\ i < dirty.call.size
    THEN MyCallee(i)
    ELSE MyCnt(IF rst = "pCallInternal" THEN i - dirty.call.size ELSE i)

\* How much pCntInternal (pCallInternal) copies, and what.
CopyTotal ==
  dirty.cnt.size + IF rst = "pCallInternal" THEN dirty.call.size ELSE 0
CopySource(i) ==
  IF i < dirty.cnt.size THEN MyCnt(i) ELSE MyCallee(i - dirty.cnt.size)

Copying == pc = "body" /\ rst \in {"pCntInternal", "pCallInternal"}

CopyToStack ==
  /\ Copying
  /\ copied < CopyTotal
  /\ stack' = [stack EXCEPT
                 ![dirty.stack.region][dirty.stack.offset + copied]
                   = CopySource(copied)]
  /\ copied' = copied + 1
  /\ UNCHANGED <<cntHolder, callHolder, slot, current, quit, dirty, next, pc,
                 faults>>

\* Both loops have ended: the stack covers what was copied, the holders are
\* emptied, and the function on top of the stack is popped.  pCntInternal
\* leaves the callee holder alone: pRetInternal relies on it.
CopyDone ==
  LET top   == Grow(dirty.stack, CopyTotal)
      popped == Three(Grow(top, -1), Emptied(dirty.cnt),
                      IF rst = "pCallInternal" THEN Emptied(dirty.call)
                                               ELSE dirty.call)
  IN /\ Copying
     /\ copied = CopyTotal
     /\ top.size > 0
     /\ Finish(Top(top), popped)
     /\ UNCHANGED <<persistent, copied, faults>>

\* pRetInternal pops the continuation of the caller and keeps it in the callee
\* holder.
ReturnPop ==
  /\ pc = "body"
  /\ rst = "pRetInternal"
  /\ callHolder' = PushedCallee(Top(dirty.stack))
  /\ dirty' = Three(Grow(dirty.stack, -1), dirty.cnt, Grow(dirty.call, 1))
  /\ pc' = "return"
  /\ UNCHANGED <<stack, cntHolder, slot, current, quit, next, copied, faults>>

ReturnPush ==
  /\ pc = "return"
  /\ cntHolder' = PushedCnt("pRetCntInternal")
  /\ Finish("pCntInternal",
            Three(dirty.stack, Grow(dirty.cnt, 1), dirty.call))
  /\ UNCHANGED <<stack, callHolder, slot, current, quit, copied, faults>>

\* Slip: the continuation passed is that of pRetInternal, itself.
ReturnContinueToItself ==
  /\ pc = "body"
  /\ rst = "pRetCntInternal"
  /\ cntHolder' = PushedCnt("pRetCntInternal")
  /\ Finish("pCntInternal",
            Three(dirty.stack, Grow(dirty.cnt, 1), Emptied(dirty.call)))
  /\ UNCHANGED <<stack, callHolder, slot, current, quit, copied, faults>>

\* pRetCntInternal passes control to the continuation kept in the callee
\* holder; the returned value is on the stack by now.
ReturnContinue ==
  /\ pc = "body"
  /\ rst = "pRetCntInternal"
  /\ cntHolder' = PushedCnt(MyCallee(0))
  /\ Finish("pCntInternal",
            Three(dirty.stack, Grow(dirty.cnt, 1), Emptied(dirty.call)))
  /\ UNCHANGED <<stack, callHolder, slot, current, quit, copied, faults>>

-----------------------------------------------------------------------------
\* The capsules of capsule.c

\* resetWhoAmI edits the installed capsule in place, then returns.
EditWho ==
  /\ pc = "body"
  /\ rst = "resetWhoAmI"
  /\ slot' = [slot EXCEPT ![current].who = Hard]
  /\ pc' = "reset"
  /\ UNCHANGED <<memory, current, quit, dirty, next, copied, faults>>

ResetReturn ==
  /\ pc = "reset"
  /\ Finish("pRetInternal", dirty)
  /\ UNCHANGED <<persistent, copied, faults>>

\* shutdown stops every process and returns itself.
Shutdown ==
  /\ pc = "body"
  /\ rst = "shutdown"
  /\ quit' = TRUE
  /\ Finish("shutdown", dirty)
  /\ UNCHANGED <<memory, slot, current, copied, faults>>

-----------------------------------------------------------------------------
\* The environment

\* A soft fault, as the comment on trampolineCapsule describes it (nothing in
\* the code raises one yet), or a hard one after which the capsule is run again
\* from currentlyInstalled.  The dirty pointers are stale or the initial ones.
Fault ==
  /\ pc # "exit"
  /\ faults < MaxFaults
  /\ faults' = faults + 1
  /\ dirty' \in {dirty, Start(Hard)}
  /\ pc' = "load"
  /\ UNCHANGED <<persistent, next, copied>>

\* Another process runs shutdown.  quit is read at the head of the loop only,
\* so it is enough to let it change there.
QuitElsewhere ==
  /\ pc = "load"
  /\ ~quit
  /\ quit' = TRUE
  /\ UNCHANGED <<memory, slot, current, dirty, next, copied, pc, faults>>

Client ==
  \/ PopArg
  \/ \E v \in Args : PushCntArg(v) \/ PushCalleeArg(v) \/ Pret(v)
  \/ \E f \in Funcs : Pcnt(f) \/ \E g \in Callees : Pcall(g, f)
  \/ Pcnt("shutdown")
  \/ PretVoid

Trampoline == Load \/ Exit \/ WriteFirst \/ WriteRest \/ Swing

StackCode == CopyToStack \/ CopyDone \/ ReturnPop \/ ReturnPush \/ ReturnContinue

CapsuleCode == EditWho \/ ResetReturn \/ Shutdown

Machine == Client \/ Trampoline \/ StackCode \/ CapsuleCode

Exited == pc = "exit" /\ UNCHANGED vars

Next == Machine \/ Fault \/ QuitElsewhere \/ Exited

-----------------------------------------------------------------------------
\* main.c: the first capsule of a process is written by hand, with the empty
\* stack and holders of its index.  A process that stole the thread of a dead
\* one runs it in the stack and the holders of that process (Owners).

First(r, f) == [rst |-> f, who |-> r, clean |-> Start(r)]

Init ==
  /\ stack = [r \in Regions |-> [i \in 0 .. StackSize - 1 |-> Junk]]
  /\ cntHolder = [r \in Regions |-> [i \in 0 .. HolderSize - 1 |-> Junk]]
  /\ callHolder = [r \in Regions |-> [i \in 0 .. HolderSize - 1 |-> Junk]]
  /\ \E r \in Owners, f \in Funcs :
       /\ slot = <<First(r, f), Torn>>
       /\ next = First(r, f)
       /\ dirty = Start(r)
  /\ current = 1
  /\ quit = FALSE
  /\ copied = 0
  /\ pc = "load"
  /\ faults = 0

Spec == Init /\ [][Next]_vars

\* A process that is alive keeps running; it faults finitely often.
FairSpec == Spec /\ WF_vars(Machine)

-----------------------------------------------------------------------------
\* Properties

\* Types of the variables: no pointer falls below the start of its region and
\* nothing is stored that is not an argument or code.
TypeOK ==
  /\ stack \in [Regions -> [0 .. StackSize - 1 -> Cells]]
  /\ cntHolder \in [Regions -> [0 .. HolderSize - 1 -> Cells]]
  /\ callHolder \in [Regions -> [0 .. HolderSize - 1 -> Cells]]
  /\ slot \in [1 .. 2 -> Capsules \union {Torn}]
  /\ current \in 1 .. 2
  /\ quit \in BOOLEAN
  /\ dirty \in Heads
  /\ next \in Capsules
  /\ copied \in Nat
  /\ pc \in {"load", "body", "return", "reset", "write", "written", "swing",
             "exit"}
  /\ faults \in 0 .. MaxFaults

\* The cells of a region that lie below a pointer.
Below(memoryOf, p) == [i \in 1 .. p.size |-> memoryOf[p.region][i - 1]]

SS == Below(stack, Installed.clean.stack)
CC == Below(cntHolder, Installed.clean.cnt)
KK == Below(callHolder, Installed.clean.call)

\* What the copying capsules leave on the stack, the function to jump to last.
Result == SS \o CC \o (IF rst = "pCallInternal" THEN KK ELSE <<>>)

\* Between pRetInternal and the end of pRetCntInternal the continuation of the
\* caller is in the callee holder.
Returning ==
  \/ rst = "pRetCntInternal"
  \/ rst = "pCntInternal" /\ Result # <<>> /\ Last(Result) = "pRetCntInternal"

\* Whoever runs or reruns the installed capsule finds what it needs: the
\* capsule was written to the end before it was installed, the holders it
\* reads by its soft whoAmI are those its clean pointers lead to, and the cell
\* it will jump through holds a function.  Nothing in the code checks this;
\* every capsule written since the last handover contributes to it.
InstalledIntact ==
  /\ Installed # Torn
  /\ rst \in Code
  /\ Installed.clean.cnt.region = Installed.who
  /\ Installed.clean.call.region = Installed.who
  /\ rst \in {"pCntInternal", "pCallInternal"} =>
       Result # <<>> /\ Last(Result) \in Code
  /\ rst = "pRetInternal" => SS # <<>> /\ Last(SS) \in Funcs
  /\ Returning => Len(KK) = 1 /\ KK[1] \in Funcs

\* A step leaves alone what the installed capsule may still read: the stack
\* below its clean head and the holders below their clean sizes.
KeepsLive ==
  LET c == Installed.clean IN
  /\ \A i \in 0 .. c.stack.size - 1 :
       stack'[c.stack.region][i] = stack[c.stack.region][i]
  /\ \A i \in 0 .. c.cnt.size - 1 :
       cntHolder'[c.cnt.region][i] = cntHolder[c.cnt.region][i]
  /\ \A i \in 0 .. c.call.size - 1 :
       callHolder'[c.call.region][i] = callHolder[c.call.region][i]

\* README, "write after read conflict": a capsule may be run again from its
\* start at any time, so no step of any capsule, of the trampoline or of a
\* fault writes a cell the installed capsule may still read.
LiveFrozen == [][KeepsLive]_vars

\* The capsules of pStack-internal.c always get back to a client (or the
\* system shuts down), however often they are interrupted.
HandoverCompletes == rst \in Internal ~> (rst \notin Internal \/ quit)

\* CallStack, read off the installed capsule alone: a client capsule and all
\* the internal ones after it are one step, taken when currentlyInstalled
\* swings, and a fault is no step at all.
AbstractFrames ==
  CASE rst = "pRetInternal" -> Front(SS) \o CC
    [] rst = "pRetCntInternal" -> SS
    [] rst \in {"pCntInternal", "pCallInternal"} -> Front(Result)
    [] OTHER -> SS

AbstractRun ==
  CASE Returning -> KK[1]
    [] rst = "pRetInternal" -> Last(SS)
    [] rst \in {"pCntInternal", "pCallInternal"} /\ ~Returning -> Last(Result)
    [] OTHER -> rst

Abstract ==
  INSTANCE CallStack WITH frames <- AbstractFrames, run <- AbstractRun,
                          who <- Installed.who

\* The capsules and the trampoline implement the calls and returns pStack.h
\* promises, whatever step a soft fault interrupts.
ImplementsCallStack == Abstract!Spec

-----------------------------------------------------------------------------
\* The inductive invariant.  A capsule is Sound when it can be run from its
\* start, now and after any fault, and what it hands over is sound again.  What
\* it needs depends on its function: the shape of the chain pcnt, pcall and
\* pret build.

Anchored(p, r) == p.region = r /\ p.offset = p.size

TopOf(memoryOf, p) == memoryOf[p.region][p.size - 1]

ClientReady(c) ==
  /\ c.rst \in Funcs \union {"shutdown"}
  /\ c.clean.cnt.size = 0
  /\ c.clean.call.size = 0
  /\ c.clean.stack.size <= StackSize

ResetReady(c) ==
  /\ c.rst = "resetWhoAmI"
  /\ "resetWhoAmI" \in Callees
  /\ c.clean.cnt.size = 0
  /\ c.clean.call.size = 0
  /\ c.clean.stack.size \in 1 .. StackSize
  /\ TopOf(stack, c.clean.stack) \in Funcs

CntReady(c) ==
  /\ c.rst = "pCntInternal"
  /\ c.clean.cnt.size \in 1 .. HolderSize
  /\ c.clean.stack.size + c.clean.cnt.size <= StackSize
  /\ \/ /\ c.clean.call.size = 0
        /\ TopOf(cntHolder, c.clean.cnt) \in Funcs \union {"shutdown"}
     \/ /\ c.clean.call.size = 1
        /\ TopOf(cntHolder, c.clean.cnt) = "pRetCntInternal"
        /\ TopOf(callHolder, c.clean.call) \in Funcs

CallReady(c) ==
  /\ c.rst = "pCallInternal"
  /\ c.clean.cnt.size \in 1 .. HolderSize
  /\ c.clean.call.size \in 1 .. HolderSize
  /\ c.clean.stack.size + c.clean.cnt.size + c.clean.call.size <= StackSize
  /\ TopOf(cntHolder, c.clean.cnt) \in Funcs
  /\ \/ TopOf(callHolder, c.clean.call) \in Funcs
     \/ /\ TopOf(callHolder, c.clean.call) = "resetWhoAmI"
        /\ "resetWhoAmI" \in Callees
        /\ c.clean.call.size = 1

RetReady(c) ==
  /\ c.rst = "pRetInternal"
  /\ c.clean.cnt.size \in 0 .. 1
  /\ c.clean.call.size = 0
  /\ c.clean.stack.size >= 1
  /\ c.clean.stack.size + c.clean.cnt.size <= StackSize
  /\ TopOf(stack, c.clean.stack) \in Funcs

RetCntReady(c) ==
  /\ c.rst = "pRetCntInternal"
  /\ c.clean.cnt.size = 0
  /\ c.clean.call.size = 1
  /\ c.clean.stack.size + 1 <= StackSize
  /\ TopOf(callHolder, c.clean.call) \in Funcs

Ready(c) ==
  \/ ClientReady(c) \/ ResetReady(c) \/ CntReady(c)
  \/ CallReady(c) \/ RetReady(c) \/ RetCntReady(c)

Placed(c) ==
  /\ c \in Capsules
  /\ c.who \in Owners
  /\ Anchored(c.clean.stack, c.who)
  /\ Anchored(c.clean.cnt, c.who)
  /\ Anchored(c.clean.call, c.who)

Sound(c) == Placed(c) /\ Ready(c)

\* The dirty pointers of a client: above the clean holders, at or below the
\* clean head of the stack.
ClientWorking ==
  InClient =>
    /\ Anchored(dirty.stack, Installed.who)
    /\ Anchored(dirty.cnt, Installed.who)
    /\ Anchored(dirty.call, Installed.who)
    /\ dirty.stack.size <= Installed.clean.stack.size

InternalWorking == pc = "body" /\ rst \notin Funcs => dirty = Installed.clean

CopyWorking ==
  Copying =>
    /\ copied <= CopyTotal
    /\ \A i \in 0 .. copied - 1 :
         stack[Installed.who][dirty.stack.size + i] = CopySource(i)

ReturnWorking ==
  pc = "return" =>
    /\ rst = "pRetInternal"
    /\ dirty = Three(Grow(Installed.clean.stack, -1), Installed.clean.cnt,
                      Grow(Installed.clean.call, 1))
    /\ callHolder[Installed.who][0] \in Funcs

ResetWorking == pc = "reset" => rst = "resetWhoAmI" /\ dirty = Installed.clean

HandoverWorking ==
  /\ pc \in {"write", "written", "swing"} => Sound(next)
  /\ pc = "swing" => slot[Other(current)] = next

IInv ==
  /\ TypeOK
  /\ Sound(Installed)
  /\ ClientWorking
  /\ InternalWorking
  /\ CopyWorking
  /\ ReturnWorking
  /\ ResetWorking
  /\ HandoverWorking
=============================================================================
