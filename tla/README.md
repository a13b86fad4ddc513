# PPMM in TLA+

PPMM is a library for fault tolerant fork-join programs in C. A program is a
chain of *capsules*, small functions that can be run again from their start at
any time, on a stack in persistent memory. Processes share that memory, steal
work from each other, and take over the threads of processes that died. This
directory holds TLA+ models of it, runs of TLC on small instances, and proofs
for TLAPS.

A *soft fault* restarts the capsule a process is in. A *hard fault* kills the
process; another one adopts its thread ("grave robbing") and restarts its
capsule. The library promises that neither can be seen by the program. That
promise is what most of the properties here spell out.

## The system

| Component | State | Operations | Code |
|---|---|---|---|
| Capsule machine | two capsules per process and the pointer to the installed one; dirty pointers (ephemeral); `trampolineQuit` | `trampolineCapsule`, `makeCapsule`, `resetWhoAmI`, `shutdown` | `capsule.c` |
| Persistent stack | per process a stack, a continuation holder and a callee holder | `pPushCntArg`, `pPushCalleeArg`, `pPopArg`, `pcnt`, `pcall`, `pret`, `pretvoid`; capsules `pCntInternal`, `pCallInternal`, `pRetInternal`, `pRetCntInternal`, `pStackReset` | `pStack.h`, `pStack-internal.c` |
| Program start | the first installed capsule | `main` with `-s`, `-t` or neither | `main.c` |
| Sets (join) | pool of sets; per set a tag of owner, counter and last editor, and the continuation | `getAndInitSet`, `loopGetSet`, `aquireSet`, `gotSet`, `join`, `checkOut`, `cleanup`, `cleanupCnt` | `set.c`, `flow.h` |
| Dynamic memory | table of blocks, linked; per entry owner, `isGrabbed`, `isInUse` | `PMalloc`, `PMfree`, `tryGrab`, `release`, `merge`, `findFreeEntry`, `makeLeftovers` and their continuations | `memUtilities.c` |
| Scheduler | per process a deque of jobs with a tag each; `top` and `bot` | `ppmmfork`, `pushBottom`, `popBottom`, `singleJobPush`, `scheduler`, `stealLoop`, `steal`, `helpThief`, `graveRob` and their continuations | `scheduler.c`, `scheduler-convience.c` |
| Process table | map from index to process id | `getIdx`, `hardWhoAmI`, `checkPid`, `isLive` | `procMap.c` |
| Layout | the segment and where each region starts | `setup`, `firstTimeInit`, `everybodyInit`, `pmemPartition` | `setup.c` |
| Assertions | - | `rassert` | `assertion.h` |
| Test program | - | a chain of calls and returns | `tests.c` |

How they interact: every other component is written as capsules, so everything
runs on the capsule machine and hands its arguments and results over on the
persistent stack. `fork` takes a set and makes two branches; the branches end in
`join`, which checks out of the set, and the last one to arrive pushes the
continuation as a new job. The scheduler starts the thread of a job by
`pStackReset`. A capsule carries the *soft* identity and the pointers of the
process that made it, and `pStackReset` returns the capsule of a job as it is:
a thread that was taken from another process runs under that one's identity
and on its stack and holders, until it ends and calls `resetWhoAmI`. Processes talk through
shared memory alone, by compare-and-modify instructions (CAM) that do not tell
whether they succeeded: code reads back what it tried to write.

What is hard: a fault between any two writes, in a capsule, in the trampoline
or between two CAMs; capsules that read what they also write; the identity of a
thread that moves between processes; CAMs whose outcome must be read back after
another process may have acted; values that cross capsules as untyped bytes, so
that a swapped push is only seen as a jump through data. `PROJECT.json` lists
these hazards at the lines where they bite.

What makes each component correct:

- machine and stack: a capsule runs once as far as the program can tell, finds
  its arguments, and control goes where `pcnt`, `pcall` or `pret` sent it;
- start: the first capsule runs what it was written for;
- sets: the continuation of a fork runs once, after both branches;
- memory: a block belongs to one owner, none is lost, no entry stays grabbed;
- scheduler: every job is run, by one process; what a live process has begun is
  left alone, and a theft that was begun is finished though the thief dies;
- process table: two live processes never have the same index;
- layout: regions are disjoint and large enough.

## Modules

Each abstract specification stands beside the one that implements it.

| Module | Models |
|---|---|
| `CallStack` | what the stack promises: a capsule is one atomic step that pops arguments and continues, calls or returns. No faults, no holders. |
| `CapsuleMachine` | one process: trampoline, stack code, a nondeterministic client, faults. Refines `CallStack`. |
| `ProcessStart` | `CapsuleMachine` started as `main -s` starts it. |
| `JobHandover` | `CapsuleMachine` with `pStackReset` and a scheduler that uses it. |
| `Join` | what a join promises: both branches arrive, then one continues. |
| `JoinSet` | two branches that check out of their set, restarted at any point. Refines `Join`. |
| `WordStack` | the stack as a capsule sees it, in words of four bytes: what is pushed as eight bytes can be popped as four. Shared by the two modules below. |
| `SetAcquire` | one fork that gets a set of the pool. |
| `MemTable` | processes that allocate and free. |
| `WorkDeque` | what a deque promises: jobs are put below all others, leave once, to the owner from below or to a thief; only the dead are robbed. |
| `Stealing` | the deque of one process, its owner and its thieves, with every read and CAM a step. Refines `WorkDeque`. |
| `ProcessTable` | processes that start, take over an index of the table, and die. |
| `Layout` | the regions of the segment as `pmemPartition` carves them, and the share of each process. |
| `CapsuleMachineProofs`, `CallStackProofs`, `JoinSetProofs`, `ProcessTableProofs`, `LayoutProofs`, `StealingProofs`, `MemTableProofs` | theorems. |
| `MC...` | the small instances. |

A definition called *Slip* in a comment is a wrong variant of the definition
after it, and no specification uses it. It is there to show that a property
fails when the code is wrong in that way.

### CapsuleMachine

`stack`, `cntHolder` and `callHolder` are the three regions of every process, an
argument or a function per cell. `slot` is the pair of capsules
(`installedSwap`), `current` says which is installed, `dirty` holds the three
dirty pointers. A pointer is a region, an offset in it and the size
(`PMem` of `typesAndDecs.h`). `pc` and `copied` say where execution is within
the trampoline or a capsule; they and `dirty` and `next` do not survive a fault.

A step is one write to persistent memory. The trampoline is `Load`, `WriteFirst`
and `WriteRest` (the capsule that is not installed is `Torn` between them) and
`Swing` (the store that installs it). `Finish` is the return of a capsule body
with `makeCapsule`. `Fault` goes back to `Load` from anywhere. The comment above
`trampolineCapsule` says what it is: whenever a fault happens, the process "on
restart ... will read from currentlyInstalled, and start in the installed
capsule". The repository's README adds that soft faults "are currently not
implemented", so `Fault` is the contract the stack is written for, and it also
stands for an installed capsule that is run again after its process died.

The client is any program that obeys what the code requires of it without
checking it: it pops arguments only, it stays within the sizes of `setup.c`, it
pushes callee arguments only for a call, and it returns with its arguments
popped. `Owners` says whose thread the process runs: its own, or that of a dead
process.

`makeCapsule` copies `joinLoc`, `forkSide` and `expectedOwner` from capsule to
capsule; nothing in the stack code reads them and they are left out here.

`AbstractFrames` and `AbstractRun` read the state of `CallStack` off the
installed capsule alone. So a client capsule and all internal capsules after it
are one step of `CallStack`, taken by one `Swing`; and a fault, or a restarted
copy, must be no step.

### JoinSet

`tag` is the eight bytes `tagAndData` of the set, `current[s]` the copy
`checkOut` of branch `s` decides by, `capsule[s]` the installed capsule of its
thread. Reading the tag, each CAM and the write of `cleanupCnt` are separate
steps. The tag is read in one load of eight bytes, so the copy is consistent;
its padding bytes are written with the rest and left out. (No tag of a set
crosses a cache line with the sizes of `typesAndDecs.h`, so the load is
indivisible.)

The set starts as `aquireSet` would leave it for a fork, for whichever owner it
popped. As the run `fork_needs_set` shows no fork gets that far at present;
`JoinSet` says what the join itself does once one does.

The owner in the tag and the owner the branches expect are chosen
independently, since no code makes them the same. `aquireSet` writes what it
popped as the new owner (`set.c:68-73`), and `ppmmfork` pushes only the job
before `getAndInitSet` (`scheduler.c:218-219`); `expected` is the `expectedOwner`
that the capsules of both branches inherit from that of `forkCnt`
(`capsule.c:18`), which sets `forkSide` and `joinLoc` only
(`scheduler.c:252-260`). When they differ both branches take `set.c:186-191`,
"someone else has moved in", and go to the scheduler, and nobody runs the
continuation: `ContinuationIffOwned` says that it is kept by one branch when
the owners agree, and lost when they do not. `ImplementsJoin`, at most one
continuation and only after both, holds either way.

Only one use of the set is modelled: the
reuse of a set while its last branch is still in `checkOut` is a hazard listed
without a property.

### SetAcquire and MemTable

Both run each process on a stack of words. `Code` lists the functions whose
addresses are pushed; a pointer is two words, its high half (`High`, the same
for all code of a program) on top. A return or a call through two words that are
no pointer leaves the process in `"lost"`; in the program it is a jump to some
address. Memory under the bottom of a stack reads as zero, which is what the
segment holds before anything is written. `SetAcquire` treats a capsule as one
step since one process runs; `MemTable` separates every read and write of the
table.

`MemTable` has the table as `firstTimeInit` makes it, with one block. It stays
that way: a split pushes its leftover size for `findFreeEntry`, which takes no
argument, and returns through it, so `makeLeftovers` is not reached and the
capsules that merge two blocks have nothing to merge. This is the build without
`DO_ASSERT`; with it the first `tryGrab` aborts. The two reads of the tag within
`tryGrab` are one, since no decision is taken between them. Indices of processes
are assumed distinct.

### Stealing

`deque` holds the entries of one process, the tag (id and counter) and the
target of each; `bot` and `top` are its bottom and top, `live` says that it is
alive. `owner` and `thief[p]` hold what the capsule they are in has copied;
`local[p]` is the tag of the entry of thief `p` that its thefts are recorded
in. `taken` and `won` are histories: whose CAM of the tag succeeded, and who
found so when it compared.

A step reads or writes memory that others use once; an index and the entry at
it are two reads, and `deque[i] = makeLocal(deque[i])` is a read and a write,
between which others may act. `CAMJob` is three steps: a CAM of the target, a
look at it, a CAM of the tag. None of them returns whether it worked; the code
compares afterwards, and so does the model. `pushBottom`, `popBottom`,
`singleJobPush` and `steal` copy first and decide a capsule later, and so are
two groups of steps. `helpThief` is four steps that `steal`, `stealCnt` and
`graveRob` go through and return from. The counters are those of the code, bytes
that wrap.

Three things are coarser. The tag and the target of an entry, 16 bytes, are read
or written by one step when a whole `Job` is assigned; the compiler may do it in
several moves. `bot` is read by its owner alone, so it is read and written along
with a neighbouring step. And a comparison with an entry (`CompareJob` and the
`if` of `CAMJob`) goes with its one read of the entry.

| Code | Steps |
|---|---|
| `pushBottom`, `pushBCnt` | `Fork` (the end of `forkCnt`), `PushBottom`, `PushStart` or `PushAgain`, `ReadBelow`, `PushBelow`, `PushTarget`, `PushLook`, `PushTag` |
| `scheduler`, `sCnt` | `Scheduler`, `SCnt`; `ThiefScheduler`, `ThiefSCnt` for a thief |
| `popBottom`, `popBCnt` | `PopFirst`, `PopBottom`, `PopNothing`, `PopLook`, `PopTag`, `PopDone`, `PopFailed` |
| `singleJobPush`, `sjpCnt` | `SingleJobPush`, `SjpCounter`, `SjpTarget`, `SjpLook`, `SjpTag` |
| `stealLoop`, `steal` | `StealLoop`, `StealPlace`, `StealTop`; `Obtain`, `HelpElsewhere` when the owner does it |
| `stealCnt` | `StealNothing`, `StealTaken`, `StealScheduled`, `StealLocal` (with the copy `steal` ends with), `StackChanged` or `StackSame`, `NotOrphaned` or `FoundOrphan`, `TakeTarget`, `TakeLook`, `TakeTag`, `Lost`, `Win` |
| `graveRob` | `GraveRob`, `ClearBelow`, then the same as `stealCnt` from `TakeTarget` on |
| `helpThief` | `HelpTop`, `HelpLook` or `HelpNobody`, `HelpRead`, `HelpMark` |

What is as in the code and surprises:

- A thief that has won in `stealCnt` does not get to the job. `pcnt` is two
  statements and the `if` at `scheduler.c:375` has no braces, so the winner
  returns to `pCntInternal` with nothing pushed and jumps through what lies
  under its stack. `Win` leaves it in `"lost"`. `graveRob` has the braces, and
  its winner runs the thread.
- `helpThief` advances the `top` of the process that runs it, not that of the
  victim. So `top` of the deque moves only when its owner helps somebody
  elsewhere (`HelpElsewhere`), and thieves of one job may be at different
  entries. `WinnersTook` and `TakersLocal` are about what happens while it is 0.
- What `pushBCnt` wants published may be lost: `CAMJob` finds another target
  and returns (`PushLook`), and the right branch runs all the same. A thief that
  comes back with an old copy of the entry brings this about. `WorkDeque`
  allows it, since a push is a step the owner takes when its CAM of the tag
  succeeds; that every fork publishes its left branch does not hold.
- The entry a thief's loop hands to `steal` is its own only when its bottom is 0
  (`scheduler.c:304`). An owner with another bottom gets work but no local
  entry (`Obtain`), and its next fork goes round in `pushBCnt` (`PushAgain`).

What is assumed:

- `bot`, `top`, `localDeque` and the victim are those the comments name
  (`scheduler.c:22-29`, `scheduler.h:91-95`). The macros compute other addresses
  for all but the first process, `stealLoop` pushes the function `getVictim`
  instead of its result, and the pointers to the deques are never stored
  (`setup.c:351`); with those there is no shared deque to speak of.
- Each thief has its bottom at 0: it has no jobs of its own, and only the entry
  its thefts go to is modelled. What lies at `bot - 1` when `bot` is 0 is no
  scheduled job. A process that works in its own deque and is a thief elsewhere
  is the owner, in `Obtain` and `HelpElsewhere`.
- `work`, `args` and `argSize` are left out, so `CompareJob` of entries that are
  not taken is about their tags. The target of a job nobody has set is any of
  `JunkTargets`.
- A dead process stays dead (no one takes over its index), and nobody restarts a
  capsule: soft faults are not implemented, and a capsule that is run again
  after a death is run as a job of its own.

### ProcessTable

`map[i]` is the pid stored for index `i`. A process is unborn, looking for an
index (in `getIdx`), running, or dead; it may die at any point. Reading an entry,
asking `/proc` about it, the CAM and reading back are steps of their own, and
the pid copied in the first is used in all that follow. A pid is used once; the
table starts with 1 in the first entry and 0 in the others, since `setup.c:311`
stores to `map[0]` in every round.

This is the body of `getIdx` below the two lines marked "debugging only"
(`procMap.c:156-157`), which overwrite entry 0 and return; with them everybody
has index 0 and nothing of what follows holds. `CheckPid` is the answer the
comment of `checkPid` describes: there is a process with that pid and the same
command line. How `fillCmdline` finds the end of the line is left out.

### Layout

`conf` holds the sizes of `typesAndDecs.h`, which that file says "might become a
runtime setup constant later". `Carve` is one `cursor.offset += cursor.size`.
`From(a, p)` and `To(a, p)` bound what process `p` has of an area `a`: its
pointer to the installed capsule, its pair of capsules, its two holders, its
stack and its entry in `mapping`. The sizes of structures are those gcc gives
them on x86-64. That these areas are disjoint is what the other modules take for
granted when they keep them in variables of their own. The deques are no area of
a process here: the pointers to them are never filled.

Neither are `top` and `bot`, which do overlap. `tops` and `bots` are carved for
ints, and `getTop` finds those of a victim 4 bytes apart; but a process finds
its own with the macros of `scheduler.c:13-14`, which step by `PMem`, 8 bytes.
With four processes the `top` of process 2 is the `bot` of process 0, and the
`bot` of process 2 the start of the continuation holder of process 0.

## Runs

| Run | Question | Result |
|---|---|---|
| `own_thread` | With faults anywhere, do calls and returns happen once and in one step? Is what a capsule reads never written? Do the internal capsules get back to the client? | holds |
| `stolen_thread` | The same for a thread of a dead process, on its stack and holders. | holds, while the thread does not call `resetWhoAmI` |
| `starting_process` | Does `main -s` run `singleJobPush`? | fails: `main.c:122` makes the capsule before its arguments |
| `handover` | Does `pStackReset` start the job? | fails: `pStack-internal.c:215` copies what lies above the arguments |
| `two_branches` | Does exactly one branch run the continuation, after both, whatever is restarted? | holds if the set was acquired for the owner the branches expect; if not, both leave and the continuation is lost |
| `fork_needs_set` | Does acquiring a set return to its caller? | fails: `set.c:66`, swapped pops |
| `two_allocators` | Does every grab end, and is the block free when nobody uses it? | holds |
| `double_allocation` | Is the block given to one process at a time? | fails: `memUtilities.c:303` |
| `process_table` | Does every process that runs have an index of its own, keep it while it lives, and get one when one is free? | holds, with one command line and without the debugging lines |
| `stealing` | Does every job leave the deque once, is only a dead process robbed, does who took a job have an entry for it, and is a theft that was begun finished? | holds, up to equal counters of two thieves |
| `taken_twice` | Can two thieves find that they have the same job? | yes: `scheduler-convience.c:107`, target and tag are written apart |
| `regions` | Do the shares of the processes stay apart, and does the segment hold all of them? | holds from three processes on |

Runs that fail document a disagreement of the code with its own comments; the
findings in `PROJECT.json` quote them.

### Bounds

- `own_thread`: one function, one argument, a stack of 3 cells, holders of 2,
  two faults. Three cells are enough for an argument under a continuation under
  an argument, two for an argument and the function above it, so every capsule
  copies zero, one and several cells. With two faults a capsule is restarted and
  its restart interrupted, or two capsules in a row are. One function suffices
  since the code never compares functions; the second kind of callee is
  `resetWhoAmI`.
- `stolen_thread`: two regions, two functions, one fault.
- `two_branches`: four restarts, two for each branch; two owners, so that the
  one of the set and the one the branches expect agree or not. The proof has no
  bound.
- `two_allocators`: two processes, requests of 3 and 4 units from a block of 4,
  so that one needs a split and one does not; one fault; a table of 4 entries.
  A failed grab leaves the size lost, which makes later sizes wrong in every
  way two words on the stack allow.
- `process_table`: four processes for two indices, so that two wait, an index is
  taken over twice, and the one found dead is dead, taken or taken and dead
  again when the CAM comes. All are started with the same command line. With two
  command lines the properties fail: processes take each other for dead, which
  `procMap.c:88-90` accepts.
- `stealing`: two thieves, a deque of three entries, so that the owner forks
  twice, and the entry of its job, a waiting one and a free one exist at once;
  `top` may move once; one process dies, the owner or a thief in the middle of
  its theft; one thread of the owner ends, one continuation is pushed or one
  robber clears an entry (`MaxUses`). The counters of the thieves start equal
  or different, since that is what tells their thefts apart. Two uses, and
  targets that are not blank (`JunkTargets`), are out of TLC's reach within
  minutes; the proofs are for all.
- `taken_twice`: the same with equal counters and nobody dying. In a robbery it
  happens as well, and there both thieves run the thread.
- `regions`: the real sizes, and three to eight processes, longer deques and
  longer arguments. `TOTAL_PMEM_SIZE` leaves out the set pool and part of each table
  entry; what it allows too much for jobs makes up for that with three processes,
  not with one or two.
- `MaxFaults` and `MaxRestarts` are the only bounds on behaviours, guards of the
  fault actions alone.

### Fairness

`own_thread` assumes `WF_vars(Machine)`: a process that is alive takes its next
step. `two_branches` assumes it of each branch, `two_allocators` of each process
while it is inside the allocator (user code need not call it), `process_table`
of each process in `getIdx`, `stealing` of each thief between two threads that it
runs (`Thieving`; a thread need not end): the operating system schedules it. Faults happen
finitely often, by their bound; the code has no way to make progress otherwise.
In `stealing` processes die for good: a dead thief takes no step, and
`TheftsFinished` says that its theft is finished by the others, unless from some
point on all thieves are dead, lost or in a thread that does not end.

## Proofs

All for every value of the constants that meets their assumptions: any number of
regions, functions and arguments, any size of stack and holders, any number of
faults or restarts.

- `CapsuleMachineProofs!TypeCorrect`, `NoWriteAfterRead` (`LiveFrozen`) and
  `AlwaysIntact` (`InstalledIntact`), from `Invariance == Spec => []IInv` under
  the assumption `OwnIdentity`: if the client calls `resetWhoAmI`, the process
  runs its own thread. Without it a thread that was started for another process
  changes its identity in `resetWhoAmI` (`capsule.c:64`) and keeps the pointers
  of the other, so that it pushes to one pair of holders and copies from
  another. The code does not get there, since `pStackReset` starts no job at
  present (run `handover`).

  None of the three is inductive. Whether the cell `pCntInternal` jumps through
  holds a function depends on who pushed it, one to three capsules earlier, and
  on nobody having written there since. `IInv` says it as `Sound(c)`: for each
  function a capsule may have, what its holders and the top of its stack must
  look like (`CntReady`, `RetReady`, ...). It holds of the installed capsule at
  all times and of `next` from the moment a body has returned until it is
  installed. `ClientWorking`, `CopyWorking`, `ReturnWorking` and `ResetWorking`
  say how far the ephemeral state has got. The lemma behind every case is
  `StaysSound`: a step that keeps the live cells of a sound capsule leaves it
  sound; so a fault loses nothing.
- `CallStackProofs!Refinement` (`ImplementsCallStack`), from
  `HandoverInvariance == Spec => []RInv`, under the same assumption;
  `IInv` is a part of it.

  The frames and the function of `CallStack` are read off the installed capsule,
  so only `Swing`, which installs another, changes them; all other steps, faults
  included, write no cell the installed capsule may still read and leave them
  alone (`Unread`). What `Swing` installs was made by a body several steps before,
  so `RInv` follows it from there: once a body has returned `next`, the frames
  read off `next` are one continuation, call or return of `CallStack` away from
  those of the installed capsule, or the same (`HandedOver`). For a capsule of
  the client this needs that all it popped and pushed were arguments
  (`ClientUses`). The four internal capsules are no steps of `CallStack`: they
  move frames from the holders to the stack. `Copy` leaves there what the
  holders held when the capsule started (`ResultIs`, `CopyDoneHands`), and
  `pRetInternal` finds the continuation on top of the clean stack and keeps it in
  the callee holder while its place on the stack is written over (`ReturnKeeps`).
- `JoinSetProofs!TypeCorrect` (the tag and its copies are among the six values
  of `SetTags` for one owner), `KeptIffOwned` (`ContinuationIffOwned`) and
  `JoinRefinement` (`ImplementsJoin`), from `JoinInvariance == Spec => []JInv`,
  for any owners. The clause that matters is `CopyTells`: what a stale copy of
  the tag still says about the tag now. `LeftForOther` says why a branch may go:
  it was first, or the other one has claimed the work, or the set is not theirs;
  and a set that is not theirs nobody edits (`OnlyTheirs`).
- `StealingProofs`: `TypeCorrect`, `Robbed` (`OnlyDeadRobbed`) and `Refinement`
  (`ImplementsWorkDeque`) from `DequeInvariant == Spec => []DequeInv`;
  `WinnersTaken` (`WinnersTook`) and `TakersMarked` (`TakersLocal`) from
  `Invariant == Spec => []SInv`. For any number of thieves, entries, deaths and
  uses, and any counters.

  `DequeInv` says what old copies are still worth. The owner's copy of an entry
  it is changing still has the tag of the entry, or a thief has taken the entry
  (`OwnerPlace`); no job waits at the bottom or below it (`NoneBelow`), so what
  the owner overwrites is no job; a thief that is on its way to a local entry
  has seen the owner dead, and the dead stay dead (`ThiefCopy`). What a push or
  a robber writes below an entry, from a read some steps before, is no job
  either and overwrites none. A CAM from a
  stale copy then fails or is harmless, and each step maps to one of
  `WorkDeque`: `PushTag` to `PushBottom`, `PopTag` to `PopBottom` (the owner has
  its job from that CAM on, before it compares), `TakeTag` to `PopTop` or `Rob`,
  `ClearBelow` to `Clear`, all others to a change of the owner's state or to
  nothing. `SInv` adds what holds while `top` is 0: an entry that was taken
  stays taken (`StaysTaken`), since the bottom of a live owner is below it or its
  own steps no longer match the tag; the local entry of a thief is as it found
  it or marked (`LocalEntry`); and a thief that took an entry marks its own
  before it compares (`HelpsItself`), whoever has changed targets meanwhile.
- `ProcessTableProofs!IndexIsExclusive` (`IndexIsHard`) and `OnlyFromDead`
  (`TakenFromDead`), from `TableInvariance`, under the assumption `SameCommand`
  (one command line). The argument: a process that looks is in the table at most
  at the index it looks at, and only after its CAM; who was found dead stays
  dead, so a CAM that succeeds however late replaces a dead process.
- `LayoutProofs!ProcessesApart` (`AreasDisjoint`), from `LayoutInvariance`, for
  all sizes and any number of processes: regions follow each other, and areas of
  one region are different slots of the same width. It says nothing of `top` and
  `bot`, which are no areas because the macros of their owner leave their slots.
- `LayoutProofs!SegmentFits` (`FitsSegment`), from three processes on, for deques and
  arguments at least as large, and sets and entries at most as many, as in
  `typesAndDecs.h` (`AsConfigured`), whatever the sizes of holders, stacks and
  pool. It does not hold of all numbers: two processes with the sizes of
  `typesAndDecs.h` need more than `TOTAL_PMEM_SIZE`. Each region starts where the one
  before ends (`Contiguous`), so that the end of the last is the sum of all
  (`CursorIs`); `TOTAL_PMEM_SIZE` counts every argument of a job twice and so
  pays for the rest of the jobs, the small regions and the sets, which it leaves
  out (`JobsPay`).

- `MemTableProofs`: `TypeCorrect`, `GrabsHaveHolders` (`GrabHasHolder`),
  `NoLeaks` (`NothingLeaks`), `IndicesInTable` and `NeverSplit`, from
  `MemInvariance == Spec => []MInv`. For any number of processes, requests,
  entries and faults.

  The capsules of the allocator hand their arguments on as words of an untyped
  stack, so `MInv` starts with what those words are (`StackFits`): for each
  capsule its arguments, the pointer it will return through, and what lies under
  it, down to the zeros at the bottom. A failed grab leaves the size lost, and
  the frame of an allocation then lacks a word; `Frame(t, n, m)` says that it
  lacks `m` or more. That is as exact as it can be, and enough: an index is
  pushed again before every use, and a word that is popped too many reads zero. A
  search returns through the leftover size and the high half of the pointer under
  it (`Split`), which is the address of no function, and so ends in `"lost"`:
  `NeverSplit`, the reason why merging is left out.

  Of the table it says who may have which entry: the one of the list from
  `tryGrab` up to `release` (`ListHeld`), another one while looking for a free
  entry or lost after that (`OthersHeld`); who has the block, in a capsule or in user code
  (`InUseHeld`). That a search stays in the table (`SearchBound`) needs that no
  process owns two entries off the list (`OneEach`) and that an entry it failed to
  grab is another's (`SearchCopies`); then the entries it has passed have
  different owners, and there are more entries than processes (lemma
  `OneMore`).

  Assumed: the high half of a pointer, bits 32 to 46 of an address, is the low
  half of no function (`CodeAssumption`); sizes are integers
  (`SizesAssumption`); there are fewer processes than entries
  (`TableAssumption`; `NUM_PROC` is 4 and `MEMORY_TABLE_SIZE` 2048); and `Code` lists
  the functions of the allocator (`FunctionsAssumption`).

Only model-checked: liveness (`HandoverCompletes`, `JoinCompletes`, `GrabEnds`,
`LookingEnds`, `TheftsFinished`), which the proof system does not handle with
fairness. All other properties of the passing runs are theorems.

## Not modelled

- The scheduler as a whole. `Stealing` has one deque; what jobs are, how
  `ppmmfork` and `forkCnt` pack them and how their threads are started is left
  out there (`JobHandover` has the last). What becomes of the thread of a dead
  process whose index is taken over (`setup.c:399` replaces its installed
  capsule) is in no module. `findWork` of the comments is split over
  `popBottom` and `stealLoop`.
- Builds with assertions. `rassert` aborts when its expression is true, and its
  callers pass what must hold; with `DO_ASSERT`, which `assertion.h` defines, a
  process ends at the first one it reaches. The modules are the build without.
- Overrunning a holder or the stack: nothing checks for it and the client of the
  model does not do it.
- Loss of writes on a machine crash: the segment is shared memory, and nothing
  in the code flushes it in order.
- Splitting and merging of blocks, and reuse of sets: present code does not
  reach them (see the findings).
- Parsing of arguments, system calls, `/proc`, logging. `pCntCap` has no user.

## What is left

In this order:

1. Composition: `Stealing` with `ProcessTable`, which decides who is dead and
   lets a new process take the index, and with several deques, whose processes
   are owners here and thieves there.
2. `BlockList`: splitting and merging from lists of several blocks, refining a
   partition of the pool; `SetReuse`: a set between two forks. Both start from
   states that the present code does not reach.
