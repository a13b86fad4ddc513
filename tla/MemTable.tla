------------------------------- MODULE MemTable -------------------------------
(***************************************************************************)
(* Dynamic persistent memory (memUtilities.c): processes that allocate and *)
(* free concurrently, each capsule one read or write of the table at a     *)
(* time, restarted by soft faults.                                         *)
(*                                                                         *)
(* firstTimeInit makes a table with one block in its list, entry 0, of     *)
(* Pool bytes.  The list stays like that: a split grabs an unused entry    *)
(* (findFreeEntry) and then returns through the leftover size pushed for a *)
(* function that takes no argument, so makeLeftovers never runs and the    *)
(* merging of two blocks, which needs two, is out of reach.                *)
(*                                                                         *)
(* This is the build without DO_ASSERT: with it tryGrab, freeLoop and      *)
(* ffeLoop abort on every index that is within the table (see SetAcquire). *)
(***************************************************************************)
EXTENDS WordStack, FiniteSets

CONSTANTS
  Procs,      \* process indices: 0 and more
  Sizes,      \* what the clients ask for
  Pool,       \* DYNAMIC_POOL_SIZE
  TableSize,  \* MEMORY_TABLE_SIZE
  MaxFaults   \* bound: how many faults happen

VARIABLES
  tag,        \* tag[i]: owner and isGrabbed of entry i
  inUse,      \* inUse[i]: isInUse of entry i
  thread,     \* thread[p]: installed capsule and stack of p
  at,         \* at[p]: how far the capsule of p has got
  old,        \* old[p]: what tryGrab of p read
  holds,      \* processes whose user code has a block
  faults

vars == <<tag, inUse, thread, at, old, holds, faults>>

ASSUME ProcsAssumption == Procs \subseteq Nat /\ 0 \in Procs /\ MaxFaults \in Nat

ASSUME SizesAssumption == Sizes \subseteq Int /\ Pool \in Int

\* typesAndDecs.h: 2048 entries for 4 processes.
ASSUME TableAssumption ==
  IsFiniteSet(Procs) /\ TableSize \in Nat /\ Cardinality(Procs) < TableSize

\* The functions that are installed, or returned to, have addresses.
ASSUME FunctionsAssumption ==
  {"client", "gotBlock", "PMalloc", "allocatingLoop", "allocatingPostGrab",
   "merge", "mLoop", "retPMem", "findFreeEntry", "ffeLoop", "ffePostGrab",
   "makeLeftovers", "tryGrab", "release", "PMfree", "freeLoop",
   "freePostLoop"} \subseteq Functions

Entries == 0 .. TableSize - 1
Tags    == [owner : Procs, grabbed : BOOLEAN]

\* The table as firstTimeInit leaves it.
InList(i) == i = 0
Size(i)   == IF i = 0 THEN Pool ELSE 0
Next0     == 0
Block     == <<0, Pool>>

Yes == 1
No  == 0

\* User code: it has called nothing, and it gets its block.
Idle == [capsule |-> "client", stack |-> <<>>]

Init ==
  /\ tag = [i \in Entries |-> [owner |-> 0, grabbed |-> FALSE]]
  /\ inUse = [i \in Entries |-> FALSE]
  /\ thread = [p \in Procs |-> Idle]
  /\ at = [p \in Procs |-> "start"]
  /\ old = [p \in Procs |-> tag[0]]
  /\ holds = {}
  /\ faults = 0

table == <<tag, inUse>>

Capsule(p) == thread[p].capsule
Arg(p, i)  == Word(thread[p], i)

Runs(p, f, where) == Capsule(p) = f /\ at[p] = where

\* The capsule of p returns and t is installed.
Go(p, t) ==
  /\ thread' = [thread EXCEPT ![p] = t]
  /\ at' = [at EXCEPT ![p] = "start"]
  /\ UNCHANGED <<old, faults>>

\* The capsule of p goes on.
On(p, where) ==
  /\ at' = [at EXCEPT ![p] = where]
  /\ UNCHANGED <<thread, holds, faults>>

\* A capsule of p that touches nothing but its arguments: f leaves with t.
Plain(p, f, t) ==
  /\ Runs(p, f, "start")
  /\ Go(p, t)
  /\ UNCHANGED <<table, holds>>

-----------------------------------------------------------------------------
\* User code

Allocate(p) ==
  /\ p \notin holds
  /\ \E n \in Sizes :
       Plain(p, "client", Pcall(thread[p], 0, <<>>, "gotBlock", <<n>>, "PMalloc"))

GotBlock(p) ==
  /\ Runs(p, "gotBlock", "start")
  /\ Go(p, Pcnt(thread[p], 2, <<>>, "client"))
  /\ holds' = holds \union {p}
  /\ UNCHANGED table

Free(p) ==
  /\ p \in holds
  /\ Runs(p, "client", "start")
  /\ Go(p, Pcall(thread[p], 0, <<>>, "client", Block, "PMfree"))
  /\ holds' = holds \ {p}
  /\ UNCHANGED table

-----------------------------------------------------------------------------
\* Grabbing an entry

ReadTag(p) ==
  /\ Runs(p, "tryGrab", "start")
  /\ old' = [old EXCEPT ![p] = tag[Arg(p, 1)]]
  /\ On(p, "cam")
  /\ UNCHANGED table

\* Slip: the index of the entry for that of the process.
GrabCamIndex(p) ==
  LET i == Arg(p, 1) IN
  /\ Runs(p, "tryGrab", "cam")
  /\ tag' = IF tag[i] = old[p]
              THEN [tag EXCEPT ![i] = [owner |-> i, grabbed |-> TRUE]]
              ELSE tag
  /\ On(p, "check")
  /\ UNCHANGED <<inUse, old>>

\* CAM(&(interest->tag), old, replacement), whatever old is.
GrabCam(p) ==
  LET i == Arg(p, 1) IN
  /\ Runs(p, "tryGrab", "cam")
  /\ tag' = IF tag[i] = old[p]
              THEN [tag EXCEPT ![i] = [owner |-> p, grabbed |-> TRUE]]
              ELSE tag
  /\ On(p, "check")
  /\ UNCHANGED <<inUse, old>>

GrabReturn(p) ==
  LET mine == tag[Arg(p, 1)] = [owner |-> p, grabbed |-> TRUE] IN
  /\ Runs(p, "tryGrab", "check")
  /\ Go(p, Pret(thread[p], 1, <<IF mine THEN Yes ELSE No>>))
  /\ UNCHANGED <<table, holds>>

\* Slip: the test is the wrong way round.
ReleaseOthers(p) ==
  LET mine == tag[Arg(p, 1)] = [owner |-> p, grabbed |-> TRUE] IN
  /\ Runs(p, "release", "start")
  /\ On(p, IF mine THEN "return" ELSE "write")
  /\ UNCHANGED <<table, old>>

\* release gives up a grab that is the thread's own.
ReleaseStart(p) ==
  LET mine == tag[Arg(p, 1)] = [owner |-> p, grabbed |-> TRUE] IN
  /\ Runs(p, "release", "start")
  /\ On(p, IF mine THEN "write" ELSE "return")
  /\ UNCHANGED <<table, old>>

ReleaseWrite(p) ==
  /\ Runs(p, "release", "write")
  /\ tag' = [tag EXCEPT ![Arg(p, 1)].grabbed = FALSE]
  /\ On(p, "return")
  /\ UNCHANGED <<inUse, old>>

ReleaseReturn(p) ==
  /\ Runs(p, "release", "return")
  /\ Go(p, Pret(thread[p], 1, <<>>))
  /\ UNCHANGED <<table, holds>>

-----------------------------------------------------------------------------
\* PMalloc: the size goes through under the index

StartAlloc(p) ==
  Plain(p, "PMalloc", Pcnt(thread[p], 0, <<0>>, "allocatingLoop"))

\* With one block merge comes back to PMalloc at once: its downlink is 0.
Merge(p) ==
  \/ Plain(p, "merge", Pcnt(thread[p], 0, <<0>>, "mLoop"))
  \/ Plain(p, "mLoop", Pcnt(thread[p], 1, <<>>, "PMalloc"))

\* Off the end of the list, which is any index but 0, it goes to merge.
\* isGrabbed is read first ...
AllocLook(p) ==
  LET i == Arg(p, 1) IN
  /\ Runs(p, "allocatingLoop", "start")
  /\ IF i # 0
       THEN Go(p, Pcnt(thread[p], 1, <<>>, "merge")) /\ UNCHANGED holds
       ELSE IF tag[i].grabbed
         THEN Go(p, Pcnt(thread[p], 1, <<Next0>>, "allocatingLoop"))
              /\ UNCHANGED holds
         ELSE On(p, "inUse") /\ UNCHANGED old
  /\ UNCHANGED table

\* ... then isInUse.
AllocLookInUse(p) ==
  LET i == Arg(p, 1) IN
  /\ Runs(p, "allocatingLoop", "inUse")
  /\ Go(p, IF inUse[i]
             THEN Pcnt(thread[p], 1, <<Next0>>, "allocatingLoop")
             ELSE Pcall(thread[p], 1, <<i>>, "allocatingPostGrab", <<i>>, "tryGrab"))
  /\ UNCHANGED <<table, holds>>

\* allocatingPostGrab has popped succGrab, idx and desiredSize.
Grabbed(p) == Arg(p, 1) = Yes
Desired(p) == Arg(p, 3)

Fits(p) == Size(Arg(p, 2)) >= Desired(p)

\* The size is popped and not pushed again.
PostGrabFailed(p) ==
  /\ Runs(p, "allocatingPostGrab", "start")
  /\ ~Grabbed(p)
  /\ Go(p, Pcnt(thread[p], 3, <<Arg(p, 2) + 1>>, "allocatingLoop"))
  /\ UNCHANGED <<table, holds>>

PostGrabTooSmall(p) ==
  /\ Runs(p, "allocatingPostGrab", "start")
  /\ Grabbed(p)
  /\ ~Fits(p)
  /\ Go(p, Pcall(thread[p], 3, <<Desired(p), Next0>>, "allocatingLoop",
                 <<Arg(p, 2)>>, "release"))
  /\ UNCHANGED <<table, holds>>

PostGrabUse(p) ==
  /\ Runs(p, "allocatingPostGrab", "start")
  /\ Grabbed(p)
  /\ Fits(p)
  /\ inUse' = [inUse EXCEPT ![Arg(p, 2)] = TRUE]
  /\ On(p, "used")
  /\ UNCHANGED <<tag, old>>

\* A block that is larger is to be split: the leftover size is pushed as an
\* argument of findFreeEntry.
PostGrabLeave(p) ==
  LET i == Arg(p, 2) IN
  /\ Runs(p, "allocatingPostGrab", "used")
  /\ Go(p, IF Size(i) = Desired(p)
             THEN Pcall(thread[p], 3, <<i>>, "retPMem", <<i>>, "release")
             ELSE Pcall(thread[p], 3, <<Desired(p), i>>, "makeLeftovers",
                        <<Size(i) - Desired(p)>>, "findFreeEntry"))
  /\ UNCHANGED <<table, holds>>

RetPMem(p) == Plain(p, "retPMem", Pret(thread[p], 1, Block))

-----------------------------------------------------------------------------
\* findFreeEntry

FindFree(p) ==
  Plain(p, "findFreeEntry", Pcnt(thread[p], 0, <<0>>, "ffeLoop"))

FindFreeLoop(p) ==
  LET i == Arg(p, 1) IN
  Plain(p, "ffeLoop",
        IF InList(i)
          THEN Pcnt(thread[p], 1, <<i + 1>>, "ffeLoop")
          ELSE Pcall(thread[p], 1, <<i>>, "ffePostGrab", <<i>>, "tryGrab"))

FindFreePostGrab(p) ==
  LET i == Arg(p, 2) IN
  Plain(p, "ffePostGrab",
        IF Grabbed(p) THEN Pret(thread[p], 2, <<i>>)
                      ELSE Pcnt(thread[p], 2, <<i + 1>>, "ffeLoop"))

-----------------------------------------------------------------------------
\* PMfree

StartFree(p) == Plain(p, "PMfree", Pcnt(thread[p], 0, <<0>>, "freeLoop"))

FreeLoop(p) ==
  LET i == Arg(p, 1) IN
  Plain(p, "freeLoop",
        IF inUse[i]
          THEN Pcall(thread[p], 3, <<i>>, "freePostLoop", <<i>>, "tryGrab")
          ELSE Pcnt(thread[p], 1, <<Next0>>, "freeLoop"))

\* Slip: idx and grabbed are popped in the wrong order.
FreeWriteSwapped(p) ==
  /\ Runs(p, "freePostLoop", "start")
  /\ inUse' = [inUse EXCEPT ![Arg(p, 1)] = FALSE]
  /\ On(p, "freed")
  /\ UNCHANGED <<tag, old>>

\* Whether the entry was grabbed does not matter: rassert stops nothing.
FreeWrite(p) ==
  /\ Runs(p, "freePostLoop", "start")
  /\ inUse' = [inUse EXCEPT ![Arg(p, 2)] = FALSE]
  /\ On(p, "freed")
  /\ UNCHANGED <<tag, old>>

\* Slip: the entry is not released.
FreeLeaveGrabbed(p) ==
  /\ Runs(p, "freePostLoop", "freed")
  /\ Go(p, Pret(thread[p], 2, <<>>))
  /\ UNCHANGED <<table, holds>>

FreeLeave(p) ==
  /\ Runs(p, "freePostLoop", "freed")
  /\ Go(p, Pcnt(thread[p], 2, <<Arg(p, 2)>>, "release"))
  /\ UNCHANGED <<table, holds>>

-----------------------------------------------------------------------------

Alloc(p) ==
  \/ StartAlloc(p) \/ Merge(p) \/ AllocLook(p) \/ AllocLookInUse(p)
  \/ PostGrabFailed(p) \/ PostGrabTooSmall(p) \/ PostGrabUse(p)
  \/ PostGrabLeave(p) \/ RetPMem(p)
  \/ FindFree(p) \/ FindFreeLoop(p) \/ FindFreePostGrab(p)

Grab(p) ==
  \/ ReadTag(p) \/ GrabCam(p) \/ GrabReturn(p)
  \/ ReleaseStart(p) \/ ReleaseWrite(p) \/ ReleaseReturn(p)

Freeing(p) == StartFree(p) \/ FreeLoop(p) \/ FreeWrite(p) \/ FreeLeave(p)

Memory(p) == Alloc(p) \/ Grab(p) \/ Freeing(p) \/ GotBlock(p)

\* A soft fault restarts the capsule of p.
Fault(p) ==
  /\ faults < MaxFaults
  /\ at[p] # "start"
  /\ faults' = faults + 1
  /\ at' = [at EXCEPT ![p] = "start"]
  /\ UNCHANGED <<table, thread, old, holds>>

Next == \E p \in Procs : Memory(p) \/ Allocate(p) \/ Free(p) \/ Fault(p)

Spec == Init /\ [][Next]_vars

\* A process inside the allocator keeps running; user code need not call it.
FairSpec == Spec /\ \A p \in Procs : WF_vars(Memory(p))

-----------------------------------------------------------------------------
\* Properties

\* Types of the variables.
TypeOK ==
  /\ tag \in [Entries -> Tags]
  /\ inUse \in [Entries -> BOOLEAN]
  /\ \A p \in Procs : Capsule(p) \in Functions \union {"client", "lost"}
  /\ at \in [Procs -> {"start", "cam", "check", "write", "return", "inUse",
                       "used", "freed"}]
  /\ old \in [Procs -> Tags]
  /\ holds \subseteq Procs
  /\ faults \in 0 .. MaxFaults

\* Capsules between a grab and the release that ends it.
Grabbing == {"tryGrab", "release", "allocatingPostGrab", "findFreeEntry",
             "ffeLoop", "ffePostGrab", "freePostLoop"}

\* An entry is grabbed only while its owner is between tryGrab and release:
\* though a grab can be taken away by another CAM and restarts repeat CAMs, no
\* grab outlives the operation it was made for.
GrabHasHolder ==
  \A i \in Entries : tag[i].grabbed =>
    Capsule(tag[i].owner) \in Grabbing \union {"lost"}

\* When every process is in user code and has nothing allocated, the block can
\* be allocated again.
NothingLeaks ==
  (\A p \in Procs : Capsule(p) = "client" /\ p \notin holds)
    => \A i \in Entries : ~inUse[i] /\ ~tag[i].grabbed

\* A grab is given up, or taken over, unless its owner is lost in a split.
GrabEnds ==
  \A p \in Procs :
    tag[0] = [owner |-> p, grabbed |-> TRUE]
      ~> (tag[0] # [owner |-> p, grabbed |-> TRUE] \/ Capsule(p) = "lost")

\* memUtilities.h on PMalloc: "It returns a PMem to said memory, or spins until
\* said memory is free".  No two processes have the block.
BlockIsExclusive == \A p, q \in holds : p = q
=============================================================================
