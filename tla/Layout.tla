------------------------------- MODULE Layout -------------------------------
(***************************************************************************)
(* The layout of the persistent segment: pmemPartition of setup.c carves   *)
(* it into regions, one after the other, and every process finds its own   *)
(* share of a region from its index.  Sizes are in bytes, as gcc lays the  *)
(* structures out on x86-64.                                               *)
(*                                                                         *)
(* The sizes of typesAndDecs.h are a configuration here: "stuff that might *)
(* become a runtime setup constant later".  Offsets are unsigned ints in   *)
(* the code; configurations are taken to be small enough not to wrap.      *)
(***************************************************************************)
EXTENDS Integers

CONSTANT Configs   \* a set of records with the fields of Fields

VARIABLES
  conf,     \* the configuration the program was compiled with
  at,       \* how many regions have been carved
  cursor,   \* cursor.offset
  start     \* start[n]: where the region named n starts

vars == <<conf, at, cursor, start>>

\* NUM_PROC, STACK_SIZE, JOB_ARG_SIZE, SET_POOL_SIZE, PSTACK_HOLDING_SIZE,
\* PSTACK_STACK_SIZE, DYNAMIC_POOL_SIZE and MEMORY_TABLE_SIZE.
Fields == {"procs", "dequeLength", "argSize", "sets", "holding", "pstack",
           "pool", "entries"}

ASSUME ConfigsAssumption == Configs \subseteq [Fields -> Nat]

-----------------------------------------------------------------------------
\* sizeof

PMemBytes     == 8
CapsuleBytes  == 48
ProcDataBytes == 4
EntryBytes    == 28
IntBytes      == 4

RoundUp(n, k) == ((n + k - 1) \div k) * k

\* tag, target, work, args, argSize
JobBytes == RoundUp(RoundUp(16 + CapsuleBytes + conf["argSize"], 4) + IntBytes, 8)

\* tagAndData, continuation
SetBytes == 8 + JobBytes

\* Slip: the arguments of the jobs, and nothing for the rest of a job.
TotalSizeTight ==
  conf["procs"] * (conf["argSize"] * conf["dequeLength"]
                    + conf["pstack"] + 2 * conf["holding"])
    + conf["entries"] * 16 + conf["pool"]

\* TOTAL_PMEM_SIZE
TotalSize ==
  conf["procs"] * (conf["argSize"] * 2 * conf["dequeLength"]
                    + conf["pstack"] + 2 * conf["holding"])
    + conf["entries"] * 16 + conf["pool"]

-----------------------------------------------------------------------------
\* The regions, in the order they are carved.  The holders are one region
\* here: those for continuations come first, those for callees after them.
Order ==
  <<"trampolineQuit", "currentlyInstalled", "installedSwap", "jobs", "deques",
    "tops", "bots", "holders", "stacks", "continuationHolders",
    "calleeHolders", "pStacks", "mapping", "setPool", "memTable", "dynamic">>

Count   == 16
Regions == {Order[i] : i \in 1 .. Count}

\* Slip: room for one holder of each process.
OneHolderEach == conf["holding"] * conf["procs"]

BothHolders == 2 * conf["holding"] * conf["procs"]

Bytes(n) ==
  CASE n = "trampolineQuit"      -> 1
    [] n = "currentlyInstalled"  -> PMemBytes * conf["procs"]
    [] n = "installedSwap"       -> 2 * CapsuleBytes * conf["procs"]
    [] n = "jobs"                -> JobBytes * conf["dequeLength"] * conf["procs"]
    [] n \in {"deques", "continuationHolders", "calleeHolders", "pStacks"}
                                 -> PMemBytes * conf["procs"]
    [] n \in {"tops", "bots"}    -> IntBytes * conf["procs"]
    [] n = "holders"             -> BothHolders
    [] n = "stacks"              -> conf["pstack"] * conf["procs"]
    [] n = "mapping"             -> ProcDataBytes * conf["procs"]
    [] n = "setPool"             -> SetBytes * conf["sets"]
    [] n = "memTable"            -> EntryBytes * conf["entries"]
    [] n = "dynamic"             -> conf["pool"]

Init ==
  /\ conf \in Configs
  /\ at = 0
  /\ cursor = 0
  /\ start = [n \in Regions |-> 0]

\* cursor.offset += cursor.size, once for each region.
Carve ==
  /\ at < Count
  /\ start' = [start EXCEPT ![Order[at + 1]] = cursor]
  /\ cursor' = cursor + Bytes(Order[at + 1])
  /\ at' = at + 1
  /\ UNCHANGED conf

Spec == Init /\ [][Carve]_vars

-----------------------------------------------------------------------------
\* What a process has of its own: an area is a slot of some width in a region.
\* Its top and bot are not among the areas.  They are carved as ints and the
\* thieves find them as ints, but the process itself finds them with the
\* stride of a PMem (the macros of scheduler.c): its top lies in tops or bots,
\* its bot in bots or in the holders that follow.

Procs == 0 .. conf["procs"] - 1

Areas == {"installed", "swap", "cntHolder", "callHolder", "stack", "pid"}

Home(a) ==
  CASE a = "installed"                   -> "currentlyInstalled"
    [] a = "swap"                        -> "installedSwap"
    [] a \in {"cntHolder", "callHolder"} -> "holders"
    [] a = "stack"                       -> "stacks"
    [] a = "pid"                         -> "mapping"

Width(a) ==
  CASE a = "installed"                   -> PMemBytes
    [] a = "swap"                        -> 2 * CapsuleBytes
    [] a \in {"cntHolder", "callHolder"} -> conf["holding"]
    [] a = "stack"                       -> conf["pstack"]
    [] a = "pid"                         -> ProcDataBytes

Slot(a, p) == IF a = "callHolder" THEN p + conf["procs"] ELSE p

From(a, p) == start[Home(a)] + Slot(a, p) * Width(a)
To(a, p)   == From(a, p) + Width(a)

-----------------------------------------------------------------------------
\* Properties

\* Types of the variables.
TypeOK ==
  /\ conf \in Configs
  /\ at \in 0 .. Count
  /\ cursor \in Nat
  /\ start \in [Regions -> Nat]

Laid == at = Count

\* The capsules, the pointer to the installed one, the holders, the stack and
\* the pid entry of a process never share a byte with each other or with those
\* of another process: what the modules on capsules, on the stack and on the
\* process table assume when they keep them in variables of their own.
AreasDisjoint ==
  Laid =>
    \A p, q \in Procs, a, b \in Areas :
      <<a, p>> = <<b, q>> \/ To(a, p) <= From(b, q) \/ To(b, q) <= From(a, p)

\* typesAndDecs.h on TOTAL_PMEM_SIZE: "this calculating method is extremely
\* unsafe".  The segment that is allocated holds all the regions.
FitsSegment == Laid => cursor <= TotalSize

-----------------------------------------------------------------------------
\* The inductive invariant

End(n) == start[n] + Bytes(n)

LInv ==
  /\ TypeOK
  /\ \A m \in 1 .. at : End(Order[m]) <= cursor
  /\ \A m, n \in 1 .. at : m < n => End(Order[m]) <= start[Order[n]]
=============================================================================
