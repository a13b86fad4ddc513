---------------------------- MODULE ProcessTable ----------------------------
(***************************************************************************)
(* The table of processes (procMap.c): a new process takes over the index  *)
(* of a dead one (getIdx) and finds it again by its pid (hardWhoAmI).      *)
(*                                                                         *)
(* This is getIdx without the two lines marked "debugging only", which     *)
(* give everybody index 0.  A pid is not used again while the program      *)
(* runs.  Whether a pid is alive is asked of /proc (checkPid).             *)
(***************************************************************************)
EXTENDS Integers, FiniteSets

CONSTANTS
  NumProc,    \* NUM_PROC
  Pids,       \* the pids of the processes that are started
  Commands    \* command lines they are started with

VARIABLES
  map,      \* map[i]: the pid stored for index i
  life,     \* life[p]: what the process with pid p does
  command,  \* command[p]: its command line
  at,       \* at[p]: how far getIdx of p has got
  i,        \* i[p]: the index it looks at
  copy      \* copy[p]: the pid it found there

vars == <<map, life, command, at, i, copy>>

Indices == 0 .. NumProc - 1

\* What firstTimeInit leaves in the table: 1 in the first entry, 0 elsewhere.
\* Neither is a process of this program.
NoProcess == {0, 1}

ASSUME NumProcAssumption == NumProc \in Nat \ {0}
ASSUME PidsAssumption == Pids \subseteq Nat \ NoProcess

Init ==
  /\ map = [n \in Indices |-> IF n = 0 THEN 1 ELSE 0]
  /\ life = [p \in Pids |-> "unborn"]
  /\ command \in [Pids -> Commands]
  /\ at = [p \in Pids |-> "scan"]
  /\ i = [p \in Pids |-> 0]
  /\ copy = [p \in Pids |-> 0]

Alive(p) == p \in Pids /\ life[p] \in {"looking", "running"}

\* checkPid of p: /proc has q, with the same command line.
CheckPid(p, q) == Alive(q) /\ command[q] = command[p]

-----------------------------------------------------------------------------
\* getIdx

In(p, where) == life[p] = "looking" /\ at[p] = where

Goto(p, where) ==
  /\ at' = [at EXCEPT ![p] = where]
  /\ UNCHANGED command

\* Slip: the outer loop does not start over.
NextIndexOnce(n) == IF n + 1 < NumProc THEN n + 1 ELSE n

\* The inner loop, and the outer one around it.
NextIndex(n) == IF n + 1 < NumProc THEN n + 1 ELSE 0

GoOn(p) ==
  /\ i' = [i EXCEPT ![p] = NextIndex(@)]
  /\ Goto(p, "scan")

ReadEntry(p) ==
  /\ In(p, "scan")
  /\ copy' = [copy EXCEPT ![p] = map[i[p]]]
  /\ Goto(p, "check")
  /\ UNCHANGED <<map, life, i>>

EntryAlive(p) ==
  /\ In(p, "check")
  /\ CheckPid(p, copy[p])
  /\ GoOn(p)
  /\ UNCHANGED <<map, life, copy>>

EntryDead(p) ==
  /\ In(p, "check")
  /\ ~CheckPid(p, copy[p])
  /\ Goto(p, "take")
  /\ UNCHANGED <<map, life, i, copy>>

\* Slip: a plain store instead of a CAM.
StorePid(p) ==
  /\ In(p, "take")
  /\ map' = [map EXCEPT ![i[p]] = p]
  /\ Goto(p, "confirm")
  /\ UNCHANGED <<life, i, copy>>

\* CAM(&(loc->pid), copy.pid, myPid)
TakeEntry(p) ==
  /\ In(p, "take")
  /\ map' = IF map[i[p]] = copy[p] THEN [map EXCEPT ![i[p]] = p] ELSE map
  /\ Goto(p, "confirm")
  /\ UNCHANGED <<life, i, copy>>

\* Slip: the index is returned whoever won.
ConfirmBlindly(p) ==
  /\ In(p, "confirm")
  /\ life' = [life EXCEPT ![p] = "running"]
  /\ Goto(p, "confirm")
  /\ UNCHANGED <<map, i, copy>>

\* "it worked, get to work": i[p] is the index returned.
Confirm(p) ==
  /\ In(p, "confirm")
  /\ map[i[p]] = p
  /\ life' = [life EXCEPT ![p] = "running"]
  /\ Goto(p, "confirm")
  /\ UNCHANGED <<map, i, copy>>

\* "failed cam, keep moving"
Failed(p) ==
  /\ In(p, "confirm")
  /\ map[i[p]] # p
  /\ GoOn(p)
  /\ UNCHANGED <<map, life, copy>>

GetIdx(p) ==
  \/ ReadEntry(p) \/ EntryAlive(p) \/ EntryDead(p)
  \/ TakeEntry(p) \/ Confirm(p) \/ Failed(p)

-----------------------------------------------------------------------------

StartProcess(p) ==
  /\ life[p] = "unborn"
  /\ life' = [life EXCEPT ![p] = "looking"]
  /\ UNCHANGED <<map, command, at, i, copy>>

Die(p) ==
  /\ Alive(p)
  /\ life' = [life EXCEPT ![p] = "dead"]
  /\ UNCHANGED <<map, command, at, i, copy>>

Next == \E p \in Pids : GetIdx(p) \/ StartProcess(p) \/ Die(p)

Spec == Init /\ [][Next]_vars

\* The operating system runs every process that is alive.
FairSpec == Spec /\ \A p \in Pids : WF_vars(GetIdx(p))

-----------------------------------------------------------------------------
\* Properties

\* Types of the variables.
TypeOK ==
  /\ map \in [Indices -> Pids \union NoProcess]
  /\ life \in [Pids -> {"unborn", "looking", "running", "dead"}]
  /\ command \in [Pids -> Commands]
  /\ at \in [Pids -> {"scan", "check", "take", "confirm"}]
  /\ i \in [Pids -> Indices]
  /\ copy \in [Pids -> Pids \union NoProcess]

\* The first index with the pid of p.
HardWhoAmI(p) ==
  CHOOSE n \in Indices : map[n] = p /\ \A m \in 0 .. n - 1 : map[m] # p

\* What hardWhoAmI looks up, whenever it is asked, is the index getIdx gave and
\* everybodyInit set up; so no two processes that run have the same one.
IndexIsHard ==
  \A p \in Pids : life[p] = "running" =>
    map[i[p]] = p /\ HardWhoAmI(p) = i[p]

\* procMap.c: "swaps its own pid into the struct for a dead proc".  The entry
\* of a process that is alive, looking or running, is never overwritten,
\* however long ago it was found dead.
TakenFromDead ==
  [][\A n \in Indices : map'[n] # map[n] => ~Alive(map[n])]_vars

\* getIdx hangs only while every index is taken by a process that runs.
Full == Cardinality({p \in Pids : life[p] = "running"}) >= NumProc

LookingEnds ==
  \A p \in Pids : life[p] = "looking" ~> (life[p] # "looking" \/ Full)

-----------------------------------------------------------------------------
\* The inductive invariant

Absent(p) == \A n \in Indices : map[n] # p

\* p is in the table at the index it looks at, or nowhere.
OnlyAtItsIndex(p) == \A n \in Indices : map[n] = p => n = i[p]

UnbornUnknown(p) ==
  life[p] = "unborn" =>
    at[p] = "scan" /\ Absent(p) /\ \A q \in Pids : copy[q] # p

LookingAbsent(p) ==
  life[p] = "looking" /\ at[p] # "confirm" => Absent(p)

LookingOnce(p) == life[p] = "looking" => OnlyAtItsIndex(p)

RunningOnce(p) == life[p] = "running" => map[i[p]] = p /\ OnlyAtItsIndex(p)

\* What was found dead stays dead.
FoundDead(p) == In(p, "take") => ~Alive(copy[p])

PInv ==
  /\ TypeOK
  /\ \A p \in Pids :
       /\ UnbornUnknown(p)
       /\ LookingAbsent(p)
       /\ LookingOnce(p)
       /\ RunningOnce(p)
       /\ FoundDead(p)
=============================================================================
