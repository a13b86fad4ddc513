------------------------- MODULE ProcessTableProofs -------------------------
(***************************************************************************)
(* Theorems about ProcessTable, for any number of indices and processes.   *)
(* Processes recognise each other by their command line, so they have to   *)
(* be started with the same one.                                           *)
(***************************************************************************)
EXTENDS ProcessTable, TLAPS

\* What checkPid takes for granted.
SameCommand == \A a, b \in Commands : a = b

\* Everybody who is alive is seen alive.
LEMMA Recognised ==
  ASSUME TypeOK, SameCommand, NEW p \in Pids, NEW q
  PROVE  CheckPid(p, q) <=> Alive(q)
BY DEF CheckPid, Alive, TypeOK, SameCommand

LEMMA IndicesAre == 0 \in Indices /\ \A n \in Indices : NextIndex(n) \in Indices
BY NumProcAssumption DEF Indices, NextIndex

LEMMA InitInvariant == Init => PInv
<1> SUFFICES ASSUME Init PROVE PInv
  OBVIOUS
<1>1. TypeOK
  BY IndicesAre DEF Init, TypeOK, NoProcess
<1>2. \A p \in Pids : Absent(p) /\ \A q \in Pids : copy[q] # p
  BY PidsAssumption DEF Init, Absent, NoProcess
<1> QED
  BY <1>1, <1>2
  DEF Init, PInv, UnbornUnknown, LookingAbsent, LookingOnce, RunningOnce,
      FoundDead, In

-----------------------------------------------------------------------------
\* One lemma for each step

LEMMA ReadEntryStep == ASSUME PInv, NEW p \in Pids, ReadEntry(p) PROVE PInv'
<1>1. TypeOK'
  BY DEF PInv, TypeOK, ReadEntry, Goto
<1> QED
  BY <1>1
  DEF PInv, TypeOK, ReadEntry, Goto, In, UnbornUnknown, LookingAbsent,
      LookingOnce, RunningOnce, FoundDead, Alive, Absent, OnlyAtItsIndex

LEMMA GoOnStep ==
  ASSUME PInv, NEW p \in Pids, life[p] = "looking", Absent(p), GoOn(p),
         UNCHANGED <<map, life, copy>>
  PROVE  PInv'
<1>1. TypeOK'
  BY IndicesAre DEF PInv, TypeOK, GoOn, Goto
<1> QED
  BY <1>1
  DEF PInv, TypeOK, GoOn, Goto, In, UnbornUnknown, LookingAbsent,
      LookingOnce, RunningOnce, FoundDead, Alive, Absent, OnlyAtItsIndex

LEMMA EntryAliveStep == ASSUME PInv, NEW p \in Pids, EntryAlive(p) PROVE PInv'
BY GoOnStep DEF EntryAlive, In, PInv, LookingAbsent

LEMMA FailedStep == ASSUME PInv, NEW p \in Pids, Failed(p) PROVE PInv'
BY GoOnStep DEF Failed, In, PInv, LookingOnce, OnlyAtItsIndex, Absent

LEMMA EntryDeadStep ==
  ASSUME PInv, SameCommand, NEW p \in Pids, EntryDead(p) PROVE PInv'
<1>1. TypeOK' /\ ~Alive(copy[p])
  BY Recognised DEF PInv, TypeOK, EntryDead, Goto
<1> QED
  BY <1>1
  DEF PInv, TypeOK, EntryDead, Goto, In, UnbornUnknown, LookingAbsent,
      LookingOnce, RunningOnce, FoundDead, Alive, Absent, OnlyAtItsIndex

\* Nobody who is alive or unborn loses an entry, and p gets one at most.
LEMMA TakeEntryStep == ASSUME PInv, NEW p \in Pids, TakeEntry(p) PROVE PInv'
<1> DEFINE n == i[p]
<1>1. /\ TypeOK /\ life[p] = "looking" /\ n \in Indices
      /\ Absent(p) /\ ~Alive(copy[p])
      /\ UNCHANGED <<life, command, i, copy>>
      /\ at' = [at EXCEPT ![p] = "confirm"]
  BY DEF PInv, TypeOK, TakeEntry, In, LookingAbsent, FoundDead, Goto
<1>2. TypeOK'
  BY <1>1 DEF TypeOK, TakeEntry
<1>3. /\ map' \in [Indices -> Pids \union NoProcess]
      /\ \A m \in Indices : m # n => map'[m] = map[m]
      /\ map'[n] \in {map[n], p}
      /\ map'[n] # map[n] => ~Alive(map[n])
  BY <1>1, <1>2 DEF TypeOK, TakeEntry
<1>4. ASSUME NEW q \in Pids, q # p PROVE Absent(q) => Absent(q)'
  BY <1>3, <1>4 DEF Absent
<1>5. OnlyAtItsIndex(p)'
  BY <1>1, <1>3 DEF OnlyAtItsIndex, Absent
<1>6. ASSUME NEW q \in Pids, q # p PROVE OnlyAtItsIndex(q) => OnlyAtItsIndex(q)'
  BY <1>1, <1>3, <1>6 DEF OnlyAtItsIndex
<1>7. ASSUME NEW q \in Pids, UnbornUnknown(q) PROVE UnbornUnknown(q)'
  BY <1>1, <1>4, <1>7 DEF UnbornUnknown
<1>8. ASSUME NEW q \in Pids, LookingAbsent(q) PROVE LookingAbsent(q)'
  BY <1>1, <1>4, <1>8 DEF LookingAbsent, TypeOK
<1>9. ASSUME NEW q \in Pids, LookingOnce(q) PROVE LookingOnce(q)'
  BY <1>1, <1>5, <1>6, <1>9 DEF LookingOnce
<1>10. ASSUME NEW q \in Pids, RunningOnce(q) PROVE RunningOnce(q)'
  <2>1. SUFFICES ASSUME life[q] = "running" PROVE RunningOnce(q)'
    BY <1>1 DEF RunningOnce
  <2>2. q # p /\ map[i[q]] = q /\ OnlyAtItsIndex(q) /\ i[q] \in Indices
    BY <1>1, <1>10, <2>1 DEF RunningOnce, TypeOK
  <2>3. map'[i[q]] = q
    BY <1>3, <2>1, <2>2 DEF Alive
  <2> QED
    BY <1>1, <1>6, <2>2, <2>3 DEF RunningOnce
<1>11. ASSUME NEW q \in Pids, FoundDead(q) PROVE FoundDead(q)'
  <2>1. SUFFICES ASSUME In(q, "take")' PROVE ~Alive(copy[q])'
    BY DEF FoundDead
  <2>2. q # p /\ In(q, "take")
    BY <1>1, <2>1 DEF In, TypeOK
  <2> QED
    BY <1>1, <1>11, <2>2 DEF FoundDead, Alive
<1> QED
  BY <1>2, <1>7, <1>8, <1>9, <1>10, <1>11 DEF PInv

LEMMA ConfirmStep == ASSUME PInv, NEW p \in Pids, Confirm(p) PROVE PInv'
<1>1. TypeOK'
  BY DEF PInv, TypeOK, Confirm, Goto
<1> QED
  BY <1>1
  DEF PInv, TypeOK, Confirm, Goto, In, UnbornUnknown, LookingAbsent,
      LookingOnce, RunningOnce, FoundDead, Alive, Absent, OnlyAtItsIndex

LEMMA StartStep == ASSUME PInv, NEW p \in Pids, StartProcess(p) PROVE PInv'
<1>1. TypeOK'
  BY DEF PInv, TypeOK, StartProcess
<1>2. /\ TypeOK /\ at[p] = "scan" /\ Absent(p)
      /\ \A q \in Pids : copy[q] # p
      /\ life' = [life EXCEPT ![p] = "looking"]
      /\ UNCHANGED <<map, command, at, i, copy>>
  BY DEF PInv, StartProcess, UnbornUnknown
<1>3. ASSUME NEW q \in Pids
      PROVE  /\ UnbornUnknown(q)' /\ LookingAbsent(q)' /\ LookingOnce(q)'
             /\ RunningOnce(q)'
  BY <1>2, PInv
  DEF PInv, TypeOK, UnbornUnknown, LookingAbsent, LookingOnce, RunningOnce,
      Absent, OnlyAtItsIndex
<1>4. ASSUME NEW q \in Pids, In(q, "take")' PROVE ~Alive(copy[q])'
  <2>1. q # p /\ In(q, "take")
    BY <1>2, <1>4 DEF In, TypeOK
  <2> QED
    BY <1>2, <2>1, PInv DEF PInv, TypeOK, FoundDead, Alive
<1> QED
  BY <1>1, <1>3, <1>4 DEF PInv, FoundDead

LEMMA DieStep == ASSUME PInv, NEW p \in Pids, Die(p) PROVE PInv'
<1>1. TypeOK'
  BY DEF PInv, TypeOK, Die
<1> QED
  BY <1>1
  DEF PInv, TypeOK, Die, In, UnbornUnknown, LookingAbsent,
      LookingOnce, RunningOnce, FoundDead, Alive, Absent, OnlyAtItsIndex

LEMMA NextInvariant == SameCommand /\ PInv /\ [Next]_vars => PInv'
<1> SUFFICES ASSUME SameCommand, PInv, [Next]_vars PROVE PInv'
  OBVIOUS
<1>1. ASSUME NEW p \in Pids, GetIdx(p) \/ StartProcess(p) \/ Die(p) PROVE PInv'
  BY <1>1, ReadEntryStep, EntryAliveStep, EntryDeadStep, TakeEntryStep,
     ConfirmStep, FailedStep, StartStep, DieStep DEF GetIdx
<1>2. CASE UNCHANGED vars
  BY <1>2
  DEF vars, PInv, TypeOK, In, UnbornUnknown, LookingAbsent,
      LookingOnce, RunningOnce, FoundDead, Alive, Absent, OnlyAtItsIndex
<1> QED
  BY <1>1, <1>2 DEF Next

\* The inductive invariant holds, whoever starts and dies when.
THEOREM TableInvariance ==
  ASSUME SameCommand
  PROVE  Spec => []PInv
<1>1. PInv /\ [Next]_vars => PInv'
  BY NextInvariant
<1> QED
  BY InitInvariant, <1>1, PTL DEF Spec

-----------------------------------------------------------------------------

\* A process that runs is found by hardWhoAmI at the index getIdx returned:
\* no two processes that run share an index.
THEOREM IndexIsExclusive ==
  ASSUME SameCommand
  PROVE  Spec => []IndexIsHard
<1>1. PInv => IndexIsHard
  <2>1. SUFFICES ASSUME PInv, NEW p \in Pids, life[p] = "running"
                 PROVE  map[i[p]] = p /\ HardWhoAmI(p) = i[p]
    BY DEF IndexIsHard
  <2>2. map[i[p]] = p /\ i[p] \in Indices /\ \A n \in Indices : map[n] = p => n = i[p]
    BY <2>1 DEF PInv, TypeOK, RunningOnce, OnlyAtItsIndex
  <2>3. \A m \in 0 .. i[p] - 1 : m \in Indices /\ m # i[p]
    BY <2>2, NumProcAssumption DEF Indices
  <2>4. \A m \in 0 .. i[p] - 1 : map[m] # p
    BY <2>2, <2>3
  <2> QED
    BY <2>2, <2>4 DEF HardWhoAmI
<1> QED
  BY <1>1, TableInvariance, PTL

\* No entry of a process that is alive is overwritten.
THEOREM OnlyFromDead ==
  ASSUME SameCommand
  PROVE  Spec => TakenFromDead
<1>1. PInv /\ [Next]_vars => [\A n \in Indices : map'[n] # map[n] => ~Alive(map[n])]_vars
  <2> SUFFICES ASSUME PInv, Next, NEW n \in Indices, map'[n] # map[n]
               PROVE  ~Alive(map[n])
    OBVIOUS
  <2>1. PICK p \in Pids : TakeEntry(p)
    BY DEF Next, GetIdx, ReadEntry, EntryAlive, EntryDead, Confirm, Failed,
           StartProcess, Die
  <2>2. map[i[p]] = copy[p] /\ n = i[p]
    BY <2>1 DEF TakeEntry, PInv, TypeOK
  <2> QED
    BY <2>1, <2>2 DEF TakeEntry, PInv, FoundDead
<1> QED
  BY <1>1, TableInvariance, PTL DEF Spec, TakenFromDead
=============================================================================
