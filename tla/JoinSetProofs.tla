---------------------------- MODULE JoinSetProofs ----------------------------
(***************************************************************************)
(* Theorems about JoinSet, for all owner tags, whether or not the set has  *)
(* the owner the branches expect, and every number of restarts.            *)
(***************************************************************************)
EXTENDS JoinSet, FiniteSetTheorems, TLAPS

USE RestartsAssumption

LEMMA SidesAre ==
  /\ Sides = {0, 1}
  /\ \A s \in Sides : OtherSide(s) \in Sides /\ OtherSide(s) # s
                      /\ OtherSide(OtherSide(s)) = s
BY DEF Sides, OtherSide

LEMMA InUseDiffers == InUse(0) = 2 /\ InUse(1) = 3
BY DEF InUse

\* The values of a tag, spelled out.
LEMMA SetTagsAre ==
  ASSUME NEW o
  PROVE  SetTags(o) = {Tag(o, 2, 0), Tag(o, 0, 0),
                       Tag(o, 0, 2), Tag(o, 0, 3), Tag(o, 1, 2), Tag(o, 1, 3)}
BY SidesAre, InUseDiffers DEF SetTags

LEMMA InitInvariant == Init => JInv
<1> SUFFICES ASSUME Init PROVE JInv
  OBVIOUS
<1>1. PICK o \in Owners : tag = Tag(o, 2, 0)
  BY DEF Init
<1>2. TypeOK
  BY <1>1, SidesAre, SetTagsAre DEF Init, TypeOK, Capsules
<1>3. TagIs(2, 0)
  BY <1>1 DEF TagIs, Tag
<1>4. Working = {}
  BY DEF Init, Working
<1>5. OneWorker /\ OnlyTheirs
  BY <1>3, <1>4 DEF OneWorker, OnlyTheirs
<1>6. ClearedByWorker
  BY <1>3 DEF ClearedByWorker, TagIs
<1>7. ASSUME NEW s \in Sides
      PROVE  NotInYet(s) /\ LeftForOther(s) /\ WorkerClaimed(s) /\ CopyTells(s)
  BY <1>3, <1>4
     DEF Init, NotInYet, LeftForOther, WorkerClaimed, CopyTells, Deciding
<1> QED
  BY <1>2, <1>5, <1>6, <1>7 DEF JInv

-----------------------------------------------------------------------------
\* One lemma per step of a branch

LEMMA JoinStep ==
  ASSUME JInv, NEW s \in Sides, Join(s)
  PROVE  JInv'
BY SidesAre, InUseDiffers, SetTagsAre
   DEF JInv, Join, Go,
       TypeOK, Capsules, Owned, OneWorker, ClearedByWorker, OnlyTheirs,
       NotInYet, LeftForOther, WorkerClaimed, CopyTells, Claimed, Deciding,
       Working, Tag, TagIs, CopyIs

LEMMA ReadStep ==
  ASSUME JInv, NEW s \in Sides, Read(s)
  PROVE  JInv'
BY SidesAre, InUseDiffers, SetTagsAre
   DEF JInv, Read,
       TypeOK, Capsules, Owned, OneWorker, ClearedByWorker, OnlyTheirs,
       NotInYet, LeftForOther, WorkerClaimed, CopyTells, Claimed, Deciding,
       Working, Tag, TagIs, CopyIs

LEMMA FirstEditStep ==
  ASSUME JInv, NEW s \in Sides, FirstEdit(s)
  PROVE  JInv'
BY SidesAre, InUseDiffers, SetTagsAre
   DEF JInv, FirstEdit, CamTag, OwnerMatches, Untouched,
       TypeOK, Capsules, Owned, OneWorker, ClearedByWorker, OnlyTheirs,
       NotInYet, LeftForOther, WorkerClaimed, CopyTells, Claimed, Deciding,
       Working, Tag, TagIs, CopyIs

LEMMA SecondEditStep ==
  ASSUME JInv, NEW s \in Sides, SecondEdit(s)
  PROVE  JInv'
BY SidesAre, InUseDiffers, SetTagsAre
   DEF JInv, SecondEdit, CamTag, OwnerMatches, OtherWasFirst,
       TypeOK, Capsules, Owned, OneWorker, ClearedByWorker, OnlyTheirs,
       NotInYet, LeftForOther, WorkerClaimed, CopyTells, Claimed, Deciding,
       Working, Tag, TagIs, CopyIs

LEMMA TakeWorkStep ==
  ASSUME JInv, NEW s \in Sides, TakeWork(s)
  PROVE  JInv'
BY SidesAre, InUseDiffers, SetTagsAre
   DEF JInv, TakeWork, Go, OwnerMatches, LastOfAll,
       TypeOK, Capsules, Owned, OneWorker, ClearedByWorker, OnlyTheirs,
       NotInYet, LeftForOther, WorkerClaimed, CopyTells, Claimed, Deciding,
       Working, Tag, TagIs, CopyIs

LEMMA LeaveStep ==
  ASSUME JInv, NEW s \in Sides, Leave(s)
  PROVE  JInv'
BY SidesAre, InUseDiffers, SetTagsAre
   DEF JInv, Leave, Go, OwnerMatches, Untouched, OtherWasFirst, LastOfAll,
       TypeOK, Capsules, Owned, OneWorker, ClearedByWorker, OnlyTheirs,
       NotInYet, LeftForOther, WorkerClaimed, CopyTells, Claimed, Deciding,
       Working, Tag, TagIs, CopyIs

LEMMA CleanupStep ==
  ASSUME JInv, NEW s \in Sides, Cleanup(s)
  PROVE  JInv'
BY SidesAre, InUseDiffers, SetTagsAre
   DEF JInv, Cleanup, Go,
       TypeOK, Capsules, Owned, OneWorker, ClearedByWorker, OnlyTheirs,
       NotInYet, LeftForOther, WorkerClaimed, CopyTells, Claimed, Deciding,
       Working, Tag, TagIs, CopyIs

LEMMA ClearStep ==
  ASSUME JInv, NEW s \in Sides, ClearInUse(s)
  PROVE  JInv'
BY SidesAre, InUseDiffers, SetTagsAre
   DEF JInv, ClearInUse,
       TypeOK, Capsules, Owned, OneWorker, ClearedByWorker, OnlyTheirs,
       NotInYet, LeftForOther, WorkerClaimed, CopyTells, Claimed, Deciding,
       Working, Tag, TagIs, CopyIs

LEMMA HandOverStep ==
  ASSUME JInv, NEW s \in Sides, HandOver(s)
  PROVE  JInv'
BY SidesAre, InUseDiffers, SetTagsAre
   DEF JInv, HandOver, Go,
       TypeOK, Capsules, Owned, OneWorker, ClearedByWorker, OnlyTheirs,
       NotInYet, LeftForOther, WorkerClaimed, CopyTells, Claimed, Deciding,
       Working, Tag, TagIs, CopyIs

LEMMA RestartStep ==
  ASSUME JInv, NEW s \in Sides, Restart(s)
  PROVE  JInv'
BY SidesAre, InUseDiffers, SetTagsAre
   DEF JInv, Restart,
       TypeOK, Capsules, Owned, OneWorker, ClearedByWorker, OnlyTheirs,
       NotInYet, LeftForOther, WorkerClaimed, CopyTells, Claimed, Deciding,
       Working, Tag, TagIs, CopyIs

LEMMA NextInvariant == JInv /\ [Next]_vars => JInv'
<1> SUFFICES ASSUME JInv, [Next]_vars PROVE JInv'
  OBVIOUS
<1>1. CASE UNCHANGED vars
  BY <1>1 DEF vars, JInv, TypeOK, Owned, OneWorker, ClearedByWorker, OnlyTheirs,
     NotInYet, LeftForOther, WorkerClaimed, CopyTells, Claimed, Deciding,
     Working, TagIs, CopyIs
<1>2. ASSUME NEW s \in Sides, Branch(s) PROVE JInv'
  BY <1>2, JoinStep, ReadStep, FirstEditStep, SecondEditStep, TakeWorkStep,
     LeaveStep, CleanupStep, ClearStep, HandOverStep DEF Branch
<1>3. ASSUME NEW s \in Sides, Restart(s) PROVE JInv'
  BY <1>3, RestartStep
<1> QED
  BY <1>1, <1>2, <1>3 DEF Next

\* The invariant holds of every behaviour.
THEOREM JoinInvariance == Spec => []JInv
BY InitInvariant, NextInvariant, PTL DEF Spec

-----------------------------------------------------------------------------
\* What follows from it

LEMMA NotLost == JInv => ContinuationIffOwned
<1> SUFFICES ASSUME JInv,
                    \A s \in Sides : capsule[s] \notin {"branch", "checkOut"}
             PROVE  Cardinality(Working) = IF Owned THEN 1 ELSE 0
  BY DEF ContinuationIffOwned
<1>1. \A s \in Sides : s \in Working \/ capsule[s] = "scheduler"
  BY DEF JInv, TypeOK, Capsules, Working
<1>2. CASE ~Owned
  <2>1. TagIs(2, 0)
    BY <1>2 DEF JInv, OnlyTheirs
  <2>2. Working = {}
    BY <2>1 DEF JInv, WorkerClaimed, Claimed, TagIs, Working
  <2> QED
    BY <1>2, <2>2, FS_EmptySet
<1>3. CASE Owned
  <2>1. \A s \in Sides : s \notin Working => OtherSide(s) \in Working
    BY <1>1, <1>3, SidesAre, InUseDiffers
       DEF JInv, LeftForOther, Claimed, WorkerClaimed, TagIs
  <2>2. PICK s \in Sides : s \in Working
    BY <2>1, SidesAre
  <2>3. Working = {s}
    BY <2>2, SidesAre DEF JInv, OneWorker, Working
  <2> QED
    BY <1>3, <2>3, FS_Singleton
<1> QED
  BY <1>2, <1>3

\* The tag of the set and the copies of it keep the owner the set was acquired
\* for, and are one of the six values that aquireSet, the CAMs of checkOut and
\* cleanupCnt write.
THEOREM TypeCorrect == Spec => []TypeOK
<1>1. JInv => TypeOK
  BY DEF JInv
<1> QED
  BY <1>1, JoinInvariance, PTL

\* When both branches have checked out exactly one of them has the
\* continuation if the set has the owner they expect, and nobody has it if not
\* (checkOut, cleanup).
THEOREM KeptIffOwned == Spec => []ContinuationIffOwned
BY JoinInvariance, NotLost, PTL

LEMMA InitMaps == Init => Abstract!Init
BY DEF Init, Abstract!Init, Arrived, Working, Tag

\* A step that leaves both alone is no step of Join.
LEMMA Stutters ==
  ASSUME UNCHANGED <<Arrived, Working>>
  PROVE  [Abstract!Next]_(Abstract!vars)
BY DEF Abstract!vars

LEMMA FirstEditMaps ==
  ASSUME JInv, NEW s \in Sides, FirstEdit(s)
  PROVE  [Abstract!Next]_(Abstract!vars)
<1>1. Working' = Working
  BY DEF FirstEdit, CamTag, Working
<1>2. CASE tag' = tag
  BY <1>1, <1>2, Stutters DEF Arrived
<1>3. CASE tag' # tag
  <2>1. tag.data = 2 /\ tag'.data = 1 /\ tag'.isLast = InUse(s)
    BY <1>3 DEF FirstEdit, CamTag, Untouched, Tag
  <2>2. Arrived = {} /\ Arrived' = {s}
    BY <2>1, SidesAre, InUseDiffers DEF Arrived
  <2> QED
    BY <1>1, <2>2 DEF Abstract!Next, Abstract!Arrive
<1> QED
  BY <1>2, <1>3

LEMMA SecondEditMaps ==
  ASSUME JInv, NEW s \in Sides, SecondEdit(s)
  PROVE  [Abstract!Next]_(Abstract!vars)
<1>1. Working' = Working
  BY DEF SecondEdit, CamTag, Working
<1>2. CASE tag' = tag
  BY <1>1, <1>2, Stutters DEF Arrived
<1>3. CASE tag' # tag
  <2>1. tag.data = 1 /\ tag.isLast = InUse(OtherSide(s)) /\ tag'.data = 0
    BY <1>3 DEF SecondEdit, CamTag, OtherWasFirst, Tag
  <2>2. Arrived = {OtherSide(s)} /\ Arrived' = Sides
    BY <2>1, SidesAre, InUseDiffers DEF Arrived
  <2> QED
    BY <1>1, <2>2, SidesAre DEF Abstract!Next, Abstract!Arrive
<1> QED
  BY <1>2, <1>3

LEMMA TakeWorkMaps ==
  ASSUME JInv, NEW s \in Sides, TakeWork(s)
  PROVE  [Abstract!Next]_(Abstract!vars)
<1>1. TagIs(0, InUse(s)) /\ tag' = tag
  BY SidesAre, InUseDiffers
     DEF TakeWork, LastOfAll, JInv, CopyTells, CopyIs, TagIs
<1>2. Arrived = Sides /\ Arrived' = Arrived
  BY <1>1 DEF Arrived, TagIs
<1>3. capsule[s] = "checkOut" /\ capsule' = [capsule EXCEPT ![s] = "cleanup"]
  BY DEF TakeWork, Deciding, Go
<1>4. Working = {}
  BY <1>1, <1>3, SidesAre, InUseDiffers
     DEF JInv, WorkerClaimed, Claimed, TagIs, Working
<1>5. Working' = {s}
  BY <1>3, <1>4, SidesAre DEF Working, JInv, TypeOK
<1> QED
  BY <1>2, <1>4, <1>5 DEF Abstract!Next, Abstract!Continue

\* The other steps keep who has arrived and who works.
LEMMA OthersMap ==
  ASSUME JInv, NEW s \in Sides,
         \/ Join(s) \/ Read(s) \/ Leave(s) \/ Cleanup(s) \/ ClearInUse(s)
         \/ HandOver(s) \/ Restart(s)
  PROVE  [Abstract!Next]_(Abstract!vars)
<1>1. Working' = Working
  BY DEF Join, Read, Leave, Cleanup, ClearInUse, HandOver, Restart, Go, Working,
     JInv, TypeOK, Deciding
<1>2. Arrived' = Arrived
  <2>1. CASE ClearInUse(s)
    <3>1. tag.data = 0
      BY <2>1 DEF ClearInUse, JInv, WorkerClaimed, Claimed, TagIs, Working
    <3>2. tag' = [tag EXCEPT !.isLast = 0] /\ tag \in SetTags(tag.owner)
      BY <2>1, SetTagsAre DEF ClearInUse, JInv, TypeOK, Tag
    <3>3. tag'.data = 0
      BY <3>1, <3>2, SetTagsAre DEF Tag
    <3> QED
      BY <3>1, <3>3 DEF Arrived
  <2>2. CASE ~ClearInUse(s)
    BY <2>2 DEF Join, Read, Leave, Cleanup, HandOver, Restart, Arrived
  <2> QED
    BY <2>1, <2>2
<1> QED
  BY <1>1, <1>2, Stutters

LEMMA NextMaps == JInv /\ [Next]_vars => [Abstract!Next]_(Abstract!vars)
<1> SUFFICES ASSUME JInv, [Next]_vars PROVE [Abstract!Next]_(Abstract!vars)
  OBVIOUS
<1>1. CASE UNCHANGED vars
  BY <1>1, Stutters DEF vars, Arrived, Working
<1>2. ASSUME NEW s \in Sides, Branch(s) \/ Restart(s)
      PROVE  [Abstract!Next]_(Abstract!vars)
  BY <1>2, FirstEditMaps, SecondEditMaps, TakeWorkMaps, OthersMap DEF Branch
<1> QED
  BY <1>1, <1>2 DEF Next

\* join, checkOut and cleanup never run the continuation twice and never before
\* both branches have arrived, whoever owns the set.
THEOREM JoinRefinement == Spec => ImplementsJoin
BY InitMaps, NextMaps, JoinInvariance, PTL
   DEF Spec, ImplementsJoin, Abstract!Spec
=============================================================================
