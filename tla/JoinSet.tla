------------------------------- MODULE JoinSet -------------------------------
(***************************************************************************)
(* The two branches of a fork meet at their set: join, checkOut, cleanup   *)
(* and cleanupCnt of set.c, from the moment the fork has its set           *)
(* (aquireSet, gotSet) until the continuation goes to singleJobPush.       *)
(*                                                                         *)
(* The branches are threads of different processes.  A step reads or       *)
(* writes the tag of the set once.  A branch may be restarted at the start *)
(* of its capsule any time, by a soft fault or because its process died    *)
(* and a grave robber took the thread over; its arguments are on the       *)
(* persistent stack and stay.  The continuation in the set is written by   *)
(* gotSet before the branches exist and is left out.                       *)
(*                                                                         *)
(* The owner in the tag is what aquireSet popped; the owner the branches   *)
(* expect is what their capsules inherit.  No code makes the two the same, *)
(* so they are chosen independently.                                       *)
(***************************************************************************)
EXTENDS Integers, FiniteSets

CONSTANTS
  Owners,       \* owner tags: values of tagAndData.owner and expectedOwner
  MaxRestarts   \* bound: how many restarts happen

VARIABLES
  tag,       \* tagAndData of the set
  expected,  \* expectedOwner, which both branches have from the same fork
  capsule,   \* capsule[s]: the capsule installed for branch s
  step,      \* step[s]: how far the capsule of s has got
  current,   \* current[s]: the copy of the tag checkOut of s works with
  restarts

vars == <<tag, expected, capsule, step, current, restarts>>

ASSUME RestartsAssumption == MaxRestarts \in Nat

Sides == 0 .. 1

\* (~mySide) & 0x01
OtherSide(s) == 1 - s

\* isLast: 0x02 | mySide when the set is in use, 0 when it is not
InUse(s) == 2 + s

Tag(owner, data, isLast) ==
  [owner |-> owner, data |-> data, isLast |-> isLast]

Capsules == {"branch", "checkOut", "cleanup", "cleanupCnt", "singleJobPush",
             "scheduler"}

\* As aquireSet leaves the set, for whichever owner it found on the stack.
Init ==
  /\ \E newOwner \in Owners : tag = Tag(newOwner, 2, 0)
  /\ expected \in Owners
  /\ capsule = [s \in Sides |-> "branch"]
  /\ step = [s \in Sides |-> "start"]
  /\ current = [s \in Sides |-> tag]
  /\ restarts = 0

\* The capsule of s returns; g is installed for s.
Go(s, g) ==
  /\ capsule' = [capsule EXCEPT ![s] = g]
  /\ step' = [step EXCEPT ![s] = "start"]
  /\ UNCHANGED <<expected, current, restarts>>

\* The branch ends in join: side, owner and set come from its capsule.
Join(s) ==
  /\ capsule[s] = "branch"
  /\ Go(s, "checkOut")
  /\ UNCHANGED tag

-----------------------------------------------------------------------------
\* checkOut: read the tag, decide by the copy, edit by CAM and go around again

Read(s) ==
  /\ capsule[s] = "checkOut"
  /\ step[s] = "start"
  /\ current' = [current EXCEPT ![s] = tag]
  /\ step' = [step EXCEPT ![s] = "decide"]
  /\ UNCHANGED <<tag, expected, capsule, restarts>>

Deciding(s) == capsule[s] = "checkOut" /\ step[s] = "decide"

\* Slip: a plain store instead of a CAM.
StoreTag(s, rep) ==
  /\ tag' = rep
  /\ step' = [step EXCEPT ![s] = "start"]
  /\ UNCHANGED <<expected, capsule, current, restarts>>

\* CAM(&(ptr->tagAndData), current, rep)
CamTag(s, rep) ==
  /\ tag' = IF tag = current[s] THEN rep ELSE tag
  /\ step' = [step EXCEPT ![s] = "start"]
  /\ UNCHANGED <<expected, capsule, current, restarts>>

\* current.owner == expectedOwner
OwnerMatches(s) == current[s].owner = expected

Untouched(s) == current[s].data = 2

\* "I am second to arrive and the other guy has edited"
OtherWasFirst(s) ==
  current[s].data = 1 /\ current[s].isLast = InUse(OtherSide(s))

\* Slip: the counter alone tells who was last.
AnyoneWasLast(s) == current[s].data = 0

\* "I was last edit and last to arrive, do the work"
LastOfAll(s) == current[s].data = 0 /\ current[s].isLast = InUse(s)

FirstEdit(s) ==
  /\ Deciding(s)
  /\ OwnerMatches(s)
  /\ Untouched(s)
  /\ CamTag(s, Tag(expected, 1, InUse(s)))

\* Slip: the second edit is credited to the other branch.
SecondEditForOther(s) ==
  /\ Deciding(s)
  /\ OwnerMatches(s)
  /\ OtherWasFirst(s)
  /\ CamTag(s, Tag(expected, 0, InUse(OtherSide(s))))

SecondEdit(s) ==
  /\ Deciding(s)
  /\ OwnerMatches(s)
  /\ OtherWasFirst(s)
  /\ CamTag(s, Tag(expected, 0, InUse(s)))

TakeWork(s) ==
  /\ Deciding(s)
  /\ OwnerMatches(s)
  /\ LastOfAll(s)
  /\ Go(s, "cleanup")
  /\ UNCHANGED tag

\* All the other cases go to the scheduler: the work is the other branch's, or
\* the set has another owner ("someone else has moved in").
Leave(s) ==
  /\ Deciding(s)
  /\ OwnerMatches(s)
       => ~(Untouched(s) \/ OtherWasFirst(s) \/ LastOfAll(s))
  /\ Go(s, "scheduler")
  /\ UNCHANGED tag

-----------------------------------------------------------------------------
\* The last one cleans up.

Cleanup(s) ==
  /\ capsule[s] = "cleanup"
  /\ Go(s, "cleanupCnt")
  /\ UNCHANGED tag

\* Slip: the in use bit alone is cleared.
ClearBit(s) ==
  /\ capsule[s] = "cleanupCnt"
  /\ step[s] = "start"
  /\ tag' = [tag EXCEPT !.isLast = @ - 2]
  /\ step' = [step EXCEPT ![s] = "cleared"]
  /\ UNCHANGED <<expected, capsule, current, restarts>>

ClearInUse(s) ==
  /\ capsule[s] = "cleanupCnt"
  /\ step[s] = "start"
  /\ tag' = [tag EXCEPT !.isLast = 0]
  /\ step' = [step EXCEPT ![s] = "cleared"]
  /\ UNCHANGED <<expected, capsule, current, restarts>>

HandOver(s) ==
  /\ capsule[s] = "cleanupCnt"
  /\ step[s] = "cleared"
  /\ Go(s, "singleJobPush")
  /\ UNCHANGED tag

\* The capsule of s is run from its start again.
Restart(s) ==
  /\ step[s] # "start"
  /\ restarts < MaxRestarts
  /\ restarts' = restarts + 1
  /\ step' = [step EXCEPT ![s] = "start"]
  /\ UNCHANGED <<tag, expected, capsule, current>>

-----------------------------------------------------------------------------

Branch(s) ==
  \/ Join(s)
  \/ Read(s) \/ FirstEdit(s) \/ SecondEdit(s) \/ TakeWork(s) \/ Leave(s)
  \/ Cleanup(s) \/ ClearInUse(s) \/ HandOver(s)

Next == \E s \in Sides : Branch(s) \/ Restart(s)

Spec == Init /\ [][Next]_vars

\* Somebody runs every thread that can run, and it faults finitely often.
FairSpec == Spec /\ \A s \in Sides : WF_vars(Branch(s))

-----------------------------------------------------------------------------
\* Properties

\* The values the tag of a set acquired for o can have: two edits and one
\* clearing, starting from what aquireSet wrote.
SetTags(o) ==
  {Tag(o, 2, 0), Tag(o, 0, 0)}
    \union {Tag(o, data, InUse(s)) : data \in 0 .. 1, s \in Sides}

\* The set keeps its owner, and the tag and its copies are values that
\* aquireSet, the CAMs of checkOut and cleanupCnt write.
TypeOK ==
  /\ \E o \in Owners : tag \in SetTags(o) /\ current \in [Sides -> SetTags(o)]
  /\ expected \in Owners
  /\ capsule \in [Sides -> Capsules]
  /\ step \in [Sides -> {"start", "decide", "cleared"}]
  /\ restarts \in 0 .. MaxRestarts

\* The set was acquired for the owner the branches expect.
Owned == tag.owner = expected

Working ==
  {s \in Sides : capsule[s] \in {"cleanup", "cleanupCnt", "singleJobPush"}}

\* checkOut: a branch is "free to go" only because the other one does the work.
\* When both have checked out exactly one has the continuation, whichever
\* CAMs failed and whoever was restarted between its CAM and reading it back;
\* but if the owner of the set is not the one they expect, nobody has it, as
\* each takes the other for the one that "has cleaned up".
ContinuationIffOwned ==
  (\A s \in Sides : capsule[s] \notin {"branch", "checkOut"})
    => Cardinality(Working) = IF Owned THEN 1 ELSE 0

\* The branches that have checked out, read off the tag.
Arrived ==
  {s \in Sides : tag.data = 0 \/ (tag.data = 1 /\ tag.isLast = InUse(s))}

Abstract == INSTANCE Join WITH arrived <- Arrived, workers <- Working

\* The continuation runs at most once, after both branches have arrived,
\* whoever owns the set.
ImplementsJoin == Abstract!Spec

\* When both branches reach their join, going "around again" in checkOut ends
\* for both, and if the set is theirs the continuation is handed to the
\* scheduler.
JoinCompletes ==
  (\A s \in Sides : capsule[s] # "branch")
    ~> /\ \A s \in Sides : capsule[s] \in {"scheduler", "singleJobPush"}
       /\ Owned => \E s \in Sides : capsule[s] = "singleJobPush"

-----------------------------------------------------------------------------
\* The inductive invariant

TagIs(data, isLast) == tag.data = data /\ tag.isLast = isLast
CopyIs(s, data, isLast) ==
  current[s].data = data /\ current[s].isLast = isLast

\* s made the last edit of all, and has or gets the continuation.
Claimed(s) == TagIs(0, InUse(s)) \/ (TagIs(0, 0) /\ s \in Working)

NotInYet(s) ==
  capsule[s] = "branch" => TagIs(2, 0) \/ TagIs(1, InUse(OtherSide(s)))

\* A branch that has left was first, or the other one has claimed the work,
\* or the set was never theirs.
LeftForOther(s) ==
  capsule[s] = "scheduler"
    => TagIs(1, InUse(s)) \/ Claimed(OtherSide(s)) \/ ~Owned

WorkerClaimed(s) == s \in Working => Claimed(s)

\* What the copy checkOut decides by still says about the tag.
CopyTells(s) ==
  LET o == OtherSide(s) IN
  Deciding(s) =>
    /\ current[s].owner = tag.owner
    /\ \/ CopyIs(s, 2, 0)
       \/ CopyIs(s, 1, InUse(s)) /\ (tag = current[s] \/ Claimed(o))
       \/ (CopyIs(s, 1, InUse(o)) \/ CopyIs(s, 0, InUse(s))) /\ tag = current[s]
       \/ (CopyIs(s, 0, InUse(o)) \/ CopyIs(s, 0, 0)) /\ Claimed(o)

OneWorker == ~(0 \in Working /\ 1 \in Working)

ClearedByWorker == TagIs(0, 0) => Working # {}

\* A set that is not theirs stays as it was acquired.
OnlyTheirs == ~Owned => TagIs(2, 0)

JInv ==
  /\ TypeOK
  /\ OneWorker
  /\ ClearedByWorker
  /\ OnlyTheirs
  /\ \A s \in Sides :
       NotInYet(s) /\ LeftForOther(s) /\ WorkerClaimed(s) /\ CopyTells(s)
=============================================================================
