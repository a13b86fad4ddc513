------------------------------ MODULE WorkDeque ------------------------------
(***************************************************************************)
(* What the deque of a process promises (scheduler.h and the comments of   *)
(* scheduler.c): its owner puts a job below all others when it forks, and  *)
(* takes the lowest one when its own has ended; other processes take any   *)
(* one; every job is taken by one process.  When the owner has died, the   *)
(* thread it was running is taken too, and entries may be emptied.         *)
(***************************************************************************)
EXTENDS Naturals

CONSTANT Places

VARIABLES
  ready,   \* the places of the jobs that wait
  stolen,  \* the places of the jobs that others have taken
  owner    \* working, looking for a job here, or away, or dead

vars == <<ready, stolen, owner>>

Init ==
  /\ ready = {}
  /\ stolen = {}
  /\ owner = "working"

Becomes(a, b) == owner = a /\ owner' = b

\* A fork leaves one of its branches and runs the other one.
PushBottom ==
  /\ owner = "working"
  /\ \E i \in Places : (\A j \in ready \union stolen : j < i) /\ ready' = ready \union {i}
  /\ UNCHANGED <<stolen, owner>>

PopBottom ==
  /\ Becomes("looking", "working")
  /\ \E i \in ready : (\A j \in ready \union stolen : j <= i) /\ ready' = ready \ {i}
  /\ UNCHANGED stolen

\* The owner's job ends; it finds none here; it gets one from somewhere else.
Finish == Becomes("working", "looking") /\ UNCHANGED <<ready, stolen>>
GiveUp == Becomes("looking", "away") /\ UNCHANGED <<ready, stolen>>
Obtain == Becomes("away", "working") /\ UNCHANGED <<ready, stolen>>

PopTop ==
  \E i \in ready :
    /\ ready' = ready \ {i}
    /\ stolen' = stolen \union {i}
    /\ UNCHANGED owner

Die == owner # "dead" /\ owner' = "dead" /\ UNCHANGED <<ready, stolen>>

Rob ==
  /\ owner = "dead"
  /\ \E i \in Places \ ready : stolen' = stolen \union {i}
  /\ UNCHANGED <<ready, owner>>

Clear ==
  /\ owner = "dead"
  /\ \E i \in Places : ready' = ready \ {i} /\ stolen' = stolen \ {i}
  /\ UNCHANGED owner

Next ==
  \/ PushBottom \/ PopBottom \/ Finish \/ GiveUp \/ Obtain \/ PopTop \/ Die \/ Rob
  \/ Clear

Spec == Init /\ [][Next]_vars
=============================================================================
