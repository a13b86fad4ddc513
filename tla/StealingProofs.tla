--------------------------- MODULE StealingProofs ---------------------------
(***************************************************************************)
(* Theorems about Stealing, for any number of thieves, any size of the     *)
(* deque and any counters.                                                 *)
(***************************************************************************)
EXTENDS Stealing, TLAPS

LEMMA MadeTag ==
  ASSUME NEW id \in Ids, NEW tag \in Tag
  PROVE  Made(id, tag) \in Tag /\ Made(id, tag).id = id
BY DEF Made, Tag, Up, Counter

LEMMA TakenTag ==
  ASSUME NEW c \in Counter
  PROVE  Taken(c) \in Tag /\ Taken(c).id = "taken" /\ Taken(c).counter = c
BY DEF Taken, Tag, Ids

LEMMA BlankEntry == Blank \in Entry /\ Blank.tag \in Tag /\ Is("empty", Blank)
BY DEF Blank, Entry, Tag, Ids, Counter, Targets, Is

LEMMA Room == 0 \in 0 .. MaxTop /\ 0 \in Places /\ 0 .. MaxTop \subseteq Places
              /\ \A i \in 0 .. MaxTop : i + 1 \in Places
BY SizeAssumption, BoundsAssumption DEF Places

LEMMA EntryParts ==
  ASSUME NEW e \in Entry
  PROVE  /\ e.tag \in Tag /\ e.target \in Targets
         /\ e.tag.id \in Ids /\ e.tag.counter \in Counter
BY DEF Entry, Tag

\* A CAM of a target leaves the tags alone.
LEMMA CamTargetEffect ==
  ASSUME deque \in [Places -> Entry], NEW i \in Places, NEW old, NEW new \in Targets,
         CamTarget(i, old, new)
  PROVE  /\ deque' \in [Places -> Entry]
         /\ \A j \in Places : /\ deque'[j].tag = deque[j].tag
                              /\ j # i => deque'[j] = deque[j]
         /\ deque'[i].target \in {deque[i].target, new}
         /\ deque[i].target # old => deque' = deque
BY DEF CamTarget, Entry

\* A CAM of a tag leaves the targets alone.
LEMMA CamTagEffect ==
  ASSUME deque \in [Places -> Entry], NEW i \in Places, NEW old, NEW new \in Tag,
         CamTag(i, old, new)
  PROVE  /\ deque' \in [Places -> Entry]
         /\ \A j \in Places : /\ deque'[j].target = deque[j].target
                              /\ j # i => deque'[j] = deque[j]
         /\ deque[i].tag = old => deque'[i].tag = new
         /\ deque[i].tag # old => deque' = deque
BY DEF CamTag, Entry

\* Putting a new tag into an entry.
LEMMA MadeEffect ==
  ASSUME deque \in [Places -> Entry], NEW i \in Places, NEW id \in Ids,
         deque' = [deque EXCEPT ![i].tag = Made(id, @)]
  PROVE  /\ deque' \in [Places -> Entry]
         /\ \A j \in Places : /\ deque'[j].target = deque[j].target
                              /\ j # i => deque'[j] = deque[j]
         /\ deque'[i].tag = Made(id, deque[i].tag)
         /\ deque'[i].tag.id = id
<1>1. deque[i].tag \in Tag
  BY EntryParts
<1>2. Made(id, deque[i].tag) \in Tag /\ Made(id, deque[i].tag).id = id
  BY <1>1, MadeTag
<1> QED
  BY <1>2 DEF Entry

\* Writing a whole entry that was read before, with a new tag.
LEMMA WriteEffect ==
  ASSUME deque \in [Places -> Entry], NEW i \in Places, NEW id \in Ids, NEW e \in Entry,
         deque' = [deque EXCEPT ![i] = [e EXCEPT !.tag = Made(id, @)]]
  PROVE  /\ deque' \in [Places -> Entry]
         /\ \A j \in Places : j # i => deque'[j] = deque[j]
         /\ deque'[i].tag.id = id
<1>1. Made(id, e.tag) \in Tag /\ Made(id, e.tag).id = id
  BY EntryParts, MadeTag
<1>2. /\ [e EXCEPT !.tag = Made(id, @)] \in Entry
      /\ [e EXCEPT !.tag = Made(id, @)].tag.id = id
  BY <1>1 DEF Entry
<1> QED
  BY <1>2

LEMMA ClearBelowEffect ==
  ASSUME deque \in [Places -> Entry], NEW p \in Thieves, thief[p] \in ThiefStates,
         ClearBelow(p)
  PROVE  LET i == thief[p].place + 1
         IN  /\ i \in Places /\ i > 0 /\ deque' \in [Places -> Entry]
             /\ \A j \in Places : j # i => deque'[j] = deque[j]
             /\ deque'[i].tag.id = "empty"
<1> DEFINE i == thief[p].place + 1
           e == thief[p].seen
<1>1. i \in Places /\ i > 0 /\ "empty" \in Ids /\ e \in Entry
  BY Room DEF Ids, ThiefStates
<1>2. deque' = [deque EXCEPT ![i] = [e EXCEPT !.tag = Made("empty", @)]]
  BY DEF ClearBelow
<1> HIDE DEF i, e
<1>3. /\ deque' \in [Places -> Entry] /\ deque'[i].tag.id = "empty"
      /\ \A j \in Places : j # i => deque'[j] = deque[j]
  BY <1>1, <1>2, WriteEffect
<1> QED
  BY <1>1, <1>3 DEF i

LEMMA PushBelowEffect ==
  ASSUME deque \in [Places -> Entry], bot \in Places, owner.next \in Entry, OwnerPlace,
         PushBelow
  PROVE  /\ owner.place = bot /\ bot + 1 \in Places /\ bot' = bot + 1
         /\ deque' \in [Places -> Entry]
         /\ \A j \in Places : j # bot + 1 => deque'[j] = deque[j]
         /\ deque'[bot + 1].tag.id = "local"
<1> DEFINE e == owner.next
<1>1. owner.place = bot /\ bot + 1 \in Places /\ bot' = bot + 1
  BY SizeAssumption DEF PushBelow, OwnerPlace, At, Places
<1>2. /\ deque' = [deque EXCEPT ![bot + 1] = [e EXCEPT !.tag = Made("local", @)]]
      /\ "local" \in Ids /\ e \in Entry
  BY <1>1 DEF PushBelow, Ids
<1> HIDE DEF e
<1>3. /\ deque' \in [Places -> Entry] /\ deque'[bot + 1].tag.id = "local"
      /\ \A j \in Places : j # bot + 1 => deque'[j] = deque[j]
  BY <1>1, <1>2, WriteEffect
<1> QED
  BY <1>1, <1>3

LEMMA PushTagEffect ==
  ASSUME deque \in [Places -> Entry], owner.place \in Places, owner.copy.tag \in Tag,
         OwnerPlace, PushTag
  PROVE  /\ owner.place + 1 = bot /\ deque' \in [Places -> Entry]
         /\ Is("local", owner.copy) /\ deque[owner.place].tag = owner.copy.tag
         /\ \A j \in Places : j # owner.place => deque'[j] = deque[j]
         /\ deque'[owner.place].tag.id = "scheduled"
<1>1. /\ owner.place + 1 = bot
      /\ Is("local", owner.copy) /\ deque[owner.place].tag = owner.copy.tag
  BY DEF PushTag, OwnerPlace, At
<1>2. /\ Made("scheduled", owner.copy.tag) \in Tag
      /\ Made("scheduled", owner.copy.tag).id = "scheduled"
  BY MadeTag DEF Ids
<1>3. CamTag(owner.place, owner.copy.tag, Made("scheduled", owner.copy.tag))
  BY DEF PushTag
<1> QED
  BY <1>1, <1>2, <1>3, CamTagEffect

LEMMA SjpTagEffect ==
  ASSUME deque \in [Places -> Entry], owner.place \in Places, owner.next.tag \in Tag,
         SjpTag
  PROVE  /\ deque' \in [Places -> Entry]
         /\ \A j \in Places : j # owner.place => deque'[j] = deque[j]
         /\ \/ deque'[owner.place].tag = deque[owner.place].tag
            \/ deque'[owner.place].tag.id = "local"
<1>1. /\ Made("local", owner.next.tag) \in Tag
      /\ Made("local", owner.next.tag).id = "local"
  BY MadeTag DEF Ids
<1>2. CamTag(owner.place, owner.copy.tag, Made("local", owner.next.tag))
  BY DEF SjpTag
<1> QED
  BY <1>1, <1>2, CamTagEffect

LEMMA PopTagEffect ==
  ASSUME deque \in [Places -> Entry], bot \in Places, owner.copy.tag \in Tag,
         OwnerPlace, PopTag
  PROVE  /\ owner.place = bot /\ bot > 0 /\ bot - 1 \in Places
         /\ Is("scheduled", owner.copy) /\ Claimed.id = "local"
         /\ deque[bot - 1].tag = owner.copy.tag \/ Is("taken", deque[bot - 1])
         /\ deque' \in [Places -> Entry]
         /\ \A j \in Places : j # bot - 1 => deque'[j] = deque[j]
         /\ deque[bot - 1].tag = owner.copy.tag => deque'[bot - 1].tag = Claimed
         /\ deque[bot - 1].tag # owner.copy.tag => deque' = deque
<1>1. /\ owner.place = bot /\ bot > 0 /\ Is("scheduled", owner.copy)
      /\ deque[bot - 1].tag = owner.copy.tag \/ Is("taken", deque[bot - 1])
  BY DEF PopTag, OwnerPlace, At
<1>2. bot - 1 \in Places
  BY <1>1, SizeAssumption DEF Places
<1>3. Claimed \in Tag /\ Claimed.id = "local"
  BY MadeTag DEF Claimed, Ids
<1>4. CamTag(bot - 1, owner.copy.tag, Claimed)
  BY <1>1 DEF PopTag
<1> QED
  BY <1>1, <1>2, <1>3, <1>4, CamTagEffect

-----------------------------------------------------------------------------
\* What a step leaves alone

LEMMA ThiefParts ==
  ASSUME NEW p \in Thieves, Thief(p) \/ ThiefDies(p)
  PROVE  /\ UNCHANGED <<bot, top, live, owner>>
         /\ ClearBelow(p) \/ TakeTarget(p) \/ TakeTag(p) \/ UNCHANGED deque
         /\ HelpMark(p) \/ ThiefSCnt(p) \/ UNCHANGED local
         /\ TakeTag(p) \/ UNCHANGED taken
         /\ Win(p) \/ UNCHANGED won
BY DEF Thief, Thieving, ThiefDies, StealLoop, HelpTop, HelpLook, HelpNobody, HelpRead,
       HelpMark, StealPlace, StealTop, StealNothing, StealTaken, StealScheduled,
       StealLocal, StackChanged, StackSame, NotOrphaned, FoundOrphan, GraveRob,
       ClearBelow, TakeTarget, TakeLook, TakeTag, Lost, Win, ThiefScheduler, ThiefSCnt,
       Help, Helped, Retry, Copies, To, Step, ownerVars

LEMMA OwnerParts ==
  ASSUME Owner
  PROVE  /\ UNCHANGED <<live, local, thief, taken, won>>
         /\ HelpElsewhere \/ UNCHANGED top
         /\ \/ PushBelow \/ PushTarget \/ PushTag \/ SCnt \/ PopTag
            \/ SjpTarget \/ SjpTag \/ Obtain
            \/ UNCHANGED deque
BY DEF Owner, Fork, PushBottom, PushAgain, PushStart, ReadBelow, PushBelow, PushTarget,
       PushLook, PushTag, Scheduler, SCnt, PopFirst, PopBottom, PopNothing, PopLook,
       PopTag, PopDone, PopFailed, SingleJobPush, SjpCounter, SjpTarget, SjpLook, SjpTag,
       Obtain, HelpElsewhere, Go, Settle, Copy, ownerVars, thiefVars

-----------------------------------------------------------------------------
\* Types

Thens == {"stealLoop", "steal", "compare", "thread", "sCnt", "lost", "dead"}

\* The states of a thief that a step may leave it in.
LEMMA FreshState ==
  ASSUME NEW s \in {"stealLoop", "thread", "lost", "dead"}
  PROVE  /\ Fresh(s) \in ThiefStates /\ Fresh(s).at = s
         /\ Fresh(s).place = 0 /\ Fresh(s).spot = 0
BY BlankEntry, Room DEF Fresh, ThiefStates, Counter

LEMMA FreshHelp ==
  ASSUME NEW c \in Counter,
         NEW x, x = [Fresh("help") EXCEPT !.then = "steal", !.counter = c]
  PROVE  /\ x \in ThiefStates /\ x.at = "help" /\ x.then = "steal" /\ x.counter = c
         /\ x.place = 0 /\ x.spot = 0
<1>1. Fresh("help") \in [at : {"help"}, then : {"help"}, counter : Counter, place : {0},
                         spot : {0}, copy : Entry, seen : Entry, mark : Tag]
  BY BlankEntry DEF Fresh, Counter
<1>2. x \in [at : {"help"}, then : {"steal"}, counter : {c}, place : {0},
             spot : {0}, copy : Entry, seen : Entry, mark : Tag]
  BY <1>1
<1> QED
  BY <1>2, Room DEF ThiefStates

LEMMA FreshSCnt ==
  ASSUME NEW m \in Tag, NEW x, x = [Fresh("sCnt") EXCEPT !.mark = m]
  PROVE  x \in ThiefStates /\ x.at = "sCnt" /\ x.mark = m /\ x.place = 0 /\ x.spot = 0
<1>1. Fresh("sCnt") \in [at : {"sCnt"}, then : {"sCnt"}, counter : Counter, place : {0},
                         spot : {0}, copy : Entry, seen : Entry, mark : Tag]
  BY BlankEntry DEF Fresh, Counter
<1>2. x \in [at : {"sCnt"}, then : {"sCnt"}, counter : Counter, place : {0},
             spot : {0}, copy : Entry, seen : Entry, mark : {m}]
  BY <1>1
<1> QED
  BY <1>2, Room DEF ThiefStates

\* The changes that steps make to the state of a thief.
LEMMA ToFields ==
  ASSUME thief \in [Thieves -> ThiefStates], NEW p \in Thieves, NEW s,
         thief' = [thief EXCEPT ![p].at = s] \/ To(p, s)
  PROVE  LET y == thief'[p]
         IN  /\ y.at = s /\ y.then = thief[p].then /\ y.counter = thief[p].counter
             /\ y.place = thief[p].place /\ y.copy = thief[p].copy
             /\ y.spot = thief[p].spot
             /\ y.seen = thief[p].seen /\ y.mark = thief[p].mark
             /\ \A q \in Thieves : q # p => thief'[q] = thief[q]
BY DEF To, Step, ThiefStates

LEMMA HelpFields ==
  ASSUME thief \in [Thieves -> ThiefStates], NEW p \in Thieves, NEW s, Help(p, s)
  PROVE  LET y == thief'[p]
         IN  /\ y.at = "help" /\ y.then = s /\ y.counter = thief[p].counter
             /\ y.place = thief[p].place /\ y.copy = thief[p].copy
             /\ y.spot = thief[p].spot
             /\ \A q \in Thieves : q # p => thief'[q] = thief[q]
BY DEF Help, Step, ThiefStates

LEMMA HelpedFields ==
  ASSUME thief \in [Thieves -> ThiefStates], NEW p \in Thieves, Helped(p)
  PROVE  LET y == thief'[p]
         IN  /\ y.at = thief[p].then /\ y.counter = thief[p].counter
             /\ y.place = thief[p].place /\ y.copy = thief[p].copy
             /\ y.spot = 0
             /\ \A q \in Thieves : q # p => thief'[q] = thief[q]
BY DEF Helped, Step, ThiefStates

LEMMA CopiesFields ==
  ASSUME thief \in [Thieves -> ThiefStates], NEW p \in Thieves, NEW s, Copies(p, s)
  PROVE  LET y == thief'[p]
         IN  /\ y.at = s /\ y.counter = thief[p].counter
             /\ y.place = thief[p].place /\ y.spot = 0
             /\ y.copy = deque[thief[p].spot]
             /\ \A q \in Thieves : q # p => thief'[q] = thief[q]
BY DEF Copies, Step, ThiefStates

LEMMA OthersStay ==
  ASSUME thief \in [Thieves -> ThiefStates], NEW p \in Thieves, Thief(p) \/ ThiefDies(p)
  PROVE  \A q \in Thieves : q # p => thief'[q] = thief[q]
BY DEF Thief, Thieving, ThiefDies, StealLoop, HelpTop, HelpLook, HelpNobody, HelpRead,
       HelpMark, StealPlace, StealTop, StealNothing, StealTaken, StealScheduled,
       StealLocal, StackChanged, StackSame, NotOrphaned, FoundOrphan, GraveRob,
       ClearBelow, TakeTarget, TakeLook, TakeTag, Lost, Win, ThiefScheduler, ThiefSCnt,
       Help, Helped, Retry, Copies, To, Step

LEMMA ThiefState ==
  ASSUME NEW x \in ThiefStates
  PROVE  /\ x.counter \in Counter /\ x.place \in 0 .. MaxTop /\ x.place \in Places
         /\ x.spot \in 0 .. MaxTop /\ x.spot \in Places
         /\ x.copy \in Entry /\ x.seen \in Entry /\ x.mark \in Tag
         /\ x.then \in Thens
BY Room DEF ThiefStates, Thens

LEMMA OtherSteps ==
  ASSUME TypeOK, NEW p \in Thieves, NEW new \in ThiefStates, Step(p, new),
         deque' \in [Places -> Entry], local' \in [Thieves -> Tag],
         taken' \subseteq Thefts, won' \subseteq Thefts
  PROVE  TypeOK'
BY DEF TypeOK, Step, ownerVars

LEMMA TypeThief == ASSUME DequeInv, NEW p \in Thieves, Thief(p) PROVE TypeOK'
<1> DEFINE x == thief[p]
<1>1. /\ deque \in [Places -> Entry] /\ local \in [Thieves -> Tag]
      /\ x \in ThiefStates /\ top \in 0 .. MaxTop /\ top \in Places
      /\ taken \subseteq Thefts /\ won \subseteq Thefts /\ TypeOK
  BY Room DEF DequeInv, TypeOK
<1>2. local[p] \in Tag /\ local[p].counter \in Counter
  BY <1>1 DEF Tag
<1>3. Blank \in Entry /\ Blank.tag \in Tag
  BY BlankEntry
<1>4. /\ x.counter \in Counter /\ x.place \in 0 .. MaxTop /\ x.place \in Places
      /\ x.copy \in Entry /\ x.seen \in Entry /\ x.mark \in Tag
      /\ deque[x.spot] \in Entry /\ deque[x.place + 1] \in Entry
  BY <1>1, ThiefState, Room
<1>5. Theft(p) \in Thefts
  BY <1>4, EntryParts DEF Theft, Thefts
<1>6. Fresh("stealLoop") \in ThiefStates /\ Fresh(Prize(p)) \in ThiefStates
  BY FreshState DEF Prize
<1>7. Retry(p) => Step(p, Fresh("stealLoop"))
  BY DEF Retry
<1>8. ASSUME NEW s \in {"isLive", "graveRob", "look", "tag", "compare"}
      PROVE  [x EXCEPT !.at = s] \in ThiefStates
  BY <1>1 DEF ThiefStates
<1>9. ASSUME NEW s \in {"stealLoop", "compare"}
      PROVE  [x EXCEPT !.at = "help", !.then = s] \in ThiefStates
  BY <1>1 DEF ThiefStates
<1>10. [x EXCEPT !.at = x.then, !.then = "stealLoop", !.spot = 0, !.seen = Blank,
                 !.mark = Blank.tag] \in ThiefStates
  BY <1>1, <1>3, Room DEF ThiefStates
<1>11. CASE StealLoop(p)
  BY <1>1, <1>2, <1>11, FreshHelp, OtherSteps DEF StealLoop
<1>12. CASE HelpTop(p) \/ StealTop(p)
  <2>1. ASSUME NEW s \in {"helpLook", "stealCopy"}
        PROVE  [x EXCEPT !.at = s, !.spot = top] \in ThiefStates
    BY <1>1 DEF ThiefStates
  <2> QED
    BY <1>1, <1>12, <2>1, OtherSteps DEF HelpTop, StealTop
<1>13. CASE HelpLook(p)
  <2>1. [x EXCEPT !.at = "helpRead", !.spot = 0, !.seen = deque[x.spot]] \in ThiefStates
    BY <1>1, <1>4, Room DEF ThiefStates
  <2> QED
    BY <1>1, <1>13, <2>1, OtherSteps DEF HelpLook
<1>14. CASE HelpNobody(p)
  BY <1>1, <1>10, <1>14, OtherSteps DEF HelpNobody, Helped
<1>15. CASE HelpRead(p)
  <2>1. x.seen.target \in Thieves
    BY <1>15 DEF DequeInv, ThiefCopy, HelpRead, Doing
  <2>2. Made("local", local[x.seen.target]) \in Tag
    BY <1>1, <2>1, MadeTag DEF Ids
  <2>3. [x EXCEPT !.at = "helpMark", !.mark = Made("local", local[x.seen.target])]
          \in ThiefStates
    BY <1>1, <2>2 DEF ThiefStates
  <2> QED
    BY <1>1, <1>15, <2>3, OtherSteps DEF HelpRead
<1>16. CASE HelpMark(p)
  <2>1. local' \in [Thieves -> Tag]
    BY <1>1, <1>4, <1>16 DEF HelpMark
  <2> QED
    BY <1>1, <1>10, <1>16, <2>1, OtherSteps DEF HelpMark, Helped
<1>17. CASE StealPlace(p)
  <2>1. [x EXCEPT !.at = "stealTop", !.place = top] \in ThiefStates
    BY <1>1 DEF ThiefStates
  <2> QED
    BY <1>1, <1>17, <2>1, OtherSteps DEF StealPlace
<1>18. CASE StealNothing(p) \/ StackChanged(p) \/ NotOrphaned(p) \/ Lost(p)
  BY <1>1, <1>6, <1>7, <1>18, OtherSteps
  DEF StealNothing, StackChanged, NotOrphaned, Lost
<1>19. CASE StealTaken(p)
  BY <1>1, <1>9, <1>19, OtherSteps DEF StealTaken, Help
<1>20. CASE StealScheduled(p) \/ StealLocal(p)
  <2>1. ASSUME NEW s \in {"target", "stealLocal"}
        PROVE  [x EXCEPT !.at = s, !.spot = 0, !.copy = deque[x.spot]] \in ThiefStates
    BY <1>1, <1>4, Room DEF ThiefStates
  <2> QED
    BY <1>1, <1>20, <2>1, OtherSteps DEF StealScheduled, StealLocal, Copies
<1>21. CASE StackSame(p) \/ FoundOrphan(p)
  BY <1>1, <1>8, <1>21, OtherSteps DEF StackSame, FoundOrphan, To
<1>22. CASE GraveRob(p)
  <2>1. thief' = [thief EXCEPT ![p] =
                    [x EXCEPT !.at = "clear", !.seen = deque[x.place + 1]]]
    BY <1>1, <1>22 DEF GraveRob
  <2>2. [x EXCEPT !.at = "clear", !.seen = deque[x.place + 1]] \in ThiefStates
    BY <1>1, <1>4 DEF ThiefStates
  <2>3. thief' \in [Thieves -> ThiefStates]
    BY <1>1, <2>1, <2>2 DEF TypeOK
  <2>4. uses' \in 0 .. MaxUses
    BY <1>1, <1>22, BoundsAssumption DEF GraveRob, Use, TypeOK
  <2> QED
    BY <1>1, <1>22, <2>3, <2>4 DEF GraveRob, TypeOK
<1>23. CASE ClearBelow(p)
  <2>1. deque' \in [Places -> Entry]
    BY <1>1, <1>23, ClearBelowEffect
  <2>2. [x EXCEPT !.at = "target", !.seen = Blank] \in ThiefStates
    BY <1>1, <1>3 DEF ThiefStates
  <2> QED
    BY <1>1, <1>23, <2>1, <2>2, OtherSteps DEF ClearBelow
<1>24. CASE TakeTarget(p)
  <2>1. deque' \in [Places -> Entry]
    BY <1>1, <1>4, <1>24, CamTargetEffect DEF TakeTarget, Targets
  <2> QED
    BY <1>1, <1>8, <1>24, <2>1, OtherSteps DEF TakeTarget, To
<1>25. CASE TakeLook(p)
  BY <1>1, <1>8, <1>9, <1>25, OtherSteps DEF TakeLook, To, Help
<1>26. CASE TakeTag(p)
  <2>1. deque' \in [Places -> Entry]
    BY <1>1, <1>4, <1>26, CamTagEffect, TakenTag DEF TakeTag
  <2>2. taken' \subseteq Thefts
    BY <1>1, <1>5, <1>26 DEF TakeTag
  <2> QED
    BY <1>1, <1>9, <1>26, <2>1, <2>2, OtherSteps DEF TakeTag, Help
<1>27. CASE Win(p)
  <2>1. won' \subseteq Thefts
    BY <1>1, <1>5, <1>27 DEF Win
  <2> QED
    BY <1>1, <1>6, <1>27, <2>1, OtherSteps DEF Win
<1>28. CASE ThiefScheduler(p)
  <2>1. Made("empty", local[p]) \in Tag
    BY <1>2, MadeTag DEF Ids
  <2> QED
    BY <1>1, <1>28, <2>1, FreshSCnt, OtherSteps DEF ThiefScheduler
<1>29. CASE ThiefSCnt(p)
  <2>1. local' \in [Thieves -> Tag]
    BY <1>1, <1>4, <1>29 DEF ThiefSCnt
  <2> QED
    BY <1>1, <1>6, <1>7, <1>29, <2>1, OtherSteps DEF ThiefSCnt
<1> QED
  BY <1>11, <1>12, <1>13, <1>14, <1>15, <1>16, <1>17, <1>18, <1>19, <1>20, <1>21,
     <1>22, <1>23, <1>24, <1>25, <1>26, <1>27, <1>28, <1>29 DEF Thief, Thieving

LEMMA TypeThiefDies ==
  ASSUME TypeOK, NEW p \in Thieves, ThiefDies(p) PROVE TypeOK'
<1>1. Fresh("dead") \in ThiefStates
  BY FreshState
<1>2. deaths' \in 0 .. MaxDeaths
  BY BoundsAssumption DEF TypeOK, ThiefDies
<1> QED
  BY <1>1, <1>2 DEF TypeOK, ThiefDies, ownerVars

\* The owner is at s, with the copies it had, with none, or with new ones.
LEMMA OwnerState ==
  ASSUME owner \in OwnerStates
  PROVE  /\ owner.place \in Places /\ owner.copy \in Entry /\ owner.copy.tag \in Tag
         /\ owner.next \in Entry /\ owner.next.tag \in Tag /\ owner.target \in Targets
         /\ \A s \in {"thread", "pushBottom", "pushTag", "pushLook", "popTag",
                      "popCompare", "sjpLook", "sjpTag"} :
              [owner EXCEPT !.at = s] \in OwnerStates
         /\ \A s \in {"pushWrite", "pushTarget", "sjpTarget"}, e \in Entry :
              [owner EXCEPT !.at = s, !.next = e] \in OwnerStates
BY EntryParts DEF OwnerStates

LEMMA IdleState ==
  /\ \A s \in {"thread", "popBottom", "stealLoop", "dead"} : Idle(s) \in OwnerStates
  /\ \A t \in Targets : [Idle("pushBottom") EXCEPT !.target = t] \in OwnerStates
  /\ \A s \in {"pushBCnt", "pushBelow", "sCnt", "popBCnt", "singleJobPush"},
        b \in Places, e \in Entry, t \in Targets :
       [Idle(s) EXCEPT !.place = b, !.copy = e, !.target = t] \in OwnerStates
<1>1. Blank \in Entry /\ Nowhere \in Targets /\ 0 \in Places
  BY BlankEntry, Room DEF Targets
<1> QED
  BY <1>1 DEF OwnerStates, Idle

LEMMA TypeOwner == ASSUME DequeInv, Owner PROVE TypeOK'
<1>1. /\ deque \in [Places -> Entry] /\ local \in [Thieves -> Tag] /\ bot \in Places
      /\ owner \in OwnerStates /\ deque[bot] \in Entry /\ bot \in Int /\ bot >= 0
      /\ TypeOK /\ OwnerPlace
  BY DEF DequeInv, TypeOK, Places
<1>2. /\ owner.place \in Places /\ owner.copy \in Entry /\ owner.copy.tag \in Tag
      /\ owner.next \in Entry /\ owner.next.tag \in Tag
      /\ owner.target \in Targets /\ Nowhere \in Targets
      /\ \A t \in JunkTargets : t \in Targets
  BY <1>1, OwnerState, TargetsAssumption DEF Targets
<1>3. ASSUME NEW id \in Ids, NEW tag \in Tag PROVE Made(id, tag) \in Tag
  BY MadeTag
<1>4. ASSUME deque' \in [Places -> Entry], bot' \in Places, owner' \in OwnerStates,
             uses' \in 0 .. MaxUses, UNCHANGED <<top, live, deaths, thiefVars>>
      PROVE  TypeOK'
  BY <1>1, <1>4 DEF TypeOK, thiefVars
<1>5. Use => uses' \in 0 .. MaxUses
  BY <1>1, BoundsAssumption DEF Use, TypeOK
<1>6. ASSUME NEW s \in {"thread", "pushBottom", "pushTag", "pushLook", "popTag",
                        "popCompare", "sjpLook", "sjpTag"},
             Go(s), deque' \in [Places -> Entry], UNCHANGED bot
      PROVE  TypeOK'
  BY <1>1, <1>4, <1>6, OwnerState DEF Go, TypeOK
<1>7. ASSUME NEW s \in {"thread", "popBottom", "stealLoop"},
             Settle(s), deque' \in [Places -> Entry], bot' \in Places
      PROVE  TypeOK'
  BY <1>1, <1>4, <1>7, IdleState DEF Settle, TypeOK
<1>8. ASSUME NEW s \in {"pushBCnt", "pushBelow", "sCnt", "popBCnt", "singleJobPush"},
             NEW b \in Places, NEW i \in Places, NEW t \in Targets,
             Copy(s, b, i, t), uses' \in 0 .. MaxUses
      PROVE  TypeOK'
  BY <1>1, <1>4, <1>8, IdleState DEF Copy
<1>9. CASE PushBottom \/ PushStart \/ Scheduler \/ SingleJobPush
  BY <1>1, <1>2, <1>5, <1>8, <1>9
  DEF PushBottom, PushStart, Scheduler, SingleJobPush, TypeOK
<1>20. CASE Fork
  BY <1>1, <1>2, <1>4, <1>20, IdleState DEF Fork, TypeOK
<1>21. CASE PushAgain
  BY <1>1, <1>6, <1>21 DEF PushAgain
<1>22. CASE ReadBelow \/ SjpCounter
  <2>1. owner.place + 1 \in Places \/ ~ReadBelow
    BY <1>1, SizeAssumption DEF ReadBelow, OwnerPlace, At, Places
  <2>2. owner' \in OwnerStates
    BY <1>1, <1>2, <1>22, <2>1, OwnerState DEF ReadBelow, SjpCounter
  <2> QED
    BY <1>1, <1>4, <1>22, <2>2 DEF ReadBelow, SjpCounter, TypeOK
<1>10. CASE PopBottom
  <2>1. bot - 1 \in Places
    BY <1>1, <1>10, SizeAssumption DEF PopBottom, Places
  <2> QED
    BY <1>1, <1>2, <1>8, <1>10, <2>1 DEF PopBottom, TypeOK
<1>11. CASE PushBelow
  <2>1. owner.place = bot /\ bot + 1 \in Places
    BY <1>1, <1>2, <1>11, PushBelowEffect
  <2>2. deque' \in [Places -> Entry]
    BY <1>1, <1>2, <1>11, PushBelowEffect
  <2>3. owner' \in OwnerStates
    BY <1>1, <1>11, OwnerState, BlankEntry DEF PushBelow
  <2> QED
    BY <1>1, <1>4, <1>11, <2>1, <2>2, <2>3 DEF PushBelow, TypeOK
<1>12. CASE PushTarget \/ SjpTarget
  <2>1. deque' \in [Places -> Entry]
    BY <1>1, <1>2, <1>12, CamTargetEffect DEF PushTarget, SjpTarget
  <2> QED
    BY <1>1, <1>6, <1>12, <2>1 DEF PushTarget, SjpTarget
<1>13. CASE PushLook \/ SjpLook \/ PopLook
  BY <1>1, <1>6, <1>13 DEF PushLook, SjpLook, PopLook
<1>14. CASE PushTag \/ SjpTag
  <2>1. deque' \in [Places -> Entry]
    BY <1>1, <1>2, <1>3, <1>14, CamTagEffect DEF PushTag, SjpTag, Ids
  <2> QED
    BY <1>1, <1>7, <1>14, <2>1 DEF PushTag, SjpTag
<1>15. CASE SCnt
  <2>1. [owner.copy EXCEPT !.tag = Made("empty", owner.copy.tag)] \in Entry
    BY <1>2, <1>3 DEF Entry, Ids
  <2>2. deque' \in [Places -> Entry]
    BY <1>1, <1>2, <1>15, <2>1 DEF SCnt
  <2> QED
    BY <1>1, <1>7, <1>15, <2>2 DEF SCnt
<1>16. CASE PopFirst \/ PopNothing \/ PopFailed
  BY <1>1, <1>7, <1>16 DEF PopFirst, PopNothing, PopFailed
<1>17. CASE PopTag \/ PopDone
  <2>1. owner.place - 1 \in Places
    BY <1>1, <1>17, SizeAssumption DEF PopTag, PopDone, OwnerPlace, At, Places
  <2>2. CASE PopTag
    <3>1. Claimed \in Tag
      BY <1>2, <1>3 DEF Claimed, Ids
    <3>2. deque' \in [Places -> Entry]
      BY <1>1, <2>1, <2>2, <3>1, CamTagEffect DEF PopTag
    <3> QED
      BY <1>6, <2>2, <3>2 DEF PopTag
  <2>3. CASE PopDone
    BY <1>1, <1>7, <2>1, <2>3 DEF PopDone
  <2> QED
    BY <1>17, <2>2, <2>3
<1>18. CASE Obtain
  <2>1. deque' \in [Places -> Entry]
    BY <1>1, <1>18, MadeEffect, Room DEF Obtain, Ids
  <2>2. [owner EXCEPT !.at = "thread"] \in OwnerStates
    BY <1>1, OwnerState
  <2> QED
    BY <1>1, <1>4, <1>18, <2>1, <2>2 DEF Obtain, TypeOK
<1>19. CASE HelpElsewhere
  <2>1. top' \in 0 .. MaxTop
    BY <1>1, <1>19, BoundsAssumption DEF HelpElsewhere, TypeOK
  <2> QED
    BY <1>1, <1>19, <2>1 DEF HelpElsewhere, TypeOK, ownerVars, thiefVars
<1> QED
  BY <1>9, <1>10, <1>11, <1>12, <1>13, <1>14, <1>15, <1>16, <1>17, <1>18, <1>19, <1>20,
     <1>21, <1>22 DEF Owner

LEMMA TypeOwnerDies == ASSUME TypeOK, OwnerDies PROVE TypeOK'
<1>1. owner' \in OwnerStates
  BY IdleState DEF OwnerDies
<1>2. deaths' \in 0 .. MaxDeaths
  BY BoundsAssumption DEF TypeOK, OwnerDies
<1> QED
  BY <1>1, <1>2 DEF TypeOK, OwnerDies, thiefVars

-----------------------------------------------------------------------------
\* What a step does to the tags, and to the owner

\* Thieves take the jobs that wait; when the owner is dead also its own one, and
\* then they clear entries.
ThiefTag(i) ==
  \/ deque'[i].tag = deque[i].tag
  \/ Is("scheduled", deque[i]) /\ Is("taken", deque'[i])
  \/ ~live /\ Is("local", deque[i]) /\ Is("taken", deque'[i])
  \/ ~live /\ i > 0 /\ Is("empty", deque'[i])

LEMMA ThiefTags ==
  ASSUME DequeInv, NEW p \in Thieves, Thief(p) \/ ThiefDies(p)
  PROVE  /\ UNCHANGED <<bot, top, live, owner>>
         /\ \E i \in Places :
              /\ ThiefTag(i)
              /\ \A j \in Places : j # i => deque'[j].tag = deque[j].tag
<1> DEFINE x == thief[p]
<1>1. /\ deque \in [Places -> Entry] /\ x \in ThiefStates /\ top \in Places
      /\ thief \in [Thieves -> ThiefStates] /\ ThiefCopy(p)
  BY Room DEF DequeInv, TypeOK
<1>2. x.counter \in Counter /\ x.place \in 0 .. MaxTop /\ x.place \in Places
  BY <1>1, ThiefState
<1>3. UNCHANGED <<bot, top, live, owner>>
  BY ThiefParts
<1>4. CASE ClearBelow(p)
  <2>1. ~live
    BY <1>1, <1>4 DEF ClearBelow, Doing, ThiefCopy
  <2>2. /\ x.place + 1 \in Places /\ x.place + 1 > 0
        /\ \A j \in Places : j # x.place + 1 => deque'[j] = deque[j]
        /\ deque'[x.place + 1].tag.id = "empty"
    BY <1>1, <1>4, ClearBelowEffect
  <2> QED
    BY <1>3, <2>1, <2>2 DEF ThiefTag, Is
<1>5. CASE TakeTarget(p)
  <2>1. \A j \in Places : deque'[j].tag = deque[j].tag
    BY <1>1, <1>2, <1>5, CamTargetEffect DEF TakeTarget, Targets
  <2> QED
    BY <1>2, <1>3, <2>1 DEF ThiefTag
<1>6. CASE TakeTag(p)
  <2>1. /\ x.copy.tag.id \in {"local", "scheduled"}
        /\ Is("local", x.copy) => ~live
    BY <1>1, <1>6 DEF TakeTag, Doing, ThiefCopy
  <2>2. /\ \A j \in Places : j # x.place => deque'[j] = deque[j]
        /\ deque[x.place].tag = x.copy.tag => deque'[x.place].tag = Taken(x.counter)
        /\ deque[x.place].tag # x.copy.tag => deque' = deque
    BY <1>1, <1>2, <1>6, CamTagEffect, TakenTag DEF TakeTag
  <2> QED
    BY <1>2, <1>3, <2>1, <2>2, TakenTag DEF ThiefTag, Is
<1>7. CASE UNCHANGED deque
  BY <1>2, <1>3, <1>7 DEF ThiefTag
<1> QED
  BY <1>4, <1>5, <1>6, <1>7, ThiefParts

LEMMA OwnerPlaceThief ==
  ASSUME DequeInv, NEW p \in Thieves, Thief(p) \/ ThiefDies(p)
  PROVE  OwnerPlace' /\ NoneBelow'
<1>1. /\ UNCHANGED <<bot, top, live, owner>>
      /\ \A i \in Places : ThiefTag(i)
  BY ThiefTags DEF ThiefTag
<1>2. OwnerPlace /\ NoneBelow /\ bot \in Places /\ owner.copy.tag \in Tag
      /\ live \in BOOLEAN
  BY OwnerState DEF DequeInv, TypeOK
<1>3. live => ~At("dead")
  BY <1>2 DEF OwnerPlace
<1>4. NoneBelow'
  BY <1>1, <1>2 DEF NoneBelow, ThiefTag, Is, Unclaimed
<1>5. ASSUME live, NEW i \in Places, Is("local", deque[i]) \/ Is("taken", deque[i])
      PROVE  deque'[i].tag = deque[i].tag
  BY <1>1, <1>5 DEF ThiefTag, Is
<1>6. owner.at \in {"pushBelow", "pushWrite", "pushTarget", "pushLook", "pushTag"} =>
        deque'[owner.place].tag = owner.copy.tag
  <2> HAVE owner.at \in {"pushBelow", "pushWrite", "pushTarget", "pushLook", "pushTag"}
  <2>1. /\ live /\ owner.place \in Places
        /\ Is("local", deque[owner.place]) /\ deque[owner.place].tag = owner.copy.tag
    BY <1>2, OwnerState DEF OwnerPlace, At, Is, DequeInv, TypeOK
  <2> QED
    BY <1>5, <2>1
<1>7. ASSUME owner.at \in {"popBCnt", "popTag", "popCompare"}
      PROVE  /\ live /\ owner.place - 1 \in Places
  BY <1>2, <1>7, SizeAssumption DEF OwnerPlace, At, Places
<1>8. owner.at \in {"popBCnt", "popTag"} /\ Is("scheduled", owner.copy) =>
        deque'[owner.place - 1].tag = owner.copy.tag \/ Is("taken", deque'[owner.place - 1])
  <2> HAVE owner.at \in {"popBCnt", "popTag"} /\ Is("scheduled", owner.copy)
  <2>1. deque[owner.place - 1].tag = owner.copy.tag \/ Is("taken", deque[owner.place - 1])
    BY <1>2 DEF OwnerPlace
  <2> QED
    BY <1>1, <1>7, <2>1 DEF ThiefTag, Is
<1>9. At("popCompare") =>
        \/ deque'[owner.place - 1].tag \in {owner.copy.tag, Claimed}
        \/ Is("taken", deque'[owner.place - 1])
  <2> HAVE At("popCompare")
  <2>1. \/ deque[owner.place - 1].tag \in {owner.copy.tag, Claimed}
        \/ Is("taken", deque[owner.place - 1])
    BY <1>2 DEF OwnerPlace
  <2> QED
    BY <1>1, <1>7, <2>1 DEF ThiefTag, Is, At
<1> QED
  BY <1>1, <1>2, <1>4, <1>6, <1>8, <1>9 DEF OwnerPlace, At, Is, Claimed

LEMMA ThiefCopyThief ==
  ASSUME DequeInv, NEW p \in Thieves, Thief(p) \/ ThiefDies(p), NEW q \in Thieves
  PROVE  ThiefCopy(q)'
<1> DEFINE x == thief[p]
<1>1. live' = live /\ thief \in [Thieves -> ThiefStates] /\ live \in BOOLEAN
  BY ThiefTags DEF DequeInv, TypeOK
<1>2. ThiefCopy(p) /\ ThiefCopy(q)
  BY DEF DequeInv
<1>3. \A r \in Thieves : r # p => thief'[r] = thief[r]
  BY <1>1, OthersStay
<1>4. CASE q # p
  BY <1>1, <1>2, <1>3, <1>4 DEF ThiefCopy
<1>5. CASE q = p
  <2> SUFFICES ThiefCopy(p)'
    BY <1>5
  <2>1. x \in ThiefStates /\ x.then \in Thens
    BY <1>1, ThiefState
  <2>2. CASE HelpLook(p)
    <3>1. /\ Is("taken", deque[x.spot]) /\ deque[x.spot].target \in Thieves
          /\ Step(p, [x EXCEPT !.at = "helpRead", !.spot = 0, !.seen = deque[x.spot]])
      BY <2>2 DEF HelpLook
    <3>2. thief'[p].at = "helpRead" /\ thief'[p].seen = deque[x.spot]
      BY <1>1, <3>1 DEF Step, ThiefStates
    <3> QED
      BY <3>1, <3>2 DEF ThiefCopy
  <2>3. CASE HelpRead(p)
    BY <1>1, <1>2, <2>3 DEF HelpRead, Step, Doing, ThiefCopy, Is
  <2>4. CASE HelpNobody(p) \/ HelpMark(p)
    BY <1>1, <2>1, <2>4, HelpedFields DEF HelpNobody, HelpMark, ThiefCopy, Thens
  <2>5. CASE StealScheduled(p) \/ StealLocal(p)
    BY <1>1, <2>5, CopiesFields DEF StealScheduled, StealLocal, ThiefCopy, Is
  <2>6. CASE StackSame(p) \/ FoundOrphan(p)
    BY <1>1, <1>2, <2>6, ToFields DEF StackSame, FoundOrphan, Doing, ThiefCopy
  <2>7. CASE GraveRob(p) \/ ClearBelow(p)
    <3>1. /\ thief'[p].at = IF GraveRob(p) THEN "clear" ELSE "target"
          /\ thief'[p].copy = x.copy
      BY <1>1, <2>7 DEF GraveRob, ClearBelow, Step, Doing, ThiefStates
    <3> QED
      BY <1>1, <1>2, <2>7, <3>1 DEF GraveRob, ClearBelow, Doing, ThiefCopy, Is
  <2>8. CASE TakeTarget(p) \/ TakeLook(p)
    BY <1>1, <1>2, <2>8, ToFields, HelpFields
    DEF TakeTarget, TakeLook, Doing, ThiefCopy, Is
  <2>9. CASE HelpTop(p) \/ StealPlace(p) \/ StealTop(p)
    <3>1. /\ HelpTop(p) => thief'[p].at = "helpLook"
          /\ StealPlace(p) => thief'[p].at = "stealTop"
          /\ StealTop(p) => thief'[p].at = "stealCopy"
      BY <1>1 DEF HelpTop, StealPlace, StealTop, Step, ThiefStates
    <3> QED
      BY <2>9, <3>1 DEF ThiefCopy
  <2>10. CASE StealTaken(p) \/ TakeTag(p)
    BY <1>1, <2>10, HelpFields DEF StealTaken, TakeTag, ThiefCopy
  <2>11. CASE \/ StealNothing(p) \/ StackChanged(p) \/ NotOrphaned(p) \/ Lost(p)
              \/ Win(p) \/ ThiefSCnt(p) \/ ThiefDies(p)
    BY <1>1, <2>11, FreshState
    DEF StealNothing, StackChanged, NotOrphaned, Lost, Win, Prize, ThiefSCnt, ThiefDies,
        Retry, Step, ThiefCopy
  <2>12. CASE StealLoop(p)
    <3>1. local[p].counter \in Counter
      BY DEF DequeInv, TypeOK, Tag
    <3>2. thief'[p].at = "help"
      BY <1>1, <2>12, <3>1, FreshHelp DEF StealLoop, Step
    <3> QED
      BY <3>2 DEF ThiefCopy
  <2>13. CASE ThiefScheduler(p)
    <3>1. Made("empty", local[p]) \in Tag
      BY MadeTag DEF DequeInv, TypeOK, Ids
    <3>2. thief'[p].at = "sCnt"
      BY <1>1, <2>13, <3>1, FreshSCnt DEF ThiefScheduler, Step
    <3> QED
      BY <3>2 DEF ThiefCopy
  <2> QED
    BY <2>2, <2>3, <2>4, <2>5, <2>6, <2>7, <2>8, <2>9, <2>10, <2>11, <2>12, <2>13
    DEF Thief, Thieving
<1> QED
  BY <1>4, <1>5

LEMMA GoFields ==
  ASSUME owner \in OwnerStates, NEW s, owner' = [owner EXCEPT !.at = s]
  PROVE  /\ owner'.at = s /\ owner'.place = owner.place /\ owner'.copy = owner.copy
         /\ owner'.target = owner.target
BY DEF OwnerStates

LEMMA SettleFields == ASSUME NEW s, Settle(s) PROVE owner'.at = s /\ live' = live
BY DEF Settle, Idle

LEMMA CopyFields ==
  ASSUME NEW s, NEW b, NEW i, NEW t, Copy(s, b, i, t)
  PROVE  /\ owner'.at = s /\ owner'.place = b /\ owner'.copy = deque[i]
         /\ UNCHANGED <<deque, bot, live>>
BY DEF Copy, Idle

\* What the owner does to the tags: it makes entries local or empty, and a job
\* waits only in an entry that it had; a job that waits it makes its own.
LEMMA OwnerPlaceOwner == ASSUME DequeInv, Owner PROVE OwnerPlace' /\ NoneBelow'
<1>1. /\ deque \in [Places -> Entry] /\ bot \in Places /\ bot \in Int /\ bot >= 0
      /\ owner \in OwnerStates /\ live \in BOOLEAN /\ OwnerPlace /\ NoneBelow
  BY DEF DequeInv, TypeOK, Places
<1>2. /\ owner.place \in Places /\ owner.copy \in Entry /\ owner.copy.tag \in Tag
      /\ owner.next \in Entry /\ owner.next.tag \in Tag /\ owner.target \in Targets
  BY <1>1, OwnerState
<1>3. Places \subseteq Int /\ \A i \in Places : i >= 0
  BY SizeAssumption DEF Places
<1>4. live <=> ~At("dead")
  BY <1>1 DEF OwnerPlace
<1>5. CASE PushBottom \/ PushStart \/ Scheduler
  BY <1>1, <1>4, <1>5, CopyFields
  DEF PushBottom, PushStart, Pushable, Scheduler, OwnerPlace, NoneBelow, At, Is
<1>20. CASE Fork
  <2>1. /\ owner'.at = "pushBottom" /\ UNCHANGED <<deque, bot, live>> /\ live
        /\ bot < Size - 1
    BY <1>4, <1>20 DEF Fork, At, Idle
  <2> QED
    BY <1>1, <2>1 DEF OwnerPlace, NoneBelow, At
<1>21. CASE PushAgain
  <2>1. /\ owner'.at = "pushBottom" /\ UNCHANGED <<deque, bot, live>> /\ live
        /\ bot < Size - 1
    BY <1>1, <1>4, <1>21, GoFields DEF PushAgain, Go, OwnerPlace, At
  <2> QED
    BY <1>1, <2>1 DEF OwnerPlace, NoneBelow, At
<1>22. CASE ReadBelow \/ SjpCounter
  <2>1. /\ owner'.at = IF ReadBelow THEN "pushWrite" ELSE "sjpTarget"
        /\ owner'.place = owner.place /\ owner'.copy = owner.copy
        /\ UNCHANGED <<deque, bot, live>>
    BY <1>1, <1>22 DEF ReadBelow, SjpCounter, At, OwnerStates
  <2> QED
    BY <1>1, <1>4, <1>22, <2>1 DEF ReadBelow, SjpCounter, OwnerPlace, NoneBelow, At, Is
<1>6. CASE SingleJobPush
  <2>1. deque[bot].tag.id \in Unclaimed
    BY <1>1, <1>4, <1>6 DEF SingleJobPush, NoneBelow, At
  <2> QED
    <3>1. /\ owner'.at = "singleJobPush" /\ owner'.place = bot /\ owner'.copy = deque[bot]
          /\ UNCHANGED <<deque, bot, live>> /\ live
      BY <1>4, <1>6, CopyFields DEF SingleJobPush, At
    <3> QED
      BY <1>1, <2>1, <3>1 DEF OwnerPlace, NoneBelow, At
<1>7. CASE PopBottom
  <2>1. /\ owner'.at = "popBCnt" /\ owner'.place = bot /\ owner'.copy = deque[bot - 1]
        /\ UNCHANGED <<deque, bot, live>> /\ bot > 0 /\ live
    BY <1>4, <1>7, CopyFields DEF PopBottom, At
  <2> QED
    BY <1>1, <2>1 DEF OwnerPlace, NoneBelow, At
<1>8. CASE PushBelow
  <2>1. owner.place = bot /\ bot + 1 \in Places
    BY <1>1, <1>2, <1>8, PushBelowEffect
  <2>2. /\ \A j \in Places : j # bot + 1 => deque'[j] = deque[j]
        /\ Is("local", deque'[bot + 1])
    BY <1>1, <1>2, <1>8, PushBelowEffect DEF Is
  <2>3. bot' = bot + 1 /\ live' = live
    BY <1>8, <2>1 DEF PushBelow
  <2>4. /\ owner'.at = "pushTarget" /\ owner'.place = bot /\ owner'.copy = owner.copy
        /\ Is("local", owner.copy) /\ deque[bot].tag = owner.copy.tag
    BY <1>1, <1>8, <2>1 DEF PushBelow, OwnerStates, OwnerPlace, At
  <2>5. NoneBelow'
    BY <1>1, <1>3, <2>1, <2>2, <2>3 DEF NoneBelow, Is, Unclaimed
  <2> QED
    BY <1>1, <1>4, <1>8, <2>2, <2>3, <2>4, <2>5 DEF OwnerPlace, At, PushBelow
<1>9. CASE PushTarget \/ PushLook
  <2>1. \A j \in Places : deque'[j].tag = deque[j].tag
    BY <1>1, <1>2, <1>9, CamTargetEffect DEF PushTarget, PushLook
  <2>2. /\ owner'.at \in {"pushLook", "pushTag", "thread"} /\ owner'.place = owner.place
        /\ owner'.copy = owner.copy /\ UNCHANGED <<bot, live>>
    BY <1>1, <1>9, GoFields DEF PushTarget, PushLook, Go
  <2>3. /\ owner.place + 1 = bot /\ Is("local", owner.copy)
        /\ deque[owner.place].tag = owner.copy.tag
    BY <1>1, <1>9 DEF PushTarget, PushLook, OwnerPlace, At
  <2>4. live
    BY <1>4, <1>9 DEF PushTarget, PushLook, At
  <2> QED
    BY <1>1, <1>2, <2>1, <2>2, <2>3, <2>4 DEF OwnerPlace, NoneBelow, At
<1>10. CASE PushTag
  <2>1. /\ owner.place + 1 = bot
        /\ \A j \in Places : j # owner.place => deque'[j] = deque[j]
    BY <1>1, <1>2, <1>10, PushTagEffect
  <2>2. owner'.at = "thread" /\ live' = live /\ bot' = bot
    BY <1>10, SettleFields DEF PushTag
  <2>3. NoneBelow'
    BY <1>1, <1>3, <2>1, <2>2 DEF NoneBelow
  <2> QED
    BY <1>4, <1>10, <2>2, <2>3 DEF OwnerPlace, At, PushTag
<1>11. CASE SCnt
  <2>1. [owner.copy EXCEPT !.tag = Made("empty", owner.copy.tag)].tag.id = "empty"
    BY <1>2, MadeTag DEF Entry, Ids
  <2>2. /\ owner.place = bot
        /\ \A j \in Places : deque'[j].tag.id \in {deque[j].tag.id, "empty"}
    BY <1>1, <1>11, <2>1 DEF SCnt, OwnerPlace, At
  <2>3. owner'.at = "popBottom" /\ live' = live /\ bot' = bot
    BY <1>11, SettleFields DEF SCnt
  <2> QED
    BY <1>1, <1>4, <1>11, <2>2, <2>3 DEF OwnerPlace, NoneBelow, At, SCnt, Unclaimed
<1>12. CASE PopFirst \/ PopNothing \/ PopFailed
  BY <1>1, <1>4, <1>12, SettleFields
  DEF PopFirst, PopNothing, PopFailed, OwnerPlace, NoneBelow, At
<1>13. CASE PopLook
  <2>1. /\ owner'.at \in {"popTag", "popCompare"} /\ owner'.place = owner.place
        /\ owner'.copy = owner.copy /\ UNCHANGED <<deque, bot, live>>
    BY <1>1, <1>13, GoFields DEF PopLook, Go
  <2> QED
    BY <1>1, <1>4, <1>13, <2>1 DEF PopLook, OwnerPlace, NoneBelow, At
<1>14. CASE PopTag
  <2>1. /\ owner.place = bot /\ bot > 0 /\ Is("scheduled", owner.copy)
        /\ \/ deque[bot - 1].tag = owner.copy.tag
           \/ Is("taken", deque[bot - 1])
    BY <1>1, <1>2, <1>14, PopTagEffect
  <2>2. bot - 1 \in Places
    BY <1>1, <1>2, <1>14, PopTagEffect
  <2>3. /\ \A j \in Places : j # bot - 1 => deque'[j] = deque[j]
        /\ deque[bot - 1].tag = owner.copy.tag => deque'[bot - 1].tag = Claimed
        /\ deque[bot - 1].tag # owner.copy.tag => deque' = deque
    BY <1>1, <1>2, <1>14, PopTagEffect
  <2>4. /\ owner'.at = "popCompare" /\ owner'.place = owner.place
        /\ owner'.copy = owner.copy /\ UNCHANGED <<bot, live>>
    BY <1>1, <1>14, GoFields DEF PopTag, Go
  <2>5. NoneBelow'
    BY <1>1, <1>3, <2>3, <2>4 DEF NoneBelow
  <2>6. Claimed' = Claimed
    BY <2>4 DEF Claimed
  <2>7. deque'[bot - 1].tag \in {owner.copy.tag, Claimed} \/ Is("taken", deque'[bot - 1])
    BY <2>1, <2>3
  <2>8. live
    BY <1>4, <1>14 DEF PopTag, At
  <2> QED
    BY <2>1, <2>4, <2>5, <2>6, <2>7, <2>8 DEF OwnerPlace, At, Is
<1>15. CASE PopDone
  <2>1. /\ owner.place = bot /\ bot > 0 /\ Is("local", deque[bot - 1])
    BY <1>1, <1>2, <1>15, MadeTag DEF PopDone, OwnerPlace, At, Claimed, Is, Ids
  <2>2. owner'.at = "thread" /\ live' = live /\ bot' = bot - 1 /\ deque' = deque
    BY <1>15, <2>1, SettleFields DEF PopDone
  <2>3. NoneBelow'
    BY <1>1, <1>3, <2>1, <2>2 DEF NoneBelow, Is, Unclaimed
  <2> QED
    BY <1>4, <1>15, <2>2, <2>3 DEF OwnerPlace, At, PopDone
<1>16. CASE SjpTarget \/ SjpLook
  <2>1. \A j \in Places : deque'[j].tag = deque[j].tag
    BY <1>1, <1>2, <1>16, CamTargetEffect DEF SjpTarget, SjpLook
  <2>2. /\ owner'.at \in {"sjpLook", "sjpTag", "thread"} /\ owner'.place = owner.place
        /\ owner'.copy = owner.copy /\ UNCHANGED <<bot, live>>
    BY <1>1, <1>16, GoFields DEF SjpTarget, SjpLook, Go
  <2>3. owner.place = bot /\ owner.copy.tag.id \in Unclaimed /\ live
    BY <1>1, <1>4, <1>16 DEF SjpTarget, SjpLook, OwnerPlace, At
  <2> QED
    BY <1>1, <2>1, <2>2, <2>3 DEF OwnerPlace, NoneBelow, At
<1>17. CASE SjpTag
  <2>1. \A j \in Places : deque'[j].tag.id \in {deque[j].tag.id, "local"}
    BY <1>1, <1>2, <1>17, SjpTagEffect
  <2>2. owner'.at = "thread" /\ live' = live /\ bot' = bot
    BY <1>17, SettleFields DEF SjpTag
  <2> QED
    BY <1>1, <1>4, <1>17, <2>1, <2>2 DEF OwnerPlace, NoneBelow, At, SjpTag, Unclaimed
<1>18. CASE Obtain
  <2>1. \A j \in Places : deque'[j].tag.id \in {deque[j].tag.id, "local"}
    BY <1>1, <1>18, Room, MadeEffect DEF Obtain, Ids
  <2>2. owner'.at = "thread" /\ live' = live /\ bot' = bot
    BY <1>1, <1>18, GoFields DEF Obtain
  <2> QED
    BY <1>1, <1>4, <1>18, <2>1, <2>2 DEF OwnerPlace, NoneBelow, At, Obtain, Unclaimed
<1>19. CASE HelpElsewhere
  BY <1>1, <1>19
  DEF HelpElsewhere, ownerVars, OwnerPlace, NoneBelow, At, Claimed
<1> QED
  BY <1>5, <1>6, <1>7, <1>8, <1>9, <1>10, <1>11, <1>12, <1>13, <1>14, <1>15, <1>16,
     <1>17, <1>18, <1>19, <1>20, <1>21, <1>22 DEF Owner

LEMMA OwnerTags ==
  ASSUME DequeInv, Owner, NEW i \in Places
  PROVE  Is("taken", deque'[i]) => deque'[i].tag = deque[i].tag
<1>1. /\ deque \in [Places -> Entry] /\ bot \in Places /\ owner \in OwnerStates
      /\ OwnerPlace
  BY DEF DequeInv, TypeOK
<1>2. /\ owner.place \in Places /\ owner.copy \in Entry /\ owner.copy.tag \in Tag
      /\ owner.next \in Entry /\ owner.next.tag \in Tag /\ owner.target \in Targets
  BY <1>1, OwnerState
<1>3. CASE PushBelow
  BY <1>1, <1>2, <1>3, PushBelowEffect DEF Is
<1>4. CASE PushTarget \/ SjpTarget
  BY <1>1, <1>2, <1>4, CamTargetEffect DEF PushTarget, SjpTarget
<1>5. CASE PushTag \/ SjpTag
  BY <1>1, <1>2, <1>5, MadeTag, CamTagEffect DEF PushTag, SjpTag, Ids, Is
<1>6. CASE SCnt
  <2>1. [owner.copy EXCEPT !.tag = Made("empty", owner.copy.tag)].tag.id = "empty"
    BY <1>2, MadeTag DEF Entry, Ids
  <2> QED
    BY <1>1, <1>6, <2>1 DEF SCnt, Is
<1>7. CASE PopTag
  BY <1>1, <1>2, <1>7, PopTagEffect DEF Is
<1>8. CASE Obtain
  BY <1>1, <1>8, Room, MadeEffect DEF Obtain, Ids, Is
<1>9. CASE UNCHANGED deque
  BY <1>9
<1> QED
  BY <1>3, <1>4, <1>5, <1>6, <1>7, <1>8, <1>9, OwnerParts

-----------------------------------------------------------------------------
\* The invariant of the deque

LEMMA InitDeque == Init => DequeInv
<1> SUFFICES ASSUME Init PROVE DequeInv
  OBVIOUS
<1>1. Made("local", Blank.tag) \in Tag
  BY BlankEntry, MadeTag DEF Ids
<1>2. deque \in [Places -> Entry]
  BY <1>1, BlankEntry DEF Init, Entry
<1>3. \A i \in Places : deque[i].tag.id \in Unclaimed
  BY BlankEntry, MadeTag, Room DEF Init, Ids, Unclaimed, Is, Blank
<1>4. owner \in OwnerStates
  BY IdleState DEF Init
<1>5. local \in [Thieves -> Tag]
  BY CountersAssumption DEF Init, Tag, Ids
<1>6. thief \in [Thieves -> ThiefStates] /\ \A p \in Thieves : thief[p].at = "stealLoop"
  BY FreshState DEF Init
<1>7. TypeOK
  BY <1>2, <1>4, <1>5, <1>6, Room, BoundsAssumption DEF Init, TypeOK
<1>8. OwnerPlace
  BY DEF Init, OwnerPlace, At, Idle
<1>9. NoneBelow
  BY <1>3 DEF NoneBelow
<1>10. \A p \in Thieves : ThiefCopy(p)
  BY <1>6 DEF ThiefCopy
<1> QED
  BY <1>7, <1>8, <1>9, <1>10 DEF DequeInv

LEMMA NextDeque == ASSUME DequeInv, [Next]_vars PROVE DequeInv'
<1>1. TypeOK /\ OwnerPlace /\ NoneBelow /\ \A p \in Thieves : ThiefCopy(p)
  BY DEF DequeInv
<1>2. CASE Owner
  <2>1. thief' = thief /\ live' = live
    BY <1>2, OwnerParts
  <2>2. \A p \in Thieves : ThiefCopy(p)'
    BY <1>1, <2>1 DEF ThiefCopy
  <2> QED
    BY <1>2, <2>2, TypeOwner, OwnerPlaceOwner DEF DequeInv
<1>3. CASE OwnerDies
  <2>1. /\ UNCHANGED <<deque, bot, thief>> /\ ~live' /\ owner'.at = "dead"
    BY <1>3 DEF OwnerDies, Idle, thiefVars
  <2>2. OwnerPlace' /\ NoneBelow'
    BY <2>1 DEF OwnerPlace, NoneBelow, At
  <2>3. \A p \in Thieves : ThiefCopy(p)'
    BY <1>1, <2>1 DEF ThiefCopy
  <2> QED
    BY <1>1, <1>3, <2>2, <2>3, TypeOwnerDies DEF DequeInv
<1>4. ASSUME NEW p \in Thieves, Thief(p) \/ ThiefDies(p) PROVE DequeInv'
  <2>1. TypeOK'
    BY <1>1, <1>4, TypeThief, TypeThiefDies
  <2> QED
    BY <1>4, <2>1, OwnerPlaceThief, ThiefCopyThief DEF DequeInv
<1>5. CASE UNCHANGED vars
  BY <1>1, <1>5
  DEF vars, DequeInv, TypeOK, OwnerPlace, NoneBelow, ThiefCopy, At, Claimed
<1> QED
  BY <1>2, <1>3, <1>4, <1>5 DEF Next

\* The owner is where its bottom says, no job waits below it, and thieves rob
\* only once it is dead.
THEOREM DequeInvariant == Spec => []DequeInv
BY InitDeque, NextDeque, PTL DEF Spec

\* The variables have their types: above all top and bot stay within the deque.
THEOREM TypeCorrect == Spec => []TypeOK
<1>1. DequeInv => TypeOK
  BY DEF DequeInv
<1> QED
  BY <1>1, DequeInvariant, PTL

\* A thread that was started is taken from a dead process only.
THEOREM Robbed == Spec => OnlyDeadRobbed
<1>1. ASSUME DequeInv, [Next]_vars
      PROVE  [\A i \in Places : Is("local", deque[i]) /\ Is("taken", deque'[i]) => ~live]_vars
  <2> SUFFICES ASSUME Next, NEW i \in Places, Is("local", deque[i]), Is("taken", deque'[i])
               PROVE  ~live
    BY <1>1
  <2>1. CASE Owner
    BY <1>1, <2>1, OwnerTags DEF Is
  <2>2. CASE OwnerDies
    BY <2>2 DEF OwnerDies, Is
  <2>3. ASSUME NEW p \in Thieves, Thief(p) \/ ThiefDies(p) PROVE ~live
    BY <1>1, <2>3, ThiefTags DEF ThiefTag, Is
  <2> QED
    BY <2>1, <2>2, <2>3 DEF Next
<1> QED
  BY <1>1, DequeInvariant, PTL DEF Spec, OnlyDeadRobbed

-----------------------------------------------------------------------------
\* Stealing implements WorkDeque

\* An entry that becomes local or empty and was no job before changes nothing.
LEMMA SameJobs ==
  ASSUME \A i \in Places : \/ deque'[i].tag = deque[i].tag
                           \/ deque[i].tag.id \in Unclaimed /\ deque'[i].tag.id \in Unclaimed
  PROVE  Ready' = Ready /\ Stolen' = Stolen
BY DEF Ready, Stolen, Is, Unclaimed

LEMMA StatusOf ==
  /\ At("dead") => Status = "dead"
  /\ At("stealLoop") => Status = "away"
  /\ owner.at \in {"sCnt", "popBottom", "popBCnt", "popTag"} => Status = "looking"
  /\ At("popCompare") => Status = IF deque[owner.place - 1].tag = Claimed
                                    THEN "working" ELSE "looking"
  /\ owner.at \in {"thread", "pushBottom", "pushBCnt", "pushBelow", "pushWrite",
                   "pushTarget", "pushLook", "pushTag", "singleJobPush", "sjpTarget",
                   "sjpLook", "sjpTag"} => Status = "working"
BY DEF Status, At

LEMMA StatusAfter ==
  /\ At("dead")' => Status' = "dead"
  /\ At("stealLoop")' => Status' = "away"
  /\ owner'.at \in {"sCnt", "popBottom", "popBCnt", "popTag"} => Status' = "looking"
  /\ At("popCompare")' => Status' = IF deque'[owner'.place - 1].tag = Claimed'
                                      THEN "working" ELSE "looking"
  /\ owner'.at \in {"thread", "pushBottom", "pushBCnt", "pushBelow", "pushWrite",
                    "pushTarget", "pushLook", "pushTag", "singleJobPush", "sjpTarget",
                    "sjpLook", "sjpTag"} => Status' = "working"
BY DEF Status, At, Claimed

LEMMA InitRefines == Init => Abstract!Init
<1> SUFFICES ASSUME Init PROVE Abstract!Init
  OBVIOUS
<1>1. NoneBelow /\ live /\ bot = 0
  BY InitDeque DEF DequeInv, Init
<1>2. \A i \in Places : deque[i].tag.id \in Unclaimed
  BY <1>1, SizeAssumption DEF NoneBelow, Places
<1>3. Ready = {} /\ Stolen = {}
  BY <1>2 DEF Ready, Stolen, Is, Unclaimed
<1>4. Status = "working"
  BY StatusOf DEF Init, Idle
<1> QED
  BY <1>3, <1>4 DEF Abstract!Init

LEMMA OwnerRefines ==
  ASSUME DequeInv, Owner
  PROVE  Abstract!Next \/ UNCHANGED <<Ready, Stolen, Status>>
<1>1. /\ deque \in [Places -> Entry] /\ bot \in Places /\ bot \in Int /\ bot >= 0
      /\ owner \in OwnerStates /\ OwnerPlace /\ NoneBelow
  BY DEF DequeInv, TypeOK, Places
<1>2. /\ owner.place \in Places /\ owner.copy \in Entry /\ owner.copy.tag \in Tag
      /\ owner.next \in Entry /\ owner.next.tag \in Tag /\ owner.target \in Targets
  BY <1>1, OwnerState
<1>3. Places \subseteq Int /\ \A i \in Places : i >= 0
  BY SizeAssumption DEF Places
<1>4. live <=> ~At("dead")
  BY <1>1 DEF OwnerPlace
<1>5. CASE PushBottom \/ PushStart \/ SingleJobPush \/ PopBottom
  <2>1. UNCHANGED deque
    BY <1>5 DEF PushBottom, PushStart, SingleJobPush, PopBottom, Copy
  <2>2. Status' = Status
    BY <1>5, CopyFields, StatusOf, StatusAfter
    DEF PushBottom, PushStart, SingleJobPush, PopBottom, At
  <2> QED
    BY <2>1, <2>2, SameJobs
<1>18. CASE Fork \/ PushAgain \/ ReadBelow \/ SjpCounter
  <2>1. UNCHANGED deque
    BY <1>18 DEF Fork, PushAgain, ReadBelow, SjpCounter
  <2>2. owner'.at \in {"pushBottom", "pushWrite", "sjpTarget"}
    BY <1>1, <1>18, GoFields DEF Fork, Idle, PushAgain, Go, ReadBelow, SjpCounter, OwnerStates
  <2>3. Status' = "working" /\ Status = "working"
    BY <1>18, <2>2, StatusOf, StatusAfter DEF Fork, PushAgain, ReadBelow, SjpCounter, At
  <2> QED
    BY <2>1, <2>3, SameJobs
<1>6. CASE Scheduler
  <2>1. UNCHANGED deque /\ Status = "working" /\ Status' = "looking"
    BY <1>6, CopyFields, StatusOf, StatusAfter DEF Scheduler, At
  <2> QED
    BY <2>1, SameJobs DEF Abstract!Next, Abstract!Finish, Abstract!Becomes
<1>7. CASE PushBelow
  <2>1. bot + 1 \in Places /\ live
    BY <1>1, <1>2, <1>4, <1>7, PushBelowEffect DEF PushBelow, At
  <2>2. /\ \A j \in Places : j # bot + 1 => deque'[j] = deque[j]
        /\ Is("local", deque'[bot + 1])
    BY <1>1, <1>2, <1>7, PushBelowEffect DEF Is
  <2>3. deque[bot + 1].tag.id \in Unclaimed
    BY <1>1, <2>1 DEF NoneBelow
  <2>4. owner'.at = "pushTarget"
    BY <1>1, <1>7 DEF PushBelow, OwnerStates
  <2> QED
    BY <1>7, <2>2, <2>3, <2>4, SameJobs, StatusOf, StatusAfter
    DEF PushBelow, At, Is, Unclaimed
<1>8. CASE PushTarget \/ PushLook \/ SjpTarget \/ SjpLook
  <2>1. \A j \in Places : deque'[j].tag = deque[j].tag
    BY <1>1, <1>2, <1>8, CamTargetEffect DEF PushTarget, PushLook, SjpTarget, SjpLook
  <2>2. owner'.at \in {"pushLook", "pushTag", "sjpLook", "sjpTag", "thread"}
    BY <1>1, <1>8, GoFields DEF PushTarget, PushLook, SjpTarget, SjpLook, Go
  <2> QED
    BY <1>8, <2>1, <2>2, SameJobs, StatusOf, StatusAfter
    DEF PushTarget, PushLook, SjpTarget, SjpLook, At
<1>9. CASE PushTag
  <2>1. /\ owner.place + 1 = bot /\ live
        /\ Is("local", owner.copy) /\ deque[owner.place].tag = owner.copy.tag
    BY <1>1, <1>4, <1>9 DEF PushTag, OwnerPlace, At
  <2>2. /\ \A j \in Places : j # owner.place => deque'[j] = deque[j]
        /\ Is("scheduled", deque'[owner.place])
    BY <1>1, <1>2, <1>9, PushTagEffect DEF Is
  <2>3. Status = "working" /\ Status' = "working"
    BY <1>9, SettleFields, StatusOf, StatusAfter DEF PushTag, At
  <2>4. Ready' = Ready \union {owner.place} /\ Stolen' = Stolen
    BY <1>2, <2>1, <2>2 DEF Ready, Stolen, Is
  <2>5. ASSUME NEW j \in Ready \union Stolen PROVE j < owner.place
    <3>1. j \in Places /\ deque[j].tag.id \in {"scheduled", "taken"}
      BY DEF Ready, Stolen, Is
    <3>2. ~(j >= bot) /\ j # owner.place
      BY <1>1, <2>1, <3>1 DEF NoneBelow, Unclaimed, Is
    <3>3. j \in Int /\ owner.place \in Int /\ bot \in Int /\ owner.place + 1 = bot
      BY <1>1, <1>2, <1>3, <2>1, <3>1
    <3> QED
      BY <3>2, <3>3
  <2> QED
    BY <1>2, <2>3, <2>4, <2>5 DEF Abstract!Next, Abstract!PushBottom
<1>10. CASE SCnt
  <2>1. [owner.copy EXCEPT !.tag = Made("empty", owner.copy.tag)].tag.id = "empty"
    BY <1>2, MadeTag DEF Entry, Ids
  <2>2. owner.place = bot /\ live /\ deque[bot].tag.id \in Unclaimed
    BY <1>1, <1>4, <1>10 DEF SCnt, OwnerPlace, NoneBelow, At
  <2>3. /\ \A j \in Places : j # bot => deque'[j] = deque[j]
        /\ deque'[bot].tag.id = "empty"
    BY <1>1, <1>10, <2>1, <2>2 DEF SCnt
  <2> QED
    BY <1>10, <2>2, <2>3, SameJobs, SettleFields, StatusOf, StatusAfter
    DEF SCnt, At, Unclaimed
<1>11. CASE PopFirst \/ PopNothing \/ PopFailed
  <2>1. UNCHANGED deque /\ Status = "looking" /\ Status' = "away"
    BY <1>11, SettleFields, StatusOf, StatusAfter DEF PopFirst, PopNothing, PopFailed, At
  <2> QED
    BY <2>1, SameJobs DEF Abstract!Next, Abstract!GiveUp, Abstract!Becomes
<1>12. CASE PopLook
  <2>1. Claimed.id = "local"
    BY <1>2, MadeTag DEF Claimed, Ids
  <2>2. deque[owner.place - 1].tag # Claimed
    BY <1>1, <1>12, <2>1 DEF PopLook, OwnerPlace, Is, At
  <2>3. /\ owner'.at \in {"popTag", "popCompare"} /\ UNCHANGED deque
        /\ owner'.place = owner.place /\ owner'.copy = owner.copy
    BY <1>1, <1>12, GoFields DEF PopLook, Go
  <2>4. Claimed' = Claimed
    BY <2>3 DEF Claimed
  <2> QED
    BY <1>12, <2>2, <2>3, <2>4, SameJobs, StatusOf, StatusAfter DEF PopLook, At
<1>13. CASE PopTag
  <2>1. /\ owner.place = bot /\ bot > 0 /\ Is("scheduled", owner.copy) /\ live
        /\ \/ deque[bot - 1].tag = owner.copy.tag
           \/ Is("taken", deque[bot - 1])
    BY <1>1, <1>2, <1>4, <1>13, PopTagEffect DEF PopTag, At
  <2>2. bot - 1 \in Places
    BY <1>1, <1>2, <1>13, PopTagEffect
  <2>3. /\ \A j \in Places : j # bot - 1 => deque'[j] = deque[j]
        /\ deque[bot - 1].tag = owner.copy.tag => deque'[bot - 1].tag = Claimed
        /\ deque[bot - 1].tag # owner.copy.tag => deque' = deque
    BY <1>1, <1>2, <1>13, PopTagEffect
  <2>4. /\ owner'.at = "popCompare" /\ owner'.place = owner.place
        /\ owner'.copy = owner.copy /\ Claimed' = Claimed /\ Claimed.id = "local"
    BY <1>1, <1>2, <1>13, GoFields, MadeTag DEF PopTag, Go, Claimed, Ids
  <2>5. Status = "looking"
    BY <1>13, StatusOf DEF PopTag, At
  <2>6. CASE deque[bot - 1].tag = owner.copy.tag
    <3>1. Status' = "working"
      BY <2>1, <2>3, <2>4, <2>6, StatusAfter DEF At
    <3>2. bot - 1 \in Ready /\ Ready' = Ready \ {bot - 1} /\ Stolen' = Stolen
      BY <2>1, <2>2, <2>3, <2>4, <2>6 DEF Ready, Stolen, Is
    <3>3. \A j \in Ready \union Stolen : j <= bot - 1
      BY <1>1, <1>3, <2>1 DEF Ready, Stolen, NoneBelow, Unclaimed, Is
    <3> QED
      BY <2>5, <3>1, <3>2, <3>3 DEF Abstract!Next, Abstract!PopBottom, Abstract!Becomes
  <2>7. CASE deque[bot - 1].tag # owner.copy.tag
    <3>1. UNCHANGED deque /\ deque[bot - 1].tag # Claimed
      BY <2>1, <2>3, <2>4, <2>7 DEF Is
    <3>2. Status' = "looking"
      BY <2>1, <2>4, <3>1, StatusAfter DEF At
    <3> QED
      BY <2>5, <3>1, <3>2, SameJobs
  <2> QED
    BY <2>6, <2>7
<1>14. CASE PopDone
  <2>1. UNCHANGED deque /\ Status = "working" /\ Status' = "working"
    BY <1>14, SettleFields, StatusOf, StatusAfter DEF PopDone, At
  <2> QED
    BY <2>1, SameJobs
<1>15. CASE SjpTag
  <2>1. /\ owner.place = bot /\ live /\ deque[bot].tag.id \in Unclaimed
    BY <1>1, <1>4, <1>15 DEF SjpTag, OwnerPlace, NoneBelow, At
  <2>2. /\ \A j \in Places : j # bot => deque'[j] = deque[j]
        /\ deque'[bot].tag = deque[bot].tag \/ deque'[bot].tag.id = "local"
    BY <1>1, <1>2, <1>15, <2>1, SjpTagEffect
  <2> QED
    BY <1>15, <2>1, <2>2, SameJobs, SettleFields, StatusOf, StatusAfter
    DEF SjpTag, At, Unclaimed
<1>16. CASE Obtain
  <2>1. /\ live /\ (bot = 0 => deque[0].tag.id \in Unclaimed)
    BY <1>1, <1>4, <1>16, Room DEF Obtain, NoneBelow, At
  <2>2. \A j \in Places : \/ deque'[j] = deque[j]
                          \/ j = 0 /\ bot = 0 /\ deque'[j].tag.id = "local"
    BY <1>1, <1>16, Room, MadeEffect DEF Obtain, Ids
  <2>3. Status = "away" /\ Status' = "working"
    BY <1>1, <1>16, GoFields, StatusOf, StatusAfter DEF Obtain, At
  <2>4. Ready' = Ready /\ Stolen' = Stolen
    BY <2>1, <2>2, SameJobs DEF Unclaimed
  <2> QED
    BY <2>3, <2>4 DEF Abstract!Next, Abstract!Obtain, Abstract!Becomes
<1>17. CASE HelpElsewhere
  BY <1>17, SameJobs DEF HelpElsewhere, ownerVars, Status, At, Claimed
<1> QED
  BY <1>5, <1>6, <1>7, <1>8, <1>9, <1>10, <1>11, <1>12, <1>13, <1>14, <1>15, <1>16,
     <1>17, <1>18 DEF Owner

LEMMA ThiefRefines ==
  ASSUME DequeInv, NEW p \in Thieves, Thief(p) \/ ThiefDies(p)
  PROVE  Abstract!Next \/ UNCHANGED <<Ready, Stolen, Status>>
<1>1. /\ UNCHANGED <<live, owner>>
      /\ \E i \in Places : /\ ThiefTag(i)
                           /\ \A j \in Places : j # i => deque'[j].tag = deque[j].tag
  BY ThiefTags
<1>2. OwnerPlace /\ owner.copy.tag \in Tag /\ bot \in Places /\ live \in BOOLEAN
  BY OwnerState DEF DequeInv, TypeOK
<1>3. Claimed' = Claimed /\ Claimed.id = "local"
  BY <1>1, <1>2, MadeTag DEF Claimed, Ids
<1>4. Status' = Status
  <2>1. CASE At("popCompare")
    <3>1. /\ live /\ owner.place - 1 \in Places
          /\ \/ deque[owner.place - 1].tag \in {owner.copy.tag, Claimed}
             \/ Is("taken", deque[owner.place - 1])
      BY <1>2, <2>1, SizeAssumption DEF OwnerPlace, At, Places
    <3>2. deque'[owner.place - 1].tag = Claimed <=> deque[owner.place - 1].tag = Claimed
      BY <1>1, <1>3, <3>1 DEF ThiefTag, Is
    <3> QED
      BY <1>1, <1>3, <2>1, <3>2, StatusOf, StatusAfter DEF At
  <2>2. CASE ~At("popCompare")
    BY <1>1, <2>2 DEF Status, At
  <2> QED
    BY <2>1, <2>2
<1>5. PICK i \in Places : /\ ThiefTag(i)
                          /\ \A j \in Places : j # i => deque'[j].tag = deque[j].tag
  BY <1>1
<1>6. ~live => Status = "dead" /\ Status' = Status
  BY <1>2, <1>4, StatusOf DEF OwnerPlace
<1>7. CASE deque'[i].tag = deque[i].tag
  BY <1>4, <1>5, <1>7, SameJobs
<1>8. CASE Is("scheduled", deque[i]) /\ Is("taken", deque'[i])
  <2>1. i \in Ready /\ Ready' = Ready \ {i} /\ Stolen' = Stolen \union {i}
    BY <1>5, <1>8 DEF Ready, Stolen, Is
  <2> QED
    BY <1>4, <2>1 DEF Abstract!Next, Abstract!PopTop
<1>9. CASE ~live /\ Is("local", deque[i]) /\ Is("taken", deque'[i])
  <2>1. i \in Places \ Ready /\ Ready' = Ready /\ Stolen' = Stolen \union {i}
    BY <1>5, <1>9 DEF Ready, Stolen, Is
  <2> QED
    BY <1>6, <1>9, <2>1 DEF Abstract!Next, Abstract!Rob
<1>10. CASE ~live /\ Is("empty", deque'[i])
  <2>1. Ready' = Ready \ {i} /\ Stolen' = Stolen \ {i}
    BY <1>5, <1>10 DEF Ready, Stolen, Is
  <2> QED
    BY <1>5, <1>6, <1>10, <2>1 DEF Abstract!Next, Abstract!Clear
<1> QED
  BY <1>5, <1>7, <1>8, <1>9, <1>10 DEF ThiefTag

\* Every job leaves the deque once: its owner claims it, or one thief takes it.
THEOREM Refinement == Spec => ImplementsWorkDeque
<1>1. ASSUME DequeInv, [Next]_vars PROVE [Abstract!Next]_Abstract!vars
  <2>1. CASE Owner
    BY <1>1, <2>1, OwnerRefines DEF Abstract!vars
  <2>2. CASE OwnerDies
    <3>1. UNCHANGED deque /\ Status' = "dead"
      BY <2>2, StatusAfter DEF OwnerDies, Idle, At
    <3>2. Status # "dead"
      BY <1>1, <2>2 DEF OwnerDies, DequeInv, OwnerPlace, Status, At
    <3> QED
      BY <3>1, <3>2, SameJobs DEF Abstract!Next, Abstract!Die
  <2>3. ASSUME NEW p \in Thieves, Thief(p) \/ ThiefDies(p)
        PROVE  [Abstract!Next]_Abstract!vars
    BY <1>1, <2>3, ThiefRefines DEF Abstract!vars
  <2>4. CASE UNCHANGED vars
    BY <2>4 DEF vars, Abstract!vars, Ready, Stolen, Status, At, Claimed
  <2> QED
    BY <1>1, <2>1, <2>2, <2>3, <2>4 DEF Next
<1> QED
  BY <1>1, DequeInvariant, InitRefines, PTL DEF Spec, ImplementsWorkDeque, Abstract!Spec

-----------------------------------------------------------------------------
\* The invariant of the theft of the first job

\* As long as it lives, the owner leaves an entry that was taken alone.
LEMMA OwnerKeeps ==
  ASSUME DequeInv, Owner, NEW i \in Places, Is("taken", deque[i])
  PROVE  deque'[i] = deque[i]
<1>1. /\ deque \in [Places -> Entry] /\ bot \in Places /\ bot \in Int
      /\ owner \in OwnerStates /\ OwnerPlace /\ NoneBelow /\ Places \subseteq Int
      /\ live \in BOOLEAN
  BY SizeAssumption DEF DequeInv, TypeOK, Places
<1>2. /\ owner.place \in Places /\ owner.copy \in Entry /\ owner.copy.tag \in Tag
      /\ owner.next \in Entry /\ owner.next.tag \in Tag /\ owner.target \in Targets
  BY <1>1, OwnerState
<1>3. live => i < bot
  BY <1>1 DEF NoneBelow, Unclaimed, Is
<1>4. CASE PushBelow
  <2>1. live
    BY <1>1, <1>4 DEF PushBelow, OwnerPlace, At
  <2> QED
    BY <1>1, <1>2, <1>3, <1>4, <2>1, PushBelowEffect
<1>5. CASE PushTarget
  <2>1. i # owner.place
    BY <1>1, <1>5 DEF PushTarget, OwnerPlace, At, Is
  <2> QED
    BY <1>1, <1>2, <1>5, <2>1, CamTargetEffect DEF PushTarget
<1>6. CASE SjpTarget
  <2>1. owner.place = bot /\ live
    BY <1>1, <1>6 DEF SjpTarget, OwnerPlace, At
  <2> QED
    BY <1>1, <1>2, <1>3, <1>6, <2>1, CamTargetEffect DEF SjpTarget
<1>7. CASE PushTag
  <2>1. i # owner.place
    BY <1>1, <1>7 DEF PushTag, OwnerPlace, At, Is
  <2> QED
    BY <1>1, <1>2, <1>7, <2>1, PushTagEffect
<1>8. CASE SjpTag
  <2>1. owner.place = bot /\ live
    BY <1>1, <1>8 DEF SjpTag, OwnerPlace, At
  <2> QED
    BY <1>1, <1>2, <1>3, <1>8, <2>1, MadeTag, CamTagEffect DEF SjpTag, Ids
<1>9. CASE SCnt
  <2>1. owner.place = bot /\ live
    BY <1>1, <1>9 DEF SCnt, OwnerPlace, At
  <2> QED
    BY <1>1, <1>3, <1>9, <2>1 DEF SCnt
<1>10. CASE PopTag
  BY <1>1, <1>2, <1>10, PopTagEffect DEF Is
<1>11. CASE Obtain
  <2>1. live
    BY <1>1, <1>11 DEF Obtain, OwnerPlace, At
  <2> QED
    BY <1>1, <1>3, <1>11, <2>1, Room, MadeEffect DEF Obtain, Ids
<1>12. CASE UNCHANGED deque
  BY <1>12
<1> QED
  BY <1>4, <1>5, <1>6, <1>7, <1>8, <1>9, <1>10, <1>11, <1>12, OwnerParts

\* The top of the deque goes up only.
LEMMA TopGoesUp == ASSUME DequeInv, Next, top' = 0 PROVE top = 0
<1>1. top \in Int /\ top >= 0
  BY DEF DequeInv, TypeOK
<1>2. CASE Owner
  BY <1>1, <1>2, OwnerParts DEF HelpElsewhere
<1>3. CASE OwnerDies
  BY <1>3 DEF OwnerDies
<1>4. ASSUME NEW p \in Thieves, Thief(p) \/ ThiefDies(p) PROVE top = 0
  BY <1>4, ThiefTags
<1> QED
  BY <1>2, <1>3, <1>4 DEF Next

LEMMA TakenFirst == ASSUME StaysTaken, taken # {} PROVE Is("taken", deque[0])
<1>1. PICK v \in taken : TRUE
  OBVIOUS
<1>2. deque[0].tag = Taken(v.counter)
  BY <1>1 DEF StaysTaken
<1>3. Taken(v.counter).id = "taken"
  BY DEF Taken
<1> QED
  BY <1>2, <1>3 DEF Is

LEMMA OwnerTheft ==
  ASSUME DequeInv, TheftInv, top = 0, top' = 0, Owner \/ OwnerDies PROVE TheftInv'
<1>1. /\ UNCHANGED <<thief, local, taken, won>>
  BY OwnerParts DEF OwnerDies, thiefVars
<1>2. \A i \in Places : Is("taken", deque'[i]) => Is("taken", deque[i])
  BY OwnerTags DEF OwnerDies, Is
<1>3. taken # {} => Is("taken", deque[0])
  BY TakenFirst DEF TheftInv
<1>4. taken # {} => deque'[0] = deque[0]
  <2>1. CASE Owner
    BY <1>3, <2>1, OwnerKeeps, Room
  <2>2. CASE OwnerDies
    BY <2>2 DEF OwnerDies
  <2> QED
    BY <2>1, <2>2
<1>5. \A p \in Thieves : Theft(p)' = Theft(p) /\ Stealing(p)' = Stealing(p)
  BY <1>1 DEF Theft, Stealing
<1>6. StaysTaken'
  BY <1>1, <1>2, <1>4, <1>5 DEF TheftInv, StaysTaken, Thefts, DequeInv, TypeOK
<1>7. ASSUME NEW p \in Thieves PROVE LocalEntry(p)' /\ HelpsItself(p)'
  <2>1. LocalEntry(p) /\ HelpsItself(p)
    BY DEF TheftInv
  <2>2. LocalEntry(p)'
    BY <1>1, <2>1 DEF LocalEntry
  <2>3. HelpsItself(p)'
    BY <1>1, <1>4, <1>5, <2>1 DEF HelpsItself
  <2> QED
    BY <2>2, <2>3
<1>8. WinnersTook'
  BY <1>1 DEF TheftInv, WinnersTook
<1> QED
  BY <1>6, <1>7, <1>8 DEF TheftInv

\* While an entry is taken, a thief changes its target at most, to itself.
LEMMA ThiefKeeps ==
  ASSUME DequeInv, StaysTaken, NEW p \in Thieves, Thief(p) \/ ThiefDies(p), taken # {}
  PROVE  /\ deque'[0].tag = deque[0].tag
         /\ (TakeTarget(p) /\ deque'[0].target = p) \/ deque'[0] = deque[0]
<1> DEFINE x == thief[p]
<1>1. /\ deque \in [Places -> Entry] /\ x \in ThiefStates /\ ThiefCopy(p)
      /\ thief \in [Thieves -> ThiefStates] /\ 0 \in Places
  BY Room DEF DequeInv, TypeOK
<1>2. x.counter \in Counter /\ x.place \in Places /\ x.place = 0 /\ Is("taken", deque[0])
  BY <1>1, ThiefState, TakenFirst DEF StaysTaken
<1>3. CASE ClearBelow(p)
  BY <1>1, <1>2, <1>3, ClearBelowEffect
<1>4. CASE TakeTarget(p)
  <2>1. /\ deque'[0].tag = deque[0].tag /\ deque' \in [Places -> Entry]
        /\ deque'[0].target \in {deque[0].target, p}
    BY <1>1, <1>2, <1>4, CamTargetEffect DEF TakeTarget, Targets
  <2>2. deque'[0].target = deque[0].target => deque'[0] = deque[0]
    BY <1>1, <2>1 DEF Entry
  <2> QED
    BY <1>4, <2>1, <2>2
<1>5. CASE TakeTag(p)
  <2>1. deque[0].tag # x.copy.tag
    BY <1>1, <1>2, <1>5 DEF TakeTag, Doing, ThiefCopy, Is
  <2> QED
    BY <1>1, <1>2, <1>5, <2>1, TakenTag, CamTagEffect DEF TakeTag
<1>6. CASE UNCHANGED deque
  BY <1>6
<1> QED
  BY <1>3, <1>4, <1>5, <1>6, ThiefParts

\* Where a step leaves the thief.
LEMMA LoopMoves ==
  ASSUME DequeInv, NEW p \in Thieves, StealLoop(p)
  PROVE  LET y == thief'[p]
         IN  /\ y.at = "help" /\ y.then = "steal" /\ y.counter = local[p].counter
             /\ y.place = 0 /\ y.spot = 0
<1>1. local[p].counter \in Counter /\ thief \in [Thieves -> ThiefStates]
  BY DEF DequeInv, TypeOK, Tag
<1> QED
  BY <1>1, FreshHelp DEF StealLoop, Step

LEMMA TopMoves ==
  ASSUME DequeInv, NEW p \in Thieves, HelpTop(p) \/ StealPlace(p) \/ StealTop(p)
  PROVE  LET x == thief[p]
             y == thief'[p]
         IN  /\ y.then = x.then /\ y.counter = x.counter /\ y.copy = x.copy
             /\ \/ /\ HelpTop(p) /\ y.at = "helpLook"
                   /\ y.place = x.place /\ y.spot = top
                \/ /\ StealPlace(p) /\ y.at = "stealTop"
                   /\ y.place = top /\ y.spot = x.spot
                \/ /\ StealTop(p) /\ y.at = "stealCopy"
                   /\ y.place = x.place /\ y.spot = top
<1>1. thief \in [Thieves -> ThiefStates]
  BY DEF DequeInv, TypeOK
<1> QED
  BY <1>1 DEF HelpTop, StealPlace, StealTop, Step, ThiefStates

LEMMA HelpLookMoves ==
  ASSUME DequeInv, NEW p \in Thieves, HelpLook(p)
  PROVE  LET x == thief[p]
             y == thief'[p]
         IN  /\ y.at = "helpRead" /\ y.then = x.then /\ y.counter = x.counter
             /\ y.place = x.place /\ y.spot = 0 /\ y.copy = x.copy
             /\ y.seen = deque[x.spot]
<1>1. thief \in [Thieves -> ThiefStates]
  BY DEF DequeInv, TypeOK
<1>2. Step(p, [thief[p] EXCEPT !.at = "helpRead", !.spot = 0,
                               !.seen = deque[thief[p].spot]])
  BY DEF HelpLook
<1> QED
  BY <1>1, <1>2 DEF Step, ThiefStates

LEMMA HelpReadMoves ==
  ASSUME DequeInv, NEW p \in Thieves, HelpRead(p)
  PROVE  LET x == thief[p]
             y == thief'[p]
         IN  /\ y.at = "helpMark" /\ y.then = x.then /\ y.counter = x.counter
             /\ y.place = x.place /\ y.spot = x.spot /\ y.copy = x.copy
             /\ y.seen = x.seen /\ y.mark = Made("local", local[x.seen.target])
<1>1. thief \in [Thieves -> ThiefStates]
  BY DEF DequeInv, TypeOK
<1>2. Step(p, [thief[p] EXCEPT !.at = "helpMark",
                 !.mark = Made("local", local[thief[p].seen.target])])
  BY DEF HelpRead
<1> QED
  BY <1>1, <1>2 DEF Step, ThiefStates

LEMMA RobMoves ==
  ASSUME DequeInv, NEW p \in Thieves, GraveRob(p) \/ ClearBelow(p)
  PROVE  LET x == thief[p]
             y == thief'[p]
         IN  /\ y.at \in {"clear", "target"} /\ y.counter = x.counter
             /\ y.place = x.place /\ y.spot = x.spot /\ y.copy = x.copy
<1>1. thief \in [Thieves -> ThiefStates]
  BY DEF DequeInv, TypeOK
<1>2. CASE GraveRob(p)
  BY <1>1, <1>2 DEF GraveRob, ThiefStates
<1>3. CASE ClearBelow(p)
  BY <1>1, <1>3 DEF ClearBelow, Step, ThiefStates
<1> QED
  BY <1>2, <1>3

LEMMA SchedulerMoves ==
  ASSUME DequeInv, NEW p \in Thieves, ThiefScheduler(p)
  PROVE  LET y == thief'[p]
         IN  /\ y.at = "sCnt" /\ y.place = 0 /\ y.spot = 0 /\ y.mark.id = "empty"
<1>1. /\ thief \in [Thieves -> ThiefStates]
      /\ Made("empty", local[p]) \in Tag /\ Made("empty", local[p]).id = "empty"
  BY MadeTag DEF DequeInv, TypeOK, Ids
<1> QED
  BY <1>1, FreshSCnt DEF ThiefScheduler, Step

LEMMA FreshMoves ==
  ASSUME DequeInv, NEW p \in Thieves,
         \/ StealNothing(p) \/ StackChanged(p) \/ NotOrphaned(p) \/ Lost(p) \/ Win(p)
         \/ ThiefSCnt(p) \/ ThiefDies(p)
  PROVE  /\ thief'[p].at \in {"stealLoop", "thread", "lost", "dead"}
         /\ thief'[p].place = 0 /\ thief'[p].spot = 0
BY FreshState
DEF StealNothing, StackChanged, NotOrphaned, Lost, Win, Prize, ThiefSCnt, ThiefDies,
    Retry, Step, DequeInv, TypeOK

\* A thief keeps its copies from the copy of the entry to the comparison.
KeepsCopies(p) ==
  /\ thief'[p].counter = thief[p].counter
  /\ thief'[p].place = thief[p].place
  /\ thief'[p].copy = thief[p].copy

LEMMA ThiefMoves ==
  ASSUME DequeInv, NEW p \in Thieves, Thief(p) \/ ThiefDies(p), top = 0,
         thief[p].place = 0, thief[p].spot = 0
  PROVE  /\ \A q \in Thieves : q # p => thief'[q] = thief[q]
         /\ thief'[p].place = 0 /\ thief'[p].spot = 0
         /\ Stealing(p)' => StealScheduled(p) \/ StealLocal(p)
                              \/ (Stealing(p) /\ KeepsCopies(p))
<1>1. thief \in [Thieves -> ThiefStates] /\ thief[p].then \in Thens
  BY ThiefState DEF DequeInv, TypeOK
<1>2. \A q \in Thieves : q # p => thief'[q] = thief[q]
  BY <1>1, OthersStay
<1> SUFFICES /\ thief'[p].place = 0 /\ thief'[p].spot = 0
             /\ Stealing(p)' => StealScheduled(p) \/ StealLocal(p)
                                  \/ (Stealing(p) /\ KeepsCopies(p))
  BY <1>2
<1>3. CASE StealLoop(p)
  BY <1>3, LoopMoves DEF Stealing, Aiming
<1>4. CASE HelpTop(p) \/ StealPlace(p) \/ StealTop(p)
  BY <1>4, TopMoves DEF Stealing, Aiming, KeepsCopies, HelpTop, Doing
<1>5. CASE HelpLook(p)
  BY <1>5, HelpLookMoves DEF Stealing, Aiming, KeepsCopies, HelpLook, Doing
<1>6. CASE HelpRead(p)
  BY <1>6, HelpReadMoves DEF Stealing, Aiming, KeepsCopies, HelpRead, Doing
<1>7. CASE HelpNobody(p) \/ HelpMark(p)
  BY <1>1, <1>7, HelpedFields
  DEF Stealing, Aiming, KeepsCopies, HelpNobody, HelpMark, Doing, Thens
<1>8. CASE StealTaken(p)
  BY <1>1, <1>8, HelpFields DEF Stealing, Aiming, StealTaken
<1>9. CASE StealScheduled(p) \/ StealLocal(p)
  BY <1>1, <1>9, CopiesFields DEF StealScheduled, StealLocal
<1>10. CASE StackSame(p) \/ FoundOrphan(p) \/ TakeTarget(p)
  BY <1>1, <1>10, ToFields
  DEF Stealing, Aiming, KeepsCopies, StackSame, FoundOrphan, TakeTarget, Doing
<1>11. CASE GraveRob(p) \/ ClearBelow(p)
  BY <1>11, RobMoves DEF Stealing, Aiming, KeepsCopies, GraveRob, ClearBelow, Doing
<1>12. CASE TakeLook(p) \/ TakeTag(p)
  BY <1>1, <1>12, ToFields, HelpFields
  DEF Stealing, Aiming, KeepsCopies, TakeLook, TakeTag, Doing
<1>13. CASE \/ StealNothing(p) \/ StackChanged(p) \/ NotOrphaned(p) \/ Lost(p) \/ Win(p)
            \/ ThiefSCnt(p) \/ ThiefDies(p)
  BY <1>13, FreshMoves DEF Stealing, Aiming
<1>14. CASE ThiefScheduler(p)
  BY <1>14, SchedulerMoves DEF Stealing, Aiming
<1> QED
  BY <1>3, <1>4, <1>5, <1>6, <1>7, <1>8, <1>9, <1>10, <1>11, <1>12, <1>13, <1>14
  DEF Thief, Thieving

LEMMA NoneTaken ==
  ASSUME StaysTaken, NEW p \in Thieves, top = 0,
         \/ StealScheduled(p) \/ StealLocal(p)
         \/ TakeTag(p) /\ ThiefCopy(p) /\ deque[0].tag = thief[p].copy.tag
  PROVE  taken = {}
<1>1. thief[p].spot = 0
  BY DEF StaysTaken
<1> QED
  BY <1>1, TakenFirst DEF StealScheduled, StealLocal, TakeTag, Doing, ThiefCopy, Is

LEMMA ThiefStaysTaken ==
  ASSUME DequeInv, StaysTaken, NEW p \in Thieves, Thief(p) \/ ThiefDies(p), top = 0
  PROVE  StaysTaken'
<1>1. /\ \A q \in Thieves : thief[q].place = 0 /\ thief[q].spot = 0
      /\ \A q \in Thieves : q # p => thief'[q] = thief[q]
      /\ thief'[p].place = 0 /\ thief'[p].spot = 0
      /\ Stealing(p)' => StealScheduled(p) \/ StealLocal(p)
                           \/ (Stealing(p) /\ KeepsCopies(p))
  BY ThiefMoves DEF StaysTaken
<1>2. KeepsCopies(p) => Theft(p)' = Theft(p)
  BY DEF KeepsCopies, Theft
<1>3. ASSUME NEW q \in Thieves, q # p
      PROVE  Theft(q)' = Theft(q) /\ Stealing(q)' = Stealing(q)
  BY <1>1, <1>3 DEF Theft, Stealing
<1>4. /\ \A v \in taken : v.by \in Thieves
      /\ deque \in [Places -> Entry] /\ thief[p] \in ThiefStates /\ 0 \in Places
      /\ thief \in [Thieves -> ThiefStates] /\ ThiefCopy(p)
  BY Room DEF DequeInv, TypeOK, Thefts
<1>5. CASE TakeTag(p) /\ deque[0].tag = thief[p].copy.tag
  <2>1. taken = {} /\ taken' = {Theft(p)}
    BY <1>1, <1>4, <1>5, NoneTaken DEF TakeTag
  <2>2. /\ deque'[0].tag = Taken(thief[p].counter)
        /\ \A j \in Places : j # 0 => deque'[j] = deque[j]
    BY <1>1, <1>4, <1>5, ThiefState, TakenTag, CamTagEffect DEF TakeTag
  <2>3. \A i \in Places : Is("taken", deque'[i]) => i = 0
    BY <2>1, <2>2 DEF StaysTaken
  <2>4. /\ Theft(p).place = 0 /\ Theft(p).counter = thief[p].counter /\ Theft(p).by = p
    BY <1>1 DEF Theft
  <2>5. Theft(p)' = Theft(p)
    BY <1>2, <1>4, <1>5, HelpFields DEF TakeTag, KeepsCopies
  <2> QED
    BY <1>1, <2>1, <2>2, <2>3, <2>4, <2>5 DEF StaysTaken
<1>6. CASE ~(TakeTag(p) /\ deque[0].tag = thief[p].copy.tag)
  <2>1. taken' = taken
    BY <1>1, <1>6, ThiefParts DEF TakeTag
  <2>2. \A i \in Places : Is("taken", deque'[i]) => Is("taken", deque[i])
    <3>1. CASE ClearBelow(p)
      BY <1>4, <3>1, ClearBelowEffect DEF Is
    <3>2. CASE TakeTarget(p)
      BY <1>4, <3>2, ThiefState, CamTargetEffect DEF TakeTarget, Targets, Is
    <3>3. CASE UNCHANGED deque
      BY <3>3
    <3> QED
      BY <1>1, <1>6, <3>1, <3>2, <3>3, ThiefParts DEF TakeTag, CamTag
  <2>3. taken # {} => deque'[0].tag = deque[0].tag
    BY ThiefKeeps
  <2>4. ASSUME NEW v \in taken, Stealing(v.by)' PROVE Theft(v.by)' = v
    <3>1. CASE v.by = p
      <4>1. Stealing(p) /\ KeepsCopies(p)
        BY <1>1, <2>4, <3>1, NoneTaken
      <4> QED
        BY <1>2, <2>4, <3>1, <4>1 DEF StaysTaken
    <3>2. CASE v.by # p
      BY <1>3, <1>4, <2>4, <3>2 DEF StaysTaken
    <3> QED
      BY <3>1, <3>2
  <2> QED
    BY <1>1, <2>1, <2>2, <2>3, <2>4 DEF StaysTaken
<1> QED
  BY <1>5, <1>6

\* The local entries: a mark makes one local, and only its own thief empties it.
LEMMA ThiefLocalEntry ==
  ASSUME DequeInv, NEW p \in Thieves, Thief(p) \/ ThiefDies(p), top = 0,
         \A q \in Thieves : thief[q].place = 0 /\ thief[q].spot = 0 /\ LocalEntry(q),
         NEW q \in Thieves
  PROVE  LocalEntry(q)'
<1> DEFINE x == thief[p]
           y == thief'[p]
<1>1. /\ local \in [Thieves -> Tag] /\ thief \in [Thieves -> ThiefStates]
      /\ x.then \in Thens /\ ThiefCopy(p)
  BY ThiefState DEF DequeInv, TypeOK
<1>2. /\ \A r \in Thieves : r # p => thief'[r] = thief[r]
      /\ LocalEntry(p) /\ LocalEntry(q)
  BY ThiefMoves
<1>3. CASE HelpMark(p)
  <2>1. x.mark.id = "local" /\ x.seen.target \in Thieves
    BY <1>1, <1>2, <1>3 DEF HelpMark, Doing, LocalEntry, ThiefCopy
  <2>2. local'[q] = local[q] \/ local'[q].id = "local"
    BY <1>1, <1>3, <2>1 DEF HelpMark
  <2>3. y.at = x.then /\ y.counter = x.counter
    BY <1>1, <1>3, HelpedFields DEF HelpMark
  <2>4. y.at \notin {"helpMark", "sCnt"} \/ y.mark.id = "empty"
    BY <1>1, <1>3, <2>3 DEF HelpMark, Helped, Step, Thens, Blank, ThiefStates
  <2> QED
    BY <1>1, <1>2, <1>3, <2>2, <2>3, <2>4
    DEF LocalEntry, Unclaimed, HelpMark, Doing, Thens
<1>4. CASE ThiefSCnt(p)
  <2>1. x.mark.id = "empty"
    BY <1>2, <1>4 DEF ThiefSCnt, Doing, LocalEntry
  <2>2. /\ local'[p].id = "empty"
        /\ \A r \in Thieves : r # p => local'[r] = local[r]
    BY <1>1, <1>4, <2>1 DEF ThiefSCnt
  <2>3. y.at = "stealLoop"
    BY <1>1, <1>4, FreshState DEF ThiefSCnt, Retry, Step
  <2> QED
    BY <1>2, <2>2, <2>3 DEF LocalEntry, Unclaimed
<1>5. CASE UNCHANGED local
  <2>1. CASE q # p
    BY <1>2, <1>5, <2>1 DEF LocalEntry
  <2>2. CASE StealLoop(p)
    BY <1>2, <1>5, <2>1, <2>2, LoopMoves DEF LocalEntry
  <2>3. CASE HelpTop(p) \/ StealPlace(p) \/ StealTop(p)
    BY <1>2, <1>5, <2>1, <2>3, TopMoves
    DEF LocalEntry, HelpTop, StealPlace, StealTop, Doing
  <2>4. CASE HelpLook(p)
    BY <1>2, <1>5, <2>1, <2>4, HelpLookMoves DEF LocalEntry, HelpLook, Doing
  <2>5. CASE HelpNobody(p)
    <3>1. /\ y.at = x.then /\ y.counter = x.counter /\ x.at = "helpLook"
          /\ y.mark.id = "empty"
      BY <1>1, <2>5 DEF HelpNobody, Doing, Helped, Step, Blank, ThiefStates
    <3> QED
      BY <1>1, <1>2, <1>5, <2>1, <3>1 DEF LocalEntry, Thens
  <2>6. CASE HelpRead(p)
    <3>1. x.seen.target \in Thieves
      BY <1>1, <2>6 DEF HelpRead, Doing, ThiefCopy
    <3>2. Made("local", local[x.seen.target]).id = "local"
      BY <1>1, <3>1, MadeTag DEF Ids
    <3> QED
      BY <1>2, <1>5, <2>1, <2>6, <3>2, HelpReadMoves DEF LocalEntry, HelpRead, Doing
  <2>7. CASE StealTaken(p) \/ TakeLook(p) \/ TakeTag(p)
    BY <1>1, <1>2, <1>5, <2>1, <2>7, HelpFields, ToFields
    DEF LocalEntry, StealTaken, TakeLook, TakeTag, Doing
  <2>8. CASE StealScheduled(p) \/ StealLocal(p)
    BY <1>1, <1>2, <1>5, <2>1, <2>8, CopiesFields
    DEF LocalEntry, StealScheduled, StealLocal, Doing
  <2>9. CASE StackSame(p) \/ FoundOrphan(p) \/ TakeTarget(p)
    <3>1. /\ y.at \in {"isLive", "graveRob", "look"} /\ y.counter = x.counter
          /\ x.at \notin {"stealLoop", "thread", "sCnt", "lost", "dead"}
      BY <1>1, <2>9, ToFields DEF StackSame, FoundOrphan, TakeTarget, Doing
    <3> QED
      BY <1>2, <1>5, <2>1, <3>1 DEF LocalEntry
  <2>10. CASE GraveRob(p) \/ ClearBelow(p)
    BY <1>2, <1>5, <2>1, <2>10, RobMoves DEF LocalEntry, GraveRob, ClearBelow, Doing
  <2>11. CASE \/ StealNothing(p) \/ StackChanged(p) \/ NotOrphaned(p) \/ Lost(p)
              \/ Win(p) \/ ThiefDies(p)
    BY <1>2, <1>5, <2>1, <2>11, FreshMoves DEF LocalEntry
  <2>12. CASE ThiefScheduler(p)
    BY <1>2, <1>5, <2>1, <2>12, SchedulerMoves DEF LocalEntry
  <2> QED
    BY <1>3, <1>4, <2>1, <2>2, <2>3, <2>4, <2>5, <2>6, <2>7, <2>8, <2>9, <2>10, <2>11,
       <2>12 DEF Thief, Thieving
<1> QED
  BY <1>3, <1>4, <1>5, ThiefParts

\* Marks of other thieves leave a local entry local, and other thefts change
\* what the target is, not that it is another.
LEMMA OthersHelp ==
  ASSUME DequeInv, TheftInv, NEW p \in Thieves, Thief(p) \/ ThiefDies(p), top = 0,
         NEW q \in Thieves, q # p
  PROVE  HelpsItself(q)'
<1>1. /\ local \in [Thieves -> Tag] /\ StaysTaken /\ HelpsItself(q) /\ LocalEntry(p)
      /\ taken \subseteq Thefts /\ ThiefCopy(p)
      /\ thief[p].place = 0 /\ thief[p].spot = 0
  BY DEF DequeInv, TypeOK, TheftInv, StaysTaken
<1>2. thief'[q] = thief[q] /\ Theft(q)' = Theft(q)
  BY <1>1, ThiefMoves DEF Theft
<1>3. Theft(q) \in taken' => Theft(q) \in taken
  BY ThiefParts DEF TakeTag, Theft
<1>4. local[q].id = "local" => local'[q].id = "local"
  <2>1. CASE HelpMark(p)
    BY <1>1, <2>1 DEF HelpMark, Doing, LocalEntry, ThiefCopy
  <2>2. CASE ThiefSCnt(p)
    BY <1>1, <2>2 DEF ThiefSCnt
  <2>3. CASE UNCHANGED local
    BY <2>3
  <2> QED
    BY <2>1, <2>2, <2>3, ThiefParts
<1>5. taken # {} => deque'[0].target = p \/ deque'[0] = deque[0]
  BY <1>1, ThiefKeeps
<1> QED
  BY <1>1, <1>2, <1>3, <1>4, <1>5 DEF HelpsItself

\* Between its CAM and its comparison the thief helps itself.
LEMMA ThiefHelpsItself ==
  ASSUME DequeInv, TheftInv, NEW p \in Thieves, Thief(p) \/ ThiefDies(p), top = 0
  PROVE  HelpsItself(p)'
<1> SUFFICES ASSUME Theft(p)' \in taken'
             PROVE  /\ thief'[p].at \notin Aiming
                    /\ deque'[0].target = p =>
                         /\ /\ thief'[p].at \in {"helpRead", "helpMark"}
                            /\ thief'[p].then = "compare"
                            => thief'[p].seen = deque'[0]
                         /\ thief'[p].at = "compare" => local'[p].id = "local"
  BY DEF HelpsItself
<1> DEFINE x == thief[p]
           y == thief'[p]
<1>1. /\ local \in [Thieves -> Tag] /\ StaysTaken /\ HelpsItself(p) /\ LocalEntry(p)
      /\ taken \subseteq Thefts /\ ThiefCopy(p) /\ thief \in [Thieves -> ThiefStates]
      /\ x.place = 0 /\ x.spot = 0 /\ x.then \in Thens
  BY ThiefState DEF DequeInv, TypeOK, TheftInv, StaysTaken
<1>2. KeepsCopies(p) => Theft(p)' = Theft(p)
  BY DEF KeepsCopies, Theft
<1>3. CASE HelpLook(p)
  BY <1>1, <1>3, HelpLookMoves DEF HelpLook, Aiming
<1>4. CASE HelpNobody(p)
  <2>1. /\ KeepsCopies(p) /\ y.at = x.then
        /\ ~(Is("taken", deque[0]) /\ deque[0].target \in Thieves)
        /\ UNCHANGED <<deque, local, taken>>
    BY <1>1, <1>4, HelpedFields DEF KeepsCopies, HelpNobody
  <2>2. Theft(p) \in taken /\ Is("taken", deque[0])
    BY <1>1, <1>2, <2>1, TakenFirst
  <2> QED
    BY <1>1, <2>1, <2>2 DEF Aiming, Thens
<1>5. CASE HelpRead(p)
  <2>1. /\ KeepsCopies(p) /\ x.at = "helpRead" /\ y.at = "helpMark" /\ y.then = x.then
        /\ y.seen = x.seen /\ UNCHANGED <<deque, local, taken>>
    BY <1>5, HelpReadMoves DEF KeepsCopies, HelpRead, Doing
  <2> QED
    BY <1>1, <1>2, <2>1 DEF HelpsItself, Aiming
<1>6. CASE HelpMark(p)
  <2>1. /\ KeepsCopies(p) /\ x.at = "helpMark" /\ y.at = x.then
        /\ UNCHANGED <<deque, taken>>
    BY <1>1, <1>6, HelpedFields DEF KeepsCopies, HelpMark, Doing
  <2>2. Theft(p) \in taken
    BY <1>2, <2>1
  <2>3. ASSUME x.then = "compare", deque[0].target = p PROVE local'[p].id = "local"
    <3>1. x.seen = deque[0]
      BY <1>1, <2>1, <2>2, <2>3 DEF HelpsItself
    <3>2. deque[0].tag.counter = x.counter
      <4>1. deque[0].tag = Taken(Theft(p).counter)
        BY <1>1, <2>2 DEF StaysTaken
      <4>2. Theft(p).counter = x.counter
        BY DEF Theft
      <4> QED
        BY <4>1, <4>2 DEF Taken
    <3>3. local[p].id = "local" \/ local[p] = [id |-> "empty", counter |-> x.counter]
      BY <1>1, <2>1 DEF LocalEntry, Unclaimed, Tag
    <3>4. x.mark.id = "local"
      BY <1>1, <2>1 DEF LocalEntry
    <3> QED
      BY <1>1, <1>6, <2>3, <3>1, <3>2, <3>3, <3>4 DEF HelpMark
  <2> QED
    BY <1>1, <2>1, <2>3 DEF Aiming, Thens
<1>7. CASE StealScheduled(p) \/ StealLocal(p)
  <2>1. taken = {} /\ taken' = taken
    BY <1>1, <1>7, NoneTaken DEF StealScheduled, StealLocal
  <2> QED
    BY <2>1
<1>8. CASE \/ StackSame(p) \/ FoundOrphan(p) \/ GraveRob(p) \/ ClearBelow(p)
           \/ TakeTarget(p) \/ TakeLook(p)
  <2>1. KeepsCopies(p)
    BY <1>1, <1>8, RobMoves, ToFields, HelpFields
    DEF KeepsCopies, StackSame, FoundOrphan, TakeTarget, TakeLook
  <2>2. taken' = taken /\ x.at \in Aiming
    BY <1>8 DEF StackSame, FoundOrphan, GraveRob, ClearBelow, TakeTarget, TakeLook, Doing,
                Aiming
  <2> QED
    BY <1>1, <1>2, <2>1, <2>2 DEF HelpsItself
<1>9. CASE StealTaken(p) \/ TakeTag(p)
  BY <1>1, <1>9, HelpFields DEF StealTaken, TakeTag, Aiming
<1>10. CASE StealLoop(p)
  BY <1>10, LoopMoves DEF Aiming
<1>11. CASE HelpTop(p) \/ StealPlace(p) \/ StealTop(p)
  BY <1>11, TopMoves DEF Aiming
<1>12. CASE \/ StealNothing(p) \/ StackChanged(p) \/ NotOrphaned(p) \/ Lost(p) \/ Win(p)
            \/ ThiefSCnt(p) \/ ThiefDies(p)
  BY <1>12, FreshMoves DEF Aiming
<1>13. CASE ThiefScheduler(p)
  BY <1>13, SchedulerMoves DEF Aiming
<1> QED
  BY <1>3, <1>4, <1>5, <1>6, <1>7, <1>8, <1>9, <1>10, <1>11, <1>12, <1>13
  DEF Thief, Thieving

LEMMA ThiefWinnersTook ==
  ASSUME DequeInv, TheftInv, NEW p \in Thieves, Thief(p) \/ ThiefDies(p), top = 0
  PROVE  WinnersTook'
<1>1. /\ StaysTaken /\ WinnersTook /\ taken \subseteq taken'
      /\ \A i \in Places : i >= 0
  BY SizeAssumption, ThiefParts DEF TheftInv, Places, TakeTag
<1>2. CASE Win(p) /\ Theft(p) \notin taken
  <2>1. deque[0] = [tag |-> Taken(thief[p].counter), target |-> p] /\ thief[p].place = 0
    BY <1>1, <1>2 DEF Win, Mine, StaysTaken
  <2>2. taken # {} /\ thief[p].at = "compare"
    BY <1>1, <1>2, <2>1, Room DEF StaysTaken, Is, Taken, Win, Doing
  <2>3. PICK v \in taken : TRUE
    BY <2>2
  <2>4. /\ v.place = 0 /\ Taken(v.counter) = Taken(thief[p].counter)
        /\ v.by # p
    BY <1>1, <1>2, <2>1, <2>2, <2>3 DEF StaysTaken, Stealing, Aiming
  <2>5. v.counter = thief[p].counter
    BY <2>4 DEF Taken
  <2>6. won' = won \union {Theft(p)} /\ taken' = taken
    BY <1>2 DEF Win
  <2>7. \A w \in won \ taken :
          \E u \in taken : u.by # w.by /\ u.place = w.place /\ u.counter = w.counter
    BY <1>1 DEF WinnersTook
  <2>8. Theft(p).by = p /\ Theft(p).place = 0 /\ Theft(p).counter = thief[p].counter
    BY <2>1 DEF Theft
  <2> QED
    BY <2>3, <2>4, <2>5, <2>6, <2>7, <2>8 DEF WinnersTook
<1>3. CASE ~(Win(p) /\ Theft(p) \notin taken)
  <2>1. won' \ taken' \subseteq won \ taken
    BY <1>1, <1>3, ThiefParts DEF Win
  <2>2. \A w \in won \ taken :
          \E u \in taken : u.by # w.by /\ u.place = w.place /\ u.counter = w.counter
    BY <1>1 DEF WinnersTook
  <2> QED
    BY <1>1, <2>1, <2>2 DEF WinnersTook
<1> QED
  BY <1>2, <1>3

LEMMA InitTheft == Init => TheftInv
<1> SUFFICES ASSUME Init PROVE TheftInv
  OBVIOUS
<1>1. /\ taken = {} /\ won = {}
      /\ \A i \in Places : deque[i].tag.id \in {"empty", "local"}
  BY BlankEntry, MadeTag, Room DEF Init, Ids, Is, Blank
<1>2. \A p \in Thieves : thief[p].at = "stealLoop" /\ thief[p].place = 0 /\ thief[p].spot = 0
  BY FreshState DEF Init
<1>3. \A p \in Thieves : local[p].id = "empty"
  <2>1. PICK c \in Counters :
          local = [p \in Thieves |-> [id |-> "empty", counter |-> c[p]]]
    BY DEF Init
  <2> QED
    BY ONLY <2>1
<1> QED
  BY <1>1, <1>2, <1>3
  DEF TheftInv, StaysTaken, LocalEntry, HelpsItself, WinnersTook, Unclaimed, Is

LEMMA NextSInv == ASSUME SInv, [Next]_vars PROVE SInv'
<1>1. DequeInv /\ DequeInv'
  BY NextDeque DEF SInv
<1>2. ASSUME top' = 0 PROVE TheftInv'
  <2>1. CASE UNCHANGED vars
    BY <1>2, <2>1
    DEF vars, SInv, TheftInv, StaysTaken, LocalEntry, HelpsItself, WinnersTook, Stealing,
        Aiming, Theft
  <2>2. CASE Next
    <3>1. top = 0 /\ TheftInv
      BY <1>1, <1>2, <2>2, TopGoesUp DEF SInv
    <3>2. CASE Owner \/ OwnerDies
      BY <1>1, <1>2, <3>1, <3>2, OwnerTheft
    <3>3. ASSUME NEW p \in Thieves, Thief(p) \/ ThiefDies(p) PROVE TheftInv'
      <4>1. \A q \in Thieves : thief[q].place = 0 /\ thief[q].spot = 0 /\ LocalEntry(q)
        BY <3>1 DEF TheftInv, StaysTaken
      <4>2. StaysTaken' /\ WinnersTook'
        BY <1>1, <3>1, <3>3, ThiefStaysTaken, ThiefWinnersTook DEF TheftInv
      <4>3. \A q \in Thieves : LocalEntry(q)'
        BY <1>1, <3>1, <3>3, <4>1, ThiefLocalEntry
      <4>4. \A q \in Thieves : HelpsItself(q)'
        BY <1>1, <3>1, <3>3, OthersHelp, ThiefHelpsItself
      <4> QED
        BY <4>2, <4>3, <4>4 DEF TheftInv
    <3> QED
      BY <2>2, <3>2, <3>3 DEF Next
  <2> QED
    BY <2>1, <2>2
<1> QED
  BY <1>1, <1>2 DEF SInv

\* The inductive invariant holds in every reachable state.
THEOREM Invariant == Spec => []SInv
<1>1. Init => SInv
  BY InitDeque, InitTheft DEF SInv
<1> QED
  BY <1>1, NextSInv, PTL DEF Spec

\* A thief that goes on with the first job has taken it itself, or shares its
\* counter with the thief that has.
THEOREM WinnersTaken == Spec => []WinnersTook
<1>1. SInv => WinnersTook
  BY DEF SInv, TheftInv, WinnersTook
<1> QED
  BY <1>1, Invariant, PTL

\* The thief that has taken the first job goes on with a local entry.
THEOREM TakersMarked == Spec => []TakersLocal
<1>1. SInv => TakersLocal
  <2> SUFFICES ASSUME SInv, top = 0, NEW p \in Thieves,
                      Doing(p, "compare"), Mine(p), Theft(p) \in taken
               PROVE  local[p].id = "local"
    BY DEF TakersLocal
  <2>1. HelpsItself(p) /\ thief[p].place = 0
    BY DEF SInv, TheftInv, StaysTaken
  <2>2. deque[0].target = p
    BY <2>1 DEF Mine
  <2> QED
    BY <2>1, <2>2 DEF HelpsItself, Doing
<1> QED
  BY <1>1, Invariant, PTL
=============================================================================
