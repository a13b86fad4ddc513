------------------------------ MODULE Stealing ------------------------------
(***************************************************************************)
(* One deque of the scheduler: its owner pushes and pops jobs at the       *)
(* bottom, and thieves compete for the entry at the top (scheduler.c,      *)
(* scheduler-convience.c).  Any of them may die.                           *)
(*                                                                         *)
(* A step reads or writes memory that others use once, so CAMJob is three: *)
(* a CAM of the target, a look at the target and, if the target is the new *)
(* one, a CAM of the tag.  An assignment that reads an entry and writes it *)
(* is two.  The tag and the target of an entry are copied together.        *)
(*                                                                         *)
(* Only the entry that joins a thief to its theft is modelled of the       *)
(* deque of a thief: the pointer stealLoop hands to steal is the one to    *)
(* the start of a deque, so it is entry 0 of a process whose bottom is 0.  *)
(* work, args and argSize of the entries are left out.                     *)
(***************************************************************************)
EXTENDS Integers

CONSTANTS
  Thieves,
  Nowhere,     \* a target that is no entry of a thief
  JunkTargets, \* what the target of a job holds that nobody has set
  Counters,    \* what the counters of the entries of the thieves may be at first
  Size,        \* bound: STACK_SIZE, the number of entries of the deque
  MaxTop,      \* bound: how far top moves
  MaxUses,     \* bound: how many threads of the owner end, continuations are
               \* pushed and entries are cleared
  MaxDeaths    \* bound: how many processes die

ASSUME SizeAssumption == Size \in Nat /\ Size > 1
ASSUME BoundsAssumption ==
  /\ MaxTop \in 0 .. Size - 2
  /\ MaxUses \in Nat /\ MaxDeaths \in Nat
ASSUME TargetsAssumption ==
  /\ Nowhere \notin Thieves
  /\ JunkTargets # {}
  /\ JunkTargets \subseteq Thieves \union {Nowhere}

\* The counter of a tag is an unsigned char.
Counter == 0 .. 255
ASSUME CountersAssumption == Counters # {} /\ Counters \subseteq [Thieves -> Counter]

VARIABLES
  deque,    \* deque[i]: entry i of the owner
  bot, top, \* of the owner
  live,     \* the owner is alive
  owner,    \* what the owner is doing, and its local copies
  local,    \* local[p]: the tag of the entry of p that its thefts go to
  thief,    \* thief[p]: what thief p is doing, and its local copies
  taken,    \* history: the thefts whose CAM of the tag succeeded
  won,      \* history: the thefts whose thief found, comparing, that it has the job
  uses,     \* number of these uses
  deaths

ownerVars == <<bot, live, owner, uses>>
thiefVars == <<local, thief, taken, won>>
vars == <<deque, bot, top, live, owner, local, thief, taken, won, uses, deaths>>

-----------------------------------------------------------------------------
\* Entries

Ids     == {"empty", "local", "scheduled", "taken"}
Targets == Thieves \union {Nowhere}
Tag     == [id : Ids, counter : Counter]
Entry   == [tag : Tag, target : Targets]

Places  == 0 .. Size - 1

Up(c) == (c + 1) % 256

\* makeEmpty, makeLocal, makeScheduled
Made(id, tag) == [id |-> id, counter |-> Up(tag.counter)]

\* makeTaken: the counter of the local entry of the thief
Taken(c) == [id |-> "taken", counter |-> c]

Is(id, e) == e.tag.id = id

\* CAM(&(loc->target), old.target, new.target)
CamTarget(i, old, new) ==
  deque' = IF deque[i].target = old
             THEN [deque EXCEPT ![i].target = new] ELSE deque

\* CAM(&(loc->tag), old.tag, new.tag)
CamTag(i, old, new) ==
  deque' = IF deque[i].tag = old
             THEN [deque EXCEPT ![i].tag = new] ELSE deque

-----------------------------------------------------------------------------
\* Initial state: the owner works on its first job, the thieves on none.

Blank == [tag |-> [id |-> "empty", counter |-> 0], target |-> Nowhere]

\* An owner, and a thief, that is doing s and remembers nothing.
Idle(s) == [at |-> s, place |-> 0, copy |-> Blank, next |-> Blank,
            target |-> Nowhere]
Fresh(s) == [at |-> s, then |-> s, counter |-> 0, place |-> 0, spot |-> 0,
             copy |-> Blank, seen |-> Blank, mark |-> Blank.tag]

Init ==
  /\ deque = [[i \in Places |-> Blank] EXCEPT ![0].tag = Made("local", Blank.tag)]
  /\ bot = 0
  /\ top = 0
  /\ live = TRUE
  /\ owner = Idle("thread")
  /\ \E c \in Counters : local = [p \in Thieves |-> [id |-> "empty", counter |-> c[p]]]
  /\ thief = [p \in Thieves |-> Fresh("stealLoop")]
  /\ taken = {}
  /\ won = {}
  /\ uses = 0
  /\ deaths = 0

-----------------------------------------------------------------------------
\* The owner

At(s) == owner.at = s

Go(s) ==
  /\ owner' = [owner EXCEPT !.at = s]
  /\ UNCHANGED <<top, live, uses, deaths, thiefVars>>

\* The owner forgets its copies.
Settle(s) ==
  /\ owner' = Idle(s)
  /\ UNCHANGED <<top, live, uses, deaths, thiefVars>>

\* The owner keeps a copy of entry i, and a target for what it will put there.
Copy(s, b, i, t) ==
  /\ owner' = [Idle(s) EXCEPT !.place = b, !.copy = deque[i], !.target = t]
  /\ UNCHANGED <<deque, bot, top, live, deaths, thiefVars>>

Use == uses < MaxUses /\ uses' = uses + 1

\* ppmmfork ends in pushBottom; the target of the left job was never set.
Fork ==
  /\ At("thread")
  /\ bot < Size - 1
  /\ \E t \in JunkTargets : owner' = [Idle("pushBottom") EXCEPT !.target = t]
  /\ UNCHANGED <<deque, bot, top, live, uses, deaths, thiefVars>>

PushBottom ==
  /\ At("pushBottom")
  /\ Copy("pushBCnt", bot, bot, owner.target)
  /\ UNCHANGED uses

\* pushBCnt compares with the counter pushBottom copied, and starts all over
\* when the entry is not local.
Pushable ==
  /\ deque[owner.place].tag.counter = owner.copy.tag.counter
  /\ Is("local", deque[owner.place])

PushAgain ==
  /\ At("pushBCnt")
  /\ ~Pushable
  /\ Go("pushBottom")
  /\ UNCHANGED <<deque, bot>>

PushStart ==
  /\ At("pushBCnt")
  /\ Pushable
  /\ Copy("pushBelow", owner.place, owner.place, owner.target)
  /\ UNCHANGED uses

\* localDeque[bottomCopy+1] = makeLocal(localDeque[bottomCopy+1])
ReadBelow ==
  /\ At("pushBelow")
  /\ owner' = [owner EXCEPT !.at = "pushWrite", !.next = deque[owner.place + 1]]
  /\ UNCHANGED <<deque, bot, top, live, uses, deaths, thiefVars>>

\* bot, which follows, is read by its owner alone.
PushBelow ==
  LET i == owner.place + 1 IN
  /\ At("pushWrite")
  /\ deque' = [deque EXCEPT ![i] = [owner.next EXCEPT !.tag = Made("local", @)]]
  /\ bot' = i
  /\ owner' = [owner EXCEPT !.at = "pushTarget", !.next = Blank]
  /\ UNCHANGED <<top, live, uses, deaths, thiefVars>>

PushTarget ==
  /\ At("pushTarget")
  /\ CamTarget(owner.place, owner.copy.target, owner.target)
  /\ Go("pushLook")
  /\ UNCHANGED bot

\* "some one else moved in": CAMJob returns, and pushBCnt goes on all the same.
PushLook ==
  /\ At("pushLook")
  /\ Go(IF deque[owner.place].target = owner.target THEN "pushTag" ELSE "thread")
  /\ UNCHANGED <<deque, bot>>

\* The right branch runs whatever became of the CAM.
PushTag ==
  /\ At("pushTag")
  /\ CamTag(owner.place, owner.copy.tag, Made("scheduled", owner.copy.tag))
  /\ Settle("thread")
  /\ UNCHANGED bot

\* The thread ends and scheduler runs; resetWhoAmI, then sCnt.
Scheduler ==
  /\ At("thread")
  /\ Use
  /\ Copy("sCnt", bot, bot, Nowhere)

SCnt ==
  /\ At("sCnt")
  /\ deque' = [deque EXCEPT
       ![owner.place] = [owner.copy EXCEPT !.tag = Made("empty", @)]]
  /\ Settle("popBottom")
  /\ UNCHANGED bot

\* What lies before the deque is no scheduled job.
PopFirst ==
  /\ At("popBottom")
  /\ bot = 0
  /\ Settle("stealLoop")
  /\ UNCHANGED <<deque, bot>>

PopBottom ==
  /\ At("popBottom")
  /\ bot > 0
  /\ Copy("popBCnt", bot, bot - 1, Nowhere)
  /\ UNCHANGED uses

PopNothing ==
  /\ At("popBCnt")
  /\ ~Is("scheduled", owner.copy)
  /\ Settle("stealLoop")
  /\ UNCHANGED <<deque, bot>>

\* The target stays as it was copied, so its CAM changes nothing; what
\* matters is whether it still is.
PopLook ==
  /\ At("popBCnt")
  /\ Is("scheduled", owner.copy)
  /\ Go(IF deque[owner.place - 1].target = owner.copy.target
          THEN "popTag" ELSE "popCompare")
  /\ UNCHANGED <<deque, bot>>

Claimed == Made("local", owner.copy.tag)

PopTag ==
  /\ At("popTag")
  /\ CamTag(owner.place - 1, owner.copy.tag, Claimed)
  /\ Go("popCompare")
  /\ UNCHANGED bot

\* Slip: the bottom goes up by two.
PopTwo ==
  /\ At("popCompare")
  /\ deque[owner.place - 1].tag = Claimed
  /\ bot' = owner.place - 2
  /\ Settle("thread")
  /\ UNCHANGED deque

\* Slip: the owner does not compare.
PopBlindly ==
  /\ At("popCompare")
  /\ bot' = owner.place - 1
  /\ Settle("thread")
  /\ UNCHANGED deque

\* CompareJob: same tag; the work of the entry is not written in between.
PopDone ==
  /\ At("popCompare")
  /\ deque[owner.place - 1].tag = Claimed
  /\ bot' = owner.place - 1
  /\ Settle("thread")
  /\ UNCHANGED deque

PopFailed ==
  /\ At("popCompare")
  /\ deque[owner.place - 1].tag # Claimed
  /\ Settle("stealLoop")
  /\ UNCHANGED <<deque, bot>>

\* A join hands its continuation to singleJobPush, whose target nobody set.
SingleJobPush ==
  /\ At("thread")
  /\ Use
  /\ \E t \in JunkTargets : Copy("singleJobPush", bot, bot, t)

\* getCounter(localDeque[bottomCopy]), read after the copy
SjpCounter ==
  /\ At("singleJobPush")
  /\ owner' = [owner EXCEPT !.at = "sjpTarget", !.next = deque[owner.place]]
  /\ UNCHANGED <<deque, bot, top, live, uses, deaths, thiefVars>>

SjpTarget ==
  /\ At("sjpTarget")
  /\ CamTarget(owner.place, owner.copy.target, owner.target)
  /\ Go("sjpLook")
  /\ UNCHANGED bot

SjpLook ==
  /\ At("sjpLook")
  /\ Go(IF deque[owner.place].target = owner.target THEN "sjpTag" ELSE "thread")
  /\ UNCHANGED <<deque, bot>>

SjpTag ==
  /\ At("sjpTag")
  /\ CamTag(owner.place, owner.copy.tag, Made("local", owner.next.tag))
  /\ Settle("thread")
  /\ UNCHANGED bot

\* The owner, a thief itself, gets a job from another deque.  What it hands
\* to steal is its own entry only when its bottom is 0.
Obtain ==
  /\ At("stealLoop")
  /\ deque' = IF bot = 0 THEN [deque EXCEPT ![0].tag = Made("local", @)] ELSE deque
  /\ owner' = [owner EXCEPT !.at = "thread"]
  /\ UNCHANGED <<bot, top, live, uses, deaths, thiefVars>>

\* When it helps a thief elsewhere helpThief advances top, its own one.
HelpElsewhere ==
  /\ At("stealLoop")
  /\ top < MaxTop
  /\ top' = top + 1
  /\ UNCHANGED <<deque, deaths, ownerVars, thiefVars>>

OwnerDies ==
  /\ live
  /\ deaths < MaxDeaths
  /\ deaths' = deaths + 1
  /\ live' = FALSE
  /\ owner' = Idle("dead")
  /\ UNCHANGED <<deque, bot, top, uses, thiefVars>>

-----------------------------------------------------------------------------
\* A thief: stealLoop, steal, stealCnt and graveRob, with helpThief in between

Doing(p, s) == thief[p].at = s

Step(p, new) ==
  /\ thief' = [thief EXCEPT ![p] = new]
  /\ UNCHANGED <<top, deaths, ownerVars>>

To(p, s) == Step(p, [thief[p] EXCEPT !.at = s])

\* It calls helpThief and goes on to s.
Help(p, s) == Step(p, [thief[p] EXCEPT !.at = "help", !.then = s])

\* It is done with helpThief and forgets what it saw there.
Helped(p) ==
  Step(p, [thief[p] EXCEPT !.at = thief[p].then, !.then = "stealLoop",
                           !.spot = 0, !.seen = Blank, !.mark = Blank.tag])

Retry(p) == Step(p, Fresh("stealLoop"))

\* The counter of its local entry, then steal, which helps first.
StealLoop(p) ==
  /\ Doing(p, "stealLoop")
  /\ Step(p, [Fresh("help") EXCEPT !.then = "steal", !.counter = local[p].counter])
  /\ UNCHANGED <<deque, local, taken, won>>

\* topCopy
HelpTop(p) ==
  /\ Doing(p, "help")
  /\ Step(p, [thief[p] EXCEPT !.at = "helpLook", !.spot = top])
  /\ UNCHANGED <<deque, local, taken, won>>

\* foreignJobCopy
HelpLook(p) ==
  LET foreign == deque[thief[p].spot] IN
  /\ Doing(p, "helpLook")
  /\ Is("taken", foreign) /\ foreign.target \in Thieves
  /\ Step(p, [thief[p] EXCEPT !.at = "helpRead", !.spot = 0, !.seen = foreign])
  /\ UNCHANGED <<deque, local, taken, won>>

\* Nothing to help; what lies at a target that is no thief is not modelled.
HelpNobody(p) ==
  LET foreign == deque[thief[p].spot] IN
  /\ Doing(p, "helpLook")
  /\ ~(Is("taken", foreign) /\ foreign.target \in Thieves)
  /\ Helped(p)
  /\ UNCHANGED <<deque, local, taken, won>>

\* makeLocal(*targetOfCopy)
HelpRead(p) ==
  /\ Doing(p, "helpRead")
  /\ Step(p, [thief[p] EXCEPT !.at = "helpMark",
                !.mark = Made("local", local[thief[p].seen.target])])
  /\ UNCHANGED <<deque, local, taken, won>>

\* Slip: a thief finishes its own thefts only.
HelpItself(p) ==
  LET expected == [id |-> "empty", counter |-> thief[p].seen.tag.counter]
  IN /\ Doing(p, "helpMark")
     /\ local' = IF thief[p].seen.target = p /\ local[p] = expected
                   THEN [local EXCEPT ![p] = thief[p].mark] ELSE local
     /\ Helped(p)
     /\ UNCHANGED <<deque, taken, won>>

\* CAMJob on the local entry of the thief, whose target does not change.
HelpMark(p) ==
  LET t        == thief[p].seen.target
      expected == [id |-> "empty", counter |-> thief[p].seen.tag.counter]
  IN /\ Doing(p, "helpMark")
     /\ local' = IF local[t] = expected THEN [local EXCEPT ![t] = thief[p].mark]
                 ELSE local
     /\ Helped(p)
     /\ UNCHANGED <<deque, taken, won>>

\* steal reads top for the place, once more for the copy, and then the entry;
\* stealCnt goes by the copy.
StealPlace(p) ==
  /\ Doing(p, "steal")
  /\ Step(p, [thief[p] EXCEPT !.at = "stealTop", !.place = top])
  /\ UNCHANGED <<deque, local, taken, won>>

StealTop(p) ==
  /\ Doing(p, "stealTop")
  /\ Step(p, [thief[p] EXCEPT !.at = "stealCopy", !.spot = top])
  /\ UNCHANGED <<deque, local, taken, won>>

Copies(p, s) ==
  Step(p, [thief[p] EXCEPT !.at = s, !.spot = 0, !.copy = deque[thief[p].spot]])

StealNothing(p) ==
  /\ Doing(p, "stealCopy")
  /\ Is("empty", deque[thief[p].spot])
  /\ Retry(p)
  /\ UNCHANGED <<deque, local, taken, won>>

StealTaken(p) ==
  /\ Doing(p, "stealCopy")
  /\ Is("taken", deque[thief[p].spot])
  /\ Help(p, "stealLoop")
  /\ UNCHANGED <<deque, local, taken, won>>

StealScheduled(p) ==
  /\ Doing(p, "stealCopy")
  /\ Is("scheduled", deque[thief[p].spot])
  /\ Copies(p, "target")
  /\ UNCHANGED <<deque, local, taken, won>>

StealLocal(p) ==
  /\ Doing(p, "stealCopy")
  /\ Is("local", deque[thief[p].spot])
  /\ Copies(p, "stealLocal")
  /\ UNCHANGED <<deque, local, taken, won>>

\* onStack is read first; CompareJob(onStack, toStealCopy) goes by that copy.
Unchanged(p) == deque[thief[p].place].tag = thief[p].copy.tag

StackChanged(p) ==
  /\ Doing(p, "stealLocal")
  /\ ~Unchanged(p)
  /\ Retry(p)
  /\ UNCHANGED <<deque, local, taken, won>>

StackSame(p) ==
  /\ Doing(p, "stealLocal")
  /\ Unchanged(p)
  /\ To(p, "isLive")
  /\ UNCHANGED <<deque, local, taken, won>>

\* isLive(victimProcIdx)
NotOrphaned(p) ==
  /\ Doing(p, "isLive")
  /\ live
  /\ Retry(p)
  /\ UNCHANGED <<deque, local, taken, won>>

\* Slip: nobody asks whether the victim lives.
RobUnasked(p) ==
  /\ Doing(p, "isLive")
  /\ To(p, "graveRob")
  /\ UNCHANGED <<deque, local, taken, won>>

FoundOrphan(p) ==
  /\ Doing(p, "isLive")
  /\ ~live
  /\ To(p, "graveRob")
  /\ UNCHANGED <<deque, local, taken, won>>

\* *(oldTop+1) = makeEmpty(*(oldTop+1))
GraveRob(p) ==
  /\ Doing(p, "graveRob")
  /\ Use
  /\ thief' = [thief EXCEPT ![p].at = "clear",
                            ![p].seen = deque[thief[p].place + 1]]
  /\ UNCHANGED <<deque, bot, top, live, owner, local, taken, won, deaths>>

ClearBelow(p) ==
  LET i == thief[p].place + 1 IN
  /\ Doing(p, "clear")
  /\ deque' = [deque EXCEPT
       ![i] = [thief[p].seen EXCEPT !.tag = Made("empty", @)]]
  /\ Step(p, [thief[p] EXCEPT !.at = "target", !.seen = Blank])
  /\ UNCHANGED <<local, taken, won>>

\* The target of the taken job is the local entry of p.
TakeTarget(p) ==
  /\ Doing(p, "target")
  /\ CamTarget(thief[p].place, thief[p].copy.target, p)
  /\ To(p, "look")
  /\ UNCHANGED <<local, taken, won>>

TakeLook(p) ==
  /\ Doing(p, "look")
  /\ IF deque[thief[p].place].target = p THEN To(p, "tag") ELSE Help(p, "compare")
  /\ UNCHANGED <<deque, local, taken, won>>

Theft(p) == [by |-> p, place |-> thief[p].place, job |-> thief[p].copy.tag,
             counter |-> thief[p].counter]

\* Slip: the thief does not help itself.
TakeUnhelped(p) ==
  /\ Doing(p, "tag")
  /\ CamTag(thief[p].place, thief[p].copy.tag, Taken(thief[p].counter))
  /\ taken' = IF deque[thief[p].place].tag = thief[p].copy.tag
                THEN taken \union {Theft(p)} ELSE taken
  /\ To(p, "compare")
  /\ UNCHANGED <<local, won>>

TakeTag(p) ==
  /\ Doing(p, "tag")
  /\ CamTag(thief[p].place, thief[p].copy.tag, Taken(thief[p].counter))
  /\ taken' = IF deque[thief[p].place].tag = thief[p].copy.tag
                THEN taken \union {Theft(p)} ELSE taken
  /\ Help(p, "compare")
  /\ UNCHANGED <<local, won>>

\* Slip: the target alone is compared.
Pointed(p) ==
  /\ Is("taken", deque[thief[p].place])
  /\ deque[thief[p].place].target = p

\* CompareJob of two taken entries: the tags and the targets.
Mine(p) ==
  deque[thief[p].place] = [tag |-> Taken(thief[p].counter), target |-> p]

Lost(p) ==
  /\ Doing(p, "compare")
  /\ ~Mine(p)
  /\ Retry(p)
  /\ UNCHANGED <<deque, local, taken, won>>

\* graveRob hands the job to pStackReset.  In stealCnt the pcnt after the
\* comparison has no braces, so its return is no part of the if: a thief that
\* has won returns to pCntInternal with nothing pushed and jumps through what
\* lies under its stack.
Prize(p) == IF Is("local", thief[p].copy) THEN "thread" ELSE "lost"

Win(p) ==
  /\ Doing(p, "compare")
  /\ Mine(p)
  /\ won' = won \union {Theft(p)}
  /\ Step(p, Fresh(Prize(p)))
  /\ UNCHANGED <<deque, local, taken>>

\* The stolen thread ends: sCnt, and popBottom finds nothing.
ThiefScheduler(p) ==
  /\ Doing(p, "thread")
  /\ Step(p, [Fresh("sCnt") EXCEPT !.mark = Made("empty", local[p])])
  /\ UNCHANGED <<deque, local, taken, won>>

ThiefSCnt(p) ==
  /\ Doing(p, "sCnt")
  /\ local' = [local EXCEPT ![p] = thief[p].mark]
  /\ Retry(p)
  /\ UNCHANGED <<deque, taken, won>>

ThiefDies(p) ==
  /\ ~Doing(p, "dead")
  /\ deaths < MaxDeaths
  /\ deaths' = deaths + 1
  /\ thief' = [thief EXCEPT ![p] = Fresh("dead")]
  /\ UNCHANGED <<deque, top, ownerVars, local, taken, won>>

-----------------------------------------------------------------------------

Owner ==
  \/ Fork \/ PushBottom \/ PushAgain \/ PushStart \/ ReadBelow \/ PushBelow
  \/ PushTarget \/ PushLook \/ PushTag
  \/ Scheduler \/ SCnt \/ PopFirst \/ PopBottom \/ PopNothing \/ PopLook \/ PopTag
  \/ PopDone \/ PopFailed
  \/ SingleJobPush \/ SjpCounter \/ SjpTarget \/ SjpLook \/ SjpTag
  \/ Obtain \/ HelpElsewhere

\* What a thief does between two threads that it runs.
Thieving(p) ==
  \/ StealLoop(p)
  \/ HelpTop(p) \/ HelpLook(p) \/ HelpNobody(p) \/ HelpRead(p) \/ HelpMark(p)
  \/ StealPlace(p) \/ StealTop(p)
  \/ StealNothing(p) \/ StealTaken(p) \/ StealScheduled(p) \/ StealLocal(p)
  \/ StackChanged(p) \/ StackSame(p) \/ NotOrphaned(p) \/ FoundOrphan(p)
  \/ GraveRob(p) \/ ClearBelow(p) \/ TakeTarget(p) \/ TakeLook(p) \/ TakeTag(p)
  \/ Lost(p) \/ Win(p) \/ ThiefSCnt(p)

Thief(p) == Thieving(p) \/ ThiefScheduler(p)

Next == Owner \/ OwnerDies \/ \E p \in Thieves : Thief(p) \/ ThiefDies(p)

Spec == Init /\ [][Next]_vars

\* The operating system runs every thief that is alive; the threads a thief
\* runs need not end.
FairSpec == Spec /\ \A p \in Thieves : WF_vars(Thieving(p))

-----------------------------------------------------------------------------
\* Properties

OwnerStates ==
  [at : {"thread", "pushBottom", "pushBCnt", "pushBelow", "pushWrite",
         "pushTarget", "pushLook", "pushTag", "sCnt", "popBottom", "popBCnt",
         "popTag", "popCompare", "singleJobPush", "sjpTarget", "sjpLook",
         "sjpTag", "stealLoop", "dead"},
   place : Places, copy : Entry, next : Entry, target : Targets]

ThiefStates ==
  [at : {"stealLoop", "help", "helpLook", "helpRead", "helpMark", "steal",
         "stealTop", "stealCopy", "stealLocal", "isLive", "graveRob", "clear",
         "target", "look", "tag", "compare", "thread", "sCnt", "lost", "dead"},
   then : {"stealLoop", "steal", "compare", "thread", "sCnt", "lost", "dead"},
   counter : Counter, place : 0 .. MaxTop, spot : 0 .. MaxTop,
   copy : Entry, seen : Entry, mark : Tag]

Thefts == [by : Thieves, place : 0 .. MaxTop, job : Tag, counter : Counter]

\* Types of the variables.
TypeOK ==
  /\ deque \in [Places -> Entry]
  /\ bot \in Places /\ top \in 0 .. MaxTop
  /\ live \in BOOLEAN
  /\ owner \in OwnerStates
  /\ local \in [Thieves -> Tag]
  /\ thief \in [Thieves -> ThiefStates]
  /\ taken \subseteq Thefts /\ won \subseteq Thefts
  /\ uses \in 0 .. MaxUses
  /\ deaths \in 0 .. MaxDeaths

\* A thief that goes on with a job has taken it itself, or its counter was the
\* same as that of the thief that has; as long as top of the victim, which its
\* owner alone moves, is the one they all read.
WinnersTook ==
  top = 0 =>
    \A w \in won \ taken :
      \E v \in taken : v.by # w.by /\ v.place = w.place /\ v.counter = w.counter

\* A thief that has taken a job and goes on with it has a local entry for it,
\* which others can rob when it dies.
TakersLocal ==
  top = 0 =>
    \A p \in Thieves :
      Doing(p, "compare") /\ Mine(p) /\ Theft(p) \in taken
        => local[p].id = "local"

\* A thread that was started is taken from a dead process only.
OnlyDeadRobbed ==
  [][\A i \in Places : Is("local", deque[i]) /\ Is("taken", deque'[i]) => ~live]_vars

\* The jobs that wait, and those that others have taken.
Ready == {i \in Places : Is("scheduled", deque[i])}
Stolen == {i \in Places : Is("taken", deque[i])}

\* The owner has its job from the CAM of the tag on, before it compares.
Status ==
  CASE At("dead") -> "dead"
    [] At("stealLoop") -> "away"
    [] \/ owner.at \in {"sCnt", "popBottom", "popBCnt", "popTag"}
       \/ At("popCompare") /\ deque[owner.place - 1].tag # Claimed -> "looking"
    [] OTHER -> "working"

Abstract == INSTANCE WorkDeque WITH ready <- Ready, stolen <- Stolen, owner <- Status

\* Every job that was pushed leaves the deque once, claimed by its owner or taken
\* by a thief; the owner goes on with a job only if it claimed it, claims the
\* lowest one, and as long as it lives overwrites no waiting and no taken job.
ImplementsWorkDeque == Abstract!Spec

\* A theft that p has begun and nobody has finished.
Unfinished(p) ==
  /\ deque[top] = [tag |-> Taken(local[p].counter), target |-> p]
  /\ local[p].id = "empty"

\* "someone stole it first, help them": whoever dies, a theft is finished,
\* unless no thief ever looks for work again.
TheftsFinished ==
  (\E p \in Thieves : Unfinished(p))
    ~> \/ ~ \E p \in Thieves : Unfinished(p)
       \/ [](\A p \in Thieves : thief[p].at \in {"dead", "lost", "thread"})

\* scheduler.c on steal: it "jumps to stealLoop if someone steals it first".  No
\* two thefts of one job, robberies included, find that they have it.
StolenOnce == \A v, w \in won : v.place = w.place /\ v.job = w.job => v = w

-----------------------------------------------------------------------------
\* The inductive invariant

Unclaimed == {"empty", "local"}

\* Where the owner is, and what its copy still says about the entry.
OwnerPlace ==
  /\ live <=> ~At("dead")
  /\ owner.at \in {"pushBottom", "pushBCnt", "pushBelow", "pushWrite"} =>
       bot < Size - 1
  /\ owner.at \in {"pushBCnt", "pushBelow", "pushWrite"} => owner.place = bot
  /\ owner.at \in {"pushBelow", "pushWrite"} =>
       /\ Is("local", owner.copy)
       /\ deque[owner.place].tag = owner.copy.tag
  /\ owner.at \in {"pushTarget", "pushLook", "pushTag"} =>
       /\ owner.place + 1 = bot
       /\ Is("local", owner.copy)
       /\ deque[owner.place].tag = owner.copy.tag
  /\ owner.at \in {"sCnt", "singleJobPush", "sjpTarget", "sjpLook", "sjpTag"} =>
       owner.place = bot
  /\ owner.at \in {"singleJobPush", "sjpTarget", "sjpLook", "sjpTag"} =>
       owner.copy.tag.id \in Unclaimed
  /\ owner.at \in {"popBCnt", "popTag", "popCompare"} => owner.place = bot /\ bot > 0
  /\ owner.at \in {"popTag", "popCompare"} => Is("scheduled", owner.copy)
  /\ owner.at \in {"popBCnt", "popTag"} /\ Is("scheduled", owner.copy) =>
       deque[owner.place - 1].tag = owner.copy.tag \/ Is("taken", deque[owner.place - 1])
  /\ At("popCompare") =>
       \/ deque[owner.place - 1].tag \in {owner.copy.tag, Claimed}
       \/ Is("taken", deque[owner.place - 1])

\* No job waits at the bottom or below it.
NoneBelow == live => \A i \in Places : i >= bot => deque[i].tag.id \in Unclaimed

\* What a thief has copied, and when it robs.
ThiefCopy(p) ==
  /\ thief[p].at \in {"helpRead", "helpMark"} =>
       Is("taken", thief[p].seen) /\ thief[p].seen.target \in Thieves
  /\ thief[p].at \in {"stealLocal", "isLive", "graveRob", "clear"} =>
       Is("local", thief[p].copy)
  /\ thief[p].at \in {"target", "look", "tag"} =>
       thief[p].copy.tag.id \in {"local", "scheduled"}
  /\ thief[p].at \in {"graveRob", "clear", "target", "look", "tag"} =>
       (Is("local", thief[p].copy) => ~live)

DequeInv == TypeOK /\ OwnerPlace /\ NoneBelow /\ \A p \in Thieves : ThiefCopy(p)

\* p has its copy of the entry, and has not begun to take it.
Aiming == {"stealLocal", "isLive", "graveRob", "clear", "target", "look", "tag"}

\* p is between its copy of the entry and its comparison.
Stealing(p) ==
  \/ thief[p].at \in Aiming \union {"compare"}
  \/ /\ thief[p].at \in {"help", "helpLook", "helpRead", "helpMark"}
     /\ thief[p].then = "compare"

\* As long as top is 0 an entry that is taken stays so.
StaysTaken ==
  /\ \A p \in Thieves : thief[p].place = 0 /\ thief[p].spot = 0
  /\ \A i \in Places : Is("taken", deque[i]) => i = 0 /\ taken # {}
  /\ \A v \in taken :
       /\ v.place = 0
       /\ deque[0].tag = Taken(v.counter)
       /\ \A w \in taken : w = v
       /\ Stealing(v.by) => Theft(v.by) = v

\* The local entry of a thief is as the thief found it, or has been marked.
LocalEntry(p) ==
  /\ local[p].id \in Unclaimed
  /\ thief[p].at \notin {"stealLoop", "thread", "sCnt", "lost", "dead"} =>
       local[p].id = "local" \/ local[p].counter = thief[p].counter
  /\ thief[p].at = "helpMark" => thief[p].mark.id = "local"
  /\ thief[p].at = "sCnt" => thief[p].mark.id = "empty"

\* A thief that has taken the entry helps itself before it compares.
HelpsItself(p) ==
  Theft(p) \in taken =>
    /\ thief[p].at \notin Aiming
    /\ deque[0].target = p =>
         /\ thief[p].at \in {"helpRead", "helpMark"} /\ thief[p].then = "compare" =>
              thief[p].seen = deque[0]
         /\ thief[p].at = "compare" => local[p].id = "local"

TheftInv ==
  /\ StaysTaken
  /\ \A p \in Thieves : LocalEntry(p) /\ HelpsItself(p)
  /\ WinnersTook

SInv == DequeInv /\ (top = 0 => TheftInv)
=============================================================================
