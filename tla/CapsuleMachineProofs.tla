------------------------ MODULE CapsuleMachineProofs ------------------------
(***************************************************************************)
(* Theorems about CapsuleMachine, for every set of functions, arguments    *)
(* and processes, every stack and holder size and every number of faults.  *)
(***************************************************************************)
EXTENDS CapsuleMachine, TLAPS

\* A thread that calls resetWhoAmI is run by the process it is associated
\* with.  Otherwise resetWhoAmI separates its identity from its holders.
OwnIdentity == "resetWhoAmI" \in Callees => Owners = {Hard}

USE NamesAssumption, RegionsAssumption, BoundsAssumption

-----------------------------------------------------------------------------
\* Pointers

LEMMA GrowPointer ==
  ASSUME NEW m \in Pointers, NEW n \in Int, m.size + n >= 0, m.offset + n >= 0
  PROVE  /\ Grow(m, n) \in Pointers
         /\ Grow(m, n).region = m.region
         /\ Grow(m, n).offset = m.offset + n
         /\ Grow(m, n).size = m.size + n
BY DEF Grow, Pointers

LEMMA EmptiedPointer ==
  ASSUME NEW m \in Pointers, m.offset = m.size
  PROVE  /\ Emptied(m) \in Pointers
         /\ Emptied(m).region = m.region
         /\ Emptied(m).offset = 0
         /\ Emptied(m).size = 0
BY DEF Emptied, Pointers

LEMMA StartHeads ==
  ASSUME NEW r \in Regions
  PROVE  /\ Start(r) \in Heads
         /\ Anchored(Start(r).stack, r) /\ Start(r).stack.size = 0
         /\ Anchored(Start(r).cnt, r) /\ Start(r).cnt.size = 0
         /\ Anchored(Start(r).call, r) /\ Start(r).call.size = 0
BY DEF Start, At, Three, Heads, Pointers, Anchored

-----------------------------------------------------------------------------
\* The installed capsule stays sound under steps that keep what it can read.

LEMMA StaysSound ==
  ASSUME TypeOK, Sound(Installed), KeepsLive, Installed' = Installed
  PROVE  Sound(Installed)'
<1> DEFINE c == Installed
<1>1. Placed(c) /\ c' = c
  BY DEF Sound
<1>2. /\ c.clean.stack.region = c.who
      /\ c.clean.cnt.region = c.who
      /\ c.clean.call.region = c.who
      /\ c.clean.stack.size \in Nat
      /\ c.clean.cnt.size \in Nat
      /\ c.clean.call.size \in Nat
  BY <1>1 DEF Placed, Anchored, Capsules, Heads, Pointers
<1>3. Placed(c)'
  BY <1>1 DEF Placed, Anchored
<1>4. c.clean.stack.size >= 1 => TopOf(stack, c.clean.stack)' = TopOf(stack, c.clean.stack)
  BY <1>1, <1>2 DEF KeepsLive, TopOf
<1>5. c.clean.cnt.size >= 1 => TopOf(cntHolder, c.clean.cnt)' = TopOf(cntHolder, c.clean.cnt)
  BY <1>1, <1>2 DEF KeepsLive, TopOf
<1>6. c.clean.call.size >= 1 => TopOf(callHolder, c.clean.call)' = TopOf(callHolder, c.clean.call)
  BY <1>1, <1>2 DEF KeepsLive, TopOf
<1> HIDE DEF c
<1>7. Ready(c) => Ready(c)'
  BY <1>1, <1>2, <1>4, <1>5, <1>6
  DEF Ready, ClientReady, ResetReady, CntReady, CallReady, RetReady, RetCntReady
<1> QED
  BY <1>3, <1>7 DEF Sound, c

\* A step that writes no stack and no holder keeps it all.
LEMMA QuietKeepsLive ==
  ASSUME UNCHANGED memory
  PROVE  KeepsLive
BY DEF memory, KeepsLive

\* The code of a capsule returns: the invariant holds again when the new
\* capsule is sound in the memory the step leaves.
LEMMA FinishStep ==
  ASSUME IInv, KeepsLive, NEW f \in Cells, NEW d \in Heads, Finish(f, d),
         stack' \in [Regions -> [0 .. StackSize - 1 -> Cells]],
         cntHolder' \in [Regions -> [0 .. HolderSize - 1 -> Cells]],
         callHolder' \in [Regions -> [0 .. HolderSize - 1 -> Cells]],
         quit' \in BOOLEAN,
         UNCHANGED <<slot, current, copied, faults>>,
         Ready(next)', Placed(next)'
  PROVE  IInv'
<1>1. Installed' = Installed /\ TypeOK /\ Sound(Installed)
  BY DEF IInv, Installed
<1>2. Installed \in Capsules
  BY <1>1 DEF Sound, Placed
<1>3. next' \in Capsules
  BY <1>2 DEF Finish, MakeCapsule, Capsules
<1>4. TypeOK'
  BY <1>1, <1>3 DEF TypeOK, Finish
<1>5. Sound(Installed)'
  BY <1>1, StaysSound
<1>6. ClientWorking' /\ InternalWorking' /\ CopyWorking'
  BY DEF ClientWorking, InternalWorking, CopyWorking, InClient, Copying, Finish
<1>7. ReturnWorking' /\ ResetWorking'
  BY DEF ReturnWorking, ResetWorking, Finish
<1>8. HandoverWorking'
  BY DEF HandoverWorking, Sound, Finish
<1> QED
  BY <1>4, <1>5, <1>6, <1>7, <1>8 DEF IInv

-----------------------------------------------------------------------------
\* What the invariant says in the body of a capsule

LEMMA PlacedFacts ==
  ASSUME IInv
  PROVE  /\ TypeOK
         /\ Installed \in Capsules
         /\ Installed.who \in Owners
         /\ Installed.who \in Regions
         /\ Installed.clean.stack \in Pointers
         /\ Installed.clean.cnt \in Pointers
         /\ Installed.clean.call \in Pointers
         /\ Anchored(Installed.clean.stack, Installed.who)
         /\ Anchored(Installed.clean.cnt, Installed.who)
         /\ Anchored(Installed.clean.call, Installed.who)
         /\ dirty.stack \in Pointers
         /\ dirty.cnt \in Pointers
         /\ dirty.call \in Pointers
BY DEF IInv, TypeOK, Sound, Placed, Capsules, Heads

LEMMA ClientFacts ==
  ASSUME IInv, InClient
  PROVE  /\ Anchored(dirty.stack, Installed.who)
         /\ Anchored(dirty.cnt, Installed.who)
         /\ Anchored(dirty.call, Installed.who)
         /\ dirty.stack.size <= StackSize
         /\ Installed.clean.cnt.size = 0
         /\ Installed.clean.call.size = 0
<1>1. ClientReady(Installed)
  BY DEF IInv, InClient, rst, Sound, Ready, ResetReady, CntReady, CallReady,
         RetReady, RetCntReady, Internal
<1> QED
  BY <1>1, PlacedFacts DEF IInv, ClientWorking, ClientReady, Pointers

LEMMA PushCnt ==
  ASSUME TypeOK, NEW v \in Cells, cntHolder' = PushedCnt(v)
  PROVE  /\ cntHolder' \in [Regions -> [0 .. HolderSize - 1 -> Cells]]
         /\ dirty.cnt.offset < HolderSize =>
              cntHolder'[dirty.cnt.region][dirty.cnt.offset] = v
         /\ \A r \in Regions, i \in 0 .. HolderSize - 1 :
              r # dirty.cnt.region \/ i # dirty.cnt.offset =>
                cntHolder'[r][i] = cntHolder[r][i]
<1> DEFINE r == dirty.cnt.region
           o == dirty.cnt.offset
           row == [cntHolder[r] EXCEPT ![o] = v]
<1>1. r \in Regions /\ o \in Nat
  BY DEF TypeOK, Heads, Pointers
<1>2. cntHolder[r] \in [0 .. HolderSize - 1 -> Cells]
  BY <1>1 DEF TypeOK
<1>3. row \in [0 .. HolderSize - 1 -> Cells]
  BY <1>2
<1>4. cntHolder' = [cntHolder EXCEPT ![r] = row]
  BY DEF PushedCnt
<1>5. cntHolder' \in [Regions -> [0 .. HolderSize - 1 -> Cells]]
  BY <1>1, <1>3, <1>4 DEF TypeOK
<1>6. cntHolder'[r] = row
  BY <1>1, <1>4 DEF TypeOK
<1>7. o < HolderSize => row[o] = v
  BY <1>1, <1>2
<1>8. ASSUME NEW s \in Regions, NEW i \in 0 .. HolderSize - 1, s # r \/ i # o
      PROVE  cntHolder'[s][i] = cntHolder[s][i]
  BY <1>1, <1>2, <1>4, <1>8 DEF TypeOK
<1> QED
  BY <1>5, <1>6, <1>7, <1>8

LEMMA PushCallee ==
  ASSUME TypeOK, NEW v \in Cells, callHolder' = PushedCallee(v)
  PROVE  /\ callHolder' \in [Regions -> [0 .. HolderSize - 1 -> Cells]]
         /\ dirty.call.offset < HolderSize =>
              callHolder'[dirty.call.region][dirty.call.offset] = v
         /\ \A r \in Regions, i \in 0 .. HolderSize - 1 :
              r # dirty.call.region \/ i # dirty.call.offset =>
                callHolder'[r][i] = callHolder[r][i]
<1> DEFINE r == dirty.call.region
           o == dirty.call.offset
           row == [callHolder[r] EXCEPT ![o] = v]
<1>1. r \in Regions /\ o \in Nat
  BY DEF TypeOK, Heads, Pointers
<1>2. callHolder[r] \in [0 .. HolderSize - 1 -> Cells]
  BY <1>1 DEF TypeOK
<1>3. row \in [0 .. HolderSize - 1 -> Cells]
  BY <1>2
<1>4. callHolder' = [callHolder EXCEPT ![r] = row]
  BY DEF PushedCallee
<1>5. callHolder' \in [Regions -> [0 .. HolderSize - 1 -> Cells]]
  BY <1>1, <1>3, <1>4 DEF TypeOK
<1>6. callHolder'[r] = row
  BY <1>1, <1>4 DEF TypeOK
<1>7. o < HolderSize => row[o] = v
  BY <1>1, <1>2
<1>8. ASSUME NEW s \in Regions, NEW i \in 0 .. HolderSize - 1, s # r \/ i # o
      PROVE  callHolder'[s][i] = callHolder[s][i]
  BY <1>1, <1>2, <1>4, <1>8 DEF TypeOK
<1> QED
  BY <1>5, <1>6, <1>7, <1>8

\* A client writes holders only, and its capsule left them empty.
LEMMA ClientKeepsLive ==
  ASSUME IInv, InClient, UNCHANGED stack
  PROVE  KeepsLive
BY ClientFacts DEF KeepsLive

-----------------------------------------------------------------------------
\* Client steps that stay in the body

LEMMA ClientBodyStep ==
  ASSUME IInv, InClient, UNCHANGED <<stack, slot, current, quit, next, copied,
         pc, faults>>,
         dirty' \in Heads,
         cntHolder' \in [Regions -> [0 .. HolderSize - 1 -> Cells]],
         callHolder' \in [Regions -> [0 .. HolderSize - 1 -> Cells]],
         Anchored(dirty'.stack, Installed.who),
         Anchored(dirty'.cnt, Installed.who),
         Anchored(dirty'.call, Installed.who),
         dirty'.stack.size <= Installed.clean.stack.size
  PROVE  IInv' /\ KeepsLive
<1>1. Installed' = Installed /\ TypeOK /\ Sound(Installed)
  BY DEF IInv, Installed
<1>2. KeepsLive
  BY ClientKeepsLive
<1>3. TypeOK'
  BY <1>1 DEF TypeOK
<1>4. Sound(Installed)'
  BY <1>1, <1>2, StaysSound
<1>5. ClientWorking'
  BY <1>1 DEF ClientWorking, Anchored
<1>6. InternalWorking' /\ CopyWorking'
  BY <1>1 DEF InternalWorking, CopyWorking, Copying, InClient, rst, Internal
<1>7. ReturnWorking' /\ ResetWorking' /\ HandoverWorking'
  BY DEF ReturnWorking, ResetWorking, HandoverWorking, InClient
<1> QED
  BY <1>2, <1>3, <1>4, <1>5, <1>6, <1>7 DEF IInv

LEMMA PopArgStep ==
  ASSUME IInv, PopArg
  PROVE  IInv' /\ KeepsLive
<1>1. InClient /\ TypeOK
  BY DEF PopArg, IInv
<1>2. /\ Grow(dirty.stack, -1) \in Pointers
      /\ Anchored(Grow(dirty.stack, -1), Installed.who)
      /\ Grow(dirty.stack, -1).size = dirty.stack.size - 1
  BY <1>1, ClientFacts, PlacedFacts DEF PopArg, Grow, Pointers, Anchored
<1>3. dirty' \in Heads
  BY <1>2, PlacedFacts DEF PopArg, Three, Heads
<1>4. dirty.stack.size <= Installed.clean.stack.size
  BY <1>1 DEF IInv, ClientWorking
<1>5. dirty'.stack.size <= Installed.clean.stack.size
  BY <1>2, <1>4, PlacedFacts DEF PopArg, Three, Pointers
<1> QED
  BY <1>1, <1>2, <1>3, <1>5, ClientFacts, ClientBodyStep
  DEF PopArg, Three, TypeOK, persistent

LEMMA PushCntArgStep ==
  ASSUME IInv, NEW v \in Args, PushCntArg(v)
  PROVE  IInv' /\ KeepsLive
<1>1. InClient /\ TypeOK /\ v \in Cells
  BY DEF PushCntArg, IInv, Cells
<1>2. Grow(dirty.cnt, 1) \in Pointers /\ Anchored(Grow(dirty.cnt, 1), Installed.who)
  BY <1>1, ClientFacts, PlacedFacts DEF Grow, Pointers, Anchored
<1>3. dirty' \in Heads
  BY <1>2, PlacedFacts DEF PushCntArg, Three, Heads
<1>4. dirty.stack.size <= Installed.clean.stack.size
  BY <1>1 DEF IInv, ClientWorking
<1> QED
  BY <1>1, <1>2, <1>3, <1>4, ClientFacts, PushCnt, ClientBodyStep
  DEF PushCntArg, Three, TypeOK

LEMMA PushCalleeArgStep ==
  ASSUME IInv, NEW v \in Args, PushCalleeArg(v)
  PROVE  IInv' /\ KeepsLive
<1>1. InClient /\ TypeOK /\ v \in Cells
  BY DEF PushCalleeArg, IInv, Cells
<1>2. Grow(dirty.call, 1) \in Pointers /\ Anchored(Grow(dirty.call, 1), Installed.who)
  BY <1>1, ClientFacts, PlacedFacts DEF Grow, Pointers, Anchored
<1>3. dirty' \in Heads
  BY <1>2, PlacedFacts DEF PushCalleeArg, Three, Heads
<1>4. dirty.stack.size <= Installed.clean.stack.size
  BY <1>1 DEF IInv, ClientWorking
<1> QED
  BY <1>1, <1>2, <1>3, <1>4, ClientFacts, PushCallee, ClientBodyStep
  DEF PushCalleeArg, Three, TypeOK

-----------------------------------------------------------------------------
\* pcnt, pcall, pret and pretvoid

LEMMA PcntStep ==
  ASSUME IInv, NEW f \in Funcs \union {"shutdown"}, Pcnt(f)
  PROVE  IInv' /\ KeepsLive
<1> DEFINE d == Three(dirty.stack, Grow(dirty.cnt, 1), dirty.call)
<1>1. InClient /\ TypeOK /\ f \in Cells /\ "pCntInternal" \in Cells
  BY DEF Pcnt, IInv, Cells, Code, Internal
<1>2. /\ Grow(dirty.cnt, 1) \in Pointers
      /\ Anchored(Grow(dirty.cnt, 1), Installed.who)
      /\ Grow(dirty.cnt, 1).size = dirty.cnt.size + 1
      /\ Grow(dirty.cnt, 1).region = dirty.cnt.region
      /\ dirty.cnt.offset = dirty.cnt.size
  BY <1>1, ClientFacts, PlacedFacts DEF Grow, Pointers, Anchored
<1>3. d \in Heads /\ Finish("pCntInternal", d)
  BY <1>2, PlacedFacts DEF Pcnt, Three, Heads
<1>4. KeepsLive
  BY <1>1, ClientKeepsLive DEF Pcnt
<1>5. next' = [rst |-> "pCntInternal", who |-> Installed.who, clean |-> d]
  BY <1>3 DEF Finish, MakeCapsule
<1>6. Placed(next)'
  BY <1>1, <1>2, <1>3, <1>5, ClientFacts, PlacedFacts DEF Placed, Capsules, Three, Anchored
<1>7. cntHolder'[dirty.cnt.region][dirty.cnt.size] = f
  BY <1>1, <1>2, PushCnt, PlacedFacts DEF Pcnt, Pointers
<1>8. CntReady(next)'
  <2>1. next'.clean.cnt.size = dirty.cnt.size + 1 /\ next'.clean.call.size = 0
        /\ next'.clean.stack.size = dirty.stack.size /\ next'.rst = "pCntInternal"
        /\ next'.clean.cnt.region = dirty.cnt.region
    BY <1>2, <1>5 DEF Three, Pcnt
  <2>2. TopOf(cntHolder, next.clean.cnt)' = f
    BY <1>7, <2>1, PlacedFacts DEF TopOf, Pointers
  <2> QED
    BY <2>1, <2>2, PlacedFacts DEF CntReady, Pcnt, Room, Pointers
<1> QED
  BY <1>1, <1>3, <1>4, <1>6, <1>8, PushCnt, FinishStep DEF Pcnt, Ready, TypeOK

LEMMA PcallStep ==
  ASSUME IInv, NEW g \in Callees, NEW f \in Funcs, Pcall(g, f)
  PROVE  IInv' /\ KeepsLive
<1> DEFINE d == Three(dirty.stack, Grow(dirty.cnt, 1), Grow(dirty.call, 1))
<1>1. InClient /\ TypeOK /\ f \in Cells /\ g \in Cells /\ "pCallInternal" \in Cells
  BY DEF Pcall, IInv, Cells, Code, Internal
<1>2. /\ Grow(dirty.cnt, 1) \in Pointers
      /\ Anchored(Grow(dirty.cnt, 1), Installed.who)
      /\ Grow(dirty.cnt, 1).size = dirty.cnt.size + 1
      /\ Grow(dirty.cnt, 1).region = dirty.cnt.region
      /\ dirty.cnt.offset = dirty.cnt.size
  BY <1>1, ClientFacts, PlacedFacts DEF Grow, Pointers, Anchored
<1>3. /\ Grow(dirty.call, 1) \in Pointers
      /\ Anchored(Grow(dirty.call, 1), Installed.who)
      /\ Grow(dirty.call, 1).size = dirty.call.size + 1
      /\ Grow(dirty.call, 1).region = dirty.call.region
      /\ dirty.call.offset = dirty.call.size
  BY <1>1, ClientFacts, PlacedFacts DEF Grow, Pointers, Anchored
<1>4. d \in Heads /\ Finish("pCallInternal", d)
  BY <1>2, <1>3, PlacedFacts DEF Pcall, Three, Heads
<1>5. KeepsLive
  BY <1>1, ClientKeepsLive DEF Pcall
<1>6. next' = [rst |-> "pCallInternal", who |-> Installed.who, clean |-> d]
  BY <1>4 DEF Finish, MakeCapsule
<1>7. Placed(next)'
  BY <1>1, <1>2, <1>3, <1>4, <1>6, ClientFacts, PlacedFacts DEF Placed, Capsules, Three, Anchored
<1>8. cntHolder'[dirty.cnt.region][dirty.cnt.size] = f
  BY <1>1, <1>2, PushCnt, PlacedFacts DEF Pcall, Pointers
<1>9. callHolder'[dirty.call.region][dirty.call.size] = g
  BY <1>1, <1>3, PushCallee, PlacedFacts DEF Pcall, Pointers
<1>10. CallReady(next)'
  <2>1. /\ next'.clean.cnt.size = dirty.cnt.size + 1
        /\ next'.clean.call.size = dirty.call.size + 1
        /\ next'.clean.stack.size = dirty.stack.size
        /\ next'.rst = "pCallInternal"
        /\ next'.clean.cnt.region = dirty.cnt.region
        /\ next'.clean.call.region = dirty.call.region
    BY <1>2, <1>3, <1>6 DEF Three
  <2>2. TopOf(cntHolder, next.clean.cnt)' = f
    BY <1>8, <2>1, PlacedFacts DEF TopOf, Pointers
  <2>3. TopOf(callHolder, next.clean.call)' = g
    BY <1>9, <2>1, PlacedFacts DEF TopOf, Pointers
  <2> QED
    BY <2>1, <2>2, <2>3, PlacedFacts DEF CallReady, Pcall, Room, Pointers
<1> QED
  BY <1>1, <1>4, <1>5, <1>7, <1>10, PushCnt, PushCallee, FinishStep
  DEF Pcall, Ready, TypeOK

LEMMA PretStep ==
  ASSUME IInv, NEW v \in Args, Pret(v)
  PROVE  IInv' /\ KeepsLive
<1> DEFINE d == Three(dirty.stack, Grow(dirty.cnt, 1), dirty.call)
<1>1. InClient /\ TypeOK /\ v \in Cells /\ "pRetInternal" \in Cells
  BY DEF Pret, ReadyToReturn, IInv, Cells, Code, Internal
<1>2. /\ Grow(dirty.cnt, 1) \in Pointers
      /\ Anchored(Grow(dirty.cnt, 1), Installed.who)
      /\ Grow(dirty.cnt, 1).size = 1
  BY <1>1, ClientFacts, PlacedFacts DEF Grow, Pointers, Anchored, Pret, ReadyToReturn
<1>3. d \in Heads /\ Finish("pRetInternal", d)
  BY <1>2, PlacedFacts DEF Pret, Three, Heads
<1>4. KeepsLive
  BY <1>1, ClientKeepsLive DEF Pret
<1>5. next' = [rst |-> "pRetInternal", who |-> Installed.who, clean |-> d]
  BY <1>3 DEF Finish, MakeCapsule
<1>6. Placed(next)'
  BY <1>1, <1>2, <1>3, <1>5, ClientFacts, PlacedFacts DEF Placed, Capsules, Three, Anchored
<1>7. RetReady(next)'
  <2>1. next'.clean.cnt.size = 1 /\ next'.clean.call.size = 0
        /\ next'.clean.stack = dirty.stack /\ next'.rst = "pRetInternal"
    BY <1>2, <1>5 DEF Three, Pret, ReadyToReturn
  <2>2. TopOf(stack, next.clean.stack)' \in Funcs
    BY <1>1, <2>1, ClientFacts DEF TopOf, Top, Anchored, Pret, ReadyToReturn
  <2> QED
    BY <2>1, <2>2, PlacedFacts DEF RetReady, Pret, ReadyToReturn, Room, Pointers
<1> QED
  BY <1>1, <1>3, <1>4, <1>6, <1>7, PushCnt, FinishStep DEF Pret, Ready, TypeOK

LEMMA PretVoidStep ==
  ASSUME IInv, PretVoid
  PROVE  IInv' /\ KeepsLive
<1>1. InClient /\ TypeOK /\ "pRetInternal" \in Cells
  BY DEF PretVoid, ReadyToReturn, IInv, Cells, Code, Internal
<1>2. KeepsLive
  BY QuietKeepsLive DEF PretVoid, persistent, memory
<1>3. next' = [rst |-> "pRetInternal", who |-> Installed.who, clean |-> dirty]
  BY DEF PretVoid, Finish, MakeCapsule
<1>4. Placed(next)'
  BY <1>1, <1>3, ClientFacts, PlacedFacts DEF Placed, Capsules, Anchored, TypeOK
<1>5. RetReady(next)'
  <2>1. TopOf(stack, next.clean.stack)' \in Funcs
    BY <1>1, <1>3, ClientFacts
    DEF TopOf, Top, Anchored, PretVoid, ReadyToReturn, persistent
  <2> QED
    BY <1>1, <1>3, <2>1, PlacedFacts, ClientFacts
    DEF RetReady, PretVoid, ReadyToReturn, Pointers
<1> QED
  BY <1>1, <1>2, <1>4, <1>5, FinishStep DEF PretVoid, Ready, TypeOK, persistent

-----------------------------------------------------------------------------
\* pCntInternal and pCallInternal

LEMMA CopyFacts ==
  ASSUME IInv, Copying
  PROVE  /\ dirty = Installed.clean
         /\ CntReady(Installed) \/ CallReady(Installed)
         /\ dirty.cnt.size \in 1 .. HolderSize
         /\ dirty.call.size \in 0 .. HolderSize
         /\ CopyTotal \in Nat
         /\ CopyTotal >= 1
         /\ dirty.stack.size + CopyTotal <= StackSize
         /\ copied \in Nat
         /\ copied <= CopyTotal
<1>1. dirty = Installed.clean
  BY DEF IInv, InternalWorking, Copying, rst, Internal
<1>2. CntReady(Installed) \/ CallReady(Installed)
  BY DEF IInv, Copying, rst, Sound, Ready, ClientReady, ResetReady, CntReady,
         CallReady, RetReady, RetCntReady, Internal
<1>3. copied <= CopyTotal /\ copied \in Nat
  BY DEF IInv, CopyWorking, TypeOK
<1> QED
  BY <1>1, <1>2, <1>3, PlacedFacts
  DEF CntReady, CallReady, CopyTotal, rst, Copying, Pointers

LEMMA CopySourceCells ==
  ASSUME IInv, Copying, NEW i \in 0 .. CopyTotal - 1
  PROVE  CopySource(i) \in Cells
<1>1. CASE i < dirty.cnt.size
  <2>1. i \in 0 .. HolderSize - 1
    BY <1>1, CopyFacts
  <2> QED
    BY <1>1, <2>1, PlacedFacts DEF CopySource, MyCnt, TypeOK
<1>2. CASE ~(i < dirty.cnt.size)
  <2>1. i - dirty.cnt.size \in 0 .. HolderSize - 1
    BY <1>2, CopyFacts DEF CopyTotal
  <2> QED
    BY <1>2, <2>1, PlacedFacts DEF CopySource, MyCallee, TypeOK
<1> QED
  BY <1>1, <1>2

LEMMA CopyToStackStep ==
  ASSUME IInv, CopyToStack
  PROVE  IInv' /\ KeepsLive
<1> DEFINE r == dirty.stack.region
           o == dirty.stack.offset + copied
           v == CopySource(copied)
           row == [stack[r] EXCEPT ![o] = v]
<1>1. /\ Copying /\ TypeOK /\ Sound(Installed)
      /\ Installed' = Installed
      /\ UNCHANGED <<cntHolder, callHolder, slot, current, dirty, pc>>
      /\ copied' = copied + 1
  BY DEF CopyToStack, IInv, Installed
<1>2. /\ dirty = Installed.clean
      /\ r = Installed.who /\ r \in Regions
      /\ dirty.stack.offset = dirty.stack.size
      /\ dirty.stack.size \in Nat
      /\ o \in 0 .. StackSize - 1
      /\ v \in Cells
      /\ copied \in 0 .. CopyTotal - 1
  BY <1>1, CopyFacts, CopySourceCells, PlacedFacts DEF CopyToStack, Anchored, Pointers
<1>3. stack[r] \in [0 .. StackSize - 1 -> Cells]
  BY <1>1, <1>2 DEF TypeOK
<1>4. stack' = [stack EXCEPT ![r] = row]
  BY DEF CopyToStack
<1>5. /\ row \in [0 .. StackSize - 1 -> Cells]
      /\ row[o] = v
      /\ \A i \in 0 .. StackSize - 1 : i # o => row[i] = stack[r][i]
  BY <1>2, <1>3
<1>6. stack' \in [Regions -> [0 .. StackSize - 1 -> Cells]] /\ stack'[r] = row
  BY <1>1, <1>2, <1>4, <1>5 DEF TypeOK
<1>7. KeepsLive
  <2>1. ASSUME NEW i \in 0 .. Installed.clean.stack.size - 1
        PROVE  stack'[r][i] = stack[r][i]
    BY <1>1, <1>2, <1>5, <1>6, CopyFacts, SMTT(30)
  <2> QED
    BY <1>1, <1>2, <2>1 DEF KeepsLive
<1>8. TypeOK'
  BY <1>1, <1>2, <1>6 DEF TypeOK, CopyToStack
<1>9. Sound(Installed)'
  BY <1>1, <1>7, StaysSound
<1>10. ClientWorking' /\ InternalWorking'
  BY <1>1, <1>2 DEF ClientWorking, InternalWorking, InClient, Copying, rst, Internal
<1>11. CopyWorking'
  <2>1. CopyTotal' = CopyTotal /\ \A i \in Nat : CopySource(i)' = CopySource(i)
    BY <1>1 DEF CopyTotal, CopySource, MyCnt, MyCallee, rst
  <2>2. \A i \in 0 .. copied - 1 : stack[r][dirty.stack.size + i] = CopySource(i)
    BY <1>1, <1>2 DEF IInv, CopyWorking
  <2>3. ASSUME NEW i \in 0 .. copied
        PROVE  stack'[r][dirty.stack.size + i] = CopySource(i)
    <3>1. CASE i = copied
      BY <1>2, <1>5, <1>6, <3>1
    <3>2. CASE i \in 0 .. copied - 1
      BY <1>1, <1>2, <1>5, <1>6, <2>2, <3>2, CopyFacts, SMTT(30)
    <3> QED
      BY <1>2, <3>1, <3>2
  <2>4. copied' - 1 = copied /\ copied' <= CopyTotal'
    BY <1>1, <1>2, <2>1, CopyFacts
  <2> QED
    BY <1>1, <1>2, <2>1, <2>3, <2>4 DEF CopyWorking
<1>12. ReturnWorking' /\ ResetWorking' /\ HandoverWorking'
  BY <1>1 DEF ReturnWorking, ResetWorking, HandoverWorking, Copying
<1> QED
  BY <1>7, <1>8, <1>9, <1>10, <1>11, <1>12 DEF IInv

\* The two cells a copying capsule hands over: the function it jumps to and,
\* under that of resetWhoAmI, the continuation of the caller.
LEMMA CopyDoneStep ==
  ASSUME IInv, CopyDone
  PROVE  IInv' /\ KeepsLive
<1> DEFINE top == Grow(dirty.stack, CopyTotal)
           f == Top(top)
           k == IF rst = "pCallInternal" THEN Emptied(dirty.call) ELSE dirty.call
           d == Three(Grow(top, -1), Emptied(dirty.cnt), k)
<1>1. /\ Copying /\ TypeOK /\ copied = CopyTotal
      /\ Finish(f, d)
      /\ UNCHANGED <<stack, cntHolder, callHolder, slot, current, quit, copied, faults>>
  BY DEF CopyDone, IInv, persistent
<1>2. /\ top \in Pointers
      /\ Anchored(top, Installed.who)
      /\ top.size = dirty.stack.size + CopyTotal
      /\ top.size \in 1 .. StackSize
  BY <1>1, CopyFacts, PlacedFacts DEF Grow, Pointers, Anchored
<1>3. /\ Grow(top, -1) \in Pointers
      /\ Anchored(Grow(top, -1), Installed.who)
      /\ Grow(top, -1).size = dirty.stack.size + CopyTotal - 1
  <2>1. top.offset \in Nat /\ top.size \in Nat /\ top.region \in Regions
        /\ top.offset = top.size /\ top.region = Installed.who
    BY <1>2 DEF Pointers, Anchored
  <2> HIDE DEF top
  <2>2. Grow(top, -1) \in Pointers
    BY <1>2, <2>1, GrowPointer
  <2> QED
    BY <1>1, <1>2, <2>1, <2>2, CopyFacts, PlacedFacts DEF Grow, Anchored, Pointers
<1>4. /\ Emptied(dirty.cnt) \in Pointers
      /\ Anchored(Emptied(dirty.cnt), Installed.who)
      /\ Emptied(dirty.cnt).size = 0
  BY <1>1, CopyFacts, PlacedFacts, EmptiedPointer DEF Anchored
<1>5. /\ k \in Pointers
      /\ Anchored(k, Installed.who)
      /\ k.size = IF rst = "pCallInternal" THEN 0 ELSE dirty.call.size
  BY <1>1, CopyFacts, PlacedFacts, EmptiedPointer DEF Anchored
<1>6. d \in Heads /\ f \in Cells
  <2>1. d \in Heads
    BY <1>3, <1>4, <1>5 DEF Three, Heads
  <2>2. top.region \in Regions /\ top.offset - 1 \in 0 .. StackSize - 1
    BY <1>2, BoundsAssumption DEF Anchored, Pointers
  <2>3. f \in Cells
    BY <1>1, <2>2 DEF Top, TypeOK
  <2> QED
    BY <2>1, <2>3
<1>7. next' = [rst |-> f, who |-> Installed.who, clean |-> d]
  BY <1>1 DEF Finish, MakeCapsule
<1>8. Placed(next)'
  BY <1>3, <1>4, <1>5, <1>6, <1>7, PlacedFacts DEF Placed, Capsules, Three
<1>9. \A i \in 0 .. CopyTotal - 1 :
        stack[Installed.who][dirty.stack.size + i] = CopySource(i)
  BY <1>1 DEF IInv, CopyWorking
<1>10. f = CopySource(CopyTotal - 1)
  <2>1. f = stack[Installed.who][dirty.stack.size + (CopyTotal - 1)]
    BY <1>1, <1>2, CopyFacts, PlacedFacts DEF Top, Anchored, Pointers
  <2> QED
    BY <1>1, <1>9, <2>1, CopyFacts
<1>11. Ready(next)'
  <2>1. /\ next'.rst = f
        /\ next'.who = Installed.who
        /\ next'.clean.stack = Grow(top, -1)
        /\ next'.clean.cnt.size = 0
        /\ next'.clean.call = k
    BY <1>4, <1>7 DEF Three
  <2>2. CASE CntReady(Installed)
    <3>1. rst = "pCntInternal" /\ CopyTotal = dirty.cnt.size
      BY <1>1, <2>2, CopyFacts, PlacedFacts DEF CntReady, CopyTotal, rst, Pointers
    <3>2. f = TopOf(cntHolder, Installed.clean.cnt)
      BY <1>1, <1>10, <3>1, CopyFacts, PlacedFacts
      DEF CopySource, MyCnt, TopOf, Anchored, Pointers
    <3>3. CASE f \in Funcs \union {"shutdown"}
      <4>1. Installed.clean.call.size = 0
        BY <2>2, <3>2, <3>3 DEF CntReady, Internal
      <4> QED
        BY <1>1, <1>2, <1>3, <1>5, <2>1, <3>1, <3>3, <4>1, CopyFacts, PlacedFacts
        DEF Ready, ClientReady, Pointers
    <3>4. CASE f = "pRetCntInternal"
      <4>1. Installed.clean.call.size = 1
            /\ TopOf(callHolder, Installed.clean.call) \in Funcs
        BY <2>2, <3>2, <3>4 DEF CntReady, Internal
      <4>2. TopOf(callHolder, next.clean.call)' \in Funcs
        BY <1>1, <2>1, <3>1, <4>1, CopyFacts DEF TopOf
      <4> QED
        BY <1>1, <1>2, <1>3, <1>5, <2>1, <3>1, <3>4, <4>1, <4>2, CopyFacts, PlacedFacts
        DEF Ready, RetCntReady, Pointers
    <3> QED
      BY <2>2, <3>2, <3>3, <3>4 DEF CntReady
  <2>3. CASE CallReady(Installed)
    <3>1. rst = "pCallInternal" /\ CopyTotal = dirty.cnt.size + dirty.call.size
          /\ dirty.call.size \in 1 .. HolderSize
      BY <1>1, <2>3, CopyFacts, PlacedFacts DEF CallReady, CopyTotal, rst, Pointers
    <3>2. f = TopOf(callHolder, Installed.clean.call)
      BY <1>1, <1>10, <3>1, CopyFacts, PlacedFacts
      DEF CopySource, MyCallee, TopOf, Anchored, Pointers
    <3>3. CASE f \in Funcs
      BY <1>1, <1>2, <1>3, <1>5, <2>1, <3>1, <3>3, CopyFacts, PlacedFacts
      DEF Ready, ClientReady, Pointers
    <3>4. CASE f = "resetWhoAmI" /\ "resetWhoAmI" \in Callees /\ dirty.call.size = 1
      <4>1. CopySource(CopyTotal - 2) = TopOf(cntHolder, Installed.clean.cnt)
        BY <1>1, <3>1, <3>4, CopyFacts, PlacedFacts
        DEF CopySource, MyCnt, TopOf, Anchored, Pointers
      <4>2. CopySource(CopyTotal - 2) \in Funcs
        BY <2>3, <4>1 DEF CallReady
      <4>3. TopOf(stack, next.clean.stack)' \in Funcs
        <5>1. CopyTotal - 2 \in 0 .. CopyTotal - 1
          BY <1>1, <3>1, <3>4, CopyFacts
        <5>2. stack[Installed.who][dirty.stack.size + (CopyTotal - 2)] \in Funcs
          BY <1>9, <4>2, <5>1
        <5>3. Grow(top, -1).size - 1 = dirty.stack.size + (CopyTotal - 2)
          BY <1>1, <1>3, CopyFacts, PlacedFacts DEF Pointers
        <5> QED
          BY <1>1, <1>3, <2>1, <5>2, <5>3 DEF TopOf, Anchored
      <4> QED
        BY <1>1, <1>2, <1>3, <1>5, <2>1, <3>1, <3>4, <4>3, CopyFacts, PlacedFacts
        DEF Ready, ResetReady, Pointers
    <3> QED
      BY <1>1, <2>3, <3>2, <3>3, <3>4, CopyFacts DEF CallReady
  <2> QED
    BY <1>1, <2>2, <2>3, CopyFacts
<1>12. KeepsLive
  BY <1>1, QuietKeepsLive DEF memory
<1> QED
  BY <1>1, <1>6, <1>8, <1>11, <1>12, FinishStep DEF TypeOK

-----------------------------------------------------------------------------
\* pRetInternal and pRetCntInternal

LEMMA RetFacts ==
  ASSUME IInv, pc \in {"body", "return"}, rst = "pRetInternal"
  PROVE  RetReady(Installed)
BY DEF IInv, rst, Sound, Ready, ClientReady, ResetReady, CntReady, CallReady,
       RetReady, RetCntReady, Internal

LEMMA ReturnPopStep ==
  ASSUME IInv, ReturnPop
  PROVE  IInv' /\ KeepsLive
<1> DEFINE v == Top(dirty.stack)
<1>1. /\ TypeOK /\ Sound(Installed) /\ Installed' = Installed
      /\ RetReady(Installed) /\ rst = "pRetInternal"
      /\ dirty = Installed.clean
      /\ UNCHANGED <<stack, cntHolder, slot, current, quit, next, copied, faults>>
      /\ callHolder' = PushedCallee(v)
  BY RetFacts DEF ReturnPop, IInv, Installed, InternalWorking, rst, Internal
<1>2. /\ v \in Funcs /\ v \in Cells
      /\ dirty.call.offset = 0 /\ dirty.call.region = Installed.who
      /\ dirty.stack.size \in Nat /\ dirty.stack.size >= 1
  BY <1>1, PlacedFacts DEF RetReady, Top, TopOf, Anchored, Cells, Code, Pointers
<1>3. callHolder' \in [Regions -> [0 .. HolderSize - 1 -> Cells]]
      /\ callHolder'[Installed.who][0] = v
  BY <1>1, <1>2, PushCallee
<1>4. Grow(dirty.stack, -1) \in Pointers /\ Grow(dirty.call, 1) \in Pointers
  BY <1>1, <1>2, PlacedFacts DEF Grow, Pointers, Anchored
<1>5. dirty' \in Heads /\ pc' = "return"
  BY <1>4, PlacedFacts DEF ReturnPop, Three, Heads
<1>6. KeepsLive
  BY <1>1 DEF KeepsLive, RetReady
<1>7. TypeOK'
  BY <1>1, <1>3, <1>5 DEF TypeOK
<1>8. Sound(Installed)'
  BY <1>1, <1>6, StaysSound
<1>9. ReturnWorking'
  BY <1>1, <1>2, <1>3 DEF ReturnWorking, ReturnPop, rst
<1>10. ClientWorking' /\ InternalWorking' /\ CopyWorking'
  BY <1>5 DEF ClientWorking, InternalWorking, CopyWorking, InClient, Copying
<1>11. ResetWorking' /\ HandoverWorking'
  BY <1>5 DEF ResetWorking, HandoverWorking
<1> QED
  BY <1>6, <1>7, <1>8, <1>9, <1>10, <1>11 DEF IInv

LEMMA ReturnPushStep ==
  ASSUME IInv, ReturnPush
  PROVE  IInv' /\ KeepsLive
<1> DEFINE d == Three(dirty.stack, Grow(dirty.cnt, 1), dirty.call)
           v == "pRetCntInternal"
<1>1. /\ TypeOK /\ Sound(Installed)
      /\ RetReady(Installed)
      /\ callHolder[Installed.who][0] \in Funcs
      /\ dirty = Three(Grow(Installed.clean.stack, -1), Installed.clean.cnt,
                       Grow(Installed.clean.call, 1))
      /\ UNCHANGED <<stack, callHolder, slot, current, quit, copied, faults>>
      /\ cntHolder' = PushedCnt(v)
      /\ Finish("pCntInternal", d)
  BY RetFacts DEF ReturnPush, IInv, ReturnWorking
<1>2. v \in Cells /\ v = "pRetCntInternal" /\ "pCntInternal" \in Cells
  BY DEF Cells, Code, Internal
<1> HIDE DEF v
<1>3. /\ dirty.stack = Grow(Installed.clean.stack, -1)
      /\ dirty.cnt = Installed.clean.cnt
      /\ dirty.call = Grow(Installed.clean.call, 1)
  BY <1>1 DEF Three
<1>4. /\ Anchored(dirty.stack, Installed.who)
      /\ dirty.stack.size = Installed.clean.stack.size - 1
      /\ Anchored(dirty.call, Installed.who) /\ dirty.call.size = 1
      /\ dirty.cnt.size \in 0 .. 1
      /\ dirty.cnt.offset = dirty.cnt.size
      /\ dirty.cnt.region = Installed.who
  <2>1. Anchored(dirty.stack, Installed.who)
        /\ dirty.stack.size = Installed.clean.stack.size - 1
    BY <1>3, PlacedFacts DEF Grow, Anchored, Pointers
  <2>2. Anchored(dirty.call, Installed.who) /\ dirty.call.size = 1
    <3>1. Installed.clean.call.size = 0 /\ Installed.clean.call.offset = 0
          /\ Installed.clean.call.region = Installed.who
      BY <1>1, PlacedFacts DEF RetReady, Anchored
    <3> QED
      BY <1>3, <3>1 DEF Grow, Anchored
  <2>3. dirty.cnt.size \in 0 .. 1 /\ dirty.cnt.offset = dirty.cnt.size
        /\ dirty.cnt.region = Installed.who
    BY <1>1, <1>3, PlacedFacts DEF RetReady, Anchored, Pointers
  <2> QED
    BY <2>1, <2>2, <2>3
<1>5. /\ Grow(dirty.cnt, 1) \in Pointers
      /\ Anchored(Grow(dirty.cnt, 1), Installed.who)
      /\ Grow(dirty.cnt, 1).size = dirty.cnt.size + 1
  BY <1>4, PlacedFacts DEF Grow, Pointers, Anchored
<1>6. d \in Heads
  BY <1>5, PlacedFacts DEF Three, Heads
<1>7. /\ cntHolder' \in [Regions -> [0 .. HolderSize - 1 -> Cells]]
      /\ cntHolder'[Installed.who][dirty.cnt.size] = v
      /\ \A i \in 0 .. HolderSize - 1 :
           i # dirty.cnt.size => cntHolder'[Installed.who][i] = cntHolder[Installed.who][i]
  <2>1. cntHolder' \in [Regions -> [0 .. HolderSize - 1 -> Cells]]
    BY <1>1, <1>2, PushCnt
  <2>2. dirty.cnt.offset < HolderSize
    BY <1>4
  <2>3. cntHolder'[Installed.who][dirty.cnt.size] = v
    BY <1>1, <1>2, <1>4, <2>2, PushCnt
  <2>4. ASSUME NEW i \in 0 .. HolderSize - 1, i # dirty.cnt.size
        PROVE  cntHolder'[Installed.who][i] = cntHolder[Installed.who][i]
    BY <1>1, <1>2, <1>4, <2>4, PushCnt, PlacedFacts
  <2> QED
    BY <2>1, <2>3, <2>4
<1>8. KeepsLive
  <2>1. /\ Installed.clean.cnt.region = Installed.who
        /\ Installed.clean.cnt.size = dirty.cnt.size
        /\ dirty.cnt.size \in 0 .. 1
    BY <1>3, <1>4
  <2>2. ASSUME NEW i \in 0 .. Installed.clean.cnt.size - 1
        PROVE  cntHolder'[Installed.who][i] = cntHolder[Installed.who][i]
    BY <1>7, <2>1, BoundsAssumption
  <2> QED
    BY <1>1, <2>1, <2>2 DEF KeepsLive
<1>9. next' = [rst |-> "pCntInternal", who |-> Installed.who, clean |-> d]
  BY <1>1 DEF Finish, MakeCapsule
<1>10. Placed(next)'
  BY <1>2, <1>4, <1>5, <1>6, <1>9, PlacedFacts DEF Placed, Capsules, Three
<1>11. CntReady(next)'
  <2>1. /\ next'.rst = "pCntInternal"
        /\ next'.clean.stack.size = dirty.stack.size
        /\ next'.clean.cnt.size = dirty.cnt.size + 1
        /\ next'.clean.cnt.region = Installed.who
        /\ next'.clean.call.size = 1
        /\ next'.clean.call.region = Installed.who
    BY <1>4, <1>5, <1>9 DEF Three, Anchored
  <2>2. TopOf(cntHolder, next.clean.cnt)' = v
    <3>1. next'.clean.cnt.size - 1 = dirty.cnt.size
      BY <1>4, <2>1
    <3> QED
      BY <1>7, <2>1, <3>1 DEF TopOf
  <2>3. TopOf(callHolder, next.clean.call)' \in Funcs
    BY <1>1, <2>1 DEF TopOf
  <2> QED
    <3>1. /\ next'.clean.cnt.size \in 1 .. HolderSize
          /\ next'.clean.stack.size + next'.clean.cnt.size <= StackSize
      BY <1>1, <1>3, <1>4, <2>1, BoundsAssumption, PlacedFacts, SMTT(30)
      DEF RetReady, Pointers
    <3> QED
      BY <1>2, <2>1, <2>2, <2>3, <3>1 DEF CntReady
<1> QED
  BY <1>1, <1>2, <1>6, <1>7, <1>8, <1>10, <1>11, FinishStep DEF Ready, TypeOK

LEMMA ReturnContinueStep ==
  ASSUME IInv, ReturnContinue
  PROVE  IInv' /\ KeepsLive
<1> DEFINE d == Three(dirty.stack, Grow(dirty.cnt, 1), Emptied(dirty.call))
           v == MyCallee(0)
<1>1. /\ TypeOK /\ Sound(Installed)
      /\ RetCntReady(Installed)
      /\ dirty = Installed.clean
      /\ UNCHANGED <<stack, callHolder, slot, current, quit, copied, faults>>
      /\ cntHolder' = PushedCnt(v)
      /\ Finish("pCntInternal", d)
  BY DEF ReturnContinue, IInv, InternalWorking, rst, Sound, Ready, ClientReady,
         ResetReady, CntReady, CallReady, RetReady, RetCntReady, Internal
<1>2. v \in Funcs /\ v \in Cells /\ "pCntInternal" \in Cells
  BY <1>1, PlacedFacts DEF RetCntReady, MyCallee, TopOf, Anchored, Cells, Code, Internal
<1>3. /\ dirty.cnt.size = 0 /\ dirty.cnt.offset = 0
      /\ dirty.cnt.region = Installed.who
      /\ dirty.call.offset = dirty.call.size
      /\ dirty.stack.size + 1 <= StackSize
  BY <1>1, PlacedFacts DEF RetCntReady, Anchored
<1>4. /\ Grow(dirty.cnt, 1) \in Pointers
      /\ Anchored(Grow(dirty.cnt, 1), Installed.who)
      /\ Grow(dirty.cnt, 1).size = 1
  BY <1>3, PlacedFacts DEF Grow, Pointers, Anchored
<1>5. /\ Emptied(dirty.call) \in Pointers
      /\ Anchored(Emptied(dirty.call), Installed.who)
      /\ Emptied(dirty.call).size = 0
  BY <1>1, <1>3, PlacedFacts, EmptiedPointer DEF Anchored
<1>6. d \in Heads
  BY <1>4, <1>5, PlacedFacts DEF Three, Heads
<1>7. /\ cntHolder' \in [Regions -> [0 .. HolderSize - 1 -> Cells]]
      /\ cntHolder'[Installed.who][0] = v
  BY <1>1, <1>2, <1>3, PushCnt
<1>8. KeepsLive
  BY <1>1 DEF KeepsLive, RetCntReady
<1>9. next' = [rst |-> "pCntInternal", who |-> Installed.who, clean |-> d]
  BY <1>1 DEF Finish, MakeCapsule
<1>10. Placed(next)'
  BY <1>1, <1>2, <1>4, <1>5, <1>6, <1>9, PlacedFacts DEF Placed, Capsules, Three
<1>11. CntReady(next)'
  <2>1. /\ next'.rst = "pCntInternal"
        /\ next'.clean.stack.size = dirty.stack.size
        /\ next'.clean.cnt.size = 1
        /\ next'.clean.cnt.region = Installed.who
        /\ next'.clean.call.size = 0
    BY <1>4, <1>5, <1>9 DEF Three, Anchored
  <2>2. TopOf(cntHolder, next.clean.cnt)' = v
    BY <1>7, <2>1 DEF TopOf
  <2> QED
    BY <1>2, <1>3, <2>1, <2>2 DEF CntReady
<1> QED
  BY <1>1, <1>2, <1>6, <1>7, <1>8, <1>10, <1>11, FinishStep DEF Ready, TypeOK

-----------------------------------------------------------------------------
\* resetWhoAmI and shutdown

LEMMA ResetFacts ==
  ASSUME IInv, pc \in {"body", "reset"}, rst = "resetWhoAmI"
  PROVE  ResetReady(Installed)
BY DEF IInv, rst, Sound, Ready, ClientReady, ResetReady, CntReady, CallReady,
       RetReady, RetCntReady, Internal

LEMMA EditWhoStep ==
  ASSUME IInv, EditWho, OwnIdentity
  PROVE  IInv' /\ KeepsLive
<1>1. /\ TypeOK /\ Sound(Installed)
      /\ ResetReady(Installed)
      /\ dirty = Installed.clean
      /\ UNCHANGED <<stack, cntHolder, callHolder, current, quit, dirty, next, copied, faults>>
  BY ResetFacts DEF EditWho, IInv, InternalWorking, rst, memory
<1>2. Installed.who = Hard
  BY <1>1, PlacedFacts DEF ResetReady, OwnIdentity
<1>3. slot' = slot
  BY <1>1, <1>2, PlacedFacts DEF EditWho, TypeOK, Installed, Capsules
<1>4. Installed' = Installed
  BY <1>1, <1>3 DEF Installed
<1>5. KeepsLive
  BY <1>1, QuietKeepsLive DEF memory
<1>6. TypeOK'
  BY <1>1, <1>3 DEF TypeOK, EditWho
<1>7. Sound(Installed)'
  BY <1>1, <1>4, <1>5, StaysSound
<1>8. ResetWorking'
  BY <1>1, <1>4 DEF ResetWorking, EditWho, rst
<1>9. ClientWorking' /\ InternalWorking' /\ CopyWorking'
  BY DEF ClientWorking, InternalWorking, CopyWorking, InClient, Copying, EditWho
<1>10. ReturnWorking' /\ HandoverWorking'
  BY DEF ReturnWorking, HandoverWorking, EditWho
<1> QED
  BY <1>5, <1>6, <1>7, <1>8, <1>9, <1>10 DEF IInv

LEMMA ResetReturnStep ==
  ASSUME IInv, ResetReturn
  PROVE  IInv' /\ KeepsLive
<1>1. /\ TypeOK /\ rst = "resetWhoAmI" /\ dirty = Installed.clean
      /\ UNCHANGED <<stack, cntHolder, callHolder, slot, current, quit, copied, faults>>
      /\ Finish("pRetInternal", dirty)
  BY DEF ResetReturn, IInv, ResetWorking, persistent
<1>2. ResetReady(Installed)
  BY <1>1, ResetFacts DEF ResetReturn
<1>3. dirty \in Heads /\ "pRetInternal" \in Cells
  BY <1>1 DEF TypeOK, Cells, Code, Internal
<1>4. KeepsLive
  BY <1>1, QuietKeepsLive DEF memory
<1>5. next' = [rst |-> "pRetInternal", who |-> Installed.who, clean |-> Installed.clean]
  BY <1>1 DEF Finish, MakeCapsule
<1>6. Placed(next)'
  BY <1>1, <1>3, <1>5, PlacedFacts DEF Placed, Capsules
<1>7. RetReady(next)'
  BY <1>1, <1>2, <1>5, PlacedFacts DEF ResetReady, RetReady, TopOf, Pointers
<1> QED
  BY <1>1, <1>3, <1>4, <1>6, <1>7, FinishStep DEF Ready, TypeOK

LEMMA ShutdownStep ==
  ASSUME IInv, Shutdown
  PROVE  IInv' /\ KeepsLive
<1>1. /\ TypeOK /\ Sound(Installed) /\ rst = "shutdown"
      /\ UNCHANGED <<stack, cntHolder, callHolder, slot, current, copied, faults>>
      /\ quit' = TRUE
      /\ Finish("shutdown", dirty)
  BY DEF Shutdown, IInv, memory
<1>2. dirty = Installed.clean
  BY <1>1, NamesAssumption DEF Shutdown, IInv, InternalWorking
<1>3. dirty \in Heads /\ "shutdown" \in Cells
  BY <1>1 DEF TypeOK, Cells, Code
<1>4. KeepsLive
  BY <1>1, QuietKeepsLive DEF memory
<1>5. next' = [rst |-> "shutdown", who |-> Installed.who, clean |-> Installed.clean]
  BY <1>1, <1>2 DEF Finish, MakeCapsule
<1>6. ClientReady(Installed)
  BY <1>1 DEF rst, Sound, Ready, ClientReady, ResetReady, CntReady, CallReady,
              RetReady, RetCntReady
<1>7. Placed(next)'
  BY <1>1, <1>2, <1>3, <1>5, PlacedFacts DEF Placed, Capsules
<1>8. ClientReady(next)'
  BY <1>5, <1>6 DEF ClientReady
<1> QED
  BY <1>1, <1>3, <1>4, <1>7, <1>8, FinishStep DEF Ready, TypeOK

-----------------------------------------------------------------------------
\* The trampoline and the environment write no stack and no holder.

\* A step that leaves memory, capsules and pointer alone and does not enter
\* the body or the handover.
LEMMA QuietStep ==
  ASSUME IInv, UNCHANGED <<memory, slot, current, next>>,
         quit' \in BOOLEAN, faults' \in 0 .. MaxFaults, copied' \in Nat,
         dirty' \in Heads, pc' \in {"load", "exit"}
  PROVE  IInv' /\ KeepsLive
<1>1. Installed' = Installed /\ TypeOK /\ Sound(Installed)
  BY DEF IInv, Installed
<1>2. KeepsLive
  BY QuietKeepsLive
<1>3. TypeOK'
  BY <1>1 DEF TypeOK, memory
<1>4. Sound(Installed)'
  BY <1>1, <1>2, StaysSound
<1>5. ClientWorking' /\ InternalWorking' /\ CopyWorking'
  BY DEF ClientWorking, InternalWorking, CopyWorking, InClient, Copying
<1>6. ReturnWorking' /\ ResetWorking' /\ HandoverWorking'
  BY DEF ReturnWorking, ResetWorking, HandoverWorking
<1> QED
  BY <1>2, <1>3, <1>4, <1>5, <1>6 DEF IInv

LEMMA LoadStep ==
  ASSUME IInv, Load
  PROVE  IInv' /\ KeepsLive
<1>1. /\ Installed' = Installed /\ TypeOK /\ Sound(Installed)
      /\ UNCHANGED <<memory, slot, current, quit, next, faults>>
      /\ dirty' = Installed.clean /\ copied' = 0 /\ pc' = "body"
  BY DEF IInv, Load, Installed, persistent, memory
<1>2. KeepsLive
  BY <1>1, QuietKeepsLive
<1>3. TypeOK'
  BY <1>1, PlacedFacts DEF TypeOK, memory, Capsules
<1>4. Sound(Installed)'
  BY <1>1, <1>2, StaysSound
<1>5. ClientWorking'
  BY <1>1, PlacedFacts DEF ClientWorking, Pointers
<1>6. InternalWorking'
  BY <1>1 DEF InternalWorking
<1>7. CopyWorking'
  <2>1. Copying' => CopyTotal' \in Nat
    BY <1>1, <1>3, PlacedFacts DEF CopyTotal, Pointers
  <2> QED
    BY <1>1, <2>1 DEF CopyWorking
<1>8. ReturnWorking' /\ ResetWorking' /\ HandoverWorking'
  BY <1>1 DEF ReturnWorking, ResetWorking, HandoverWorking
<1> QED
  BY <1>2, <1>3, <1>4, <1>5, <1>6, <1>7, <1>8 DEF IInv

\* While the other capsule is being written the installed one is untouched.
LEMMA WriteStep ==
  ASSUME IInv, pc \in {"write", "written"}, pc' \in {"written", "swing"},
         NEW c \in Capsules \union {Torn},
         slot' = [slot EXCEPT ![Other(current)] = c],
         pc' = "swing" => c = next,
         UNCHANGED <<memory, current, quit, dirty, next, copied, faults>>
  PROVE  IInv' /\ KeepsLive
<1>1. TypeOK /\ Sound(Installed) /\ Sound(next)
  BY DEF IInv, HandoverWorking
<1>2. Other(current) \in 1 .. 2 /\ Other(current) # current
  BY <1>1 DEF TypeOK, Other
<1>3. Installed' = Installed /\ slot'[Other(current)] = c
  BY <1>1, <1>2 DEF Installed, TypeOK
<1>4. KeepsLive
  BY QuietKeepsLive
<1>5. TypeOK'
  BY <1>1, <1>2 DEF TypeOK, memory
<1>6. Sound(Installed)'
  BY <1>1, <1>3, <1>4, StaysSound
<1>7. ClientWorking' /\ InternalWorking' /\ CopyWorking'
  BY DEF ClientWorking, InternalWorking, CopyWorking, InClient, Copying
<1>8. ReturnWorking' /\ ResetWorking'
  BY DEF ReturnWorking, ResetWorking
<1>9. HandoverWorking'
  <2>1. Sound(next)'
    BY <1>1 DEF memory, Sound, Placed, Ready, ClientReady, ResetReady, CntReady,
                CallReady, RetReady, RetCntReady, TopOf
  <2>2. pc' = "swing" => slot'[Other(current')] = next'
    BY <1>3
  <2> QED
    BY <2>1, <2>2 DEF HandoverWorking
<1> QED
  BY <1>4, <1>5, <1>6, <1>7, <1>8, <1>9 DEF IInv

\* The capsule just written, sound in the memory of its time, is installed.
LEMMA SwingStep ==
  ASSUME IInv, Swing
  PROVE  IInv' /\ KeepsLive
<1>1. /\ TypeOK /\ Sound(next) /\ slot[Other(current)] = next
      /\ UNCHANGED <<memory, slot, quit, dirty, next, copied, faults>>
      /\ current' = Other(current) /\ pc' = "load"
  BY DEF IInv, HandoverWorking, Swing
<1>2. Installed' = next
  BY <1>1 DEF Installed
<1>3. KeepsLive
  BY <1>1, QuietKeepsLive
<1>4. TypeOK'
  BY <1>1 DEF TypeOK, Other, memory
<1>5. Sound(Installed)'
  BY <1>1, <1>2 DEF memory, Sound, Placed, Ready, ClientReady, ResetReady,
                    CntReady, CallReady, RetReady, RetCntReady, TopOf
<1>6. ClientWorking' /\ InternalWorking' /\ CopyWorking'
  BY <1>1 DEF ClientWorking, InternalWorking, CopyWorking, InClient, Copying
<1>7. ReturnWorking' /\ ResetWorking' /\ HandoverWorking'
  BY <1>1 DEF ReturnWorking, ResetWorking, HandoverWorking
<1> QED
  BY <1>3, <1>4, <1>5, <1>6, <1>7 DEF IInv

LEMMA StutterStep ==
  ASSUME IInv, UNCHANGED vars
  PROVE  IInv' /\ KeepsLive
<1>1. Installed' = Installed /\ TypeOK /\ Sound(Installed)
  BY DEF IInv, Installed, vars, persistent
<1>2. KeepsLive
  BY QuietKeepsLive DEF vars, persistent, memory
<1>3. TypeOK'
  BY <1>1 DEF TypeOK, vars, persistent
<1>4. Sound(Installed)'
  BY <1>1, <1>2, StaysSound
<1>5. ClientWorking' /\ InternalWorking'
  BY <1>1 DEF IInv, ClientWorking, InternalWorking, InClient, rst, vars
<1>6. CopyWorking'
  BY <1>1 DEF IInv, CopyWorking, Copying, CopyTotal, CopySource, MyCnt,
              MyCallee, rst, vars, persistent
<1>7. ReturnWorking' /\ ResetWorking'
  BY <1>1 DEF IInv, ReturnWorking, ResetWorking, rst, vars, persistent
<1>8. HandoverWorking'
  <2>1. Sound(next) => Sound(next)'
    BY DEF vars, persistent, Sound, Placed, Ready, ClientReady, ResetReady,
           CntReady, CallReady, RetReady, RetCntReady, TopOf
  <2> QED
    BY <2>1 DEF IInv, HandoverWorking, vars, persistent
<1> QED
  BY <1>2, <1>3, <1>4, <1>5, <1>6, <1>7, <1>8 DEF IInv

-----------------------------------------------------------------------------
\* The invariant

LEMMA InitIInv ==
  ASSUME Init
  PROVE  IInv
<1> PICK r \in Owners, f \in Funcs :
      slot = <<First(r, f), Torn>> /\ next = First(r, f) /\ dirty = Start(r)
  BY DEF Init
<1>1. r \in Regions /\ f \in Cells
  BY DEF Cells, Code
<1>2. First(r, f) \in Capsules
  BY <1>1, StartHeads DEF First, Capsules
<1>3. TypeOK
  <2>1. slot \in [1 .. 2 -> Capsules \union {Torn}]
    BY <1>2
  <2>2. /\ stack \in [Regions -> [0 .. StackSize - 1 -> Cells]]
        /\ cntHolder \in [Regions -> [0 .. HolderSize - 1 -> Cells]]
        /\ callHolder \in [Regions -> [0 .. HolderSize - 1 -> Cells]]
    BY DEF Init, Cells
  <2>3. next \in Capsules /\ dirty \in Heads
    BY <1>1, <1>2, StartHeads
  <2>4. /\ current \in 1 .. 2 /\ quit \in BOOLEAN /\ copied \in Nat
        /\ faults \in 0 .. MaxFaults /\ pc = "load"
    <3>1. /\ current = 1 /\ quit = FALSE /\ copied = 0 /\ faults = 0
          /\ pc = "load"
      BY Zenon DEF Init
    <3>2. quit \in BOOLEAN
      BY <3>1, Zenon
    <3>3. current \in 1 .. 2 /\ copied \in Nat /\ faults \in 0 .. MaxFaults
      BY <3>1
    <3> QED
      BY <3>1, <3>2, <3>3, Zenon
  <2> QED
    BY <2>1, <2>2, <2>3, <2>4 DEF TypeOK
<1>4. Installed = First(r, f)
  BY DEF Init, Installed
<1>5. Placed(Installed)
  BY <1>1, <1>2, <1>4, StartHeads DEF Placed, First
<1>6. ClientReady(Installed)
  BY <1>1, <1>4, StartHeads DEF ClientReady, First
<1>7. ClientWorking /\ InternalWorking /\ CopyWorking
  BY DEF Init, ClientWorking, InternalWorking, CopyWorking, InClient, Copying
<1>8. ReturnWorking /\ ResetWorking /\ HandoverWorking
  BY DEF Init, ReturnWorking, ResetWorking, HandoverWorking
<1> QED
  BY <1>3, <1>5, <1>6, <1>7, <1>8 DEF IInv, Sound, Ready

LEMMA StepIInv ==
  ASSUME IInv, [Next]_vars, OwnIdentity
  PROVE  IInv' /\ KeepsLive
<1> USE DEF Machine
<1>1. CASE PopArg
  BY <1>1, PopArgStep
<1>2. ASSUME NEW v \in Args, PushCntArg(v) \/ PushCalleeArg(v) \/ Pret(v)
      PROVE  IInv' /\ KeepsLive
  BY <1>2, PushCntArgStep, PushCalleeArgStep, PretStep
<1>3. ASSUME NEW f \in Funcs \union {"shutdown"}, Pcnt(f)
      PROVE  IInv' /\ KeepsLive
  BY <1>3, PcntStep
<1>4. ASSUME NEW f \in Funcs, NEW g \in Callees, Pcall(g, f)
      PROVE  IInv' /\ KeepsLive
  BY <1>4, PcallStep
<1>5. CASE PretVoid
  BY <1>5, PretVoidStep
<1>6. CASE Trampoline
  <2>1. CASE Load
    BY <2>1, LoadStep
  <2>2. CASE Exit
    BY <2>2, QuietStep DEF Exit, IInv, TypeOK, persistent, memory
  <2>3. CASE WriteFirst
    BY <2>3, WriteStep DEF WriteFirst
  <2>4. CASE WriteRest
    BY <2>4, WriteStep DEF WriteRest, IInv, TypeOK
  <2>5. CASE Swing
    BY <2>5, SwingStep
  <2> QED
    BY <1>6, <2>1, <2>2, <2>3, <2>4, <2>5 DEF Trampoline
<1>7. CASE StackCode
  BY <1>7, CopyToStackStep, CopyDoneStep, ReturnPopStep, ReturnPushStep,
     ReturnContinueStep DEF StackCode
<1>8. CASE CapsuleCode
  BY <1>8, EditWhoStep, ResetReturnStep, ShutdownStep DEF CapsuleCode
<1>9. CASE Fault
  <2>1. Hard \in Regions
    OBVIOUS
  <2>2. dirty' \in Heads /\ faults' \in 0 .. MaxFaults
    BY <1>9, <2>1, StartHeads DEF Fault, IInv, TypeOK
  <2> QED
    BY <1>9, <2>2, QuietStep DEF Fault, IInv, TypeOK, persistent, memory
<1>10. CASE QuitElsewhere
  BY <1>10, QuietStep DEF QuitElsewhere, IInv, TypeOK
<1>11. CASE UNCHANGED vars
  BY <1>11, StutterStep
<1> QED
  BY <1>1, <1>2, <1>3, <1>4, <1>5, <1>6, <1>7, <1>8, <1>9, <1>10, <1>11
  DEF Next, Client, Exited

\* The inductive invariant holds of every behaviour with faults.
THEOREM Invariance ==
  ASSUME OwnIdentity
  PROVE  Spec => []IInv
<1>1. Init => IInv
  BY InitIInv
<1>2. IInv /\ [Next]_vars => IInv'
  BY StepIInv
<1> QED
  BY <1>1, <1>2, PTL DEF Spec

\* Type correctness: no pointer of any capsule ever falls below its region and
\* nothing is installed that is not a capsule.
THEOREM TypeCorrect ==
  ASSUME OwnIdentity
  PROVE  Spec => []TypeOK
<1>1. IInv => TypeOK
  BY DEF IInv
<1> QED
  BY <1>1, Invariance, PTL

\* README, "write after read conflict": no step writes what the installed
\* capsule may still read, so a capsule can be run again from its start.
THEOREM NoWriteAfterRead ==
  ASSUME OwnIdentity
  PROVE  Spec => LiveFrozen
<1>1. IInv /\ [Next]_vars => [KeepsLive]_vars
  BY StepIInv
<1> QED
  BY <1>1, Invariance, PTL DEF Spec, LiveFrozen

-----------------------------------------------------------------------------
\* What the invariant says of the cells, read as sequences

LEMMA FunctionIsSequence ==
  ASSUME NEW S, NEW n \in Nat, NEW f, f \in [1 .. n -> S]
  PROVE  f \in Seq(S) /\ Len(f) = n
  OBVIOUS

LEMMA BelowFacts ==
  ASSUME TypeOK,
         NEW m, NEW n \in Nat, m \in [Regions -> [0 .. n - 1 -> Cells]],
         NEW ptr \in Pointers, ptr.size <= n
  PROVE  /\ Below(m, ptr) \in Seq(Cells)
         /\ Len(Below(m, ptr)) = ptr.size
         /\ ptr.size > 0 => Below(m, ptr)[ptr.size] = TopOf(m, ptr)
<1>1. ptr.size \in Nat /\ ptr.region \in Regions
  BY DEF Pointers
<1>2. \A i \in 1 .. ptr.size : m[ptr.region][i - 1] \in Cells
  BY <1>1
<1>3. Below(m, ptr) \in [1 .. ptr.size -> Cells]
  BY <1>2 DEF Below
<1>4. Below(m, ptr) \in Seq(Cells) /\ Len(Below(m, ptr)) = ptr.size
  BY <1>1, <1>3, FunctionIsSequence, ZenonT(30)
<1> QED
  BY <1>1, <1>4 DEF Below, TopOf

LEMMA LastOfConcat ==
  ASSUME NEW S, NEW s \in Seq(S), NEW t \in Seq(S), t # <<>>
  PROVE  s \o t # <<>> /\ Last(s \o t) = t[Len(t)] /\ s \o t \in Seq(S)
<1>1. Len(t) > 0 /\ Len(s) \in Nat /\ Len(t) \in Nat
  OBVIOUS
<1>2. Len(s \o t) = Len(s) + Len(t) /\ s \o t \in Seq(S)
  OBVIOUS
<1>3. (s \o t)[Len(s) + Len(t)] = t[Len(t)]
  BY <1>1
<1> QED
  BY <1>1, <1>2, <1>3 DEF Last

LEMMA IInvIntact ==
  ASSUME IInv
  PROVE  InstalledIntact
<1> DEFINE c == Installed
<1>1. /\ TypeOK /\ Placed(c) /\ Ready(c)
      /\ c.clean.stack \in Pointers /\ c.clean.cnt \in Pointers
      /\ c.clean.call \in Pointers
  BY PlacedFacts DEF IInv, Sound
<1>2. Installed # Torn /\ rst \in Code
  BY <1>1, TornAssumption
  DEF Placed, Ready, ClientReady, ResetReady, CntReady, CallReady, RetReady,
      RetCntReady, Code, Internal, rst
<1>3. c.clean.cnt.region = c.who /\ c.clean.call.region = c.who
  BY <1>1 DEF Placed, Anchored
<1>4. /\ c.clean.stack.size <= StackSize
      /\ c.clean.cnt.size <= HolderSize
      /\ c.clean.call.size <= HolderSize
  BY <1>1 DEF Ready, ClientReady, ResetReady, CntReady, CallReady, RetReady,
              RetCntReady, Pointers
<1>5. /\ SS \in Seq(Cells) /\ Len(SS) = c.clean.stack.size
      /\ c.clean.stack.size > 0 => SS[Len(SS)] = TopOf(stack, c.clean.stack)
  BY <1>1, <1>4, BelowFacts DEF SS, TypeOK
<1>6. /\ CC \in Seq(Cells) /\ Len(CC) = c.clean.cnt.size
      /\ c.clean.cnt.size > 0 => CC[Len(CC)] = TopOf(cntHolder, c.clean.cnt)
  BY <1>1, <1>4, BelowFacts DEF CC, TypeOK
<1>7. /\ KK \in Seq(Cells) /\ Len(KK) = c.clean.call.size
      /\ c.clean.call.size > 0 => KK[Len(KK)] = TopOf(callHolder, c.clean.call)
  BY <1>1, <1>4, BelowFacts DEF KK, TypeOK
<1>8. CASE CntReady(c)
  <2>1. Result = SS \o CC
    <3>1. Result = (SS \o CC) \o <<>>
      BY <1>8 DEF Result, CntReady, rst
    <3> QED
      BY <1>5, <1>6, <3>1
  <2>2. CC # <<>> /\ CC[Len(CC)] = TopOf(cntHolder, c.clean.cnt)
    BY <1>6, <1>8 DEF CntReady
  <2>3. Result # <<>> /\ Last(Result) = TopOf(cntHolder, c.clean.cnt)
    BY <1>5, <1>6, <2>1, <2>2, LastOfConcat
  <2>4. TopOf(cntHolder, c.clean.cnt) \in Code
    BY <1>8 DEF CntReady, Code, Internal
  <2>5. Returning => Len(KK) = 1 /\ KK[1] \in Funcs
    BY <1>7, <1>8, <2>3 DEF Returning, CntReady, rst, Internal
  <2> QED
    BY <1>2, <1>3, <1>8, <2>3, <2>4, <2>5 DEF InstalledIntact, CntReady, rst
<1>9. CASE CallReady(c)
  <2>1. Result = (SS \o CC) \o KK
    BY <1>9 DEF Result, CallReady, rst
  <2>2. KK # <<>> /\ KK[Len(KK)] = TopOf(callHolder, c.clean.call)
    BY <1>7, <1>9 DEF CallReady
  <2>3. SS \o CC \in Seq(Cells)
    BY <1>5, <1>6
  <2>4. Result # <<>> /\ Last(Result) = TopOf(callHolder, c.clean.call)
    BY <1>7, <2>1, <2>2, <2>3, LastOfConcat
  <2>5. TopOf(callHolder, c.clean.call) \in Code
    BY <1>9 DEF CallReady, Code
  <2> QED
    BY <1>2, <1>3, <1>9, <2>4, <2>5
    DEF InstalledIntact, CallReady, rst, Returning
<1>10. CASE RetReady(c)
  <2>1. SS # <<>> /\ Last(SS) \in Funcs
    BY <1>1, <1>5, <1>10 DEF RetReady, Last, Pointers
  <2> QED
    BY <1>2, <1>3, <1>10, <2>1 DEF InstalledIntact, RetReady, rst, Returning
<1>11. CASE RetCntReady(c)
  <2>1. Len(KK) = 1 /\ KK[1] \in Funcs
    BY <1>7, <1>11 DEF RetCntReady
  <2> QED
    BY <1>2, <1>3, <1>11, <2>1 DEF InstalledIntact, RetCntReady, rst
<1>12. CASE ClientReady(c) \/ ResetReady(c)
  BY <1>2, <1>3, <1>12
  DEF InstalledIntact, ClientReady, ResetReady, rst, Returning, Internal
<1> QED
  BY <1>1, <1>8, <1>9, <1>10, <1>11, <1>12 DEF Ready

\* Whatever capsule is installed, whoever reruns it finds a function at the
\* place the capsule will jump through.
THEOREM AlwaysIntact ==
  ASSUME OwnIdentity
  PROVE  Spec => []InstalledIntact
<1>1. IInv => InstalledIntact
  BY IInvIntact
<1> QED
  BY <1>1, Invariance, PTL
=============================================================================
