---------------------------- MODULE MemTableProofs ----------------------------
(***************************************************************************)
(* Theorems about MemTable, for any number of processes, sizes of blocks   *)
(* and faults.                                                             *)
(*                                                                         *)
(* Capsules give arguments to one another through the untyped stack, and a *)
(* failed grab loses a word of it.  So that the invariant first says, for  *)
(* each capsule, what the words of its stack are (StackFits), down to the  *)
(* zeros under it; what it says of the table rests on that.                *)
(***************************************************************************)
EXTENDS MemTable, FiniteSetTheorems, SequenceTheorems, TLAPS

-----------------------------------------------------------------------------
\* The words of a stack

Positive == Nat \ {0}

\* Return address of f under n words, as Pret finds it.
Above(t, n, f) == Word(t, n + 1) = High /\ Word(t, n + 2) = Pointer(f)[1]

\* Nothing lies under n words.
Bottom(t, n) == \A i \in Positive : Word(t, n + i) = 0

\* Under n words of t lies what lies under m words of u.
Same(t, n, u, m) == \A i \in Positive : Word(u, m + i) = Word(t, n + i)

\* Under n words lie args, the last one on top.
Pushed(t, n, args) ==
  \A i \in 1 .. Len(args) : Word(t, n + i) = args[Len(args) + 1 - i]

\* A thread whose capsule is f.
At(u, f) == u \in [capsule : {f}, stack : Seq(Int)]

\* What an allocation of s keeps on its stack: the size and, under it, where
\* the block is returned to.
FrameWord(s, i) ==
  IF i = 1 THEN s
  ELSE IF i = 2 THEN High
  ELSE IF i = 3 THEN Pointer("gotBlock")[1] ELSE 0

\* Under n words lie those of an allocation, without its top m or more: a
\* failed grab loses one.
Frame(t, n, m) ==
  \E s \in Sizes, k \in Nat :
    k >= m /\ \A i \in Positive : Word(t, n + i) = FrameWord(s, k + i)

\* A search for an unused entry has the leftover size on its stack, and under
\* it the upper half of the pointer to makeLeftovers.
Split(t, n) == Word(t, n + 2) = High

-----------------------------------------------------------------------------
\* The inductive invariant

\* makeLeftovers, and what runs after it, is missing.
Reached == {"client", "gotBlock", "PMalloc", "allocatingLoop",
            "allocatingPostGrab", "merge", "mLoop", "retPMem", "findFreeEntry",
            "ffeLoop", "ffePostGrab", "tryGrab", "release", "PMfree",
            "freeLoop", "freePostLoop", "lost"}

Thread == [capsule : Reached, stack : Seq(Int)]

\* tryGrab and release: the index, and which capsule is next.
GrabFits(t) ==
  \/ /\ Word(t, 1) = 0 /\ Above(t, 1, "allocatingPostGrab")
     /\ Word(t, 4) = 0 /\ Frame(t, 4, 0)
  \/ /\ Word(t, 1) = 0 /\ Above(t, 1, "freePostLoop")
     /\ Word(t, 4) = 0 /\ Above(t, 4, "client") /\ Bottom(t, 6)
  \/ /\ Word(t, 1) \in Positive /\ Above(t, 1, "ffePostGrab")
     /\ Word(t, 4) = Word(t, 1) /\ Split(t, 4)

ReleaseFits(t) ==
  /\ Word(t, 1) = 0
  /\ \/ Above(t, 1, "allocatingLoop") /\ Word(t, 4) = 0 /\ Frame(t, 4, 0)
     \/ Above(t, 1, "retPMem") /\ Word(t, 4) = 0 /\ Frame(t, 4, 1)
     \/ Above(t, 1, "client") /\ Bottom(t, 3)

StackFits(t) ==
  /\ t.capsule = "client" => Bottom(t, 0)
  /\ t.capsule = "gotBlock" => Bottom(t, 2)
  /\ t.capsule \in {"PMalloc", "merge"} => Frame(t, 0, 0)
  /\ t.capsule = "mLoop" => Frame(t, 1, 0)
  /\ t.capsule = "allocatingLoop" => Word(t, 1) \in Nat /\ Frame(t, 1, 0)
  /\ t.capsule = "allocatingPostGrab" => Word(t, 2) = 0 /\ Frame(t, 2, 0)
  /\ t.capsule = "retPMem" => Frame(t, 1, 1)
  /\ t.capsule = "findFreeEntry" => Split(t, 0)
  /\ t.capsule = "ffeLoop" => Word(t, 1) \in Nat /\ Split(t, 1)
  /\ t.capsule = "ffePostGrab" => Word(t, 2) \in Positive /\ Split(t, 2)
  /\ t.capsule = "tryGrab" => GrabFits(t)
  /\ t.capsule = "release" => ReleaseFits(t)
  /\ t.capsule = "PMfree" => Above(t, 2, "client") /\ Bottom(t, 4)
  /\ t.capsule = "freeLoop" =>
       Word(t, 1) = 0 /\ Above(t, 3, "client") /\ Bottom(t, 5)
  /\ t.capsule = "freePostLoop" =>
       Word(t, 2) = 0 /\ Above(t, 2, "client") /\ Bottom(t, 4)

\* How far capsule f may have got, t its thread.
Within(t, where) ==
  /\ where \in {"cam", "check"} => t.capsule = "tryGrab"
  /\ where \in {"write", "return"} => t.capsule = "release"
  /\ where = "inUse" => t.capsule = "allocatingLoop" /\ Word(t, 1) = 0
  /\ where = "used" => /\ t.capsule = "allocatingPostGrab"
                       /\ Word(t, 1) = Yes /\ Pool >= Word(t, 3)
  /\ where = "freed" => t.capsule = "freePostLoop"

Own(p) == [owner |-> p, grabbed |-> TRUE]
Fresh  == [owner |-> 0, grabbed |-> FALSE]

Others == Entries \ {0}

\* p looks at entry i for one that is not in the list.
Searches(t, i) ==
  \/ t.capsule = "ffeLoop" /\ Word(t, 1) = i
  \/ t.capsule = "tryGrab" /\ Above(t, 1, "ffePostGrab") /\ Word(t, 1) = i
  \/ t.capsule = "ffePostGrab" /\ Word(t, 2) = i

\* The entries that p has passed belong to others; so that it finds one.
SearchBound ==
  \A p \in Procs, i \in Nat :
    Searches(thread[p], i) =>
      /\ i \in Entries
      /\ \A j \in 1 .. i - 1 : tag[j].grabbed /\ tag[j].owner # p

\* No two entries off the list have one owner, and none is given up.
OneEach ==
  /\ \A i \in Others : ~tag[i].grabbed => tag[i] = Fresh
  /\ \A i, j \in Others :
       i # j /\ tag[i].grabbed /\ tag[j].grabbed => tag[i].owner # tag[j].owner

\* Who has an entry off the list is trying for it, or lost.
OthersHeld ==
  \A p \in Procs, i \in Others :
    tag[i] = Own(p) =>
      \/ Capsule(p) = "lost"
      \/ Capsule(p) = "tryGrab" /\ Searches(thread[p], i)
      \/ Capsule(p) = "ffePostGrab" /\ Searches(thread[p], i) /\ Arg(p, 1) = Yes

\* An entry off the list that p failed to grab is grabbed.
SearchCopies ==
  \A p \in Procs, i \in Others :
    Searches(thread[p], i) =>
      /\ at[p] = "cam" => \/ old[p].grabbed /\ tag[i].grabbed
                          \/ old[p] = Fresh
      /\ at[p] = "check" => tag[i].grabbed
      /\ Capsule(p) = "ffePostGrab" /\ Arg(p, 1) # Yes =>
           tag[i].grabbed /\ tag[i].owner # p

\* Who has the entry of the list: up to the release, or lost.
ListHeld ==
  \A p \in Procs :
    tag[0] = Own(p) =>
      \/ Capsule(p) \in {"tryGrab", "freePostLoop", "findFreeEntry", "ffeLoop",
                         "ffePostGrab", "lost"}
      \/ Capsule(p) = "release" /\ at[p] # "return"
      \/ Capsule(p) = "allocatingPostGrab" /\ Arg(p, 1) = Yes

\* t has the block, or is about to get it or to free it, or has lost it.
HasBlock(t, where) ==
  \/ t.capsule \in {"retPMem", "gotBlock", "findFreeEntry", "ffeLoop",
                    "ffePostGrab", "lost", "PMfree", "freeLoop"}
  \/ t.capsule = "allocatingPostGrab" /\ Word(t, 1) = Yes /\ Pool >= Word(t, 3)
  \/ t.capsule = "release" /\ Above(t, 1, "retPMem")
  \/ t.capsule = "tryGrab" /\ \/ Above(t, 1, "freePostLoop")
                              \/ Above(t, 1, "ffePostGrab")
  \/ t.capsule = "freePostLoop" /\ where = "start"

InUseHeld ==
  /\ \A i \in Others : ~inUse[i]
  /\ inUse[0] => \E q \in Procs : q \in holds \/ HasBlock(thread[q], at[q])

MemTypes ==
  /\ tag \in [Entries -> Tags]
  /\ inUse \in [Entries -> BOOLEAN]
  /\ thread \in [Procs -> Thread]
  /\ at \in [Procs -> {"start", "cam", "check", "write", "return", "inUse",
                       "used", "freed"}]
  /\ old \in [Procs -> Tags]
  /\ holds \subseteq Procs
  /\ faults \in 0 .. MaxFaults

ThreadsFit == \A p \in Procs : StackFits(thread[p]) /\ Within(thread[p], at[p])

MInv ==
  /\ MemTypes /\ ThreadsFit
  /\ SearchBound /\ OneEach /\ OthersHeld /\ SearchCopies
  /\ ListHeld /\ InUseHeld

-----------------------------------------------------------------------------
\* What the ways to leave a capsule do to the words of the stack

LEMMA PointerOf ==
  ASSUME NEW f \in Functions
  PROVE  /\ Pointer(f) \in Seq(Int) /\ Len(Pointer(f)) = 2
         /\ Pointer(f)[1] \in Int /\ Pointer(f)[2] = High
         /\ Pointer(f)[1] - Base \in DOMAIN Code
         /\ Code[Pointer(f)[1] - Base] = f
<1> DEFINE n == CHOOSE i \in DOMAIN Code : Code[i] = f
<1>1. n \in DOMAIN Code /\ Code[n] = f
  BY DEF Functions
<1>2. n \in Int /\ High \in Int
  BY <1>1, CodeAssumption
<1>3. Pointer(f) = <<Base + n, High>>
  BY DEF Pointer
<1>4. Base + n \in Int /\ (Base + n) - Base = n
  BY <1>2 DEF Base
<1> HIDE DEF n
<1> QED
  BY <1>1, <1>2, <1>3, <1>4

LEMMA DifferentPointers ==
  ASSUME NEW f \in Functions, NEW g \in Functions, f # g
  PROVE  Pointer(f)[1] # Pointer(g)[1]
BY PointerOf

\* Neither 0 nor the upper half of a pointer is a lower half.
LEMMA NoLowerHalf == 0 - Base \notin DOMAIN Code /\ High - Base \notin DOMAIN Code
BY CodeAssumption DEF Base

LEMMA WordType ==
  ASSUME NEW t, t.stack \in Seq(Int), NEW i \in Positive
  PROVE  Word(t, i) \in Int
BY DEF Word, Positive

LEMMA UnderWords ==
  ASSUME NEW t, t.stack \in Seq(Int), NEW n \in Nat
  PROVE  /\ Under(t, n) \in Seq(Int)
         /\ \A u : u.stack = Under(t, n) =>
              \A i \in Positive : Word(u, i) = Word(t, n + i)
<1> DEFINE s == t.stack
<1>1. Len(s) \in Nat /\ \A i \in 1 .. Len(s) - n : s[i] \in Int
  BY LenProperties
<1>2. /\ SubSeq(s, 1, Len(s) - n) \in Seq(Int)
      /\ Len(SubSeq(s, 1, Len(s) - n)) = IF 1 <= Len(s) - n THEN Len(s) - n ELSE 0
      /\ \A i \in 1 .. Len(s) - n : SubSeq(s, 1, Len(s) - n)[i] = s[i]
  <2> HIDE DEF s
  <2>1. Len(s) - n \in Int
    BY <1>1
  <2>2. /\ SubSeq(s, 1, Len(s) - n) \in Seq(Int)
        /\ Len(SubSeq(s, 1, Len(s) - n)) =
              IF 1 <= Len(s) - n THEN Len(s) - n - 1 + 1 ELSE 0
        /\ \A i \in 1 .. Len(s) - n - 1 + 1 :
             SubSeq(s, 1, Len(s) - n)[i] = s[1 + i - 1]
    BY <1>1, <2>1, SubSeqProperties
  <2> QED
    BY <1>1, <2>2
<1>3. ASSUME NEW u, u.stack = Under(t, n), NEW i \in Positive
      PROVE  Word(u, i) = Word(t, n + i)
  BY <1>1, <1>2, <1>3 DEF Word, Under, Positive
<1> QED
  BY <1>2, <1>3 DEF Under

LEMMA PushedWords ==
  ASSUME NEW t, t.stack \in Seq(Int), NEW args \in Seq(Int),
         NEW u, u.stack = t.stack \o args
  PROVE  /\ u.stack \in Seq(Int)
         /\ \A i \in 1 .. Len(args) : Word(u, i) = args[Len(args) + 1 - i]
         /\ \A i \in Positive : Word(u, Len(args) + i) = Word(t, i)
<1>1. /\ u.stack \in Seq(Int) /\ Len(u.stack) = Len(t.stack) + Len(args)
      /\ \A i \in 1 .. Len(t.stack) + Len(args) :
           u.stack[i] = IF i <= Len(t.stack) THEN t.stack[i]
                                             ELSE args[i - Len(t.stack)]
  BY ConcatProperties
<1>2. Len(t.stack) \in Nat /\ Len(args) \in Nat
  BY LenProperties
<1>3. ASSUME NEW i \in 1 .. Len(args)
      PROVE  Word(u, i) = args[Len(args) + 1 - i]
  BY <1>1, <1>2 DEF Word
<1>4. ASSUME NEW i \in Positive
      PROVE  Word(u, Len(args) + i) = Word(t, i)
  BY <1>1, <1>2 DEF Word, Positive
<1> QED
  BY <1>1, <1>3, <1>4

\* n words are popped and args pushed.
LEMMA ReplacedWords ==
  ASSUME NEW t, t.stack \in Seq(Int), NEW n \in Nat, NEW args \in Seq(Int),
         NEW u, u.stack = Under(t, n) \o args
  PROVE  /\ u.stack \in Seq(Int)
         /\ \A i \in 1 .. Len(args) : Word(u, i) = args[Len(args) + 1 - i]
         /\ Same(t, n, u, Len(args))
<1> DEFINE v == [stack |-> Under(t, n)]
<1>1. v.stack \in Seq(Int) /\ \A i \in Positive : Word(v, i) = Word(t, n + i)
  BY UnderWords
<1>2. u.stack = v.stack \o args
  OBVIOUS
<1> HIDE DEF v
<1>3. /\ u.stack \in Seq(Int)
      /\ \A i \in 1 .. Len(args) : Word(u, i) = args[Len(args) + 1 - i]
      /\ \A i \in Positive : Word(u, Len(args) + i) = Word(v, i)
  BY <1>1, <1>2, PushedWords
<1> QED
  BY <1>1, <1>3 DEF Same

LEMMA Continued ==
  ASSUME NEW t, t.stack \in Seq(Int), NEW n \in Nat, NEW f
  PROVE  LET u == Pcnt(t, n, <<>>, f)
         IN  /\ At(u, f) /\ Same(t, n, u, 0)
<1> DEFINE u == Pcnt(t, n, <<>>, f)
<1>1. u.stack = Under(t, n) \o <<>> /\ u = [capsule |-> f, stack |-> u.stack]
  BY DEF Pcnt
<1> HIDE DEF u
<1>2. <<>> \in Seq(Int) /\ Len(<<>>) = 0
  OBVIOUS
<1>3. u.stack \in Seq(Int) /\ Same(t, n, u, 0)
  BY <1>1, <1>2, ReplacedWords
<1>4. At(u, f)
  BY <1>1, <1>3 DEF At
<1> QED
  BY <1>3, <1>4 DEF u

LEMMA ContinuedWith ==
  ASSUME NEW t, t.stack \in Seq(Int), NEW n \in Nat, NEW f, NEW x \in Int
  PROVE  LET u == Pcnt(t, n, <<x>>, f)
         IN  /\ At(u, f) /\ Word(u, 1) = x /\ Same(t, n, u, 1)
<1> DEFINE u == Pcnt(t, n, <<x>>, f)
<1>1. /\ u.stack = Under(t, n) \o <<x>>
      /\ u = [capsule |-> f, stack |-> Under(t, n) \o <<x>>]
  BY DEF Pcnt
<1> HIDE DEF u
<1>2. <<x>> \in Seq(Int) /\ Len(<<x>>) = 1 /\ <<x>>[1] = x
  OBVIOUS
<1>3. /\ u.stack \in Seq(Int)
      /\ \A i \in 1 .. Len(<<x>>) : Word(u, i) = <<x>>[Len(<<x>>) + 1 - i]
      /\ Same(t, n, u, Len(<<x>>))
  BY <1>1, <1>2, ReplacedWords
<1>4. Word(u, 1) = x /\ Same(t, n, u, 1)
  BY <1>2, <1>3
<1>5. At(u, f)
  BY <1>1, <1>3 DEF At
<1> QED
  BY <1>4, <1>5 DEF u

\* A call: args lie under the return address of f, calleeArgs on top.
LEMMA CalledWords ==
  ASSUME NEW t, t.stack \in Seq(Int), NEW n \in Nat,
         NEW args \in Seq(Int), NEW f \in Functions, NEW calleeArgs \in Seq(Int),
         NEW g
  PROVE  LET u == Pcall(t, n, args, f, calleeArgs, g)
             c == Len(calleeArgs)
         IN  /\ At(u, g)
             /\ Pushed(u, 0, calleeArgs)
             /\ Above(u, c, f)
             /\ Pushed(u, c + 2, args)
             /\ Same(t, n, u, c + 2 + Len(args))
<1> DEFINE u == Pcall(t, n, args, f, calleeArgs, g)
           v == [stack |-> Under(t, n) \o args]
           w == [stack |-> v.stack \o Pointer(f)]
           c == Len(calleeArgs)
           a == Len(args)
<1>0. u = [capsule |-> g, stack |-> w.stack \o calleeArgs]
  BY DEF Pcall
<1>1. u.stack = w.stack \o calleeArgs
  BY <1>0
<1>2. /\ v.stack \in Seq(Int)
      /\ \A i \in 1 .. a : Word(v, i) = args[a + 1 - i]
      /\ Same(t, n, v, a)
  <2>1. v.stack = Under(t, n) \o args
    OBVIOUS
  <2> HIDE DEF v
  <2> QED
    BY <2>1, ReplacedWords
<1>3. w.stack = v.stack \o Pointer(f)
  OBVIOUS
<1> HIDE DEF u, v, w
<1>4. a \in Nat /\ c \in Nat
  BY LenProperties
<1>5. /\ w.stack \in Seq(Int)
      /\ \A i \in 1 .. 2 : Word(w, i) = Pointer(f)[2 + 1 - i]
      /\ \A i \in Positive : Word(w, 2 + i) = Word(v, i)
  <2> DEFINE pointer == Pointer(f)
  <2>1. pointer \in Seq(Int) /\ Len(pointer) = 2
    BY PointerOf
  <2> HIDE DEF pointer
  <2>2. /\ w.stack \in Seq(Int)
        /\ \A i \in 1 .. Len(pointer) : Word(w, i) = pointer[Len(pointer) + 1 - i]
        /\ \A i \in Positive : Word(w, Len(pointer) + i) = Word(v, i)
    BY <1>2, <1>3, <2>1, PushedWords DEF pointer
  <2> QED
    BY <2>1, <2>2 DEF pointer
<1>6. /\ u.stack \in Seq(Int)
      /\ \A i \in 1 .. c : Word(u, i) = calleeArgs[c + 1 - i]
      /\ \A i \in Positive : Word(u, c + i) = Word(w, i)
  BY <1>1, <1>5, PushedWords
<1>7. Above(u, c, f)
  <2>1. Word(u, c + 1) = Word(w, 1) /\ Word(u, c + 2) = Word(w, 2)
    BY <1>6 DEF Positive
  <2>2. Word(w, 1) = Pointer(f)[2] /\ Word(w, 2) = Pointer(f)[1]
    BY <1>5
  <2> QED
    BY <2>1, <2>2, PointerOf DEF Above
<1>8. ASSUME NEW i \in Positive
      PROVE  Word(u, c + 2 + i) = Word(v, i)
  <2>1. 2 + i \in Positive /\ c + (2 + i) = c + 2 + i
    BY <1>4 DEF Positive
  <2> QED
    BY <1>5, <1>6, <2>1
<1>9. \A i \in 1 .. a : Word(u, c + 2 + i) = args[a + 1 - i]
  <2> SUFFICES ASSUME NEW i \in 1 .. a
               PROVE  Word(u, c + 2 + i) = args[a + 1 - i]
    OBVIOUS
  <2>1. i \in Positive
    BY <1>4 DEF Positive
  <2> QED
    BY <1>2, <1>8, <2>1
<1>10. Same(t, n, u, c + 2 + a)
  <2>1. ASSUME NEW i \in Positive
        PROVE  Word(u, (c + 2 + a) + i) = Word(t, n + i)
    <3>1. a + i \in Positive /\ c + 2 + (a + i) = (c + 2 + a) + i
      BY <1>4 DEF Positive
    <3> QED
      BY <1>2, <1>8, <3>1 DEF Same
  <2> QED
    BY <2>1 DEF Same
<1>11. Pushed(u, 0, calleeArgs) /\ Pushed(u, c + 2, args)
  BY <1>6, <1>9 DEF Pushed
<1>12. At(u, g)
  BY <1>0, <1>6 DEF At
<1> QED
  BY <1>7, <1>10, <1>11, <1>12 DEF u

LEMMA CalledOne ==
  ASSUME NEW t, t.stack \in Seq(Int), NEW n \in Nat, NEW x \in Int, NEW y \in Int,
         NEW f \in Functions, NEW g
  PROVE  LET u == Pcall(t, n, <<x>>, f, <<y>>, g)
         IN  /\ At(u, g)
             /\ Word(u, 1) = y /\ Above(u, 1, f) /\ Word(u, 4) = x
             /\ Same(t, n, u, 4)
<1> DEFINE args == <<x>>
           calleeArgs == <<y>>
           u == Pcall(t, n, args, f, calleeArgs, g)
<1>1. /\ args \in Seq(Int) /\ Len(args) = 1 /\ args[1] = x
      /\ calleeArgs \in Seq(Int) /\ Len(calleeArgs) = 1 /\ calleeArgs[1] = y
  OBVIOUS
<1> HIDE DEF args, calleeArgs
<1>2. /\ At(u, g)
      /\ Pushed(u, 0, calleeArgs)
      /\ Above(u, Len(calleeArgs), f)
      /\ Pushed(u, Len(calleeArgs) + 2, args)
      /\ Same(t, n, u, Len(calleeArgs) + 2 + Len(args))
  BY <1>1, CalledWords
<1> HIDE DEF u
<1>3. Word(u, 1) = y /\ Above(u, 1, f) /\ Word(u, 4) = x /\ Same(t, n, u, 4)
  BY <1>1, <1>2 DEF Pushed
<1> QED
  BY <1>2, <1>3 DEF u, args, calleeArgs

LEMMA CalledTwo ==
  ASSUME NEW t, t.stack \in Seq(Int), NEW n \in Nat,
         NEW x \in Int, NEW y \in Int, NEW z \in Int, NEW f \in Functions, NEW g
  PROVE  LET u == Pcall(t, n, <<x, y>>, f, <<z>>, g)
         IN  /\ At(u, g)
             /\ Word(u, 1) = z /\ Above(u, 1, f) /\ Word(u, 4) = y
             /\ Word(u, 5) = x /\ Same(t, n, u, 5)
<1> DEFINE args == <<x, y>>
           calleeArgs == <<z>>
           u == Pcall(t, n, args, f, calleeArgs, g)
<1>1. /\ args \in Seq(Int) /\ Len(args) = 2 /\ args[1] = x /\ args[2] = y
      /\ calleeArgs \in Seq(Int) /\ Len(calleeArgs) = 1 /\ calleeArgs[1] = z
  OBVIOUS
<1> HIDE DEF args, calleeArgs
<1>2. /\ At(u, g)
      /\ Pushed(u, 0, calleeArgs)
      /\ Above(u, Len(calleeArgs), f)
      /\ Pushed(u, Len(calleeArgs) + 2, args)
      /\ Same(t, n, u, Len(calleeArgs) + 2 + Len(args))
  BY <1>1, CalledWords
<1> HIDE DEF u
<1>3. /\ Word(u, 1) = z /\ Above(u, 1, f) /\ Word(u, 4) = y /\ Word(u, 5) = x
      /\ Same(t, n, u, 5)
  BY <1>1, <1>2 DEF Pushed
<1> QED
  BY <1>2, <1>3 DEF u, args, calleeArgs

\* Calls that push no arguments of their own.
LEMMA CalledNone ==
  ASSUME NEW t, t.stack \in Seq(Int), NEW n \in Nat,
         NEW f \in Functions, NEW calleeArgs \in Seq(Int), NEW g
  PROVE  LET u == Pcall(t, n, <<>>, f, calleeArgs, g)
             c == Len(calleeArgs)
         IN  /\ At(u, g)
             /\ Pushed(u, 0, calleeArgs)
             /\ Above(u, c, f)
             /\ Same(t, n, u, c + 2)
<1> DEFINE u == Pcall(t, n, <<>>, f, calleeArgs, g)
           c == Len(calleeArgs)
<1>1. <<>> \in Seq(Int) /\ Len(<<>>) = 0 /\ c \in Nat
  BY LenProperties
<1>2. /\ At(u, g)
      /\ Pushed(u, 0, calleeArgs)
      /\ Above(u, c, f)
      /\ Same(t, n, u, c + 2 + Len(<<>>))
  BY <1>1, CalledWords
<1>3. c + 2 + Len(<<>>) = c + 2
  BY <1>1
<1> QED
  BY <1>2, <1>3

LEMMA Returned ==
  ASSUME NEW t, t.stack \in Seq(Int), NEW n \in Nat, NEW f \in Functions,
         Above(t, n, f), NEW value \in Seq(Int)
  PROVE  LET u == Pret(t, n, value)
             v == Len(value)
         IN  /\ At(u, f)
             /\ Pushed(u, 0, value)
             /\ Same(t, n + 2, u, v)
<1> DEFINE u == Pret(t, n, value)
           v == Len(value)
           left == [stack |-> Under(t, n)]
           w == [stack |-> Under(left, 2)]
<1>1. left.stack \in Seq(Int) /\ \A i \in Positive : Word(left, i) = Word(t, n + i)
  BY UnderWords
<1>2. Word(left, 1) = High /\ Word(left, 2) = Pointer(f)[1]
  BY <1>1 DEF Above, Positive
<1>0. u = [capsule |-> f, stack |-> w.stack \o value]
  <2>1. u = [capsule |-> Code[Pointer(f)[1] - Base],
             stack   |-> Under(left, 2) \o value]
    <3>1. Word(left, 2) - Base \in DOMAIN Code
      BY <1>2, PointerOf
    <3> QED
      BY <1>2, <3>1 DEF Pret
  <2>2. Code[Pointer(f)[1] - Base] = f
    BY PointerOf
  <2> QED
    BY <2>1, <2>2
<1>3. u.stack = w.stack \o value
  BY <1>0
<1>4. w.stack \in Seq(Int) /\ \A i \in Positive : Word(w, i) = Word(left, 2 + i)
  <2>1. left.stack \in Seq(Int) /\ w.stack = Under(left, 2)
    BY <1>1
  <2> HIDE DEF left, w
  <2> QED
    BY <2>1, UnderWords
<1> HIDE DEF u, left, w
<1>5. /\ u.stack \in Seq(Int)
      /\ \A i \in 1 .. v : Word(u, i) = value[v + 1 - i]
      /\ \A i \in Positive : Word(u, v + i) = Word(w, i)
  BY <1>3, <1>4, PushedWords
<1>6. ASSUME NEW i \in Positive
      PROVE  Word(u, v + i) = Word(t, n + 2 + i)
  <2>1. 2 + i \in Positive /\ n + (2 + i) = n + 2 + i
    BY DEF Positive
  <2> QED
    BY <1>1, <1>4, <1>5, <2>1
<1>7. Same(t, n + 2, u, v)
  BY <1>6 DEF Same
<1>8. Pushed(u, 0, value)
  BY <1>5 DEF Pushed
<1>9. At(u, f)
  BY <1>0, <1>5 DEF At
<1> QED
  BY <1>7, <1>8, <1>9 DEF u

\* What lies where the lower half should be is none.
LEMMA ReturnedNowhere ==
  ASSUME NEW t, t.stack \in Seq(Int), NEW n \in Nat,
         Word(t, n + 2) - Base \notin DOMAIN Code, NEW value
  PROVE  Pret(t, n, value) = Lost
<1> DEFINE left == [stack |-> Under(t, n)]
<1>1. \A i \in Positive : Word(left, i) = Word(t, n + i)
  BY UnderWords
<1>2. Word(left, 2) = Word(t, n + 2)
  BY <1>1 DEF Positive
<1> QED
  BY <1>2 DEF Pret

-----------------------------------------------------------------------------
\* What lies under the arguments is carried along

LEMMA SameBottom ==
  ASSUME NEW t, NEW n, NEW u, NEW m, Same(t, n, u, m), Bottom(t, n)
  PROVE  Bottom(u, m)
BY DEF Same, Bottom

LEMMA SameAbove ==
  ASSUME NEW t, NEW n, NEW u, NEW m, Same(t, n, u, m), NEW f, Above(t, n, f)
  PROVE  Above(u, m, f)
BY DEF Same, Above, Positive

LEMMA SameSplit ==
  ASSUME NEW t, NEW n, NEW u, NEW m, Same(t, n, u, m), Split(t, n)
  PROVE  Split(u, m)
BY DEF Same, Split, Positive

LEMMA SameFrame ==
  ASSUME NEW t, NEW n, NEW u, NEW m, Same(t, n, u, m), NEW l, Frame(t, n, l)
  PROVE  Frame(u, m, l)
BY DEF Same, Frame

LEMMA SamePop ==
  ASSUME NEW t, NEW n \in Nat, NEW u, NEW m \in Nat, Same(t, n, u, m), NEW d \in Nat
  PROVE  Same(t, n + d, u, m + d)
<1>1. ASSUME NEW i \in Positive
      PROVE  Word(u, m + d + i) = Word(t, n + d + i)
  <2>1. d + i \in Positive /\ m + (d + i) = m + d + i /\ n + (d + i) = n + d + i
    BY DEF Positive
  <2> QED
    BY <2>1 DEF Same
<1> QED
  BY <1>1 DEF Same

\* The word on top of an allocation's is put back.
LEMMA SamePush ==
  ASSUME NEW t, NEW n \in Nat, NEW u, NEW m \in Nat, Same(t, n + 1, u, m + 1),
         Word(u, m + 1) = Word(t, n + 1)
  PROVE  Same(t, n, u, m)
<1>1. ASSUME NEW i \in Positive, i # 1
      PROVE  Word(u, m + i) = Word(t, n + i)
  <2>1. i - 1 \in Positive /\ m + 1 + (i - 1) = m + i /\ n + 1 + (i - 1) = n + i
    BY <1>1 DEF Positive
  <2> QED
    BY <2>1 DEF Same
<1> QED
  BY <1>1 DEF Same, Positive

LEMMA BottomPop ==
  ASSUME NEW t, NEW n \in Nat, NEW m \in Nat, m >= n, Bottom(t, n)
  PROVE  Bottom(t, m)
<1>1. ASSUME NEW i \in Positive
      PROVE  Word(t, m + i) = 0
  <2>1. (m - n) + i \in Positive /\ n + ((m - n) + i) = m + i
    BY <1>1 DEF Positive
  <2> QED
    BY <2>1 DEF Bottom
<1> QED
  BY <1>1 DEF Bottom

LEMMA FrameStart ==
  ASSUME NEW t, Word(t, 1) \in Sizes, Above(t, 1, "gotBlock"), Bottom(t, 3)
  PROVE  Frame(t, 0, 0)
<1> DEFINE s == Word(t, 1)
<1>1. ASSUME NEW i \in Positive
      PROVE  Word(t, 0 + i) = FrameWord(s, 0 + i)
  <2>1. CASE i > 3
    <3>1. i - 3 \in Positive /\ 3 + (i - 3) = i
      BY <2>1 DEF Positive
    <3>2. Word(t, i) = 0
      BY <3>1 DEF Bottom
    <3> QED
      BY <2>1, <3>2 DEF FrameWord, Positive
  <2>2. CASE i \in {1, 2, 3}
    BY <2>2 DEF FrameWord, Above
  <2> QED
    BY <2>1, <2>2 DEF Positive
<1> QED
  BY <1>1 DEF Frame

LEMMA FrameWeaken ==
  ASSUME NEW t, NEW n, NEW m \in Nat, Frame(t, n, m)
  PROVE  Frame(t, n, 0)
BY DEF Frame

\* One word less.
LEMMA FramePop ==
  ASSUME NEW t, NEW n \in Nat, NEW m \in Nat, Frame(t, n, m)
  PROVE  Frame(t, n + 1, m + 1)
<1> PICK s \in Sizes, k \in Nat :
      k >= m /\ \A i \in Positive : Word(t, n + i) = FrameWord(s, k + i)
  BY DEF Frame
<1>1. ASSUME NEW i \in Positive
      PROVE  Word(t, n + 1 + i) = FrameWord(s, (k + 1) + i)
  <2>1. 1 + i \in Positive /\ n + (1 + i) = n + 1 + i /\ k + (1 + i) = (k + 1) + i
    BY DEF Positive
  <2> QED
    BY <2>1
<1>2. k + 1 \in Nat /\ k + 1 >= m + 1
  OBVIOUS
<1> QED
  BY <1>1, <1>2 DEF Frame

\* An allocation returns to gotBlock, or, if it has lost a word, nowhere.
LEMMA FrameReturn ==
  ASSUME NEW t, NEW n \in Nat, Frame(t, n, 1)
  PROVE  \/ Above(t, n, "gotBlock") /\ Bottom(t, n + 2)
         \/ Word(t, n + 2) - Base \notin DOMAIN Code
<1> PICK s \in Sizes, k \in Nat :
      k >= 1 /\ \A i \in Positive : Word(t, n + i) = FrameWord(s, k + i)
  BY DEF Frame
<1>1. /\ Word(t, n + 1) = FrameWord(s, k + 1)
      /\ Word(t, n + 2) = FrameWord(s, k + 2)
  BY DEF Positive
<1>2. CASE k = 1
  <2>1. Above(t, n, "gotBlock")
    BY <1>1, <1>2 DEF Above, FrameWord
  <2>2. ASSUME NEW i \in Positive
        PROVE  Word(t, n + 2 + i) = 0
    <3>1. 2 + i \in Positive /\ n + (2 + i) = n + 2 + i /\ k + (2 + i) > 3
      BY <1>2 DEF Positive
    <3>2. Word(t, n + 2 + i) = FrameWord(s, k + (2 + i))
      BY <3>1
    <3> QED
      BY <3>1, <3>2 DEF FrameWord, Positive
  <2> QED
    BY <2>1, <2>2 DEF Bottom
<1>3. CASE k # 1
  <2>1. k + 2 > 3
    BY <1>3
  <2>2. Word(t, n + 2) = 0
    BY <1>1, <2>1 DEF FrameWord
  <2> QED
    BY <2>2, NoLowerHalf
<1> QED
  BY <1>2, <1>3

\* Every name the code uses has an address.
LEMMA Names ==
  /\ "client" \in Functions /\ "gotBlock" \in Functions /\ "PMalloc" \in Functions
  /\ "allocatingLoop" \in Functions /\ "allocatingPostGrab" \in Functions
  /\ "retPMem" \in Functions /\ "makeLeftovers" \in Functions
  /\ "ffePostGrab" \in Functions /\ "freePostLoop" \in Functions
BY FunctionsAssumption

-----------------------------------------------------------------------------
\* A capsule of p returns, and one with thread u is installed

Installs(p, u) ==
  /\ thread' = [thread EXCEPT ![p] = u]
  /\ at' = [at EXCEPT ![p] = "start"]
  /\ UNCHANGED <<tag, inUse, old, faults>>

LEMMA Installed ==
  ASSUME MemTypes, ThreadsFit, NEW p \in Procs, NEW u \in Thread, StackFits(u),
         Installs(p, u), holds' \subseteq Procs
  PROVE  /\ MemTypes' /\ ThreadsFit'
         /\ thread'[p] = u /\ at'[p] = "start"
         /\ \A q \in Procs : q # p => thread'[q] = thread[q] /\ at'[q] = at[q]
<1>1. /\ thread'[p] = u /\ at'[p] = "start"
      /\ \A q \in Procs : q # p => thread'[q] = thread[q] /\ at'[q] = at[q]
  BY DEF Installs, MemTypes
<1>2. MemTypes'
  BY DEF Installs, MemTypes
<1>3. Within(u, "start")
  BY DEF Within
<1>4. ThreadsFit'
  BY <1>1, <1>3 DEF ThreadsFit
<1> QED
  BY <1>1, <1>2, <1>4

\* What the table needs of a step that leaves it alone, of a capsule that is
\* neither tryGrab nor ffePostGrab: searches go on where they were, who has the
\* entry of the list goes to a capsule that may, and a block is not dropped.
Moves(p, u) ==
  /\ Capsule(p) \notin {"tryGrab", "ffePostGrab", "lost"}
  /\ u.capsule # "ffePostGrab"
  /\ \A i \in Nat : Searches(u, i) => i \in {0, 1} \/ Searches(thread[p], i)
  /\ \/ Capsule(p) \in {"freePostLoop", "findFreeEntry", "ffeLoop"}
     \/ Capsule(p) = "release" /\ at[p] # "return"
     \/ Capsule(p) = "allocatingPostGrab" /\ Arg(p, 1) = Yes
     => u.capsule \in {"tryGrab", "freePostLoop", "findFreeEntry", "ffeLoop",
                       "release", "lost"}
  /\ p \in holds \/ HasBlock(thread[p], at[p])
     => p \in holds' \/ HasBlock(u, "start")
  /\ holds' \subseteq Procs
  /\ \A q \in Procs : q # p => (q \in holds' <=> q \in holds)

LEMMA FirstEntries == {0, 1} \subseteq Entries
<1>1. Cardinality(Procs) \in Nat /\ Cardinality(Procs) # 0
  BY TableAssumption, ProcsAssumption, FS_CardinalityType, FS_EmptySet
<1> QED
  BY <1>1, TableAssumption DEF Entries

LEMMA Moved ==
  ASSUME MInv, NEW p \in Procs, NEW u \in Thread, StackFits(u), Installs(p, u),
         Moves(p, u)
  PROVE  MInv'
<1>1. /\ MemTypes' /\ ThreadsFit'
      /\ thread'[p] = u /\ at'[p] = "start"
      /\ \A q \in Procs : q # p => thread'[q] = thread[q] /\ at'[q] = at[q]
  BY Installed DEF MInv, Moves
<1>2. UNCHANGED <<tag, inUse, old>>
  BY DEF Installs
<1>3. SearchBound'
  <2> SUFFICES ASSUME NEW q \in Procs, NEW i \in Nat, Searches(thread'[q], i)
               PROVE  /\ i \in Entries
                      /\ \A j \in 1 .. i - 1 : tag[j].grabbed /\ tag[j].owner # q
    BY <1>2 DEF SearchBound
  <2>1. CASE q # p
    BY <1>1, <2>1 DEF MInv, SearchBound
  <2>2. CASE q = p
    <3>1. i \in {0, 1} \/ Searches(thread[p], i)
      BY <1>1, <2>2 DEF Moves
    <3>2. CASE i \in {0, 1}
      BY <3>2, FirstEntries
    <3>3. CASE Searches(thread[p], i)
      BY <2>2, <3>3 DEF MInv, SearchBound
    <3> QED
      BY <3>1, <3>2, <3>3
  <2> QED
    BY <2>1, <2>2
<1>4. OneEach'
  BY <1>2 DEF MInv, OneEach
<1>5. OthersHeld'
  <2> SUFFICES ASSUME NEW q \in Procs, NEW i \in Others, tag[i] = Own(q)
               PROVE  OthersHeld!(q, i)!2'
    BY <1>2 DEF OthersHeld, Own
  <2>1. OthersHeld!(q, i)!2
    BY DEF MInv, OthersHeld
  <2>2. q # p
    BY <2>1 DEF Moves, Capsule
  <2> QED
    BY <1>1, <2>1, <2>2 DEF Capsule, Arg
<1>6. SearchCopies'
  <2> SUFFICES ASSUME NEW q \in Procs, NEW i \in Others, Searches(thread'[q], i)
               PROVE  SearchCopies!(q, i)!2'
    BY DEF SearchCopies
  <2>1. CASE q # p
    BY <1>1, <1>2, <2>1 DEF MInv, SearchCopies, Capsule, Arg
  <2>2. CASE q = p
    BY <1>1, <2>2 DEF Moves, Capsule
  <2> QED
    BY <2>1, <2>2
<1>7. ListHeld'
  <2> SUFFICES ASSUME NEW q \in Procs, tag[0] = Own(q)
               PROVE  ListHeld!(q)!2'
    BY <1>2 DEF ListHeld, Own
  <2>1. ListHeld!(q)!2
    BY DEF MInv, ListHeld
  <2>2. CASE q # p
    BY <1>1, <2>1, <2>2 DEF Capsule, Arg
  <2>3. CASE q = p
    BY <1>1, <2>1, <2>3 DEF Moves, Capsule
  <2> QED
    BY <2>2, <2>3
<1>8. InUseHeld'
  <2>1. ASSUME inUse[0]
        PROVE  \E q \in Procs : q \in holds' \/ HasBlock(thread'[q], at'[q])
    <3>1. PICK q \in Procs : q \in holds \/ HasBlock(thread[q], at[q])
      BY <2>1 DEF MInv, InUseHeld
    <3>2. q \in holds' \/ HasBlock(thread'[q], at'[q])
      BY <1>1, <3>1 DEF Moves
    <3> QED
      BY <3>2
  <2> QED
    BY <1>2, <2>1 DEF MInv, InUseHeld
<1> QED
  BY <1>1, <1>3, <1>4, <1>5, <1>6, <1>7, <1>8 DEF MInv

LEMMA ThreadOf ==
  ASSUME MInv, NEW p \in Procs
  PROVE  /\ thread[p].stack \in Seq(Int) /\ thread[p].capsule \in Reached
         /\ StackFits(thread[p]) /\ Within(thread[p], at[p])
         /\ \A i \in Positive : Word(thread[p], i) \in Int
         /\ holds \subseteq Procs
<1>1. thread[p] \in Thread /\ StackFits(thread[p]) /\ Within(thread[p], at[p])
      /\ holds \subseteq Procs
  BY DEF MInv, MemTypes, ThreadsFit
<1>2. thread[p].stack \in Seq(Int) /\ thread[p].capsule \in Reached
  BY <1>1 DEF Thread
<1> QED
  BY <1>1, <1>2, WordType

LEMMA GoInstalls ==
  ASSUME NEW p \in Procs, NEW u, Go(p, u), UNCHANGED table
  PROVE  Installs(p, u)
BY DEF Go, Installs, table

LEMMA InThread ==
  ASSUME NEW u, NEW f \in Reached, At(u, f)
  PROVE  u \in Thread /\ u.capsule = f
BY DEF Thread, At

-----------------------------------------------------------------------------
\* User code

LEMMA AllocateStep ==
  ASSUME MInv, NEW p \in Procs, Allocate(p)
  PROVE  MInv'
<1> DEFINE t == thread[p]
<1>1. PICK n \in Sizes :
        Plain(p, "client", Pcall(t, 0, <<>>, "gotBlock", <<n>>, "PMalloc"))
  BY DEF Allocate
<1> DEFINE u == Pcall(t, 0, <<>>, "gotBlock", <<n>>, "PMalloc")
<1>2. /\ t.stack \in Seq(Int) /\ StackFits(t) /\ t.capsule = "client"
      /\ holds \subseteq Procs /\ p \notin holds
  BY <1>1, ThreadOf DEF Plain, Runs, Capsule, Allocate
<1>3. Installs(p, u) /\ holds' = holds
  BY <1>1, GoInstalls DEF Plain
<1>4. /\ At(u, "PMalloc")
      /\ Word(u, 1) = n /\ Above(u, 1, "gotBlock") /\ Same(t, 0, u, 3)
  <2> DEFINE c == <<n>>
  <2>1. n \in Int /\ c \in Seq(Int) /\ Len(c) = 1 /\ c[1] = n
    BY SizesAssumption
  <2> HIDE DEF c
  <2> DEFINE v == Pcall(t, 0, <<>>, "gotBlock", c, "PMalloc")
  <2>2. /\ At(v, "PMalloc")
        /\ Pushed(v, 0, c)
        /\ Above(v, Len(c), "gotBlock") /\ Same(t, 0, v, Len(c) + 2)
    BY <1>2, <2>1, CalledNone, Names
  <2> HIDE DEF v
  <2>3. Word(v, 1) = n /\ Above(v, 1, "gotBlock") /\ Same(t, 0, v, 3)
    BY <2>1, <2>2 DEF Pushed
  <2> QED
    BY <2>2, <2>3 DEF v, c
<1> HIDE DEF t, u
<1>5. Bottom(u, 3)
  BY <1>2, <1>4, SameBottom DEF StackFits
<1>6. Frame(u, 0, 0)
  BY <1>4, <1>5, FrameStart
<1>7. u \in Thread /\ u.capsule = "PMalloc"
  BY <1>4, InThread DEF Reached
<1>8. StackFits(u)
  BY <1>6, <1>7 DEF StackFits
<1>9. Moves(p, u)
  BY <1>2, <1>3, <1>7 DEF Moves, Searches, HasBlock, Capsule, t
<1> QED
  BY <1>3, <1>7, <1>8, <1>9, Moved

LEMMA FreeStep ==
  ASSUME MInv, NEW p \in Procs, Free(p)
  PROVE  MInv'
<1> DEFINE t == thread[p]
           u == Pcall(t, 0, <<>>, "client", Block, "PMfree")
<1>2. /\ t.stack \in Seq(Int) /\ StackFits(t) /\ t.capsule = "client"
      /\ holds \subseteq Procs
  BY ThreadOf DEF Free, Runs, Capsule
<1>3. Installs(p, u) /\ holds' = holds \ {p}
  BY GoInstalls DEF Free
<1>4. /\ At(u, "PMfree")
      /\ Above(u, 2, "client") /\ Same(t, 0, u, 4)
  <2>1. Block \in Seq(Int) /\ Len(Block) = 2
    BY SizesAssumption DEF Block
  <2>2. /\ At(u, "PMfree")
        /\ Above(u, Len(Block), "client") /\ Same(t, 0, u, Len(Block) + 2)
    BY <1>2, <2>1, CalledNone, Names
  <2> QED
    BY <2>1, <2>2
<1> HIDE DEF t, u
<1>5. Bottom(u, 4)
  BY <1>2, <1>4, SameBottom DEF StackFits
<1>7. u \in Thread /\ u.capsule = "PMfree"
  BY <1>4, InThread DEF Reached
<1>8. StackFits(u)
  BY <1>4, <1>5, <1>7 DEF StackFits
<1>9. Moves(p, u)
  BY <1>2, <1>3, <1>7 DEF Moves, Searches, HasBlock, Capsule, t
<1> QED
  BY <1>3, <1>7, <1>8, <1>9, Moved

LEMMA GotBlockStep ==
  ASSUME MInv, NEW p \in Procs, GotBlock(p)
  PROVE  MInv'
<1> DEFINE t == thread[p]
           u == Pcnt(t, 2, <<>>, "client")
<1>2. /\ t.stack \in Seq(Int) /\ StackFits(t) /\ t.capsule = "gotBlock"
      /\ holds \subseteq Procs
  BY ThreadOf DEF GotBlock, Runs, Capsule
<1>3. Installs(p, u) /\ holds' = holds \union {p}
  BY GoInstalls DEF GotBlock
<1>4. /\ At(u, "client")
      /\ Same(t, 2, u, 0)
  BY <1>2, Continued
<1> HIDE DEF t, u
<1>7. u \in Thread /\ u.capsule = "client"
  BY <1>4, InThread DEF Reached
<1>8. StackFits(u)
  BY <1>2, <1>4, <1>7, SameBottom DEF StackFits
<1>9. Moves(p, u)
  BY <1>2, <1>3, <1>7 DEF Moves, Searches, HasBlock, Capsule, t
<1> QED
  BY <1>3, <1>7, <1>8, <1>9, Moved

-----------------------------------------------------------------------------
\* PMalloc

LEMMA OneAbove ==
  ASSUME NEW t, NEW n, NEW f \in Functions, NEW g \in Functions,
         Above(t, n, f), Above(t, n, g)
  PROVE  f = g
BY DifferentPointers DEF Above

LEMMA LostFits == Lost \in Thread /\ StackFits(Lost) /\ Lost.capsule = "lost"
BY DEF Lost, Thread, Reached, StackFits

LEMMA StartAllocStep ==
  ASSUME MInv, NEW p \in Procs, StartAlloc(p)
  PROVE  MInv'
<1> DEFINE t == thread[p]
           u == Pcnt(t, 0, <<0>>, "allocatingLoop")
<1>1. /\ t.stack \in Seq(Int) /\ StackFits(t) /\ t.capsule = "PMalloc"
      /\ holds \subseteq Procs
  BY ThreadOf DEF StartAlloc, Plain, Runs, Capsule
<1>2. Installs(p, u) /\ holds' = holds
  BY GoInstalls DEF StartAlloc, Plain
<1>3. At(u, "allocatingLoop") /\ Word(u, 1) = 0 /\ Same(t, 0, u, 1)
  BY <1>1, ContinuedWith
<1> HIDE DEF t, u
<1>4. Frame(u, 1, 0)
  BY <1>1, <1>3, SameFrame DEF StackFits
<1>5. u \in Thread /\ u.capsule = "allocatingLoop"
  BY <1>3, InThread DEF Reached
<1>6. StackFits(u)
  BY <1>3, <1>4, <1>5 DEF StackFits
<1>7. Moves(p, u)
  BY <1>1, <1>2, <1>5 DEF Moves, Searches, HasBlock, Capsule, t
<1> QED
  BY <1>2, <1>5, <1>6, <1>7, Moved

LEMMA MergeStep ==
  ASSUME MInv, NEW p \in Procs, Merge(p)
  PROVE  MInv'
<1> DEFINE t == thread[p]
<1>1. CASE Plain(p, "merge", Pcnt(t, 0, <<0>>, "mLoop"))
  <2> DEFINE u == Pcnt(t, 0, <<0>>, "mLoop")
  <2>1. /\ t.stack \in Seq(Int) /\ StackFits(t) /\ t.capsule = "merge"
        /\ holds \subseteq Procs
    BY <1>1, ThreadOf DEF Plain, Runs, Capsule
  <2>2. Installs(p, u) /\ holds' = holds
    BY <1>1, GoInstalls DEF Plain
  <2>3. At(u, "mLoop") /\ Same(t, 0, u, 1)
    BY <2>1, ContinuedWith
  <2> HIDE DEF t, u
  <2>4. u \in Thread /\ u.capsule = "mLoop"
    BY <2>3, InThread DEF Reached
  <2>5. StackFits(u)
    BY <2>1, <2>3, <2>4, SameFrame DEF StackFits
  <2>6. Moves(p, u)
    BY <2>1, <2>2, <2>4 DEF Moves, Searches, HasBlock, Capsule, t
  <2> QED
    BY <2>2, <2>4, <2>5, <2>6, Moved
<1>2. CASE Plain(p, "mLoop", Pcnt(t, 1, <<>>, "PMalloc"))
  <2> DEFINE u == Pcnt(t, 1, <<>>, "PMalloc")
  <2>1. /\ t.stack \in Seq(Int) /\ StackFits(t) /\ t.capsule = "mLoop"
        /\ holds \subseteq Procs
    BY <1>2, ThreadOf DEF Plain, Runs, Capsule
  <2>2. Installs(p, u) /\ holds' = holds
    BY <1>2, GoInstalls DEF Plain
  <2>3. At(u, "PMalloc") /\ Same(t, 1, u, 0)
    BY <2>1, Continued
  <2> HIDE DEF t, u
  <2>4. u \in Thread /\ u.capsule = "PMalloc"
    BY <2>3, InThread DEF Reached
  <2>5. StackFits(u)
    BY <2>1, <2>3, <2>4, SameFrame DEF StackFits
  <2>6. Moves(p, u)
    BY <2>1, <2>2, <2>4 DEF Moves, Searches, HasBlock, Capsule, t
  <2> QED
    BY <2>2, <2>4, <2>5, <2>6, Moved
<1> QED
  BY <1>1, <1>2 DEF Merge

\* allocatingLoop goes on to merge.
LEMMA LookPastEnd ==
  ASSUME MInv, NEW p \in Procs, Capsule(p) = "allocatingLoop",
         Installs(p, Pcnt(thread[p], 1, <<>>, "merge")), holds' = holds
  PROVE  MInv'
<1> DEFINE t == thread[p]
           u == Pcnt(t, 1, <<>>, "merge")
<1>1. /\ t.stack \in Seq(Int) /\ StackFits(t) /\ t.capsule = "allocatingLoop"
      /\ holds \subseteq Procs
  BY ThreadOf DEF Capsule
<1>2. Installs(p, u) /\ holds' = holds
  OBVIOUS
<1>3. At(u, "merge") /\ Same(t, 1, u, 0)
  BY <1>1, Continued
<1> HIDE DEF t, u
<1>4. u \in Thread /\ u.capsule = "merge"
  BY <1>3, InThread DEF Reached
<1>5. StackFits(u)
  BY <1>1, <1>3, <1>4, SameFrame DEF StackFits
<1>6. Moves(p, u)
  BY <1>1, <1>2, <1>4 DEF Moves, Searches, HasBlock, Capsule, t
<1> QED
  BY <1>2, <1>4, <1>5, <1>6, Moved

\* It goes on to the next entry.
LEMMA LookNext ==
  ASSUME MInv, NEW p \in Procs, Capsule(p) = "allocatingLoop",
         Installs(p, Pcnt(thread[p], 1, <<Next0>>, "allocatingLoop")), holds' = holds
  PROVE  MInv'
<1> DEFINE t == thread[p]
           u == Pcnt(t, 1, <<0>>, "allocatingLoop")
<1>1. /\ t.stack \in Seq(Int) /\ StackFits(t) /\ t.capsule = "allocatingLoop"
      /\ holds \subseteq Procs
  BY ThreadOf DEF Capsule
<1>2. Installs(p, u) /\ holds' = holds
  BY DEF Next0
<1>3. At(u, "allocatingLoop") /\ Word(u, 1) = 0 /\ Same(t, 1, u, 1)
  <2>1. t.stack \in Seq(Int) /\ 1 \in Nat /\ 0 \in Int
    BY <1>1
  <2> QED
    BY <2>1, ContinuedWith, Zenon
<1> HIDE DEF t, u
<1>4. u \in Thread /\ u.capsule = "allocatingLoop"
  BY <1>3, InThread DEF Reached
<1>5. StackFits(u)
  BY <1>1, <1>3, <1>4, SameFrame DEF StackFits
<1>6. Moves(p, u)
  BY <1>1, <1>2, <1>4 DEF Moves, Searches, HasBlock, Capsule, t
<1> QED
  BY <1>2, <1>4, <1>5, <1>6, Moved

LEMMA AllocLookInUseStep ==
  ASSUME MInv, NEW p \in Procs, AllocLookInUse(p)
  PROVE  MInv'
<1> DEFINE t == thread[p]
           i == Word(t, 1)
           u == Pcall(t, 1, <<i>>, "allocatingPostGrab", <<i>>, "tryGrab")
<1>1. /\ t.stack \in Seq(Int) /\ StackFits(t) /\ t.capsule = "allocatingLoop"
      /\ i = 0 /\ holds \subseteq Procs
  BY ThreadOf DEF AllocLookInUse, Runs, Capsule, Within
<1>2. CASE inUse[Arg(p, 1)]
  <2>1. Installs(p, Pcnt(t, 1, <<Next0>>, "allocatingLoop")) /\ holds' = holds
    BY <1>2, GoInstalls DEF AllocLookInUse
  <2> QED
    BY <1>1, <2>1, LookNext DEF Capsule
<1>3. CASE ~inUse[Arg(p, 1)]
  <2>1. Installs(p, u) /\ holds' = holds
    BY <1>1, <1>3, GoInstalls DEF AllocLookInUse, Arg
  <2>2. /\ At(u, "tryGrab") /\ Word(u, 1) = 0 /\ Above(u, 1, "allocatingPostGrab")
        /\ Word(u, 4) = 0 /\ Same(t, 1, u, 4)
    <3>1. i \in Int /\ t.stack \in Seq(Int)
      BY <1>1
    <3> HIDE DEF i, t
    <3>2. /\ At(u, "tryGrab") /\ Word(u, 1) = i /\ Above(u, 1, "allocatingPostGrab")
          /\ Word(u, 4) = i /\ Same(t, 1, u, 4)
      BY <3>1, CalledOne, Names
    <3> QED
      BY <1>1, <3>2
  <2> HIDE DEF t, u
  <2>3. u \in Thread /\ u.capsule = "tryGrab"
    BY <2>2, InThread DEF Reached
  <2>4. Frame(u, 4, 0)
    BY <1>1, <2>2, SameFrame DEF StackFits
  <2>5. StackFits(u)
    BY <2>2, <2>3, <2>4 DEF StackFits, GrabFits
  <2>6. ~Above(u, 1, "ffePostGrab") /\ ~Above(u, 1, "freePostLoop")
    BY <2>2, OneAbove, Names
  <2>7. Moves(p, u)
    BY <1>1, <2>1, <2>3, <2>6 DEF Moves, Searches, HasBlock, Capsule, t
  <2> QED
    BY <2>1, <2>3, <2>5, <2>7, Moved
<1> QED
  BY <1>2, <1>3

LEMMA PostGrabFailedStep ==
  ASSUME MInv, NEW p \in Procs, PostGrabFailed(p)
  PROVE  MInv'
<1> DEFINE t == thread[p]
           i == Word(t, 2) + 1
           u == Pcnt(t, 3, <<i>>, "allocatingLoop")
<1>1. /\ t.stack \in Seq(Int) /\ StackFits(t) /\ t.capsule = "allocatingPostGrab"
      /\ holds \subseteq Procs /\ Word(t, 1) # Yes
  BY ThreadOf DEF PostGrabFailed, Grabbed, Arg, Runs, Capsule
<1>2. Installs(p, u) /\ holds' = holds
  BY GoInstalls DEF PostGrabFailed, Arg
<1>3. Frame(t, 2, 0) /\ i = 1
  BY <1>1 DEF StackFits
<1>4. At(u, "allocatingLoop") /\ Word(u, 1) = i /\ Same(t, 3, u, 1)
  <2>1. i \in Int
    BY <1>3
  <2> HIDE DEF i
  <2> QED
    BY <1>1, <2>1, ContinuedWith
<1> HIDE DEF t, i, u
<1>5. Frame(t, 3, 0)
  <2>1. Frame(t, 2 + 1, 0 + 1)
    BY <1>3, FramePop
  <2> QED
    BY <2>1, FrameWeaken
<1>6. Frame(u, 1, 0)
  BY <1>4, <1>5, SameFrame
<1>7. u \in Thread /\ u.capsule = "allocatingLoop"
  BY <1>4, InThread DEF Reached
<1>8. StackFits(u)
  BY <1>3, <1>4, <1>6, <1>7 DEF StackFits
<1>9. Moves(p, u)
  BY <1>1, <1>2, <1>7 DEF Moves, Searches, HasBlock, Capsule, Arg, t
<1> QED
  BY <1>2, <1>7, <1>8, <1>9, Moved

LEMMA PostGrabTooSmallStep ==
  ASSUME MInv, NEW p \in Procs, PostGrabTooSmall(p)
  PROVE  MInv'
<1> DEFINE t == thread[p]
           i == Word(t, 2)
           d == Word(t, 3)
           u == Pcall(t, 3, <<d, 0>>, "allocatingLoop", <<i>>, "release")
<1>1. /\ t.stack \in Seq(Int) /\ StackFits(t) /\ t.capsule = "allocatingPostGrab"
      /\ holds \subseteq Procs /\ i = 0 /\ d \in Int
  BY ThreadOf DEF PostGrabTooSmall, Runs, Capsule, StackFits, Positive
<1>2. ~(Pool >= d)
  BY <1>1 DEF PostGrabTooSmall, Fits, Size, Desired, Arg
<1>3. Installs(p, u) /\ holds' = holds
  BY GoInstalls DEF PostGrabTooSmall, Arg, Desired, Next0
<1>4. /\ At(u, "release") /\ Word(u, 1) = i /\ Above(u, 1, "allocatingLoop")
      /\ Word(u, 4) = 0 /\ Word(u, 5) = d /\ Same(t, 3, u, 5)
  <2> DEFINE z == 0
  <2>1. i \in Int /\ z \in Int
    BY <1>1
  <2> HIDE DEF i, d, z
  <2>2. LET v == Pcall(t, 3, <<d, z>>, "allocatingLoop", <<i>>, "release")
        IN  /\ At(v, "release") /\ Word(v, 1) = i /\ Above(v, 1, "allocatingLoop")
            /\ Word(v, 4) = z /\ Word(v, 5) = d /\ Same(t, 3, v, 5)
    BY <1>1, <2>1, CalledTwo, Names
  <2> QED
    BY <2>2 DEF z
<1> HIDE DEF t, i, u
<1>5. Frame(u, 4, 0)
  <2>1. Same(t, 2, u, 4)
    <3>1. Same(t, 2 + 1, u, 4 + 1) /\ Word(u, 4 + 1) = Word(t, 2 + 1)
      BY <1>4 DEF t
    <3> QED
      BY <3>1, SamePush
  <2> QED
    BY <1>1, <2>1, SameFrame DEF StackFits
<1>6. u \in Thread /\ u.capsule = "release"
  BY <1>4, InThread DEF Reached
<1>7. StackFits(u)
  BY <1>1, <1>4, <1>5, <1>6 DEF StackFits, ReleaseFits
<1>8. ~Above(u, 1, "retPMem")
  BY <1>4, OneAbove, Names
<1>9. Moves(p, u)
  BY <1>1, <1>2, <1>3, <1>6, <1>8 DEF Moves, Searches, HasBlock, Capsule, Arg, t
<1> QED
  BY <1>3, <1>6, <1>7, <1>9, Moved

LEMMA PostGrabLeaveStep ==
  ASSUME MInv, NEW p \in Procs, PostGrabLeave(p)
  PROVE  MInv'
<1> DEFINE t == thread[p]
           i == Word(t, 2)
           d == Word(t, 3)
           left == Size(i) - d
<1>1. /\ t.stack \in Seq(Int) /\ StackFits(t) /\ t.capsule = "allocatingPostGrab"
      /\ holds \subseteq Procs /\ i = 0 /\ d \in Int
  BY ThreadOf DEF PostGrabLeave, Runs, Capsule, StackFits, Positive
<1>2. CASE Size(i) = d
  <2> DEFINE u == Pcall(t, 3, <<i>>, "retPMem", <<i>>, "release")
  <2>1. Installs(p, u) /\ holds' = holds
    BY <1>2, GoInstalls DEF PostGrabLeave, Arg, Desired
  <2>2. /\ At(u, "release") /\ Word(u, 1) = i /\ Above(u, 1, "retPMem")
        /\ Word(u, 4) = i /\ Same(t, 3, u, 4)
    <3>1. i \in Int
      BY <1>1
    <3> HIDE DEF i
    <3> QED
      BY <1>1, <3>1, CalledOne, Names
  <2> HIDE DEF t, i, u
  <2>3. Frame(t, 2 + 1, 0 + 1)
    BY <1>1, FramePop DEF StackFits
  <2>4. Frame(u, 4, 1)
    BY <2>2, <2>3, SameFrame
  <2>5. u \in Thread /\ u.capsule = "release"
    BY <2>2, InThread DEF Reached
  <2>6. StackFits(u)
    BY <1>1, <2>2, <2>4, <2>5 DEF StackFits, ReleaseFits
  <2>7. Moves(p, u)
    BY <1>1, <2>1, <2>2, <2>5 DEF Moves, Searches, HasBlock, Capsule, Arg, t
  <2> QED
    BY <2>1, <2>5, <2>6, <2>7, Moved
<1>3. CASE Size(i) # d
  <2> DEFINE u == Pcall(t, 3, <<d, i>>, "makeLeftovers", <<left>>, "findFreeEntry")
  <2>1. Installs(p, u) /\ holds' = holds
    BY <1>3, GoInstalls DEF PostGrabLeave, Arg, Desired
  <2>2. At(u, "findFreeEntry") /\ Above(u, 1, "makeLeftovers")
    <3>1. left \in Int /\ i \in Int
      BY <1>1, SizesAssumption DEF Size
    <3> HIDE DEF i, d, left
    <3> QED
      BY <1>1, <3>1, CalledTwo, Names
  <2> HIDE DEF t, i, d, left, u
  <2>3. u \in Thread /\ u.capsule = "findFreeEntry"
    BY <2>2, InThread DEF Reached
  <2>4. StackFits(u)
    BY <2>2, <2>3 DEF StackFits, Split, Above
  <2>5. Moves(p, u)
    BY <1>1, <2>1, <2>3 DEF Moves, Searches, HasBlock, Capsule, Arg, t
  <2> QED
    BY <2>1, <2>3, <2>4, <2>5, Moved
<1> QED
  BY <1>2, <1>3

LEMMA RetPMemStep ==
  ASSUME MInv, NEW p \in Procs, RetPMem(p)
  PROVE  MInv'
<1> DEFINE t == thread[p]
           u == Pret(t, 1, Block)
<1>1. /\ t.stack \in Seq(Int) /\ StackFits(t) /\ t.capsule = "retPMem"
      /\ holds \subseteq Procs
  BY ThreadOf DEF RetPMem, Plain, Runs, Capsule
<1>2. Installs(p, u) /\ holds' = holds
  BY GoInstalls DEF RetPMem, Plain
<1>3. \/ Above(t, 1, "gotBlock") /\ Bottom(t, 1 + 2)
      \/ Word(t, 1 + 2) - Base \notin DOMAIN Code
  BY <1>1, FrameReturn DEF StackFits
<1>4. /\ u \in Thread /\ u.capsule \in {"gotBlock", "lost"} /\ StackFits(u)
  <2>1. CASE Above(t, 1, "gotBlock") /\ Bottom(t, 1 + 2)
    <3> DEFINE b == Block
    <3>1. b \in Seq(Int) /\ Len(b) = 2
      BY SizesAssumption DEF Block
    <3> HIDE DEF b
    <3>2. LET v == Pret(t, 1, b)
          IN  At(v, "gotBlock") /\ Same(t, 1 + 2, v, Len(b))
      BY <1>1, <2>1, <3>1, Returned, Names
    <3>3. At(u, "gotBlock") /\ Same(t, 1 + 2, u, 2)
      BY <3>1, <3>2 DEF b
    <3> HIDE DEF t, u
    <3>4. Bottom(u, 2)
      BY <2>1, <3>3, SameBottom
    <3>5. u \in Thread /\ u.capsule = "gotBlock"
      BY <3>3, InThread DEF Reached
    <3> QED
      BY <3>4, <3>5 DEF StackFits
  <2>2. CASE Word(t, 1 + 2) - Base \notin DOMAIN Code
    <3>1. u = Lost
      BY <1>1, <2>2, ReturnedNowhere
    <3> QED
      BY <3>1, LostFits
  <2> QED
    BY <1>3, <2>1, <2>2
<1> HIDE DEF t, u
<1>5. Moves(p, u)
  BY <1>1, <1>2, <1>4 DEF Moves, Searches, HasBlock, Capsule, Arg, t
<1> QED
  BY <1>2, <1>4, <1>5, Moved

-----------------------------------------------------------------------------
\* The search for an unused entry, PMfree, and the end of a release

LEMMA FindFreeStep ==
  ASSUME MInv, NEW p \in Procs, FindFree(p)
  PROVE  MInv'
<1> DEFINE t == thread[p]
           u == Pcnt(t, 0, <<0>>, "ffeLoop")
<1>1. /\ t.stack \in Seq(Int) /\ StackFits(t) /\ t.capsule = "findFreeEntry"
      /\ holds \subseteq Procs
  BY ThreadOf DEF FindFree, Plain, Runs, Capsule
<1>2. Installs(p, u) /\ holds' = holds
  BY GoInstalls DEF FindFree, Plain
<1>3. At(u, "ffeLoop") /\ Word(u, 1) = 0 /\ Same(t, 0, u, 1)
  BY <1>1, ContinuedWith
<1> HIDE DEF t, u
<1>4. Split(u, 1)
  BY <1>1, <1>3, SameSplit DEF StackFits
<1>5. u \in Thread /\ u.capsule = "ffeLoop"
  BY <1>3, InThread DEF Reached
<1>6. StackFits(u)
  BY <1>3, <1>4, <1>5 DEF StackFits
<1>7. Moves(p, u)
  BY <1>1, <1>2, <1>3, <1>5 DEF Moves, Searches, HasBlock, Capsule, t
<1> QED
  BY <1>2, <1>5, <1>6, <1>7, Moved

LEMMA FindFreeLoopStep ==
  ASSUME MInv, NEW p \in Procs, FindFreeLoop(p)
  PROVE  MInv'
<1> DEFINE t == thread[p]
           i == Word(t, 1)
<1>1. /\ t.stack \in Seq(Int) /\ StackFits(t) /\ t.capsule = "ffeLoop"
      /\ holds \subseteq Procs /\ i \in Nat /\ Split(t, 1)
  BY ThreadOf DEF FindFreeLoop, Plain, Runs, Capsule, StackFits
<1>2. CASE i = 0
  <2> DEFINE n == i + 1
             u == Pcnt(t, 1, <<n>>, "ffeLoop")
  <2>1. Installs(p, u) /\ holds' = holds
    BY <1>2, GoInstalls DEF FindFreeLoop, Plain, InList, Arg
  <2>2. n = 1
    BY <1>2
  <2>3. At(u, "ffeLoop") /\ Word(u, 1) = n /\ Same(t, 1, u, 1)
    <3> HIDE DEF n
    <3> QED
      BY <1>1, <2>2, ContinuedWith
  <2> HIDE DEF t, i, n, u
  <2>4. u \in Thread /\ u.capsule = "ffeLoop"
    BY <2>3, InThread DEF Reached
  <2>5. StackFits(u)
    BY <1>1, <2>2, <2>3, <2>4, SameSplit DEF StackFits
  <2>6. Moves(p, u)
    BY <1>1, <2>1, <2>2, <2>3, <2>4 DEF Moves, Searches, HasBlock, Capsule, t
  <2> QED
    BY <2>1, <2>4, <2>5, <2>6, Moved
<1>3. CASE i # 0
  <2> DEFINE u == Pcall(t, 1, <<i>>, "ffePostGrab", <<i>>, "tryGrab")
  <2>1. Installs(p, u) /\ holds' = holds
    BY <1>3, GoInstalls DEF FindFreeLoop, Plain, InList, Arg
  <2>2. /\ At(u, "tryGrab") /\ Word(u, 1) = i /\ Above(u, 1, "ffePostGrab")
        /\ Word(u, 4) = i /\ Same(t, 1, u, 4)
    <3> HIDE DEF i
    <3> QED
      BY <1>1, CalledOne, Names
  <2>3. Searches(t, i)
    BY <1>1 DEF Searches
  <2> HIDE DEF t, i, u
  <2>4. u \in Thread /\ u.capsule = "tryGrab"
    BY <2>2, InThread DEF Reached
  <2>5. Split(u, 4) /\ i \in Positive
    BY <1>1, <1>3, <2>2, SameSplit DEF Positive
  <2>6. StackFits(u)
    BY <2>2, <2>4, <2>5 DEF StackFits, GrabFits
  <2>7. Moves(p, u)
    BY <1>1, <2>1, <2>2, <2>3, <2>4 DEF Moves, Searches, HasBlock, Capsule, t
  <2> QED
    BY <2>1, <2>4, <2>6, <2>7, Moved
<1> QED
  BY <1>2, <1>3

LEMMA StartFreeStep ==
  ASSUME MInv, NEW p \in Procs, StartFree(p)
  PROVE  MInv'
<1> DEFINE t == thread[p]
           u == Pcnt(t, 0, <<0>>, "freeLoop")
<1>1. /\ t.stack \in Seq(Int) /\ StackFits(t) /\ t.capsule = "PMfree"
      /\ holds \subseteq Procs
  BY ThreadOf DEF StartFree, Plain, Runs, Capsule
<1>2. Installs(p, u) /\ holds' = holds
  BY GoInstalls DEF StartFree, Plain
<1>3. At(u, "freeLoop") /\ Word(u, 1) = 0 /\ Same(t, 0, u, 1)
  BY <1>1, ContinuedWith
<1> HIDE DEF t, u
<1>4. Same(t, 2, u, 3) /\ Same(t, 4, u, 5)
  <2>1. Same(t, 0 + 2, u, 1 + 2) /\ Same(t, 0 + 4, u, 1 + 4)
    BY <1>3, SamePop
  <2> QED
    BY <2>1
<1>5. Above(u, 3, "client") /\ Bottom(u, 5)
  BY <1>1, <1>4, SameAbove, SameBottom DEF StackFits
<1>6. u \in Thread /\ u.capsule = "freeLoop"
  BY <1>3, InThread DEF Reached
<1>7. StackFits(u)
  BY <1>3, <1>5, <1>6 DEF StackFits
<1>8. Moves(p, u)
  BY <1>1, <1>2, <1>6 DEF Moves, Searches, HasBlock, Capsule, t
<1> QED
  BY <1>2, <1>6, <1>7, <1>8, Moved

LEMMA FreeLoopStep ==
  ASSUME MInv, NEW p \in Procs, FreeLoop(p)
  PROVE  MInv'
<1> DEFINE t == thread[p]
           i == Word(t, 1)
<1>1. /\ t.stack \in Seq(Int) /\ StackFits(t) /\ t.capsule = "freeLoop"
      /\ holds \subseteq Procs /\ i = 0 /\ Above(t, 3, "client") /\ Bottom(t, 5)
  BY ThreadOf DEF FreeLoop, Plain, Runs, Capsule, StackFits
<1>2. CASE inUse[i]
  <2> DEFINE u == Pcall(t, 3, <<i>>, "freePostLoop", <<i>>, "tryGrab")
  <2>1. Installs(p, u) /\ holds' = holds
    BY <1>2, GoInstalls DEF FreeLoop, Plain, Arg
  <2>2. /\ At(u, "tryGrab") /\ Word(u, 1) = i /\ Above(u, 1, "freePostLoop")
        /\ Word(u, 4) = i /\ Same(t, 3, u, 4)
    <3>1. i \in Int /\ t.stack \in Seq(Int)
      BY <1>1
    <3> HIDE DEF i
    <3> QED
      BY <3>1, CalledOne, Names
  <2> HIDE DEF t, i, u
  <2>3. Above(u, 4, "client") /\ Bottom(u, 6)
    <3>1. Same(t, 3 + 2, u, 4 + 2)
      BY <2>2, SamePop
    <3> QED
      BY <1>1, <2>2, <3>1, SameAbove, SameBottom
  <2>4. u \in Thread /\ u.capsule = "tryGrab"
    BY <2>2, InThread DEF Reached
  <2>5. StackFits(u)
    BY <1>1, <2>2, <2>3, <2>4 DEF StackFits, GrabFits
  <2>6. ~Above(u, 1, "ffePostGrab")
    BY <2>2, OneAbove, Names
  <2>7. Moves(p, u)
    BY <1>1, <2>1, <2>2, <2>4, <2>6 DEF Moves, Searches, HasBlock, Capsule, t
  <2> QED
    BY <2>1, <2>4, <2>5, <2>7, Moved
<1>3. CASE ~inUse[i]
  <2> DEFINE z == Next0
             u == Pcnt(t, 1, <<z>>, "freeLoop")
  <2>1. Installs(p, u) /\ holds' = holds
    BY <1>3, GoInstalls DEF FreeLoop, Plain, Arg
  <2>2. z = 0
    BY DEF Next0
  <2>3. At(u, "freeLoop") /\ Word(u, 1) = z /\ Same(t, 1, u, 1)
    <3>1. z \in Int /\ t.stack \in Seq(Int)
      BY <1>1, <2>2
    <3> HIDE DEF z
    <3> QED
      BY <3>1, ContinuedWith
  <2> HIDE DEF t, i, z, u
  <2>4. Same(t, 3, u, 3) /\ Same(t, 5, u, 5)
    <3>1. Same(t, 1 + 2, u, 1 + 2) /\ Same(t, 1 + 4, u, 1 + 4)
      BY <2>3, SamePop
    <3> QED
      BY <3>1
  <2>5. Above(u, 3, "client") /\ Bottom(u, 5)
    BY <1>1, <2>4, SameAbove, SameBottom
  <2>6. u \in Thread /\ u.capsule = "freeLoop"
    BY <2>3, InThread DEF Reached
  <2>7. StackFits(u)
    BY <2>2, <2>3, <2>5, <2>6 DEF StackFits
  <2>8. Moves(p, u)
    BY <1>1, <2>1, <2>6 DEF Moves, Searches, HasBlock, Capsule, t
  <2> QED
    BY <2>1, <2>6, <2>7, <2>8, Moved
<1> QED
  BY <1>2, <1>3

LEMMA FreeLeaveStep ==
  ASSUME MInv, NEW p \in Procs, FreeLeave(p)
  PROVE  MInv'
<1> DEFINE t == thread[p]
           i == Word(t, 2)
           u == Pcnt(t, 2, <<i>>, "release")
<1>1. /\ t.stack \in Seq(Int) /\ StackFits(t) /\ t.capsule = "freePostLoop"
      /\ holds \subseteq Procs /\ i = 0 /\ Above(t, 2, "client") /\ Bottom(t, 4)
      /\ at[p] = "freed"
  BY ThreadOf DEF FreeLeave, Runs, Capsule, StackFits
<1>2. Installs(p, u) /\ holds' = holds
  BY GoInstalls DEF FreeLeave, Arg
<1>3. At(u, "release") /\ Word(u, 1) = i /\ Same(t, 2, u, 1)
  <2>1. i \in Int
    BY <1>1
  <2> HIDE DEF i
  <2> QED
    BY <1>1, <2>1, ContinuedWith
<1> HIDE DEF t, i, u
<1>4. Above(u, 1, "client") /\ Bottom(u, 3)
  <2>1. Same(t, 2 + 2, u, 1 + 2)
    BY <1>3, SamePop
  <2> QED
    BY <1>1, <1>3, <2>1, SameAbove, SameBottom
<1>5. u \in Thread /\ u.capsule = "release"
  BY <1>3, InThread DEF Reached
<1>6. StackFits(u)
  BY <1>1, <1>3, <1>4, <1>5 DEF StackFits, ReleaseFits
<1>7. Moves(p, u)
  BY <1>1, <1>2, <1>5 DEF Moves, Searches, HasBlock, Capsule, t
<1> QED
  BY <1>2, <1>5, <1>6, <1>7, Moved

LEMMA ReleaseReturnStep ==
  ASSUME MInv, NEW p \in Procs, ReleaseReturn(p)
  PROVE  MInv'
<1> DEFINE t == thread[p]
           e == <<>>
           u == Pret(t, 1, e)
<1>1. /\ t.stack \in Seq(Int) /\ t.capsule = "release" /\ ReleaseFits(t)
      /\ holds \subseteq Procs /\ at[p] = "return"
  BY ThreadOf DEF ReleaseReturn, Runs, Capsule, StackFits
<1>2. Installs(p, u) /\ holds' = holds
  BY GoInstalls DEF ReleaseReturn
<1>3. ASSUME NEW f \in Functions, Above(t, 1, f)
      PROVE  At(u, f) /\ Same(t, 3, u, 0)
  <2>1. e \in Seq(Int) /\ Len(e) = 0
    OBVIOUS
  <2> HIDE DEF e
  <2>2. At(u, f) /\ Same(t, 1 + 2, u, Len(e))
    BY <1>1, <1>3, <2>1, Returned
  <2> QED
    BY <2>1, <2>2
<1> HIDE DEF t, e, u
<1>4. CASE Above(t, 1, "allocatingLoop") /\ Word(t, 4) = 0 /\ Frame(t, 4, 0)
  <2>1. At(u, "allocatingLoop") /\ Same(t, 3, u, 0)
    BY <1>3, <1>4, Names
  <2>2. Word(u, 1) = 0
    BY <1>4, <2>1 DEF Same, Positive
  <2>3. Frame(u, 1, 0)
    <3>1. Same(t, 3 + 1, u, 0 + 1)
      BY <2>1, SamePop
    <3> QED
      BY <1>4, <3>1, SameFrame
  <2>4. u \in Thread /\ u.capsule = "allocatingLoop"
    BY <2>1, InThread DEF Reached
  <2>5. StackFits(u)
    BY <2>2, <2>3, <2>4 DEF StackFits
  <2>6. ~Above(t, 1, "retPMem")
    BY <1>4, OneAbove, Names
  <2>7. Moves(p, u)
    BY <1>1, <1>2, <2>4, <2>6 DEF Moves, Searches, HasBlock, Capsule, t
  <2> QED
    BY <1>2, <2>4, <2>5, <2>7, Moved
<1>5. CASE Above(t, 1, "retPMem") /\ Word(t, 4) = 0 /\ Frame(t, 4, 1)
  <2>1. At(u, "retPMem") /\ Same(t, 3, u, 0)
    BY <1>3, <1>5, Names
  <2>2. Frame(u, 1, 1)
    <3>1. Same(t, 3 + 1, u, 0 + 1)
      BY <2>1, SamePop
    <3> QED
      BY <1>5, <3>1, SameFrame
  <2>3. u \in Thread /\ u.capsule = "retPMem"
    BY <2>1, InThread DEF Reached
  <2>4. StackFits(u)
    BY <2>2, <2>3 DEF StackFits
  <2>5. Moves(p, u)
    BY <1>1, <1>2, <2>3 DEF Moves, Searches, HasBlock, Capsule, t
  <2> QED
    BY <1>2, <2>3, <2>4, <2>5, Moved
<1>6. CASE Above(t, 1, "client") /\ Bottom(t, 3)
  <2>1. At(u, "client") /\ Same(t, 3, u, 0)
    BY <1>3, <1>6, Names
  <2>2. Bottom(u, 0)
    BY <1>6, <2>1, SameBottom
  <2>3. u \in Thread /\ u.capsule = "client"
    BY <2>1, InThread DEF Reached
  <2>4. StackFits(u)
    BY <2>2, <2>3 DEF StackFits
  <2>5. ~Above(t, 1, "retPMem")
    BY <1>6, OneAbove, Names
  <2>6. Moves(p, u)
    BY <1>1, <1>2, <2>3, <2>5 DEF Moves, Searches, HasBlock, Capsule, t
  <2> QED
    BY <1>2, <2>3, <2>4, <2>6, Moved
<1> QED
  BY <1>1, <1>4, <1>5, <1>6 DEF ReleaseFits

-----------------------------------------------------------------------------
\* tryGrab and ffePostGrab return

\* The entries up to i belong to as many others, so that there is one more.
LEMMA OneMore ==
  ASSUME MemTypes, OneEach, NEW p \in Procs, NEW i \in Others,
         \A j \in 1 .. i : tag[j].grabbed /\ tag[j].owner # p
  PROVE  i + 1 \in Entries
<1> DEFINE owner == [j \in 1 .. i |-> tag[j].owner]
<1>1. i \in Nat /\ i # 0 /\ 1 .. i \subseteq Others
  BY TableAssumption DEF Others, Entries
<1>2. owner \in [1 .. i -> Procs \ {p}]
  BY <1>1 DEF MemTypes, Tags, Others
<1>3. \A j, k \in 1 .. i : j # k => owner[j] # owner[k]
  BY <1>1 DEF OneEach
<1>4. IsFiniteSet(1 .. i) /\ Cardinality(1 .. i) = i
  BY <1>1, FS_Interval
<1>5. /\ IsFiniteSet(Procs \ {p})
      /\ Cardinality(Procs \ {p}) = Cardinality(Procs) - 1
      /\ Cardinality(Procs) \in Nat
  BY TableAssumption, FS_RemoveElement, FS_CardinalityType
<1> HIDE DEF owner
<1>6. ~(Cardinality(Procs \ {p}) < Cardinality(1 .. i))
  BY <1>2, <1>3, <1>4, <1>5, FS_PigeonHole
<1> QED
  BY <1>1, <1>4, <1>5, <1>6, TableAssumption DEF Entries

\* What the table needs of a step of tryGrab or ffePostGrab that leaves it alone.
GrabMoves(p, u) ==
  /\ \A i \in Nat : Searches(u, i) =>
       i \in Entries /\ \A j \in 1 .. i - 1 : tag[j].grabbed /\ tag[j].owner # p
  /\ \A i \in Others : tag[i] = Own(p) =>
       \/ u.capsule = "lost"
       \/ u.capsule = "ffePostGrab" /\ Searches(u, i) /\ Word(u, 1) = Yes
  /\ \A i \in Others :
       Searches(u, i) /\ u.capsule = "ffePostGrab" /\ Word(u, 1) # Yes =>
         tag[i].grabbed /\ tag[i].owner # p
  /\ tag[0] = Own(p) =>
       \/ u.capsule \in {"freePostLoop", "ffeLoop", "ffePostGrab", "lost"}
       \/ u.capsule = "allocatingPostGrab" /\ Word(u, 1) = Yes
  /\ HasBlock(thread[p], at[p]) => HasBlock(u, "start")
  /\ UNCHANGED holds

LEMMA GrabMoved ==
  ASSUME MInv, NEW p \in Procs, NEW u \in Thread, StackFits(u), Installs(p, u),
         GrabMoves(p, u)
  PROVE  MInv'
<1>1. /\ MemTypes' /\ ThreadsFit'
      /\ thread'[p] = u /\ at'[p] = "start"
      /\ \A q \in Procs : q # p => thread'[q] = thread[q] /\ at'[q] = at[q]
  <2>1. holds' \subseteq Procs
    BY DEF MInv, MemTypes, GrabMoves
  <2> QED
    BY <2>1, Installed DEF MInv
<1>2. UNCHANGED <<tag, inUse, old>>
  BY DEF Installs
<1>3. SearchBound'
  <2> SUFFICES ASSUME NEW q \in Procs, NEW i \in Nat, Searches(thread'[q], i)
               PROVE  /\ i \in Entries
                      /\ \A j \in 1 .. i - 1 : tag[j].grabbed /\ tag[j].owner # q
    BY <1>2 DEF SearchBound
  <2>1. CASE q # p
    BY <1>1, <2>1 DEF MInv, SearchBound
  <2>2. CASE q = p
    BY <1>1, <2>2 DEF GrabMoves
  <2> QED
    BY <2>1, <2>2
<1>4. OneEach'
  BY <1>2 DEF MInv, OneEach
<1>5. OthersHeld'
  <2> SUFFICES ASSUME NEW q \in Procs, NEW i \in Others, tag[i] = Own(q)
               PROVE  OthersHeld!(q, i)!2'
    BY <1>2 DEF OthersHeld, Own
  <2>1. CASE q # p
    <3>1. OthersHeld!(q, i)!2
      BY DEF MInv, OthersHeld
    <3> QED
      BY <1>1, <2>1, <3>1 DEF Capsule, Arg
  <2>2. CASE q = p
    BY <1>1, <2>2 DEF GrabMoves, Capsule, Arg
  <2> QED
    BY <2>1, <2>2
<1>6. SearchCopies'
  <2> SUFFICES ASSUME NEW q \in Procs, NEW i \in Others, Searches(thread'[q], i)
               PROVE  SearchCopies!(q, i)!2'
    BY DEF SearchCopies
  <2>1. CASE q # p
    BY <1>1, <1>2, <2>1 DEF MInv, SearchCopies, Capsule, Arg
  <2>2. CASE q = p
    BY <1>1, <1>2, <2>2 DEF GrabMoves, Capsule, Arg
  <2> QED
    BY <2>1, <2>2
<1>7. ListHeld'
  <2> SUFFICES ASSUME NEW q \in Procs, tag[0] = Own(q)
               PROVE  ListHeld!(q)!2'
    BY <1>2 DEF ListHeld, Own
  <2>1. CASE q # p
    <3>1. ListHeld!(q)!2
      BY DEF MInv, ListHeld
    <3> QED
      BY <1>1, <2>1, <3>1 DEF Capsule, Arg
  <2>2. CASE q = p
    BY <1>1, <2>2 DEF GrabMoves, Capsule, Arg
  <2> QED
    BY <2>1, <2>2
<1>8. InUseHeld'
  <2>1. ASSUME inUse[0]
        PROVE  \E q \in Procs : q \in holds' \/ HasBlock(thread'[q], at'[q])
    <3>1. PICK q \in Procs : q \in holds \/ HasBlock(thread[q], at[q])
      BY <2>1 DEF MInv, InUseHeld
    <3>2. q \in holds' \/ HasBlock(thread'[q], at'[q])
      BY <1>1, <3>1 DEF GrabMoves
    <3> QED
      BY <3>2
  <2> QED
    BY <1>2, <2>1 DEF MInv, InUseHeld
<1> QED
  BY <1>1, <1>3, <1>4, <1>5, <1>6, <1>7, <1>8 DEF MInv

LEMMA FindFreePostGrabStep ==
  ASSUME MInv, NEW p \in Procs, FindFreePostGrab(p)
  PROVE  MInv'
<1> DEFINE t == thread[p]
           i == Word(t, 2)
<1>1. /\ t.stack \in Seq(Int) /\ t.capsule = "ffePostGrab"
      /\ i \in Positive /\ Split(t, 2)
  BY ThreadOf DEF FindFreePostGrab, Plain, Runs, Capsule, StackFits
<1>2. Searches(t, i)
  BY <1>1 DEF Searches
<1>3. CASE Grabbed(p)
  <2> DEFINE v == <<i>>
             u == Pret(t, 2, v)
  <2>1. Installs(p, u) /\ holds' = holds
    BY <1>3, GoInstalls DEF FindFreePostGrab, Plain, Arg
  <2>2. u = Lost
    <3>1. Word(t, 2 + 2) - Base \notin DOMAIN Code
      BY <1>1, NoLowerHalf DEF Split
    <3> HIDE DEF v
    <3> QED
      BY <1>1, <3>1, ReturnedNowhere
  <2> HIDE DEF t, i, v, u
  <2>3. u \in Thread /\ StackFits(u) /\ u.capsule = "lost"
    BY <2>2, LostFits
  <2>4. GrabMoves(p, u)
    BY <2>1, <2>3 DEF GrabMoves, Searches, HasBlock
  <2> QED
    BY <2>1, <2>3, <2>4, GrabMoved
<1>4. CASE ~Grabbed(p)
  <2> DEFINE n == i + 1
             u == Pcnt(t, 2, <<n>>, "ffeLoop")
  <2>1. Installs(p, u) /\ holds' = holds
    BY <1>4, GoInstalls DEF FindFreePostGrab, Plain, Arg
  <2>2. At(u, "ffeLoop") /\ Word(u, 1) = n /\ Same(t, 2, u, 1)
    <3>1. n \in Int /\ t.stack \in Seq(Int)
      BY <1>1 DEF Positive
    <3> HIDE DEF n
    <3> QED
      BY <3>1, ContinuedWith
  <2>3. Word(t, 1) # Yes
    BY <1>4 DEF Grabbed, Arg
  <2>4. /\ i \in Others
        /\ \A j \in 1 .. i : tag[j].grabbed /\ tag[j].owner # p
    <3>1. i \in Others /\ \A j \in 1 .. i - 1 : tag[j].grabbed /\ tag[j].owner # p
      BY <1>1, <1>2 DEF MInv, SearchBound, Others, Positive
    <3>2. tag[i].grabbed /\ tag[i].owner # p
      BY <1>1, <1>2, <2>3, <3>1 DEF MInv, SearchCopies, Capsule, Arg
    <3> QED
      BY <1>1, <3>1, <3>2 DEF Positive
  <2>5. n \in Entries
    BY <2>4, OneMore DEF MInv
  <2>6. \A j \in Others : tag[j] # Own(p)
    BY <1>1, <2>3, <2>4 DEF MInv, OthersHeld, Searches, Own, Capsule, Arg
  <2> HIDE DEF t, u
  <2>7. u \in Thread /\ u.capsule = "ffeLoop"
    BY <2>2, InThread DEF Reached
  <2>8. StackFits(u)
    <3>1. Split(u, 1) /\ n \in Nat
      BY <1>1, <2>2, SameSplit DEF Positive
    <3> QED
      BY <2>2, <2>7, <3>1 DEF StackFits
  <2>9. \A j \in Nat : Searches(u, j) => j = n
    BY <2>2, <2>7 DEF Searches
  <2>10. n - 1 = i
    BY <1>1 DEF Positive
  <2>11. GrabMoves(p, u)
    BY <2>1, <2>4, <2>5, <2>6, <2>7, <2>9, <2>10 DEF GrabMoves, HasBlock
  <2> QED
    BY <2>1, <2>7, <2>8, <2>11, GrabMoved
<1> QED
  BY <1>3, <1>4

LEMMA GrabReturnStep ==
  ASSUME MInv, NEW p \in Procs, GrabReturn(p)
  PROVE  MInv'
<1> DEFINE t == thread[p]
           i == Word(t, 1)
           r == IF tag[i] = Own(p) THEN Yes ELSE No
           v == <<r>>
           u == Pret(t, 1, v)
<1>1. /\ t.stack \in Seq(Int) /\ t.capsule = "tryGrab" /\ GrabFits(t)
      /\ at[p] = "check"
  BY ThreadOf DEF GrabReturn, Runs, Capsule, StackFits
<1>2. Installs(p, u) /\ holds' = holds
  BY GoInstalls DEF GrabReturn, Arg, Own
<1>3. ASSUME NEW f \in Functions, Above(t, 1, f)
      PROVE  At(u, f) /\ Word(u, 1) = r /\ Same(t, 3, u, 1)
  <2>1. v \in Seq(Int) /\ Len(v) = 1 /\ v[1] = r
    BY DEF Yes, No
  <2> HIDE DEF v
  <2>2. At(u, f) /\ Pushed(u, 0, v) /\ Same(t, 1 + 2, u, Len(v))
    BY <1>1, <1>3, <2>1, Returned
  <2> HIDE DEF u
  <2> QED
    BY <2>1, <2>2 DEF Pushed
<1>4. r = Yes <=> tag[i] = Own(p)
  BY DEF Yes, No
<1> HIDE DEF r, v, u
<1>5. \A j \in Others : tag[j] = Own(p) => Above(t, 1, "ffePostGrab") /\ i = j
  BY <1>1 DEF MInv, OthersHeld, Searches, Capsule
<1>6. CASE Above(t, 1, "allocatingPostGrab") /\ i = 0
           /\ Word(t, 4) = 0 /\ Frame(t, 4, 0)
  <2>1. At(u, "allocatingPostGrab") /\ Word(u, 1) = r /\ Same(t, 3, u, 1)
    BY <1>3, <1>6, Names
  <2>2. ~Above(t, 1, "ffePostGrab") /\ ~Above(t, 1, "freePostLoop")
    BY <1>6, OneAbove, Names
  <2> HIDE DEF t, i
  <2>3. Word(u, 2) = 0
    <3>1. Word(u, 1 + 1) = Word(t, 3 + 1)
      BY <2>1 DEF Same, Positive
    <3> QED
      BY <1>6, <3>1
  <2>4. Frame(u, 2, 0)
    <3>1. Same(t, 3 + 1, u, 1 + 1)
      BY <2>1, SamePop
    <3> QED
      BY <1>6, <3>1, SameFrame
  <2>5. u \in Thread /\ u.capsule = "allocatingPostGrab"
    BY <2>1, InThread DEF Reached
  <2>6. StackFits(u)
    BY <2>3, <2>4, <2>5 DEF StackFits
  <2>7. ~HasBlock(t, at[p])
    BY <1>1, <2>2 DEF HasBlock
  <2>8. tag[0] = Own(p) => Word(u, 1) = Yes
    BY <1>4, <1>6, <2>1
  <2>9. \A j \in Nat : ~Searches(u, j)
    BY <2>5 DEF Searches
  <2>10. Others \subseteq Nat
    BY DEF Others, Entries
  <2>11. GrabMoves(p, u)
    BY <1>2, <1>5, <2>2, <2>5, <2>7, <2>8, <2>9, <2>10 DEF GrabMoves, t
  <2> QED
    BY <1>2, <2>5, <2>6, <2>11, GrabMoved
<1>7. CASE Above(t, 1, "freePostLoop") /\ i = 0
           /\ Word(t, 4) = 0 /\ Above(t, 4, "client") /\ Bottom(t, 6)
  <2>1. At(u, "freePostLoop") /\ Same(t, 3, u, 1)
    BY <1>3, <1>7, Names
  <2>2. ~Above(t, 1, "ffePostGrab")
    BY <1>7, OneAbove, Names
  <2> HIDE DEF t, i
  <2>3. Word(u, 2) = 0
    <3>1. Word(u, 1 + 1) = Word(t, 3 + 1)
      BY <2>1 DEF Same, Positive
    <3> QED
      BY <1>7, <3>1
  <2>4. Above(u, 2, "client") /\ Bottom(u, 4)
    <3>1. Same(t, 3 + 1, u, 1 + 1) /\ Same(t, 3 + 3, u, 1 + 3)
      BY <2>1, SamePop
    <3> QED
      BY <1>7, <3>1, SameAbove, SameBottom
  <2>5. u \in Thread /\ u.capsule = "freePostLoop"
    BY <2>1, InThread DEF Reached
  <2>6. StackFits(u)
    BY <2>3, <2>4, <2>5 DEF StackFits
  <2>7. HasBlock(u, "start")
    BY <2>5 DEF HasBlock
  <2>8. \A j \in Nat : ~Searches(u, j)
    BY <2>5 DEF Searches
  <2>9. Others \subseteq Nat
    BY DEF Others, Entries
  <2>10. GrabMoves(p, u)
    BY <1>2, <1>5, <2>2, <2>5, <2>7, <2>8, <2>9 DEF GrabMoves
  <2> QED
    BY <1>2, <2>5, <2>6, <2>10, GrabMoved
<1>8. CASE Above(t, 1, "ffePostGrab") /\ i \in Positive
           /\ Word(t, 4) = i /\ Split(t, 4)
  <2>1. At(u, "ffePostGrab") /\ Word(u, 1) = r /\ Same(t, 3, u, 1)
    BY <1>3, <1>8, Names
  <2>2. Searches(t, i)
    BY <1>1, <1>8 DEF Searches
  <2>3. /\ i \in Others
        /\ \A j \in 1 .. i - 1 : tag[j].grabbed /\ tag[j].owner # p
    BY <1>8, <2>2 DEF MInv, SearchBound, Others, Positive
  <2>4. r # Yes => tag[i].grabbed /\ tag[i].owner # p
    <3>1. tag[i].grabbed
      BY <1>1, <2>2, <2>3 DEF MInv, SearchCopies
    <3>2. tag[i] \in Tags
      BY <2>3 DEF MInv, MemTypes, Others
    <3> QED
      BY <1>4, <3>1, <3>2 DEF Tags, Own
  <2> HIDE DEF t, i
  <2>5. Word(u, 2) = i
    <3>1. Word(u, 1 + 1) = Word(t, 3 + 1)
      BY <2>1 DEF Same, Positive
    <3> QED
      BY <1>8, <3>1
  <2>6. Split(u, 2)
    <3>1. Same(t, 3 + 1, u, 1 + 1)
      BY <2>1, SamePop
    <3> QED
      BY <1>8, <3>1, SameSplit
  <2>7. u \in Thread /\ u.capsule = "ffePostGrab"
    BY <2>1, InThread DEF Reached
  <2>8. StackFits(u)
    BY <1>8, <2>5, <2>6, <2>7 DEF StackFits
  <2>9. \A j : Searches(u, j) <=> j = i
    BY <2>5, <2>7 DEF Searches
  <2>10. i \in Entries
    BY <2>3 DEF Others
  <2>11. GrabMoves(p, u)
    BY <1>2, <1>4, <1>5, <2>1, <2>3, <2>4, <2>7, <2>9, <2>10 DEF GrabMoves, HasBlock
  <2> QED
    BY <1>2, <2>7, <2>8, <2>11, GrabMoved
<1> QED
  BY <1>1, <1>6, <1>7, <1>8 DEF GrabFits

-----------------------------------------------------------------------------
\* A capsule of p goes on, or starts again

\* Threads and blocks held stay, at[p] changes.
Stays(p, where) ==
  /\ at' = [at EXCEPT ![p] = where]
  /\ where \in {"start", "cam", "check", "write", "return", "inUse", "used",
                "freed"}
  /\ Within(thread[p], where)
  /\ UNCHANGED <<thread, holds>>
  /\ faults' \in 0 .. MaxFaults

LEMMA Stayed ==
  ASSUME MInv, NEW p \in Procs, NEW where, Stays(p, where),
         tag' \in [Entries -> Tags], inUse' \in [Entries -> BOOLEAN],
         old' \in [Procs -> Tags]
  PROVE  /\ MemTypes' /\ ThreadsFit' /\ at'[p] = where
         /\ \A q \in Procs : q # p => at'[q] = at[q]
<1>1. at'[p] = where /\ \A q \in Procs : q # p => at'[q] = at[q]
  BY DEF Stays, MInv, MemTypes
<1>2. MemTypes'
  BY DEF Stays, MInv, MemTypes
<1>3. ThreadsFit'
  BY <1>1 DEF Stays, MInv, ThreadsFit
<1> QED
  BY <1>1, <1>2, <1>3

\* The table stays as well, and no copy of a tag is at stake: at is not "cam"
\* or "check".
LEMMA Waited ==
  ASSUME MInv, NEW p \in Procs, NEW where, Stays(p, where),
         where \notin {"cam", "check"}, UNCHANGED <<tag, inUse, old>>,
         where = "return" => tag[0] # Own(p),
         HasBlock(thread[p], at[p]) => HasBlock(thread[p], where)
  PROVE  MInv'
<1>1. /\ MemTypes' /\ ThreadsFit' /\ at'[p] = where
      /\ \A q \in Procs : q # p => at'[q] = at[q]
  BY Stayed DEF MInv, MemTypes
<1>2. UNCHANGED <<thread, holds>>
  BY DEF Stays
<1>3. SearchBound' /\ OneEach' /\ OthersHeld'
  BY <1>2 DEF MInv, SearchBound, OneEach, OthersHeld, Capsule, Arg, Own
<1>4. SearchCopies'
  BY <1>1, <1>2 DEF MInv, SearchCopies, Capsule, Arg
<1>5. ListHeld'
  BY <1>1, <1>2 DEF MInv, ListHeld, Capsule, Arg, Own
<1>6. InUseHeld'
  BY <1>1, <1>2 DEF MInv, InUseHeld
<1> QED
  BY <1>1, <1>3, <1>4, <1>5, <1>6 DEF MInv

LEMMA OnStays ==
  ASSUME MInv, NEW p \in Procs, NEW where, On(p, where),
         where \in {"start", "cam", "check", "write", "return", "inUse", "used",
                    "freed"},
         Within(thread[p], where)
  PROVE  Stays(p, where)
BY DEF On, Stays, MInv, MemTypes

LEMMA AllocLookStep ==
  ASSUME MInv, NEW p \in Procs, AllocLook(p)
  PROVE  MInv'
<1>1. Capsule(p) = "allocatingLoop" /\ at[p] = "start" /\ UNCHANGED table
  BY DEF AllocLook, Runs
<1>2. CASE Arg(p, 1) = 0 /\ On(p, "inUse") /\ UNCHANGED old
  <2>1. Within(thread[p], "inUse")
    BY <1>1, <1>2 DEF Within, Capsule, Arg
  <2>2. Stays(p, "inUse")
    BY <1>2, <2>1, OnStays
  <2>3. HasBlock(thread[p], at[p]) => HasBlock(thread[p], "inUse")
    BY <1>1 DEF HasBlock, Capsule
  <2> QED
    BY <1>1, <1>2, <2>2, <2>3, Waited DEF table
<1>3. CASE Go(p, Pcnt(thread[p], 1, <<>>, "merge")) /\ UNCHANGED holds
  BY <1>1, <1>3, GoInstalls, LookPastEnd
<1>4. CASE Go(p, Pcnt(thread[p], 1, <<Next0>>, "allocatingLoop"))
           /\ UNCHANGED holds
  BY <1>1, <1>4, GoInstalls, LookNext
<1> QED
  BY <1>2, <1>3, <1>4 DEF AllocLook

LEMMA PostGrabUseStep ==
  ASSUME MInv, NEW p \in Procs, PostGrabUse(p)
  PROVE  MInv'
<1>1. /\ Capsule(p) = "allocatingPostGrab" /\ at[p] = "start"
      /\ Arg(p, 1) = Yes /\ Arg(p, 2) = 0 /\ Pool >= Arg(p, 3)
  BY ThreadOf DEF PostGrabUse, Runs, Grabbed, Fits, Desired, Size, Capsule, Arg,
                  StackFits
<1>2. Within(thread[p], "used")
  BY <1>1 DEF Within, Capsule, Arg
<1>3. Stays(p, "used")
  BY <1>2, OnStays DEF PostGrabUse
<1>4. /\ inUse' = [inUse EXCEPT ![0] = TRUE] /\ UNCHANGED <<tag, old, thread, holds>>
  BY <1>1 DEF PostGrabUse, On
<1>5. /\ MemTypes' /\ ThreadsFit' /\ at'[p] = "used"
      /\ \A q \in Procs : q # p => at'[q] = at[q]
  BY <1>3, <1>4, Stayed DEF MInv, MemTypes
<1>6. SearchBound' /\ OneEach' /\ OthersHeld'
  BY <1>4 DEF MInv, SearchBound, OneEach, OthersHeld, Capsule, Arg, Own
<1>7. SearchCopies'
  BY <1>4, <1>5 DEF MInv, SearchCopies, Capsule, Arg
<1>8. ListHeld'
  BY <1>4, <1>5 DEF MInv, ListHeld, Capsule, Arg, Own
<1>9. InUseHeld'
  <2>1. HasBlock(thread'[p], at'[p])
    BY <1>1, <1>4 DEF HasBlock, Capsule, Arg
  <2>2. \A i \in Others : ~inUse'[i]
    BY <1>4 DEF MInv, InUseHeld, MemTypes, Others
  <2> QED
    BY <2>1, <2>2 DEF InUseHeld
<1> QED
  BY <1>5, <1>6, <1>7, <1>8, <1>9 DEF MInv

LEMMA FreeWriteStep ==
  ASSUME MInv, NEW p \in Procs, FreeWrite(p)
  PROVE  MInv'
<1>1. Capsule(p) = "freePostLoop" /\ Arg(p, 2) = 0
  BY ThreadOf DEF FreeWrite, Runs, Capsule, Arg, StackFits
<1>2. Within(thread[p], "freed")
  BY <1>1 DEF Within, Capsule
<1>3. Stays(p, "freed")
  BY <1>2, OnStays DEF FreeWrite
<1>4. inUse' = [inUse EXCEPT ![0] = FALSE] /\ UNCHANGED <<tag, old, thread, holds>>
  BY <1>1 DEF FreeWrite, On
<1>5. /\ MemTypes' /\ ThreadsFit' /\ at'[p] = "freed"
      /\ \A q \in Procs : q # p => at'[q] = at[q]
  BY <1>3, <1>4, Stayed DEF MInv, MemTypes
<1>6. SearchBound' /\ OneEach' /\ OthersHeld'
  BY <1>4 DEF MInv, SearchBound, OneEach, OthersHeld, Capsule, Arg, Own
<1>7. SearchCopies'
  BY <1>4, <1>5 DEF MInv, SearchCopies, Capsule, Arg
<1>8. ListHeld'
  BY <1>4, <1>5 DEF MInv, ListHeld, Capsule, Arg, Own
<1>9. InUseHeld'
  BY <1>4, FirstEntries DEF MInv, InUseHeld, MemTypes, Others
<1> QED
  BY <1>5, <1>6, <1>7, <1>8, <1>9 DEF MInv

\* The index tryGrab has is within the table.
LEMMA GrabIndex ==
  ASSUME MInv, NEW p \in Procs, Capsule(p) = "tryGrab"
  PROVE  /\ Arg(p, 1) \in Entries
         /\ Arg(p, 1) \in Others => Searches(thread[p], Arg(p, 1))
<1> DEFINE t == thread[p]
           i == Word(t, 1)
<1>1. t.capsule = "tryGrab" /\ GrabFits(t)
  BY ThreadOf DEF Capsule, StackFits
<1>2. CASE i = 0
  BY <1>2, FirstEntries DEF Arg, Others
<1>3. CASE i \in Positive /\ Above(t, 1, "ffePostGrab")
  <2>1. Searches(t, i) /\ i \in Nat
    BY <1>1, <1>3 DEF Searches, Positive
  <2> QED
    BY <2>1 DEF MInv, SearchBound, Arg
<1> QED
  BY <1>1, <1>2, <1>3 DEF GrabFits

LEMMA ReadTagStep ==
  ASSUME MInv, NEW p \in Procs, ReadTag(p)
  PROVE  MInv'
<1> DEFINE i == Arg(p, 1)
<1>1. Capsule(p) = "tryGrab" /\ i \in Entries
  BY GrabIndex DEF ReadTag, Runs
<1>2. Within(thread[p], "cam")
  BY <1>1 DEF Within, Capsule
<1>3. Stays(p, "cam")
  BY <1>2, OnStays DEF ReadTag
<1>4. old' = [old EXCEPT ![p] = tag[i]] /\ UNCHANGED <<tag, inUse, thread, holds>>
  BY DEF ReadTag, On, table
<1>5. tag[i] \in Tags
  BY <1>1 DEF MInv, MemTypes
<1>6. /\ MemTypes' /\ ThreadsFit' /\ at'[p] = "cam"
      /\ \A q \in Procs : q # p => at'[q] = at[q]
  <2>1. old' \in [Procs -> Tags]
    BY <1>4, <1>5 DEF MInv, MemTypes
  <2> QED
    BY <1>3, <1>4, <2>1, Stayed DEF MInv, MemTypes
<1>7. SearchBound' /\ OneEach' /\ OthersHeld'
  BY <1>4 DEF MInv, SearchBound, OneEach, OthersHeld, Capsule, Arg, Own
<1>8. SearchCopies'
  <2> SUFFICES ASSUME NEW q \in Procs, NEW j \in Others, Searches(thread[q], j)
               PROVE  SearchCopies!(q, j)!2'
    BY <1>4 DEF SearchCopies
  <2>1. CASE q # p
    BY <1>4, <1>6, <2>1 DEF MInv, MemTypes, SearchCopies, Capsule, Arg
  <2>2. CASE q = p
    <3>1. j = i
      BY <1>1, <2>2 DEF Searches, Capsule, Arg
    <3>2. old'[p] = tag[i]
      BY <1>4 DEF MInv, MemTypes
    <3>3. tag[j].grabbed \/ tag[j] = Fresh
      BY DEF MInv, OneEach
    <3> QED
      BY <1>1, <1>4, <1>6, <2>2, <3>1, <3>2, <3>3 DEF Capsule
  <2> QED
    BY <2>1, <2>2
<1>9. ListHeld'
  BY <1>1, <1>4, <1>6 DEF MInv, ListHeld, Capsule, Arg, Own
<1>10. InUseHeld'
  <2>1. HasBlock(thread[p], at[p]) => HasBlock(thread[p], "cam")
    BY <1>1 DEF HasBlock, Capsule
  <2> QED
    BY <1>4, <1>6, <2>1 DEF MInv, InUseHeld
<1> QED
  BY <1>6, <1>7, <1>8, <1>9, <1>10 DEF MInv

LEMMA ReleaseStartStep ==
  ASSUME MInv, NEW p \in Procs, ReleaseStart(p)
  PROVE  MInv'
<1>1. Capsule(p) = "release" /\ at[p] = "start" /\ Arg(p, 1) = 0
  BY ThreadOf DEF ReleaseStart, Runs, Capsule, Arg, StackFits, ReleaseFits
<1> DEFINE where == IF tag[0] = Own(p) THEN "write" ELSE "return"
<1>2. On(p, where) /\ UNCHANGED <<tag, inUse, old>>
  BY <1>1 DEF ReleaseStart, Own, table
<1>3. where \in {"write", "return"} /\ (where = "return" => tag[0] # Own(p))
  OBVIOUS
<1> HIDE DEF where
<1>4. Within(thread[p], where)
  BY <1>1, <1>3 DEF Within, Capsule
<1>5. Stays(p, where)
  BY <1>2, <1>3, <1>4, OnStays
<1>6. HasBlock(thread[p], at[p]) => HasBlock(thread[p], where)
  BY <1>1 DEF HasBlock, Capsule
<1> QED
  BY <1>2, <1>3, <1>5, <1>6, Waited

LEMMA FaultStep ==
  ASSUME MInv, NEW p \in Procs, Fault(p)
  PROVE  MInv'
<1>1. Within(thread[p], "start")
  BY DEF Within
<1>2. Stays(p, "start") /\ UNCHANGED <<tag, inUse, old>>
  BY <1>1, ProcsAssumption DEF Fault, Stays, MInv, MemTypes, table
<1>3. HasBlock(thread[p], at[p]) => HasBlock(thread[p], "start")
  BY DEF HasBlock
<1> QED
  BY <1>2, <1>3, Waited

LEMMA ReleaseWriteStep ==
  ASSUME MInv, NEW p \in Procs, ReleaseWrite(p)
  PROVE  MInv'
<1>1. Capsule(p) = "release" /\ at[p] = "write" /\ Arg(p, 1) = 0
  BY ThreadOf DEF ReleaseWrite, Runs, Capsule, Arg, StackFits, ReleaseFits
<1>2. Stays(p, "return")
  BY <1>1, OnStays DEF ReleaseWrite, Within, Capsule
<1>3. /\ tag' = [tag EXCEPT ![0].grabbed = FALSE]
      /\ UNCHANGED <<inUse, old, thread, holds>>
  BY <1>1 DEF ReleaseWrite, On
<1>4. /\ tag' \in [Entries -> Tags] /\ ~tag'[0].grabbed
      /\ \A i \in Others : tag'[i] = tag[i]
  <2>1. tag \in [Entries -> Tags] /\ 0 \in Entries
    BY FirstEntries DEF MInv, MemTypes
  <2>2. [tag[0] EXCEPT !.grabbed = FALSE] \in Tags
    BY <2>1 DEF Tags
  <2>3. tag' = [tag EXCEPT ![0] = [tag[0] EXCEPT !.grabbed = FALSE]]
    BY <1>3
  <2>4. ~[tag[0] EXCEPT !.grabbed = FALSE].grabbed
    BY <2>1 DEF Tags
  <2> QED
    BY <2>1, <2>2, <2>3, <2>4 DEF Others
<1>5. /\ MemTypes' /\ ThreadsFit' /\ at'[p] = "return"
      /\ \A q \in Procs : q # p => at'[q] = at[q]
  BY <1>2, <1>3, <1>4, Stayed DEF MInv, MemTypes
<1>6. SearchBound'
  <2> SUFFICES ASSUME NEW q \in Procs, NEW i \in Nat, Searches(thread[q], i)
               PROVE  /\ i \in Entries
                      /\ \A j \in 1 .. i - 1 : tag'[j].grabbed /\ tag'[j].owner # q
    BY <1>3 DEF SearchBound
  <2>1. i \in Entries /\ \A j \in 1 .. i - 1 : tag[j].grabbed /\ tag[j].owner # q
    BY DEF MInv, SearchBound
  <2>2. 1 .. i - 1 \subseteq Others
    BY <2>1, TableAssumption DEF Others, Entries
  <2> QED
    BY <1>4, <2>1, <2>2
<1>7. OneEach'
  BY <1>4 DEF MInv, OneEach
<1>11. OthersHeld'
  BY <1>3, <1>4 DEF MInv, OthersHeld, Capsule, Arg, Own
<1>8. SearchCopies'
  <2> SUFFICES ASSUME NEW q \in Procs, NEW i \in Others, Searches(thread[q], i)
               PROVE  SearchCopies!(q, i)!2'
    BY <1>3 DEF SearchCopies
  <2>1. tag'[i] = tag[i]
    BY <1>4
  <2>2. SearchCopies!(q, i)!2
    BY DEF MInv, SearchCopies
  <2>3. at'[q] = at[q] \/ at'[q] = "return"
    BY <1>5
  <2>5. Capsule(q)' = Capsule(q) /\ Arg(q, 1)' = Arg(q, 1)
    BY <1>3 DEF Capsule, Arg
  <2>6. at'[q] = "cam" => (old'[q].grabbed /\ tag'[i].grabbed) \/ old'[q] = Fresh
    BY <1>3, <2>1, <2>2, <2>3
  <2>7. at'[q] = "check" => tag'[i].grabbed
    BY <2>1, <2>2, <2>3
  <2>8. Capsule(q)' = "ffePostGrab" /\ Arg(q, 1)' # Yes =>
          tag'[i].grabbed /\ tag'[i].owner # q
    BY <2>1, <2>2, <2>5
  <2>9. Fresh' = Fresh /\ Yes' = Yes
    BY DEF Fresh
  <2> QED
    BY <2>6, <2>7, <2>8, <2>9
<1>9. ListHeld'
  <2>1. \A q \in Procs : Own(q).grabbed
    BY DEF Own
  <2>2. \A q \in Procs : tag'[0] # Own(q)
    BY <1>4, <2>1
  <2>3. \A q \in Procs : Own(q)' = Own(q)
    BY DEF Own
  <2> QED
    BY <2>2, <2>3 DEF ListHeld
<1>10. InUseHeld'
  <2>1. HasBlock(thread[p], at[p]) => HasBlock(thread[p], "return")
    BY <1>1 DEF HasBlock, Capsule
  <2> QED
    BY <1>3, <1>5, <2>1 DEF MInv, InUseHeld
<1> QED
  BY <1>5, <1>6, <1>7, <1>8, <1>9, <1>10, <1>11 DEF MInv

\* The CAM fails: the entry has changed since p read its tag.
LEMMA GrabCamFails ==
  ASSUME MInv, NEW p \in Procs, GrabCam(p), tag[Arg(p, 1)] # old[p]
  PROVE  MInv'
<1> DEFINE i == Arg(p, 1)
<1>1. Capsule(p) = "tryGrab" /\ at[p] = "cam"
  BY DEF GrabCam, Runs
<1>2. Stays(p, "check")
  BY <1>1, OnStays DEF GrabCam, Within, Capsule
<1>3. UNCHANGED <<tag, inUse, old, thread, holds>>
  BY DEF GrabCam, On
<1>4. /\ MemTypes' /\ ThreadsFit' /\ at'[p] = "check"
      /\ \A q \in Procs : q # p => at'[q] = at[q]
  BY <1>2, <1>3, Stayed DEF MInv, MemTypes
<1>5. SearchBound' /\ OneEach' /\ OthersHeld'
  BY <1>3 DEF MInv, SearchBound, OneEach, OthersHeld, Capsule, Arg, Own
<1>6. SearchCopies'
  <2> SUFFICES ASSUME NEW q \in Procs, NEW j \in Others, Searches(thread[q], j)
               PROVE  SearchCopies!(q, j)!2'
    BY <1>3 DEF SearchCopies
  <2>1. CASE q # p
    BY <1>3, <1>4, <2>1 DEF MInv, SearchCopies, Capsule, Arg
  <2>2. CASE q = p
    <3>1. j = i
      BY <1>1, <2>2 DEF Searches, Capsule, Arg
    <3>2. (old[p].grabbed /\ tag[j].grabbed) \/ old[p] = Fresh
      BY <1>1, <2>2 DEF MInv, SearchCopies
    <3>3. tag[j].grabbed \/ tag[j] = Fresh
      BY DEF MInv, OneEach
    <3>4. tag[j].grabbed
      BY <3>1, <3>2, <3>3
    <3> QED
      BY <1>1, <1>3, <1>4, <2>2, <3>4 DEF Capsule
  <2> QED
    BY <2>1, <2>2
<1>7. ListHeld'
  BY <1>1, <1>3, <1>4 DEF MInv, ListHeld, Capsule, Arg, Own
<1>8. InUseHeld'
  <2>1. HasBlock(thread[p], at[p]) => HasBlock(thread[p], "check")
    BY <1>1 DEF HasBlock, Capsule
  <2> QED
    BY <1>3, <1>4, <2>1 DEF MInv, InUseHeld
<1> QED
  BY <1>4, <1>5, <1>6, <1>7, <1>8 DEF MInv

\* The CAM succeeds; whoever had the entry has lost it.
LEMMA GrabCamSucceeds ==
  ASSUME MInv, NEW p \in Procs, GrabCam(p), tag[Arg(p, 1)] = old[p]
  PROVE  MInv'
<1> DEFINE i == Arg(p, 1)
<1>1. /\ Capsule(p) = "tryGrab" /\ at[p] = "cam" /\ i \in Entries
      /\ i \in Others => Searches(thread[p], i)
  BY GrabIndex DEF GrabCam, Runs
<1>2. Stays(p, "check")
  BY <1>1, OnStays DEF GrabCam, Within, Capsule
<1>3. tag' = [tag EXCEPT ![i] = Own(p)] /\ UNCHANGED <<inUse, old, thread, holds>>
  BY DEF GrabCam, On, Own
<1>4. Own(p) \in Tags /\ Own(p).grabbed /\ Own(p).owner = p
  BY DEF Own, Tags
<1>5. /\ tag' \in [Entries -> Tags] /\ tag'[i] = Own(p)
      /\ \A j \in Entries : j # i => tag'[j] = tag[j]
  BY <1>1, <1>3, <1>4 DEF MInv, MemTypes
<1>6. /\ MemTypes' /\ ThreadsFit' /\ at'[p] = "check"
      /\ \A q \in Procs : q # p => at'[q] = at[q]
  BY <1>2, <1>3, <1>5, Stayed DEF MInv, MemTypes
<1>7. ASSUME NEW j, Searches(thread[p], j)
      PROVE  j = i
  BY <1>1, <1>7 DEF Searches, Capsule, Arg
<1>8. SearchBound'
  <2> SUFFICES ASSUME NEW q \in Procs, NEW j \in Nat, Searches(thread[q], j)
               PROVE  /\ j \in Entries
                      /\ \A k \in 1 .. j - 1 : tag'[k].grabbed /\ tag'[k].owner # q
    BY <1>3 DEF SearchBound
  <2>1. j \in Entries /\ \A k \in 1 .. j - 1 : tag[k].grabbed /\ tag[k].owner # q
    BY DEF MInv, SearchBound
  <2>2. 1 .. j - 1 \subseteq Entries /\ j \notin 1 .. j - 1
    BY <2>1, TableAssumption DEF Entries
  <2>3. CASE q # p
    BY <1>4, <1>5, <2>1, <2>2, <2>3
  <2>4. CASE q = p
    BY <1>5, <1>7, <2>1, <2>2, <2>4
  <2> QED
    BY <2>1, <2>3, <2>4
<1>9. \A j \in Others : j # i => tag[j] # Own(p)
  BY <1>1, <1>7 DEF MInv, OthersHeld
<1>10. OneEach'
  <2>1. ASSUME NEW j \in Others, ~tag'[j].grabbed
        PROVE  tag'[j] = Fresh
    <3>1. j # i /\ j \in Entries
      BY <1>4, <1>5, <2>1 DEF Others
    <3> QED
      BY <1>5, <2>1, <3>1 DEF MInv, OneEach
  <2>2. ASSUME NEW j \in Others, NEW k \in Others, j # k,
               tag'[j].grabbed, tag'[k].grabbed
        PROVE  tag'[j].owner # tag'[k].owner
    <3>1. ASSUME NEW l \in Others, l # i, tag[l].grabbed
          PROVE  tag[l].owner # p
      <4>1. tag[l] \in Tags
        BY DEF MInv, MemTypes, Others
      <4> QED
        BY <1>9, <3>1, <4>1 DEF Tags, Own
    <3>2. j \in Entries /\ k \in Entries
      BY DEF Others
    <3> QED
      BY <1>4, <1>5, <2>2, <3>1, <3>2 DEF MInv, OneEach
  <2> QED
    BY <2>1, <2>2 DEF OneEach
<1>11. OthersHeld'
  <2> SUFFICES ASSUME NEW q \in Procs, NEW j \in Others, tag'[j] = Own(q)
               PROVE  OthersHeld!(q, j)!2'
    BY DEF OthersHeld, Own
  <2>1. CASE j = i
    <3>1. q = p
      BY <1>5, <2>1 DEF Own
    <3> QED
      BY <1>1, <1>3, <2>1, <3>1 DEF Capsule
  <2>2. CASE j # i
    <3>1. tag[j] = Own(q)
      BY <1>5, <2>2 DEF Others
    <3> QED
      BY <1>3, <3>1 DEF MInv, OthersHeld, Capsule, Arg
  <2> QED
    BY <2>1, <2>2
<1>12. SearchCopies'
  <2> SUFFICES ASSUME NEW q \in Procs, NEW j \in Others, Searches(thread[q], j)
               PROVE  SearchCopies!(q, j)!2'
    BY <1>3 DEF SearchCopies
  <2>1. CASE q # p
    <3>1. tag[j].grabbed => tag'[j].grabbed
      BY <1>4, <1>5 DEF Others
    <3>2. tag[j].grabbed /\ tag[j].owner # q => tag'[j].owner # q
      BY <1>4, <1>5, <2>1 DEF Others
    <3> QED
      BY <1>3, <1>6, <2>1, <3>1, <3>2 DEF MInv, SearchCopies, Capsule, Arg
  <2>2. CASE q = p
    <3>1. tag'[j].grabbed
      BY <1>4, <1>5, <1>7, <2>2
    <3> QED
      BY <1>1, <1>3, <1>6, <2>2, <3>1 DEF Capsule
  <2> QED
    BY <2>1, <2>2
<1>13. ListHeld'
  <2> SUFFICES ASSUME NEW q \in Procs, tag'[0] = Own(q)
               PROVE  ListHeld!(q)!2'
    BY DEF ListHeld, Own
  <2>1. CASE q = p
    BY <1>1, <1>3, <2>1 DEF Capsule
  <2>2. CASE q # p
    <3>1. 0 # i
      BY <1>5, <2>2 DEF Own
    <3>2. tag[0] = Own(q)
      BY <1>5, <3>1, FirstEntries
    <3> QED
      BY <1>3, <1>6, <2>2, <3>2 DEF MInv, ListHeld, Capsule, Arg
  <2> QED
    BY <2>1, <2>2
<1>14. InUseHeld'
  <2>1. HasBlock(thread[p], at[p]) => HasBlock(thread[p], "check")
    BY <1>1 DEF HasBlock, Capsule
  <2> QED
    BY <1>3, <1>6, <2>1 DEF MInv, InUseHeld
<1> QED
  BY <1>6, <1>8, <1>10, <1>11, <1>12, <1>13, <1>14 DEF MInv

-----------------------------------------------------------------------------
\* The invariant, and what follows from it

LEMMA InitInvariant == Init => MInv
<1> SUFFICES ASSUME Init
             PROVE  MInv
  OBVIOUS
<1>1. /\ thread = [p \in Procs |-> Idle] /\ at = [p \in Procs |-> "start"]
      /\ tag = [i \in Entries |-> Fresh] /\ tag[0] = Fresh
      /\ inUse = [i \in Entries |-> FALSE]
      /\ old = [p \in Procs |-> tag[0]] /\ holds = {} /\ faults = 0
  BY FirstEntries DEF Init, Fresh
<1>2. Idle \in Thread /\ Idle.capsule = "client" /\ Idle.stack = <<>>
  BY DEF Idle, Thread, Reached
<1>3. Fresh \in Tags /\ ~Fresh.grabbed
  BY ProcsAssumption DEF Fresh, Tags
<1>4. MemTypes
  BY <1>1, <1>2, <1>3, ProcsAssumption DEF MemTypes
<1>5. Bottom(Idle, 0)
  BY <1>2 DEF Bottom, Word, Positive
<1>6. ThreadsFit
  BY <1>1, <1>2, <1>5 DEF ThreadsFit, StackFits, Within
<1>7. SearchBound /\ SearchCopies
  BY <1>1, <1>2 DEF SearchBound, SearchCopies, Searches
<1>8. OneEach
  BY <1>1, <1>3 DEF OneEach, Others
<1>9. \A p \in Procs, i \in Entries : tag[i] # Own(p)
  BY <1>1, <1>3 DEF Own
<1>10. OthersHeld /\ ListHeld
  BY <1>9, FirstEntries DEF OthersHeld, ListHeld, Others
<1>11. InUseHeld
  BY <1>1, FirstEntries DEF InUseHeld, Others
<1> QED
  BY <1>4, <1>6, <1>7, <1>8, <1>10, <1>11 DEF MInv

LEMMA NextInvariant == MInv /\ [Next]_vars => MInv'
<1> SUFFICES ASSUME MInv, [Next]_vars
             PROVE  MInv'
  OBVIOUS
<1>1. CASE UNCHANGED vars
  BY <1>1 DEF vars, MInv, MemTypes, ThreadsFit, SearchBound, OneEach, OthersHeld,
              SearchCopies, ListHeld, InUseHeld, Capsule, Arg
<1>2. CASE Next
  <2> PICK p \in Procs : Memory(p) \/ Allocate(p) \/ Free(p) \/ Fault(p)
    BY <1>2 DEF Next
  <2>1. CASE Alloc(p)
    BY <2>1, StartAllocStep, MergeStep, AllocLookStep, AllocLookInUseStep,
       PostGrabFailedStep, PostGrabTooSmallStep, PostGrabUseStep,
       PostGrabLeaveStep, RetPMemStep, FindFreeStep, FindFreeLoopStep,
       FindFreePostGrabStep DEF Alloc
  <2>2. CASE Grab(p)
    <3>1. CASE GrabCam(p)
      BY <3>1, GrabCamFails, GrabCamSucceeds
    <3> QED
      BY <2>2, <3>1, ReadTagStep, GrabReturnStep, ReleaseStartStep,
         ReleaseWriteStep, ReleaseReturnStep DEF Grab
  <2>3. CASE Freeing(p)
    BY <2>3, StartFreeStep, FreeLoopStep, FreeWriteStep, FreeLeaveStep DEF Freeing
  <2>4. CASE GotBlock(p) \/ Allocate(p) \/ Free(p) \/ Fault(p)
    BY <2>4, GotBlockStep, AllocateStep, FreeStep, FaultStep
  <2> QED
    BY <2>1, <2>2, <2>3, <2>4 DEF Memory
<1> QED
  BY <1>1, <1>2 DEF Next

\* The invariant of the table and the stacks that the other theorems rest on.
THEOREM MemInvariance == Spec => []MInv
<1>1. Init => MInv
  BY InitInvariant
<1>2. MInv /\ [Next]_vars => MInv'
  BY NextInvariant
<1> QED
  BY <1>1, <1>2, PTL DEF Spec

\* The variables keep their types, whatever the allocator reads from its stack.
THEOREM TypeCorrect == Spec => []TypeOK
<1>1. MInv => TypeOK
  <2> SUFFICES ASSUME MInv
               PROVE  TypeOK
    OBVIOUS
  <2>1. \A p \in Procs : Capsule(p) \in Reached
    BY ThreadOf DEF Capsule
  <2>2. Reached \subseteq Functions \union {"client", "lost"}
    BY FunctionsAssumption DEF Reached
  <2> QED
    BY <2>1, <2>2 DEF MInv, MemTypes, TypeOK
<1> QED
  BY <1>1, MemInvariance, PTL

LEMMA Holder == MInv => GrabHasHolder
<1> SUFFICES ASSUME MInv, NEW i \in Entries, tag[i].grabbed
             PROVE  Capsule(tag[i].owner) \in Grabbing \union {"lost"}
  BY DEF GrabHasHolder
<1> DEFINE p == tag[i].owner
<1>1. p \in Procs /\ tag[i] = Own(p)
  <2>1. tag[i] \in Tags
    BY DEF MInv, MemTypes
  <2> QED
    BY <2>1 DEF Tags, Own
<1>2. CASE i = 0
  BY <1>1, <1>2 DEF MInv, ListHeld, Grabbing
<1>3. CASE i # 0
  BY <1>1, <1>3 DEF MInv, OthersHeld, Others, Grabbing
<1> QED
  BY <1>2, <1>3

\* tryGrab and release (memUtilities.c): no grab outlives the operation it was
\* made for, whichever CAMs repeat and whoever takes a grab away.
THEOREM GrabsHaveHolders == Spec => []GrabHasHolder
BY Holder, MemInvariance, PTL

LEMMA Clean == MInv => NothingLeaks
<1> SUFFICES ASSUME MInv,
                    \A p \in Procs : Capsule(p) = "client" /\ p \notin holds,
                    NEW i \in Entries
             PROVE  ~inUse[i] /\ ~tag[i].grabbed
  BY DEF NothingLeaks
<1>1. ~tag[i].grabbed
  <2>1. tag[i].owner \in Procs
    BY DEF MInv, MemTypes, Tags
  <2>2. tag[i].grabbed => Capsule(tag[i].owner) \in Grabbing \union {"lost"}
    BY Holder DEF GrabHasHolder
  <2> QED
    BY <2>1, <2>2 DEF Grabbing
<1>2. ~inUse[i]
  <2>1. \A q \in Procs : ~(q \in holds \/ HasBlock(thread[q], at[q]))
    BY DEF HasBlock, Capsule
  <2>2. ~inUse[0] /\ \A j \in Others : ~inUse[j]
    BY <2>1 DEF MInv, InUseHeld
  <2> QED
    BY <2>2 DEF Others
<1> QED
  BY <1>1, <1>2

\* PMalloc and PMfree: once every process is back in user code and has freed
\* what it got, the block can be allocated again.
THEOREM NoLeaks == Spec => []NothingLeaks
BY Clean, MemInvariance, PTL

\* rassert, memUtilities.c:51, 363 and 465: the index that tryGrab, ffeLoop and
\* freeLoop pop is within the table.  findFreeEntry does not run off its end,
\* though failed grabs let several processes search at once: each entry they
\* pass belongs to another process, and there are more entries than those.
THEOREM IndicesInTable ==
  Spec => [](\A p \in Procs :
               Capsule(p) \in {"tryGrab", "ffeLoop", "freeLoop"} =>
                 Arg(p, 1) \in Entries)
<1>1. MInv => \A p \in Procs :
                Capsule(p) \in {"tryGrab", "ffeLoop", "freeLoop"} =>
                  Arg(p, 1) \in Entries
  <2> SUFFICES ASSUME MInv, NEW p \in Procs
               PROVE  Capsule(p) \in {"tryGrab", "ffeLoop", "freeLoop"} =>
                        Arg(p, 1) \in Entries
    OBVIOUS
  <2>1. Capsule(p) = "tryGrab" => Arg(p, 1) \in Entries
    BY GrabIndex
  <2>2. Capsule(p) = "ffeLoop" => Arg(p, 1) \in Entries
    BY ThreadOf DEF MInv, SearchBound, Searches, StackFits, Capsule, Arg
  <2>3. Capsule(p) = "freeLoop" => Arg(p, 1) \in Entries
    BY ThreadOf, FirstEntries DEF StackFits, Capsule, Arg
  <2> QED
    BY <2>1, <2>2, <2>3
<1> QED
  BY <1>1, MemInvariance, PTL

\* findFreeEntry returns through the leftover size that was pushed for it: no
\* split ever gets to makeLeftovers, so that the list keeps its one entry.
THEOREM NeverSplit == Spec => [](\A p \in Procs : Capsule(p) # "makeLeftovers")
<1>1. MInv => \A p \in Procs : Capsule(p) # "makeLeftovers"
  BY ThreadOf DEF Capsule, Reached
<1> QED
  BY <1>1, MemInvariance, PTL
=============================================================================
