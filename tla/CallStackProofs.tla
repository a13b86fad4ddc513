--------------------------- MODULE CallStackProofs ---------------------------
(***************************************************************************)
(* CapsuleMachine implements CallStack: theorems for every set of          *)
(* functions, arguments and processes, every size of stack and holders and *)
(* every number of faults.                                                 *)
(*                                                                         *)
(* Frames and function of CallStack are read off the installed capsule, so *)
(* every step but Swing must leave them alone, and what Swing installs     *)
(* must be one call, return or continuation further, or no step at all.    *)
(* The invariant says so of next (HandedOver) from the moment the body of  *)
(* the capsule has returned it.                                            *)
(***************************************************************************)
EXTENDS CapsuleMachineProofs, SequenceTheorems

-----------------------------------------------------------------------------
\* CallStack, read off a capsule of function f, with s on its stack, n in its
\* continuation holder and k in its callee holder

\* The provers rewrite Append and \o wherever they meet them: these names keep
\* them whole.
OnTop(s, e)   == Append(s, e)
Stacked(s, t) == s \o t

ResultWith(f, s, n, k) ==
  Stacked(Stacked(s, n), IF f = "pCallInternal" THEN k ELSE <<>>)

ReturningWith(f, s, n, k) ==
  \/ f = "pRetCntInternal"
  \/ /\ f = "pCntInternal"
     /\ ResultWith(f, s, n, k) # <<>>
     /\ Last(ResultWith(f, s, n, k)) = "pRetCntInternal"

FramesWith(f, s, n, k) ==
  CASE f = "pRetInternal" -> Stacked(Front(s), n)
    [] f = "pRetCntInternal" -> s
    [] f \in {"pCntInternal", "pCallInternal"} -> Front(ResultWith(f, s, n, k))
    [] OTHER -> s

RunWith(f, s, n, k) ==
  CASE ReturningWith(f, s, n, k) -> k[1]
    [] f = "pRetInternal" -> Last(s)
    [] /\ f \in {"pCntInternal", "pCallInternal"}
       /\ ~ReturningWith(f, s, n, k) -> Last(ResultWith(f, s, n, k))
    [] OTHER -> f

StackOf(c)  == Below(stack, c.clean.stack)
CntOf(c)    == Below(cntHolder, c.clean.cnt)
CalleeOf(c) == Below(callHolder, c.clean.call)

FramesOf(c) == FramesWith(c.rst, StackOf(c), CntOf(c), CalleeOf(c))
RunOf(c)    == RunWith(c.rst, StackOf(c), CntOf(c), CalleeOf(c))

-----------------------------------------------------------------------------
\* The steps of CallStack as a relation: from frames s under function f to
\* frames t under function g, where w is the soft whoAmI.

\* t is base with arguments on top.
Onto(base, t) ==
  /\ Len(base) <= Len(t)
  /\ SubSeq(t, 1, Len(base)) = base
  /\ \A i \in Len(base) + 1 .. Len(t) : t[i] \in Args

\* The arguments above the lowest n of s have been popped.
PoppedTo(s, n) == \A i \in n + 1 .. Len(s) : s[i] \in Args

Continues(kept, f, t, g) ==
  /\ f \in Funcs
  /\ g \in Funcs \union {"shutdown"}
  /\ Onto(kept, t)

Calls(kept, f, t, g) ==
  /\ f \in Funcs
  /\ g \in Funcs \union {"resetWhoAmI"}
  /\ \E m \in Len(kept) + 1 .. Len(t) :
       /\ Onto(kept, SubSeq(t, 1, m - 1))
       /\ t[m] \in Funcs
       /\ Onto(SubSeq(t, 1, m), t)

Returns(kept, t, g) ==
  /\ kept # <<>>
  /\ g \in Funcs /\ g = kept[Len(kept)]
  /\ Onto(SubSeq(kept, 1, Len(kept) - 1), t)
  /\ Len(t) <= Len(kept)

Steps(s, f, w, t, g) ==
  \/ t = s /\ g = f
  \/ \E n \in 0 .. Len(s) :
       LET kept == SubSeq(s, 1, n) IN
       /\ PoppedTo(s, n)
       /\ \/ Continues(kept, f, t, g)
          \/ Calls(kept, f, t, g)
          \/ /\ f \in Funcs \/ (f = "resetWhoAmI" /\ w = Hard /\ n = Len(s))
             /\ Returns(kept, t, g)

-----------------------------------------------------------------------------
\* The inductive invariant

\* A client has popped arguments and pushed arguments.
ClientUses ==
  InClient =>
    /\ \A i \in dirty.stack.size .. Installed.clean.stack.size - 1 :
         stack[Installed.who][i] \in Args
    /\ \A i \in 0 .. dirty.cnt.size - 1 : cntHolder[Installed.who][i] \in Args
    /\ \A i \in 0 .. dirty.call.size - 1 : callHolder[Installed.who][i] \in Args

\* pRetInternal keeps the continuation that is on top of the clean stack.
ReturnKeeps ==
  pc = "return" =>
    callHolder[Installed.who][0] = TopOf(stack, Installed.clean.stack)

\* What the body has returned follows the installed capsule in CallStack.
HandedOver ==
  pc \in {"write", "written", "swing"} =>
    /\ next.who = Installed.who
    /\ Steps(AbstractFrames, AbstractRun, Installed.who,
             FramesOf(next), RunOf(next))

RInv == IInv /\ ClientUses /\ ReturnKeeps /\ HandedOver
-----------------------------------------------------------------------------
\* Sequences

LEMMA Prefix ==
  ASSUME NEW S, NEW s \in Seq(S), NEW n \in 0 .. Len(s)
  PROVE  /\ SubSeq(s, 1, n) \in Seq(S)
         /\ Len(SubSeq(s, 1, n)) = n
         /\ \A i \in 1 .. n : SubSeq(s, 1, n)[i] = s[i]
<1>1. \A i \in 1 .. n : s[i] \in S
  BY ElementOfSeq
<1>2. n \in Int /\ n >= 0
  BY LenProperties
<1> QED
  BY <1>1, <1>2, SubSeqProperties

LEMMA StackedIs ==
  ASSUME NEW S, NEW s \in Seq(S), NEW t \in Seq(S)
  PROVE  /\ Stacked(s, t) \in Seq(S)
         /\ Len(Stacked(s, t)) = Len(s) + Len(t)
         /\ \A i \in 1 .. Len(s) + Len(t) :
              Stacked(s, t)[i] = IF i <= Len(s) THEN s[i] ELSE t[i - Len(s)]
BY ConcatProperties DEF Stacked

LEMMA StackedEmpty ==
  ASSUME NEW S, NEW s \in Seq(S)
  PROVE  Stacked(s, <<>>) = s /\ Stacked(<<>>, s) = s
BY ConcatEmptySeq DEF Stacked

LEMMA OnTopIs ==
  ASSUME NEW S, NEW s \in Seq(S), NEW e \in S
  PROVE  /\ OnTop(s, e) \in Seq(S)
         /\ OnTop(s, e) # <<>>
         /\ Len(OnTop(s, e)) = Len(s) + 1
         /\ \A i \in 1 .. Len(s) : OnTop(s, e)[i] = s[i]
         /\ OnTop(s, e)[Len(s) + 1] = e
BY AppendProperties DEF OnTop

LEMMA PrefixOfStacked ==
  ASSUME NEW S, NEW s \in Seq(S), NEW t \in Seq(S)
  PROVE  SubSeq(Stacked(s, t), 1, Len(s)) = s
<1> DEFINE u == Stacked(s, t)
<1>1. /\ u \in Seq(S) /\ Len(u) = Len(s) + Len(t)
      /\ \A i \in 1 .. Len(s) + Len(t) :
           u[i] = IF i <= Len(s) THEN s[i] ELSE t[i - Len(s)]
  BY StackedIs
<1> HIDE DEF u
<1>2. u \in Seq(S) /\ Len(s) \in 0 .. Len(u) /\ \A i \in 1 .. Len(s) : u[i] = s[i]
  BY <1>1, LenProperties
<1>3. SubSeq(u, 1, Len(s)) = s
  BY <1>2, Prefix, SeqEqual
<1> QED
  BY <1>3 DEF u

LEMMA FrontOfOnTop ==
  ASSUME NEW S, NEW s \in Seq(S), NEW e \in S
  PROVE  /\ OnTop(s, e) \in Seq(S) /\ OnTop(s, e) # <<>>
         /\ Len(OnTop(s, e)) = Len(s) + 1
         /\ Front(OnTop(s, e)) = s /\ Last(OnTop(s, e)) = e
<1> DEFINE u == OnTop(s, e)
<1>1. /\ u \in Seq(S) /\ u # <<>> /\ Len(u) = Len(s) + 1
      /\ \A i \in 1 .. Len(s) : u[i] = s[i]
      /\ u[Len(s) + 1] = e
  BY OnTopIs
<1> HIDE DEF u
<1>2. Len(u) - 1 = Len(s) /\ Len(u) - 1 \in 0 .. Len(u)
  BY <1>1, LenProperties
<1>3. SubSeq(u, 1, Len(u) - 1) = s
  BY <1>1, <1>2, Prefix, SeqEqual
<1> QED
  BY <1>1, <1>3 DEF u, Front, Last

LEMMA StackedOnTop ==
  ASSUME NEW S, NEW s \in Seq(S), NEW t \in Seq(S), NEW e \in S
  PROVE  Stacked(s, OnTop(t, e)) = OnTop(Stacked(s, t), e)
<1>1. <<e>> \in Seq(S) /\ s \o t \in Seq(S)
  BY ConcatProperties
<1>2. Append(t, e) = t \o <<e>> /\ Append(s \o t, e) = (s \o t) \o <<e>>
  BY <1>1, AppendIsConcat
<1>3. s \o Append(t, e) = Append(s \o t, e)
  BY <1>1, <1>2, ConcatAssociative
<1> QED
  BY <1>3 DEF OnTop, Stacked

LEMMA IsOnTop ==
  ASSUME NEW S, NEW s \in Seq(S), NEW t \in Seq(S), Len(t) = Len(s) + 1,
         \A i \in 1 .. Len(s) : t[i] = s[i]
  PROVE  t = OnTop(s, t[Len(t)])
<1>1. Len(s) \in Nat /\ t[Len(t)] \in S
  BY LenProperties, ElementOfSeq
<1> DEFINE v == t[Len(t)]
           u == OnTop(s, v)
<1>2. v \in S /\ v = t[Len(t)]
  BY <1>1
<1> HIDE DEF v
<1>3. u \in Seq(S) /\ Len(u) = Len(s) + 1
  BY ONLY <1>2, s \in Seq(S), OnTopIs
<1>4. u[Len(s) + 1] = v
  BY ONLY <1>2, s \in Seq(S), OnTopIs
<1>5. \A i \in 1 .. Len(s) : u[i] = s[i]
  BY ONLY <1>2, s \in Seq(S), OnTopIs
<1> HIDE DEF u
<1>6. ASSUME NEW i \in 1 .. Len(s) + 1
      PROVE  t[i] = u[i]
  <2>1. i \in 1 .. Len(s) \/ i = Len(s) + 1
    BY <1>1
  <2> QED
    BY <1>2, <1>4, <1>5, <2>1
<1>7. t = u
  BY <1>3, <1>6, SeqEqual
<1> QED
  BY <1>7 DEF u, v

LEMMA TopOfPrefix ==
  ASSUME NEW S, NEW s \in Seq(S), NEW n \in 1 .. Len(s)
  PROVE  SubSeq(s, 1, n) = OnTop(SubSeq(s, 1, n - 1), s[n])
<1> DEFINE t == SubSeq(s, 1, n)
           u == SubSeq(s, 1, n - 1)
<1>1. n \in 0 .. Len(s) /\ n - 1 \in 0 .. Len(s) /\ n \in 1 .. n
  BY LenProperties
<1>2. t \in Seq(S) /\ Len(t) = n /\ \A i \in 1 .. n : t[i] = s[i]
  BY <1>1, Prefix
<1>3. u \in Seq(S) /\ Len(u) = n - 1 /\ \A i \in 1 .. n - 1 : u[i] = s[i]
  BY <1>1, Prefix
<1> HIDE DEF t, u
<1>4. ASSUME NEW i \in 1 .. Len(u)
      PROVE  t[i] = u[i]
  <2>1. i \in 1 .. n /\ i \in 1 .. n - 1
    BY <1>1, <1>3
  <2> QED
    BY <1>2, <1>3, <2>1
<1>5. Len(t) = Len(u) + 1
  BY <1>1, <1>2, <1>3
<1>6. t = OnTop(u, t[Len(t)])
  BY <1>2, <1>3, <1>4, <1>5, IsOnTop
<1>7. t[Len(t)] = s[n]
  BY <1>1, <1>2
<1> QED
  BY <1>6, <1>7 DEF t, u

LEMMA OntoStacked ==
  ASSUME NEW S, NEW s \in Seq(S), NEW a \in Seq(S),
         \A i \in 1 .. Len(a) : a[i] \in Args
  PROVE  Onto(s, Stacked(s, a))
<1>1. /\ Len(Stacked(s, a)) = Len(s) + Len(a) /\ Len(s) \in Nat /\ Len(a) \in Nat
      /\ \A i \in 1 .. Len(s) + Len(a) :
           Stacked(s, a)[i] = IF i <= Len(s) THEN s[i] ELSE a[i - Len(s)]
  BY StackedIs, LenProperties
<1>2. ASSUME NEW i \in Len(s) + 1 .. Len(s) + Len(a)
      PROVE  Stacked(s, a)[i] \in Args
  <2>1. i - Len(s) \in 1 .. Len(a) /\ i \in 1 .. Len(s) + Len(a) /\ ~(i <= Len(s))
    BY <1>1
  <2> QED
    BY <1>1, <2>1
<1> QED
  BY <1>1, <1>2, PrefixOfStacked DEF Onto

-----------------------------------------------------------------------------
\* The frames and the function to run, for each kind of capsule

LEMMA ClientView ==
  ASSUME NEW f, f \notin Internal, NEW s, NEW n, NEW k
  PROVE  FramesWith(f, s, n, k) = s /\ RunWith(f, s, n, k) = f
BY DEF Internal, FramesWith, RunWith, ReturningWith

LEMMA CntView ==
  ASSUME NEW s \in Seq(Cells), NEW a \in Seq(Cells), NEW e \in Cells, NEW k
  PROVE  /\ FramesWith("pCntInternal", s, OnTop(a, e), k) = Stacked(s, a)
         /\ RunWith("pCntInternal", s, OnTop(a, e), k)
              = IF e = "pRetCntInternal" THEN k[1] ELSE e
<1> DEFINE n == OnTop(a, e)
           r == ResultWith("pCntInternal", s, n, k)
<1>1. n \in Seq(Cells) /\ Stacked(s, a) \in Seq(Cells)
  BY OnTopIs, StackedIs
<1>2. r = Stacked(s, n)
  <2> HIDE DEF n
  <2>1. r = Stacked(Stacked(s, n), <<>>)
    BY Zenon DEF ResultWith
  <2>2. Stacked(s, n) \in Seq(Cells)
    BY <1>1, StackedIs
  <2> QED
    BY <2>1, <2>2, StackedEmpty
<1> HIDE DEF r
<1>3. r = OnTop(Stacked(s, a), e)
  BY <1>2, StackedOnTop
<1>4. r # <<>> /\ Front(r) = Stacked(s, a) /\ Last(r) = e
  BY <1>1, <1>3, FrontOfOnTop
<1> HIDE DEF n
<1>5. ReturningWith("pCntInternal", s, n, k) <=> e = "pRetCntInternal"
  BY <1>4 DEF ReturningWith, r
<1>6. FramesWith("pCntInternal", s, n, k) = Front(r)
  BY DEF FramesWith, r
<1>7. RunWith("pCntInternal", s, n, k)
        = IF e = "pRetCntInternal" THEN k[1] ELSE Last(r)
  BY <1>5 DEF RunWith, r
<1> QED
  BY <1>4, <1>6, <1>7 DEF n

LEMMA CallView ==
  ASSUME NEW s \in Seq(Cells), NEW a \in Seq(Cells), NEW e \in Cells,
         NEW b \in Seq(Cells), NEW g \in Cells
  PROVE  /\ FramesWith("pCallInternal", s, OnTop(a, e), OnTop(b, g))
              = Stacked(OnTop(Stacked(s, a), e), b)
         /\ RunWith("pCallInternal", s, OnTop(a, e), OnTop(b, g)) = g
<1> DEFINE n == OnTop(a, e)
           k == OnTop(b, g)
           t == Stacked(OnTop(Stacked(s, a), e), b)
           r == ResultWith("pCallInternal", s, n, k)
<1>1. /\ n \in Seq(Cells) /\ Stacked(s, a) \in Seq(Cells)
      /\ OnTop(Stacked(s, a), e) \in Seq(Cells) /\ t \in Seq(Cells)
  BY OnTopIs, StackedIs
<1>2. r = Stacked(Stacked(s, n), k)
  <2> HIDE DEF n, k
  <2> QED
    BY Zenon DEF ResultWith
<1>3. Stacked(s, n) = OnTop(Stacked(s, a), e)
  BY StackedOnTop
<1> HIDE DEF n, r
<1>4. r = OnTop(t, g)
  <2> DEFINE u == OnTop(Stacked(s, a), e)
  <2>1. u \in Seq(Cells) /\ r = Stacked(u, OnTop(b, g))
    BY <1>1, <1>2, <1>3
  <2> HIDE DEF u
  <2>2. r = OnTop(Stacked(u, b), g)
    BY <2>1, StackedOnTop
  <2> QED
    BY <2>2 DEF u
<1> HIDE DEF t
<1>5. r # <<>> /\ Front(r) = t /\ Last(r) = g
  BY <1>1, <1>4, FrontOfOnTop
<1> HIDE DEF k
<1>6. FramesWith("pCallInternal", s, n, k) = Front(r)
  BY DEF FramesWith, r
<1>7. RunWith("pCallInternal", s, n, k) = Last(r)
  BY DEF RunWith, ReturningWith, r
<1> QED
  BY <1>5, <1>6, <1>7 DEF n, k, t

LEMMA RetView ==
  ASSUME NEW s \in Seq(Cells), NEW e \in Cells, NEW n, NEW k
  PROVE  /\ FramesWith("pRetInternal", OnTop(s, e), n, k) = Stacked(s, n)
         /\ RunWith("pRetInternal", OnTop(s, e), n, k) = e
<1> DEFINE t == OnTop(s, e)
<1>1. Front(t) = s /\ Last(t) = e
  BY FrontOfOnTop
<1> HIDE DEF t
<1>2. FramesWith("pRetInternal", t, n, k) = Stacked(Front(t), n)
      /\ RunWith("pRetInternal", t, n, k) = Last(t)
  BY DEF FramesWith, RunWith, ReturningWith
<1> QED
  BY <1>1, <1>2 DEF t

LEMMA RetCntView ==
  ASSUME NEW s, NEW n, NEW k
  PROVE  /\ FramesWith("pRetCntInternal", s, n, k) = s
         /\ RunWith("pRetCntInternal", s, n, k) = k[1]
BY DEF FramesWith, RunWith, ReturningWith

-----------------------------------------------------------------------------
\* The three steps of a client

LEMMA ContinueStep ==
  ASSUME NEW s \in Seq(Cells), NEW n \in 0 .. Len(s), PoppedTo(s, n),
         NEW a \in Seq(Cells), \A i \in 1 .. Len(a) : a[i] \in Args,
         NEW f \in Funcs, NEW g \in Funcs \union {"shutdown"}, NEW w
  PROVE  Steps(s, f, w, Stacked(SubSeq(s, 1, n), a), g)
<1> DEFINE kept == SubSeq(s, 1, n)
<1>1. kept \in Seq(Cells)
  BY Prefix
<1>2. Onto(kept, Stacked(kept, a))
  <2> HIDE DEF kept
  <2> QED
    BY <1>1, OntoStacked
<1>3. Continues(kept, f, Stacked(kept, a), g)
  BY <1>2 DEF Continues
<1> QED
  BY <1>3 DEF Steps

LEMMA CallStep ==
  ASSUME NEW s \in Seq(Cells), NEW n \in 0 .. Len(s), PoppedTo(s, n),
         NEW a \in Seq(Cells), \A i \in 1 .. Len(a) : a[i] \in Args,
         NEW b \in Seq(Cells), \A i \in 1 .. Len(b) : b[i] \in Args,
         NEW e \in Funcs,
         NEW f \in Funcs, NEW g \in Funcs \union {"resetWhoAmI"}, NEW w
  PROVE  Steps(s, f, w, Stacked(OnTop(Stacked(SubSeq(s, 1, n), a), e), b), g)
<1> DEFINE kept == SubSeq(s, 1, n)
           v == Stacked(kept, a)
           u == OnTop(v, e)
           t == Stacked(u, b)
           m == Len(u)
<1>1. kept \in Seq(Cells) /\ e \in Cells
  BY Prefix DEF Cells, Code
<1> HIDE DEF kept
<1>2. /\ v \in Seq(Cells) /\ Len(v) = Len(kept) + Len(a)
      /\ Len(kept) \in Nat /\ Len(a) \in Nat /\ Len(b) \in Nat
      /\ Onto(kept, v)
  BY <1>1, StackedIs, LenProperties, OntoStacked
<1> HIDE DEF v
<1>3. /\ u \in Seq(Cells) /\ m = Len(v) + 1 /\ u[m] = e
      /\ \A i \in 1 .. Len(v) : u[i] = v[i]
  <2>1. v \in Seq(Cells) /\ e \in Cells
    BY <1>1, <1>2
  <2>2. u \in Seq(Cells) /\ Len(u) = Len(v) + 1
    BY ONLY <2>1, OnTopIs
  <2>3. u[Len(v) + 1] = e
    BY ONLY <2>1, OnTopIs
  <2>4. \A i \in 1 .. Len(v) : u[i] = v[i]
    BY ONLY <2>1, OnTopIs
  <2> HIDE DEF u
  <2> QED
    BY <2>2, <2>3, <2>4
<1> HIDE DEF u
<1>4. /\ t \in Seq(Cells) /\ Len(t) = m + Len(b)
      /\ \A i \in 1 .. m : t[i] = u[i]
  <2>1. /\ t \in Seq(Cells) /\ Len(t) = Len(u) + Len(b)
        /\ \A i \in 1 .. Len(u) + Len(b) :
             t[i] = IF i <= Len(u) THEN u[i] ELSE b[i - Len(u)]
    BY <1>3, StackedIs
  <2>2. Len(u) \in Nat /\ Len(b) \in Nat
    BY <1>2, <1>3
  <2> HIDE DEF t
  <2>3. ASSUME NEW i \in 1 .. Len(u)
        PROVE  t[i] = u[i]
    <3>1. i \in 1 .. Len(u) + Len(b) /\ i <= Len(u)
      BY <2>2
    <3> QED
      BY <2>1, <3>1
  <2> QED
    BY <2>1, <2>3
<1>5. SubSeq(t, 1, m) = u /\ Onto(u, t)
  BY <1>3, PrefixOfStacked, OntoStacked
<1> HIDE DEF t, m
<1>6. m - 1 = Len(v) /\ m - 1 \in 0 .. Len(t) /\ m \in Len(kept) + 1 .. Len(t)
  BY <1>2, <1>3, <1>4
<1>7. SubSeq(t, 1, m - 1) = v
  <2> DEFINE x == SubSeq(t, 1, m - 1)
  <2>1. /\ x \in Seq(Cells) /\ Len(x) = m - 1
        /\ \A i \in 1 .. m - 1 : x[i] = t[i]
    BY <1>4, <1>6, Prefix
  <2> HIDE DEF x
  <2>2. ASSUME NEW i \in 1 .. Len(v)
        PROVE  x[i] = v[i]
    <3>1. i \in 1 .. m /\ i \in 1 .. m - 1
      BY <1>2, <1>6
    <3> QED
      BY <1>3, <1>4, <2>1, <3>1
  <2>3. x = v
    BY <1>2, <1>6, <2>1, <2>2, SeqEqual
  <2> QED
    BY <2>3 DEF x
<1>8. t[m] \in Funcs
  <2>1. m \in 1 .. m
    BY <1>2, <1>3
  <2> QED
    BY <1>3, <1>4, <2>1
<1>9. Calls(kept, f, t, g)
  BY <1>2, <1>5, <1>6, <1>7, <1>8 DEF Calls
<1>10. Steps(s, f, w, t, g)
  BY <1>9 DEF Steps, kept
<1> QED
  BY <1>10 DEF t, u, v, kept

LEMMA ReturnStep ==
  ASSUME NEW s \in Seq(Cells), NEW n \in 1 .. Len(s), PoppedTo(s, n),
         s[n] \in Funcs, NEW b \in Seq(Cells), Len(b) <= 1,
         \A i \in 1 .. Len(b) : b[i] \in Args,
         NEW f, NEW w,
         f \in Funcs \/ (f = "resetWhoAmI" /\ w = Hard /\ n = Len(s))
  PROVE  Steps(s, f, w, Stacked(SubSeq(s, 1, n - 1), b), s[n])
<1> DEFINE kept == SubSeq(s, 1, n)
           low == SubSeq(s, 1, n - 1)
<1>1. /\ kept \in Seq(Cells) /\ Len(kept) = n
      /\ \A i \in 1 .. n : kept[i] = s[i]
      /\ Len(s) \in Nat
  BY LenProperties, Prefix
<1>2. n - 1 \in 0 .. Len(s) /\ n \in 1 .. n /\ n - 1 \in 0 .. n
  BY <1>1
<1>3. /\ low \in Seq(Cells) /\ Len(low) = n - 1
      /\ \A i \in 1 .. n - 1 : low[i] = s[i]
  BY <1>2, Prefix
<1> HIDE DEF kept, low
<1>4. SubSeq(kept, 1, n - 1) = low
  <2> DEFINE x == SubSeq(kept, 1, n - 1)
  <2>1. /\ x \in Seq(Cells) /\ Len(x) = n - 1
        /\ \A i \in 1 .. n - 1 : x[i] = kept[i]
    BY <1>1, <1>2, Prefix
  <2> HIDE DEF x
  <2>2. ASSUME NEW i \in 1 .. n - 1
        PROVE  x[i] = low[i]
    <3>1. i \in 1 .. n
      BY <1>1
    <3> QED
      BY <1>1, <1>3, <2>1, <3>1
  <2>3. x = low
    BY <1>3, <2>1, <2>2, SeqEqual
  <2> QED
    BY <2>3 DEF x
<1>5. /\ Onto(low, Stacked(low, b))
      /\ Len(Stacked(low, b)) = n - 1 + Len(b)
      /\ Len(b) \in Nat
  BY <1>3, OntoStacked, StackedIs, LenProperties
<1>6. kept # <<>> /\ kept[Len(kept)] = s[n]
  BY <1>1, <1>2
<1>7. Returns(kept, Stacked(low, b), s[n])
  <2>1. SubSeq(kept, 1, Len(kept) - 1) = low
    BY <1>1, <1>4
  <2>2. Len(Stacked(low, b)) <= Len(kept)
    BY <1>1, <1>5
  <2> QED
    BY <1>5, <1>6, <2>1, <2>2 DEF Returns
<1>8. n \in 0 .. Len(s)
  BY <1>1
<1> QED
  BY <1>7, <1>8 DEF Steps, kept, low

-----------------------------------------------------------------------------
\* The cells below a pointer, before and after they are written

LEMMA BelowIs ==
  ASSUME NEW n \in Nat, NEW m, m \in [Regions -> [0 .. n - 1 -> Cells]],
         NEW ptr \in Pointers, ptr.size <= n
  PROVE  /\ Below(m, ptr) \in Seq(Cells)
         /\ Len(Below(m, ptr)) = ptr.size
         /\ \A i \in 1 .. ptr.size : Below(m, ptr)[i] = m[ptr.region][i - 1]
<1>1. ptr.size \in Nat /\ ptr.region \in Regions
  BY DEF Pointers
<1>2. \A i \in 1 .. ptr.size : m[ptr.region][i - 1] \in Cells
  BY <1>1
<1>3. Below(m, ptr) \in [1 .. ptr.size -> Cells]
  BY <1>2 DEF Below
<1>4. Below(m, ptr) \in Seq(Cells) /\ Len(Below(m, ptr)) = ptr.size
  BY <1>1, <1>3, FunctionIsSequence, ZenonT(30)
<1> QED
  BY <1>1, <1>4 DEF Below

\* A lower pointer, and cells below it that were not written.
LEMMA BelowLower ==
  ASSUME NEW n \in Nat,
         NEW m, m \in [Regions -> [0 .. n - 1 -> Cells]],
         NEW w, w \in [Regions -> [0 .. n - 1 -> Cells]],
         NEW ptr \in Pointers, NEW low \in Pointers,
         low.region = ptr.region, low.size <= ptr.size, ptr.size <= n,
         \A i \in 0 .. low.size - 1 : w[ptr.region][i] = m[ptr.region][i]
  PROVE  Below(w, low) = SubSeq(Below(m, ptr), 1, low.size)
<1> DEFINE s == Below(m, ptr)
           t == Below(w, low)
<1>1. low.size \in Nat /\ ptr.size \in Nat /\ low.size <= n
  BY DEF Pointers
<1>2. /\ s \in Seq(Cells) /\ Len(s) = ptr.size
      /\ \A i \in 1 .. ptr.size : s[i] = m[ptr.region][i - 1]
  BY BelowIs
<1>3. /\ t \in Seq(Cells) /\ Len(t) = low.size
      /\ \A i \in 1 .. low.size : t[i] = w[ptr.region][i - 1]
  BY <1>1, BelowIs
<1> HIDE DEF s, t
<1>4. low.size \in 0 .. Len(s)
  BY <1>1, <1>2
<1> DEFINE u == SubSeq(s, 1, low.size)
<1>5. /\ u \in Seq(Cells) /\ Len(u) = low.size
      /\ \A i \in 1 .. low.size : u[i] = s[i]
  BY <1>2, <1>4, Prefix
<1> HIDE DEF u
<1>6. ASSUME NEW i \in 1 .. low.size
      PROVE  t[i] = u[i]
  <2>1. i - 1 \in 0 .. low.size - 1 /\ i \in 1 .. ptr.size
    BY <1>1
  <2> QED
    BY <1>2, <1>3, <1>5, <2>1
<1>7. t = u
  BY <1>3, <1>5, <1>6, SeqEqual
<1> QED
  BY <1>7 DEF s, t, u

-----------------------------------------------------------------------------
\* What the installed capsule stands for changes when it is replaced only.

LEMMA AbstractView ==
  /\ AbstractFrames = FramesOf(Installed)
  /\ AbstractRun = RunOf(Installed)
BY DEF AbstractFrames, AbstractRun, FramesOf, RunOf, FramesWith, RunWith,
       StackOf, CntOf, CalleeOf, SS, CC, KK, Result, ResultWith, Returning,
       ReturningWith, rst, Stacked

LEMMA Unread ==
  ASSUME IInv, KeepsLive, Installed' = Installed
  PROVE  AbstractFrames' = AbstractFrames /\ AbstractRun' = AbstractRun
<1> DEFINE c == Installed.clean
<1>1. Below(stack', c.stack) = Below(stack, c.stack)
  BY PlacedFacts DEF KeepsLive, Below, Pointers
<1>2. Below(cntHolder', c.cnt) = Below(cntHolder, c.cnt)
  BY PlacedFacts DEF KeepsLive, Below, Pointers
<1>3. Below(callHolder', c.call) = Below(callHolder, c.call)
  BY PlacedFacts DEF KeepsLive, Below, Pointers
<1>4. SS' = SS /\ CC' = CC /\ KK' = KK /\ rst' = rst
  BY <1>1, <1>2, <1>3 DEF SS, CC, KK, rst
<1>5. Result' = Result /\ (Returning' <=> Returning)
  BY <1>4 DEF Result, Returning
<1> QED
  BY <1>4, <1>5 DEF AbstractFrames, AbstractRun

LEMMA NextView ==
  ASSUME NEW f, NEW d, Finish(f, d)
  PROVE  /\ FramesOf(next)' =
              FramesWith(f, Below(stack', d.stack), Below(cntHolder', d.cnt),
                         Below(callHolder', d.call))
         /\ RunOf(next)' =
              RunWith(f, Below(stack', d.stack), Below(cntHolder', d.cnt),
                      Below(callHolder', d.call))
         /\ next'.who = Installed.who
         /\ pc' = "write"
<1>1. /\ next'.rst = f /\ next'.clean = d
      /\ next'.who = Installed.who /\ pc' = "write"
  BY DEF Finish, MakeCapsule
<1> QED
  BY <1>1 DEF FramesOf, RunOf, StackOf, CntOf, CalleeOf

\* The body has returned a capsule that is the next one in CallStack.
LEMMA Handover ==
  ASSUME RInv, IInv', KeepsLive, Installed' = Installed, NEW f, NEW d,
         Finish(f, d), NEW t, NEW g, FramesOf(next)' = t, RunOf(next)' = g,
         Steps(AbstractFrames, AbstractRun, Installed.who, t, g)
  PROVE  RInv'
<1>1. /\ pc' = "write" /\ next'.who = Installed.who
      /\ AbstractFrames' = AbstractFrames /\ AbstractRun' = AbstractRun
  BY NextView, Unread DEF RInv
<1>2. ClientUses' /\ ReturnKeeps'
  BY <1>1 DEF ClientUses, ReturnKeeps, InClient
<1>3. HandedOver'
  BY <1>1 DEF HandedOver
<1> QED
  BY <1>2, <1>3 DEF RInv

-----------------------------------------------------------------------------
\* What a client leaves in the memory

LEMMA MemoryTypes ==
  ASSUME TypeOK
  PROVE  /\ stack \in [Regions -> [0 .. StackSize - 1 -> Cells]]
         /\ cntHolder \in [Regions -> [0 .. HolderSize - 1 -> Cells]]
         /\ callHolder \in [Regions -> [0 .. HolderSize - 1 -> Cells]]
         /\ StackSize \in Nat /\ HolderSize \in Nat
BY BoundsAssumption DEF TypeOK

LEMMA ClientMemory ==
  ASSUME RInv, InClient,
         dirty.cnt.size <= HolderSize, dirty.call.size <= HolderSize
  PROVE  /\ AbstractRun = rst /\ rst \in Funcs
         /\ AbstractFrames \in Seq(Cells)
         /\ dirty.stack.size \in 0 .. Len(AbstractFrames)
         /\ PoppedTo(AbstractFrames, dirty.stack.size)
         /\ Below(stack, dirty.stack)
              = SubSeq(AbstractFrames, 1, dirty.stack.size)
         /\ Below(cntHolder, dirty.cnt) \in Seq(Cells)
         /\ \A i \in 1 .. Len(Below(cntHolder, dirty.cnt)) :
              Below(cntHolder, dirty.cnt)[i] \in Args
         /\ Below(callHolder, dirty.call) \in Seq(Cells)
         /\ \A i \in 1 .. Len(Below(callHolder, dirty.call)) :
              Below(callHolder, dirty.call)[i] \in Args
<1> DEFINE r == Installed.who
           c == Installed.clean.stack
           s == Below(stack, c)
<1>1. /\ IInv /\ TypeOK /\ rst \in Funcs
      /\ c \in Pointers /\ dirty.stack \in Pointers /\ dirty.cnt \in Pointers
      /\ dirty.call \in Pointers
      /\ c.region = r /\ dirty.stack.region = r /\ dirty.cnt.region = r
      /\ dirty.call.region = r
  BY PlacedFacts, ClientFacts DEF RInv, InClient, Anchored
<1>2. c.size <= StackSize /\ dirty.stack.size <= c.size
  <2>1. ClientReady(Installed)
    BY <1>1, NamesAssumption
    DEF IInv, rst, Sound, Ready, ResetReady, CntReady, CallReady, RetReady,
        RetCntReady, Internal
  <2> QED
    BY <1>1, <2>1 DEF IInv, ClientWorking, ClientReady
<1>3. AbstractRun = rst /\ AbstractFrames = s
  <2>1. Installed.rst \notin Internal
    BY <1>1, NamesAssumption DEF rst
  <2> QED
    BY <2>1, ClientView, AbstractView DEF FramesOf, RunOf, StackOf, rst
<1>4. /\ s \in Seq(Cells) /\ Len(s) = c.size
      /\ \A i \in 1 .. c.size : s[i] = stack[r][i - 1]
  <2>1. stack \in [Regions -> [0 .. StackSize - 1 -> Cells]] /\ StackSize \in Nat
    BY <1>1, MemoryTypes
  <2>2. c \in Pointers /\ c.size <= StackSize /\ c.region = r
    BY <1>1, <1>2
  <2> HIDE DEF c, r
  <2>3. s \in Seq(Cells) /\ Len(s) = c.size
    BY <2>1, <2>2, BelowIs
  <2>4. \A i \in 1 .. c.size : s[i] = stack[c.region][i - 1]
    BY <2>1, <2>2, BelowIs
  <2> QED
    BY <2>2, <2>3, <2>4
<1>5. c.size \in Nat /\ dirty.stack.size \in Nat
  BY <1>1 DEF Pointers
<1>6. Below(stack, dirty.stack) = SubSeq(s, 1, dirty.stack.size)
  <2>1. stack \in [Regions -> [0 .. StackSize - 1 -> Cells]] /\ StackSize \in Nat
    BY <1>1, MemoryTypes
  <2> DEFINE low == dirty.stack
  <2>2. /\ c \in Pointers /\ low \in Pointers /\ low.region = c.region
        /\ low.size <= c.size /\ c.size <= StackSize
    BY <1>1, <1>2
  <2> HIDE DEF c, r, low
  <2>3. Below(stack, low) = SubSeq(Below(stack, c), 1, low.size)
    BY <2>1, <2>2, BelowLower
  <2> QED
    BY <2>3 DEF low
<1>7. PoppedTo(s, dirty.stack.size)
  <2>1. ASSUME NEW i \in dirty.stack.size + 1 .. c.size
        PROVE  s[i] \in Args
    <3>1. i - 1 \in dirty.stack.size .. c.size - 1 /\ i \in 1 .. c.size
      BY <1>5
    <3> QED
      BY <1>4, <3>1 DEF RInv, ClientUses
  <2> QED
    BY <1>4, <2>1 DEF PoppedTo
<1>8. /\ Below(cntHolder, dirty.cnt) \in Seq(Cells)
      /\ \A i \in 1 .. Len(Below(cntHolder, dirty.cnt)) :
           Below(cntHolder, dirty.cnt)[i] \in Args
  <2> DEFINE a == Below(cntHolder, dirty.cnt)
  <2>1. /\ a \in Seq(Cells) /\ Len(a) = dirty.cnt.size
        /\ \A i \in 1 .. dirty.cnt.size : a[i] = cntHolder[r][i - 1]
    <3>1. /\ cntHolder \in [Regions -> [0 .. HolderSize - 1 -> Cells]]
          /\ HolderSize \in Nat
      BY <1>1, MemoryTypes
    <3> DEFINE ptr == dirty.cnt
    <3>2. ptr \in Pointers /\ ptr.size <= HolderSize /\ ptr.region = r
      BY <1>1
    <3> HIDE DEF ptr, r
    <3>3. /\ Below(cntHolder, ptr) \in Seq(Cells)
          /\ Len(Below(cntHolder, ptr)) = ptr.size
          /\ \A i \in 1 .. ptr.size :
               Below(cntHolder, ptr)[i] = cntHolder[ptr.region][i - 1]
      BY <3>1, <3>2, BelowIs
    <3> QED
      BY <3>2, <3>3 DEF ptr
  <2> HIDE DEF a
  <2>2. dirty.cnt.size \in Nat
    BY <1>1 DEF Pointers
  <2>3. ASSUME NEW i \in 1 .. Len(a)
        PROVE  a[i] \in Args
    <3>1. i - 1 \in 0 .. dirty.cnt.size - 1 /\ i \in 1 .. dirty.cnt.size
      BY <2>1, <2>2
    <3> QED
      BY <2>1, <3>1 DEF RInv, ClientUses
  <2> QED
    BY <2>1, <2>3 DEF a
<1>9. /\ Below(callHolder, dirty.call) \in Seq(Cells)
      /\ \A i \in 1 .. Len(Below(callHolder, dirty.call)) :
           Below(callHolder, dirty.call)[i] \in Args
  <2> DEFINE a == Below(callHolder, dirty.call)
  <2>1. /\ a \in Seq(Cells) /\ Len(a) = dirty.call.size
        /\ \A i \in 1 .. dirty.call.size : a[i] = callHolder[r][i - 1]
    <3>1. /\ callHolder \in [Regions -> [0 .. HolderSize - 1 -> Cells]]
          /\ HolderSize \in Nat
      BY <1>1, MemoryTypes
    <3> DEFINE ptr == dirty.call
    <3>2. ptr \in Pointers /\ ptr.size <= HolderSize /\ ptr.region = r
      BY <1>1
    <3> HIDE DEF ptr, r
    <3>3. /\ Below(callHolder, ptr) \in Seq(Cells)
          /\ Len(Below(callHolder, ptr)) = ptr.size
          /\ \A i \in 1 .. ptr.size :
               Below(callHolder, ptr)[i] = callHolder[ptr.region][i - 1]
      BY <3>1, <3>2, BelowIs
    <3> QED
      BY <3>2, <3>3 DEF ptr
  <2> HIDE DEF a
  <2>2. dirty.call.size \in Nat
    BY <1>1 DEF Pointers
  <2>3. ASSUME NEW i \in 1 .. Len(a)
        PROVE  a[i] \in Args
    <3>1. i - 1 \in 0 .. dirty.call.size - 1 /\ i \in 1 .. dirty.call.size
      BY <2>1, <2>2
    <3> QED
      BY <2>1, <3>1 DEF RInv, ClientUses
  <2> QED
    BY <2>1, <2>3 DEF a
<1> HIDE DEF s
<1> QED
  BY <1>1, <1>2, <1>3, <1>4, <1>5, <1>6, <1>7, <1>8, <1>9

\* A cell is pushed to the continuation holder.
LEMMA CntPushed ==
  ASSUME TypeOK, dirty.cnt.offset = dirty.cnt.size,
         dirty.cnt.size < HolderSize, NEW v \in Cells, cntHolder' = PushedCnt(v)
  PROVE  Below(cntHolder', Grow(dirty.cnt, 1))
           = OnTop(Below(cntHolder, dirty.cnt), v)
<1>1. /\ TypeOK /\ dirty.cnt \in Pointers
      /\ dirty.cnt.offset = dirty.cnt.size /\ dirty.cnt.size \in Nat
      /\ dirty.cnt.region \in Regions
  BY DEF TypeOK, Heads, Pointers
<1> DEFINE high == Grow(dirty.cnt, 1)
<1>2. /\ high \in Pointers /\ high.region = dirty.cnt.region
      /\ high.size = dirty.cnt.size + 1
  BY <1>1, GrowPointer
<1> HIDE DEF high
<1>3. /\ cntHolder' \in [Regions -> [0 .. HolderSize - 1 -> Cells]]
      /\ cntHolder'[dirty.cnt.region][dirty.cnt.size] = v
      /\ \A i \in 0 .. HolderSize - 1 :
           i # dirty.cnt.size =>
             cntHolder'[dirty.cnt.region][i] = cntHolder[dirty.cnt.region][i]
  BY <1>1, PushCnt
<1>4. \A i \in 0 .. dirty.cnt.size - 1 :
        cntHolder'[dirty.cnt.region][i] = cntHolder[dirty.cnt.region][i]
  BY <1>1, <1>3, BoundsAssumption
<1>5. /\ cntHolder \in [Regions -> [0 .. HolderSize - 1 -> Cells]]
      /\ HolderSize \in Nat
  BY <1>1, MemoryTypes
<1> DEFINE ptr == dirty.cnt
           m == cntHolder'
           s == Below(cntHolder, ptr)
           t == Below(m, high)
<1>6. ptr \in Pointers /\ ptr.size <= HolderSize
  BY <1>1, <1>5
<1>7. /\ high.region = ptr.region /\ high.size = ptr.size + 1
      /\ high.size <= HolderSize /\ ptr.size \in Nat
      /\ m \in [Regions -> [0 .. HolderSize - 1 -> Cells]]
      /\ m[ptr.region][ptr.size] = v
      /\ \A i \in 0 .. ptr.size - 1 : m[ptr.region][i] = cntHolder[ptr.region][i]
  BY <1>1, <1>2, <1>3, <1>4, <1>5
<1> HIDE DEF ptr, m
<1>8. /\ s \in Seq(Cells) /\ Len(s) = ptr.size
      /\ \A i \in 1 .. ptr.size : s[i] = cntHolder[ptr.region][i - 1]
  BY <1>5, <1>6, BelowIs
<1>9. /\ t \in Seq(Cells) /\ Len(t) = high.size
      /\ \A i \in 1 .. high.size : t[i] = m[high.region][i - 1]
  BY <1>2, <1>5, <1>7, BelowIs
<1> HIDE DEF s, t
<1>10. ASSUME NEW i \in 1 .. Len(s)
       PROVE  t[i] = s[i]
  <2>1. i - 1 \in 0 .. ptr.size - 1 /\ i \in 1 .. ptr.size /\ i \in 1 .. high.size
    BY <1>7, <1>8
  <2> QED
    BY <1>7, <1>8, <1>9, <2>1
<1>11. t[Len(t)] = v
  <2>1. high.size \in 1 .. high.size /\ high.size - 1 = ptr.size
    BY <1>7
  <2> QED
    BY <1>7, <1>9, <2>1
<1>12. Len(t) = Len(s) + 1
  BY <1>7, <1>8, <1>9
<1>13. t = OnTop(s, v)
  BY <1>8, <1>9, <1>10, <1>11, <1>12, IsOnTop
<1> QED
  BY <1>13 DEF s, t, m, high, ptr

LEMMA CalleePushed ==
  ASSUME TypeOK, dirty.call.offset = dirty.call.size,
         dirty.call.size < HolderSize, NEW v \in Cells,
         callHolder' = PushedCallee(v)
  PROVE  Below(callHolder', Grow(dirty.call, 1))
           = OnTop(Below(callHolder, dirty.call), v)
<1>1. /\ TypeOK /\ dirty.call \in Pointers
      /\ dirty.call.offset = dirty.call.size /\ dirty.call.size \in Nat
      /\ dirty.call.region \in Regions
  BY DEF TypeOK, Heads, Pointers
<1> DEFINE high == Grow(dirty.call, 1)
<1>2. /\ high \in Pointers /\ high.region = dirty.call.region
      /\ high.size = dirty.call.size + 1
  BY <1>1, GrowPointer
<1> HIDE DEF high
<1>3. /\ callHolder' \in [Regions -> [0 .. HolderSize - 1 -> Cells]]
      /\ callHolder'[dirty.call.region][dirty.call.size] = v
      /\ \A i \in 0 .. HolderSize - 1 :
           i # dirty.call.size =>
             callHolder'[dirty.call.region][i] = callHolder[dirty.call.region][i]
  BY <1>1, PushCallee
<1>4. \A i \in 0 .. dirty.call.size - 1 :
        callHolder'[dirty.call.region][i] = callHolder[dirty.call.region][i]
  BY <1>1, <1>3, BoundsAssumption
<1>5. /\ callHolder \in [Regions -> [0 .. HolderSize - 1 -> Cells]]
      /\ HolderSize \in Nat
  BY <1>1, MemoryTypes
<1> DEFINE ptr == dirty.call
           m == callHolder'
           s == Below(callHolder, ptr)
           t == Below(m, high)
<1>6. ptr \in Pointers /\ ptr.size <= HolderSize
  BY <1>1, <1>5
<1>7. /\ high.region = ptr.region /\ high.size = ptr.size + 1
      /\ high.size <= HolderSize /\ ptr.size \in Nat
      /\ m \in [Regions -> [0 .. HolderSize - 1 -> Cells]]
      /\ m[ptr.region][ptr.size] = v
      /\ \A i \in 0 .. ptr.size - 1 : m[ptr.region][i] = callHolder[ptr.region][i]
  BY <1>1, <1>2, <1>3, <1>4, <1>5
<1> HIDE DEF ptr, m
<1>8. /\ s \in Seq(Cells) /\ Len(s) = ptr.size
      /\ \A i \in 1 .. ptr.size : s[i] = callHolder[ptr.region][i - 1]
  BY <1>5, <1>6, BelowIs
<1>9. /\ t \in Seq(Cells) /\ Len(t) = high.size
      /\ \A i \in 1 .. high.size : t[i] = m[high.region][i - 1]
  BY <1>2, <1>5, <1>7, BelowIs
<1> HIDE DEF s, t
<1>10. ASSUME NEW i \in 1 .. Len(s)
       PROVE  t[i] = s[i]
  <2>1. i - 1 \in 0 .. ptr.size - 1 /\ i \in 1 .. ptr.size /\ i \in 1 .. high.size
    BY <1>7, <1>8
  <2> QED
    BY <1>7, <1>8, <1>9, <2>1
<1>11. t[Len(t)] = v
  <2>1. high.size \in 1 .. high.size /\ high.size - 1 = ptr.size
    BY <1>7
  <2> QED
    BY <1>7, <1>9, <2>1
<1>12. Len(t) = Len(s) + 1
  BY <1>7, <1>8, <1>9
<1>13. t = OnTop(s, v)
  BY <1>8, <1>9, <1>10, <1>11, <1>12, IsOnTop
<1> QED
  BY <1>13 DEF s, t, m, high, ptr

-----------------------------------------------------------------------------
\* The steps by which a client leaves

LEMMA PcntHands ==
  ASSUME RInv, NEW f \in Funcs \union {"shutdown"}, Pcnt(f)
  PROVE  RInv'
<1> DEFINE d == Three(dirty.stack, Grow(dirty.cnt, 1), dirty.call)
           s == SubSeq(AbstractFrames, 1, dirty.stack.size)
           a == Below(cntHolder, dirty.cnt)
           k == Below(callHolder', dirty.call)
<1>1. IInv' /\ KeepsLive
  BY PcntStep DEF RInv
<1>2. /\ InClient /\ Finish("pCntInternal", d) /\ cntHolder' = PushedCnt(f)
      /\ dirty.cnt.size < HolderSize /\ dirty.call.size = 0
      /\ stack' = stack /\ Installed' = Installed
      /\ f \in Cells /\ f # "pRetCntInternal"
  BY NamesAssumption DEF Pcnt, Installed, Cells, Code, Internal
<1>3. dirty.cnt.size <= HolderSize /\ dirty.call.size <= HolderSize
  BY <1>2, PlacedFacts, BoundsAssumption DEF RInv, Pointers
<1>4. /\ AbstractRun \in Funcs /\ AbstractFrames \in Seq(Cells)
      /\ dirty.stack.size \in 0 .. Len(AbstractFrames)
      /\ PoppedTo(AbstractFrames, dirty.stack.size)
      /\ Below(stack, dirty.stack) = s
      /\ a \in Seq(Cells) /\ \A i \in 1 .. Len(a) : a[i] \in Args
  BY <1>2, <1>3, ClientMemory
<1>5. s \in Seq(Cells)
  BY <1>4, Prefix
<1>6. Below(cntHolder', Grow(dirty.cnt, 1)) = OnTop(a, f)
  BY <1>2, CntPushed, ClientFacts, PlacedFacts DEF RInv, Anchored
<1>7. /\ FramesOf(next)' = FramesWith("pCntInternal", s, OnTop(a, f), k)
      /\ RunOf(next)' = RunWith("pCntInternal", s, OnTop(a, f), k)
  <2>1. /\ d.stack = dirty.stack /\ d.cnt = Grow(dirty.cnt, 1)
        /\ d.call = dirty.call
    BY DEF Three
  <2> HIDE DEF d
  <2> QED
    BY <1>2, <1>4, <1>6, <2>1, NextView
<1>8. Steps(AbstractFrames, AbstractRun, Installed.who, Stacked(s, a), f)
  BY <1>4, ContinueStep
<1> HIDE DEF d, s, a, k
<1>9. FramesOf(next)' = Stacked(s, a) /\ RunOf(next)' = f
  <2>1. a \in Seq(Cells) /\ f \in Cells /\ f # "pRetCntInternal"
    BY <1>2, <1>4
  <2>2. /\ FramesWith("pCntInternal", s, OnTop(a, f), k) = Stacked(s, a)
        /\ RunWith("pCntInternal", s, OnTop(a, f), k)
             = IF f = "pRetCntInternal" THEN k[1] ELSE f
    BY ONLY <1>5, <2>1, CntView
  <2> QED
    BY <1>7, <2>1, <2>2
<1> QED
  BY <1>1, <1>2, <1>8, <1>9, Handover

LEMMA PcallHands ==
  ASSUME RInv, NEW g \in Callees, NEW f \in Funcs, Pcall(g, f)
  PROVE  RInv'
<1> DEFINE d == Three(dirty.stack, Grow(dirty.cnt, 1), Grow(dirty.call, 1))
           s == SubSeq(AbstractFrames, 1, dirty.stack.size)
           a == Below(cntHolder, dirty.cnt)
           b == Below(callHolder, dirty.call)
<1>1. IInv' /\ KeepsLive
  BY PcallStep DEF RInv
<1>2. /\ InClient /\ Finish("pCallInternal", d)
      /\ cntHolder' = PushedCnt(f) /\ callHolder' = PushedCallee(g)
      /\ dirty.cnt.size < HolderSize /\ dirty.call.size < HolderSize
      /\ stack' = stack /\ Installed' = Installed
      /\ f \in Cells /\ g \in Cells /\ g \in Funcs \union {"resetWhoAmI"}
  BY NamesAssumption DEF Pcall, Installed, Cells, Code, Internal
<1>3. dirty.cnt.size <= HolderSize /\ dirty.call.size <= HolderSize
  BY <1>2, PlacedFacts, BoundsAssumption DEF RInv, Pointers
<1>4. /\ AbstractRun \in Funcs /\ AbstractFrames \in Seq(Cells)
      /\ dirty.stack.size \in 0 .. Len(AbstractFrames)
      /\ PoppedTo(AbstractFrames, dirty.stack.size)
      /\ Below(stack, dirty.stack) = s
      /\ a \in Seq(Cells) /\ \A i \in 1 .. Len(a) : a[i] \in Args
      /\ b \in Seq(Cells) /\ \A i \in 1 .. Len(b) : b[i] \in Args
  BY <1>2, <1>3, ClientMemory
<1>5. s \in Seq(Cells)
  BY <1>4, Prefix
<1>6. /\ Below(cntHolder', Grow(dirty.cnt, 1)) = OnTop(a, f)
      /\ Below(callHolder', Grow(dirty.call, 1)) = OnTop(b, g)
  BY <1>2, CntPushed, CalleePushed, ClientFacts, PlacedFacts DEF RInv, Anchored
<1>7. /\ FramesOf(next)' =
           FramesWith("pCallInternal", s, OnTop(a, f), OnTop(b, g))
      /\ RunOf(next)' =
           RunWith("pCallInternal", s, OnTop(a, f), OnTop(b, g))
  <2>1. /\ d.stack = dirty.stack /\ d.cnt = Grow(dirty.cnt, 1)
        /\ d.call = Grow(dirty.call, 1)
    BY DEF Three
  <2> HIDE DEF d
  <2> QED
    BY <1>2, <1>4, <1>6, <2>1, NextView
<1>8. Steps(AbstractFrames, AbstractRun, Installed.who,
            Stacked(OnTop(Stacked(s, a), f), b), g)
  BY <1>2, <1>4, CallStep
<1> HIDE DEF d, s, a, b
<1>9. FramesOf(next)' = Stacked(OnTop(Stacked(s, a), f), b) /\ RunOf(next)' = g
  <2>1. a \in Seq(Cells) /\ b \in Seq(Cells) /\ f \in Cells /\ g \in Cells
    BY <1>2, <1>4
  <2>2. /\ FramesWith("pCallInternal", s, OnTop(a, f), OnTop(b, g))
             = Stacked(OnTop(Stacked(s, a), f), b)
        /\ RunWith("pCallInternal", s, OnTop(a, f), OnTop(b, g)) = g
    BY ONLY <1>5, <2>1, CallView
  <2> QED
    BY <1>7, <2>2
<1> QED
  BY <1>1, <1>2, <1>8, <1>9, Handover

LEMMA ReturnHands ==
  ASSUME RInv, IInv', KeepsLive, ReadyToReturn, stack' = stack,
         Installed' = Installed, NEW d, Finish("pRetInternal", d),
         d.stack = dirty.stack, NEW b \in Seq(Cells),
         Below(cntHolder', d.cnt) = b, Len(b) <= 1,
         \A i \in 1 .. Len(b) : b[i] \in Args
  PROVE  RInv'
<1> DEFINE ff == AbstractFrames
           n  == dirty.stack.size
           s  == SubSeq(ff, 1, n - 1)
           k  == Below(callHolder', d.call)
<1>1. /\ InClient /\ dirty.cnt.size <= HolderSize /\ dirty.call.size <= HolderSize
      /\ n > 0 /\ Top(dirty.stack) \in Funcs
  BY BoundsAssumption DEF ReadyToReturn
<1>2. /\ AbstractRun \in Funcs /\ ff \in Seq(Cells)
      /\ n \in 0 .. Len(ff) /\ PoppedTo(ff, n)
      /\ Below(stack, dirty.stack) = SubSeq(ff, 1, n)
  BY <1>1, ClientMemory
<1>3. n \in 1 .. Len(ff) /\ n \in 1 .. n /\ n - 1 \in 0 .. Len(ff)
  BY <1>1, <1>2, LenProperties
<1>4. ff[n] = Top(dirty.stack)
  <2>1. SubSeq(ff, 1, n)[n] = ff[n]
    BY <1>2, <1>3, Prefix
  <2>2. dirty.stack.offset = n
    BY <1>1, ClientFacts DEF RInv, Anchored
  <2>3. Below(stack, dirty.stack)[n] = Top(dirty.stack)
    BY <1>3, <2>2 DEF Below, Top
  <2> QED
    BY <1>2, <2>1, <2>3
<1>5. SubSeq(ff, 1, n) = OnTop(s, ff[n])
  BY <1>2, <1>3, TopOfPrefix
<1>6. s \in Seq(Cells) /\ ff[n] \in Cells /\ ff[n] \in Funcs
  BY <1>1, <1>2, <1>3, <1>4, Prefix DEF Cells, Code
<1>7. /\ FramesOf(next)' = FramesWith("pRetInternal", OnTop(s, ff[n]), b, k)
      /\ RunOf(next)' = RunWith("pRetInternal", OnTop(s, ff[n]), b, k)
  BY <1>2, <1>5, NextView
<1>8. Steps(ff, AbstractRun, Installed.who, Stacked(s, b), ff[n])
  BY <1>2, <1>3, <1>6, ReturnStep
<1> HIDE DEF ff, n, s, k
<1>9. FramesOf(next)' = Stacked(s, b) /\ RunOf(next)' = ff[n]
  BY <1>6, <1>7, RetView
<1> QED
  BY <1>8, <1>9, Handover DEF ff

LEMMA PretHands ==
  ASSUME RInv, NEW v \in Args, Pret(v)
  PROVE  RInv'
<1> DEFINE d == Three(dirty.stack, Grow(dirty.cnt, 1), dirty.call)
           a == Below(cntHolder, dirty.cnt)
           b == OnTop(a, v)
<1>1. IInv' /\ KeepsLive
  BY PretStep DEF RInv
<1>2. /\ ReadyToReturn /\ InClient /\ Finish("pRetInternal", d)
      /\ cntHolder' = PushedCnt(v)
      /\ dirty.cnt.size = 0 /\ dirty.call.size = 0
      /\ stack' = stack /\ Installed' = Installed /\ v \in Cells
  BY DEF Pret, ReadyToReturn, Installed, Cells
<1>3. dirty.cnt.size < HolderSize
  BY <1>2, BoundsAssumption
<1>4. a \in Seq(Cells) /\ Len(a) = 0
  <2>1. TypeOK /\ dirty.cnt \in Pointers
    BY PlacedFacts DEF RInv
  <2>2. /\ cntHolder \in [Regions -> [0 .. HolderSize - 1 -> Cells]]
        /\ HolderSize \in Nat
    BY <2>1, MemoryTypes
  <2>3. dirty.cnt.size <= HolderSize
    BY <1>2, <2>2
  <2>4. a \in Seq(Cells) /\ Len(a) = dirty.cnt.size
    BY <2>1, <2>2, <2>3, BelowIs
  <2> QED
    BY <1>2, <2>4
<1>5. Below(cntHolder', Grow(dirty.cnt, 1)) = b
  BY <1>2, <1>3, CntPushed, ClientFacts, PlacedFacts DEF RInv, Anchored
<1> HIDE DEF a
<1>6. b \in Seq(Cells) /\ Len(b) = 1 /\ b[1] = v
  <2>1. b \in Seq(Cells) /\ Len(b) = Len(a) + 1 /\ b[Len(a) + 1] = v
    BY <1>2, <1>4, OnTopIs
  <2> HIDE DEF b
  <2> QED
    BY <1>4, <2>1
<1> HIDE DEF b
<1>7. d.stack = dirty.stack /\ d.cnt = Grow(dirty.cnt, 1)
  BY DEF Three
<1> HIDE DEF d
<1>8. Below(cntHolder', d.cnt) = b
  BY <1>5, <1>7
<1>9. Len(b) <= 1 /\ \A i \in 1 .. Len(b) : b[i] \in Args
  BY <1>6
<1> QED
  BY <1>1, <1>2, <1>6, <1>7, <1>8, <1>9, ReturnHands

LEMMA PretVoidHands ==
  ASSUME RInv, PretVoid
  PROVE  RInv'
<1> DEFINE b == Below(cntHolder, dirty.cnt)
<1>1. IInv' /\ KeepsLive
  BY PretVoidStep DEF RInv
<1>2. /\ ReadyToReturn /\ Finish("pRetInternal", dirty)
      /\ dirty.cnt.size = 0 /\ cntHolder' = cntHolder
      /\ stack' = stack /\ Installed' = Installed
  BY DEF PretVoid, ReadyToReturn, Installed, persistent
<1>3. b \in Seq(Cells) /\ Len(b) = 0
  <2>1. TypeOK /\ dirty.cnt \in Pointers
    BY PlacedFacts DEF RInv
  <2>2. /\ cntHolder \in [Regions -> [0 .. HolderSize - 1 -> Cells]]
        /\ HolderSize \in Nat
    BY <2>1, MemoryTypes
  <2>3. dirty.cnt.size <= HolderSize
    BY <1>2, <2>2
  <2>4. b \in Seq(Cells) /\ Len(b) = dirty.cnt.size
    BY <2>1, <2>2, <2>3, BelowIs
  <2> QED
    BY <1>2, <2>4
<1>4. Below(cntHolder', dirty.cnt) = b
  BY <1>2
<1> HIDE DEF b
<1>5. Len(b) <= 1 /\ \A i \in 1 .. Len(b) : b[i] \in Args
  BY <1>3
<1> QED
  BY <1>1, <1>2, <1>3, <1>4, <1>5, ReturnHands

-----------------------------------------------------------------------------
\* What the installed capsule can read, as sequences

LEMMA InstalledSizes ==
  ASSUME IInv
  PROVE  /\ Installed.clean.stack.size <= StackSize
         /\ Installed.clean.cnt.size <= HolderSize
         /\ Installed.clean.call.size <= HolderSize
<1>1. /\ Installed.clean.stack.size \in Nat
      /\ Installed.clean.cnt.size \in Nat
      /\ Installed.clean.call.size \in Nat
  BY PlacedFacts DEF Pointers
<1>2. Ready(Installed)
  BY DEF IInv, Sound
<1> QED
  BY <1>1, <1>2, BoundsAssumption
  DEF Ready, ClientReady, ResetReady, CntReady, CallReady, RetReady, RetCntReady

LEMMA InstalledStack ==
  ASSUME IInv
  PROVE  /\ SS \in Seq(Cells) /\ Len(SS) = Installed.clean.stack.size
         /\ \A i \in 1 .. Installed.clean.stack.size :
              SS[i] = stack[Installed.who][i - 1]
<1> DEFINE ptr == Installed.clean.stack
<1>1. ptr \in Pointers /\ ptr.region = Installed.who /\ ptr.size <= StackSize
  BY PlacedFacts, InstalledSizes DEF Anchored
<1>2. stack \in [Regions -> [0 .. StackSize - 1 -> Cells]] /\ StackSize \in Nat
  BY PlacedFacts, MemoryTypes
<1>3. SS = Below(stack, ptr)
  BY DEF SS
<1> HIDE DEF ptr
<1>4. /\ SS \in Seq(Cells) /\ Len(SS) = ptr.size
      /\ \A i \in 1 .. ptr.size : SS[i] = stack[ptr.region][i - 1]
  BY <1>1, <1>2, <1>3, BelowIs
<1> QED
  BY <1>1, <1>4 DEF ptr

LEMMA InstalledCnt ==
  ASSUME IInv
  PROVE  /\ CC \in Seq(Cells) /\ Len(CC) = Installed.clean.cnt.size
         /\ \A i \in 1 .. Installed.clean.cnt.size :
              CC[i] = cntHolder[Installed.who][i - 1]
<1> DEFINE ptr == Installed.clean.cnt
<1>1. ptr \in Pointers /\ ptr.region = Installed.who /\ ptr.size <= HolderSize
  BY PlacedFacts, InstalledSizes DEF Anchored
<1>2. /\ cntHolder \in [Regions -> [0 .. HolderSize - 1 -> Cells]]
      /\ HolderSize \in Nat
  BY PlacedFacts, MemoryTypes
<1>3. CC = Below(cntHolder, ptr)
  BY DEF CC
<1> HIDE DEF ptr
<1>4. /\ CC \in Seq(Cells) /\ Len(CC) = ptr.size
      /\ \A i \in 1 .. ptr.size : CC[i] = cntHolder[ptr.region][i - 1]
  BY <1>1, <1>2, <1>3, BelowIs
<1> QED
  BY <1>1, <1>4 DEF ptr

LEMMA InstalledCallee ==
  ASSUME IInv
  PROVE  /\ KK \in Seq(Cells) /\ Len(KK) = Installed.clean.call.size
         /\ \A i \in 1 .. Installed.clean.call.size :
              KK[i] = callHolder[Installed.who][i - 1]
<1> DEFINE ptr == Installed.clean.call
<1>1. ptr \in Pointers /\ ptr.region = Installed.who /\ ptr.size <= HolderSize
  BY PlacedFacts, InstalledSizes DEF Anchored
<1>2. /\ callHolder \in [Regions -> [0 .. HolderSize - 1 -> Cells]]
      /\ HolderSize \in Nat
  BY PlacedFacts, MemoryTypes
<1>3. KK = Below(callHolder, ptr)
  BY DEF KK
<1> HIDE DEF ptr
<1>4. /\ KK \in Seq(Cells) /\ Len(KK) = ptr.size
      /\ \A i \in 1 .. ptr.size : KK[i] = callHolder[ptr.region][i - 1]
  BY <1>1, <1>2, <1>3, BelowIs
<1> QED
  BY <1>1, <1>4 DEF ptr

\* An internal capsule hands over the same frames and the same function.
LEMMA InternalHands ==
  ASSUME RInv, IInv', KeepsLive, Installed' = Installed, NEW f, NEW d,
         Finish(f, d), FramesOf(next)' = AbstractFrames,
         RunOf(next)' = AbstractRun
  PROVE  RInv'
<1>1. Steps(AbstractFrames, AbstractRun, Installed.who,
            AbstractFrames, AbstractRun)
  BY DEF Steps
<1> QED
  BY <1>1, Handover

-----------------------------------------------------------------------------
\* The copying capsules

\* What they copy to the stack.
LEMMA ResultIs ==
  ASSUME IInv, Copying
  PROVE  /\ Result \in Seq(Cells)
         /\ Len(Result) = dirty.stack.size + CopyTotal
         /\ \A i \in 1 .. dirty.stack.size :
              Result[i] = stack[Installed.who][i - 1]
         /\ \A i \in 0 .. CopyTotal - 1 :
              Result[dirty.stack.size + i + 1] = CopySource(i)
<1> DEFINE u == Stacked(SS, CC)
           k == IF rst = "pCallInternal" THEN KK ELSE <<>>
           ss == dirty.stack.size
           cc == dirty.cnt.size
           kk == IF rst = "pCallInternal" THEN dirty.call.size ELSE 0
           r == Stacked(u, k)
<1>1. /\ dirty = Installed.clean /\ CopyTotal = cc + kk
      /\ ss \in Nat /\ cc \in Nat /\ kk \in Nat
  BY CopyFacts, PlacedFacts DEF CopyTotal, Pointers
<1>2. /\ SS \in Seq(Cells) /\ Len(SS) = ss
      /\ \A i \in 1 .. ss : SS[i] = stack[Installed.who][i - 1]
  BY <1>1, InstalledStack
<1>3. /\ CC \in Seq(Cells) /\ Len(CC) = cc
      /\ \A i \in 1 .. cc : CC[i] = cntHolder[Installed.who][i - 1]
  BY <1>1, InstalledCnt
<1>4. /\ k \in Seq(Cells) /\ Len(k) = kk
      /\ \A i \in 1 .. kk : k[i] = callHolder[Installed.who][i - 1]
  <2>1. CASE rst = "pCallInternal"
    BY <1>1, <2>1, InstalledCallee
  <2>2. CASE rst # "pCallInternal"
    BY <2>2, EmptySeq
  <2> QED
    BY <2>1, <2>2
<1>5. Result = r
  BY DEF Result, Stacked
<1> HIDE DEF k, ss, cc, kk
<1>6. /\ u \in Seq(Cells) /\ Len(u) = ss + cc
      /\ \A i \in 1 .. ss + cc : u[i] = IF i <= ss THEN SS[i] ELSE CC[i - ss]
  <2>1. /\ u \in Seq(Cells) /\ Len(u) = Len(SS) + Len(CC)
        /\ \A i \in 1 .. Len(SS) + Len(CC) :
             u[i] = IF i <= Len(SS) THEN SS[i] ELSE CC[i - Len(SS)]
    BY <1>2, <1>3, StackedIs
  <2> HIDE DEF u
  <2> QED
    BY <1>2, <1>3, <2>1
<1> HIDE DEF u
<1>7. /\ r \in Seq(Cells) /\ Len(r) = ss + cc + kk
      /\ \A i \in 1 .. ss + cc + kk :
           r[i] = IF i <= ss + cc THEN u[i] ELSE k[i - (ss + cc)]
  <2>1. /\ r \in Seq(Cells) /\ Len(r) = Len(u) + Len(k)
        /\ \A i \in 1 .. Len(u) + Len(k) :
             r[i] = IF i <= Len(u) THEN u[i] ELSE k[i - Len(u)]
    BY <1>4, <1>6, StackedIs
  <2> HIDE DEF r
  <2> QED
    BY <1>4, <1>6, <2>1
<1> HIDE DEF r
<1>8. ASSUME NEW i \in 1 .. ss
      PROVE  r[i] = stack[Installed.who][i - 1]
  <2>1. i \in 1 .. ss + cc /\ i \in 1 .. ss + cc + kk /\ i <= ss /\ i <= ss + cc
    BY <1>1
  <2> QED
    BY <1>2, <1>6, <1>7, <2>1
<1>9. ASSUME NEW i \in 0 .. CopyTotal - 1
      PROVE  r[ss + i + 1] = CopySource(i)
  <2> DEFINE j == ss + i + 1
  <2>1. j \in 1 .. ss + cc + kk
    BY <1>1
  <2>2. CASE i < cc
    <3>1. /\ j \in 1 .. ss + cc /\ j <= ss + cc /\ ~(j <= ss)
          /\ j - ss = i + 1 /\ i + 1 \in 1 .. cc /\ i + 1 - 1 = i
      BY <1>1, <2>2
    <3>2. r[j] = cntHolder[Installed.who][i]
      BY <1>3, <1>6, <1>7, <2>1, <3>1
    <3> QED
      BY <2>2, <3>2 DEF CopySource, MyCnt, cc
  <2>3. CASE ~(i < cc)
    <3>1. /\ ~(j <= ss + cc) /\ j - (ss + cc) = i - cc + 1
          /\ i - cc + 1 \in 1 .. kk /\ i - cc + 1 - 1 = i - cc
      BY <1>1, <2>3
    <3> DEFINE l == i - cc + 1
    <3>3. r[j] = k[l]
      BY <1>7, <2>1, <3>1
    <3>4. l \in 1 .. kk /\ l - 1 = i - cc
      BY <1>1, <3>1
    <3> HIDE DEF l
    <3>5. k[l] = callHolder[Installed.who][l - 1]
      BY <1>4, <3>4
    <3>2. r[j] = callHolder[Installed.who][i - cc]
      BY <3>3, <3>4, <3>5
    <3> QED
      BY <2>3, <3>2 DEF CopySource, MyCallee, cc
  <2> QED
    BY <2>2, <2>3
<1>10. r \in Seq(Cells) /\ Len(r) = ss + CopyTotal
  BY <1>1, <1>7
<1> QED
  BY <1>5, <1>8, <1>9, <1>10 DEF ss

\* The cell they jump through.
LEMMA JumpIs ==
  ASSUME IInv, Copying
  PROVE  \/ CopySource(CopyTotal - 1) \notin Internal
         \/ /\ rst = "pCntInternal"
            /\ CopySource(CopyTotal - 1) = "pRetCntInternal"
<1> DEFINE f == CopySource(CopyTotal - 1)
<1>1. CASE CntReady(Installed)
  <2>1. rst = "pCntInternal" /\ CopyTotal = dirty.cnt.size
    BY <1>1, CopyFacts, PlacedFacts DEF CntReady, CopyTotal, rst, Pointers
  <2>2. f = TopOf(cntHolder, Installed.clean.cnt)
    BY <2>1, CopyFacts, PlacedFacts
    DEF CopySource, MyCnt, TopOf, Anchored, Pointers
  <2>3. f \in Funcs \union {"shutdown"} \/ f = "pRetCntInternal"
    BY <1>1, <2>2 DEF CntReady
  <2>4. f \in Funcs \union {"shutdown"} => f \notin Internal
    BY NamesAssumption DEF Internal
  <2> QED
    BY <2>1, <2>3, <2>4
<1>2. CASE CallReady(Installed)
  <2>1. rst = "pCallInternal" /\ CopyTotal = dirty.cnt.size + dirty.call.size
        /\ dirty.call.size \in 1 .. HolderSize
    BY <1>2, CopyFacts, PlacedFacts DEF CallReady, CopyTotal, rst, Pointers
  <2>2. f = TopOf(callHolder, Installed.clean.call)
    BY <2>1, CopyFacts, PlacedFacts
    DEF CopySource, MyCallee, TopOf, Anchored, Pointers
  <2>3. f \in Funcs \/ f = "resetWhoAmI"
    BY <1>2, <2>2 DEF CallReady
  <2> QED
    BY <2>3, NamesAssumption DEF Internal
<1> QED
  BY <1>1, <1>2, CopyFacts

\* The stack they leave is Result, its last cell the function to jump to.
LEMMA CopyDoneHands ==
  ASSUME RInv, CopyDone
  PROVE  RInv'
<1> DEFINE top == Grow(dirty.stack, CopyTotal)
           low == Grow(top, -1)
           f == Top(top)
           k == IF rst = "pCallInternal" THEN Emptied(dirty.call) ELSE dirty.call
           d == Three(low, Emptied(dirty.cnt), k)
           n == Below(cntHolder', d.cnt)
<1>1. /\ IInv /\ IInv' /\ KeepsLive
      /\ Copying /\ copied = CopyTotal /\ Finish(f, d)
      /\ Installed' = Installed /\ stack' = stack /\ callHolder' = callHolder
  BY CopyDoneStep DEF RInv, CopyDone, persistent, Installed
<1>2. /\ top \in Pointers /\ top.region = Installed.who
      /\ top.offset = top.size
      /\ top.size = dirty.stack.size + CopyTotal
      /\ top.size \in 1 .. StackSize /\ dirty.stack.size \in Nat
      /\ CopyTotal \in Nat /\ CopyTotal >= 1
  BY <1>1, CopyFacts, PlacedFacts DEF Grow, Pointers, Anchored
<1>3. /\ stack \in [Regions -> [0 .. StackSize - 1 -> Cells]]
      /\ StackSize \in Nat
  BY <1>1, PlacedFacts, MemoryTypes
<1>4. /\ Result \in Seq(Cells) /\ Len(Result) = top.size
      /\ \A i \in 1 .. dirty.stack.size : Result[i] = stack[Installed.who][i - 1]
      /\ \A i \in 0 .. CopyTotal - 1 :
           Result[dirty.stack.size + i + 1] = CopySource(i)
  BY <1>1, <1>2, ResultIs
<1>5. \A i \in 0 .. CopyTotal - 1 :
        stack[Installed.who][dirty.stack.size + i] = CopySource(i)
  BY <1>1 DEF IInv, CopyWorking
<1> HIDE DEF top
<1>6. Below(stack, top) = Result
  <2> DEFINE t == Below(stack, top)
  <2>1. /\ t \in Seq(Cells) /\ Len(t) = top.size
        /\ \A i \in 1 .. top.size : t[i] = stack[Installed.who][i - 1]
    <3>1. top.size <= StackSize
      BY <1>2
    <3>2. /\ t \in Seq(Cells) /\ Len(t) = top.size
          /\ \A i \in 1 .. top.size : t[i] = stack[top.region][i - 1]
      BY <1>2, <1>3, <3>1, BelowIs
    <3> QED
      BY <1>2, <3>2
  <2> HIDE DEF t
  <2>2. ASSUME NEW i \in 1 .. top.size
        PROVE  t[i] = Result[i]
    <3>1. CASE i <= dirty.stack.size
      <4>1. i \in 1 .. dirty.stack.size
        BY <1>2, <3>1
      <4> QED
        BY <1>4, <2>1, <4>1
    <3>2. CASE ~(i <= dirty.stack.size)
      <4> DEFINE j == i - dirty.stack.size - 1
      <4>1. /\ j \in 0 .. CopyTotal - 1 /\ dirty.stack.size + j + 1 = i
            /\ dirty.stack.size + j = i - 1
        BY <1>2, <3>2
      <4> HIDE DEF j
       <4>2. /\ Result[i] = CopySource(j)
             /\ stack[Installed.who][i - 1] = CopySource(j)
        BY <1>4, <1>5, <4>1
      <4> QED
        BY <2>1, <4>2
    <3> QED
      BY <3>1, <3>2
  <2>3. t = Result
    BY <1>4, <2>1, <2>2, SeqEqual
  <2> QED
    BY <2>3 DEF t
<1>7. /\ Result # <<>> /\ f = Last(Result)
      /\ f = CopySource(CopyTotal - 1)
  <2>1. top.size \in 1 .. top.size /\ top.size >= 1
    BY <1>2
  <2>2. Below(stack, top)[top.size] = f
    BY <1>2, <2>1 DEF Below, Top
  <2>3. Result # <<>>
    BY <1>4, <2>1, EmptySeq
  <2>4. CopyTotal - 1 \in 0 .. CopyTotal - 1
        /\ dirty.stack.size + (CopyTotal - 1) + 1 = top.size
    BY <1>2
  <2>5. Result[top.size] = CopySource(CopyTotal - 1)
    BY <1>4, <2>4
  <2> QED
    BY <1>4, <1>6, <2>2, <2>3, <2>5 DEF Last
<1>8. Below(stack', low) = Front(Result)
  <2>1. /\ low \in Pointers /\ low.region = top.region
        /\ low.size = top.size - 1
    BY <1>2 DEF Grow, Pointers
  <2> HIDE DEF low
  <2>2. low.size <= top.size /\ top.size <= StackSize
    BY <1>2, <2>1
  <2>3. Below(stack, low) = SubSeq(Below(stack, top), 1, low.size)
    BY <1>2, <1>3, <2>1, <2>2, BelowLower
  <2> QED
    BY <1>1, <1>4, <1>6, <2>1, <2>3 DEF Front
<1>9. AbstractFrames = Front(Result)
  BY <1>1 DEF AbstractFrames, Copying
<1>10. d.stack = low /\ d.call = k
  BY DEF Three
<1> HIDE DEF low, d, f
<1>11. /\ FramesOf(next)' = FramesWith(f, Front(Result), n, Below(callHolder', k))
       /\ RunOf(next)' = RunWith(f, Front(Result), n, Below(callHolder', k))
  BY <1>1, <1>8, <1>10, NextView
<1>12. CASE f \notin Internal
  <2>1. FramesOf(next)' = AbstractFrames /\ RunOf(next)' = f
    BY <1>9, <1>11, <1>12, ClientView
  <2>2. AbstractRun = f
    BY <1>1, <1>7, <1>12 DEF AbstractRun, Returning, Copying, Internal
  <2> QED
    BY <1>1, <2>1, <2>2, InternalHands
<1>13. CASE rst = "pCntInternal" /\ f = "pRetCntInternal"
  <2>1. k = Installed.clean.call
    BY <1>1, <1>13, CopyFacts
  <2>2. Below(callHolder', k) = KK
    BY <1>1, <2>1 DEF KK
  <2>3. FramesOf(next)' = AbstractFrames /\ RunOf(next)' = KK[1]
    BY <1>9, <1>11, <1>13, <2>2, RetCntView
  <2>4. AbstractRun = KK[1]
    BY <1>7, <1>13 DEF AbstractRun, Returning
  <2> QED
    BY <1>1, <2>3, <2>4, InternalHands
<1> QED
  BY <1>1, <1>7, <1>12, <1>13, JumpIs

-----------------------------------------------------------------------------
\* The capsules of a return

\* The top of the installed stack, when it holds a continuation.
LEMMA StackTop ==
  ASSUME IInv, Installed.clean.stack.size >= 1
  PROVE  /\ Len(SS) \in 1 .. Len(SS)
         /\ SS = OnTop(SubSeq(SS, 1, Len(SS) - 1), SS[Len(SS)])
         /\ SubSeq(SS, 1, Len(SS) - 1) \in Seq(Cells)
         /\ SS[Len(SS)] \in Cells
         /\ SS[Len(SS)] = TopOf(stack, Installed.clean.stack)
<1> DEFINE n == Len(SS)
<1>1. /\ SS \in Seq(Cells) /\ n = Installed.clean.stack.size /\ n \in Nat
      /\ \A i \in 1 .. n : SS[i] = stack[Installed.who][i - 1]
  BY InstalledStack, LenProperties
<1> HIDE DEF n
<1>2. n \in 1 .. n /\ n - 1 \in 0 .. n
  BY <1>1
<1>3. SS[n] = TopOf(stack, Installed.clean.stack)
  BY <1>1, <1>2, PlacedFacts DEF TopOf, Anchored
<1>4. SubSeq(SS, 1, n) = OnTop(SubSeq(SS, 1, n - 1), SS[n])
  BY <1>1, <1>2, TopOfPrefix DEF n
<1>5. SubSeq(SS, 1, n) = SS
  <2> DEFINE t == SubSeq(SS, 1, n)
  <2>1. n \in 0 .. Len(SS)
    BY <1>2 DEF n
  <2>2. t \in Seq(Cells) /\ Len(t) = n /\ \A i \in 1 .. n : t[i] = SS[i]
    BY <1>1, <2>1, Prefix
  <2> HIDE DEF t
  <2>3. t = SS
    BY <1>1, <2>2, SeqEqual DEF n
  <2> QED
    BY <2>3 DEF t
<1>6. SubSeq(SS, 1, n - 1) \in Seq(Cells) /\ SS[n] \in Cells
  BY <1>1, <1>2, Prefix, ElementOfSeq DEF n
<1> QED
  BY <1>2, <1>3, <1>4, <1>5, <1>6 DEF n

\* What pRetInternal stands for: the continuation, with the returned value in
\* its place.
LEMMA ReturnIs ==
  ASSUME IInv, rst = "pRetInternal"
  PROVE  /\ AbstractFrames = Stacked(SubSeq(SS, 1, Len(SS) - 1), CC)
         /\ AbstractRun = SS[Len(SS)]
<1> DEFINE s == SubSeq(SS, 1, Len(SS) - 1)
           e == SS[Len(SS)]
<1>1. Installed.clean.stack.size >= 1
  <2>1. RetReady(Installed)
    BY NamesAssumption
    DEF IInv, rst, Sound, Ready, ClientReady, ResetReady, CntReady, CallReady,
        RetReady, RetCntReady, Internal
  <2> QED
    BY <2>1 DEF RetReady
<1>2. SS = OnTop(s, e) /\ s \in Seq(Cells) /\ e \in Cells
  BY <1>1, StackTop
<1>3. /\ AbstractFrames = FramesWith("pRetInternal", SS, CC, KK)
      /\ AbstractRun = RunWith("pRetInternal", SS, CC, KK)
  BY AbstractView DEF FramesOf, RunOf, StackOf, CntOf, CalleeOf, SS, CC, KK, rst
<1> HIDE DEF s, e
<1>4. /\ FramesWith("pRetInternal", OnTop(s, e), CC, KK) = Stacked(s, CC)
      /\ RunWith("pRetInternal", OnTop(s, e), CC, KK) = e
  BY <1>2, RetView
<1> QED
  BY <1>2, <1>3, <1>4 DEF s, e

LEMMA ReturnPushHands ==
  ASSUME RInv, ReturnPush
  PROVE  RInv'
<1> DEFINE d == Three(dirty.stack, Grow(dirty.cnt, 1), dirty.call)
           v == "pRetCntInternal"
           s == SubSeq(SS, 1, Len(SS) - 1)
           e == SS[Len(SS)]
           k == Below(callHolder', dirty.call)
<1>1. /\ IInv /\ IInv' /\ KeepsLive
      /\ rst = "pRetInternal" /\ RetReady(Installed)
      /\ dirty = Three(Grow(Installed.clean.stack, -1), Installed.clean.cnt,
                       Grow(Installed.clean.call, 1))
      /\ callHolder[Installed.who][0] = TopOf(stack, Installed.clean.stack)
      /\ cntHolder' = PushedCnt(v) /\ Finish("pCntInternal", d)
      /\ stack' = stack /\ callHolder' = callHolder /\ Installed' = Installed
  BY ReturnPushStep, RetFacts
  DEF RInv, IInv, ReturnWorking, ReturnKeeps, ReturnPush, Installed
<1>2. /\ dirty.stack = Grow(Installed.clean.stack, -1)
      /\ dirty.cnt = Installed.clean.cnt
      /\ dirty.call = Grow(Installed.clean.call, 1)
  BY <1>1 DEF Three
<1>3. /\ Installed.clean.stack.size >= 1
      /\ Installed.clean.cnt.size \in 0 .. 1
      /\ Installed.clean.call.size = 0
  BY <1>1 DEF RetReady
<1>4. /\ SS = OnTop(s, e) /\ s \in Seq(Cells) /\ e \in Cells
      /\ e = TopOf(stack, Installed.clean.stack)
  BY <1>1, <1>3, StackTop
<1>5. AbstractFrames = Stacked(s, CC) /\ AbstractRun = e
  BY <1>1, ReturnIs
<1>6. Below(stack', dirty.stack) = s
  <2> DEFINE ptr == Installed.clean.stack
             low == dirty.stack
  <2>1. /\ stack \in [Regions -> [0 .. StackSize - 1 -> Cells]]
        /\ StackSize \in Nat
    BY <1>1, PlacedFacts, MemoryTypes
  <2>2. /\ ptr \in Pointers /\ low \in Pointers /\ ptr.size <= StackSize
        /\ Len(SS) = ptr.size
    BY <1>1, PlacedFacts, InstalledSizes, InstalledStack
  <2>3. low.region = ptr.region /\ low.size = ptr.size - 1 /\ low.size <= ptr.size
    BY <1>2, <2>2 DEF Grow, Pointers
  <2>4. SS = Below(stack, ptr)
    BY DEF SS
  <2> HIDE DEF ptr, low
  <2>5. Below(stack, low) = SubSeq(Below(stack, ptr), 1, low.size)
    BY <2>1, <2>2, <2>3, BelowLower
  <2>6. low.size = Len(SS) - 1
    BY <2>2, <2>3
  <2> QED
    BY <1>1, <2>4, <2>5, <2>6 DEF low
<1>7. Below(cntHolder', Grow(dirty.cnt, 1)) = OnTop(CC, v)
  <2>1. /\ TypeOK /\ dirty.cnt.offset = dirty.cnt.size
        /\ dirty.cnt.size < HolderSize /\ v \in Cells
    BY <1>1, <1>2, <1>3, PlacedFacts, BoundsAssumption
    DEF Anchored, Cells, Code, Internal
  <2>2. Below(cntHolder, dirty.cnt) = CC
    BY <1>2 DEF CC
  <2> HIDE DEF v
  <2> QED
    BY <1>1, <2>1, <2>2, CntPushed
<1>8. k[1] = e
  <2>1. /\ dirty.call.region = Installed.who /\ dirty.call.size = 1
    <3>1. /\ Installed.clean.call.size = 0
          /\ Installed.clean.call.region = Installed.who
      BY <1>1, <1>3, PlacedFacts DEF Anchored
    <3> QED
      BY <1>2, <3>1 DEF Grow
  <2>2. k[1] = callHolder'[Installed.who][0]
    BY <2>1 DEF Below
  <2> QED
    BY <1>1, <1>4, <2>2
<1>9. d.stack = dirty.stack /\ d.cnt = Grow(dirty.cnt, 1) /\ d.call = dirty.call
  BY DEF Three
<1> HIDE DEF d, s, e
<1>10. /\ FramesOf(next)' = FramesWith("pCntInternal", s, OnTop(CC, v), k)
       /\ RunOf(next)' = RunWith("pCntInternal", s, OnTop(CC, v), k)
  BY <1>1, <1>6, <1>7, <1>9, NextView
<1> HIDE DEF k
<1>11. /\ FramesWith("pCntInternal", s, OnTop(CC, v), k) = Stacked(s, CC)
       /\ RunWith("pCntInternal", s, OnTop(CC, v), k) = k[1]
  <2>1. CC \in Seq(Cells) /\ v \in Cells
    BY <1>1, InstalledCnt DEF Cells, Code, Internal
  <2>2. v = "pRetCntInternal"
    OBVIOUS
  <2> HIDE DEF v
  <2> QED
    BY <1>4, <2>1, <2>2, CntView
<1>12. FramesOf(next)' = AbstractFrames /\ RunOf(next)' = AbstractRun
  BY <1>5, <1>8, <1>10, <1>11
<1> QED
  BY <1>1, <1>12, InternalHands

LEMMA ReturnContinueHands ==
  ASSUME RInv, ReturnContinue
  PROVE  RInv'
<1> DEFINE d == Three(dirty.stack, Grow(dirty.cnt, 1), Emptied(dirty.call))
           v == MyCallee(0)
           k == Below(callHolder', d.call)
<1>1. /\ IInv /\ IInv' /\ KeepsLive
      /\ rst = "pRetCntInternal" /\ RetCntReady(Installed)
      /\ dirty = Installed.clean
      /\ cntHolder' = PushedCnt(v) /\ Finish("pCntInternal", d)
      /\ stack' = stack /\ Installed' = Installed
  BY ReturnContinueStep, NamesAssumption
  DEF RInv, IInv, InternalWorking, ReturnContinue, Installed, rst, Sound, Ready,
      ClientReady, ResetReady, CntReady, CallReady, RetReady, RetCntReady,
      Internal
<1>2. /\ Installed.clean.cnt.size = 0 /\ Installed.clean.call.size = 1
      /\ TopOf(callHolder, Installed.clean.call) \in Funcs
  BY <1>1 DEF RetCntReady
<1>3. v \in Funcs /\ v \in Cells /\ v # "pRetCntInternal"
  BY <1>1, <1>2, PlacedFacts, NamesAssumption
  DEF MyCallee, TopOf, Anchored, Cells, Code, Internal
<1>4. KK[1] = v
  <2>1. 1 \in 1 .. Installed.clean.call.size
    BY <1>2
  <2>2. KK[1] = callHolder[Installed.who][1 - 1]
    BY <1>1, <2>1, InstalledCallee
  <2> QED
    BY <2>2 DEF MyCallee
<1>5. AbstractFrames = SS /\ AbstractRun = v
  BY <1>1, <1>4 DEF AbstractFrames, AbstractRun, Returning
<1>6. SS \in Seq(Cells) /\ CC \in Seq(Cells)
  BY <1>1, InstalledStack, InstalledCnt
<1>7. Below(cntHolder', Grow(dirty.cnt, 1)) = OnTop(CC, v)
  <2>1. /\ TypeOK /\ dirty.cnt.offset = dirty.cnt.size
        /\ dirty.cnt.size < HolderSize
    BY <1>1, <1>2, PlacedFacts, BoundsAssumption DEF Anchored
  <2>2. Below(cntHolder, dirty.cnt) = CC
    BY <1>1 DEF CC
  <2> HIDE DEF v
  <2> QED
    BY <1>1, <1>3, <2>1, <2>2, CntPushed
<1>8. d.stack = Installed.clean.stack /\ d.cnt = Grow(dirty.cnt, 1)
  BY <1>1 DEF Three
<1>9. Below(stack', d.stack) = SS
  BY <1>1, <1>8 DEF SS
<1> HIDE DEF d, v
<1>10. /\ FramesOf(next)' = FramesWith("pCntInternal", SS, OnTop(CC, v), k)
       /\ RunOf(next)' = RunWith("pCntInternal", SS, OnTop(CC, v), k)
  BY <1>1, <1>7, <1>8, <1>9, NextView
<1> HIDE DEF k
<1>11. /\ FramesWith("pCntInternal", SS, OnTop(CC, v), k) = Stacked(SS, CC)
       /\ RunWith("pCntInternal", SS, OnTop(CC, v), k) = v
  BY <1>3, <1>6, CntView
<1>12. Stacked(SS, CC) = SS
  <2>1. CC = <<>>
    BY <1>1, <1>2, InstalledCnt, EmptySeq
  <2> QED
    BY <1>6, <2>1, StackedEmpty
<1> QED
  BY <1>1, <1>5, <1>10, <1>11, <1>12, InternalHands

-----------------------------------------------------------------------------
\* The capsules of capsule.c

LEMMA ShutdownHands ==
  ASSUME RInv, Shutdown
  PROVE  RInv'
<1>1. /\ IInv /\ IInv' /\ KeepsLive
      /\ rst = "shutdown" /\ Finish("shutdown", dirty)
      /\ stack' = stack /\ Installed' = Installed
  BY ShutdownStep DEF RInv, Shutdown, memory, Installed
<1>2. dirty = Installed.clean
  BY <1>1, NamesAssumption DEF Shutdown, IInv, InternalWorking
<1>3. AbstractFrames = SS /\ AbstractRun = "shutdown"
  BY <1>1 DEF AbstractFrames, AbstractRun, Returning
<1>4. Below(stack', dirty.stack) = SS
  BY <1>1, <1>2 DEF SS
<1> DEFINE n == Below(cntHolder', dirty.cnt)
           k == Below(callHolder', dirty.call)
<1>5. /\ FramesOf(next)' = FramesWith("shutdown", SS, n, k)
      /\ RunOf(next)' = RunWith("shutdown", SS, n, k)
  BY <1>1, <1>4, NextView
<1> HIDE DEF n, k
<1>6. "shutdown" \notin Internal
  BY DEF Internal
<1>7. FramesOf(next)' = SS /\ RunOf(next)' = "shutdown"
  BY <1>5, <1>6, ClientView
<1> QED
  BY <1>1, <1>3, <1>7, InternalHands

\* The thread of a process that runs it returns to its continuation.
LEMMA ResetReturnHands ==
  ASSUME RInv, ResetReturn, OwnIdentity
  PROVE  RInv'
<1> DEFINE n == Len(SS)
           s == SubSeq(SS, 1, n - 1)
           e == SS[n]
           k == Below(callHolder', dirty.call)
<1>1. /\ IInv /\ IInv' /\ KeepsLive
      /\ rst = "resetWhoAmI" /\ ResetReady(Installed)
      /\ dirty = Installed.clean /\ Finish("pRetInternal", dirty)
      /\ stack' = stack /\ cntHolder' = cntHolder /\ Installed' = Installed
  BY ResetReturnStep, ResetFacts
  DEF RInv, IInv, ResetWorking, ResetReturn, persistent, Installed
<1>2. /\ Installed.clean.stack.size >= 1 /\ Installed.clean.cnt.size = 0
      /\ TopOf(stack, Installed.clean.stack) \in Funcs
      /\ "resetWhoAmI" \in Callees
  BY <1>1 DEF ResetReady
<1>3. Installed.who = Hard
  BY <1>1, <1>2, PlacedFacts DEF OwnIdentity
<1>4. /\ n \in 1 .. n /\ SS = OnTop(s, e) /\ s \in Seq(Cells) /\ e \in Cells
      /\ e \in Funcs
  BY <1>1, <1>2, StackTop
<1>5. SS \in Seq(Cells) /\ CC \in Seq(Cells) /\ Len(CC) = 0
  BY <1>1, <1>2, InstalledStack, InstalledCnt
<1>6. AbstractFrames = SS /\ AbstractRun = "resetWhoAmI"
  BY <1>1 DEF AbstractFrames, AbstractRun, Returning
<1>7. Below(stack', dirty.stack) = SS /\ Below(cntHolder', dirty.cnt) = CC
  BY <1>1 DEF SS, CC
<1>8. /\ FramesOf(next)' = FramesWith("pRetInternal", SS, CC, k)
      /\ RunOf(next)' = RunWith("pRetInternal", SS, CC, k)
  BY <1>1, <1>7, NextView
<1> HIDE DEF k
<1>9. /\ FramesWith("pRetInternal", SS, CC, k) = Stacked(s, CC)
      /\ RunWith("pRetInternal", SS, CC, k) = e
  <2> HIDE DEF s, e
  <2>1. /\ FramesWith("pRetInternal", OnTop(s, e), CC, k) = Stacked(s, CC)
        /\ RunWith("pRetInternal", OnTop(s, e), CC, k) = e
    BY <1>4, RetView
  <2> QED
    BY <1>4, <2>1
<1>10. PoppedTo(SS, n)
  BY <1>4 DEF PoppedTo
<1>11. Steps(SS, "resetWhoAmI", Hard, Stacked(s, CC), e)
  <2>1. Len(CC) <= 1 /\ \A i \in 1 .. Len(CC) : CC[i] \in Args
    BY <1>5
  <2> QED
    BY <1>4, <1>5, <1>10, <2>1, ReturnStep
<1> QED
  BY <1>1, <1>3, <1>6, <1>8, <1>9, <1>11, Handover

-----------------------------------------------------------------------------
\* The steps in the body of a capsule, and those of the trampoline

LEMMA BodyRInv ==
  ASSUME IInv', pc' \notin {"write", "written", "swing"}, ClientUses',
         ReturnKeeps'
  PROVE  RInv'
BY DEF RInv, HandedOver

\* No client and no return is at work after the step.
LEMMA QuietRInv ==
  ASSUME IInv', ~InClient', pc' \notin {"return", "write", "written", "swing"}
  PROVE  RInv'
<1>1. ClientUses' /\ ReturnKeeps'
  BY DEF ClientUses, ReturnKeeps
<1> QED
  BY <1>1, BodyRInv

LEMMA PopArgUses ==
  ASSUME RInv, IInv', PopArg
  PROVE  RInv'
<1>1. /\ IInv /\ InClient /\ Top(dirty.stack) \in Args
      /\ dirty.stack.size > 0
      /\ dirty' = Three(Grow(dirty.stack, -1), dirty.cnt, dirty.call)
      /\ stack' = stack /\ cntHolder' = cntHolder /\ callHolder' = callHolder
      /\ Installed' = Installed /\ pc' = "body"
  BY DEF RInv, PopArg, InClient, Installed, persistent
<1>2. /\ dirty'.stack.size = dirty.stack.size - 1
      /\ dirty'.cnt = dirty.cnt /\ dirty'.call = dirty.call
  BY <1>1 DEF Three, Grow
<1>3. /\ dirty.stack.offset = dirty.stack.size
      /\ dirty.stack.region = Installed.who
      /\ dirty.stack.size \in Nat /\ Installed.clean.stack.size \in Nat
  BY <1>1, ClientFacts, PlacedFacts DEF Anchored, Pointers
<1>4. ASSUME NEW i \in dirty'.stack.size .. Installed.clean.stack.size - 1
      PROVE  stack[Installed.who][i] \in Args
  <2>1. CASE i = dirty.stack.size - 1
    BY <1>1, <1>3, <2>1 DEF Top
  <2>2. CASE i # dirty.stack.size - 1
    <3>1. i \in dirty.stack.size .. Installed.clean.stack.size - 1
      BY <1>2, <1>3, <2>2
    <3> QED
      BY <1>1, <3>1 DEF RInv, ClientUses
  <2> QED
    BY <2>1, <2>2
<1>5. /\ \A i \in 0 .. dirty.cnt.size - 1 : cntHolder[Installed.who][i] \in Args
      /\ \A i \in 0 .. dirty.call.size - 1 : callHolder[Installed.who][i] \in Args
  BY <1>1 DEF RInv, ClientUses
<1>6. ClientUses'
  BY <1>1, <1>2, <1>4, <1>5 DEF ClientUses
<1>7. ReturnKeeps'
  BY <1>1 DEF ReturnKeeps
<1> QED
  BY <1>1, <1>6, <1>7, BodyRInv

LEMMA PushCntArgUses ==
  ASSUME RInv, IInv', NEW v \in Args, PushCntArg(v)
  PROVE  RInv'
<1>1. /\ IInv /\ InClient /\ dirty.cnt.size + 1 < HolderSize
      /\ dirty' = Three(dirty.stack, Grow(dirty.cnt, 1), dirty.call)
      /\ stack' = stack /\ callHolder' = callHolder /\ cntHolder' = PushedCnt(v)
      /\ Installed' = Installed /\ pc' = "body" /\ v \in Cells
  BY DEF RInv, PushCntArg, InClient, Installed, Cells
<1>2. /\ dirty'.cnt.size = dirty.cnt.size + 1
      /\ dirty'.stack = dirty.stack /\ dirty'.call = dirty.call
  BY <1>1 DEF Three, Grow
<1>3. /\ dirty.cnt.offset = dirty.cnt.size
      /\ dirty.cnt.region = Installed.who /\ dirty.cnt.region \in Regions
      /\ dirty.cnt.size \in Nat /\ TypeOK
  BY <1>1, ClientFacts, PlacedFacts DEF Anchored, Pointers
<1>4. /\ cntHolder'[Installed.who][dirty.cnt.size] = v
      /\ \A i \in 0 .. HolderSize - 1 :
           i # dirty.cnt.size =>
             cntHolder'[Installed.who][i] = cntHolder[Installed.who][i]
  <2>1. dirty.cnt.offset < HolderSize
    BY <1>1, <1>3, BoundsAssumption
  <2>2. cntHolder'[Installed.who][dirty.cnt.size] = v
    BY <1>1, <1>3, <2>1, PushCnt
  <2>3. \A i \in 0 .. HolderSize - 1 :
          i # dirty.cnt.size =>
            cntHolder'[Installed.who][i] = cntHolder[Installed.who][i]
    BY <1>1, <1>3, PushCnt
  <2> QED
    BY <2>2, <2>3
<1>5. ASSUME NEW i \in 0 .. dirty'.cnt.size - 1
      PROVE  cntHolder'[Installed.who][i] \in Args
  <2>1. CASE i = dirty.cnt.size
    BY <1>4, <2>1
  <2>2. CASE i # dirty.cnt.size
    <3>1. i \in 0 .. dirty.cnt.size - 1 /\ i \in 0 .. HolderSize - 1
      BY <1>1, <1>2, <1>3, <2>2, BoundsAssumption
    <3>2. cntHolder[Installed.who][i] \in Args
      BY <1>1, <3>1 DEF RInv, ClientUses
    <3> QED
      BY <1>4, <2>2, <3>1, <3>2
  <2> QED
    BY <2>1, <2>2
<1>6. /\ \A i \in dirty.stack.size .. Installed.clean.stack.size - 1 :
           stack[Installed.who][i] \in Args
      /\ \A i \in 0 .. dirty.call.size - 1 : callHolder[Installed.who][i] \in Args
  BY <1>1 DEF RInv, ClientUses
<1>7. ClientUses'
  BY <1>1, <1>2, <1>5, <1>6 DEF ClientUses
<1>8. ReturnKeeps'
  BY <1>1 DEF ReturnKeeps
<1> QED
  BY <1>1, <1>7, <1>8, BodyRInv

LEMMA PushCalleeArgUses ==
  ASSUME RInv, IInv', NEW v \in Args, PushCalleeArg(v)
  PROVE  RInv'
<1>1. /\ IInv /\ InClient /\ dirty.call.size + 1 < HolderSize
      /\ dirty' = Three(dirty.stack, dirty.cnt, Grow(dirty.call, 1))
      /\ stack' = stack /\ cntHolder' = cntHolder
      /\ callHolder' = PushedCallee(v)
      /\ Installed' = Installed /\ pc' = "body" /\ v \in Cells
  BY DEF RInv, PushCalleeArg, InClient, Installed, Cells
<1>2. /\ dirty'.call.size = dirty.call.size + 1
      /\ dirty'.stack = dirty.stack /\ dirty'.cnt = dirty.cnt
  BY <1>1 DEF Three, Grow
<1>3. /\ dirty.call.offset = dirty.call.size
      /\ dirty.call.region = Installed.who /\ dirty.call.region \in Regions
      /\ dirty.call.size \in Nat /\ TypeOK
  BY <1>1, ClientFacts, PlacedFacts DEF Anchored, Pointers
<1>4. /\ callHolder'[Installed.who][dirty.call.size] = v
      /\ \A i \in 0 .. HolderSize - 1 :
           i # dirty.call.size =>
             callHolder'[Installed.who][i] = callHolder[Installed.who][i]
  <2>1. dirty.call.offset < HolderSize
    BY <1>1, <1>3, BoundsAssumption
  <2>2. callHolder'[Installed.who][dirty.call.size] = v
    BY <1>1, <1>3, <2>1, PushCallee
  <2>3. \A i \in 0 .. HolderSize - 1 :
          i # dirty.call.size =>
            callHolder'[Installed.who][i] = callHolder[Installed.who][i]
    BY <1>1, <1>3, PushCallee
  <2> QED
    BY <2>2, <2>3
<1>5. ASSUME NEW i \in 0 .. dirty'.call.size - 1
      PROVE  callHolder'[Installed.who][i] \in Args
  <2>1. CASE i = dirty.call.size
    BY <1>4, <2>1
  <2>2. CASE i # dirty.call.size
    <3>1. i \in 0 .. dirty.call.size - 1 /\ i \in 0 .. HolderSize - 1
      BY <1>1, <1>2, <1>3, <2>2, BoundsAssumption
    <3>2. callHolder[Installed.who][i] \in Args
      BY <1>1, <3>1 DEF RInv, ClientUses
    <3> QED
      BY <1>4, <2>2, <3>1, <3>2
  <2> QED
    BY <2>1, <2>2
<1>6. /\ \A i \in dirty.stack.size .. Installed.clean.stack.size - 1 :
           stack[Installed.who][i] \in Args
      /\ \A i \in 0 .. dirty.cnt.size - 1 : cntHolder[Installed.who][i] \in Args
  BY <1>1 DEF RInv, ClientUses
<1>7. ClientUses'
  BY <1>1, <1>2, <1>5, <1>6 DEF ClientUses
<1>8. ReturnKeeps'
  BY <1>1 DEF ReturnKeeps
<1> QED
  BY <1>1, <1>7, <1>8, BodyRInv

LEMMA ReturnPopKeeps ==
  ASSUME RInv, IInv', ReturnPop
  PROVE  RInv'
<1> DEFINE v == Top(dirty.stack)
<1>1. /\ IInv /\ dirty = Installed.clean /\ RetReady(Installed)
      /\ callHolder' = PushedCallee(v) /\ stack' = stack
      /\ Installed' = Installed /\ pc' = "return"
  BY RetFacts, NamesAssumption
  DEF RInv, IInv, InternalWorking, ReturnPop, Installed, rst, Internal
<1>2. /\ dirty.call.offset = 0 /\ dirty.call.region = Installed.who
      /\ v = TopOf(stack, Installed.clean.stack) /\ v \in Cells /\ TypeOK
  BY <1>1, PlacedFacts DEF RetReady, Anchored, Top, TopOf, Cells, Code
<1>3. callHolder'[Installed.who][0] = v
  BY <1>1, <1>2, PushCallee, BoundsAssumption
<1>4. ReturnKeeps'
  BY <1>1, <1>2, <1>3 DEF ReturnKeeps, TopOf
<1>5. ClientUses'
  BY <1>1 DEF ClientUses, InClient
<1> QED
  BY <1>1, <1>4, <1>5, BodyRInv

LEMMA LoadUses ==
  ASSUME RInv, IInv', Load
  PROVE  RInv'
<1>1. /\ IInv /\ dirty' = Installed.clean /\ Installed' = Installed
      /\ pc' = "body"
  BY DEF RInv, Load, Installed, persistent
<1>2. InClient' => Installed.clean.cnt.size = 0 /\ Installed.clean.call.size = 0
  BY <1>1, NamesAssumption
  DEF InClient, rst, IInv, Sound, Ready, ClientReady, ResetReady, CntReady,
      CallReady, RetReady, RetCntReady, Internal
<1>3. Installed.clean.stack.size \in Nat
  BY <1>1, PlacedFacts DEF Pointers
<1>4. ClientUses'
  BY <1>1, <1>2, <1>3 DEF ClientUses
<1>5. ReturnKeeps'
  BY <1>1 DEF ReturnKeeps
<1> QED
  BY <1>1, <1>4, <1>5, BodyRInv

\* Writing the other capsule changes nothing next or Installed stand for.
LEMMA WriteHands ==
  ASSUME RInv, IInv', pc \in {"write", "written"}, pc' \in {"written", "swing"},
         UNCHANGED <<memory, next>>, Installed' = Installed
  PROVE  RInv'
<1>1. /\ FramesOf(next)' = FramesOf(next) /\ RunOf(next)' = RunOf(next)
      /\ next' = next
  BY DEF memory, FramesOf, RunOf, StackOf, CntOf, CalleeOf, Below
<1>2. AbstractFrames' = AbstractFrames /\ AbstractRun' = AbstractRun
  BY QuietKeepsLive, Unread DEF RInv
<1>3. HandedOver'
  BY <1>1, <1>2 DEF RInv, HandedOver
<1>4. ClientUses' /\ ReturnKeeps'
  BY DEF ClientUses, ReturnKeeps, InClient
<1> QED
  BY <1>3, <1>4 DEF RInv

LEMMA StutterRInv ==
  ASSUME RInv, IInv', UNCHANGED vars
  PROVE  RInv'
<1>1. /\ UNCHANGED <<stack, cntHolder, callHolder, dirty, next, pc>>
      /\ Installed' = Installed
  BY DEF vars, persistent, Installed
<1>2. /\ FramesOf(next)' = FramesOf(next) /\ RunOf(next)' = RunOf(next)
  BY <1>1 DEF FramesOf, RunOf, StackOf, CntOf, CalleeOf, Below
<1>3. AbstractFrames' = AbstractFrames /\ AbstractRun' = AbstractRun
  BY <1>1, QuietKeepsLive, Unread DEF RInv, memory
<1>4. HandedOver'
  BY <1>1, <1>2, <1>3 DEF RInv, HandedOver
<1>5. ClientUses'
  BY <1>1 DEF RInv, ClientUses, InClient, rst
<1>6. ReturnKeeps'
  BY <1>1 DEF RInv, ReturnKeeps, TopOf
<1> QED
  BY <1>4, <1>5, <1>6 DEF RInv

-----------------------------------------------------------------------------
\* The invariant

LEMMA InitRInv ==
  ASSUME Init
  PROVE  RInv
<1>1. IInv
  BY InitIInv
<1>2. pc = "load"
  BY DEF Init
<1> QED
  BY <1>1, <1>2 DEF RInv, ClientUses, InClient, ReturnKeeps, HandedOver

LEMMA StepRInv ==
  ASSUME RInv, [Next]_vars, OwnIdentity
  PROVE  RInv'
<1> USE DEF Machine
<1>0. IInv /\ IInv'
  BY StepIInv DEF RInv
<1>1. CASE PopArg
  BY <1>0, <1>1, PopArgUses
<1>2. ASSUME NEW v \in Args, PushCntArg(v) \/ PushCalleeArg(v) \/ Pret(v)
      PROVE  RInv'
  BY <1>0, <1>2, PushCntArgUses, PushCalleeArgUses, PretHands
<1>3. ASSUME NEW f \in Funcs \union {"shutdown"}, Pcnt(f)
      PROVE  RInv'
  BY <1>3, PcntHands
<1>4. ASSUME NEW f \in Funcs, NEW g \in Callees, Pcall(g, f)
      PROVE  RInv'
  BY <1>4, PcallHands
<1>5. CASE PretVoid
  BY <1>5, PretVoidHands
<1>6. CASE Trampoline
  <2>1. CASE Load
    BY <1>0, <2>1, LoadUses
  <2>2. CASE Exit
    BY <1>0, <2>2, QuietRInv DEF Exit, InClient
  <2>3. CASE WriteFirst \/ WriteRest
    <3>1. Installed' = Installed
      BY <1>0, <2>3 DEF IInv, TypeOK, WriteFirst, WriteRest, Installed, Other
    <3> QED
      BY <1>0, <2>3, <3>1, WriteHands DEF WriteFirst, WriteRest
  <2>4. CASE Swing
    BY <1>0, <2>4, QuietRInv DEF Swing, InClient
  <2> QED
    BY <1>6, <2>1, <2>2, <2>3, <2>4 DEF Trampoline
<1>7. CASE StackCode
  <2>1. CASE CopyToStack
    <3>1. ~InClient' /\ pc' = "body"
      BY <2>1, NamesAssumption
      DEF CopyToStack, Copying, InClient, Installed, rst, Internal
    <3> QED
      BY <1>0, <3>1, QuietRInv
  <2> QED
    BY <1>0, <1>7, <2>1, CopyDoneHands, ReturnPopKeeps, ReturnPushHands,
       ReturnContinueHands DEF StackCode
<1>8. CASE CapsuleCode
  <2>1. CASE EditWho
    BY <1>0, <2>1, QuietRInv DEF EditWho, InClient
  <2> QED
    BY <1>8, <2>1, ResetReturnHands, ShutdownHands DEF CapsuleCode
<1>9. CASE Fault
  BY <1>0, <1>9, QuietRInv DEF Fault, InClient
<1>10. CASE QuitElsewhere
  BY <1>0, <1>10, QuietRInv DEF QuitElsewhere, InClient
<1>11. CASE UNCHANGED vars
  BY <1>0, <1>11, StutterRInv
<1> QED
  BY <1>1, <1>2, <1>3, <1>4, <1>5, <1>6, <1>7, <1>8, <1>9, <1>10, <1>11
  DEF Next, Client, Exited

\* What a body hands over is one step of CallStack away, in every behaviour
\* with faults.
THEOREM HandoverInvariance ==
  ASSUME OwnIdentity
  PROVE  Spec => []RInv
<1>1. Init => RInv
  BY InitRInv
<1>2. RInv /\ [Next]_vars => RInv'
  BY StepRInv
<1> QED
  BY <1>1, <1>2, PTL DEF Spec

-----------------------------------------------------------------------------
\* The refinement

\* Only Swing replaces the installed capsule.
LEMMA InstalledSteady ==
  ASSUME IInv, [Next]_vars, OwnIdentity, ~Swing
  PROVE  Installed' = Installed
<1>1. CASE WriteFirst \/ WriteRest
  BY <1>1 DEF IInv, TypeOK, WriteFirst, WriteRest, Installed, Other
<1>2. CASE EditWho
  <2>1. ResetReady(Installed)
    BY <1>2, ResetFacts DEF EditWho
  <2>2. Installed.who = Hard
    BY <2>1, PlacedFacts DEF ResetReady, OwnIdentity
  <2>3. Installed \in Capsules /\ TypeOK
    BY PlacedFacts
  <2>4. slot' = slot /\ current' = current
    BY <1>2, <2>2, <2>3 DEF EditWho, TypeOK, Installed, Capsules
  <2> QED
    BY <2>4 DEF Installed
<1>3. CASE UNCHANGED <<slot, current>>
  BY <1>3 DEF Installed
<1>4. WriteFirst \/ WriteRest \/ EditWho \/ UNCHANGED <<slot, current>>
  BY DEF Next, Machine, Client, Trampoline, StackCode, CapsuleCode, Exited,
         PopArg, PushCntArg, PushCalleeArg, Pret, Pcnt, Pcall, PretVoid, Load,
         Exit, CopyToStack, CopyDone, ReturnPop, ReturnPush, ReturnContinue,
         ResetReturn, Shutdown, Fault, QuitElsewhere, vars, persistent
<1> QED
  BY <1>1, <1>2, <1>3, <1>4

LEMMA ResultType ==
  ASSUME IInv
  PROVE  Result \in Seq(Cells)
<1>1. SS \in Seq(Cells) /\ CC \in Seq(Cells) /\ KK \in Seq(Cells)
  BY InstalledStack, InstalledCnt, InstalledCallee
<1> DEFINE k == IF rst = "pCallInternal" THEN KK ELSE <<>>
<1>2. k \in Seq(Cells)
  BY <1>1, EmptySeq
<1>3. Result = Stacked(Stacked(SS, CC), k)
  BY DEF Result, Stacked
<1> HIDE DEF k
<1>4. Stacked(SS, CC) \in Seq(Cells)
  BY <1>1, StackedIs
<1> QED
  BY <1>2, <1>3, <1>4, StackedIs

LEMMA FramesType ==
  ASSUME IInv
  PROVE  AbstractFrames \in Seq(Cells)
<1>1. SS \in Seq(Cells) /\ CC \in Seq(Cells)
  BY InstalledStack, InstalledCnt
<1>2. CASE rst = "pRetInternal"
  <2>1. Installed.clean.stack.size >= 1
    <3>1. RetReady(Installed)
      BY <1>2, NamesAssumption
      DEF IInv, rst, Sound, Ready, ClientReady, ResetReady, CntReady, CallReady,
          RetReady, RetCntReady, Internal
    <3> QED
      BY <3>1 DEF RetReady
  <2> QED
    BY <1>1, <1>2, <2>1, StackTop, ReturnIs, StackedIs
<1>3. CASE rst \in {"pCntInternal", "pCallInternal"}
  <2>1. Result \in Seq(Cells) /\ Result # <<>>
    BY <1>3, ResultType, IInvIntact DEF InstalledIntact
  <2>2. Len(Result) - 1 \in 0 .. Len(Result)
    BY <2>1, EmptySeq, LenProperties
  <2>3. Front(Result) \in Seq(Cells)
    BY <2>1, <2>2, Prefix DEF Front
  <2> QED
    BY <1>3, <2>3 DEF AbstractFrames
<1>4. CASE rst \notin {"pRetInternal", "pCntInternal", "pCallInternal"}
  BY <1>1, <1>4 DEF AbstractFrames
<1> QED
  BY <1>2, <1>3, <1>4

\* The relation Steps is the next-state relation of CallStack.
LEMMA StepsIsNext ==
  ASSUME AbstractFrames \in Seq(Cells), Installed'.who = Installed.who,
         Steps(AbstractFrames, AbstractRun, Installed.who,
               AbstractFrames', AbstractRun')
  PROVE  [Abstract!Next]_(Abstract!vars)
<1> DEFINE s == AbstractFrames
           t == AbstractFrames'
           f == AbstractRun
           g == AbstractRun'
           w == Installed.who
<1>1. CASE t = s /\ g = f
  BY <1>1 DEF Abstract!vars
<1>2. ASSUME NEW n \in 0 .. Len(s), PoppedTo(s, n),
             \/ Continues(SubSeq(s, 1, n), f, t, g)
             \/ Calls(SubSeq(s, 1, n), f, t, g)
             \/ /\ f \in Funcs \/ (f = "resetWhoAmI" /\ w = Hard /\ n = Len(s))
                /\ Returns(SubSeq(s, 1, n), t, g)
      PROVE  Abstract!Next
  <2> DEFINE k == Len(s) - n
  <2>1. k \in 0 .. Len(s) /\ Len(s) - k = n /\ (n = Len(s) => k = 0)
    BY LenProperties
  <2> HIDE DEF k
  <2>2. Abstract!Keep(k) = SubSeq(s, 1, n)
    BY <2>1 DEF Abstract!Keep
  <2>3. Abstract!Popped(k)
    BY <1>2, <2>1 DEF Abstract!Popped, PoppedTo
  <2>4. CASE Continues(SubSeq(s, 1, n), f, t, g)
    <3>1. Abstract!Continue(k)
      BY <2>2, <2>3, <2>4 DEF Abstract!Continue, Continues, Abstract!Pushed, Onto
    <3> QED
      BY <2>1, <3>1 DEF Abstract!Next
  <2>5. CASE Calls(SubSeq(s, 1, n), f, t, g)
    <3>1. Abstract!Call(k)
      BY <2>2, <2>3, <2>5 DEF Abstract!Call, Calls, Abstract!Pushed, Onto
    <3> QED
      BY <2>1, <3>1 DEF Abstract!Next
  <2>6. CASE /\ f \in Funcs \/ (f = "resetWhoAmI" /\ w = Hard /\ n = Len(s))
             /\ Returns(SubSeq(s, 1, n), t, g)
    <3>1. Abstract!Return(k)
      BY <2>1, <2>2, <2>3, <2>6
      DEF Abstract!Return, Returns, Abstract!Pushed, Onto
    <3> QED
      BY <2>1, <3>1 DEF Abstract!Next
  <2> QED
    BY <1>2, <2>4, <2>5, <2>6
<1> QED
  BY <1>1, <1>2 DEF Steps

LEMMA StepRefines ==
  ASSUME RInv, [Next]_vars, OwnIdentity
  PROVE  [Abstract!Next]_(Abstract!vars)
<1>1. IInv /\ KeepsLive
  BY StepIInv DEF RInv
<1>2. CASE Swing
  <2>1. /\ pc = "swing" /\ UNCHANGED memory /\ Installed' = next
    BY <1>1, <1>2 DEF Swing, Installed, IInv, HandoverWorking
  <2>2. /\ FramesOf(Installed)' = FramesOf(next)
        /\ RunOf(Installed)' = RunOf(next)
    BY <2>1 DEF memory, FramesOf, RunOf, StackOf, CntOf, CalleeOf, Below
  <2>3. /\ AbstractFrames' = FramesOf(Installed)'
        /\ AbstractRun' = RunOf(Installed)'
    BY DEF AbstractFrames, AbstractRun, FramesOf, RunOf, FramesWith, RunWith,
           StackOf, CntOf, CalleeOf, SS, CC, KK, Result, ResultWith, Returning,
           ReturningWith, rst, Stacked
  <2>4. /\ Installed'.who = Installed.who
        /\ Steps(AbstractFrames, AbstractRun, Installed.who,
                 AbstractFrames', AbstractRun')
    BY <2>1, <2>2, <2>3 DEF RInv, HandedOver
  <2> QED
    BY <1>1, <2>4, FramesType, StepsIsNext
<1>3. CASE ~Swing
  <2>1. Installed' = Installed
    BY <1>1, <1>3, InstalledSteady
  <2>2. AbstractFrames' = AbstractFrames /\ AbstractRun' = AbstractRun
    BY <1>1, <2>1, Unread
  <2> QED
    BY <2>1, <2>2 DEF Abstract!vars
<1> QED
  BY <1>2, <1>3

LEMMA InitRefines ==
  ASSUME Init
  PROVE  Abstract!Init
<1> PICK r \in Owners, f \in Funcs : slot = <<First(r, f), Torn>>
  BY DEF Init
<1>1. Installed = First(r, f) /\ IInv
  BY InitIInv DEF Init, Installed
<1>2. rst = f /\ Installed.who = r /\ Installed.clean.stack.size = 0
  BY <1>1 DEF rst, First, Start, Three, At
<1>3. f \notin Internal /\ r \in Regions
  BY NamesAssumption, RegionsAssumption
<1>4. AbstractFrames = SS /\ AbstractRun = f
  BY <1>2, <1>3, AbstractView, ClientView DEF FramesOf, RunOf, StackOf, SS, rst
<1>5. SS = <<>>
  BY <1>1, <1>2, InstalledStack, EmptySeq
<1> QED
  BY <1>2, <1>3, <1>4, <1>5 DEF Abstract!Init

\* pStack.h and README, "Persistent Stack": whatever step a fault interrupts,
\* the capsules and the trampoline make the calls, continuations and returns
\* CallStack specifies, each once and on the arguments pushed for it.
THEOREM Refinement ==
  ASSUME OwnIdentity
  PROVE  Spec => ImplementsCallStack
<1>1. Init => Abstract!Init
  BY InitRefines
<1>2. RInv /\ [Next]_vars => [Abstract!Next]_(Abstract!vars)
  BY StepRefines
<1>3. Spec => []RInv
  BY HandoverInvariance
<1> QED
  BY <1>1, <1>2, <1>3, PTL DEF Spec, ImplementsCallStack, Abstract!Spec
=============================================================================
