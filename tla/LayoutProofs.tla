---------------------------- MODULE LayoutProofs ----------------------------
(***************************************************************************)
(* Theorems about Layout, for configurations of any size.                  *)
(***************************************************************************)
EXTENDS Layout, TLAPS

LEMMA ConfNat == ASSUME TypeOK, NEW f \in Fields PROVE conf[f] \in Nat
BY ConfigsAssumption DEF TypeOK

LEMMA Products == \A x, y \in Nat : x * y \in Nat
OBVIOUS

LEMMA RoundUpNat == ASSUME NEW n \in Nat PROVE RoundUp(n, 4) \in Nat /\ RoundUp(n, 8) \in Nat
BY DEF RoundUp

LEMMA JobNat == ASSUME TypeOK PROVE JobBytes \in Nat /\ SetBytes \in Nat
<1>1. 16 + CapsuleBytes + conf["argSize"] \in Nat
  BY ConfNat DEF Fields, CapsuleBytes
<1>2. RoundUp(16 + CapsuleBytes + conf["argSize"], 4) + IntBytes \in Nat
  BY <1>1, RoundUpNat DEF IntBytes
<1>3. JobBytes \in Nat
  BY <1>2, RoundUpNat DEF JobBytes
<1> QED
  BY <1>3 DEF SetBytes

LEMMA OrderIn == \A m \in 1 .. Count : Order[m] \in Regions
BY DEF Regions

\* No region is carved twice.
LEMMA OrderInjective == \A m, n \in 1 .. Count : m # n => Order[m] # Order[n]
BY DEF Order, Count

LEMMA BytesNat == ASSUME TypeOK, NEW n \in Regions PROVE Bytes(n) \in Nat
<1>1. /\ conf["procs"] \in Nat /\ conf["dequeLength"] \in Nat
      /\ conf["holding"] \in Nat /\ conf["pstack"] \in Nat
      /\ conf["sets"] \in Nat /\ conf["entries"] \in Nat /\ conf["pool"] \in Nat
  BY ConfNat DEF Fields
<1>2. /\ JobBytes * conf["dequeLength"] * conf["procs"] \in Nat
      /\ SetBytes * conf["sets"] \in Nat
      /\ conf["pstack"] * conf["procs"] \in Nat
      /\ BothHolders \in Nat
  BY <1>1, JobNat, Products DEF BothHolders
<1> QED
  BY <1>1, <1>2
  DEF Bytes, Regions, Order, Count, PMemBytes, CapsuleBytes, IntBytes,
      ProcDataBytes, EntryBytes

-----------------------------------------------------------------------------
\* Carving keeps the regions apart.

LEMMA InitInvariant == Init => LInv
BY DEF Init, LInv, TypeOK, Count

LEMMA CarveStep == ASSUME LInv, Carve PROVE LInv'
<1>1. PICK r \in Regions : r = Order[at + 1] /\ at + 1 \in 1 .. Count
  BY OrderIn DEF LInv, TypeOK, Carve, Count
<1>2. /\ TypeOK /\ at \in 0 .. Count - 1
      /\ start' = [start EXCEPT ![r] = cursor]
      /\ cursor' = cursor + Bytes(r) /\ at' = at + 1 /\ conf' = conf
  BY <1>1 DEF LInv, TypeOK, Carve, Count
<1>3. Bytes(r) \in Nat /\ \A n \in Regions : Bytes(n) \in Nat /\ Bytes(n)' = Bytes(n)
  <2>1. \A n : Bytes(n)' = Bytes(n)
    BY <1>2 DEF Bytes, JobBytes, SetBytes, BothHolders
  <2> QED
    BY <1>2, <1>1, <2>1, BytesNat
<1>4. TypeOK'
  BY <1>2, <1>1, <1>3 DEF TypeOK, Count
<1>5. \A m \in 1 .. at : /\ Order[m] \in Regions
                         /\ start'[Order[m]] = start[Order[m]]
                         /\ End(Order[m])' = End(Order[m])
                         /\ End(Order[m]) \in Nat
  <2> SUFFICES ASSUME NEW m \in 1 .. at
               PROVE  /\ Order[m] \in Regions
                      /\ start'[Order[m]] = start[Order[m]]
                      /\ End(Order[m])' = End(Order[m])
                      /\ End(Order[m]) \in Nat
    OBVIOUS
  <2>1. m \in 1 .. Count /\ m # at + 1
    BY <1>2 DEF Count
  <2>2. Order[m] \in Regions /\ Order[m] # r
    BY <1>1, <2>1, OrderIn, OrderInjective
  <2>3. start'[Order[m]] = start[Order[m]] /\ start[Order[m]] \in Nat
    BY <1>2, <2>2 DEF TypeOK
  <2> QED
    BY <1>3, <2>2, <2>3 DEF End
<1>6. start'[r] = cursor /\ End(r)' = cursor'
  BY <1>2, <1>3 DEF End, TypeOK
<1>7. cursor \in Nat /\ cursor <= cursor'
  BY <1>2, <1>3 DEF TypeOK
<1>8. ASSUME NEW m \in 1 .. at' PROVE (End(Order[m]) <= cursor)'
  <2>1. CASE m = at + 1
    BY <1>1, <1>4, <1>6, <2>1 DEF TypeOK
  <2>2. CASE m \in 1 .. at
    BY <1>4, <1>5, <1>7, <2>2 DEF LInv, TypeOK
  <2> QED
    BY <1>2, <2>1, <2>2
<1>9. ASSUME NEW m \in 1 .. at', NEW n \in 1 .. at', m < n
      PROVE  (End(Order[m]) <= start[Order[n]])'
  <2>1. m \in 1 .. at
    BY <1>2, <1>9
  <2>2. CASE n = at + 1
    BY <1>1, <1>5, <1>6, <2>1, <2>2 DEF LInv
  <2>3. CASE n \in 1 .. at
    BY <1>5, <1>9, <2>1, <2>3 DEF LInv
  <2> QED
    BY <1>2, <2>2, <2>3
<1> QED
  BY <1>4, <1>8, <1>9 DEF LInv

\* Every region carved starts where the one before ends.
THEOREM LayoutInvariance == Spec => []LInv
<1>1. LInv /\ [Carve]_vars => LInv'
  <2>1. ASSUME LInv, UNCHANGED vars PROVE LInv'
    BY <2>1 DEF vars, LInv, TypeOK, End, Bytes, JobBytes, SetBytes, BothHolders
  <2> QED
    BY <2>1, CarveStep
<1> QED
  BY InitInvariant, <1>1, PTL DEF Spec

-----------------------------------------------------------------------------
\* Slots of a region

LEMMA SlotsApart ==
  ASSUME NEW x \in Nat, NEW y \in Nat, NEW w \in Nat, x < y
  PROVE  x * w + w <= y * w
<1>1. (x + 1) * w <= y * w
  OBVIOUS
<1>2. (x + 1) * w = x * w + w
  OBVIOUS
<1> QED
  BY <1>1, <1>2

LEMMA AreaFacts ==
  ASSUME TypeOK, NEW a \in Areas, NEW p \in Procs
  PROVE  /\ Home(a) \in Regions
         /\ Width(a) \in Nat
         /\ Slot(a, p) \in Nat
         /\ Slot(a, p) * Width(a) + Width(a) <= Bytes(Home(a))
<1>1. /\ conf["procs"] \in Nat /\ conf["holding"] \in Nat
      /\ conf["pstack"] \in Nat /\ p \in Nat /\ p < conf["procs"]
  BY ConfNat DEF Fields, Procs
<1>2. Home(a) \in Regions
  BY DEF Home, Areas, Regions, Order, Count
<1>3. Width(a) \in Nat
  BY <1>1 DEF Width, Areas, PMemBytes, CapsuleBytes, ProcDataBytes
<1>4. Slot(a, p) \in Nat
  BY <1>1 DEF Slot
<1> DEFINE slots == IF Home(a) = "holders" THEN 2 * conf["procs"] ELSE conf["procs"]
<1>5. slots \in Nat /\ Slot(a, p) < slots
  BY <1>1 DEF Slot, Home, Areas
<1>6. Bytes(Home(a)) = slots * Width(a)
  BY <1>1 DEF Home, Width, Areas, Bytes, BothHolders, PMemBytes, CapsuleBytes,
              ProcDataBytes
<1> HIDE DEF slots
<1> QED
  BY <1>2, <1>3, <1>4, <1>5, <1>6, SlotsApart

\* Areas of one region are slots of it with different numbers.
LEMMA SameHome ==
  ASSUME TypeOK, NEW a \in Areas, NEW b \in Areas, NEW p \in Procs,
         NEW q \in Procs, Home(a) = Home(b), <<a, p>> # <<b, q>>
  PROVE  Width(a) = Width(b) /\ Slot(a, p) # Slot(b, q)
<1>1. conf["procs"] \in Nat /\ p \in 0 .. conf["procs"] - 1 /\ q \in 0 .. conf["procs"] - 1
  BY ConfNat DEF Fields, Procs
<1> QED
  BY <1>1 DEF Home, Areas, Width, Slot

\* The capsules, the pointers to the installed ones, the holders, the stacks
\* and the pid entries of all processes lie apart in the segment.
THEOREM ProcessesApart == Spec => []AreasDisjoint
<1>1. LInv => AreasDisjoint
  <2> SUFFICES ASSUME LInv, Laid, NEW p \in Procs, NEW q \in Procs,
                      NEW a \in Areas, NEW b \in Areas, <<a, p>> # <<b, q>>
               PROVE  To(a, p) <= From(b, q) \/ To(b, q) <= From(a, p)
    BY DEF AreasDisjoint
  <2>1. TypeOK /\ at = Count
    BY DEF LInv, Laid
  <2>2. /\ Home(a) \in Regions /\ Home(b) \in Regions
        /\ start[Home(a)] \in Nat /\ start[Home(b)] \in Nat
        /\ Bytes(Home(a)) \in Nat /\ Bytes(Home(b)) \in Nat
    BY <2>1, AreaFacts, BytesNat DEF TypeOK
  <2>3. /\ Slot(a, p) \in Nat /\ Slot(b, q) \in Nat
        /\ Width(a) \in Nat /\ Width(b) \in Nat
        /\ Slot(a, p) * Width(a) \in Nat /\ Slot(b, q) * Width(b) \in Nat
    BY <2>1, AreaFacts, Products
  <2>4. CASE Home(a) = Home(b)
    <3>1. Width(a) = Width(b) /\ Slot(a, p) # Slot(b, q)
      BY <2>1, <2>4, SameHome
    <3>2. \/ Slot(a, p) * Width(a) + Width(a) <= Slot(b, q) * Width(b)
          \/ Slot(b, q) * Width(b) + Width(b) <= Slot(a, p) * Width(a)
      BY <2>3, <3>1, SlotsApart
    <3> QED
      BY <2>2, <2>3, <2>4, <3>2 DEF From, To
  <2>5. CASE Home(a) # Home(b)
    <3>1. PICK m \in 1 .. Count, n \in 1 .. Count : Home(a) = Order[m] /\ Home(b) = Order[n]
      BY <2>2 DEF Regions
    <3>2. End(Home(a)) <= start[Home(b)] \/ End(Home(b)) <= start[Home(a)]
      BY <2>1, <2>5, <3>1 DEF LInv, Count
    <3>3. /\ start[Home(a)] <= From(a, p) /\ To(a, p) <= End(Home(a))
          /\ start[Home(b)] <= From(b, q) /\ To(b, q) <= End(Home(b))
      BY <2>1, <2>2, <2>3, AreaFacts DEF From, To, End
    <3> QED
      BY <2>2, <2>3, <3>2, <3>3 DEF From, To, End
  <2> QED
    BY <2>4, <2>5
<1> QED
  BY <1>1, LayoutInvariance, PTL

-----------------------------------------------------------------------------
\* The size of the segment

\* Every region starts where the one before it ends.
Contiguous ==
  /\ cursor = IF at = 0 THEN 0 ELSE End(Order[at])
  /\ \A m \in 1 .. at :
       start[Order[m]] = IF m = 1 THEN 0 ELSE End(Order[m - 1])

LEMMA CarveContiguous ==
  ASSUME LInv, Contiguous, Carve
  PROVE  Contiguous'
<1>1. PICK k \in 0 .. Count - 1 : k = at
  BY DEF LInv, TypeOK, Carve, Count
<1>2. /\ TypeOK /\ k \in Nat /\ k + 1 \in 1 .. Count
      /\ start' = [start EXCEPT ![Order[k + 1]] = cursor]
      /\ cursor' = cursor + Bytes(Order[k + 1])
      /\ at' = k + 1 /\ conf' = conf
  BY <1>1 DEF LInv, TypeOK, Carve, Count
<1>3. \A n : Bytes(n)' = Bytes(n)
  BY <1>2 DEF Bytes, JobBytes, SetBytes, BothHolders
<1>4. start'[Order[k + 1]] = cursor /\ End(Order[k + 1])' = cursor'
  BY <1>2, <1>3, OrderIn DEF End, TypeOK
<1>5. ASSUME NEW m \in 1 .. k
      PROVE  /\ start'[Order[m]] = start[Order[m]]
             /\ End(Order[m])' = End(Order[m])
  <2>1. m \in 1 .. Count /\ m # k + 1
    BY <1>1, <1>2 DEF Count
  <2>2. Order[m] \in Regions /\ Order[m] # Order[k + 1]
    BY <1>2, <2>1, OrderIn, OrderInjective
  <2> QED
    BY <1>2, <1>3, <2>2 DEF End, TypeOK
<1>6. ASSUME NEW m \in 1 .. k + 1
      PROVE  start'[Order[m]] = IF m = 1 THEN 0 ELSE End(Order[m - 1])'
  <2>1. CASE m = k + 1
    <3>1. CASE k = 0
      BY <1>1, <1>4, <2>1, <3>1 DEF Contiguous
    <3>2. CASE k # 0
      <4>1. k \in 1 .. k /\ m - 1 = k /\ m # 1
        BY <1>2, <2>1, <3>2
      <4>2. End(Order[k])' = End(Order[k])
        BY <1>5, <4>1
      <4>3. cursor = End(Order[k])
        BY <1>1, <3>2 DEF Contiguous
      <4> QED
        BY <1>4, <2>1, <4>1, <4>2, <4>3
    <3> QED
      BY <3>1, <3>2
  <2>2. CASE m \in 1 .. k
    <3>1. m = 1 \/ m - 1 \in 1 .. k
      BY <1>2, <2>2
    <3> QED
      BY <1>1, <1>5, <2>2, <3>1 DEF Contiguous
  <2> QED
    BY <1>2, <2>1, <2>2
<1>7. cursor' = IF at' = 0 THEN 0 ELSE End(Order[k + 1])'
  BY <1>2, <1>4
<1>8. at' = k + 1
  BY <1>2
<1> QED
  BY <1>6, <1>7, <1>8 DEF Contiguous

LEMMA LayoutContiguous == Spec => []Contiguous
<1>1. Init => Contiguous
  BY DEF Init, Contiguous
<1>2. LInv /\ Contiguous /\ [Carve]_vars => Contiguous'
  <2>1. ASSUME Contiguous, UNCHANGED vars PROVE Contiguous'
    <3>1. \A n : Bytes(n)' = Bytes(n)
      BY <2>1 DEF vars, Bytes, JobBytes, SetBytes, BothHolders
    <3> QED
      BY <2>1, <3>1 DEF vars, Contiguous, End
  <2> QED
    BY <2>1, CarveContiguous
<1> QED
  BY <1>1, <1>2, LayoutInvariance, PTL DEF Spec

\* What the regions take, with n processes whose deques have l entries.
LaidBytes(n, l) ==
  1 + 148 * n + JobBytes * l * n + BothHolders + conf["pstack"] * n
    + SetBytes * conf["sets"] + 28 * conf["entries"] + conf["pool"]

LEMMA CursorIs ==
  ASSUME TypeOK, Contiguous, Laid
  PROVE  cursor = LaidBytes(conf["procs"], conf["dequeLength"])
<1> DEFINE B(m) == Bytes(Order[m])
           E(m) == End(Order[m])
<1>1. /\ conf["procs"] \in Nat /\ conf["dequeLength"] \in Nat
      /\ conf["holding"] \in Nat /\ conf["pstack"] \in Nat
      /\ conf["sets"] \in Nat /\ conf["entries"] \in Nat /\ conf["pool"] \in Nat
      /\ JobBytes \in Nat /\ SetBytes \in Nat
  BY ConfNat, JobNat DEF Fields
<1>2. /\ JobBytes * conf["dequeLength"] * conf["procs"] \in Nat
      /\ SetBytes * conf["sets"] \in Nat
      /\ conf["pstack"] * conf["procs"] \in Nat
      /\ BothHolders \in Nat
  BY <1>1, Products DEF BothHolders
<1>3. E(1) = B(1)
  <2>1. start[Order[1]] = 0
    BY DEF Contiguous, Laid, Count
  <2>2. Bytes(Order[1]) \in Nat
    BY OrderIn, BytesNat DEF Count
  <2> QED
    BY <2>1, <2>2 DEF End
<1>4. \A m \in 2 .. 16 : E(m) = E(m - 1) + B(m)
  <2> SUFFICES ASSUME NEW m \in 2 .. 16 PROVE E(m) = E(m - 1) + B(m)
    OBVIOUS
  <2>1. m \in 1 .. at /\ m # 1
    BY DEF Laid, Count
  <2>2. start[Order[m]] = End(Order[m - 1])
    BY <2>1 DEF Contiguous
  <2> QED
    BY <2>2 DEF End
<1>5. cursor = E(16)
  BY DEF Contiguous, Laid, Count
<1>6. /\ B(1) = 1
      /\ B(2) = 8 * conf["procs"] /\ B(3) = 96 * conf["procs"]
      /\ B(4) = JobBytes * conf["dequeLength"] * conf["procs"]
      /\ B(5) = 8 * conf["procs"] /\ B(6) = 4 * conf["procs"]
      /\ B(7) = 4 * conf["procs"] /\ B(8) = BothHolders
      /\ B(9) = conf["pstack"] * conf["procs"]
      /\ B(10) = 8 * conf["procs"] /\ B(11) = 8 * conf["procs"]
      /\ B(12) = 8 * conf["procs"] /\ B(13) = 4 * conf["procs"]
      /\ B(14) = SetBytes * conf["sets"] /\ B(15) = 28 * conf["entries"]
      /\ B(16) = conf["pool"]
  BY <1>1 DEF Bytes, Order, PMemBytes, CapsuleBytes, IntBytes,
              ProcDataBytes, EntryBytes
<1> HIDE DEF B, E
<1>7. /\ E(2) = E(1) + B(2)    /\ E(3) = E(2) + B(3)    /\ E(4) = E(3) + B(4)
      /\ E(5) = E(4) + B(5)    /\ E(6) = E(5) + B(6)    /\ E(7) = E(6) + B(7)
      /\ E(8) = E(7) + B(8)    /\ E(9) = E(8) + B(9)    /\ E(10) = E(9) + B(10)
      /\ E(11) = E(10) + B(11) /\ E(12) = E(11) + B(12) /\ E(13) = E(12) + B(13)
      /\ E(14) = E(13) + B(14) /\ E(15) = E(14) + B(15) /\ E(16) = E(15) + B(16)
  BY <1>4
<1>8. E(4) = 1 + 104 * conf["procs"]
               + JobBytes * conf["dequeLength"] * conf["procs"]
  BY <1>1, <1>2, <1>3, <1>6, <1>7
<1>9. E(9) = E(4) + 16 * conf["procs"] + BothHolders
               + conf["pstack"] * conf["procs"]
  BY <1>1, <1>2, <1>6, <1>7, <1>8
<1>10. E(16) = E(9) + 28 * conf["procs"] + SetBytes * conf["sets"]
                + 28 * conf["entries"] + conf["pool"]
  BY <1>1, <1>2, <1>6, <1>7, <1>8, <1>9
<1> QED
  BY <1>1, <1>2, <1>5, <1>8, <1>9, <1>10 DEF LaidBytes
LEMMA RoundUpLess ==
  ASSUME NEW n \in Nat
  PROVE  RoundUp(n, 4) <= n + 3 /\ RoundUp(n, 8) <= n + 7
BY DEF RoundUp

LEMMA JobAtMost ==
  ASSUME TypeOK
  PROVE  JobBytes <= conf["argSize"] + 78
<1> DEFINE x == 16 + CapsuleBytes + conf["argSize"]
           y == RoundUp(x, 4) + IntBytes
<1>1. conf["argSize"] \in Nat
  BY ConfNat DEF Fields
<1>2. x \in Nat /\ x = conf["argSize"] + 64
  BY <1>1 DEF CapsuleBytes
<1> HIDE DEF x
<1>3. y \in Nat /\ y <= x + 7
  <2>1. RoundUp(x, 4) \in Nat /\ RoundUp(x, 4) <= x + 3
    BY <1>2, RoundUpNat, RoundUpLess
  <2> QED
    BY <1>2, <2>1 DEF IntBytes
<1> HIDE DEF y
<1>4. RoundUp(y, 8) <= y + 7 /\ RoundUp(y, 8) \in Nat
  BY <1>3, RoundUpNat, RoundUpLess
<1>5. JobBytes = RoundUp(y, 8)
  BY DEF JobBytes, x, y
<1> QED
  BY <1>1, <1>2, <1>3, <1>4, <1>5

LEMMA TimesMonotone ==
  ASSUME NEW x \in Nat, NEW y \in Nat, NEW u \in Nat, NEW v \in Nat,
         x <= y, u <= v
  PROVE  x * u <= y * v
<1>1. PICK d \in Nat : y = x + d
  <2>1. y - x \in Nat /\ y = x + (y - x)
    OBVIOUS
  <2> QED
    BY <2>1
<1>2. PICK e \in Nat : v = u + e
  <2>1. v - u \in Nat /\ v = u + (v - u)
    OBVIOUS
  <2> QED
    BY <2>1
<1>3. (x + d) * (u + e) = x * u + (x * e + d * u + d * e)
  OBVIOUS
<1>4. x * u \in Nat /\ x * e \in Nat /\ d * u \in Nat /\ d * e \in Nat
  BY Products
<1> QED
  BY <1>1, <1>2, <1>3, <1>4

\* What TotalSize leaves for arguments that are not there, twice argSize for
\* each job, pays for the rest of the jobs, the small regions and the sets.
LEMMA JobsPay ==
  ASSUME NEW n \in Nat, NEW l \in Nat, NEW a \in Nat, NEW j \in Nat,
         NEW s \in Nat, NEW e \in Nat,
         n >= 3, l >= 256, a >= 256, j <= a + 78, s <= 256, e <= 2048
  PROVE  1 + 148 * n + j * l * n + (8 + j) * s + 12 * e <= n * (a * 2 * l)
<1> DEFINE x == 2 * a - j
           y == x * l - 148
<1>1. x \in Nat /\ x >= a - 78 /\ x >= 178
  OBVIOUS
<1> HIDE DEF x
<1>2. x * 256 <= x * l /\ x * l \in Nat
  BY <1>1, TimesMonotone, Products
<1>3. y \in Nat /\ y >= 256 * x - 148 /\ 256 * x - 148 \in Nat
  BY <1>1, <1>2
<1> HIDE DEF y
<1>4. 3 * (256 * x - 148) <= n * y
  BY <1>3, TimesMonotone
<1>5. (8 + j) * s <= (8 + j) * 256
  BY TimesMonotone
<1>6. n * (a * 2 * l) = j * l * n + 148 * n + n * y
  <2>1. x * l = a * 2 * l - j * l
    BY DEF x
  <2>2. y = a * 2 * l - j * l - 148
    BY <2>1 DEF y
  <2>3. a * 2 * l \in Nat /\ j * l \in Nat
    BY Products
  <2>4. \A p, q \in Nat : n * p = q * n + 148 * n + n * (p - q - 148)
    OBVIOUS
  <2> QED
    BY <2>2, <2>3, <2>4
<1>7. 1 + (8 + j) * 256 + 12 * e <= 3 * (256 * x - 148)
  BY DEF x
<1>8. /\ (8 + j) * s \in Nat /\ n * y \in Nat /\ j * l * n \in Nat
      /\ (8 + j) * 256 \in Nat
  BY <1>3, Products
<1> QED
  BY <1>3, <1>4, <1>5, <1>6, <1>7, <1>8

\* Three processes or more, with deques and arguments at least as large as
\* those of typesAndDecs.h, and at most as many sets and entries.
AsConfigured ==
  \A c \in Configs :
    /\ c["procs"] >= 3
    /\ c["dequeLength"] >= 256
    /\ c["argSize"] >= 256
    /\ c["sets"] <= 256
    /\ c["entries"] <= 2048

\* typesAndDecs.h on TOTAL_PMEM_SIZE: what pmemPartition lays out is never
\* longer than the segment that is allocated, whatever the sizes of holders,
\* stacks and pool.  With two processes and the sizes of typesAndDecs.h it is.
THEOREM SegmentFits ==
  ASSUME AsConfigured
  PROVE  Spec => []FitsSegment
<1>1. LInv /\ Contiguous => FitsSegment
  <2> SUFFICES ASSUME LInv, Contiguous, Laid
               PROVE  cursor <= TotalSize
    BY DEF FitsSegment
  <2> DEFINE n == conf["procs"]
             l == conf["dequeLength"]
             a == conf["argSize"]
             h == conf["holding"]
             p == conf["pstack"]
             s == conf["sets"]
             e == conf["entries"]
  <2>1. TypeOK
    BY DEF LInv
  <2>2. /\ n \in Nat /\ l \in Nat /\ a \in Nat /\ h \in Nat /\ p \in Nat
        /\ s \in Nat /\ e \in Nat /\ conf["pool"] \in Nat /\ JobBytes \in Nat
    BY <2>1, ConfNat, JobNat DEF Fields
  <2>3. n >= 3 /\ l >= 256 /\ a >= 256 /\ s <= 256 /\ e <= 2048
    BY <2>1 DEF AsConfigured, TypeOK
  <2>4. cursor = 1 + 148 * n + JobBytes * l * n + 2 * h * n + p * n
                 + (8 + JobBytes) * s + 28 * e + conf["pool"]
    BY <2>1, CursorIs DEF LaidBytes, BothHolders, SetBytes
  <2>5. TotalSize = n * (a * 2 * l + p + 2 * h) + e * 16 + conf["pool"]
    BY DEF TotalSize
  <2>6. JobBytes <= a + 78
    BY <2>1, JobAtMost
  <2> HIDE DEF n, l, a, h, p, s, e
  <2>7. 1 + 148 * n + JobBytes * l * n + (8 + JobBytes) * s + 12 * e
          <= n * (a * 2 * l)
    BY <2>2, <2>3, <2>6, JobsPay
  <2>8. n * (a * 2 * l + p + 2 * h) = n * (a * 2 * l) + 2 * h * n + p * n
    <3>1. a * 2 * l \in Nat
      BY <2>2, Products
    <3>2. \A x \in Nat : n * (x + p + 2 * h) = n * x + 2 * h * n + p * n
      BY <2>2
    <3> QED
      BY <3>1, <3>2
  <2>9. /\ JobBytes * l * n \in Nat /\ (8 + JobBytes) * s \in Nat
        /\ n * (a * 2 * l) \in Nat /\ 2 * h * n \in Nat /\ p * n \in Nat
    BY <2>2, Products
  <2> QED
    BY <2>2, <2>4, <2>5, <2>7, <2>8, <2>9
<1> QED
  BY <1>1, LayoutInvariance, LayoutContiguous, PTL
=============================================================================
