------------------------------ MODULE SetAcquire ------------------------------
(***************************************************************************)
(* How a fork gets a set of the pool: ppmmfork calls getAndInitSet with    *)
(* the job to run after the join, which goes on to loopGetSet, aquireSet   *)
(* and gotSet (set.c).  The arguments are on the word stack.               *)
(***************************************************************************)
EXTENDS WordStack

CONSTANTS
  DoAssert,   \* whether assertion.h is built with DO_ASSERT
  PoolSize,   \* SET_POOL_SIZE
  Job         \* the words of the job, a sequence

VARIABLES
  pool,     \* pool[i]: the tag of set i, its owner and the word after that
  job,      \* job[i]: the continuation of set i
  thread    \* the capsule and the stack of the thread that forks

vars == <<pool, job, thread>>

\* rassert(exp, message) aborts when exp is true.
Aborts(exp) == DoAssert /\ exp

Aborted == [capsule |-> "aborted", stack |-> thread.stack]

\* firstTimeInit clears the pool; the fork has called getAndInitSet.
Init ==
  /\ pool = [i \in 0 .. PoolSize - 1 |-> [owner |-> 0, rest |-> 0]]
  /\ job = [i \in 0 .. PoolSize - 1 |-> [j \in DOMAIN Job |-> 0]]
  /\ thread = [capsule |-> "getAndInitSet", stack |-> Pointer("forkCnt") \o Job]

Runs(f) == thread.capsule = f
Arg(i)  == Word(thread, i)

\* data is the first byte after the owner; 2 is what aquireSet stores there.
Data(t)  == t.rest % 256
Acquired == 2

GetAndInitSet ==
  /\ Runs("getAndInitSet")
  /\ thread' = Pcall(thread, 0, <<>>, "gotSet", <<0>>, "loopGetSet")
  /\ UNCHANGED <<pool, job>>

LoopGetSet ==
  LET i == Arg(1) IN
  /\ Runs("loopGetSet")
  /\ thread' = IF Aborts(i < PoolSize) THEN Aborted
               ELSE IF Data(pool[i]) # 0
                 THEN Pcnt(thread, 1, <<i + 1>>, "loopGetSet")
                 ELSE Pcnt(thread, 1, <<pool[i].owner, pool[i].rest, i>>, "aquireSet")
  /\ UNCHANGED <<pool, job>>

\* The two words on top are popped as the tag, the one below as the index.
AquireSet ==
  LET old      == [owner |-> Arg(2), rest |-> Arg(1)]
      i        == Arg(3)
      newOwner == Arg(4)
  IN /\ Runs("aquireSet")
     /\ pool' = IF pool[i] = old
                  THEN [pool EXCEPT ![i] = [owner |-> newOwner, rest |-> Acquired]]
                  ELSE pool
     /\ thread' = IF pool'[i].owner = newOwner
                    THEN Pret(thread, 4, <<i>>)
                    ELSE Pcnt(thread, 4, <<newOwner, i + 1>>, "loopGetSet")
     /\ UNCHANGED job

GotSet ==
  LET n == Len(Job) IN
  /\ Runs("gotSet")
  /\ job' = [job EXCEPT ![Arg(1)] = [j \in 1 .. n |-> Arg(n + 2 - j)]]
  /\ thread' = Pret(thread, n + 1, <<Arg(1)>>)
  /\ UNCHANGED pool

Next == GetAndInitSet \/ LoopGetSet \/ AquireSet \/ GotSet

Spec == Init /\ [][Next]_vars

-----------------------------------------------------------------------------

\* set.c on aquireSet: "ret idx on success, popping newOwner, cnt loop+1 on
\* fail".  It returns to gotSet, the continuation getAndInitSet left.
AcquireReturns ==
  [][Runs("aquireSet") => thread'.capsule \in {"gotSet", "loopGetSet"}]_vars
=============================================================================
