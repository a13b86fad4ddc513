\* Both branches of a fork join, with restarts, in a set that was acquired for
\* the owner they expect or for another one.
SPECIFICATION FairSpec
CONSTANTS
  Owners = {o1, o2}
  MaxRestarts = 4
\* The branches end in scheduler and singleJobPush.
CHECK_DEADLOCK FALSE
INVARIANTS TypeOK ContinuationIffOwned
PROPERTIES ImplementsJoin JoinCompletes
