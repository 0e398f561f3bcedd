\* two manual runs of a task and a bounded run of that and another task, in one tree; deaths, old locks;
\* fair to whoever is in the acquire loop
SPECIFICATION FairSpec
CONSTANTS
    t1 = t1  t2 = t2  tree = tree
    Manual = {m1, m2}
    Bounded = {b1}
    Files = {t1, t2, tree}
    TaskLocks <- Plans
    TreeLock <- Trees
    None = None
INVARIANTS TypeOK HeldOrLost NothingLeft
PROPERTIES LeavingIsClean AcquireEnds
CHECK_DEADLOCK FALSE
