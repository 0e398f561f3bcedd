\* three manual runs of one task, nobody dead, no lock old or half written: what the header of taskLock.ts says
SPECIFICATION Spec
CONSTANTS
    t1 = t1  t2 = t2  tree = tree
    Manual = {m1, m2, m3}
    Bounded = {}
    Files = {t1, tree}
    TaskLocks <- Plans
    TreeLock <- Trees
    None = None
INVARIANTS OneStepperPerTask
SYMMETRY Invocations
CHECK_DEADLOCK FALSE
