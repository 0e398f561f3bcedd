---------------------------- MODULE MCGuardedRun ----------------------------
(***************************************************************************)
(* Instances of GuardedRun for TLC: the dependencies of the plan's tasks.  *)
(***************************************************************************)
EXTENDS GuardedRun

\* two independent tasks; a chain of two
Independent == [t \in Tasks |-> {}]
Chain == [t \in Tasks |-> {u \in Tasks : u = t - 1}]

=============================================================================
