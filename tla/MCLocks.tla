------------------------------- MODULE MCLocks -------------------------------
(***************************************************************************)
(* Instances of Locks for TLC.  The runs of tasks are given by process:    *)
(* every task lock is a file of its own, and so is the tree's.             *)
(***************************************************************************)
EXTENDS Locks, TLC

CONSTANTS t1, t2, tree

Plans == [p \in Processes |-> IF p \in Manual THEN <<t1>> ELSE <<t2, t1>>]
Trees == [p \in Processes |-> tree]

Invocations == Permutations(Manual) \cup Permutations(Bounded)
=============================================================================
