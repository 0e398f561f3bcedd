---------------------------- MODULE MCRuntimePool ----------------------------
(***************************************************************************)
(* Instances of RuntimePool for TLC: the orders of the machine.            *)
(***************************************************************************)
EXTENDS RuntimePool, Combinatorics

CONSTANTS a, b

Preferred == <<a, b>>

\* engineer and reviewer prefer the other one, and qa has its fallback off
Orders == [engineer |-> <<b, a>>, reviewer |-> <<b, a>>, qa |-> <<a>>]
Workers == DOMAIN Orders

\* the bound of TimeoutsBounded as a number
ASSUME LaddersAreCombinations ==
    Cardinality(Ladders) = choose(Cardinality(Processes) + TimeoutLimit - 1, TimeoutLimit - 1)
=============================================================================
