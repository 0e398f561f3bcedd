-------------------------- MODULE MCTargetTransfer --------------------------
(***************************************************************************)
(* An instance of TargetTransfer for TLC: three roots; x can go from k1    *)
(* to k2, on to k3 and back from k2 to k1.                                 *)
(***************************************************************************)
EXTENDS TargetTransfer, TLC

CONSTANTS k1, k2, k3, x, y, there, onward, back

Order  == <<k1, k2, k3>>
From   == there :> k1 @@ onward :> k2 @@ back :> k2
To     == there :> k2 @@ onward :> k3 @@ back :> k1
Moved  == [t \in Records |-> x]

=============================================================================
