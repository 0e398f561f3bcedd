----------------------------- MODULE Ownership -----------------------------
(***************************************************************************)
(* What the ownership of Targets promises across the Knowledge roots of a  *)
(* machine: a repository has at most one owning root, and it moves from    *)
(* one root to another only through a state in which nobody owns it.       *)
(***************************************************************************)
CONSTANTS Roots, Repos

VARIABLE owners   \* per repository, the roots that own it

Init == owners \in {o \in [Repos -> SUBSET Roots] : \A x \in Repos : \A a, b \in o[x] : a = b}

\* a root without a rival takes a repository nobody owns
Take(x, r) == owners[x] = {} /\ owners' = [owners EXCEPT ![x] = {r}]

\* the owner gives its repository up
GiveUp(x) == owners[x] # {} /\ owners' = [owners EXCEPT ![x] = {}]

Next == \E x \in Repos : GiveUp(x) \/ \E r \in Roots : Take(x, r)

Spec == Init /\ [][Next]_owners

=============================================================================
