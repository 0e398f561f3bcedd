\* three roots, three transfers of one repository beside another one; one command at a time, which may die
SPECIFICATION Spec
CONSTANTS
    k1 = k1  k2 = k2  k3 = k3  x = x  y = y
    there = there  onward = onward  back = back
    Roots = {k1, k2, k3}
    RootOrder <- Order
    Repos = {x, y}
    Records = {there, onward, back}
    Source <- From
    Destination <- To
    Moves <- Moved
    Processes = {cli}
    None = None
INVARIANTS TypeOK NeverAbandoned TombstoneUnused
PROPERTIES ImplementsOwnership CompletedPaired
