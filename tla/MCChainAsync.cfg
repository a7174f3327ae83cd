CONSTANTS
    Validators = {"v1", "v2"}
    g = g a1 = a1 a2 = a2 a3 = a3 b1 = b1 b2 = b2 o = o u = u w = w z = z
    Blocks <- FewBlocks
    Genesis = g
    Zero = zero
    NoBlock = none
    Parent <- MCParent
    Height <- MCHeight
    Work <- MCWork
    Time <- MCTime
    Mined <- MCMined
    Kind <- MCKind
    Window = 3
SPECIFICATION Spec
CHECK_DEADLOCK FALSE
INVARIANT BranchesAddUp
PROPERTY TipLosesOnlyToOverlap
