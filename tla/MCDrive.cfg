SPECIFICATION Spec
CONSTANTS
    d1 = d1
    d2 = d2
    f1 = f1
    Root = Root
    None = None
    Dirs = {d1, d2}
    Files = {f1}
    MaxCopies = 2
SYMMETRY MCSymmetry
INVARIANTS UniqueChildren ListedUnderParent ParentRight LoadedComplete
PROPERTY MapCompletesTree
