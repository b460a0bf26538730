SPECIFICATION Spec
CONSTANTS
    a = a b = b f = f s1 = s1 s2 = s2
    Root = Root None = None
    Folders = {a, b}
    Files = {f}
    Slots = {s1, s2}
SYMMETRY Symmetry
INVARIANTS TypeOK TrailEndsHere RowsFollow AnswersOwnDialog
