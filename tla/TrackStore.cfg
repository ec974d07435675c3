\* Two results, two deletions, two attempts to store.
SPECIFICATION Spec
CONSTANTS
    Audios = {a1, a2}
    Covers = {c1, c2}
    Deletes = {d1, d2}
    MaxAttempts = 2
    Nothing = Nothing
SYMMETRY Symmetry
CHECK_DEADLOCK FALSE
INVARIANTS
    TypeOK
    RowsResolve
    DeletedIsGone
PROPERTIES
    UpdatedInPlace
    DeletedStaysDeleted
