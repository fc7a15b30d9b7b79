SPECIFICATION Spec
CONSTANTS
    i1 = i1
    i2 = i2
    g = g
    h = h
    Texts = {empty, i1}
    Empty = empty
    Nil = nil
    Snapshots = {s1, s2, s3}
    Times = {1, 2}
    TagLists <- MCTagLists
    Details <- MCDetails
    NoSnapshot = NoSnapshot
SYMMETRY Symmetry
INVARIANTS TypeOK Inv
PROPERTIES RestoresOwn RestoresLatest NoneFoundIsTrue
