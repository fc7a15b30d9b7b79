SPECIFICATION Spec
CONSTANTS
    Requests = {r1, r2}
    Texts = {empty, a, b}
    Empty = empty
    Nil = nil
SYMMETRY Symmetry
PROPERTY WindowReadBack
