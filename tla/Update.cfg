SPECIFICATION FairSpec
CONSTANTS
    Requests = {r1, r2}
    Texts = {empty, a, b}
    Empty = empty
    Nil = nil
INVARIANTS TypeOK KnownIsTrue Inv
PROPERTIES WindowBeforePolicy ReadsAccepted UpdateContract UpdateCompletes
