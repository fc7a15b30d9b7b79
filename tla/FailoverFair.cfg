SPECIFICATION FairSpec
CONSTANTS
    Nodes = {n1, n2}
    NoNode = NoNode
    Requests = {r1, r2}
PROPERTIES FailoverEnds
