SPECIFICATION Spec
CONSTANTS
    Nodes = {n1, n2, n3}
    NoNode = NoNode
    Requests = {r1, r2, r3}
SYMMETRY Symmetry
INVARIANTS TypeOK HighAvailabilityRestored Inv
PROPERTIES SuccessMeansFailedOver PromotesOnce TestContract
