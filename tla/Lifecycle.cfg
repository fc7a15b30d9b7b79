SPECIFICATION Spec
CONSTANTS
    Instances = {i1}
    NoInstance = NoInstance
    Requests = {r1, r2, r3}
    Tokens = {t1, t2}
    NoToken = NoToken
SYMMETRY Symmetry
INVARIANTS TypeOK TokenAgreement PromiseKept DeprovisionSettled SoleOwner Inv
PROPERTIES GoneMeansGone PlatformContract
