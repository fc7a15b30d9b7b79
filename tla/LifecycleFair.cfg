SPECIFICATION FairSpec
CONSTANTS
    Instances = {i1}
    NoInstance = NoInstance
    Requests = {r1, r2}
    Tokens = {t1}
    NoToken = NoToken
PROPERTIES DeprovisionCompletes
