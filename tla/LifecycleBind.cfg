SPECIFICATION Spec
CONSTANTS
    Instances = {i1}
    NoInstance = NoInstance
    Requests = {r1, r2}
    Tokens = {t1, t2}
    NoToken = NoToken
PROPERTY BindAnswered
