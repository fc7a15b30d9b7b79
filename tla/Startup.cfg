SPECIFICATION FairSpec
CONSTANTS
    p = p
    q = q
    Plans = {p, q}
    Files <- MCFiles
    Unreadable = Unreadable
INVARIANTS TypeOK ServesDocumented Inv
PROPERTIES AdvertisedIsProvisionable NoFatalOnceBound Recovers
