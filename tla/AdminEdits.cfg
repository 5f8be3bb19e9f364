SPECIFICATION Spec
CONSTANTS
    s1 = s1
    s2 = s2
    p1 = p1
    p2 = p2
    Nobody = Nobody
    Catalogs = {c1}
    Sessions = {s1, s2}
    People = {p1, p2}
    personOf <- TwoPeople
    GrantableRoles = {"editor"}
    MaxVersion = 3
INVARIANTS
    TypeOK
    OnlyGrantedWrite
    VersionNamesState
    NoLostUpdate
    AnswersAreTrue
    OfferedIsAccepted
    UndoReverses
    LiveDateFollowsTakedown
PROPERTY
    ImplementsOptimisticCatalog
