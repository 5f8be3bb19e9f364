SPECIFICATION Spec
CONSTANTS
    c1 = c1
    c2 = c2
    wal = wal
    idf = idf
    hand = hand
    belgium = belgium
    belgie = belgie
    NoRow = NoRow
    NoEntry = NoEntry
    NoIndexer = NoIndexer
    NoTransaction = NoTransaction
    Catalogs = {c1, c2}
    InitialCodes = {wal}
    AddedCodes = {idf}
    HandCodes = {hand}
    OurNames = {belgium}
    TheirNames = {belgie}
    ImportsWhileMigrating = FALSE
INVARIANTS
    TypeOK
    VisibleIsDated
    SearchFollowsRevision
PROPERTIES
    MigrationKeepsVisibility
    OperatorRowsSurvive
