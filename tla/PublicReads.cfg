SPECIFICATION Spec
CONSTANTS
    r1 = r1
    r2 = r2
    NoCountry = NoCountry
    Catalogs = {1, 2, 3, 4}
    contentOf <- Shelf
    MAX_LANGUAGE_RANGES = 3
    Lowercase <- Lower
    Singletons = {"x"}
    PAGE_SIZE = 1
    MAX_RESULTS = 2
    MAX_QUERY_CHUNKS = 3
    WORD_SIMILARITY_THRESHOLD = 5
    Lexemes = {"lib", "bru", "paris"}
    Countries = {"BE", "FR", "JP"}
    countryRank <- ByName
    Readers = {r1, r2}
    requestsOf <- SomeRequests
    Capacity <- TwoAndOne
    FirstRows <- Published
    Headers <- SomeHeaders
    AdminQueries <- SomeAdminQueries
    MaxEdits = 1
    MaxFaults = 2
INVARIANTS
    
    RestrictionsAgree
    CountsMatchLists
    SearchPagesAddUp
    ReadFailsForAReason
