SPECIFICATION Spec
CONSTANTS
    r1 = r1
    r2 = r2
    r3 = r3
    k1 = k1
    k2 = k2
    stray = stray
    Requests = {r1, r2, r3}
    Kids = {k1, k2}
    StrayKid = stray
    Callers <- MCCallers
    FetchTimeout = 2
    KeyFetchRetry = 3
    NoKeys = NoKeys
    NoOne = NoOne
    Never = Never
    NoToken = NoToken
    Nothing = Nothing
SYMMETRY Places
INVARIANTS
    OnlyProvenCallers
    
