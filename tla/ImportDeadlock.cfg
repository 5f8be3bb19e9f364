SPECIFICATION FairWritesSpec
CONSTANTS
    s1 = s1
    p1 = p1
    c1 = c1
    c2 = c2
    i1 = i1
    i2 = i2
    Nobody = Nobody
    Catalogs = {c1, c2}
    Sessions = {}
    People = {p1}
    personOf <- NoTab
    GrantableRoles = {"editor"}
    MaxVersion = 2
    Imports = {i1, i2}
    feedOf <- OppositeOrders
    recommendedOf <- OneOfEachFlag
PROPERTIES
    ImportsEnd
