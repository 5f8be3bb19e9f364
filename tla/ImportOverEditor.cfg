SPECIFICATION WritesSpec
CONSTANTS
    s1 = s1
    p1 = p1
    c1 = c1
    c2 = c2
    i1 = i1
    i2 = i2
    Nobody = Nobody
    Catalogs = {c1}
    Sessions = {s1}
    People = {p1}
    personOf <- OnePerson
    GrantableRoles = {"editor"}
    MaxVersion = 4
    Imports = {i1}
    feedOf <- OneImport
    recommendedOf <- OneRecommended
PROPERTY
    ImportUndoesNoEditor
