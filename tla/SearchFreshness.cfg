SPECIFICATION Spec
CONSTANTS
    e1 = e1
    i1 = i1
    i2 = i2
    h1 = h1
    wal = wal
    bru = bru
    Nobody = Nobody
    NoEntry = NoEntry
    Keep = Keep
    Editors = {e1}
    Imports = {i1, i2}
    Hands = {h1}
    Subdivisions = {wal, bru}
    titleOf <- NewTitles
    subsOf <- Places
    FirstTitle = "old"
CHECK_DEADLOCK FALSE
INVARIANTS
    SearchIsFresh
