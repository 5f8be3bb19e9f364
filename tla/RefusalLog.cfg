SPECIFICATION Spec
CONSTANTS
    k1 = k1
    k2 = k2
    k3 = k3
    k4 = k4
    Keys = {k1, k2, k3, k4}
    RefusalWindow = 3
    MaxTracked = 3
    MaxUntold = 2
    NoLine = NoLine
SYMMETRY AnyKey
INVARIANTS
    TypeOK
    CountsAreTrue
    NoRefusalStaysQuiet
