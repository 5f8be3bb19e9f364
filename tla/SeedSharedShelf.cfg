SPECIFICATION Spec
CONSTANTS
    x = x
    y = y
    none = none
    NoIdentifier = none
    Worlds <- Shared
    MaxFeed <- Two
INVARIANT
    EveryDocumentIsStored
