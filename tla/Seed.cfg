SPECIFICATION Spec
CONSTANTS
    x = x
    y = y
    none = none
    NoIdentifier = none
    Worlds <- OwnAndMoving
    MaxFeed <- ThreeOrTwo
INVARIANTS
    DocumentsAreStored
    OneRowPerCatalog
    CheckedFeedIsTaken
    LookupIsUnambiguous
PROPERTY
    ReseedChangesNothing
