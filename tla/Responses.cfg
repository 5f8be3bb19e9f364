SPECIFICATION Spec
CONSTANTS
    Headers <- MCHeaders
    NoHeader = NoHeader
    NoCoding = NoCoding
    NoMessage = NoMessage
    NoRequest = NoRequest
INVARIANTS
    CodingIsTaken
    LinesTellTheAnswer
    AnswersCarryHeaders
