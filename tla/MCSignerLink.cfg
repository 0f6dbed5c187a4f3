SPECIFICATION Spec
CONSTANTS
    Initial = 5
    Radix = 2
    MaxDbid = 2
    NoPeer = NoPeer
    Peer = Peer
    None = None
    Parts <- TwoParts
    Settings <- EverySetting
INVARIANTS AnswersMatch RequestsAreUnderstood CommitmentsArriveAsMeant
PROPERTIES EveryRequestEnds
CHECK_DEADLOCK FALSE
