CONSTANTS
    MaxEnv = 2
    MaxEvents = 3
SPECIFICATION FairSpec
INVARIANTS
    PairIsValid
    SkipHidesNothing
    OneNoticePerReview
PROPERTIES
    BoardCatchesUp
CHECK_DEADLOCK FALSE
