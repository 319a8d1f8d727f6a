CONSTANTS
    MaxEnv = 2
    MaxEvents = 2
SPECIFICATION Spec
PROPERTIES
    FinishedStaysFinished
CHECK_DEADLOCK FALSE
