CONSTANTS
    MaxEnv = 1
    MaxEvents = 1
SPECIFICATION FairSpec
PROPERTIES
    BoardSeesHooks
CHECK_DEADLOCK FALSE
