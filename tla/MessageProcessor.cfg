SPECIFICATION FairSpec
CONSTANTS
  Topics <- TheTopics
  Handlers <- TheHandlers
  Messages <- TheMessages
  TopicOf <- TheTopicOf
  Understands <- TheUnderstood
  Faults = {"handlerFails", "handlerPanics", "subscribeFails", "feedEnds", "stop", "crash"}
  MaxFaults = 2
CHECK_DEADLOCK FALSE
INVARIANT TypeOK
INVARIANT NobodyWaitsInVain
PROPERTY LeavesHandled
PROPERTY QueuesDrain
PROPERTY NoneListensAlone
PROPERTY StopEnds
