CONSTANTS
  MaxRequests = 5
  MaxMessages = 3
  MaxCalls = 2
SPECIFICATION FairSpec
INVARIANTS RequestsInOrder AcceptedHandlerRunsOnce
PROPERTIES ImplementsOrderedCompletions FailureAnswersAll FlushReported
CHECK_DEADLOCK FALSE
