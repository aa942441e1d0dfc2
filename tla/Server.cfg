CONSTANTS
  Request = {r1, r2}
  Probe = {r2}
  Nobody = Nobody
  Queries = 2
  Timeouts = {0, 1, 2, 3}
  WriteTimeout = 2
  HeaderTimeout = 1
  Grace = 3
SPECIFICATION FairSpec
INVARIANT TypeOK
INVARIANT ServesWhenReady
INVARIANT CleanDrainLeavesNoClient
INVARIANT DrainInTime
INVARIANT AnswersReachClients
INVARIANT HandlersDoNotOverlap
PROPERTY AnswerIsFinal
PROPERTY ImplementsGracefulServer
PROPERTY EveryRequestAnswered
PROPERTY StopsWhenAsked
CHECK_DEADLOCK FALSE
