SPECIFICATION FairSpec
CONSTANTS
  Readers = {r1, r2}
  Receivers = {c1}
  None = None
  GuardCondition = GuardCondition
  ResetMode = "any"
INVARIANTS TypeOK NoSpuriousWakeUp StopNotUndone PromptStop UndisturbedAttached QueuesInUseAlive
PROPERTIES ImplementsContract ReturnsOnlyWhenStopped StopReturns DataReachesReceiver
