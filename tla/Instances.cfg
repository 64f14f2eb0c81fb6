CONSTANTS
  Instance = {i1, i2}
  Sender = {s1, s2}
  Silent = {}
  Backlog = 2
  Nobody = Nobody
SPECIFICATION FairSpec
INVARIANTS SoleInstanceReachable CrashMarkedOnce
PROPERTIES LoopProgresses SentIsHandled
