CONSTANTS
  Requests = {s1, q1}
  Sessions = {s1}
  MaxWrites = 1
  LogsMayFail = TRUE
  Frames = {"audio", "meta", "run"}
  MaxFrames = 2
  MaxAnswers = 1
  DbMayFail = TRUE
SPECIFICATION FairSpec
INVARIANTS UpstreamSeesTheStream  StopLosesNothing InflightExact
PROPERTIES LeavingEndsSession
CHECK_DEADLOCK FALSE
