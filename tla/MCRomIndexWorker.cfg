\* Any interleaving of requests, polls, page fetches and a shutdown.
SPECIFICATION WorkerFairSpec
CONSTANTS
  PlatformId = {"a", "b", "c"}
  Pages <- MCPages
  PageGuard = 2
  NoPlatform = "none"
INVARIANTS
  ResultIsWhole
  RecordMatchesThread
  NoDoubleWork
  NoThreadAfterShutdown
PROPERTIES
  RequestAnswered
CHECK_DEADLOCK FALSE
