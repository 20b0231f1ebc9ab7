\* Calls, retries and power losses over two output files.
SPECIFICATION FairSpec
CONSTANTS
  Id = {"a", "b"}
  Queues <- MCQueues
  MaxRetries = 1
  MaxChunks = 2
INVARIANTS
  CompleteMeansRom
  FileIsThisAttempt
PROPERTIES
  OnlyRefusedFilesStay
  NoHopelessRetry
  KeepsContract
  CallReturns
