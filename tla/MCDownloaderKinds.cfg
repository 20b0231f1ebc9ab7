\* The kind a write failure is reported with.
SPECIFICATION Spec
CONSTANTS
  Id = {"a", "b"}
  Queues <- MCQueues
  MaxRetries = 1
  MaxChunks = 1
PROPERTIES
  WriteErrorIsFilesystemError
