SPECIFICATION FairSubmissionSpec
CONSTANTS
  a1 = a1
  a2 = a2
  Tokens <- TwoTokens
  Callers <- CommitCalls
  MaxCalls = 2
  BasePrice = 10
  Floors <- LowAndHigh
  retryLimit = 2
  MaxRuns = 2
  Faults <- EveryFault
  MaxFaults = 2
INVARIANTS NoncesAreOwn ReportsAreTrue
PROPERTIES CommitsSucceed ImplementsLock
CHECK_DEADLOCK FALSE
