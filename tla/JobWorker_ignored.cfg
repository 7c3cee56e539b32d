SPECIFICATION Spec
CONSTANTS
  j1 = j1
  j2 = j2
  NoJob = NoJob
  Jobs = {j1}
  Cancellable = {}
  Faulty = {j1}
  Cleanable = {}
  MaxPolls = 1
INVARIANT IgnoredMeansInFlight
