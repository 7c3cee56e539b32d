SPECIFICATION Spec
CONSTANTS
  j1 = j1
  j2 = j2
  NoJob = NoJob
  Jobs = {j1}
  Cancellable = {j1}
  Faulty = {}
  Cleanable = {}
  MaxPolls = 1
INVARIANT CancelledIsNotPrinted
