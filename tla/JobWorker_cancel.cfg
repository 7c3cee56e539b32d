SPECIFICATION Spec
CONSTANTS
  j1 = j1
  j2 = j2
  NoJob = NoJob
  Jobs = {j1, j2}
  Cancellable = {j1}
  Faulty = {}
  Cleanable = {}
  MaxPolls = 2
INVARIANT IInv
INVARIANT AtMostOncePrint
INVARIANT PrintIsOnRecord
INVARIANT CompletedMeansPrinted
INVARIANT CancelStopsCoroutine
PROPERTY FollowsTable
