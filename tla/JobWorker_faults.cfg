SPECIFICATION FairSpec
CONSTANTS
  j1 = j1
  j2 = j2
  NoJob = NoJob
  Jobs = {j1, j2}
  Cancellable = {}
  Faulty = {j2}
  Cleanable = {j2}
  MaxPolls = 1
INVARIANT TypeOK
INVARIANT EventsFollowCommits
INVARIANT PrintsWholeDocument
INVARIANT InFlightHasTask
PROPERTY ImplementsLifecycle
PROPERTY EveryJobSettles
