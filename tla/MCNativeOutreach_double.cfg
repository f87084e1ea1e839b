\* Two workers, two contacts, no lease is outlived and no mail is lost with a rollback.
SPECIFICATION Spec
CONSTANTS
  Contact = {c1, c2}
  InitialJob = {i1, i2}
  FollowJob = {}
  Forced = {}
  Approval = {}
  Request = {r1}
  Null = Null
  Cadence = 1
  Replies = {}
  Touched = {}
  MaxRequests = 0
  MaxFaults = 1
  MaxOverruns = 0
INVARIANTS NeverDoubleInitial
CHECK_DEADLOCK FALSE
