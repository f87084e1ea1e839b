SPECIFICATION Spec
CONSTANTS
  Contact = {c1}
  InitialJob = {i1, i2}
  FollowJob = {f1}
  Forced = {g1}
  Approval = {a1, a2}
  Request = {r1}
  Null = Null
  Cadence = 1
  Replies <- MCReplies
  Touched = {c1}
  MaxRequests = 1
  MaxFaults = 1
  MaxOverruns = 1
INVARIANTS RepeatsAreLicensed DraftSentOnce ActiveIsScheduled
PROPERTIES StartedIsWorked ClaimsComeBack FollowUpsOnCurrentRow SuppressedNotMailed
CHECK_DEADLOCK FALSE
