SPECIFICATION Spec
CONSTANTS
  r1 = r1
  r2 = r2
  legacy = legacy
  native = native
  other = other
  o1 = o1
  o2 = o2
  o3 = o3
  e1 = e1
  e2 = e2
  b1 = b1
  b2 = b2
  b3 = b3
  Null = Null
  Call = {r1, r2}
  Request <- MCRequest
  Org = {o1, o2, o3}
  Email = {e1, e2}
  Mailbox = {b1, b2, b3}
  MailboxOrg <- MCMailboxOrg
  ExistingRow = {legacy, native, other}
  ExistingCampaigns <- MCOldCampaigns
  ExistingContacts <- MCOldContacts
  ExistingFollowups <- MCOldFollowups
  Replies <- MCReplies
SYMMETRY Symmetry
INVARIANTS OneOperationPerKey AnswersAreConsistent MessagesOwnedByOperations WiredToTenant
PROPERTIES NoDispatchIntoFollowup
