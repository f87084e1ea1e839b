SPECIFICATION Spec
CONSTANTS
  p1 = p1
  p2 = p2
  m1 = m1
  m2 = m2
  m3 = m3
  b1 = b1
  b2 = b2
  o1 = o1
  o2 = o2
  c1 = c1
  c2 = c2
  c3 = c3
  id = id
  Null = Null
  Poller = {p1}
  Mail = {m1}
  Mailbox = {b1, b2}
  Org = {o1, o2}
  Contact = {c1, c2, c3}
  Identity = {id}
  Managed = {c3}
  MailboxOf <- MCMailboxOf
  OrgOf <- MCOrgOf
  IdentityOf <- MCIdentityOf
  ContactOrg <- MCContactOrg
  ThreadOf <- MCThreadOf
  SenderOf <- MCSenderOf
  MaxFaults = 1
INVARIANT RepeatIsHarmless
