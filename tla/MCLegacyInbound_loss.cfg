SPECIFICATION Spec
CONSTANTS
  m1 = m1
  m2 = m2
  m3 = m3
  h1 = h1
  h2 = h2
  Null = Null
  Mail = {m1, m2, m3}
  Matched = {m1, m2}
  Anonymous = {m2}
  Hook = {h1}
  MaxFaults = 1
  MaxDeaths = 1
INVARIANT SeenIsRecorded
CHECK_DEADLOCK FALSE
