\* One member and one day; one record may have to be delivered twice.
SPECIFICATION Spec
CONSTANTS
  m1 = m1
  m2 = m2
  p1 = p1
  s1 = s1
  s2 = s2
  s3 = s3
  s4 = s4
  s5 = s5
  Members = {m1}
  Partitions = {p1}
  MaxOffset = 2
  LastDay = 0
  Stamps = {s1, s2}
  MaxCrashes = 1
  MaxRevocations = 0
  NoMember = NoMember
  NoRecord = NoRecord
  NoStamp = NoStamp
SYMMETRY Symmetric
INVARIANTS
  ReplayIdempotent
