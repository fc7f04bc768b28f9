\* Two members, three changes, two days; one crash, one revocation.
SPECIFICATION Spec
CONSTANTS
  m1 = m1
  m2 = m2
  p1 = p1
  s1 = s1
  s2 = s2
  s3 = s3
  s4 = s4
  s5 = s5
  Members = {m1, m2}
  Partitions = {p1}
  MaxOffset = 3
  LastDay = 1
  Stamps = {s1, s2, s3, s4}
  MaxCrashes = 1
  MaxRevocations = 1
  NoMember = NoMember
  NoRecord = NoRecord
  NoStamp = NoStamp
SYMMETRY Symmetric
INVARIANTS
  OffsetInvariant
  NothingSkipped
PROPERTIES
  ImplementsArchive
