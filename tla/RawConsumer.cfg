\* Two members, one partition, a record that can be archived and one without a
\* value; any delivery may fail to decode; one crash, one revocation.
SPECIFICATION FairSpec
CONSTANTS
  m1 = m1
  m2 = m2
  p1 = p1
  Members = {m1, m2}
  Partitions = {p1}
  MaxOffset = 2
  MaxRetries = 2
  Undecodable <- MCNone
  NullValue <- MCSecond
  Unserializable <- MCNone
  MaxCrashes = 1
  MaxRevocations = 1
  NoMember = NoMember
  NoRecord = NoRecord
INVARIANTS
  TypeOK
  OffsetInvariant
  NothingSkipped
  RetriesHarmless
PROPERTIES
  ImplementsArchive
  EveryRecordArchived
