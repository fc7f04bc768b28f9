-------------------------- MODULE CdcConsumerProofs --------------------------
(***************************************************************************)
(* The offset invariant of CdcConsumer and its refinement of RawArchive,   *)
(* for any number of members, partitions, changes, days and failures.      *)
(***************************************************************************)
EXTENDS CdcConsumer, TLAPS

(* The empty log has every variable in its type. *)
LEMMA TypeInit == Init => TypeOK
  BY CdcAssumption DEF Init, TypeOK, Steps, Idle, Days

(* Every step of the group keeps the types. *)
LEMMA TypeNext == TypeOK /\ [Next]_vars => TypeOK'
<1> SUFFICES ASSUME TypeOK, [Next]_vars PROVE TypeOK'
  OBVIOUS
<1> USE CdcAssumption
<1>1. CASE UNCHANGED vars
  BY <1>1 DEF TypeOK, vars, broker, msg, bounds
<1>2. CASE NewDay
  BY <1>2 DEF TypeOK, NewDay, broker, msg, bounds, Days
<1>3. ASSUME NEW p \in Partitions, Produce(p) \/ Revoke(p)
      PROVE  TypeOK'
  BY <1>3 DEF TypeOK, Produce, Revoke, msg, bounds
<1>4. ASSUME NEW p \in Partitions, NEW m \in Members, Assign(p, m)
      PROVE  TypeOK'
  BY <1>4 DEF TypeOK, Assign, msg, bounds
<1>5. ASSUME NEW p \in Partitions, NEW m \in Members, Poll(m, p)
      PROVE  TypeOK'
  <2>1. <<p, position[p]>> \in Record
    BY <1>5 DEF Poll, TypeOK, Record, Offsets
  <2>2. position' \in [Partitions -> 0 .. MaxOffset]
    BY <1>5 DEF Poll, TypeOK
  <2>3. stamp' \in [Members -> Stamps \cup {NoStamp}]
    BY <1>5 DEF Poll, TypeOK
  <2>4. /\ cur' \in [Members -> Record \cup {NoRecord}]
        /\ pc' \in [Members -> Steps]
        /\ keyDay' \in [Members -> Days]
    BY <1>5, <2>1 DEF Poll, TypeOK, Steps
  <2>5. \A n \in Members : pc'[n] \in Idle <=> cur'[n] = NoRecord
    BY <1>5, <2>1 DEF Poll, TypeOK, Idle
  <2>6. UNCHANGED <<end, owner, committed, day, objects, collided, crashes,
                    revocations>>
    BY <1>5 DEF Poll, bounds
  <2>7. QED
    BY <2>2, <2>3, <2>4, <2>5, <2>6 DEF TypeOK
<1>6. ASSUME NEW m \in Members, Start(m) \/ PollNone(m)
      PROVE  TypeOK'
  BY <1>1, <1>6 DEF TypeOK, Start, PollNone, broker, msg, bounds, Steps, Idle
<1>7. ASSUME NEW m \in Members, pc[m] \notin Idle
      PROVE  /\ Written(m) \in [Record -> [Days -> Stamps \cup {NoStamp}]]
             /\ CommitCur(m) => committed' \in [Partitions -> 0 .. MaxOffset]
  <2>1. cur[m] \in Record /\ cur[m][1] \in Partitions /\ cur[m][2] \in Offsets
    BY <1>7 DEF TypeOK, Record
  <2>2. Written(m) \in [Record -> [Days -> Stamps \cup {NoStamp}]]
    BY <2>1 DEF Written, TypeOK
  <2>3. cur[m][2] + 1 \in 0 .. MaxOffset
    BY <2>1 DEF Offsets
  <2>4. QED
    BY <2>1, <2>2, <2>3 DEF CommitCur, TypeOK
<1>8. ASSUME NEW m \in Members, Exit(m), crashes' \in 0 .. MaxCrashes,
             committed' \in [Partitions -> 0 .. MaxOffset],
             objects' \in [Record -> [Days -> Stamps \cup {NoStamp}]],
             collided' \in SUBSET Record
      PROVE  TypeOK'
  BY <1>8 DEF Exit, Forget, TypeOK, Steps, Idle, Days
<1>9. ASSUME NEW m \in Members, Crash(m)
      PROVE  TypeOK'
  BY <1>8, <1>9 DEF Crash, TypeOK
<1>10. ASSUME NEW m \in Members, NEW step \in Steps \ Idle, pc[m] \notin Idle,
              Goto(m, step), UNCHANGED <<committed, collided>>,
              objects' = objects \/ objects' = Written(m)
       PROVE  TypeOK'
  BY <1>7, <1>10 DEF Goto, TypeOK, broker, msg, bounds
<1>11. ASSUME NEW m \in Members, HeadFound(m) \/ HeadMissing(m) \/ HeadFails(m)
       PROVE  TypeOK'
  <2>1. pc[m] \notin Idle /\ cur[m] \in Record
    BY <1>11 DEF HeadFound, HeadMissing, HeadFails, Idle, TypeOK
  <2>2. UNCHANGED <<committed, objects>>
    BY <1>11 DEF HeadFound, HeadMissing, HeadFails
  <2>3. \/ /\ UNCHANGED collided
           /\ Goto(m, "commit") \/ Goto(m, "put")
        \/ Exit(m) /\ UNCHANGED crashes /\ collided' \in SUBSET Record
    BY <1>11, <2>1 DEF HeadFound, HeadMissing, HeadFails, TypeOK
  <2>4. QED
    BY <1>8, <1>10, <2>1, <2>2, <2>3 DEF TypeOK, Steps, Idle
<1>12. ASSUME NEW m \in Members, PutObject(m) \/ PutFails(m)
       PROVE  TypeOK'
  BY <1>7, <1>8, <1>10, <1>12 DEF PutObject, PutFails, TypeOK, Steps, Idle
<1>13. ASSUME NEW m \in Members, Commit(m)
       PROVE  TypeOK'
  <2>1. committed' \in [Partitions -> 0 .. MaxOffset]
    BY <1>7, <1>13 DEF Commit, Idle
  <2>2. /\ pc' \in [Members -> Steps]
        /\ cur' \in [Members -> Record \cup {NoRecord}]
        /\ stamp' \in [Members -> Stamps \cup {NoStamp}]
        /\ keyDay' \in [Members -> Days]
        /\ \A n \in Members : pc'[n] \in Idle <=> cur'[n] = NoRecord
    BY <1>13 DEF Commit, Forget, TypeOK, Steps, Idle, Days
  <2>3. UNCHANGED <<end, owner, position, day, objects, collided, crashes,
                    revocations>>
    BY <1>13 DEF Commit, broker, bounds
  <2>4. QED
    BY <2>1, <2>2, <2>3 DEF TypeOK
<1>14. ASSUME NEW m \in Members, CommitFails(m)
       PROVE  TypeOK'
  BY <1>7, <1>8, <1>14 DEF CommitFails, TypeOK, Idle
<1>15. QED
  BY <1>1, <1>2, <1>3, <1>4, <1>5, <1>6, <1>9, <1>11, <1>12, <1>13, <1>14
  DEF Next, ProcessCdcMessage

(* Every value has its type, and a member holds a change exactly while it  *)
(* is inside process_cdc_message.                                          *)
THEOREM TypeCorrect == Spec => []TypeOK
  BY TypeInit, TypeNext, PTL DEF Spec

-----------------------------------------------------------------------------
(***************************************************************************)
(* A commit is safe because of what lies below the record, and because the *)
(* record itself is stored; both follow from where it was polled.          *)
(***************************************************************************)

(* A member that works on a change has given it a time. *)
Stamped == \A m \in Members : pc[m] \notin Idle => stamp[m] \in Stamps

(* What is about to be committed is stored. *)
Evidence == \A m \in Members : pc[m] = "commit" => Durable(cur[m])

(* Only produced changes are worked on. *)
InLog == \A m \in Members : pc[m] \notin Idle => cur[m][2] < end[cur[m][1]]

(* What the owner has polled is stored, or is what it is working on. *)
PositionFollowsArchive ==
  \A p \in Partitions : owner[p] # NoMember =>
    \A o \in Offsets : o < position[p] =>
      Durable(<<p, o>>) \/ cur[owner[p]] = <<p, o>>

ArchiveInv ==
  /\ TypeOK
  /\ Stamped
  /\ Evidence
  /\ InLog
  /\ OffsetInvariant
  /\ NothingSkipped
  /\ PositionFollowsArchive

(* Before the first change the archive invariant holds. *)
LEMMA ArchiveInvInit == Init => ArchiveInv
  BY TypeInit, CdcAssumption
  DEF Init, ArchiveInv, Stamped, Evidence, InLog, OffsetInvariant, NothingSkipped,
      PositionFollowsArchive, Idle, Offsets

(* What is stored stays stored. *)
DurableAfter(r) == \E d \in Days : objects'[r][d] # NoStamp
DurableGrows == \A r \in Record : Durable(r) => DurableAfter(r)

(* A member inside process_cdc_message holds a record. *)
LEMMA CurInRecord ==
  ASSUME TypeOK, NEW m \in Members, pc[m] \notin Idle
  PROVE  /\ cur[m] \in Record
         /\ cur[m] = <<cur[m][1], cur[m][2]>>
         /\ cur[m][1] \in Partitions
         /\ cur[m][2] \in Offsets
         /\ keyDay[m] \in Days
  BY DEF TypeOK, Record

(* Committing a stored record below which all is stored. *)
LEMMA SafeCommit ==
  ASSUME ArchiveInv, DurableGrows, NEW m \in Members, pc[m] \notin Idle,
         committed' = committed \/ (CommitCur(m) /\ Durable(cur[m]))
  PROVE  OffsetInvariant'
<1> SUFFICES ASSUME NEW p \in Partitions, NEW o \in Offsets, o < committed'[p]
             PROVE  Durable(<<p, o>>)
  BY DEF OffsetInvariant, DurableGrows, DurableAfter, Durable, Stored, Record
<1>1. o \in Int
  BY CdcAssumption DEF Offsets
<1>2. CASE o < committed[p]
  BY <1>2 DEF ArchiveInv, OffsetInvariant
<1>3. CASE ~(o < committed[p])
  <2>1. CommitCur(m) /\ Durable(cur[m]) /\ p = cur[m][1] /\ o < cur[m][2] + 1
    BY <1>3 DEF CommitCur, ArchiveInv, TypeOK
  <2>2. cur[m] = <<p, cur[m][2]>> /\ cur[m][2] \in Int
    BY <2>1, CurInRecord, CdcAssumption DEF ArchiveInv, Offsets
  <2>3. o < cur[m][2] \/ o = cur[m][2]
    BY <2>1, <2>2, <1>1
  <2>4. QED
    BY <2>1, <2>2, <2>3 DEF ArchiveInv, NothingSkipped
<1>4. QED
  BY <1>2, <1>3

(* A step inside process_cdc_message: the record in flight stays the same. *)
LEMMA GotoArchive ==
  ASSUME ArchiveInv, TypeOK', DurableGrows, NEW m \in Members, pc[m] \notin Idle,
         NEW step \in Steps \ Idle, Goto(m, step), committed' = committed,
         step = "commit" => DurableAfter(cur[m])
  PROVE  ArchiveInv'
<1> USE DEF Goto
<1>1. /\ UNCHANGED <<end, owner, position, cur, stamp>>
      /\ \A n \in Members : pc'[n] \notin Idle <=> pc[n] \notin Idle
      /\ \A n \in Members : n # m => pc'[n] = pc[n]
      /\ pc'[m] = step
  BY DEF ArchiveInv, TypeOK, broker, msg
<1>2. OffsetInvariant'
  BY SafeCommit
<1>3. Stamped' /\ InLog'
  BY <1>1 DEF ArchiveInv, Stamped, InLog
<1>4. Evidence'
  <2> SUFFICES ASSUME NEW n \in Members, pc'[n] = "commit"
               PROVE  DurableAfter(cur[n])
    BY <1>1 DEF Evidence, Durable, Stored, DurableAfter
  <2>1. CASE n = m
    BY <1>1, <2>1
  <2>2. CASE n # m
    <3>1. pc[n] = "commit" /\ cur[n] \in Record
      BY <1>1, <2>2, CurInRecord DEF ArchiveInv, Idle
    <3>2. QED
      BY <3>1 DEF ArchiveInv, Evidence, DurableGrows
  <2>3. QED
    BY <2>1, <2>2
<1>5. NothingSkipped'
  <2> SUFFICES ASSUME NEW n \in Members, pc'[n] \notin Idle,
                      NEW o \in Offsets, o < cur[n][2]
               PROVE  DurableAfter(<<cur[n][1], o>>)
    BY <1>1 DEF NothingSkipped, Durable, Stored, DurableAfter
  <2>1. pc[n] \notin Idle
    BY <1>1
  <2>2. <<cur[n][1], o>> \in Record
    BY <2>1, CurInRecord DEF ArchiveInv, Record
  <2>3. QED
    BY <2>1, <2>2 DEF ArchiveInv, NothingSkipped, DurableGrows
<1>6. PositionFollowsArchive'
  BY <1>1 DEF ArchiveInv, PositionFollowsArchive, DurableGrows, Record,
              Durable, Stored, DurableAfter
<1>7. QED
  BY <1>2, <1>3, <1>4, <1>5, <1>6 DEF ArchiveInv

(* A step that ends the work on a record: it returns to the poll loop with *)
(* the record committed, or the process ends.                              *)
LEMMA ReleaseArchive ==
  ASSUME ArchiveInv, TypeOK', DurableGrows, NEW m \in Members, NEW step \in Idle,
         pc' = [pc EXCEPT ![m] = step], Forget(m), UNCHANGED <<end, position>>,
         \/ committed' = committed
         \/ pc[m] \notin Idle /\ CommitCur(m) /\ Durable(cur[m]),
         \/ owner' = owner /\ pc[m] \notin Idle /\ Durable(cur[m])
         \/ owner' = [p \in Partitions |->
                        IF owner[p] = m THEN NoMember ELSE owner[p]]
  PROVE  ArchiveInv'
<1>1. OffsetInvariant'
  <2>1. CASE committed' = committed
    BY <2>1 DEF ArchiveInv, OffsetInvariant, DurableGrows, DurableAfter, Durable,
                Stored, Record
  <2>2. CASE pc[m] \notin Idle /\ CommitCur(m) /\ Durable(cur[m])
    BY <2>2, SafeCommit
  <2>3. QED
    BY <2>1, <2>2
<1>2. /\ \A n \in Members :
           n # m => cur'[n] = cur[n] /\ pc'[n] = pc[n] /\ stamp'[n] = stamp[n]
      /\ pc'[m] \in Idle
  BY DEF ArchiveInv, TypeOK, Forget
<1>3. Stamped' /\ InLog'
  BY <1>2 DEF ArchiveInv, Stamped, InLog
<1>4. ASSUME NEW n \in Members, pc'[n] \notin Idle
      PROVE  /\ n # m
             /\ pc[n] \notin Idle
             /\ cur[n] \in Record
             /\ \A o \in Offsets : <<cur[n][1], o>> \in Record
  BY <1>2, <1>4, CurInRecord DEF ArchiveInv, Record
<1>5. Evidence'
  <2> SUFFICES ASSUME NEW n \in Members, pc'[n] = "commit"
               PROVE  DurableAfter(cur'[n])
    BY DEF Evidence, Durable, Stored, DurableAfter
  <2>1. QED
    BY <1>2, <1>4 DEF ArchiveInv, Evidence, DurableGrows, Idle
<1>6. NothingSkipped'
  <2> SUFFICES ASSUME NEW n \in Members, pc'[n] \notin Idle,
                      NEW o \in Offsets, o < cur'[n][2]
               PROVE  DurableAfter(<<cur'[n][1], o>>)
    BY DEF NothingSkipped, Durable, Stored, DurableAfter
  <2>1. QED
    BY <1>2, <1>4 DEF ArchiveInv, NothingSkipped, DurableGrows
<1>7. PositionFollowsArchive'
  <2> SUFFICES ASSUME NEW p \in Partitions, owner'[p] # NoMember,
                      NEW o \in Offsets, o < position[p]
               PROVE  Durable(<<p, o>>) \/ cur'[owner'[p]] = <<p, o>>
    BY DEF PositionFollowsArchive, DurableGrows, DurableAfter, Durable, Stored,
           Record
  <2>1. owner'[p] = owner[p] /\ owner[p] \in Members
    BY CdcAssumption DEF ArchiveInv, TypeOK
  <2>2. Durable(<<p, o>>) \/ cur[owner[p]] = <<p, o>>
    BY <2>1 DEF ArchiveInv, PositionFollowsArchive
  <2>3. owner[p] = m => Durable(cur[m])
    BY <2>1, CdcAssumption DEF ArchiveInv, TypeOK
  <2>4. QED
    BY <1>2, <2>1, <2>2, <2>3
<1>8. QED
  BY <1>1, <1>3, <1>5, <1>6, <1>7 DEF ArchiveInv

(* Polling hands out a change below which all is stored. *)
LEMMA PollArchive ==
  ASSUME ArchiveInv, TypeOK', NEW m \in Members, NEW p \in Partitions, Poll(m, p)
  PROVE  ArchiveInv'
<1> USE DEF Poll
<1>1. position[p] \in Offsets /\ pc[m] \in Idle /\ cur[m] = NoRecord
  BY CdcAssumption DEF ArchiveInv, TypeOK, Offsets, Idle
<1>2. \A o \in Offsets : o < position[p] => Durable(<<p, o>>)
  BY <1>1, CdcAssumption DEF ArchiveInv, PositionFollowsArchive, Record
<1>3. /\ cur'[m] = <<p, position[p]>>
      /\ pc'[m] = "head"
      /\ stamp'[m] \in Stamps
      /\ \A n \in Members :
           n # m => cur'[n] = cur[n] /\ pc'[n] = pc[n] /\ stamp'[n] = stamp[n]
  BY DEF ArchiveInv, TypeOK
<1>4. OffsetInvariant' /\ Evidence' /\ Stamped'
  BY <1>3 DEF ArchiveInv, OffsetInvariant, Evidence, Stamped, Durable, Stored
<1>5. InLog' /\ NothingSkipped'
  BY <1>2, <1>3 DEF ArchiveInv, InLog, NothingSkipped, Durable, Stored
<1>6. PositionFollowsArchive'
  <2> SUFFICES ASSUME NEW q \in Partitions, owner[q] # NoMember,
                      NEW o \in Offsets, o < position'[q]
               PROVE  Durable(<<q, o>>) \/ cur'[owner[q]] = <<q, o>>
    BY DEF PositionFollowsArchive, Durable, Stored
  <2>1. owner[q] \in Members
    BY CdcAssumption DEF ArchiveInv, TypeOK
  <2>2. CASE o < position[q]
    BY <1>1, <1>3, <2>1, <2>2, CdcAssumption
    DEF ArchiveInv, PositionFollowsArchive, Record
  <2>3. CASE ~(o < position[q])
    <3>1. /\ position'[q] = IF q = p THEN position[p] + 1 ELSE position[q]
          /\ position[q] \in Int
          /\ o \in Int
      BY CdcAssumption DEF ArchiveInv, TypeOK, Offsets
    <3>2. q = p /\ o = position[p]
      BY <2>3, <3>1
    <3>3. QED
      BY <1>3, <3>2
  <2>4. QED
    BY <2>2, <2>3
<1>7. QED
  BY <1>4, <1>5, <1>6 DEF ArchiveInv

(* What put_object writes: the object of the record in flight. *)
LEMMA WrittenDurable ==
  ASSUME ArchiveInv, NEW m \in Members, pc[m] \notin Idle, objects' = Written(m)
  PROVE  /\ DurableGrows
         /\ DurableAfter(cur[m])
         /\ \A r \in Record : r # cur[m] => objects'[r] = objects[r]
<1>1. cur[m] \in Record /\ keyDay[m] \in Days /\ stamp[m] \in Stamps
  BY CurInRecord DEF ArchiveInv, Stamped
<1>2. stamp[m] # NoStamp
  BY <1>1, CdcAssumption
<1>3. /\ objects'[cur[m]][keyDay[m]] = stamp[m]
      /\ \A r \in Record : r # cur[m] => objects'[r] = objects[r]
  BY <1>1 DEF ArchiveInv, TypeOK, Written
<1>4. DurableAfter(cur[m])
  BY <1>1, <1>2, <1>3 DEF DurableAfter
<1>5. QED
  BY <1>3, <1>4 DEF DurableGrows, DurableAfter, Durable, Stored

(* Nothing is lost when nothing is written. *)
LEMMA KeptDurable == objects' = objects => DurableGrows
  BY DEF DurableGrows, DurableAfter, Durable, Stored

(* The archive invariant is inductive. *)
LEMMA ArchiveInvNext == ArchiveInv /\ [Next]_vars => ArchiveInv'
<1> SUFFICES ASSUME ArchiveInv, [Next]_vars PROVE ArchiveInv'
  OBVIOUS
<1>0. TypeOK /\ TypeOK'
  BY TypeNext DEF ArchiveInv
<1>1. CASE UNCHANGED vars \/ NewDay
  BY <1>0, <1>1
  DEF ArchiveInv, Stamped, Evidence, InLog, OffsetInvariant, NothingSkipped,
      PositionFollowsArchive, Durable, Stored, vars, NewDay, broker, msg, bounds
<1>2. ASSUME NEW p \in Partitions, Produce(p) \/ Revoke(p)
      PROVE  ArchiveInv'
  <2>1. InLog'
    <3> SUFFICES ASSUME NEW m \in Members, pc[m] \notin Idle
                 PROVE  cur[m][2] < end'[cur[m][1]]
      BY <1>2 DEF InLog, Produce, Revoke, msg
    <3>1. cur[m][1] \in Partitions /\ cur[m][2] \in Int
      BY <1>0, CurInRecord, CdcAssumption DEF Offsets
    <3>2. end'[cur[m][1]] >= end[cur[m][1]] /\ end[cur[m][1]] \in Int
      <4>1. end \in [Partitions -> Int] /\ end[cur[m][1]] \in Int
        BY <1>0, <3>1 DEF TypeOK
      <4>2. CASE Produce(p)
        <5>1. end' = [end EXCEPT ![p] = end[p] + 1]
          BY <4>2 DEF Produce
        <5>2. QED
          BY <4>1, <5>1, <3>1
      <4>3. CASE Revoke(p)
        BY <4>1, <4>3 DEF Revoke
      <4>4. QED
        BY <1>2, <4>1, <4>2, <4>3
    <3>3. end'[cur[m][1]] \in Int
      BY <1>0, <3>1 DEF TypeOK
    <3>4. QED
      BY <3>1, <3>2, <3>3 DEF ArchiveInv, InLog
  <2>2. Stamped' /\ Evidence' /\ OffsetInvariant' /\ NothingSkipped'
    BY <1>2 DEF ArchiveInv, Stamped, Evidence, OffsetInvariant, NothingSkipped,
                Durable, Stored, Produce, Revoke, msg
  <2>3. PositionFollowsArchive'
    BY <1>0, <1>2 DEF ArchiveInv, PositionFollowsArchive, Durable, Stored,
                      Produce, Revoke, TypeOK, msg
  <2>4. QED
    BY <1>0, <2>1, <2>2, <2>3 DEF ArchiveInv
<1>3. ASSUME NEW p \in Partitions, NEW m \in Members, Assign(p, m)
      PROVE  ArchiveInv'
  <2>1. Stamped' /\ Evidence' /\ InLog' /\ OffsetInvariant' /\ NothingSkipped'
    BY <1>3 DEF ArchiveInv, Stamped, Evidence, InLog, OffsetInvariant,
                NothingSkipped, Durable, Stored, Assign, msg
  <2>2. PositionFollowsArchive'
    BY <1>0, <1>3 DEF ArchiveInv, PositionFollowsArchive, OffsetInvariant,
                      Durable, Stored, Assign, TypeOK, msg
  <2>3. QED
    BY <1>0, <2>1, <2>2 DEF ArchiveInv
<1>4. ASSUME NEW m \in Members, Start(m) \/ PollNone(m)
      PROVE  ArchiveInv'
  <2>1. CASE PollNone(m)
    BY <1>1, <2>1 DEF PollNone
  <2>2. CASE Start(m)
    <3>1. /\ UNCHANGED <<end, owner, position, committed, cur, stamp, objects>>
          /\ \A n \in Members : pc'[n] \notin Idle => pc'[n] = pc[n]
      BY <1>0, <2>2 DEF Start, TypeOK, broker, msg, Idle
    <3>2. Stamped' /\ InLog' /\ NothingSkipped'
      BY <3>1 DEF ArchiveInv, Stamped, InLog, NothingSkipped, Durable, Stored
    <3>3. Evidence' /\ OffsetInvariant' /\ PositionFollowsArchive'
      BY <3>1 DEF ArchiveInv, Evidence, OffsetInvariant, PositionFollowsArchive,
                  Durable, Stored, Idle
    <3>4. QED
      BY <1>0, <3>2, <3>3 DEF ArchiveInv
  <2>3. QED
    BY <1>4, <2>1, <2>2
<1>5. ASSUME NEW m \in Members, NEW p \in Partitions, Poll(m, p)
      PROVE  ArchiveInv'
  BY <1>0, <1>5, PollArchive
<1>6. ASSUME NEW m \in Members, Exit(m), DurableGrows,
             \/ committed' = committed
             \/ pc[m] \notin Idle /\ CommitCur(m) /\ Durable(cur[m])
      PROVE  ArchiveInv'
  BY <1>0, <1>6, ReleaseArchive DEF Exit, Idle
<1>7. ASSUME NEW m \in Members, Crash(m) \/ HeadFails(m)
      PROVE  ArchiveInv'
  BY <1>6, <1>7, KeptDurable DEF Crash, HeadFails
<1>8. ASSUME NEW m \in Members, HeadFound(m) \/ HeadMissing(m)
      PROVE  ArchiveInv'
  <2>1. pc[m] \notin Idle /\ UNCHANGED <<committed, objects>>
    BY <1>8 DEF HeadFound, HeadMissing, Idle
  <2>2. Stored(cur[m], keyDay[m]) => DurableAfter(cur[m])
    BY <1>0, <2>1, CurInRecord DEF Stored, DurableAfter
  <2>3. Exit(m) \/ Goto(m, "put") \/ (Goto(m, "commit") /\ DurableAfter(cur[m]))
    BY <1>8, <2>2 DEF HeadFound, HeadMissing
  <2>4. "put" \in Steps \ Idle /\ "commit" \in Steps \ Idle
    BY DEF Steps, Idle
  <2>5. QED
    BY <1>0, <1>6, <2>1, <2>3, <2>4, KeptDurable, GotoArchive
<1>9. ASSUME NEW m \in Members, PutObject(m) \/ PutFails(m)
      PROVE  ArchiveInv'
  <2>1. pc[m] \notin Idle /\ UNCHANGED committed
    BY <1>9 DEF PutObject, PutFails, Idle
  <2>2. DurableGrows /\ (objects' = Written(m) => DurableAfter(cur[m]))
    BY <1>9, <2>1, WrittenDurable, KeptDurable DEF PutObject, PutFails
  <2>3. "commit" \in Steps \ Idle
    BY DEF Steps, Idle
  <2>4. QED
    BY <1>0, <1>6, <1>9, <2>1, <2>2, <2>3, GotoArchive DEF PutObject, PutFails
<1>10. ASSUME NEW m \in Members, Commit(m) \/ CommitFails(m)
       PROVE  ArchiveInv'
  <2>1. pc[m] \notin Idle /\ Durable(cur[m]) /\ DurableGrows
    BY <1>10, KeptDurable DEF Commit, CommitFails, ArchiveInv, Evidence, Idle
  <2>2. CASE Commit(m)
    BY <1>0, <2>1, <2>2, ReleaseArchive DEF Commit, broker, Idle
  <2>3. CASE CommitFails(m)
    BY <1>6, <2>1, <2>3 DEF CommitFails
  <2>4. QED
    BY <1>10, <2>2, <2>3
<1>11. QED
  BY <1>1, <1>2, <1>3, <1>4, <1>5, <1>7, <1>8, <1>9, <1>10
  DEF Next, ProcessCdcMessage

(* The archive invariant holds in every reachable state. *)
LEMMA ArchiveInvHolds == Spec => []ArchiveInv
  BY ArchiveInvInit, ArchiveInvNext, PTL DEF Spec

(* No committed offset of a CDC topic is ahead of a change that is neither *)
(* in Raw nor in the quarantine, whatever members crash, collide or lose   *)
(* the partition: the consumer loop commits only after the store returned. *)
THEOREM OffsetInvariantHolds == Spec => []OffsetInvariant
<1>1. ArchiveInv => OffsetInvariant
  BY DEF ArchiveInv
<1>2. QED
  BY <1>1, ArchiveInvHolds, PTL

(* process_cdc_message works on a change only when every earlier change of *)
(* the partition is stored, so the changes of a row reach Raw in order.    *)
THEOREM NothingSkippedHolds == Spec => []NothingSkipped
<1>1. ArchiveInv => NothingSkipped
  BY DEF ArchiveInv
<1>2. QED
  BY <1>1, ArchiveInvHolds, PTL

-----------------------------------------------------------------------------
(* Refinement: each step of the group is a step of RawArchive or none. *)

archivedSet == {r \in Record : Durable(r)}

(* Everything below the change in flight is archived. *)
LEMMA BelowArchived ==
  ASSUME ArchiveInv, NEW m \in Members, pc[m] \notin Idle
  PROVE  /\ Abstract!AllBelow(cur[m][1], cur[m][2]) \subseteq archivedSet
         /\ Durable(cur[m]) =>
              Abstract!AllBelow(cur[m][1], cur[m][2] + 1) \subseteq archivedSet
<1> DEFINE p == cur[m][1]
           o == cur[m][2]
<1>1. cur[m] = <<p, o>> /\ p \in Partitions /\ o \in Offsets /\ cur[m] \in Record
  BY CurInRecord DEF ArchiveInv
<1>2. \A q \in Offsets : q < o => Durable(<<p, q>>)
  BY DEF ArchiveInv, NothingSkipped
<1> HIDE DEF p, o
<1>3. \A q \in 0 .. o - 1 : <<p, q>> \in archivedSet
  BY <1>1, <1>2, CdcAssumption DEF Offsets, Record, archivedSet
<1>4. \A q \in 0 .. (o + 1) - 1 : q \in 0 .. o - 1 \/ q = o
  BY <1>1, CdcAssumption DEF Offsets
<1>5. Durable(cur[m]) => \A q \in 0 .. (o + 1) - 1 : <<p, q>> \in archivedSet
  BY <1>1, <1>3, <1>4 DEF archivedSet
<1>6. QED
  BY <1>3, <1>5 DEF Abstract!AllBelow, p, o

(* A step that neither stores nor commits is invisible. *)
LEMMA QuietStep ==
  ASSUME UNCHANGED <<end, committed, objects>>
  PROVE  UNCHANGED Abstract!archiveVars
  BY DEF Abstract!archiveVars, Durable, Stored

(* A put_object archives the change in flight, or nothing new. *)
LEMMA ArchivingStep ==
  ASSUME ArchiveInv, NEW m \in Members, pc[m] \notin Idle,
         UNCHANGED <<end, committed>>, objects' = Written(m)
  PROVE  [Abstract!ArchiveNext]_(Abstract!archiveVars)
<1> DEFINE p == cur[m][1]
           o == cur[m][2]
<1>1. /\ cur[m] = <<p, o>> /\ p \in Partitions /\ o \in 0 .. MaxOffset - 1
      /\ cur[m] \in Record
      /\ o < end[p]
  BY CurInRecord DEF ArchiveInv, Offsets, InLog
<1>2. archivedSet' = archivedSet \cup {cur[m]}
  BY <1>1, WrittenDurable DEF archivedSet, Durable, Stored, DurableAfter
<1>3. Abstract!Archive(p, o)
  BY <1>1, <1>2, BelowArchived DEF Abstract!Archive, archivedSet
<1>4. QED
  BY <1>1, <1>3 DEF Abstract!ArchiveNext

(* A commit advances to just after an archived change. *)
LEMMA CommittingStep ==
  ASSUME ArchiveInv, NEW m \in Members, pc[m] \notin Idle, Durable(cur[m]),
         UNCHANGED <<end, objects>>, CommitCur(m)
  PROVE  [Abstract!ArchiveNext]_(Abstract!archiveVars)
<1>1. cur[m][1] \in Partitions /\ cur[m][2] \in 0 .. MaxOffset - 1
  BY CurInRecord DEF ArchiveInv, Offsets
<1>2. archivedSet' = archivedSet
  BY DEF archivedSet, Durable, Stored
<1>3. Abstract!Advance(cur[m][1], cur[m][2])
  BY <1>2, BelowArchived DEF Abstract!Advance, CommitCur, archivedSet
<1>4. QED
  BY <1>1, <1>3 DEF Abstract!ArchiveNext

(* The initial states map to the initial states of RawArchive. *)
LEMMA InitRefines == Init => Abstract!ArchiveInit
  BY DEF Init, Abstract!ArchiveInit, Durable, Stored

(* Every step of the group is a step of RawArchive or a stutter. *)
LEMMA NextRefines ==
  ArchiveInv /\ [Next]_vars => [Abstract!ArchiveNext]_(Abstract!archiveVars)
<1> SUFFICES ASSUME ArchiveInv, [Next]_vars
             PROVE  [Abstract!ArchiveNext]_(Abstract!archiveVars)
  OBVIOUS
<1>1. CASE UNCHANGED vars \/ NewDay
  BY <1>1, QuietStep DEF vars, NewDay, broker
<1>2. ASSUME NEW p \in Partitions, Produce(p)
      PROVE  [Abstract!ArchiveNext]_(Abstract!archiveVars)
  <2>1. Abstract!Append(p)
    BY <1>2 DEF Produce, Abstract!Append, Durable, Stored
  <2>2. QED
    BY <2>1 DEF Abstract!ArchiveNext
<1>3. ASSUME NEW p \in Partitions,
             Revoke(p) \/ \E m \in Members : Assign(p, m) \/ Poll(m, p)
      PROVE  [Abstract!ArchiveNext]_(Abstract!archiveVars)
  BY <1>3, QuietStep DEF Revoke, Assign, Poll
<1>4. ASSUME NEW m \in Members,
             \/ Start(m) \/ Crash(m) \/ PollNone(m)
             \/ HeadFound(m) \/ HeadMissing(m) \/ HeadFails(m)
      PROVE  [Abstract!ArchiveNext]_(Abstract!archiveVars)
  BY <1>4, QuietStep
  DEF Start, Crash, PollNone, HeadFound, HeadMissing, HeadFails, Goto, Exit,
      broker, vars
<1>5. ASSUME NEW m \in Members, PutObject(m) \/ PutFails(m)
      PROVE  [Abstract!ArchiveNext]_(Abstract!archiveVars)
  <2>1. /\ pc[m] \notin Idle
        /\ UNCHANGED <<end, committed>>
        /\ objects' = objects \/ objects' = Written(m)
    BY <1>5 DEF PutObject, PutFails, Goto, Exit, broker, Idle
  <2>2. QED
    BY <2>1, QuietStep, ArchivingStep
<1>6. ASSUME NEW m \in Members, Commit(m) \/ CommitFails(m)
      PROVE  [Abstract!ArchiveNext]_(Abstract!archiveVars)
  <2>1. /\ pc[m] \notin Idle
        /\ Durable(cur[m])
        /\ UNCHANGED <<end, objects>>
        /\ committed' = committed \/ CommitCur(m)
    BY <1>6 DEF Commit, CommitFails, Exit, broker, Idle, ArchiveInv, Evidence
  <2>2. QED
    BY <2>1, QuietStep, CommittingStep
<1>7. QED
  BY <1>1, <1>2, <1>3, <1>4, <1>5, <1>6 DEF Next, ProcessCdcMessage

(* The CDC path implements the same archive as the payment path: changes   *)
(* are stored in order and kept, and offsets are committed above a stored  *)
(* prefix of the partition only.                                           *)
THEOREM ArchiveImplemented == Spec => ImplementsArchive
<1>1. Spec => Abstract!ArchiveInit
  BY InitRefines DEF Spec
<1>2. Spec => [][Abstract!ArchiveNext]_(Abstract!archiveVars)
  BY NextRefines, ArchiveInvHolds, PTL DEF Spec
<1>3. QED
  BY <1>1, <1>2 DEF ImplementsArchive, Abstract!ArchiveSpec

=============================================================================
