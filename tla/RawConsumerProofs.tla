-------------------------- MODULE RawConsumerProofs --------------------------
(***************************************************************************)
(* The offset invariant of RawConsumer, for any number of members,         *)
(* partitions, records, retries, crashes and revocations.                  *)
(***************************************************************************)
EXTENDS RawConsumer, FiniteSetTheorems, TLAPS

(* A member about to retry has attempts left. *)
RetryRoom == \A m \in Members : pc[m] = "retry" => attempt[m] < MaxRetries

TypeInv == TypeOK /\ RetryRoom

(* The group starts with every variable in its type. *)
LEMMA TypeInit == Init => TypeInv
  BY BoundsAssumption, NoneAssumption
  DEF Init, TypeInv, TypeOK, RetryRoom, Steps, Idle

(* What a step of one member does to the control state keeps its type. *)
LEMMA GotoType ==
  ASSUME TypeInv, NEW m \in Members, NEW step \in Steps \ Idle,
         pc[m] \notin Idle, step = "retry" => attempt[m] < MaxRetries,
         Goto(m, step),
         committed' \in [Partitions -> 0 .. MaxOffset],
         puts' \in [Record -> Nat],
         dlq' \in [Record -> SUBSET (0 .. MaxRetries)]
  PROVE  TypeInv'
  BY DEF TypeInv, TypeOK, RetryRoom, Goto, broker, bounds, Idle

(* The except branch of process_message keeps the types. *)
LEMMA FailureType ==
  ASSUME TypeInv, NEW m \in Members, pc[m] \notin Idle, TransientFailure(m),
         committed' \in [Partitions -> 0 .. MaxOffset],
         puts' \in [Record -> Nat],
         dlq' \in [Record -> SUBSET (0 .. MaxRetries)]
  PROVE  TypeInv'
<1> DEFINE step == IF ShouldSendToDlq(m) THEN "dlq" ELSE "retry"
<1>1. step \in Steps \ Idle
  BY DEF Steps, Idle
<1>2. step = "retry" => attempt[m] < MaxRetries
  BY BoundsAssumption DEF ShouldSendToDlq, TypeInv, TypeOK
<1>3. Goto(m, step)
  BY DEF TransientFailure
<1> HIDE DEF step
<1>4. QED
  BY <1>1, <1>2, <1>3, GotoType

(* So does the end of a process. *)
LEMMA ExitType ==
  ASSUME TypeInv, NEW m \in Members, Exit(m), UNCHANGED <<committed, puts, dlq>>,
         crashes' \in 0 .. MaxCrashes, revocations' = revocations
  PROVE  TypeInv'
  BY BoundsAssumption, NoneAssumption
  DEF TypeInv, TypeOK, RetryRoom, Exit, Steps, Idle

(* A committed offset is one of the partition. *)
LEMMA CommitType ==
  ASSUME TypeInv, NEW m \in Members, pc[m] \notin Idle, CommitCur(m)
  PROVE  committed' \in [Partitions -> 0 .. MaxOffset]
<1>1. cur[m] \in Record
  BY DEF TypeInv, TypeOK
<1>2. /\ cur[m][1] \in Partitions
      /\ cur[m][2] + 1 \in 0 .. MaxOffset
  BY <1>1, BoundsAssumption DEF Record, Offsets
<1>3. QED
  BY <1>2 DEF CommitCur, TypeInv, TypeOK

(* Leaving process_message keeps the types. *)
LEMMA ReturnType ==
  ASSUME TypeInv, NEW m \in Members, Return(m),
         committed' \in [Partitions -> 0 .. MaxOffset], UNCHANGED <<puts, dlq>>
  PROVE  TypeInv'
  BY BoundsAssumption, NoneAssumption
  DEF TypeInv, TypeOK, RetryRoom, Return, broker, bounds, Steps, Idle

(* Every step of the group keeps the types. *)
LEMMA TypeNext == TypeInv /\ [Next]_vars => TypeInv'
<1> SUFFICES ASSUME TypeInv, [Next]_vars PROVE TypeInv'
  OBVIOUS
<1> USE BoundsAssumption, NoneAssumption
<1>1. CASE UNCHANGED vars
  BY <1>1 DEF TypeInv, TypeOK, RetryRoom, vars
<1>2. ASSUME NEW p \in Partitions, Produce(p) \/ Revoke(p)
      PROVE  TypeInv'
  BY <1>2 DEF TypeInv, TypeOK, RetryRoom, Produce, Revoke, bounds
<1>3. ASSUME NEW p \in Partitions, NEW m \in Members, Assign(p, m)
      PROVE  TypeInv'
  BY <1>3 DEF TypeInv, TypeOK, RetryRoom, Assign, bounds
<1>4. ASSUME NEW m \in Members, Start(m)
      PROVE  TypeInv'
  BY <1>4 DEF TypeInv, TypeOK, RetryRoom, Start, broker, bounds, Steps, Idle
<1>5. ASSUME NEW m \in Members, Crash(m) \/ RetryRaises(m) \/ FailStop(m)
      PROVE  TypeInv'
  <2>1. crashes' \in 0 .. MaxCrashes
    BY <1>5 DEF Crash, RetryRaises, FailStop, bounds, TypeInv, TypeOK
  <2>2. QED
    BY <1>5, <2>1, ExitType DEF Crash, RetryRaises, FailStop, bounds
<1>6. ASSUME NEW m \in Members, PollNone(m)
      PROVE  TypeInv'
  BY <1>6 DEF TypeInv, TypeOK, RetryRoom, PollNone, vars
<1>7. ASSUME NEW m \in Members, NEW p \in Partitions, Poll(m, p)
      PROVE  TypeInv'
  <2>1. <<p, position[p]>> \in Record
    BY <1>7 DEF Poll, TypeInv, TypeOK, Record, Offsets
  <2>2. position[p] + 1 \in 0 .. MaxOffset
    BY <1>7 DEF Poll, TypeInv, TypeOK
  <2>3. QED
    BY <1>7, <2>1, <2>2
    DEF Poll, TypeInv, TypeOK, RetryRoom, bounds, Steps, Idle
<1>8. ASSUME NEW m \in Members,
             \/ Deserialize(m) \/ DeserializeFails(m)
             \/ HeadFound(m) \/ HeadMissing(m) \/ HeadFails(m)
      PROVE  TypeInv'
  <2>1. /\ pc[m] \notin Idle
        /\ committed' \in [Partitions -> 0 .. MaxOffset]
        /\ puts' \in [Record -> Nat]
        /\ dlq' \in [Record -> SUBSET (0 .. MaxRetries)]
    BY <1>8 DEF Deserialize, DeserializeFails, HeadFound, HeadMissing,
                HeadFails, Idle, TypeInv, TypeOK
  <2>2. TransientFailure(m) \/ \E step \in {"head", "dlq", "put", "commit"} :
                                  Goto(m, step)
    BY <1>8 DEF Deserialize, DeserializeFails, HeadFound, HeadMissing, HeadFails
  <2>3. QED
    BY <2>1, <2>2, GotoType, FailureType DEF Steps, Idle
<1>9. ASSUME NEW m \in Members, PutObject(m) \/ PutFails(m)
      PROVE  TypeInv'
  <2>1. /\ pc[m] \notin Idle
        /\ committed' \in [Partitions -> 0 .. MaxOffset]
        /\ puts' \in [Record -> Nat]
        /\ dlq' \in [Record -> SUBSET (0 .. MaxRetries)]
    BY <1>9 DEF PutObject, PutFails, Idle, TypeInv, TypeOK
  <2>2. TransientFailure(m) \/ Goto(m, "commit")
    BY <1>9 DEF PutObject, PutFails
  <2>3. QED
    BY <2>1, <2>2, GotoType, FailureType DEF Steps, Idle
<1>10. ASSUME NEW m \in Members,
              Commit(m) \/ CommitFails(m) \/ DlqCommit(m) \/ DlqCommitFails(m)
       PROVE  TypeInv'
  <2>1. pc[m] \notin Idle /\ UNCHANGED <<puts, dlq>>
    BY <1>10 DEF Commit, CommitFails, DlqCommit, DlqCommitFails, Idle
  <2>2. committed' \in [Partitions -> 0 .. MaxOffset]
    BY <1>10, <2>1, CommitType
    DEF Commit, CommitFails, DlqCommit, DlqCommitFails, TypeInv, TypeOK
  <2>3. Return(m) \/ TransientFailure(m) \/ Goto(m, "failStop")
    BY <1>10 DEF Commit, CommitFails, DlqCommit, DlqCommitFails
  <2>4. QED
    BY <2>1, <2>2, <2>3, ReturnType, FailureType, GotoType
    DEF Steps, Idle, TypeInv, TypeOK
<1>11. ASSUME NEW m \in Members, Retry(m)
       PROVE  TypeInv'
  BY <1>11 DEF Retry, TypeInv, TypeOK, RetryRoom, broker, bounds, Steps, Idle
<1>12. ASSUME NEW m \in Members, DlqPublish(m) \/ DlqPublishFails(m)
       PROVE  TypeInv'
  <2>1. pc[m] \notin Idle /\ cur[m] \in Record
    BY <1>12 DEF DlqPublish, DlqPublishFails, Idle, TypeInv, TypeOK
  <2>2. /\ committed' \in [Partitions -> 0 .. MaxOffset]
        /\ puts' \in [Record -> Nat]
        /\ dlq' \in [Record -> SUBSET (0 .. MaxRetries)]
    BY <1>12, <2>1
    DEF DlqPublish, DlqPublishFails, Envelope, TypeInv, TypeOK
  <2>3. Goto(m, "dlqCommit") \/ Goto(m, "failStop")
    BY <1>12 DEF DlqPublish, DlqPublishFails
  <2>4. QED
    BY <2>1, <2>2, <2>3, GotoType DEF Steps, Idle
<1>13. QED
  BY <1>1, <1>2, <1>3, <1>4, <1>5, <1>6, <1>7, <1>8, <1>9, <1>10, <1>11, <1>12
  DEF Next, Work

(* Every reachable state has the declared types, for any constants: in     *)
(* particular attempts stay within MAX_PROCESSING_RETRIES and a member     *)
(* holds a record exactly while it is inside process_message.              *)
THEOREM TypeCorrect == Spec => []TypeOK
<1>1. TypeInv => TypeOK
  BY DEF TypeInv
<1>2. QED
  BY <1>1, TypeInit, TypeNext, PTL DEF Spec

-----------------------------------------------------------------------------
(***************************************************************************)
(* The offset invariant is not inductive: that a commit is safe depends on *)
(* what the member proved durable before it, on what lies below its        *)
(* record, and hence on the position from which the record was polled.     *)
(***************************************************************************)

(* The evidence a member carries to a commit. *)
Evidence ==
  \A m \in Members :
    /\ pc[m] = "commit" => Stored(cur[m])
    /\ pc[m] = "dlqCommit" => dlq[cur[m]] # {}

(* Only produced records are worked on. *)
InLog ==
  \A m \in Members : pc[m] \notin Idle => cur[m][2] < end[cur[m][1]]

ArchiveInv ==
  /\ TypeInv
  /\ Evidence
  /\ InLog
  /\ OffsetInvariant
  /\ NothingSkipped
  /\ PositionFollowsArchive

(* Before the first record the archive invariant holds. *)
LEMMA ArchiveInvInit == Init => ArchiveInv
  BY TypeInit, BoundsAssumption
  DEF Init, ArchiveInv, Evidence, InLog, OffsetInvariant, NothingSkipped,
      PositionFollowsArchive, Idle, Offsets

(* A durable record stays durable. *)
DurableAfter(r) == puts'[r] > 0 \/ dlq'[r] # {}
DurableGrows == \A r \in Record : Durable(r) => DurableAfter(r)

(* A member inside process_message holds a record. *)
LEMMA CurInRecord ==
  ASSUME TypeInv, NEW m \in Members, pc[m] \notin Idle
  PROVE  /\ cur[m] \in Record
         /\ cur[m] = <<cur[m][1], cur[m][2]>>
         /\ cur[m][1] \in Partitions
         /\ cur[m][2] \in Offsets
  BY DEF TypeInv, TypeOK, Record

(* Committing a durable record below which all is durable. *)
LEMMA SafeCommit ==
  ASSUME ArchiveInv, DurableGrows, NEW m \in Members, pc[m] \notin Idle,
         committed' = committed \/ (CommitCur(m) /\ DurableAfter(cur[m]))
  PROVE  OffsetInvariant'
<1> SUFFICES ASSUME NEW p \in Partitions, NEW o \in Offsets, o < committed'[p]
             PROVE  DurableAfter(<<p, o>>)
  BY DEF OffsetInvariant, Durable, Stored, DurableAfter
<1>1. <<p, o>> \in Record /\ o \in Int
  BY BoundsAssumption DEF Record, Offsets
<1>2. CASE o < committed[p]
  BY <1>1, <1>2 DEF ArchiveInv, OffsetInvariant, DurableGrows
<1>3. CASE ~(o < committed[p])
  <2>1. CommitCur(m) /\ DurableAfter(cur[m]) /\ p = cur[m][1] /\ o < cur[m][2] + 1
    BY <1>3 DEF CommitCur, ArchiveInv, TypeInv, TypeOK
  <2>2. cur[m] = <<p, cur[m][2]>> /\ cur[m][2] \in Int
    BY <2>1, CurInRecord, BoundsAssumption DEF ArchiveInv, Offsets
  <2>3. o < cur[m][2] \/ o = cur[m][2]
    BY <2>1, <2>2, <1>1
  <2>4. o < cur[m][2] => Durable(<<p, o>>)
    BY <2>1 DEF ArchiveInv, NothingSkipped
  <2>5. QED
    BY <1>1, <2>1, <2>2, <2>3, <2>4 DEF DurableGrows
<1>4. QED
  BY <1>2, <1>3

(* A step inside process_message: the record in flight stays the same. *)
LEMMA GotoArchive ==
  ASSUME ArchiveInv, TypeInv', DurableGrows,
         NEW m \in Members, pc[m] \notin Idle, NEW step \in Steps \ Idle,
         pc' = [pc EXCEPT ![m] = step], UNCHANGED <<broker, cur>>,
         \A r \in Record : Stored(r) => puts'[r] > 0,
         \A r \in Record : dlq[r] \subseteq dlq'[r],
         step = "commit" => puts'[cur[m]] > 0,
         step = "dlqCommit" => dlq'[cur[m]] # {},
         committed' = committed \/ (CommitCur(m) /\ DurableAfter(cur[m]))
  PROVE  ArchiveInv'
<1>1. OffsetInvariant'
  BY SafeCommit
<1>2. Evidence'
  BY CurInRecord DEF ArchiveInv, Evidence, TypeInv, TypeOK, Idle, Stored
<1>3. InLog'
  BY DEF ArchiveInv, InLog, broker, TypeInv, TypeOK
<1>4. NothingSkipped'
  <2> SUFFICES ASSUME NEW n \in Members, pc'[n] \notin Idle,
                      NEW o \in Offsets, o < cur'[n][2]
               PROVE  DurableAfter(<<cur'[n][1], o>>)
    BY DEF NothingSkipped, Durable, Stored, DurableAfter
  <2>1. pc[n] \notin Idle /\ cur'[n] = cur[n]
    BY DEF ArchiveInv, TypeInv, TypeOK
  <2>2. <<cur[n][1], o>> \in Record
    BY <2>1, CurInRecord DEF ArchiveInv, Record
  <2>3. QED
    BY <2>1, <2>2 DEF ArchiveInv, NothingSkipped, DurableGrows
<1>5. PositionFollowsArchive'
  BY DEF ArchiveInv, PositionFollowsArchive, broker, DurableGrows, Record,
         Durable, Stored, DurableAfter
<1>6. QED
  BY <1>1, <1>2, <1>3, <1>4, <1>5 DEF ArchiveInv

(* A step that ends the work on a record: it returns to the poll loop with *)
(* the record committed, or the process ends.                              *)
LEMMA ReleaseArchive ==
  ASSUME ArchiveInv, TypeInv', NEW m \in Members, NEW step \in Idle,
         pc' = [pc EXCEPT ![m] = step], cur' = [cur EXCEPT ![m] = NoRecord],
         UNCHANGED <<puts, dlq, end, position>>,
         \/ pc[m] \notin Idle /\ CommitCur(m) /\ Durable(cur[m]) /\ owner' = owner
         \/ /\ committed' = committed
            /\ owner' = [p \in Partitions |->
                           IF owner[p] = m THEN NoMember ELSE owner[p]]
  PROVE  ArchiveInv'
<1>1. DurableGrows
  BY DEF DurableGrows, DurableAfter, Durable, Stored
<1>2. OffsetInvariant'
  <2>1. CASE committed' = committed
    BY <2>1 DEF ArchiveInv, OffsetInvariant, Durable, Stored
  <2>2. CASE pc[m] \notin Idle /\ CommitCur(m) /\ Durable(cur[m])
    BY <2>2, <1>1, SafeCommit DEF DurableAfter, Durable, Stored
  <2>3. QED
    BY <2>1, <2>2
<1>3. \A n \in Members : n # m => cur'[n] = cur[n] /\ pc'[n] = pc[n]
  BY DEF ArchiveInv, TypeInv, TypeOK
<1>4. pc'[m] \in Idle
  BY DEF ArchiveInv, TypeInv, TypeOK
<1>5. Evidence' /\ InLog' /\ NothingSkipped'
  BY <1>3, <1>4
  DEF ArchiveInv, Evidence, InLog, NothingSkipped, Durable, Stored, Idle
<1>6. PositionFollowsArchive'
  <2> SUFFICES ASSUME NEW p \in Partitions, owner'[p] # NoMember,
                      NEW o \in Offsets, o < position[p]
               PROVE  Durable(<<p, o>>) \/ cur'[owner'[p]] = <<p, o>>
    BY DEF PositionFollowsArchive, Durable, Stored
  <2>1. owner'[p] = owner[p] /\ owner[p] \in Members
    BY NoneAssumption DEF ArchiveInv, TypeInv, TypeOK
  <2>2. Durable(<<p, o>>) \/ cur[owner[p]] = <<p, o>>
    BY <2>1 DEF ArchiveInv, PositionFollowsArchive
  <2>3. owner[p] = m => Durable(cur[m]) /\ owner' = owner
    BY <2>1, NoneAssumption DEF ArchiveInv, TypeInv, TypeOK
  <2>4. QED
    BY <1>3, <2>1, <2>2, <2>3
<1>7. QED
  BY <1>2, <1>5, <1>6 DEF ArchiveInv

(* Polling hands out a record below which all is durable. *)
LEMMA PollArchive ==
  ASSUME ArchiveInv, TypeInv', NEW m \in Members, NEW p \in Partitions, Poll(m, p)
  PROVE  ArchiveInv'
<1> USE DEF Poll
<1>1. position[p] \in Offsets /\ pc[m] \in Idle /\ cur[m] = NoRecord
  BY BoundsAssumption DEF ArchiveInv, TypeInv, TypeOK, Offsets, Idle
<1>2. \A o \in Offsets : o < position[p] => Durable(<<p, o>>)
  BY <1>1, NoneAssumption
  DEF ArchiveInv, PositionFollowsArchive, Record
<1>3. /\ cur'[m] = <<p, position[p]>>
      /\ pc'[m] = "deserialize"
      /\ \A n \in Members : n # m => cur'[n] = cur[n] /\ pc'[n] = pc[n]
  BY DEF ArchiveInv, TypeInv, TypeOK
<1>4. OffsetInvariant' /\ Evidence'
  BY <1>3 DEF ArchiveInv, OffsetInvariant, Evidence, Durable, Stored
<1>5. InLog' /\ NothingSkipped'
  BY <1>2, <1>3 DEF ArchiveInv, InLog, NothingSkipped, Durable, Stored
<1>6. PositionFollowsArchive'
  <2> SUFFICES ASSUME NEW q \in Partitions, owner[q] # NoMember,
                      NEW o \in Offsets, o < position'[q]
               PROVE  Durable(<<q, o>>) \/ cur'[owner[q]] = <<q, o>>
    BY DEF PositionFollowsArchive, Durable, Stored
  <2>1. owner[q] \in Members
    BY NoneAssumption DEF ArchiveInv, TypeInv, TypeOK
  <2>2. CASE o < position[q]
    BY <1>1, <1>3, <2>1, <2>2, NoneAssumption
    DEF ArchiveInv, PositionFollowsArchive, Record
  <2>3. CASE ~(o < position[q])
    <3>1. q = p /\ o = position[p]
      BY <2>3, BoundsAssumption DEF ArchiveInv, TypeInv, TypeOK, Offsets
    <3>2. QED
      BY <1>3, <3>1
  <2>4. QED
    BY <2>2, <2>3
<1>7. QED
  BY <1>4, <1>5, <1>6 DEF ArchiveInv

(* The archive invariant is inductive. *)
LEMMA ArchiveInvNext == ArchiveInv /\ [Next]_vars => ArchiveInv'
<1> SUFFICES ASSUME ArchiveInv, [Next]_vars PROVE ArchiveInv'
  OBVIOUS
<1>0. TypeInv /\ TypeInv'
  BY TypeNext DEF ArchiveInv
<1>1. CASE UNCHANGED vars
  BY <1>0, <1>1
  DEF ArchiveInv, Evidence, InLog, OffsetInvariant, NothingSkipped,
      PositionFollowsArchive, Durable, Stored, vars
<1>2. ASSUME NEW p \in Partitions, Produce(p) \/ Revoke(p)
      PROVE  ArchiveInv'
  <2>1. InLog'
    <3> SUFFICES ASSUME NEW m \in Members, pc[m] \notin Idle
                 PROVE  cur[m][2] < end'[cur[m][1]]
      BY <1>2 DEF InLog, Produce, Revoke
    <3>1. cur[m][1] \in Partitions /\ cur[m][2] \in Int
      BY <1>0, CurInRecord, BoundsAssumption DEF Offsets
    <3>2. QED
      BY <1>0, <1>2, <3>1 DEF ArchiveInv, InLog, Produce, Revoke, TypeInv, TypeOK
  <2>2. Evidence' /\ OffsetInvariant' /\ NothingSkipped'
    BY <1>2 DEF ArchiveInv, Evidence, OffsetInvariant, NothingSkipped, Durable,
                Stored, Produce, Revoke
  <2>3. PositionFollowsArchive'
    BY <1>0, <1>2 DEF ArchiveInv, PositionFollowsArchive, Durable, Stored,
                      Produce, Revoke, TypeInv, TypeOK
  <2>4. QED
    BY <1>0, <2>1, <2>2, <2>3 DEF ArchiveInv
<1>3. ASSUME NEW p \in Partitions, NEW m \in Members, Assign(p, m)
      PROVE  ArchiveInv'
  <2>1. Evidence' /\ InLog' /\ OffsetInvariant' /\ NothingSkipped'
    BY <1>3 DEF ArchiveInv, Evidence, InLog, OffsetInvariant, NothingSkipped,
                Durable, Stored, Assign
  <2>2. PositionFollowsArchive'
    BY <1>0, <1>3 DEF ArchiveInv, PositionFollowsArchive, OffsetInvariant,
                      Durable, Stored, Assign, TypeInv, TypeOK
  <2>3. QED
    BY <1>0, <2>1, <2>2 DEF ArchiveInv
<1>4. ASSUME NEW m \in Members, Start(m)
      PROVE  ArchiveInv'
  BY <1>0, <1>4
  DEF ArchiveInv, Evidence, InLog, OffsetInvariant, NothingSkipped,
      PositionFollowsArchive, Durable, Stored, Start, broker, Idle, TypeInv,
      TypeOK
<1>5. ASSUME NEW m \in Members, Crash(m) \/ RetryRaises(m) \/ FailStop(m)
      PROVE  ArchiveInv'
  BY <1>0, <1>5, ReleaseArchive
  DEF Crash, RetryRaises, FailStop, Exit, Idle
<1>6. ASSUME NEW m \in Members, PollNone(m)
      PROVE  ArchiveInv'
  BY <1>1, <1>6 DEF PollNone
<1>7. ASSUME NEW m \in Members, NEW p \in Partitions, Poll(m, p)
      PROVE  ArchiveInv'
  BY <1>0, <1>7, PollArchive
<1>8. ASSUME NEW m \in Members, Deserialize(m) \/ DeserializeFails(m)
      PROVE  ArchiveInv'
  <2>1. pc[m] \notin Idle /\ UNCHANGED <<committed, puts, dlq, broker, cur>>
    BY <1>8 DEF Deserialize, DeserializeFails, TransientFailure, Goto, Idle
  <2>2. \E step \in {"retry", "head", "dlq"} : pc' = [pc EXCEPT ![m] = step]
    BY <1>8 DEF Deserialize, DeserializeFails, TransientFailure, Goto
  <2>3. QED
    BY <1>0, <2>1, <2>2, GotoArchive
    DEF DurableGrows, DurableAfter, Durable, Stored, Steps, Idle
<1>9. ASSUME NEW m \in Members, HeadFound(m) \/ HeadMissing(m) \/ HeadFails(m)
      PROVE  ArchiveInv'
  <2>1. pc[m] \notin Idle /\ UNCHANGED <<committed, puts, dlq, broker, cur>>
    BY <1>9 DEF HeadFound, HeadMissing, HeadFails, TransientFailure, Goto, Idle
  <2>2. \E step \in {"retry", "commit", "dlq", "put"} :
          /\ pc' = [pc EXCEPT ![m] = step]
          /\ step = "commit" => Stored(cur[m])
    BY <1>9 DEF HeadFound, HeadMissing, HeadFails, TransientFailure, Goto
  <2>3. QED
    BY <1>0, <2>1, <2>2, GotoArchive
    DEF DurableGrows, DurableAfter, Durable, Stored, Steps, Idle
<1>10. ASSUME NEW m \in Members, PutObject(m) \/ PutFails(m)
       PROVE  ArchiveInv'
  <2>1. /\ pc[m] \notin Idle
        /\ UNCHANGED <<committed, dlq, broker, cur>>
        /\ cur[m] \in Record
    BY <1>0, <1>10, CurInRecord
    DEF PutObject, PutFails, TransientFailure, Goto, Idle
  <2>2. \E step \in {"retry", "commit", "dlq"} :
          /\ pc' = [pc EXCEPT ![m] = step]
          /\ step = "commit" => puts'[cur[m]] > 0
    BY <1>0, <1>10, <2>1
    DEF PutObject, PutFails, TransientFailure, Goto, TypeInv, TypeOK
  <2>3. \A r \in Record : Stored(r) => puts'[r] > 0
    BY <1>0, <1>10, <2>1 DEF PutObject, PutFails, TypeInv, TypeOK, Stored
  <2>4. QED
    BY <1>0, <2>1, <2>2, <2>3, GotoArchive
    DEF DurableGrows, DurableAfter, Durable, Stored, Steps, Idle
<1>11. ASSUME NEW m \in Members, Commit(m) \/ DlqCommit(m)
       PROVE  ArchiveInv'
  <2>1. /\ pc[m] \notin Idle
        /\ Durable(cur[m])
    BY <1>11 DEF Commit, DlqCommit, ArchiveInv, Evidence, Durable, Idle
  <2>2. QED
    BY <1>0, <1>11, <2>1, ReleaseArchive
    DEF Commit, DlqCommit, Return, broker, Idle
<1>12. ASSUME NEW m \in Members, CommitFails(m) \/ DlqCommitFails(m)
       PROVE  ArchiveInv'
  <2>1. /\ pc[m] \notin Idle
        /\ UNCHANGED <<puts, dlq, broker, cur>>
        /\ committed' = committed \/ CommitCur(m)
        /\ Durable(cur[m])
    BY <1>12
    DEF CommitFails, DlqCommitFails, TransientFailure, Goto, Idle,
        ArchiveInv, Evidence, Durable
  <2>2. \E step \in {"retry", "dlq", "failStop"} : pc' = [pc EXCEPT ![m] = step]
    BY <1>12 DEF CommitFails, DlqCommitFails, TransientFailure, Goto
  <2>3. QED
    BY <1>0, <2>1, <2>2, GotoArchive
    DEF DurableGrows, DurableAfter, Durable, Stored, Steps, Idle
<1>13. ASSUME NEW m \in Members, Retry(m)
       PROVE  ArchiveInv'
  <2>1. pc[m] \notin Idle /\ UNCHANGED <<committed, puts, dlq, broker, cur>>
    BY <1>13 DEF Retry, Idle
  <2>2. \E step \in {"deserialize", "head"} : pc' = [pc EXCEPT ![m] = step]
    BY <1>13 DEF Retry
  <2>3. QED
    BY <1>0, <2>1, <2>2, GotoArchive
    DEF DurableGrows, DurableAfter, Durable, Stored, Steps, Idle
<1>14. ASSUME NEW m \in Members, DlqPublish(m) \/ DlqPublishFails(m)
       PROVE  ArchiveInv'
  <2>1. /\ pc[m] \notin Idle
        /\ UNCHANGED <<committed, puts, broker, cur>>
        /\ cur[m] \in Record
    BY <1>0, <1>14, CurInRecord DEF DlqPublish, DlqPublishFails, Goto, Idle
  <2>2. dlq' = Envelope(m) => attempt[m] \in dlq'[cur[m]]
    BY <1>0, <2>1 DEF Envelope, TypeInv, TypeOK
  <2>3. \E step \in {"dlqCommit", "failStop"} :
          /\ pc' = [pc EXCEPT ![m] = step]
          /\ step = "dlqCommit" => dlq'[cur[m]] # {}
    BY <1>14, <2>2 DEF DlqPublish, DlqPublishFails, Goto
  <2>4. \A r \in Record : dlq[r] \subseteq dlq'[r]
    BY <1>0, <1>14, <2>1
    DEF DlqPublish, DlqPublishFails, Envelope, TypeInv, TypeOK
  <2>5. QED
    BY <1>0, <2>1, <2>3, <2>4, GotoArchive
    DEF DurableGrows, DurableAfter, Durable, Stored, Steps, Idle
<1>15. QED
  BY <1>1, <1>2, <1>3, <1>4, <1>5, <1>6, <1>7, <1>8, <1>9, <1>10, <1>11,
     <1>12, <1>13, <1>14
  DEF Next, Work

(* The archive invariant holds in every reachable state. *)
LEMMA ArchiveInvHolds == Spec => []ArchiveInv
  BY ArchiveInvInit, ArchiveInvNext, PTL DEF Spec

(* The offset invariant of the consumer: at no time, after no sequence of  *)
(* failures, crashes and rebalances, is a committed offset ahead of a      *)
(* record that is neither in Raw nor in the DLQ.                           *)
THEOREM OffsetInvariantHolds == Spec => []OffsetInvariant
<1>1. ArchiveInv => OffsetInvariant
  BY DEF ArchiveInv
<1>2. QED
  BY <1>1, ArchiveInvHolds, PTL

(* No member ever works on a record while an earlier one of its partition  *)
(* is in neither place, nor does a partition's read position pass one.     *)
THEOREM NothingSkippedHolds == Spec => [](NothingSkipped /\ PositionFollowsArchive)
<1>1. ArchiveInv => NothingSkipped /\ PositionFollowsArchive
  BY DEF ArchiveInv
<1>2. QED
  BY <1>1, ArchiveInvHolds, PTL

-----------------------------------------------------------------------------
(***************************************************************************)
(* Retries.  That a record is given up early only for good depends on how  *)
(* its member came to the DLQ; that an object is not rewritten depends on  *)
(* who else has found it missing, and without a revocation on the owner    *)
(* being the only member that holds a record of its partition.             *)
(***************************************************************************)

(* What brings a member to the deserializer, and to the DLQ. *)
GivesUp ==
  \A m \in Members :
    /\ pc[m] = "deserialize" => attempt[m] = 0 \/ cur[m] \in NullValue
    /\ pc[m] = "dlq" =>
         attempt[m] = MaxRetries \/ attempt[m] = 0 \/ cur[m] \in Unserializable

(* Until a partition is taken from a live member, only its owner holds     *)
(* records of it, and what the owner is about to write is not there.       *)
HeldByOwner ==
  revocations = 0 =>
    \A m \in Members : pc[m] \notin Idle =>
      owner[cur[m][1]] = m /\ (pc[m] = "put" => puts[cur[m]] = 0)

RetryInv ==
  TypeInv /\ GivesUp /\ HeldByOwner /\ EarlyDlqIsPermanent /\ RewritesBounded

(* Nothing is written before the first record. *)
LEMMA RetryInit == Init => RetryInv
<1> SUFFICES ASSUME Init PROVE RetryInv
  OBVIOUS
<1>1. TypeInv
  BY TypeInit
<1>2. GivesUp /\ HeldByOwner /\ EarlyDlqIsPermanent /\ RewritesBounded
  BY DEF Init, GivesUp, HeldByOwner, EarlyDlqIsPermanent, RewritesBounded, Idle
<1>3. QED
  BY <1>1, <1>2 DEF RetryInv

(* The steps of one member leave what the others hold alone. *)
LEMMA OtherMember ==
  ASSUME TypeInv, NEW m \in Members, NEW n \in Members, n # m,
         Start(n) \/ Crash(n) \/ Work(n)
  PROVE  pc'[m] = pc[m] /\ attempt'[m] = attempt[m] /\ cur'[m] = cur[m]
<1>0. /\ pc \in [Members -> Steps] /\ attempt \in [Members -> 0 .. MaxRetries]
      /\ cur \in [Members -> Record \cup {NoRecord}]
  BY DEF TypeInv, TypeOK
<1>1. CASE Start(n) \/ Crash(n) \/ RetryRaises(n) \/ FailStop(n)
  BY <1>0, <1>1 DEF Start, Crash, RetryRaises, FailStop, Exit
<1>2. CASE PollNone(n) \/ \E p \in Partitions : Poll(n, p)
  BY <1>0, <1>2 DEF PollNone, Poll, vars
<1>3. CASE Commit(n) \/ DlqCommit(n) \/ Retry(n)
  BY <1>0, <1>3 DEF Commit, DlqCommit, Retry, Return
<1>4. ASSUME NEW step, Goto(n, step)
      PROVE  pc'[m] = pc[m] /\ attempt'[m] = attempt[m] /\ cur'[m] = cur[m]
  BY <1>0, <1>4 DEF Goto
<1>5. CASE \/ Deserialize(n) \/ DeserializeFails(n)
           \/ HeadFound(n) \/ HeadMissing(n) \/ HeadFails(n)
  BY <1>4, <1>5
  DEF Deserialize, DeserializeFails, HeadFound, HeadMissing, HeadFails, TransientFailure
<1>6. CASE \/ PutObject(n) \/ PutFails(n) \/ CommitFails(n)
           \/ DlqPublish(n) \/ DlqPublishFails(n) \/ DlqCommitFails(n)
  BY <1>4, <1>6
  DEF PutObject, PutFails, CommitFails, DlqPublish, DlqPublishFails, DlqCommitFails,
      TransientFailure
<1>7. QED
  BY <1>1, <1>2, <1>3, <1>5, <1>6 DEF Work

(* A failure that is not permanent leads to the DLQ with all retries used. *)
LEMMA GivesUpNext == TypeInv /\ GivesUp /\ [Next]_vars => GivesUp'
<1> SUFFICES ASSUME TypeInv, GivesUp, [Next]_vars, NEW m \in Members
             PROVE  /\ pc'[m] = "deserialize" => attempt'[m] = 0 \/ cur'[m] \in NullValue
                    /\ pc'[m] = "dlq" => \/ attempt'[m] = MaxRetries \/ attempt'[m] = 0
                                         \/ cur'[m] \in Unserializable
  BY DEF GivesUp
<1>0. /\ pc \in [Members -> Steps] /\ attempt \in [Members -> 0 .. MaxRetries]
      /\ cur \in [Members -> Record \cup {NoRecord}]
  BY DEF TypeInv, TypeOK
<1>1. CASE pc'[m] = pc[m] /\ attempt'[m] = attempt[m] /\ cur'[m] = cur[m]
  BY <1>1 DEF GivesUp
<1>2. CASE Start(m) \/ Crash(m) \/ RetryRaises(m) \/ FailStop(m) \/ Commit(m) \/ DlqCommit(m)
  BY <1>0, <1>2 DEF Start, Crash, RetryRaises, FailStop, Commit, DlqCommit, Exit, Return
<1>3. CASE \E p \in Partitions : Poll(m, p)
  BY <1>0, <1>3 DEF Poll
<1>4. CASE Deserialize(m) \/ HeadFails(m) \/ PutFails(m) \/ CommitFails(m)
  BY <1>0, <1>4, BoundsAssumption
  DEF Deserialize, HeadFails, PutFails, CommitFails, TransientFailure, ShouldSendToDlq, Goto
<1>5. CASE DeserializeFails(m)
  BY <1>0, <1>5 DEF DeserializeFails, Goto, GivesUp
<1>6. CASE HeadFound(m) \/ HeadMissing(m) \/ PutObject(m)
  BY <1>0, <1>6 DEF HeadFound, HeadMissing, PutObject, Goto
<1>7. CASE Retry(m)
  BY <1>0, <1>7 DEF Retry
<1>8. CASE DlqPublish(m) \/ DlqPublishFails(m) \/ DlqCommitFails(m)
  BY <1>0, <1>8 DEF DlqPublish, DlqPublishFails, DlqCommitFails, Goto
<1>9. ASSUME NEW n \in Members, n # m, Start(n) \/ Crash(n) \/ Work(n)
      PROVE  pc'[m] = pc[m] /\ attempt'[m] = attempt[m] /\ cur'[m] = cur[m]
  BY <1>0, <1>9, OtherMember
<1>10. CASE \/ UNCHANGED vars \/ PollNone(m)
            \/ \E p \in Partitions : Produce(p) \/ Revoke(p) \/ \E n \in Members : Assign(p, n)
  BY <1>1, <1>10 DEF vars, PollNone, Produce, Revoke, Assign
<1>11. QED
  BY <1>1, <1>2, <1>3, <1>4, <1>5, <1>6, <1>7, <1>8, <1>9, <1>10 DEF Next, Work

(* Who owns what, and what has been written, when a member takes a step. *)
LEMMA OwnerStep ==
  ASSUME TypeInv, NEW n \in Members, Start(n) \/ Crash(n) \/ Work(n)
  PROVE  /\ revocations' = revocations
         /\ \A p \in Partitions : owner[p] # n => owner'[p] = owner[p]
         /\ pc'[n] \notin Idle => owner' = owner
         /\ pc'[n] \notin Idle =>
              (cur'[n] = cur[n] /\ pc[n] \notin Idle) \/ \E p \in Partitions : Poll(n, p)
<1>0. /\ pc \in [Members -> Steps] /\ owner \in [Partitions -> Members \cup {NoMember}]
  BY DEF TypeInv, TypeOK
<1>1. CASE Start(n) \/ Crash(n) \/ RetryRaises(n) \/ FailStop(n)
  BY <1>0, <1>1 DEF Start, Crash, RetryRaises, FailStop, Exit, Idle, bounds, broker
<1>2. CASE PollNone(n) \/ \E p \in Partitions : Poll(n, p)
  BY <1>0, <1>2 DEF PollNone, Poll, vars, bounds, Idle
<1>3. CASE Commit(n) \/ DlqCommit(n) \/ Retry(n)
  BY <1>0, <1>3 DEF Commit, DlqCommit, Retry, Return, bounds, broker, Idle
<1>4. ASSUME NEW step, Goto(n, step)
      PROVE  revocations' = revocations /\ owner' = owner /\ cur' = cur
  BY <1>4 DEF Goto, bounds, broker
<1>5. CASE \/ Deserialize(n) \/ DeserializeFails(n)
           \/ HeadFound(n) \/ HeadMissing(n) \/ HeadFails(n)
  BY <1>4, <1>5
  DEF Deserialize, DeserializeFails, HeadFound, HeadMissing, HeadFails, TransientFailure, Idle
<1>6. CASE \/ PutObject(n) \/ PutFails(n) \/ CommitFails(n)
           \/ DlqPublish(n) \/ DlqPublishFails(n) \/ DlqCommitFails(n)
  BY <1>4, <1>6
  DEF PutObject, PutFails, CommitFails, DlqPublish, DlqPublishFails, DlqCommitFails,
      TransientFailure, Idle
<1>7. QED
  BY <1>1, <1>2, <1>3, <1>5, <1>6 DEF Work

(* What a step does to the objects: a member that found none, and only it, *)
(* writes one; a member becomes a writer only of what is not there.        *)
Writing(n) == PutObject(n) \/ PutFails(n)

LEMMA ObjectStep ==
  ASSUME TypeInv, [Next]_vars
  PROVE  \/ \E n \in Members :
              /\ Writing(n) /\ pc[n] = "put" /\ pc'[n] # "put" /\ cur[n] \in Record
              /\ \A r \in Record : r # cur[n] => puts'[r] = puts[r]
              /\ puts'[cur[n]] \in {puts[cur[n]], puts[cur[n]] + 1}
         \/ /\ puts' = puts
            /\ \A m \in Members : pc'[m] = "put" =>
                 \/ pc[m] = "put" /\ cur'[m] = cur[m]
                 \/ cur'[m] \in Record /\ puts[cur'[m]] = 0
<1>0. /\ pc \in [Members -> Steps] /\ cur \in [Members -> Record \cup {NoRecord}]
      /\ puts \in [Record -> Nat]
      /\ \A m \in Members : pc[m] \notin Idle => cur[m] \in Record
  BY DEF TypeInv, TypeOK
<1>1. ASSUME NEW n \in Members, Writing(n)
      PROVE  /\ pc[n] = "put" /\ pc'[n] # "put" /\ cur[n] \in Record
             /\ \A r \in Record : r # cur[n] => puts'[r] = puts[r]
             /\ puts'[cur[n]] \in {puts[cur[n]], puts[cur[n]] + 1}
  BY <1>0, <1>1 DEF Writing, PutObject, PutFails, TransientFailure, Goto, Idle
<1> DEFINE Quiet(m) == pc'[m] = "put" =>
             \/ pc[m] = "put" /\ cur'[m] = cur[m]
             \/ cur'[m] \in Record /\ puts[cur'[m]] = 0
<1>2. ASSUME NEW n \in Members, Start(n) \/ Crash(n) \/ Work(n), ~Writing(n)
      PROVE  puts' = puts /\ Quiet(n)
  <2>1. CASE Start(n) \/ Crash(n) \/ RetryRaises(n) \/ FailStop(n)
    BY <1>0, <2>1 DEF Start, Crash, RetryRaises, FailStop, Exit
  <2>2. CASE PollNone(n) \/ \E p \in Partitions : Poll(n, p)
    BY <1>0, <2>2 DEF PollNone, Poll, vars
  <2>3. CASE Commit(n) \/ DlqCommit(n) \/ Retry(n)
    BY <1>0, <2>3 DEF Commit, DlqCommit, Retry, Return
  <2>4. CASE Deserialize(n) \/ DeserializeFails(n) \/ HeadFound(n) \/ HeadFails(n)
    BY <1>0, <2>4
    DEF Deserialize, DeserializeFails, HeadFound, HeadFails, TransientFailure, Goto
  <2>5. CASE HeadMissing(n)
    BY <1>0, <2>5 DEF HeadMissing, Goto, Stored, Idle
  <2>6. CASE CommitFails(n) \/ DlqPublish(n) \/ DlqPublishFails(n) \/ DlqCommitFails(n)
    BY <1>0, <2>6
    DEF CommitFails, DlqPublish, DlqPublishFails, DlqCommitFails, TransientFailure, Goto
  <2>7. QED
    BY <1>2, <2>1, <2>2, <2>3, <2>4, <2>5, <2>6 DEF Work, Writing
<1>3. ASSUME NEW n \in Members, Start(n) \/ Crash(n) \/ Work(n), ~Writing(n)
      PROVE  puts' = puts /\ \A m \in Members : Quiet(m)
  <2>1. ASSUME NEW m \in Members, m # n
        PROVE  Quiet(m)
    BY <1>3, <2>1, OtherMember
  <2>2. QED
    BY <1>2, <1>3, <2>1
<1>4. CASE \/ UNCHANGED vars
           \/ \E p \in Partitions : Produce(p) \/ Revoke(p) \/ \E n \in Members : Assign(p, n)
  BY <1>4 DEF vars, Produce, Revoke, Assign
<1>5. QED
  BY <1>1, <1>3, <1>4 DEF Next

(* An envelope says how often its record was tried. *)
LEMMA EarlyNext ==
  TypeInv /\ GivesUp /\ EarlyDlqIsPermanent /\ [Next]_vars => EarlyDlqIsPermanent'
<1> SUFFICES ASSUME TypeInv, GivesUp, EarlyDlqIsPermanent, [Next]_vars,
                    NEW r \in Record, NEW n \in dlq'[r], n < MaxRetries
             PROVE  n = 0 \/ r \in Unserializable
  BY DEF EarlyDlqIsPermanent
<1>1. CASE n \in dlq[r]
  BY <1>1 DEF EarlyDlqIsPermanent
<1>2. ASSUME NEW m \in Members, DlqPublish(m) \/ DlqPublishFails(m), n \notin dlq[r]
      PROVE  n = 0 \/ r \in Unserializable
  <2>1. cur[m] = r /\ n = attempt[m] /\ pc[m] = "dlq"
    BY <1>2 DEF DlqPublish, DlqPublishFails, Envelope, TypeInv, TypeOK
  <2>2. QED
    BY <2>1, BoundsAssumption DEF GivesUp, TypeInv, TypeOK
<1>3. CASE dlq' = dlq
  BY <1>1, <1>3
<1>4. ASSUME NEW m \in Members, Start(m) \/ Crash(m) \/ Work(m),
             ~(DlqPublish(m) \/ DlqPublishFails(m))
      PROVE  dlq' = dlq
  BY <1>4
  DEF Start, Crash, Work, PollNone, Poll, Deserialize, DeserializeFails, HeadFound,
      HeadMissing, HeadFails, PutObject, PutFails, Commit, CommitFails, Retry,
      RetryRaises, DlqCommit, DlqCommitFails, FailStop, vars
<1>5. CASE \/ UNCHANGED vars
           \/ \E p \in Partitions : Produce(p) \/ Revoke(p) \/ \E m \in Members : Assign(p, m)
  BY <1>3, <1>5 DEF vars, Produce, Revoke, Assign
<1>6. QED
  BY <1>1, <1>2, <1>3, <1>4, <1>5 DEF Next

(* Without a revocation records stay with the owner of their partition. *)
LEMMA HeldNext == TypeInv /\ HeldByOwner /\ [Next]_vars => HeldByOwner'
<1> SUFFICES ASSUME TypeInv, HeldByOwner, [Next]_vars, revocations' = 0,
                    NEW m \in Members, pc'[m] \notin Idle
             PROVE  owner'[cur'[m][1]] = m /\ (pc'[m] = "put" => puts'[cur'[m]] = 0)
  BY DEF HeldByOwner
<1>0. /\ pc \in [Members -> Steps] /\ owner \in [Partitions -> Members \cup {NoMember}]
      /\ cur \in [Members -> Record \cup {NoRecord}] /\ revocations \in Nat
      /\ \A n \in Members : pc[n] \notin Idle => cur[n] \in Record /\ cur[n][1] \in Partitions
  BY CurInRecord DEF TypeInv, TypeOK
<1>1. revocations = 0 /\ \A p \in Partitions : ~Revoke(p)
  <2>1. \A p \in Partitions : ~Revoke(p)
    BY <1>0 DEF Revoke
  <2>2. ASSUME NEW n \in Members, Start(n) \/ Crash(n) \/ Work(n)
        PROVE  revocations' = revocations
    BY <2>2, OwnerStep
  <2>3. ASSUME NEW p \in Partitions, Produce(p) \/ \E n \in Members : Assign(p, n)
        PROVE  revocations' = revocations
    BY <2>3 DEF Produce, Assign, bounds
  <2>4. QED
    BY <2>1, <2>2, <2>3 DEF Next, vars
<1>2. \A n \in Members : pc[n] \notin Idle =>
        owner[cur[n][1]] = n /\ (pc[n] = "put" => puts[cur[n]] = 0)
  BY <1>1 DEF HeldByOwner
<1>3. owner'[cur'[m][1]] = m
  <2>1. CASE \/ UNCHANGED vars
             \/ \E p \in Partitions : Produce(p) \/ \E n \in Members : Assign(p, n)
    BY <1>0, <1>2, <2>1, NoneAssumption DEF vars, Produce, Assign
  <2>2. CASE Start(m) \/ Crash(m) \/ Work(m)
    <3>1. owner' = owner
      BY <2>2, OwnerStep
    <3>2. CASE cur'[m] = cur[m] /\ pc[m] \notin Idle
      BY <1>2, <3>1, <3>2
    <3>3. ASSUME NEW p \in Partitions, Poll(m, p)
          PROVE  owner'[cur'[m][1]] = m
      BY <1>0, <3>1, <3>3 DEF Poll
    <3>4. QED
      BY <2>2, <3>2, <3>3, OwnerStep
  <2>3. ASSUME NEW n \in Members, n # m, Start(n) \/ Crash(n) \/ Work(n)
        PROVE  owner'[cur'[m][1]] = m
    <3>1. pc[m] \notin Idle /\ cur'[m] = cur[m]
      BY <2>3, OtherMember
    <3>2. QED
      BY <1>0, <1>2, <2>3, <3>1, OwnerStep
  <2>4. QED
    BY <1>1, <2>1, <2>2, <2>3 DEF Next
<1>4. ASSUME pc'[m] = "put"
      PROVE  puts'[cur'[m]] = 0
  <2>1. CASE /\ puts' = puts
             /\ \/ pc[m] = "put" /\ cur'[m] = cur[m]
                \/ cur'[m] \in Record /\ puts[cur'[m]] = 0
    BY <1>2, <2>1 DEF Idle
  <2>2. ASSUME NEW n \in Members, Writing(n), pc[n] = "put", pc'[n] # "put",
               \A r \in Record : r # cur[n] => puts'[r] = puts[r]
        PROVE  puts'[cur'[m]] = 0
    <3>1. m # n
      BY <1>4, <2>2
    <3>2. pc[m] = "put" /\ cur'[m] = cur[m]
      BY <1>4, <2>2, <3>1, OtherMember DEF Writing, Work
    <3>3. cur[m] # cur[n]
      BY <1>2, <2>2, <3>1, <3>2 DEF Idle
    <3>4. QED
      BY <1>0, <1>2, <2>2, <3>2, <3>3 DEF Idle
  <2>3. QED
    BY <1>4, <2>1, <2>2, ObjectStep
<1>5. QED
  BY <1>3, <1>4

(* The writers of an object are finitely many. *)
LEMMA WritersFinite ==
  ASSUME NEW r
  PROVE  /\ IsFiniteSet(Members) /\ Cardinality(Members) \in Nat
         /\ IsFiniteSet(Writers(r)) /\ Cardinality(Writers(r)) \in Nat
         /\ IsFiniteSet(Writers(r)') /\ Cardinality(Writers(r)') \in Nat
         /\ Cardinality(Writers(r)) <= Cardinality(Members)
<1>1. Writers(r) \in SUBSET Members /\ Writers(r)' \in SUBSET Members
  BY DEF Writers
<1>2. IsFiniteSet(Writers(r)) /\ Cardinality(Writers(r)) <= Cardinality(Members)
  BY <1>1, MembersAssumption, FS_Subset
<1>3. IsFiniteSet(Writers(r)')
  BY <1>1, MembersAssumption, FS_Subset
<1>4. QED
  BY <1>2, <1>3, MembersAssumption, FS_CardinalityType

(* A writer is used up by its write, and none is added once the object is  *)
(* there.                                                                  *)
LEMMA RewritesNext ==
  TypeInv /\ HeldByOwner /\ RewritesBounded /\ [Next]_vars => RewritesBounded'
<1> SUFFICES ASSUME TypeInv, HeldByOwner, RewritesBounded, [Next]_vars, NEW r \in Record
             PROVE  /\ puts'[r] > 0 =>
                         puts'[r] + Cardinality(Writers(r)') <= Cardinality(Members)
                    /\ revocations' = 0 => puts'[r] <= 1
  BY DEF RewritesBounded
<1>0. puts[r] \in Nat /\ revocations \in Nat /\ pc \in [Members -> Steps]
  BY DEF TypeInv, TypeOK
<1>1. /\ puts[r] > 0 => puts[r] + Cardinality(Writers(r)) <= Cardinality(Members)
      /\ revocations = 0 => puts[r] <= 1
  BY DEF RewritesBounded
<1>2. revocations' = 0 => revocations = 0
  <2>1. ASSUME NEW n \in Members, Start(n) \/ Crash(n) \/ Work(n)
        PROVE  revocations' = revocations
    BY <2>1, OwnerStep
  <2>2. ASSUME NEW p \in Partitions, \/ Produce(p) \/ Revoke(p)
                                     \/ \E n \in Members : Assign(p, n)
        PROVE  revocations' = 0 => revocations = 0
    BY <1>0, <2>2 DEF Produce, Revoke, Assign, bounds
  <2>3. QED
    BY <2>1, <2>2 DEF Next, vars
<1>3. CASE /\ puts' = puts
           /\ \A m \in Members : pc'[m] = "put" =>
                \/ pc[m] = "put" /\ cur'[m] = cur[m]
                \/ cur'[m] \in Record /\ puts[cur'[m]] = 0
  <2>1. puts[r] > 0 => Writers(r)' \in SUBSET Writers(r)
    BY <1>0, <1>3 DEF Writers
  <2>2. puts[r] > 0 => Cardinality(Writers(r)') <= Cardinality(Writers(r))
    BY <2>1, WritersFinite, FS_Subset
  <2>3. QED
    BY <1>0, <1>1, <1>2, <1>3, <2>2, WritersFinite
<1>4. ASSUME NEW n \in Members, Writing(n), pc[n] = "put", pc'[n] # "put",
             cur[n] \in Record,
             \A x \in Record : x # cur[n] => puts'[x] = puts[x],
             puts'[cur[n]] \in {puts[cur[n]], puts[cur[n]] + 1}
      PROVE  /\ puts'[r] > 0 =>
                  puts'[r] + Cardinality(Writers(r)') <= Cardinality(Members)
             /\ revocations' = 0 => puts'[r] <= 1
  <2>1. \A m \in Members : m # n => pc'[m] = pc[m] /\ cur'[m] = cur[m]
    BY <1>4, OtherMember DEF Writing, Work
  <2>2. Writers(r)' \in SUBSET (Writers(r) \ {n})
    BY <1>4, <2>1 DEF Writers
  <2>3. CASE r = cur[n]
    <3>1. n \in Writers(r)
      BY <1>4, <2>3 DEF Writers
    <3>2. /\ IsFiniteSet(Writers(r) \ {n})
          /\ Cardinality(Writers(r) \ {n}) = Cardinality(Writers(r)) - 1
      BY <3>1, WritersFinite, FS_RemoveElement
    <3>3. Cardinality(Writers(r)') <= Cardinality(Writers(r)) - 1
      BY <2>2, <3>2, FS_Subset
    <3>4. revocations = 0 => puts[r] = 0
      BY <1>4, <2>3 DEF HeldByOwner, Idle
    <3>5. puts'[r] \in {puts[r], puts[r] + 1}
      BY <1>4, <2>3
    <3>6. QED
      BY <1>0, <1>1, <1>2, <3>3, <3>4, <3>5, WritersFinite
  <2>4. CASE r # cur[n]
    <3>1. Writers(r)' \in SUBSET Writers(r)
      BY <2>2
    <3>2. Cardinality(Writers(r)') <= Cardinality(Writers(r))
      BY <3>1, WritersFinite, FS_Subset
    <3>3. puts'[r] = puts[r]
      BY <1>4, <2>4
    <3>4. QED
      BY <1>0, <1>1, <1>2, <3>2, <3>3, WritersFinite
  <2>5. QED
    BY <2>3, <2>4
<1>5. QED
  BY <1>3, <1>4, ObjectStep

(* Retries, replays and rebalances do no harm, for any number of members:  *)
(* an object is written at most once by each of them, and once in all if   *)
(* no partition is taken from a live member; a record is given up early    *)
(* only for good; the read position never outruns the archive.             *)
THEOREM RetriesHarmlessHolds == Spec => []RetriesHarmless
<1>1. RetryInv /\ [Next]_vars => RetryInv'
  BY TypeNext, GivesUpNext, HeldNext, EarlyNext, RewritesNext DEF RetryInv
<1>2. RetryInv /\ ArchiveInv => RetriesHarmless
  BY DEF RetryInv, ArchiveInv, RetriesHarmless
<1>3. QED
  BY <1>1, <1>2, RetryInit, ArchiveInvHolds, PTL DEF Spec

-----------------------------------------------------------------------------
(* Refinement: each step of the group is a step of RawArchive or none. *)

archivedSet == {r \in Record : Durable(r)}

(* Everything below the record in flight is archived. *)
LEMMA BelowArchived ==
  ASSUME ArchiveInv, NEW m \in Members, pc[m] \notin Idle
  PROVE  /\ Abstract!AllBelow(cur[m][1], cur[m][2]) \subseteq archivedSet
         /\ Durable(cur[m]) =>
              Abstract!AllBelow(cur[m][1], cur[m][2] + 1) \subseteq archivedSet
<1> DEFINE p == cur[m][1]
           o == cur[m][2]
<1>1. cur[m] = <<p, o>> /\ p \in Partitions /\ o \in Offsets /\ cur[m] \in Record
  BY CurInRecord DEF ArchiveInv
<1>2. \A q \in Offsets : q < o => Durable(<<p, q>>)
  BY DEF ArchiveInv, NothingSkipped
<1> HIDE DEF p, o
<1>3. \A q \in 0 .. o - 1 : q \in Offsets /\ q < o /\ <<p, q>> \in archivedSet
  BY <1>1, <1>2, BoundsAssumption DEF Offsets, Record, archivedSet
<1>4. Abstract!AllBelow(p, o) \subseteq archivedSet
  BY <1>3 DEF Abstract!AllBelow
<1>5. Durable(cur[m]) => \A q \in 0 .. (o + 1) - 1 : <<p, q>> \in archivedSet
  <2>1. \A q \in 0 .. (o + 1) - 1 : q \in 0 .. o - 1 \/ q = o
    BY <1>1, BoundsAssumption DEF Offsets
  <2>2. QED
    BY <1>1, <1>3, <2>1 DEF archivedSet
<1>6. Durable(cur[m]) => Abstract!AllBelow(p, o + 1) \subseteq archivedSet
  BY <1>5 DEF Abstract!AllBelow
<1>7. QED
  BY <1>4, <1>6 DEF p, o

(* The three kinds of effect a step has on the archive. *)
LEMMA QuietStep ==
  ASSUME UNCHANGED <<end, committed, puts, dlq>>
  PROVE  UNCHANGED Abstract!archiveVars
  BY DEF Abstract!archiveVars, Durable, Stored

(* A put_object or a DLQ envelope archives the record in flight. *)
LEMMA ArchivingStep ==
  ASSUME ArchiveInv, NEW m \in Members, pc[m] \notin Idle,
         UNCHANGED <<end, committed>>,
         \A r \in Record : r # cur[m] => puts'[r] = puts[r] /\ dlq'[r] = dlq[r],
         Durable(cur[m]) => DurableAfter(cur[m])
  PROVE  [Abstract!ArchiveNext]_(Abstract!archiveVars)
<1> DEFINE p == cur[m][1]
           o == cur[m][2]
<1>1. /\ cur[m] = <<p, o>> /\ p \in Partitions /\ o \in 0 .. MaxOffset - 1
      /\ cur[m] \in Record
      /\ o < end[p]
  BY CurInRecord DEF ArchiveInv, Offsets, InLog
<1>2. archivedSet' = archivedSet \/ archivedSet' = archivedSet \cup {cur[m]}
  BY <1>1 DEF archivedSet, Durable, Stored, DurableAfter
<1>3. CASE archivedSet' = archivedSet
  BY <1>3 DEF archivedSet, Abstract!archiveVars
<1>4. CASE archivedSet' = archivedSet \cup {cur[m]}
  <2>1. Abstract!Archive(p, o)
    BY <1>1, <1>4, BelowArchived DEF Abstract!Archive, archivedSet
  <2>2. QED
    BY <1>1, <2>1 DEF Abstract!ArchiveNext
<1>5. QED
  BY <1>2, <1>3, <1>4

(* A commit advances to just after an archived record. *)
LEMMA CommittingStep ==
  ASSUME ArchiveInv, NEW m \in Members, pc[m] \notin Idle, Durable(cur[m]),
         UNCHANGED <<end, puts, dlq>>, committed' = committed \/ CommitCur(m)
  PROVE  [Abstract!ArchiveNext]_(Abstract!archiveVars)
<1>1. CASE committed' = committed
  BY <1>1, QuietStep
<1>2. CASE CommitCur(m)
  <2>1. cur[m][1] \in Partitions /\ cur[m][2] \in 0 .. MaxOffset - 1
    BY CurInRecord DEF ArchiveInv, Offsets
  <2>2. archivedSet' = archivedSet
    BY DEF archivedSet, Durable, Stored
  <2>3. Abstract!Advance(cur[m][1], cur[m][2])
    BY <1>2, <2>2, BelowArchived DEF Abstract!Advance, CommitCur, archivedSet
  <2>4. QED
    BY <2>1, <2>3 DEF Abstract!ArchiveNext
<1>3. QED
  BY <1>1, <1>2

(* The initial states map to the initial states of RawArchive. *)
LEMMA InitRefines == Init => Abstract!ArchiveInit
  BY DEF Init, Abstract!ArchiveInit, Durable, Stored

(* Every step of the group is a step of RawArchive or a stutter. *)
LEMMA NextRefines ==
  ArchiveInv /\ [Next]_vars => [Abstract!ArchiveNext]_(Abstract!archiveVars)
<1> SUFFICES ASSUME ArchiveInv, [Next]_vars
             PROVE  [Abstract!ArchiveNext]_(Abstract!archiveVars)
  OBVIOUS
<1>1. CASE UNCHANGED vars
  BY <1>1, QuietStep DEF vars
<1>2. ASSUME NEW p \in Partitions, Produce(p)
      PROVE  [Abstract!ArchiveNext]_(Abstract!archiveVars)
  <2>1. Abstract!Append(p)
    BY <1>2 DEF Produce, Abstract!Append, Durable, Stored
  <2>2. QED
    BY <2>1 DEF Abstract!ArchiveNext
<1>3. ASSUME NEW p \in Partitions, \/ Revoke(p)
                                   \/ \E m \in Members : Assign(p, m)
      PROVE  [Abstract!ArchiveNext]_(Abstract!archiveVars)
  BY <1>3, QuietStep DEF Revoke, Assign
<1>4. ASSUME NEW m \in Members,
             \/ Start(m) \/ Crash(m) \/ PollNone(m)
             \/ \E p \in Partitions : Poll(m, p)
             \/ Retry(m) \/ RetryRaises(m) \/ FailStop(m)
      PROVE  [Abstract!ArchiveNext]_(Abstract!archiveVars)
  BY <1>4, QuietStep
  DEF Start, Crash, PollNone, Poll, Retry, RetryRaises, FailStop, Exit, broker,
      vars
<1>5. ASSUME NEW m \in Members,
             \/ Deserialize(m) \/ DeserializeFails(m)
             \/ HeadFound(m) \/ HeadMissing(m) \/ HeadFails(m)
      PROVE  [Abstract!ArchiveNext]_(Abstract!archiveVars)
  BY <1>5, QuietStep
  DEF Deserialize, DeserializeFails, HeadFound, HeadMissing, HeadFails,
      TransientFailure, Goto, broker
<1>6. ASSUME NEW m \in Members,
             \/ PutObject(m) \/ PutFails(m)
             \/ DlqPublish(m) \/ DlqPublishFails(m)
      PROVE  [Abstract!ArchiveNext]_(Abstract!archiveVars)
  <2>1. pc[m] \notin Idle /\ UNCHANGED <<end, committed>>
    BY <1>6 DEF PutObject, PutFails, DlqPublish, DlqPublishFails,
                TransientFailure, Goto, broker, Idle
  <2>2. /\ cur[m] \in Record
        /\ puts \in [Record -> Nat]
        /\ dlq \in [Record -> SUBSET (0 .. MaxRetries)]
    BY <2>1, CurInRecord DEF ArchiveInv, TypeInv, TypeOK
  <2>3. \A r \in Record : r # cur[m] => puts'[r] = puts[r] /\ dlq'[r] = dlq[r]
    BY <1>6, <2>2 DEF PutObject, PutFails, DlqPublish, DlqPublishFails, Envelope
  <2>4. puts'[cur[m]] >= puts[cur[m]] /\ dlq[cur[m]] \subseteq dlq'[cur[m]]
    BY <1>6, <2>2 DEF PutObject, PutFails, DlqPublish, DlqPublishFails, Envelope
  <2>5. Durable(cur[m]) => DurableAfter(cur[m])
    <3>1. puts'[cur[m]] \in Nat
      BY <1>6, <2>2 DEF PutObject, PutFails, DlqPublish, DlqPublishFails
    <3>2. QED
      BY <2>2, <2>4, <3>1 DEF Durable, Stored, DurableAfter
  <2>6. QED
    BY <2>1, <2>3, <2>5, ArchivingStep
<1>7. ASSUME NEW m \in Members,
             Commit(m) \/ CommitFails(m) \/ DlqCommit(m) \/ DlqCommitFails(m)
      PROVE  [Abstract!ArchiveNext]_(Abstract!archiveVars)
  <2>1. /\ pc[m] \notin Idle
        /\ Durable(cur[m])
        /\ UNCHANGED <<end, puts, dlq>>
        /\ committed' = committed \/ CommitCur(m)
    BY <1>7
    DEF Commit, CommitFails, DlqCommit, DlqCommitFails, Return,
        TransientFailure, Goto, broker, Idle, ArchiveInv, Evidence, Durable
  <2>2. QED
    BY <2>1, CommittingStep
<1>8. QED
  BY <1>1, <1>2, <1>3, <1>4, <1>5, <1>6, <1>7 DEF Next, Work

(* The consumer group implements the abstract archive: seen from outside,  *)
(* records are only ever archived in order and kept, and an offset is      *)
(* committed only above an archived prefix of its partition.               *)
THEOREM ArchiveImplemented == Spec => ImplementsArchive
<1>1. Spec => Abstract!ArchiveInit
  BY InitRefines DEF Spec
<1>2. Spec => [][Abstract!ArchiveNext]_(Abstract!archiveVars)
  BY NextRefines, ArchiveInvHolds, PTL DEF Spec
<1>3. QED
  BY <1>1, <1>2 DEF ImplementsArchive, Abstract!ArchiveSpec

=============================================================================
