----------------------------- MODULE RawConsumer -----------------------------
(***************************************************************************)
(* The Kafka -> Raw archiver, services/kafka-consumer-events: a consumer   *)
(* group whose members each run main()'s single-threaded loop             *)
(*                                                                         *)
(*    poll; deserialize; head_object; serialize; put_object; commit        *)
(*                                                                         *)
(* on one record at a time, retrying inline and falling back to the        *)
(* dead-letter topic.  Every call that leaves the process is a step of its *)
(* own and may fail, also after it took effect; members may die between    *)
(* any two steps and partitions may move while a record is in flight.      *)
(*                                                                         *)
(* Abstracted: payloads, keys and timestamps (a record is its Kafka        *)
(* coordinate, from which both the object key and the failure id are       *)
(* computed), the retry topic (an audit trail nothing reads) and delays.   *)
(***************************************************************************)
EXTENDS Integers, FiniteSets

CONSTANTS
  Members,        \* consumer processes of group KAFKA_GROUP_ID
  Partitions,     \* topic partitions of consumer_topics()
  MaxOffset,      \* bound: records produced per partition
  MaxRetries,     \* Settings.MAX_PROCESSING_RETRIES
  Undecodable,    \* records whose deserialization always raises
  NullValue,      \* records without a value: deserialized to None
  Unserializable, \* records serialize_to_avro always rejects
  MaxCrashes,     \* bound: deaths of a process outside fail-stop
  MaxRevocations, \* bound: partitions taken away from a live member
  NoMember, NoRecord

Offsets == 0 .. MaxOffset - 1
Record  == Partitions \X Offsets

ASSUME BoundsAssumption ==
  /\ MaxOffset \in Nat
  /\ MaxRetries \in Nat
  /\ MaxCrashes \in Nat
  /\ MaxRevocations \in Nat

ASSUME RecordsAssumption ==
  /\ Undecodable \subseteq Record
  /\ NullValue \subseteq Record
  /\ Unserializable \subseteq Record
  /\ NullValue \cap Undecodable = {}

ASSUME NoneAssumption == NoMember \notin Members /\ NoRecord \notin Record

ASSUME MembersAssumption == IsFiniteSet(Members)

VARIABLES
  end,         \* log end offset of each partition
  committed,   \* the group's committed offset of each partition
  owner,       \* the member each partition is assigned to
  position,    \* the next offset that owner polls
  pc,          \* what each member does next
  cur,         \* the record (msg) each member holds
  attempt,     \* the loop variable of process_message
  puts,        \* how often the Raw object of a record was written
  dlq,         \* retry_count of each envelope of a record in the DLQ
  crashes, revocations

vars == <<end, committed, owner, position, pc, cur, attempt, puts, dlq,
          crashes, revocations>>

broker == <<end, owner, position>>
bounds == <<crashes, revocations>>

Steps == {"down", "poll", "deserialize", "head", "put", "commit", "retry",
          "dlq", "dlqCommit", "failStop"}

(* A member outside process_message holds no record. *)
Idle == {"down", "poll"}

Stored(r)  == puts[r] > 0
Durable(r) == Stored(r) \/ dlq[r] # {}

-----------------------------------------------------------------------------
Init ==
  /\ end = [p \in Partitions |-> 0]
  /\ committed = [p \in Partitions |-> 0]   \* auto.offset.reset = earliest
  /\ owner = [p \in Partitions |-> NoMember]
  /\ position = [p \in Partitions |-> 0]
  /\ pc = [m \in Members |-> "down"]
  /\ cur = [m \in Members |-> NoRecord]
  /\ attempt = [m \in Members |-> 0]
  /\ puts = [r \in Record |-> 0]
  /\ dlq = [r \in Record |-> {}]
  /\ crashes = 0
  /\ revocations = 0

(* A payment source appends the next record of a partition. *)
Produce(p) ==
  /\ end[p] < MaxOffset
  /\ end' = [end EXCEPT ![p] = @ + 1]
  /\ UNCHANGED <<committed, owner, position, pc, cur, attempt, puts, dlq,
                 bounds>>

-----------------------------------------------------------------------------
(* The group: which member owns a partition, and from where it reads.      *)

(* The container (re)starts and subscribes. *)
Start(m) ==
  /\ pc[m] = "down"
  /\ pc' = [pc EXCEPT ![m] = "poll"]
  /\ UNCHANGED <<broker, committed, cur, attempt, puts, dlq, bounds>>

(* Mutant of Assign: auto.offset.reset = latest. *)
AssignLatest(p, m) ==
  /\ owner[p] = NoMember
  /\ pc[m] # "down"
  /\ owner' = [owner EXCEPT ![p] = m]
  /\ position' = [position EXCEPT ![p] =
                    IF committed[p] = 0 THEN end[p] ELSE committed[p]]
  /\ UNCHANGED <<end, committed, pc, cur, attempt, puts, dlq, bounds>>

(* The coordinator hands a free partition to a live member, which resumes  *)
(* at the committed offset; no rebalance callback is registered.           *)
Assign(p, m) ==
  /\ owner[p] = NoMember
  /\ pc[m] # "down"
  /\ owner' = [owner EXCEPT ![p] = m]
  /\ position' = [position EXCEPT ![p] = committed[p]]
  /\ UNCHANGED <<end, committed, pc, cur, attempt, puts, dlq, bounds>>

(* A rebalance, or max.poll.interval.ms passing, takes a partition away    *)
(* from a member that may be in the middle of one of its records.          *)
Revoke(p) ==
  /\ owner[p] # NoMember
  /\ revocations < MaxRevocations
  /\ owner' = [owner EXCEPT ![p] = NoMember]
  /\ revocations' = revocations + 1
  /\ UNCHANGED <<end, committed, position, pc, cur, attempt, puts, dlq,
                 crashes>>

(* The process of m ends; the group takes its partitions back. *)
Exit(m) ==
  /\ pc' = [pc EXCEPT ![m] = "down"]
  /\ cur' = [cur EXCEPT ![m] = NoRecord]
  /\ attempt' = [attempt EXCEPT ![m] = 0]
  /\ owner' = [p \in Partitions |->
                 IF owner[p] = m THEN NoMember ELSE owner[p]]
  /\ UNCHANGED <<end, position>>

Crash(m) ==
  /\ pc[m] # "down"
  /\ crashes < MaxCrashes
  /\ crashes' = crashes + 1
  /\ Exit(m)
  /\ UNCHANGED <<committed, puts, dlq, revocations>>

-----------------------------------------------------------------------------
(* process_message.                                                        *)

Goto(m, step) ==
  /\ pc' = [pc EXCEPT ![m] = step]
  /\ UNCHANGED <<broker, cur, attempt, bounds>>

(* Mutants of ShouldSendToDlq: off by one, either way. *)
OneRetryMore(m) == attempt[m] > MaxRetries
OneRetryLess(m) == attempt[m] >= MaxRetries - 1

(* The handler of an exception that is not a PermanentProcessingError. *)
ShouldSendToDlq(m) == attempt[m] >= MaxRetries

TransientFailure(m) ==
  Goto(m, IF ShouldSendToDlq(m) THEN "dlq" ELSE "retry")

(* consumer.poll returns the next record of one of m's partitions. *)
Poll(m, p) ==
  /\ pc[m] = "poll"
  /\ owner[p] = m
  /\ position[p] < end[p]
  /\ pc' = [pc EXCEPT ![m] = "deserialize"]
  /\ cur' = [cur EXCEPT ![m] = <<p, position[p]>>]
  /\ attempt' = [attempt EXCEPT ![m] = 0]
  /\ position' = [position EXCEPT ![p] = @ + 1]
  /\ UNCHANGED <<end, committed, owner, puts, dlq, bounds>>

(* Nothing to read, or a poll error, which is only logged: poll again. *)
PollNone(m) ==
  /\ pc[m] = "poll"
  /\ UNCHANGED vars

(* A null value is deserialized to None, on which store_event_to_s3 raises *)
(* an AttributeError: an ordinary failure.                                 *)
Deserialize(m) ==
  /\ pc[m] = "deserialize"
  /\ cur[m] \notin Undecodable
  /\ IF cur[m] \in NullValue THEN TransientFailure(m) ELSE Goto(m, "head")
  /\ UNCHANGED <<committed, puts, dlq>>

(* Any exception of the deserializer is permanent: a broken record, and    *)
(* also a Schema Registry that does not answer.                            *)
DeserializeFails(m) ==
  /\ pc[m] = "deserialize"
  /\ cur[m] \notin NullValue
  /\ Goto(m, "dlq")
  /\ UNCHANGED <<committed, puts, dlq>>

HeadFound(m) ==
  /\ pc[m] = "head"
  /\ Stored(cur[m])
  /\ Goto(m, "commit")
  /\ UNCHANGED <<committed, puts, dlq>>

(* Mutant of HeadMissing: the object is written whether it exists or not. *)
HeadIgnored(m) ==
  /\ pc[m] = "head"
  /\ Goto(m, IF cur[m] \in Unserializable THEN "dlq" ELSE "put")
  /\ UNCHANGED <<committed, puts, dlq>>

(* 404, then serialize_to_avro, whose rejection is permanent. *)
HeadMissing(m) ==
  /\ pc[m] = "head"
  /\ ~Stored(cur[m])
  /\ Goto(m, IF cur[m] \in Unserializable THEN "dlq" ELSE "put")
  /\ UNCHANGED <<committed, puts, dlq>>

HeadFails(m) ==
  /\ pc[m] = "head"
  /\ TransientFailure(m)
  /\ UNCHANGED <<committed, puts, dlq>>

PutObject(m) ==
  /\ pc[m] = "put"
  /\ puts' = [puts EXCEPT ![cur[m]] = @ + 1]
  /\ Goto(m, "commit")
  /\ UNCHANGED <<committed, dlq>>

(* Mutant of PutFails: the storage error is logged and not raised. *)
PutErrorSwallowed(m) ==
  /\ pc[m] = "put"
  /\ Goto(m, "commit")
  /\ UNCHANGED <<committed, puts, dlq>>

(* put_object raises; the store may have applied it all the same. *)
PutFails(m) ==
  /\ pc[m] = "put"
  /\ \/ puts' = puts
     \/ puts' = [puts EXCEPT ![cur[m]] = @ + 1]
  /\ TransientFailure(m)
  /\ UNCHANGED <<committed, dlq>>

(* consumer.commit(msg): the broker takes the offset of whoever is in the  *)
(* group, the current owner of the partition or not.                       *)
CommitCur(m) ==
  committed' = [committed EXCEPT ![cur[m][1]] = cur[m][2] + 1]

Return(m) ==
  /\ pc' = [pc EXCEPT ![m] = "poll"]
  /\ cur' = [cur EXCEPT ![m] = NoRecord]
  /\ attempt' = [attempt EXCEPT ![m] = 0]
  /\ UNCHANGED <<broker, bounds>>

Commit(m) ==
  /\ pc[m] = "commit"
  /\ CommitCur(m)
  /\ Return(m)
  /\ UNCHANGED <<puts, dlq>>

(* The commit raises (no broker, or a rebalance under way) inside the try, *)
(* so a stored record is retried like any other failure.                   *)
CommitFails(m) ==
  /\ pc[m] = "commit"
  /\ committed' = committed \/ CommitCur(m)
  /\ TransientFailure(m)
  /\ UNCHANGED <<puts, dlq>>

(* Mutant of Retry: a loop without a bound. *)
RetryForever(m) ==
  /\ pc[m] = "retry"
  /\ pc' = [pc EXCEPT ![m] =
              IF cur[m] \in NullValue THEN "deserialize" ELSE "head"]
  /\ UNCHANGED <<broker, committed, cur, attempt, puts, dlq, bounds>>

(* The result of the retry publication is ignored; the event is kept       *)
(* unless it was None.                                                     *)
Retry(m) ==
  /\ pc[m] = "retry"
  /\ pc' = [pc EXCEPT ![m] =
              IF cur[m] \in NullValue THEN "deserialize" ELSE "head"]
  /\ attempt' = [attempt EXCEPT ![m] = @ + 1]
  /\ UNCHANGED <<broker, committed, cur, puts, dlq, bounds>>

(* producer.produce raises in the handler: nothing catches it. *)
RetryRaises(m) ==
  /\ pc[m] = "retry"
  /\ crashes < MaxCrashes
  /\ crashes' = crashes + 1
  /\ Exit(m)
  /\ UNCHANGED <<committed, puts, dlq, revocations>>

Envelope(m) == [dlq EXCEPT ![cur[m]] = @ \cup {attempt[m]}]

DlqPublish(m) ==
  /\ pc[m] = "dlq"
  /\ dlq' = Envelope(m)
  /\ Goto(m, "dlqCommit")
  /\ UNCHANGED <<committed, puts>>

(* Mutants of DlqPublishFails: the missing acknowledgement is ignored; the *)
(* loop goes on to the next record instead of stopping.                    *)
DlqAckIgnored(m) ==
  /\ pc[m] = "dlq"
  /\ Goto(m, "dlqCommit")
  /\ UNCHANGED <<committed, puts, dlq>>

DlqFailureSkipped(m) ==
  /\ pc[m] = "dlq"
  /\ pc' = [pc EXCEPT ![m] = "poll"]
  /\ cur' = [cur EXCEPT ![m] = NoRecord]
  /\ attempt' = [attempt EXCEPT ![m] = 0]
  /\ UNCHANGED <<broker, committed, puts, dlq, bounds>>

(* No acknowledgement within the flush, or produce raised: the envelope    *)
(* may be on the topic.                                                    *)
DlqPublishFails(m) ==
  /\ pc[m] = "dlq"
  /\ dlq' = dlq \/ dlq' = Envelope(m)
  /\ Goto(m, "failStop")
  /\ UNCHANGED <<committed, puts>>

DlqCommit(m) ==
  /\ pc[m] = "dlqCommit"
  /\ CommitCur(m)
  /\ Return(m)
  /\ UNCHANGED <<puts, dlq>>

DlqCommitFails(m) ==
  /\ pc[m] = "dlqCommit"
  /\ committed' = committed \/ CommitCur(m)
  /\ Goto(m, "failStop")
  /\ UNCHANGED <<puts, dlq>>

(* DlqPublishFailedError reaches main: SystemExit(1) after consumer.close. *)
FailStop(m) ==
  /\ pc[m] = "failStop"
  /\ Exit(m)
  /\ UNCHANGED <<committed, puts, dlq, bounds>>

-----------------------------------------------------------------------------
Work(m) ==
  \/ PollNone(m)
  \/ \E p \in Partitions : Poll(m, p)
  \/ Deserialize(m) \/ DeserializeFails(m)
  \/ HeadFound(m) \/ HeadMissing(m) \/ HeadFails(m)
  \/ PutObject(m) \/ PutFails(m)
  \/ Commit(m) \/ CommitFails(m)
  \/ Retry(m) \/ RetryRaises(m)
  \/ DlqPublish(m) \/ DlqPublishFails(m)
  \/ DlqCommit(m) \/ DlqCommitFails(m)
  \/ FailStop(m)

Next ==
  \/ \E p \in Partitions : Produce(p) \/ Revoke(p)
  \/ \E p \in Partitions, m \in Members : Assign(p, m)
  \/ \E m \in Members : Start(m) \/ Crash(m) \/ Work(m)

Spec == Init /\ [][Next]_vars

(* The loop of a live member goes on, containers are restarted             *)
(* (restart: unless-stopped) and the coordinator assigns free partitions.  *)
(* A broker that is asked again and again at some time acknowledges: a     *)
(* publication to the DLQ, a commit.  Nothing is assumed of the object     *)
(* store or of the Schema Registry.                                        *)
Fairness ==
  /\ \A m \in Members :
       /\ WF_vars(Start(m))
       /\ WF_vars(Work(m))
       /\ SF_vars(Commit(m))
       /\ SF_vars(DlqPublish(m))
       /\ SF_vars(DlqCommit(m))
  /\ \A p \in Partitions : WF_vars(\E m \in Members : Assign(p, m))

FairSpec == Spec /\ Fairness

-----------------------------------------------------------------------------
TypeOK ==
  /\ end \in [Partitions -> 0 .. MaxOffset]
  /\ committed \in [Partitions -> 0 .. MaxOffset]
  /\ owner \in [Partitions -> Members \cup {NoMember}]
  /\ position \in [Partitions -> 0 .. MaxOffset]
  /\ pc \in [Members -> Steps]
  /\ cur \in [Members -> Record \cup {NoRecord}]
  /\ attempt \in [Members -> 0 .. MaxRetries]
  /\ puts \in [Record -> Nat]
  /\ dlq \in [Record -> SUBSET (0 .. MaxRetries)]
  /\ crashes \in 0 .. MaxCrashes
  /\ revocations \in 0 .. MaxRevocations
  /\ \A m \in Members : cur[m] = NoRecord <=> pc[m] \in Idle

(* The offset invariant of process_message: whatever died, was retried or  *)
(* was moved, every offset below the committed one is in Raw or in the     *)
(* DLQ, so a restart never skips a lost record.                            *)
OffsetInvariant ==
  \A p \in Partitions : \A o \in Offsets :
    o < committed[p] => Durable(<<p, o>>)

(* "Later offsets in the same partition must NOT be processed": when a     *)
(* member works on a record, every earlier record of the partition is      *)
(* durable, also if the partition has been moved in the meantime.          *)
NothingSkipped ==
  \A m \in Members : pc[m] \notin Idle =>
    \A o \in Offsets : o < cur[m][2] => Durable(<<cur[m][1], o>>)

(* What the owner has polled of a partition is durable or is the record it *)
(* is working on: the read position never runs ahead of the archive.       *)
PositionFollowsArchive ==
  \A p \in Partitions : owner[p] # NoMember =>
    \A o \in Offsets : o < position[p] =>
      Durable(<<p, o>>) \/ cur[owner[p]] = <<p, o>>

(* The members that found no object for r and are about to write it. *)
Writers(r) == {m \in Members : pc[m] = "put" /\ cur[m] = r}

(* A Raw object is rewritten only by members whose head_object came before *)
(* the first put_object: once each.  While no partition has been taken     *)
(* from a live member "a crash after storage but before commit replays as  *)
(* a harmless no-op": an object is written once.                           *)
RewritesBounded ==
  \A r \in Record :
    /\ puts[r] > 0 => puts[r] + Cardinality(Writers(r)) <= Cardinality(Members)
    /\ revocations = 0 => puts[r] <= 1

(* A record that is given up before its retries are used up was rejected   *)
(* on the first attempt, by the deserializer, or by the serializer.        *)
EarlyDlqIsPermanent ==
  \A r \in Record : \A n \in dlq[r] :
    n < MaxRetries => n = 0 \/ r \in Unserializable

(* Retries, replays and rebalances do no harm: the read position never     *)
(* outruns the archive, objects are not rewritten by replays, and retries  *)
(* are used up before a record that could still be archived is given up.   *)
RetriesHarmless ==
  PositionFollowsArchive /\ RewritesBounded /\ EarlyDlqIsPermanent

(* The whole group implements the archive it promises: no step loses a     *)
(* durable record, archives one ahead of an earlier one of its partition,  *)
(* or commits an offset that has anything below it missing.                *)
Abstract == INSTANCE RawArchive WITH archived <- {r \in Record : Durable(r)}
ImplementsArchive == Abstract!ArchiveSpec

(* Every record is archived at some time, whatever the object store and    *)
(* the Schema Registry do.                                                 *)
EveryRecordArchived ==
  \A r \in Record : r[2] < end[r[1]] ~> Durable(r)

=============================================================================
