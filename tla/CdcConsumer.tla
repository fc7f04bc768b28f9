----------------------------- MODULE CdcConsumer -----------------------------
(***************************************************************************)
(* The CDC path of the Kafka -> Raw archiver (process_cdc_message): a      *)
(* Debezium change is stored in Raw, or its failure metadata in the        *)
(* restricted quarantine, and only then is its offset committed.  Unlike   *)
(* the payment path (RawConsumer) nothing is retried inline: every failure *)
(* ends the process, and Kafka delivers the record again after a restart.  *)
(*                                                                         *)
(* What is stored holds the time at which it was processed, and the key it *)
(* is stored under the day: every delivery of a record has a new           *)
(* ingestion_timestamp, here a stamp that differs from all those that are  *)
(* stored of that record or being processed.                               *)
(*                                                                         *)
(* A change is stored by store_cdc_event_to_s3 in Raw, a malformed one by  *)
(* store_cdc_quarantine_metadata in the quarantine: head, compare, put,    *)
(* with the same errors, so that an object stands for either.              *)
(*                                                                         *)
(* No topic is activated for CDC at this commit (activated_cdc_topic_map   *)
(* is empty); the partitions are those of the topics that would be.        *)
(***************************************************************************)
EXTENDS Integers

CONSTANTS
  Members,        \* consumer processes of group KAFKA_GROUP_ID
  Partitions,     \* topic partitions of activated_cdc_topic_map()
  MaxOffset,      \* bound: changes produced per partition
  LastDay,        \* bound: days that pass
  Stamps,         \* ingestion timestamps
  MaxCrashes,     \* bound: deaths of a process from outside
  MaxRevocations, \* bound: partitions taken away from a live member
  NoMember, NoRecord, NoStamp

Offsets == 0 .. MaxOffset - 1
Record  == Partitions \X Offsets
Days    == 0 .. LastDay

ASSUME CdcAssumption ==
  /\ MaxOffset \in Nat
  /\ LastDay \in Nat
  /\ MaxCrashes \in Nat
  /\ MaxRevocations \in Nat
  /\ NoMember \notin Members
  /\ NoRecord \notin Record
  /\ NoStamp \notin Stamps

VARIABLES
  end,         \* log end offset of each partition
  committed,   \* the group's committed offset of each partition
  owner,       \* the member each partition is assigned to
  position,    \* the next offset that owner polls
  day,         \* today
  pc,          \* what each member does next
  cur,         \* the record (msg) each member holds
  stamp,       \* the ingestion_timestamp it gave it
  keyDay,      \* and the day of that timestamp
  objects,     \* the stamp in the object of each record and day
  collided,    \* ghost: records whose delivery ended with a collision
  crashes, revocations

broker == <<end, owner, position>>
msg    == <<cur, stamp, keyDay>>
bounds == <<crashes, revocations>>
vars   == <<broker, committed, day, pc, msg, objects, collided, bounds>>

Steps == {"down", "poll", "head", "put", "commit"}

(* A member outside process_cdc_message holds no record. *)
Idle == {"down", "poll"}

Stored(r, d) == objects[r][d] # NoStamp
Durable(r)   == \E d \in Days : Stored(r, d)

Init ==
  /\ end = [p \in Partitions |-> 0]
  /\ committed = [p \in Partitions |-> 0]   \* auto.offset.reset = earliest
  /\ owner = [p \in Partitions |-> NoMember]
  /\ position = [p \in Partitions |-> 0]
  /\ day = 0
  /\ pc = [m \in Members |-> "down"]
  /\ cur = [m \in Members |-> NoRecord]
  /\ stamp = [m \in Members |-> NoStamp]
  /\ keyDay = [m \in Members |-> 0]
  /\ objects = [r \in Record |-> [d \in Days |-> NoStamp]]
  /\ collided = {}
  /\ crashes = 0
  /\ revocations = 0

-----------------------------------------------------------------------------
(* The environment.                                                        *)

(* The connector appends the next change of a partition. *)
Produce(p) ==
  /\ end[p] < MaxOffset
  /\ end' = [end EXCEPT ![p] = @ + 1]
  /\ UNCHANGED <<committed, owner, position, day, pc, msg, objects, collided,
                 bounds>>

NewDay ==
  /\ day < LastDay
  /\ day' = day + 1
  /\ UNCHANGED <<broker, committed, pc, msg, objects, collided, bounds>>

(* The container (re)starts and subscribes. *)
Start(m) ==
  /\ pc[m] = "down"
  /\ pc' = [pc EXCEPT ![m] = "poll"]
  /\ UNCHANGED <<broker, committed, day, msg, objects, collided, bounds>>

(* A free partition goes to a live member, which resumes at the committed  *)
(* offset.                                                                 *)
Assign(p, m) ==
  /\ owner[p] = NoMember
  /\ pc[m] # "down"
  /\ owner' = [owner EXCEPT ![p] = m]
  /\ position' = [position EXCEPT ![p] = committed[p]]
  /\ UNCHANGED <<end, committed, day, pc, msg, objects, collided, bounds>>

(* A rebalance takes a partition away from a member, possibly in the       *)
(* middle of one of its records.                                           *)
Revoke(p) ==
  /\ owner[p] # NoMember
  /\ revocations < MaxRevocations
  /\ owner' = [owner EXCEPT ![p] = NoMember]
  /\ revocations' = revocations + 1
  /\ UNCHANGED <<end, committed, position, day, pc, msg, objects, collided,
                 crashes>>

-----------------------------------------------------------------------------
(* The loop of member m.                                                   *)

Forget(m) ==
  /\ cur' = [cur EXCEPT ![m] = NoRecord]
  /\ stamp' = [stamp EXCEPT ![m] = NoStamp]
  /\ keyDay' = [keyDay EXCEPT ![m] = 0]

(* An exception nothing catches leaves main: the consumer is closed and    *)
(* the process ends.                                                       *)
Exit(m) ==
  /\ pc' = [pc EXCEPT ![m] = "down"]
  /\ Forget(m)
  /\ owner' = [p \in Partitions |->
                 IF owner[p] = m THEN NoMember ELSE owner[p]]
  /\ UNCHANGED <<end, position, day, revocations>>

Crash(m) ==
  /\ pc[m] # "down"
  /\ crashes < MaxCrashes
  /\ crashes' = crashes + 1
  /\ Exit(m)
  /\ UNCHANGED <<committed, objects, collided>>

Fresh(r, s) ==
  /\ \A d \in Days : objects[r][d] # s
  /\ \A m \in Members : stamp[m] # s

(* poll, and the record that is made of it: the change, or the metadata of *)
(* its failure, with the time of this delivery.                            *)
Poll(m, p) ==
  /\ pc[m] = "poll"
  /\ owner[p] = m
  /\ position[p] < end[p]
  /\ \E s \in Stamps : /\ Fresh(<<p, position[p]>>, s)
                       /\ stamp' = [stamp EXCEPT ![m] = s]
  /\ pc' = [pc EXCEPT ![m] = "head"]
  /\ cur' = [cur EXCEPT ![m] = <<p, position[p]>>]
  /\ keyDay' = [keyDay EXCEPT ![m] = day]
  /\ position' = [position EXCEPT ![p] = @ + 1]
  /\ UNCHANGED <<end, owner, committed, day, objects, collided, bounds>>

(* Nothing to read, or a poll error, which is only logged: poll again. *)
PollNone(m) ==
  /\ pc[m] = "poll"
  /\ UNCHANGED vars

Goto(m, step) ==
  /\ pc' = [pc EXCEPT ![m] = step]
  /\ UNCHANGED <<broker, day, msg, bounds>>

(* head_object finds the object of today: its content must be the same.    *)
HeadFound(m) ==
  /\ pc[m] = "head"
  /\ Stored(cur[m], keyDay[m])
  /\ IF objects[cur[m]][keyDay[m]] = stamp[m]
     THEN Goto(m, "commit") /\ UNCHANGED collided
     ELSE Exit(m) /\ collided' = collided \cup {cur[m]} /\ UNCHANGED crashes
  /\ UNCHANGED <<committed, objects>>

HeadMissing(m) ==
  /\ pc[m] = "head"
  /\ ~Stored(cur[m], keyDay[m])
  /\ Goto(m, "put")
  /\ UNCHANGED <<committed, objects, collided>>

(* Mutant: an error of head_object is taken for an object that is there. *)
HeadErrorAccepted(m) ==
  /\ pc[m] = "head"
  /\ Goto(m, "commit")
  /\ UNCHANGED <<committed, objects, collided>>

(* head_object or get_object raises something else than 404. *)
HeadFails(m) ==
  /\ pc[m] = "head"
  /\ Exit(m)
  /\ UNCHANGED <<committed, objects, collided, crashes>>

Written(m) == [objects EXCEPT ![cur[m]][keyDay[m]] = stamp[m]]

PutObject(m) ==
  /\ pc[m] = "put"
  /\ objects' = Written(m)
  /\ Goto(m, "commit")
  /\ UNCHANGED <<committed, collided>>

(* Mutants: a failed write is committed all the same; the loop goes on.    *)
PutErrorSwallowed(m) ==
  /\ pc[m] = "put"
  /\ Goto(m, "commit")
  /\ UNCHANGED <<committed, objects, collided>>

PutErrorSkipped(m) ==
  /\ pc[m] = "put"
  /\ pc' = [pc EXCEPT ![m] = "poll"]
  /\ Forget(m)
  /\ UNCHANGED <<broker, committed, day, objects, collided, bounds>>

(* put_object raises; the store may have applied it all the same. *)
PutFails(m) ==
  /\ pc[m] = "put"
  /\ objects' = objects \/ objects' = Written(m)
  /\ Exit(m)
  /\ UNCHANGED <<committed, collided, crashes>>

(* consumer.commit(msg), whoever owns the partition by now. *)
CommitCur(m) ==
  committed' = [committed EXCEPT ![cur[m][1]] = cur[m][2] + 1]

Commit(m) ==
  /\ pc[m] = "commit"
  /\ CommitCur(m)
  /\ pc' = [pc EXCEPT ![m] = "poll"]
  /\ Forget(m)
  /\ UNCHANGED <<broker, day, objects, collided, bounds>>

CommitFails(m) ==
  /\ pc[m] = "commit"
  /\ committed' = committed \/ CommitCur(m)
  /\ Exit(m)
  /\ UNCHANGED <<objects, collided, crashes>>

ProcessCdcMessage(m) ==
  \/ HeadFound(m) \/ HeadMissing(m) \/ HeadFails(m)
  \/ PutObject(m) \/ PutFails(m)
  \/ Commit(m) \/ CommitFails(m)

Next ==
  \/ NewDay
  \/ \E p \in Partitions : Produce(p) \/ Revoke(p)
  \/ \E p \in Partitions, m \in Members : Assign(p, m) \/ Poll(m, p)
  \/ \E m \in Members : Start(m) \/ Crash(m) \/ PollNone(m) \/ ProcessCdcMessage(m)

Spec == Init /\ [][Next]_vars

-----------------------------------------------------------------------------
TypeOK ==
  /\ end \in [Partitions -> 0 .. MaxOffset]
  /\ committed \in [Partitions -> 0 .. MaxOffset]
  /\ owner \in [Partitions -> Members \cup {NoMember}]
  /\ position \in [Partitions -> 0 .. MaxOffset]
  /\ day \in Days
  /\ pc \in [Members -> Steps]
  /\ cur \in [Members -> Record \cup {NoRecord}]
  /\ stamp \in [Members -> Stamps \cup {NoStamp}]
  /\ keyDay \in [Members -> Days]
  /\ objects \in [Record -> [Days -> Stamps \cup {NoStamp}]]
  /\ collided \in SUBSET Record
  /\ crashes \in 0 .. MaxCrashes
  /\ revocations \in 0 .. MaxRevocations
  /\ \A m \in Members : pc[m] \in Idle <=> cur[m] = NoRecord

(* process_cdc_message: an offset is committed only after the change is in *)
(* Raw or its failure in the quarantine, and the same holds of everything  *)
(* below it, whichever members crashed, collided or lost the partition.    *)
OffsetInvariant ==
  \A p \in Partitions : \A o \in Offsets :
    o < committed[p] => Durable(<<p, o>>)

(* A member works on a change only when every earlier one of the partition *)
(* is stored: changes of a row never reach Raw out of order.               *)
NothingSkipped ==
  \A m \in Members : pc[m] \notin Idle =>
    \A o \in Offsets : o < cur[m][2] => Durable(<<cur[m][1], o>>)

(* The CDC path keeps the promise of the payment path.                     *)
Abstract == INSTANCE RawArchive WITH archived <- {r \in Record : Durable(r)}
ImplementsArchive == Abstract!ArchiveSpec

(* cdc_operational_contract.json: existing_object_replay_is_idempotent: no *)
(* delivery of a change that is stored is refused as a collision, all that *)
(* is stored under a coordinate being that change.                         *)
ReplayIdempotent == collided = {}

=============================================================================
