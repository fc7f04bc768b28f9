------------------------------ MODULE RawArchive ------------------------------
(***************************************************************************)
(* What the Kafka -> Raw archiver promises, without members, retries,      *)
(* crashes or rebalances: records are appended to partitions, become       *)
(* durable (in Raw or in the dead-letter topic) in offset order within a    *)
(* partition, stay durable, and the committed offset of a partition is     *)
(* only ever set just after a durable record below which everything is     *)
(* durable.  It may be set back: consumption is at least once.             *)
(***************************************************************************)
EXTENDS Integers

CONSTANTS Partitions, MaxOffset

VARIABLES end, archived, committed

archiveVars == <<end, archived, committed>>

AllBelow(p, o) == {p} \X (0 .. o - 1)

ArchiveInit ==
  /\ end = [p \in Partitions |-> 0]
  /\ archived = {}
  /\ committed = [p \in Partitions |-> 0]

Append(p) ==
  /\ end[p] < MaxOffset
  /\ end' = [end EXCEPT ![p] = @ + 1]
  /\ UNCHANGED <<archived, committed>>

Archive(p, o) ==
  /\ o < end[p]
  /\ AllBelow(p, o) \subseteq archived
  /\ archived' = archived \cup {<<p, o>>}
  /\ UNCHANGED <<end, committed>>

Advance(p, o) ==
  /\ AllBelow(p, o + 1) \subseteq archived
  /\ committed' = [committed EXCEPT ![p] = o + 1]
  /\ UNCHANGED <<end, archived>>

ArchiveNext ==
  \E p \in Partitions :
    \/ Append(p)
    \/ \E o \in 0 .. MaxOffset - 1 : Archive(p, o) \/ Advance(p, o)

ArchiveSpec == ArchiveInit /\ [][ArchiveNext]_archiveVars
=============================================================================
