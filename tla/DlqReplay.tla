----------------------------- MODULE DlqReplay -----------------------------
(* replay_dlq.py: an operator re-injects one DLQ record into the topic it    *)
(* came from, while the consumer goes on reading that topic and writing      *)
(* envelopes.  The command scans the DLQ for envelopes of the same failure   *)
(* and then produces; it leaves no trace in the DLQ.                         *)
EXTENDS Naturals, Sequences, FiniteSets, SequencesExt

CONSTANTS
  Commands,   \* invocations of replay_dlq
  Payloads,   \* payloads of the records the sources produced
  MaxSource,  \* bound on the length of the source topic
  MaxDlq      \* bound on the length of the DLQ

ASSUME ReplayAssumption == IsFiniteSet(Payloads)

VARIABLES
  source,    \* the topic: [payload, from], from = failure id of a replay, or 0
  committed, \* the consumer's offset
  acked,     \* the envelope of the next record is acknowledged, not its commit
  dlq,       \* failure ids of the envelopes: offsets of source records
  cmd        \* the commands

dvars == <<source, committed, acked, dlq, cmd>>

NoCmd == [pc |-> "idle", at |-> 0, seen |-> {}, whole |-> FALSE, before |-> 0,
          execute |-> FALSE, allow |-> FALSE, injected |-> 0, exit |-> 9]

Envelopes(fid) == {k \in DOMAIN dlq : dlq[k] = fid}

ReplayInit ==
  /\ source = [i \in 1 .. Cardinality(Payloads) |->
                 [payload |-> SetToSeq(Payloads)[i], from |-> 0]]
  /\ committed = 0 /\ acked = FALSE /\ dlq = <<>>
  /\ cmd = [o \in Commands |-> NoCmd]

-----------------------------------------------------------------------------
Head1 == committed + 1

(* store_then_commit: the record is in Raw and the consumer goes on. *)
Store ==
  /\ ~acked /\ Head1 <= Len(source)
  /\ committed' = Head1
  /\ UNCHANGED <<source, acked, dlq, cmd>>

(* publish_dlq_then_commit: the envelope is acknowledged first. *)
Quarantine ==
  /\ ~acked /\ Head1 <= Len(source) /\ Len(dlq) < MaxDlq
  /\ dlq' = Append(dlq, Head1)
  /\ acked' = TRUE
  /\ UNCHANGED <<source, committed, cmd>>

(* The offset is committed, or the consumer dies before that. *)
AfterAck ==
  /\ acked
  /\ acked' = FALSE
  /\ committed' \in {committed, Head1}
  /\ UNCHANGED <<source, dlq, cmd>>

-----------------------------------------------------------------------------
Exit(o, code) == cmd' = [cmd EXCEPT ![o].pc = "exited", ![o].exit = code]

(* main: the record at --partition and --offset, or exit 2. *)
Fetch(o, k, execute, allow) ==
  /\ cmd[o].pc = "idle"
  /\ \/ /\ k \in DOMAIN dlq
        /\ cmd' = [cmd EXCEPT ![o].pc = "scan", ![o].at = dlq[k], ![o].execute = execute,
                              ![o].allow = allow, ![o].before = Cardinality(Envelopes(dlq[k]))]
     \/ Exit(o, 2)
  /\ UNCHANGED <<source, committed, acked, dlq>>

(* Mutant: the scan ends at the end of the partitions, which the client does *)
(* not report unless enable.partition.eof is set.                            *)
ScanUntilEof(o, n, available) ==
  /\ cmd[o].pc = "scan" /\ available /\ n > Len(dlq)
  /\ UNCHANGED dvars

(* scan_dlq_envelopes: what was read of the partitions by the deadline; a    *)
(* topic that is not available is scanned as an empty one.                   *)
Scan(o, n, available) ==
  /\ cmd[o].pc = "scan"
  /\ cmd' = [cmd EXCEPT ![o].pc = "decide",
                        ![o].seen = IF available THEN 1 .. n ELSE {},
                        ![o].whole = available /\ n = Len(dlq)]
  /\ UNCHANGED <<source, committed, acked, dlq>>

(* duplicate_groups(...).get(failure_id) *)
Duplicates(o) == Cardinality(Envelopes(cmd[o].at) \cap cmd[o].seen) > 1

(* Inspection only is exit 0, a duplicate without consent exit 3. *)
Decide(o) ==
  /\ cmd[o].pc = "decide"
  /\ \/ ~cmd[o].execute /\ Exit(o, 0)
     \/ cmd[o].execute /\ Duplicates(o) /\ ~cmd[o].allow /\ Exit(o, 3)
     \/ /\ cmd[o].execute /\ (~Duplicates(o) \/ cmd[o].allow)
        /\ cmd' = [cmd EXCEPT ![o].pc = "produce"]
  /\ UNCHANGED <<source, committed, acked, dlq>>

Replayed(o) == [payload |-> source[cmd[o].at].payload, from |-> cmd[o].at]

(* Mutant: the delivery report is not looked at. *)
ProduceUnconfirmed(o) ==
  /\ cmd[o].pc = "produce"
  /\ \/ /\ Len(source) < MaxSource
        /\ source' = Append(source, Replayed(o))
        /\ cmd' = [cmd EXCEPT ![o].pc = "exited", ![o].exit = 0, ![o].injected = Len(source) + 1]
     \/ UNCHANGED source /\ Exit(o, 0)
  /\ UNCHANGED <<committed, acked, dlq>>

(* produce and flush(30): delivered and reported, delivered and the report   *)
(* lost, or not delivered.                                                   *)
ProduceReplay(o) ==
  /\ cmd[o].pc = "produce"
  /\ \/ /\ Len(source) < MaxSource
        /\ source' = Append(source, Replayed(o))
        /\ \E code \in {0, 1} :
             cmd' = [cmd EXCEPT ![o].pc = "exited", ![o].exit = code, ![o].injected = Len(source) + 1]
     \/ UNCHANGED source /\ Exit(o, 1)
  /\ UNCHANGED <<committed, acked, dlq>>

CommandStep(o) ==
  \/ \E n \in 0 .. Len(dlq), available \in BOOLEAN : Scan(o, n, available)
  \/ Decide(o) \/ ProduceReplay(o)

ReplayNext ==
  \/ Store \/ Quarantine \/ AfterAck
  \/ \E o \in Commands :
       \/ \E k \in 1 .. MaxDlq, execute, allow \in BOOLEAN : Fetch(o, k, execute, allow)
       \/ CommandStep(o)

ReplaySpec == ReplayInit /\ [][ReplayNext]_dvars

(* Every wait of the command has a limit: poll(10), the deadline, flush(30). *)
ReplayFairness == \A o \in Commands : WF_dvars(CommandStep(o))

-----------------------------------------------------------------------------
(* Types, and that an envelope stands for a record of the topic. *)
ReplayTypeOK ==
  /\ committed \in 0 .. Len(source) /\ acked \in BOOLEAN
  /\ ToSet(dlq) \subseteq 1 .. Len(source)
  /\ \A o \in Commands : cmd[o].exit \in {0, 1, 2, 3, 9} /\ cmd[o].at \in 0 .. Len(source)

(* The chain of replays of a record ends at what a source produced, with     *)
(* the same payload; a record that fails again has a failure id of its own,  *)
(* under which it can be replayed once more.                                 *)
ReplaysFaithful ==
  \A i \in DOMAIN source : source[i].from # 0 =>
    /\ source[i].from < i
    /\ source[i].payload = source[source[i].from].payload
    /\ Envelopes(source[i].from) # {}

(* Exit 0 with --execute means that the record is in the topic; 2 and 3      *)
(* mean that nothing was produced. Only 1 leaves it open.                    *)
ExitsTrue ==
  \A o \in Commands :
    /\ cmd[o].exit = 0 /\ cmd[o].execute =>
         cmd[o].injected # 0 /\ source[cmd[o].injected].from = cmd[o].at
    /\ cmd[o].exit \in {2, 3} => cmd[o].injected = 0

(* "refuses --execute on an identity that has duplicate envelopes": without  *)
(* consent a command whose scan was complete injects only what had a single  *)
(* envelope when it started.                                                 *)
DuplicatesRefused ==
  \A o \in Commands : cmd[o].injected # 0 /\ cmd[o].whole /\ ~cmd[o].allow => cmd[o].before <= 1

(* replay_dlq: a replay carries the payload of the record it names, the exit *)
(* code says whether it was produced, and a complete scan refuses            *)
(* duplicates.                                                               *)
ReplayTrue == ReplayTypeOK /\ ReplaysFaithful /\ ExitsTrue /\ DuplicatesRefused
=============================================================================
