---------------------------- MODULE LifecycleJob ----------------------------
(* platform/flink/jobs/j1_lifecycle_state_skeleton.py: the Flink job that    *)
(* folds the technical events of two topics into one state per               *)
(* correlation_id, and writes a state record and a transition record for     *)
(* every event it has not seen.                                              *)
(*                                                                           *)
(* Flink (external) owns the checkpoints: offsets, keyed state and dedup     *)
(* state are restored together, and a checkpoint completes only when both    *)
(* sinks have flushed what was written before its barrier.  The sinks are    *)
(* at-least-once: what they wrote after the last checkpoint stays written.   *)
(* The module extends the producer, whose topics are the job's input.        *)
EXTENDS PaymentProducer

CONSTANTS
  InputTopics, \* INPUT_TOPICS
  Correlation, \* Correlation[f]: correlation_id of a technical file, or "none"
  Stage,       \* Stage[f]: its technical_stage, "" when it has none
  Retrying     \* the files whose technical_status is "retrying"

ASSUME JobAssumption ==
  /\ InputTopics \subseteq Topics /\ Retrying \subseteq Technical
  /\ \A f \in Files : Correlation[f] # "none" => f \in Technical

VARIABLES
  job,     \* offsets, keyed state and dedup state, as the operators hold them
  snap,    \* the checkpoint under way, if any
  ckpt,    \* the last completed checkpoint
  unsent,  \* records in each sink's buffer
  state,   \* payments.lifecycle.state.v1
  moves,   \* payments.lifecycle.transitions.v1
  epoch,   \* ghost: restores so far
  expired  \* ghost: a dedup entry has outlived its time to live

jobvars == <<job, snap, ckpt, unsent, state, moves, epoch, expired>>

Correlations == {Correlation[f] : f \in Files} \ {"none"}

(* The file of a message, which fixes what its envelope holds. *)
FileOf(m) == m.event[1]

(* ParseEnvelope drops an envelope without a usable correlation_id.          *)
Usable(m) == Correlation[FileOf(m)] # "none"

Start == [pos |-> [t \in InputTopics |-> 0], keyed |-> [c \in {} |-> 0], seen |-> {}]
NoSnap == [under |-> FALSE, job |-> Start, upto |-> [state |-> 0, moves |-> 0]]

JobInit ==
  /\ job = Start /\ snap = NoSnap /\ ckpt = Start
  /\ unsent = [state |-> <<>>, moves |-> <<>>]
  /\ state = <<>> /\ moves = <<>> /\ epoch = 0 /\ expired = FALSE

-----------------------------------------------------------------------------
Known(c) == c \in DOMAIN job.keyed

(* process_element: the new state of correlation c after an event of file f. *)
(* A stage enters the history when it differs from the last one there.       *)
Folded(c, f, id) ==
  LET old == IF Known(c) THEN job.keyed[c] ELSE [history |-> <<>>, retries |-> 0]
      h == old.history
      s == Stage[f]
  IN [stage |-> s, last |-> id,
      history |-> IF s # "" /\ (h = <<>> \/ h[Len(h)] # s) THEN Append(h, s) ELSE h,
      retries |-> old.retries + IF f \in Retrying THEN 1 ELSE 0]

(* The transition record; its id is a uuid5 of the two ids. *)
Transition(c, f, id) ==
  [id |-> <<c, id>>, corr |-> c, from |-> IF Known(c) THEN job.keyed[c].stage ELSE "none",
   to |-> Stage[f], epoch |-> epoch]

Put(g, c, v) == [x \in DOMAIN g \cup {c} |-> IF x = c THEN v ELSE g[x]]

(* Mutant: a repeated event is folded again. *)
SeenNever(m) == FALSE

(* seen_event_ids holds the event_id, unless its time to live has passed.    *)
Seen(m) == m.id \in job.seen

(* One record of one input topic. *)
Process(t) ==
  LET m == log[t][job.pos[t] + 1]
      f == FileOf(m)
      c == Correlation[f]
      moved == [job EXCEPT !.pos[t] = @ + 1]
  IN /\ job.pos[t] < Len(log[t])
     /\ IF ~Usable(m) \/ Seen(m)
        THEN job' = moved /\ UNCHANGED unsent
        ELSE /\ job' = [moved EXCEPT !.seen = @ \cup {m.id},
                                     !.keyed = Put(@, c, Folded(c, f, m.id))]
             /\ unsent' = [state |-> Append(unsent.state, <<c, Folded(c, f, m.id)>>),
                           moves |-> Append(unsent.moves, Transition(c, f, m.id))]
     /\ UNCHANGED <<snap, ckpt, state, moves, epoch, expired>>

(* The two Kafka sinks are independent producers. *)
SendState ==
  /\ unsent.state # <<>>
  /\ state' = Append(state, Head(unsent.state))
  /\ unsent' = [unsent EXCEPT !.state = Tail(@)]
  /\ UNCHANGED <<job, snap, ckpt, moves, epoch, expired>>

SendMove ==
  /\ unsent.moves # <<>>
  /\ moves' = Append(moves, Head(unsent.moves))
  /\ unsent' = [unsent EXCEPT !.moves = Tail(@)]
  /\ UNCHANGED <<job, snap, ckpt, state, epoch, expired>>

(* A barrier passes the operators; the sinks must flush what is before it.   *)
Barrier ==
  /\ ~snap.under /\ job # ckpt
  /\ snap' = [under |-> TRUE, job |-> job,
              upto |-> [state |-> Len(state) + Len(unsent.state),
                        moves |-> Len(moves) + Len(unsent.moves)]]
  /\ UNCHANGED <<job, ckpt, unsent, state, moves, epoch, expired>>

Complete ==
  /\ snap.under
  /\ Len(state) >= snap.upto.state /\ Len(moves) >= snap.upto.moves
  /\ ckpt' = snap.job /\ snap' = NoSnap
  /\ UNCHANGED <<job, unsent, state, moves, epoch, expired>>

(* The task manager is lost and the job restored from its checkpoint. *)
Restore ==
  /\ job' = ckpt /\ snap' = NoSnap
  /\ unsent' = [state |-> <<>>, moves |-> <<>>]
  /\ epoch' = epoch + 1
  /\ UNCHANGED <<ckpt, state, moves, expired>>

(* The time to live of a dedup entry passes. *)
Expire(id) ==
  /\ id \in job.seen
  /\ job' = [job EXCEPT !.seen = @ \ {id}] /\ expired' = TRUE
  /\ UNCHANGED <<snap, ckpt, unsent, state, moves, epoch>>

JobStep == (\E t \in InputTopics : Process(t)) \/ SendState \/ SendMove \/ Barrier \/ Complete

JobFault ==
  /\ faults < MaxFaults /\ faults' = faults + 1
  /\ Restore \/ \E id \in job.seen : Expire(id)

(* The job beside the producer that feeds it. *)
JobNext ==
  \/ Next /\ UNCHANGED jobvars
  \/ JobStep /\ UNCHANGED <<prodvars, log, faults>>
  \/ JobFault /\ UNCHANGED <<prodvars, log>>

JobSpec == Init /\ JobInit /\ [][JobNext]_<<prodvars, log, faults, jobvars>>

-----------------------------------------------------------------------------
(* The messages of the input topics the job has read, in a given state of it. *)
ReadBy(j) == UNION {{log[t][i] : i \in 1 .. j.pos[t]} : t \in InputTopics}
UsableIds(j) == {m.id : m \in {x \in ReadBy(j) : Usable(x)}}
RetryIds(j, c) ==
  {m.id : m \in {x \in ReadBy(j) : Correlation[FileOf(x)] = c /\ FileOf(x) \in Retrying}}
MoveIds(s) == {s[i].id[2] : i \in DOMAIN s}

(* All that was written to a sink since the job was restored, and before. *)
AllMoves == moves \o unsent.moves
AllStates == state \o unsent.state
MovesOf(c) == {i \in DOMAIN AllMoves : AllMoves[i].corr = c}
StatesOf(c) == {i \in DOMAIN AllStates : AllStates[i][1] = c}
LastIn(i, S) == i \in S /\ \A k \in S : k <= i

(* The job's offsets lie within the topics, and a checkpoint never runs      *)
(* ahead of the operators.                                                   *)
JobTypeOK ==
  /\ \A t \in InputTopics : ckpt.pos[t] <= job.pos[t] /\ job.pos[t] <= Len(log[t])
  /\ DOMAIN job.keyed \subseteq Correlations /\ job.seen \subseteq UsableIds(job)
  /\ \A i \in DOMAIN moves : moves[i].epoch <= epoch

(* At least once: an event a completed checkpoint has passed is on the       *)
(* transitions topic, whatever crash follows, and its correlation is on the  *)
(* state topic.                                                              *)
NothingLost ==
  /\ UsableIds(ckpt) \subseteq MoveIds(moves)
  /\ \A c \in DOMAIN ckpt.keyed : \E i \in DOMAIN state : state[i] = <<c, ckpt.keyed[c]>>

(* A second transition of an event means that the job was restored or that   *)
(* its dedup entry expired; a second run of the producer never causes one.   *)
SecondMoveExplained ==
  epoch = 0 /\ ~expired =>
    \A i, j \in DOMAIN AllMoves : AllMoves[i].id = AllMoves[j].id => i = j

(* Managed state is exactly-once: whatever was restored or replayed, the     *)
(* retries counted are those of the distinct events read, as long as no      *)
(* dedup entry has expired.                                                  *)
RetriesExact ==
  ~expired =>
    \A c \in DOMAIN job.keyed : job.keyed[c].retries = Cardinality(RetryIds(job, c))

(* Between two restores the transitions of a correlation form a chain, and   *)
(* the last one ends in the stage the state topic gets last.                 *)
MovesChain ==
  \A c \in Correlations :
    /\ \A i, j \in MovesOf(c) :
         /\ i < j /\ (\A k \in MovesOf(c) : k <= i \/ k >= j)
         /\ AllMoves[i].epoch = AllMoves[j].epoch
         => AllMoves[j].from = AllMoves[i].to
    /\ \A i \in MovesOf(c) :
         LastIn(i, MovesOf(c)) /\ AllMoves[i].epoch = epoch =>
           /\ Known(c) /\ AllMoves[i].to = job.keyed[c].stage
           /\ \E n \in StatesOf(c) : LastIn(n, StatesOf(c)) /\ AllStates[n][2] = job.keyed[c]

(* j1_lifecycle_state: whatever is restored or expires, no event below a     *)
(* checkpoint is lost, a second transition of an event is explained, the     *)
(* retries are those of the distinct events, and the transitions of a        *)
(* correlation chain from stage to stage.                                    *)
JobExact ==
  JobTypeOK /\ NothingLost /\ SecondMoveExplained /\ RetriesExact /\ MovesChain

(* Everything produced is read, and what follows from it reaches both sinks. *)
JobCatchesUp ==
  []<>(/\ \A t \in InputTopics : job.pos[t] = Len(log[t])
       /\ unsent = [state |-> <<>>, moves |-> <<>>])
=============================================================================
