------------------------------- MODULE MCStream -------------------------------
(* TLC instance: the payment producer feeding the lifecycle job, and beside  *)
(* them the MDM publisher, the replay command and the replay ledger, which   *)
(* share nothing with them or with each other, in the code too; a behaviour  *)
(* exercises one part while the others stay where they began.                *)
EXTENDS LifecycleJob, MdmPublisher, DlqReplay, ReplayLedger, TLC

VARIABLE part

CONSTANTS MaxJobFaults, o1, o2, c1, c2, r1, r2, r3, r4, i1, i2

MCFiles == {"pmn", "plm", "pain", "loans", "stray"}
MCTopics == {"icmn.pmn.pain001", "cpo.plm.pain002", "pdmis.loans"}
MCForm == [f \in MCFiles |-> IF f = "loans" THEN "json" ELSE "xml"]
MCRoute == [pmn |-> "icmn.pmn.pain001", plm |-> "cpo.plm.pain002",
            pain |-> "icmn.pmn.pain001", loans |-> "pdmis.loans", stray |-> "unknown"]
MCTechnical == {"pmn", "plm"}
MCSize == [f \in MCFiles |-> 1]
MCInput == {"icmn.pmn.pain001", "cpo.plm.pain002"}
MCCorrelation == [f \in MCFiles |-> IF f \in MCTechnical THEN "c" ELSE "none"]
MCStage == [f \in MCFiles |-> f]
MCRetrying == {"pmn", "plm"}

MCSpecs == <<"identity", "product", "branch">>
MCAuthority == [identity |-> "restricted_identity", product |-> "ordinary", branch |-> "ordinary"]
MCKeys == {"k1"}
MCContents == {<<k>> : k \in MCKeys \cup {"none"}} \cup {<<k, l>> : k, l \in MCKeys}

MCCommands == {o1, o2}
MCPayloads == {"a", "b"}

\* Two requests of an identity, two that share an id, and one not approved.
MCClients == {c1, c2}
MCRequests == {r1, r2, r3, r4}
MCIdentityOf == (r1 :> i1) @@ (r2 :> i1) @@ (r3 :> i2) @@ (r4 :> i2)
MCIdOf == (r1 :> 1) @@ (r2 :> 2) @@ (r3 :> 1) @@ (r4 :> 4)
MCRefused == {r4}
MCTargets == {"APPROVED", "IN_PROGRESS", "FAILED"}

svars == <<prodvars, log, faults, jobvars>>
vars == <<part, svars, mdmvars, dvars, lvars>>

MCMdmIdle ==
  /\ mode = "validate" /\ who = "ordinary" /\ enabled = FALSE
  /\ rows = [s \in SpecSet |-> <<"k1">>]
  /\ mpc = "validate" /\ at = 0 /\ plan = <<>> /\ sent = 0 /\ answer = <<>> /\ delivered = 0
  /\ published = <<>> /\ edits = 0 /\ errors = 0

MCInit ==
  /\ Init /\ JobInit /\ ReplayInit /\ LedgerInit
  /\ part \in {"producer", "stream", "mdm", "dlq", "ledger"}
  /\ CASE part = "producer" -> "stray" \in readable
       [] part = "stream" -> readable \in {{"pmn", "plm"}, {"plm", "pain"}}
       [] OTHER -> readable = Files
  /\ IF part = "mdm" THEN MdmInit ELSE MCMdmIdle

Producer ==
  /\ \/ ProducerStep \/ BrokerStep
     \/ part = "producer" /\ ProducerFault
     \/ job = Start /\ epoch = 0 /\ Rerun
  /\ UNCHANGED jobvars

(* The producer only appends to topics the job only reads, so its steps can  *)
(* be moved before the job's: it is enough to start the job, which reads     *)
(* from the earliest offset, after the last run of the producer.  What the   *)
(* producer does when files, messages or the process fail is the part        *)
(* "producer", without the job.                                              *)
Quiet == phase \in {"exit0", "exit1", "dead"}

Job == Quiet /\ JobStep /\ UNCHANGED <<prodvars, log, faults>>

Fault == Quiet /\ faults < MaxJobFaults /\ JobFault /\ UNCHANGED <<prodvars, log>>

Streams == part \in {"producer", "stream"}

StreamNext ==
  /\ Producer \/ (part = "stream" /\ (Job \/ Fault))
  /\ Streams /\ UNCHANGED <<part, mdmvars, dvars, lvars>>

MCMdmNext == part = "mdm" /\ MdmNext /\ UNCHANGED <<part, svars, dvars, lvars>>

MCReplayNext == part = "dlq" /\ ReplayNext /\ UNCHANGED <<part, svars, mdmvars, lvars>>

MCLedgerNext == part = "ledger" /\ LedgerNext /\ UNCHANGED <<part, svars, mdmvars, dvars>>

StreamDone ==
  /\ Quiet
  /\ \/ part = "producer"
     \/ /\ \A t \in InputTopics : job.pos[t] = Len(log[t])
        /\ job = ckpt /\ ~snap.under

(* What may stop: the producer and the job that have no more to do, the      *)
(* publisher and the commands that have exited, clients without calls.       *)
Done ==
  /\ CASE Streams -> StreamDone
       [] part = "mdm" -> mpc \in {"exit0", "exit1"}
       [] part = "dlq" -> \A o \in MCCommands : cmd[o].pc = "exited"
       [] part = "ledger" -> \A c \in MCClients : call[c].pc = "idle" /\ left[c] = 0
  /\ UNCHANGED vars

MCNext == StreamNext \/ MCMdmNext \/ MCReplayNext \/ MCLedgerNext \/ Done

(* main runs on; librdkafka answers every message within delivery.timeout.ms; *)
(* Flink schedules each operator and its checkpoints; every wait of the      *)
(* replay command has a limit, and a ledger client goes on unless it dies.   *)
Fairness ==
  /\ WF_vars(Streams /\ ProducerStep /\ UNCHANGED <<part, mdmvars, dvars, lvars, jobvars>>)
  /\ WF_vars(Streams /\ BrokerStep /\ UNCHANGED <<part, mdmvars, dvars, lvars, jobvars>>)
  /\ WF_vars(part = "stream" /\ Quiet /\ (\E t \in InputTopics : Process(t))
               /\ UNCHANGED <<part, mdmvars, dvars, lvars, prodvars, log, faults>>)
  /\ WF_vars(part = "stream" /\ Quiet /\ (SendState \/ SendMove)
               /\ UNCHANGED <<part, mdmvars, dvars, lvars, prodvars, log, faults>>)
  /\ WF_mdmvars(part = "mdm" /\ MdmStep)
  /\ WF_mdmvars(part = "mdm" /\ MdmBroker)
  /\ \A o \in MCCommands : WF_dvars(part = "dlq" /\ CommandStep(o))
  /\ \A c \in MCClients : WF_lvars(part = "ledger" /\ LedgerStep(c))

FairSpec == MCInit /\ [][MCNext]_vars /\ Fairness

-----------------------------------------------------------------------------
(* What is started ends: the producer's command, as every message gets its   *)
(* answer; the job reads everything stored and all that follows from it      *)
(* reaches its topics; the MDM publisher and the replay command exit; the    *)
(* write lock of the ledger is given back.                                   *)
StreamEnds ==
  /\ Streams /\ phase = "begin" ~> phase \in {"exit0", "exit1", "dead"}
  /\ part = "stream" => JobCatchesUp
  /\ part = "mdm" ~> mpc \in {"exit0", "exit1"}
  /\ \A o \in MCCommands :
       (part = "dlq" /\ cmd[o].pc # "idle") ~> (part = "dlq" /\ cmd[o].pc = "exited")
  /\ \A c \in MCClients : (part = "ledger" /\ lock = c) ~> lock # c
=============================================================================
