-------------------------- MODULE PlatformPipeline --------------------------
(* The Airflow DAG pdm_platform_pipeline and what its tasks call: the        *)
(* platform job runner (job_runner/api.py) for the scheduled jobs and the    *)
(* transform control plane for the run and its ten batches.  DAG runs follow *)
(* one another (max_active_runs=1); the transform runs they create stay.     *)
(*                                                                           *)
(* The control plane is reduced to what a client sees of it: a batch that is *)
(* queued ends at some time (TransformControl has its details), and a failed *)
(* one ends its run.                                                         *)
EXTENDS Naturals, FiniteSets

CONSTANTS
  DagRuns,    \* 1 .. n, in the order they are triggered
  MaxActive,  \* max_active_tasks
  MaxTries,   \* retries + 1
  MaxFaults   \* bound: faults calls, failed checks and failed batches

ASSUME PipelineAssumption ==
  /\ DagRuns \subseteq Nat /\ 1 \in DagRuns
  /\ MaxActive \in Nat /\ MaxTries \in Nat \ {0} /\ MaxFaults \in Nat

VARIABLES
  enabled, \* PLATFORM_RUNNER_EXECUTION_ENABLED
  dag,     \* the DAG run under way
  task,    \* state of its task instances
  tries,   \* how often each that has not ended was started
  waiting, \* batch tasks that have submitted and poll
  run,     \* the transform run each DAG run created
  batch,   \* the batch executions of each DAG run
  refused, \* ghost: batches refused because a prerequisite is not built
  faults

pvars == <<enabled, dag, task, tries, waiting, run, batch, refused, faults>>

(* EXECUTION_BATCHES: prerequisite_batches. *)
Prerequisite ==
  [ml |-> {}, raw02 |-> {}, rid03 |-> {"raw02"}, ord04 |-> {"raw02"},
   bridge05 |-> {"ml", "raw02", "rid03", "ord04"},
   alert06 |-> {"ord04", "bridge05"},
   ridalerts07 |-> {"rid03", "ord04", "bridge05"},
   signal08 |-> {"ord04", "bridge05", "alert06"},
   ridsignals09 |-> {"ridalerts07"},
   down10 |-> {"ord04", "bridge05", "alert06", "signal08", "ridsignals09"}]

Batches == DOMAIN Prerequisite

(* SCHEDULED_COMMANDS the DAG uses, and whether the runner really performs   *)
(* them: preflight only with execution enabled, raw_readiness always.        *)
Jobs == {"preflight", "raw", "dq", "features", "scoring", "reconcile", "accepted"}

Tasks == Batches \cup Jobs \cup {"create"}

(* The edges drawn between the tasks. *)
Edges ==
  [preflight |-> {}, create |-> {}, raw |-> {"preflight"},
   ml |-> {"raw"}, raw02 |-> {"raw"}, rid03 |-> {"raw02"}, ord04 |-> {"raw02"},
   bridge05 |-> {"ml", "raw02", "rid03", "ord04"},
   alert06 |-> {"ord04", "bridge05"},
   ridalerts07 |-> {"rid03", "ord04", "bridge05"},
   signal08 |-> {"ord04", "bridge05", "alert06"},
   ridsignals09 |-> {"ridalerts07"},
   down10 |-> {"ord04", "bridge05", "alert06", "signal08", "ridsignals09"},
   dq |-> {"down10"}, features |-> {"dq"}, scoring |-> {"features"},
   reconcile |-> {"scoring"}, accepted |-> {"reconcile"}]

(* The argument run_id puts every batch task below create_runtime_run.       *)
Upstream ==
  [t \in Tasks |-> Edges[t] \cup (IF t \in Batches THEN {"create"} ELSE {})]

Failures == {"FAILED", "CANCELLED", "ORPHANED"}
Finished == {"success", "failed", "upstream_failed"}
Running == {t \in Tasks : task[t] = "running"}
DagEnded == \A t \in Tasks : task[t] \in Finished
LastEnded == dag + 1 \notin DagRuns /\ DagEnded

Init ==
  /\ enabled \in BOOLEAN
  /\ dag = 1
  /\ task = [t \in Tasks |-> "none"] /\ tries = [t \in Tasks |-> 0]
  /\ waiting = {}
  /\ run = [d \in DagRuns |-> "NONE"]
  /\ batch = [db \in DagRuns \X Batches |-> "NONE"]
  /\ refused = {} /\ faults = 0

-----------------------------------------------------------------------------
(* The Airflow scheduler (external). *)

StartTask(t) ==
  /\ \/ task[t] = "none" /\ \A u \in Upstream[t] : task[u] = "success"
     \/ task[t] = "retry"
  /\ Cardinality(Running) < MaxActive
  /\ task' = [task EXCEPT ![t] = "running"]
  /\ tries' = [tries EXCEPT ![t] = @ + 1]
  /\ UNCHANGED <<enabled, dag, waiting, run, batch, refused, faults>>

(* A pass of the scheduler over the tasks that cannot start any more. *)
Skipped ==
  {t \in Tasks : /\ task[t] = "none"
                 /\ \E u \in Upstream[t] : task[u] \in {"failed", "upstream_failed"}}

SkipTasks ==
  /\ Skipped # {}
  /\ task' = [t \in Tasks |-> IF t \in Skipped THEN "upstream_failed" ELSE task[t]]
  /\ UNCHANGED <<enabled, dag, tries, waiting, run, batch, refused, faults>>

NextDagRun ==
  /\ DagEnded /\ dag + 1 \in DagRuns
  /\ dag' = dag + 1
  /\ task' = [t \in Tasks |-> "none"]
  /\ UNCHANGED <<enabled, tries, waiting, run, batch, refused, faults>>

End(t, state) ==
  /\ task' = [task EXCEPT ![t] = state]
  /\ tries' = [tries EXCEPT ![t] = IF state = "retry" THEN @ ELSE 0]
  /\ waiting' = waiting \ {t}

Succeed(t) == End(t, "success")

(* The task raises: default_args retries it once. *)
Raise(t) == End(t, IF tries[t] < MaxTries THEN "retry" ELSE "failed")

Fault == faults < MaxFaults /\ faults' = faults + 1

-----------------------------------------------------------------------------
(* scheduled_job: a check that is performed succeeds or not; with execution  *)
(* enabled the jobs that are not wired are refused, otherwise dry runs.      *)
Perform(t) ==
  \/ /\ t = "raw" \/ (t = "preflight" /\ enabled)
     /\ \/ Succeed(t) /\ faults' = faults
        \/ Fault /\ Raise(t)
  \/ /\ t # "raw" /\ ~enabled
     /\ Succeed(t) /\ faults' = faults
  \/ /\ t \notin {"raw", "preflight"} /\ enabled
     /\ Raise(t) /\ faults' = faults

RunScheduledJob(t) ==
  /\ t \in Jobs /\ task[t] = "running"
  /\ Perform(t)
  /\ UNCHANGED <<enabled, dag, run, batch, refused>>

ActiveRuns == {d \in DagRuns : run[d] = "ADMITTED"}

(* Mutant: create_run takes no notice of a run that is still active. *)
CreateBeside ==
  /\ task["create"] = "running"
  /\ run' = [run EXCEPT ![dag] = IF @ = "NONE" THEN "ADMITTED" ELSE @]
  /\ Succeed("create")
  /\ UNCHANGED <<enabled, dag, batch, refused, faults>>

(* create_transform_run: the run of this key as it is, a new one, or 409     *)
(* when another run is active.                                               *)
CreateRun ==
  /\ task["create"] = "running"
  /\ \/ /\ run[dag] # "NONE" /\ Succeed("create") /\ run' = run
     \/ /\ run[dag] = "NONE" /\ ActiveRuns = {}
        /\ Succeed("create") /\ run' = [run EXCEPT ![dag] = "ADMITTED"]
     \/ /\ run[dag] = "NONE" /\ ActiveRuns # {} /\ Raise("create") /\ run' = run
  /\ UNCHANGED <<enabled, dag, batch, refused, faults>>

(* submit_batch: prerequisites built in this run, or 409; an existing row    *)
(* can be queued only from ADMITTED, any other answers 503.                  *)
Queue(t) ==
  LET row == batch[<<dag, t>>]
      met == \A p \in Prerequisite[t] : batch[<<dag, p>>] = "SUCCEEDED"
  IN \/ /\ row = "ADMITTED" \/ (row = "NONE" /\ met)
        /\ batch' = [batch EXCEPT ![<<dag, t>>] = "QUEUED"]
        /\ refused' = refused
     \/ /\ row = "NONE" /\ ~met
        /\ refused' = refused \cup {t} /\ batch' = batch
     \/ /\ row \notin {"NONE", "ADMITTED"} /\ UNCHANGED <<batch, refused>>

Accepts(t) ==
  \/ batch[<<dag, t>>] = "ADMITTED"
  \/ batch[<<dag, t>>] = "NONE" /\ \A p \in Prerequisite[t] : batch[<<dag, p>>] = "SUCCEEDED"

(* submit_and_wait_batch: the POST. *)
SubmitBatch(t) ==
  /\ t \in Batches \ waiting /\ task[t] = "running"
  /\ Queue(t)
  /\ IF Accepts(t) THEN waiting' = waiting \cup {t} /\ UNCHANGED <<task, tries>> ELSE Raise(t)
  /\ UNCHANGED <<enabled, dag, run, faults>>

(* Mutant: any terminal status ends the polling with success. *)
PollAny(t) ==
  /\ t \in waiting
  /\ batch[<<dag, t>>] # "QUEUED" /\ Succeed(t)
  /\ UNCHANGED <<enabled, dag, run, batch, refused, faults>>

(* submit_and_wait_batch: the GETs, until the status is terminal. *)
PollBatch(t) ==
  /\ t \in waiting
  /\ \/ batch[<<dag, t>>] = "SUCCEEDED" /\ Succeed(t)
     \/ batch[<<dag, t>>] \in Failures /\ Raise(t)
  /\ UNCHANGED <<enabled, dag, run, batch, refused, faults>>

(* A call of the task times out or its poll deadline passes: the runtime may *)
(* have done what was asked, or have died between the INSERT and QUEUED.     *)
LoseCall(t) ==
  /\ task[t] = "running" /\ Fault
  /\ \/ Raise(t) /\ UNCHANGED <<run, batch>>
     \/ /\ t = "create" /\ run[dag] = "NONE" /\ ActiveRuns = {}
        /\ run' = [run EXCEPT ![dag] = "ADMITTED"] /\ Raise(t) /\ batch' = batch
     \/ /\ t \in Batches \ waiting /\ Accepts(t)
        /\ \E s \in {"ADMITTED", "QUEUED"} : batch' = [batch EXCEPT ![<<dag, t>>] = s]
        /\ Raise(t) /\ run' = run
  /\ UNCHANGED <<enabled, dag, refused>>

(* The control plane ends a queued batch; a failure ends its run.            *)
EndBatch(d, b) ==
  /\ batch[<<d, b>>] = "QUEUED"
  /\ \/ batch' = [batch EXCEPT ![<<d, b>>] = "SUCCEEDED"] /\ UNCHANGED <<run, faults>>
     \/ /\ Fault /\ batch' = [batch EXCEPT ![<<d, b>>] = "FAILED"]
        /\ run' = [run EXCEPT ![d] = "FAILED"]
  /\ UNCHANGED <<enabled, dag, task, tries, waiting, refused>>

Airflow ==
  \/ \E t \in Tasks : StartTask(t)
  \/ SkipTasks \/ NextDagRun

Call(t) ==
  \/ RunScheduledJob(t) \/ (t = "create" /\ CreateRun)
  \/ SubmitBatch(t) \/ PollBatch(t)

Control == \E d \in DagRuns, b \in Batches : EndBatch(d, b)

Progress == Airflow \/ Control \/ \E t \in Tasks : Call(t)

Next == Progress \/ \E t \in Tasks : LoseCall(t)

Spec == Init /\ [][Next]_pvars

-----------------------------------------------------------------------------
(* The DAG run's task instances, the transform runs and batch rows. *)
TypeOK ==
  /\ dag \in DagRuns /\ enabled \in BOOLEAN
  /\ task \in [Tasks -> {"none", "running", "retry"} \cup Finished]
  /\ tries \in [Tasks -> 0 .. MaxTries]
  /\ waiting \subseteq Batches \cap Running
  /\ run \in [DagRuns -> {"NONE", "ADMITTED", "FAILED"}]
  /\ batch \in [DagRuns \X Batches -> {"NONE", "ADMITTED", "QUEUED", "SUCCEEDED", "FAILED"}]
  /\ Cardinality(Running) <= MaxActive

(* pdm_platform_pipeline against execution_plan.py: the edges of the DAG     *)
(* order the batches so that the control plane never refuses one for a       *)
(* prerequisite, after retries and lost answers too.                         *)
PlanRespected == refused = {}

(* acceptance: it succeeds only when all ten batches are built in the        *)
(* transform run of this DAG run, which no failure has ended, and never with *)
(* real execution enabled, because the runner refuses the jobs before it.    *)
AcceptedIsBuilt ==
  task["accepted"] = "success" =>
    /\ \A b \in Batches : batch[<<dag, b>>] = "SUCCEEDED"
    /\ run[dag] = "ADMITTED"
    /\ ~enabled

(* create_run: while the transform run of an earlier DAG run is active no    *)
(* batch of a later one exists; since nothing ends a run whose batches       *)
(* succeed, that is for ever after an accepted DAG run and after one that    *)
(* failed in its preflight.                                                  *)
ActiveRunBlocks ==
  \A d, e \in DagRuns :
    d < e /\ run[d] = "ADMITTED" =>
      run[e] # "ADMITTED" /\ \A b \in Batches : batch[<<e, b>>] = "NONE"

(* pdm_platform_pipeline and the control plane: tasks run in the order of    *)
(* the plan, whatever is retried, and while a run is active no other starts. *)
DagTrue == TypeOK /\ PlanRespected /\ ActiveRunBlocks
=============================================================================
