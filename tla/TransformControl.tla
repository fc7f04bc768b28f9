--------------------------- MODULE TransformControl ---------------------------
(***************************************************************************)
(* The lakehouse transform control plane: the admission API               *)
(* (transform_runtime/api.py) over the PostgreSQL ledger, the durable      *)
(* queue with fenced leases (durable_queue.py), and the workers that run   *)
(* one dbt batch at a time on a Nessie branch of the run                   *)
(* (job_runner/transform_worker.py).                                       *)
(*                                                                         *)
(* Each database transaction, each Nessie call and each stage of the child *)
(* is a step; API handlers and workers interleave and may die between two  *)
(* of them.  Execution is enabled (LAKEHOUSE_TRANSFORM_EXECUTION_ENABLED). *)
(*                                                                         *)
(* Abstracted: there is one caller, whose idempotency keys name runs and   *)
(* batch executions and always mean the same run and batch; a lease is     *)
(* live or expired; events, attempts and timestamps are left out, and so   *)
(* is the status TESTING, which nothing sets.                              *)
(***************************************************************************)
EXTENDS Integers, FiniteSets

CONSTANTS
  Runs,         \* idempotency keys of runs: one row of transform_runs each
  Batches,      \* EXECUTION_BATCHES
  Prerequisite, \* prerequisite_batches of each batch
  Keys,         \* idempotency keys of submissions: one batch_executions row
  KeyRun,       \* the run a key submits to
  KeyBatch,     \* the batch it submits
  Workers,
  MaxCrashes,   \* bound: deaths of a worker or of an API handler
  NoKey, NoWorker

ASSUME ControlAssumption ==
  /\ KeyRun \in [Keys -> Runs]
  /\ KeyBatch \in [Keys -> Batches]
  /\ Prerequisite \in [Batches -> SUBSET Batches]
  /\ MaxCrashes \in Nat
  /\ {"free", "insert"} \cap Keys = {}
  /\ NoKey \notin Keys
  /\ NoWorker \notin Workers

Failures == {"FAILED", "CANCELLED", "ORPHANED"}
Terminal == {"SUCCEEDED"} \cup Failures

VARIABLES
  run,        \* status of each run; "NONE" before it is inserted
  creating,   \* runs whose create_run has done its SELECTs
  status,     \* status of each batch execution
  holder,     \* its lease_owner
  lease,      \* its lease_expires_at: "none", "live" or "expired"
  cancelling, \* executions with cancel_requested set
  handler,    \* submit_batch under way: "free", "insert", or the row to queue
  branch,     \* the Nessie branch of each run: "absent", "base" or "moved"
  wpc,        \* what each worker does next
  work,       \* the execution each worker holds (with its lease token)
  result,     \* the ProcessResult.status it will report
  built,      \* ghost: executions whose child exited with 0
  clashed,    \* ghost: executions given up on a branch that was there
  crashes

ledger == <<run, creating, handler>>
queue  == <<status, holder, lease, cancelling>>
worker == <<wpc, work, result>>
ghosts == <<built, clashed>>
vars   == <<ledger, queue, worker, branch, ghosts, crashes>>

Stages == {"down", "idle", "claim", "branch", "create", "record", "namespaces",
           "child", "report", "lost", "dying"}

(* Stages at which a worker holds no execution. *)
Free == {"down", "idle", "claim"}

Active(k)  == status[k] \notin Terminal \cup {"NONE"}
Sibling(k) == {j \in Keys : KeyRun[j] = KeyRun[k] /\ KeyBatch[j] = KeyBatch[k]}

Init ==
  /\ run = [r \in Runs |-> "NONE"]
  /\ creating = {}
  /\ status = [k \in Keys |-> "NONE"]
  /\ holder = [k \in Keys |-> NoWorker]
  /\ lease = [k \in Keys |-> "none"]
  /\ cancelling = {}
  /\ handler = [k \in Keys |-> "free"]
  /\ branch = [r \in Runs |-> "absent"]
  /\ wpc = [w \in Workers |-> "down"]
  /\ work = [w \in Workers |-> NoKey]
  /\ result = [w \in Workers |-> "NONE"]
  /\ built = {}
  /\ clashed = {}
  /\ crashes = 0

-----------------------------------------------------------------------------
(* The ledger.                                                             *)

ActiveRuns == {r \in Runs : run[r] \notin Terminal \cup {"NONE"}}

(* create_run: the SELECTs; an existing row is returned as it is. *)
CreateRun(r) ==
  /\ run[r] = "NONE"
  /\ ActiveRuns = {}
  /\ creating' = creating \cup {r}
  /\ UNCHANGED <<run, handler, queue, worker, branch, ghosts, crashes>>

(* Mutant: the index one_active_transform_run is missing. *)
InsertUnchecked(r) ==
  /\ r \in creating
  /\ creating' = creating \ {r}
  /\ run' = [run EXCEPT ![r] = "ADMITTED"]
  /\ UNCHANGED <<handler, queue, worker, branch, ghosts, crashes>>

(* create_run: the INSERT, which the index one_active_transform_run        *)
(* rejects when another run was inserted after the SELECTs.                *)
InsertRun(r) ==
  /\ r \in creating
  /\ creating' = creating \ {r}
  /\ run' = IF ActiveRuns = {} THEN [run EXCEPT ![r] = "ADMITTED"] ELSE run
  /\ UNCHANGED <<handler, queue, worker, branch, ghosts, crashes>>

(* Mutant: a prerequisite built by another run counts. *)
MetInAnyRun(k) ==
  \A b \in Prerequisite[KeyBatch[k]] :
    \E j \in Keys : KeyBatch[j] = b /\ status[j] = "SUCCEEDED"

(* Every prerequisite is recorded as built and tested in the same run. *)
PrerequisitesMet(k) ==
  \A b \in Prerequisite[KeyBatch[k]] :
    \E j \in Keys : /\ KeyRun[j] = KeyRun[k]
                    /\ KeyBatch[j] = b
                    /\ status[j] = "SUCCEEDED"

(* submit_batch: the SELECTs.  The row of the same key, or the active one  *)
(* of the same batch, goes on to be queued; the run's status is not read.  *)
SubmitBatch(k) ==
  /\ handler[k] = "free"
  /\ run[KeyRun[k]] # "NONE"
  /\ \/ /\ status[k] # "NONE"
        /\ handler' = [handler EXCEPT ![k] = k]
     \/ /\ status[k] = "NONE"
        /\ \E j \in Sibling(k) :
             Active(j) /\ handler' = [handler EXCEPT ![k] = j]
     \/ /\ status[k] = "NONE"
        /\ \A j \in Sibling(k) : ~Active(j)
        /\ PrerequisitesMet(k)
        /\ handler' = [handler EXCEPT ![k] = "insert"]
  /\ UNCHANGED <<run, creating, queue, worker, branch, ghosts, crashes>>

(* Mutant: the index one_active_batch is missing. *)
InsertTwice(k) ==
  /\ handler[k] = "insert"
  /\ status' = [status EXCEPT ![k] = "ADMITTED"]
  /\ handler' = [handler EXCEPT ![k] = k]
  /\ UNCHANGED <<run, creating, holder, lease, cancelling, worker, branch,
                 ghosts, crashes>>

(* submit_batch: the INSERT, under the index one_active_batch. *)
InsertBatch(k) ==
  /\ handler[k] = "insert"
  /\ IF \A j \in Sibling(k) : ~Active(j)
     THEN /\ status' = [status EXCEPT ![k] = "ADMITTED"]
          /\ handler' = [handler EXCEPT ![k] = k]
     ELSE /\ handler' = [handler EXCEPT ![k] = "free"]
          /\ status' = status
  /\ UNCHANGED <<run, creating, holder, lease, cancelling, worker, branch,
                 ghosts, crashes>>

(* api.submit_batch: transition(QUEUED), legal only from ADMITTED; any     *)
(* other status is answered with 503.                                      *)
QueueBatch(k) ==
  /\ handler[k] \in Keys
  /\ handler' = [handler EXCEPT ![k] = "free"]
  /\ status' = IF status[handler[k]] = "ADMITTED"
               THEN [status EXCEPT ![handler[k]] = "QUEUED"]
               ELSE status
  /\ UNCHANGED <<run, creating, holder, lease, cancelling, worker, branch,
                 ghosts, crashes>>

HandlerDies(k) ==
  /\ handler[k] # "free"
  /\ crashes < MaxCrashes
  /\ crashes' = crashes + 1
  /\ handler' = [handler EXCEPT ![k] = "free"]
  /\ UNCHANGED <<run, creating, queue, worker, branch, ghosts>>

-----------------------------------------------------------------------------
(* The durable queue: the updates its transactions make.                   *)

(* A failed batch ends its run, unless the run has ended. *)
TerminalizeParentFailure(K, s) ==
  run' = [r \in Runs |->
            IF r \in ActiveRuns /\ \E k \in K : KeyRun[k] = r THEN s ELSE run[r]]

(* Mutants: the parent is left active, or the lease is left set. *)
CloseAlone(K, s) ==
  /\ status' = [k \in Keys |-> IF k \in K THEN s ELSE status[k]]
  /\ holder' = [k \in Keys |-> IF k \in K THEN NoWorker ELSE holder[k]]
  /\ lease' = [k \in Keys |-> IF k \in K THEN "none" ELSE lease[k]]
  /\ run' = run

CloseLeased(K, s) ==
  /\ status' = [k \in Keys |-> IF k \in K THEN s ELSE status[k]]
  /\ IF s \in Failures THEN TerminalizeParentFailure(K, s) ELSE run' = run
  /\ UNCHANGED <<holder, lease>>

(* The executions K get terminal status s and their leases are cleared. *)
Close(K, s) ==
  /\ status' = [k \in Keys |-> IF k \in K THEN s ELSE status[k]]
  /\ holder' = [k \in Keys |-> IF k \in K THEN NoWorker ELSE holder[k]]
  /\ lease' = [k \in Keys |-> IF k \in K THEN "none" ELSE lease[k]]
  /\ IF s \in Failures THEN TerminalizeParentFailure(K, s) ELSE run' = run

Owned(w) == status[work[w]] = "RUNNING" /\ holder[work[w]] = w

(* orphan_if_owned: does not ask whether the lease has expired. *)
OrphanIfOwned(w) ==
  Close(IF Owned(w) THEN {work[w]} ELSE {}, "ORPHANED")

(* Mutant: a terminal execution can be cancelled. *)
CancelTerminal(k) ==
  /\ status[k] \notin {"NONE", "RUNNING"}
  /\ Close({k}, "CANCELLED")
  /\ cancelling' = cancelling \cup {k}
  /\ UNCHANGED <<creating, handler, worker, branch, ghosts, crashes>>

(* request_cancel: before the claim it is final, after it a request. *)
RequestCancel(k) ==
  /\ status[k] # "NONE"
  /\ \/ /\ status[k] \in {"ADMITTED", "QUEUED"}
        /\ Close({k}, "CANCELLED")
        /\ cancelling' = cancelling \cup {k}
     \/ /\ status[k] = "RUNNING"
        /\ cancelling' = cancelling \cup {k}
        /\ UNCHANGED <<status, holder, lease, run>>
  /\ UNCHANGED <<creating, handler, worker, branch, ghosts, crashes>>

(* Time passes without a heartbeat. *)
LeaseExpires(k) ==
  /\ lease[k] = "live"
  /\ lease' = [lease EXCEPT ![k] = "expired"]
  /\ UNCHANGED <<ledger, status, holder, cancelling, worker, branch, ghosts,
                 crashes>>

-----------------------------------------------------------------------------
(* run_once of worker w.                                                   *)

Goto(w, stage) ==
  /\ wpc' = [wpc EXCEPT ![w] = stage]
  /\ UNCHANGED <<work, result>>

(* run_once returns: the execution is forgotten. *)
Done(w, stage) ==
  /\ wpc' = [wpc EXCEPT ![w] = stage]
  /\ work' = [work EXCEPT ![w] = NoKey]
  /\ result' = [result EXCEPT ![w] = "NONE"]

Report(w, s) ==
  /\ wpc' = [wpc EXCEPT ![w] = "report"]
  /\ result' = [result EXCEPT ![w] = s]
  /\ UNCHANGED work

StartWorker(w) ==
  /\ wpc[w] = "down"
  /\ Goto(w, "idle")
  /\ UNCHANGED <<ledger, queue, branch, ghosts, crashes>>

Expired == {k \in Keys : status[k] = "RUNNING" /\ lease[k] = "expired"}

(* Mutants: what a worker left behind is queued again, or stays as it is. *)
Requeue(w) ==
  /\ wpc[w] = "idle"
  /\ status' = [k \in Keys |-> IF k \in Expired THEN "QUEUED" ELSE status[k]]
  /\ holder' = [k \in Keys |-> IF k \in Expired THEN NoWorker ELSE holder[k]]
  /\ lease' = [k \in Keys |-> IF k \in Expired THEN "none" ELSE lease[k]]
  /\ Goto(w, "claim")
  /\ UNCHANGED <<ledger, cancelling, branch, ghosts, crashes>>

NoReconciliation(w) ==
  /\ wpc[w] = "idle"
  /\ Goto(w, "claim")
  /\ UNCHANGED <<ledger, queue, branch, ghosts, crashes>>

(* reconcile_expired: what has outlived its lease is orphaned. *)
ReconcileExpired(w) ==
  /\ wpc[w] = "idle"
  /\ Close(Expired, "ORPHANED")
  /\ Goto(w, "claim")
  /\ UNCHANGED <<creating, handler, cancelling, branch, ghosts, crashes>>

Claim(w) ==
  /\ wpc[w] = "claim"
  /\ \E k \in Keys :
       /\ status[k] = "QUEUED"
       /\ k \notin cancelling
       /\ status' = [status EXCEPT ![k] = "RUNNING"]
       /\ holder' = [holder EXCEPT ![k] = w]
       /\ lease' = [lease EXCEPT ![k] = "live"]
       /\ work' = [work EXCEPT ![w] = k]
  /\ wpc' = [wpc EXCEPT ![w] = "branch"]
  /\ UNCHANGED <<ledger, cancelling, result, branch, ghosts, crashes>>

ClaimNothing(w) ==
  /\ wpc[w] = "claim"
  /\ \A k \in Keys : status[k] = "QUEUED" => k \in cancelling
  /\ Goto(w, "idle")
  /\ UNCHANGED <<ledger, queue, branch, ghosts, crashes>>

(* create_run_branch: the GET, which matches by name and not by hash. *)
FindBranch(w) ==
  /\ wpc[w] = "branch"
  /\ Goto(w, IF branch[KeyRun[work[w]]] = "absent" THEN "create" ELSE "record")
  /\ UNCHANGED <<ledger, queue, branch, ghosts, crashes>>

(* create_run_branch: the POST.  409 when the branch is there by now.      *)
CreateBranch(w) ==
  LET r == KeyRun[work[w]] IN
  /\ wpc[w] = "create"
  /\ IF branch[r] = "absent"
     THEN /\ branch' = [branch EXCEPT ![r] = "base"]
          /\ Goto(w, "record")
          /\ UNCHANGED <<run, status, holder, lease, ghosts>>
     ELSE /\ OrphanIfOwned(w)
          /\ clashed' = clashed \cup {work[w]}
          /\ Done(w, "idle")
          /\ UNCHANGED <<branch, built>>
  /\ UNCHANGED <<creating, handler, cancelling, crashes>>

(* A Nessie call fails, or its outcome is unknown: the POST of the branch, *)
(* or some of those of the namespaces, may have been applied.  Or          *)
(* build_transform_command rejects the batch.                              *)
PreparationFails(w) ==
  /\ wpc[w] \in {"branch", "create", "namespaces"}
  /\ OrphanIfOwned(w)
  /\ Done(w, "idle")
  /\ \/ branch' = branch
     \/ /\ wpc[w] = "create"
        /\ branch[KeyRun[work[w]]] = "absent"
        /\ branch' = [branch EXCEPT ![KeyRun[work[w]]] = "base"]
     \/ /\ wpc[w] = "namespaces"
        /\ branch' = [branch EXCEPT ![KeyRun[work[w]]] = "moved"]
  /\ UNCHANGED <<creating, handler, cancelling, ghosts, crashes>>

(* record_nessie_branch: the lease must be owned and live. *)
RecordBranch(w) ==
  /\ wpc[w] = "record"
  /\ IF Owned(w) /\ lease[work[w]] = "live"
     THEN Goto(w, "namespaces") /\ UNCHANGED <<run, status, holder, lease>>
     ELSE OrphanIfOwned(w) /\ Done(w, "idle")
  /\ UNCHANGED <<creating, handler, cancelling, branch, ghosts, crashes>>

(* ensure_namespaces commits to the branch; then Trino and the dbt child   *)
(* are started.                                                            *)
StartChild(w) ==
  /\ wpc[w] = "namespaces"
  /\ branch[KeyRun[work[w]]] # "absent"
  /\ branch' = [branch EXCEPT ![KeyRun[work[w]]] = "moved"]
  /\ Goto(w, "child")
  /\ UNCHANGED <<ledger, queue, ghosts, crashes>>

(* execute: the child ends before any poll of cancel() stops it. *)
ChildExits(w) ==
  /\ wpc[w] = "child"
  /\ \/ Report(w, "SUCCEEDED") /\ built' = built \cup {work[w]}
     \/ Report(w, "FAILED") /\ built' = built
  /\ UNCHANGED <<ledger, queue, branch, clashed, crashes>>

(* execute: TRANSFORM_BATCH_TIMEOUT_SECONDS is over. *)
ChildTimesOut(w) ==
  /\ wpc[w] = "child"
  /\ Report(w, "ORPHANED")
  /\ UNCHANGED <<ledger, queue, branch, ghosts, crashes>>

(* cancel() answers TRUE, for the operator or because heartbeat or         *)
(* cancel_requested found the lease lost; the child is killed.             *)
ChildCancelled(w) ==
  /\ wpc[w] = "child"
  /\ \/ Owned(w) /\ work[w] \in cancelling /\ Report(w, "CANCELLED")
     \/ ~(Owned(w) /\ lease[work[w]] = "live") /\ Goto(w, "lost")
  /\ UNCHANGED <<ledger, queue, branch, ghosts, crashes>>

(* An exception out of execute (Trino does not start, the ledger cannot be *)
(* reached from cancel()): orphan and raise; the child is not killed.      *)
ExecuteRaises(w) ==
  /\ wpc[w] = "child"
  /\ crashes < MaxCrashes
  /\ crashes' = crashes + 1
  /\ OrphanIfOwned(w)
  /\ Goto(w, "dying")
  /\ UNCHANGED <<creating, handler, cancelling, branch, ghosts>>

LeaseLost(w) ==
  /\ wpc[w] = "lost"
  /\ OrphanIfOwned(w)
  /\ Done(w, "idle")
  /\ UNCHANGED <<creating, handler, cancelling, branch, ghosts, crashes>>

(* finish: fenced by owner, token, status and lease; LeaseLost is not      *)
(* caught and ends the process.                                            *)
Finish(w) ==
  /\ wpc[w] = "report"
  /\ IF Owned(w) /\ lease[work[w]] = "live"
     THEN Close({work[w]}, result[w]) /\ Done(w, "idle")
     ELSE UNCHANGED <<run, status, holder, lease>> /\ Done(w, "down")
  /\ UNCHANGED <<creating, handler, cancelling, branch, ghosts, crashes>>

WorkerDies(w) ==
  /\ \/ wpc[w] = "dying" /\ UNCHANGED crashes
     \/ /\ wpc[w] \notin {"down", "dying"}
        /\ crashes < MaxCrashes
        /\ crashes' = crashes + 1
  /\ Done(w, "down")
  /\ UNCHANGED <<ledger, queue, branch, ghosts>>

RunOnce(w) ==
  \/ ReconcileExpired(w) \/ Claim(w) \/ ClaimNothing(w)
  \/ FindBranch(w) \/ CreateBranch(w) \/ PreparationFails(w)
  \/ RecordBranch(w) \/ StartChild(w)
  \/ ChildExits(w) \/ ChildTimesOut(w) \/ ChildCancelled(w) \/ ExecuteRaises(w)
  \/ LeaseLost(w) \/ Finish(w)

Next ==
  \/ \E r \in Runs : CreateRun(r) \/ InsertRun(r)
  \/ \E k \in Keys : \/ SubmitBatch(k) \/ InsertBatch(k) \/ QueueBatch(k)
                     \/ HandlerDies(k) \/ RequestCancel(k) \/ LeaseExpires(k)
  \/ \E w \in Workers : StartWorker(w) \/ RunOnce(w) \/ WorkerDies(w)

Spec == Init /\ [][Next]_vars

(* Workers are restarted (restart: unless-stopped) and keep polling; what  *)
(* no live worker heartbeats expires; a handler that is not killed ends.   *)
Abandoned(k) == \A w \in Workers : work[w] # k

Fairness ==
  /\ \A w \in Workers : /\ WF_vars(StartWorker(w))
                        /\ WF_vars(RunOnce(w))
                        /\ WF_vars(wpc[w] = "dying" /\ WorkerDies(w))
  /\ \A k \in Keys : /\ WF_vars(Abandoned(k) /\ LeaseExpires(k))
                     /\ WF_vars(InsertBatch(k) \/ QueueBatch(k))

FairSpec == Spec /\ Fairness

-----------------------------------------------------------------------------
TypeOK ==
  /\ run \in [Runs -> {"NONE", "ADMITTED"} \cup Failures]
  /\ creating \in SUBSET Runs
  /\ status \in [Keys -> {"NONE", "ADMITTED", "QUEUED", "RUNNING"} \cup Terminal]
  /\ holder \in [Keys -> Workers \cup {NoWorker}]
  /\ lease \in [Keys -> {"none", "live", "expired"}]
  /\ cancelling \in SUBSET Keys
  /\ handler \in [Keys -> Keys \cup {"free", "insert"}]
  /\ branch \in [Runs -> {"absent", "base", "moved"}]
  /\ wpc \in [Workers -> Stages]
  /\ work \in [Workers -> Keys \cup {NoKey}]
  /\ result \in [Workers -> Terminal \cup {"NONE"}]
  /\ built \in SUBSET Keys
  /\ clashed \in SUBSET Keys
  /\ crashes \in 0 .. MaxCrashes
  /\ \A w \in Workers : work[w] = NoKey <=> wpc[w] \in Free
  /\ \A k \in Keys : lease[k] = "none" <=> status[k] # "RUNNING"

(* Admission: never two active runs, although two create_run handlers may  *)
(* both find none.                                                         *)
OneActiveRun == \A r, s \in ActiveRuns : r = s

(* submit_batch never races two executions of a batch of a run into        *)
(* activity, whatever keys they were submitted under.                      *)
OneActiveExecution ==
  \A k \in Keys : Active(k) => \A j \in Sibling(k) : Active(j) => j = k

(* Whatever was admitted, queued or run had all its prerequisites really   *)
(* built, by a child that exited with 0, for the same run.                 *)
PrerequisitesBuilt ==
  \A k \in Keys : status[k] # "NONE" =>
    \A b \in Prerequisite[KeyBatch[k]] :
      \E j \in built : KeyRun[j] = KeyRun[k] /\ KeyBatch[j] = b

(* A failed, cancelled or orphaned batch never leaves its run active: it   *)
(* would block every later run.                                            *)
FailureEndsRun ==
  \A k \in Keys : status[k] \in Failures => KeyRun[k] \notin ActiveRuns

(* A batch is recorded as SUCCEEDED only if its own child exited with 0,   *)
(* whoever lost, took over or cancelled the lease in the meantime.         *)
SuccessWasBuilt == \A k \in Keys : status[k] = "SUCCEEDED" => k \in built

Writers(k) == {w \in Workers : work[w] = k /\ wpc[w] \in {"child", "dying"}}

(* "ORPHANED is never requeued": with one key per batch of a run, never do *)
(* two children build the same batch, not even when one of them has lost   *)
(* its lease and does not know.                                            *)
OneBuilder ==
  \A j, k \in Keys : \A v \in Writers(j), w \in Writers(k) :
    Sibling(j) = Sibling(k) => v = w

(* The record of an execution never changes once it is terminal, and never *)
(* goes back in front of the claim: late workers, retried submissions and  *)
(* cancellations cannot revive it.                                         *)
NeverRevived ==
  [][\A k \in Keys : /\ status[k] \in Terminal => status'[k] = status[k]
                     /\ status[k] = "RUNNING" =>
                          status'[k] \in {"RUNNING"} \cup Terminal]_vars

(* What is queued is finished, and what a dead worker has left behind is   *)
(* orphaned: no execution is RUNNING forever.                              *)
EveryBatchEnds ==
  \A k \in Keys : status[k] \in {"QUEUED", "RUNNING"} ~> status[k] \in Terminal

(* ensure_nessie_branch: branches "are both created idempotently here": a  *)
(* worker does not give up a batch because its branch is already there.    *)
BranchCreationIdempotent == clashed = {}

=============================================================================
