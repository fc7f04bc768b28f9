-------------------------- MODULE ProtectedBootstrap --------------------------
(***************************************************************************)
(* One governed protected bootstrap: the row of                            *)
(* protected_bootstrap_executions, the workers that claim it               *)
(* (run_once_protected_bootstrap) and the child that builds the token link *)
(* on the branch of the run and publishes it with a RENAME                 *)
(* (services/shared/materialise_token_link.py).                            *)
(*                                                                         *)
(* A run has at most one such row, and its tables are on its own Nessie    *)
(* branch, so one row is modelled.  Every statement of the child may fail  *)
(* and leave it open whether it was applied.  The prerequisite batch has   *)
(* succeeded (TransformControl).                                           *)
(***************************************************************************)
EXTENDS Integers

CONSTANTS
  Workers,
  MaxReconciles,    \* bound: reconciliations an operator asks for
  MaxCrashes,       \* bound: deaths of a worker
  ReconcilerRuns,   \* is reconcile_expired_protected_bootstraps ever called?
                    \* Nothing in the repository calls it.
  NoWorker

ASSUME BootstrapAssumption ==
  /\ MaxReconciles \in Nat
  /\ MaxCrashes \in Nat
  /\ ReconcilerRuns \in BOOLEAN
  /\ NoWorker \notin Workers

Terminal == {"SUCCEEDED", "FAILED", "CANCELLED", "ORPHANED"}

VARIABLES
  status,      \* of the row; "NONE" before it is inserted
  publication, \* its publication_state
  cancelling,  \* its cancel_requested
  holder,      \* its lease_owner
  lease,       \* its lease_expires_at: "none", "live" or "expired"
  token,       \* its lease_token: the number of the claim
  reconciles,  \* reconciliations asked for
  wpc,         \* what each worker does next
  claim,       \* the lease_token it claimed with, 0 without one
  child,       \* the statement its child executes next
  outcome,     \* the status and publication_state it will report
  staging,     \* the staging table of the execution: "absent", "empty", "full"
  final,       \* the token link: "absent", "ours" or "foreign"
  creates,     \* ghost: children started in the mode create
  attempted,   \* ghost: a RENAME was issued
  crashes

row    == <<status, publication, cancelling, holder, lease, token>>
worker == <<wpc, claim, child, outcome>>
tables == <<staging, final>>
ghosts == <<creates, attempted>>
vars   == <<row, reconciles, worker, tables, ghosts, crashes>>

NoOutcome == <<"NONE", "NONE">>

Statements == {"check", "create", "fill", "recheck", "rename", "settle", "verify",
               "cleanup", "reconcile"}

Init ==
  /\ status = "NONE"
  /\ publication = "NOT_STARTED"
  /\ cancelling = FALSE
  /\ holder = NoWorker
  /\ lease = "none"
  /\ token = 0
  /\ reconciles = 0
  /\ wpc = [w \in Workers |-> "down"]
  /\ claim = [w \in Workers |-> 0]
  /\ child = [w \in Workers |-> "none"]
  /\ outcome = [w \in Workers |-> NoOutcome]
  /\ staging = "absent"
  /\ final = "absent"
  /\ creates = 0
  /\ attempted = FALSE
  /\ crashes = 0

-----------------------------------------------------------------------------
(* The API.                                                                *)

Submit ==
  /\ status = "NONE"
  /\ status' = "ADMITTED"
  /\ UNCHANGED <<publication, cancelling, holder, lease, token, reconciles,
                 worker, tables, ghosts, crashes>>

(* queue_protected_bootstrap, by the same request or by a retry of it. *)
Queue ==
  /\ status = "ADMITTED"
  /\ status' = "QUEUED"
  /\ UNCHANGED <<publication, cancelling, holder, lease, token, reconciles,
                 worker, tables, ghosts, crashes>>

RequestCancel ==
  /\ status \notin Terminal \cup {"NONE"}
  /\ cancelling' = TRUE
  /\ IF status \in {"ADMITTED", "QUEUED"}
     THEN status' = "CANCELLED" /\ publication' = "NOT_STARTED"
     ELSE status' = status /\ publication' = "RECONCILIATION_REQUIRED"
  /\ UNCHANGED <<holder, lease, token, reconciles, worker, tables, ghosts,
                 crashes>>

Reconcilable ==
  /\ status \in {"ORPHANED", "FAILED"}
  /\ publication = "RECONCILIATION_REQUIRED"
  /\ reconciles < MaxReconciles

(* Mutant: the bootstrap is queued to be run again. *)
RetryBlindly ==
  /\ Reconcilable
  /\ status' = "QUEUED"
  /\ cancelling' = FALSE
  /\ reconciles' = reconciles + 1
  /\ UNCHANGED <<publication, holder, lease, token, worker, tables, ghosts,
                 crashes>>

RequestReconcile ==
  /\ Reconcilable
  /\ status' = "RECONCILE_QUEUED"
  /\ cancelling' = FALSE
  /\ reconciles' = reconciles + 1
  /\ UNCHANGED <<publication, holder, lease, token, worker, tables, ghosts,
                 crashes>>

-----------------------------------------------------------------------------
(* Leases.                                                                 *)

(* Time passes without a heartbeat. *)
LeaseExpires ==
  /\ lease = "live"
  /\ lease' = "expired"
  /\ UNCHANGED <<status, publication, cancelling, holder, token, reconciles,
                 worker, tables, ghosts, crashes>>

(* Mutant: the lease is left set. *)
CloseLeased(s, p) ==
  /\ status' = s
  /\ publication' = p
  /\ UNCHANGED <<holder, lease, cancelling, token>>

(* The row gets its terminal status and loses its lease. *)
CloseRow(s, p) ==
  /\ status' = s
  /\ publication' = p
  /\ holder' = NoWorker
  /\ lease' = "none"
  /\ UNCHANGED <<cancelling, token>>

ReconcileExpired ==
  /\ ReconcilerRuns
  /\ status = "RUNNING"
  /\ lease = "expired"
  /\ CloseRow("ORPHANED", "RECONCILIATION_REQUIRED")
  /\ UNCHANGED <<reconciles, worker, tables, ghosts, crashes>>

-----------------------------------------------------------------------------
(* run_once_protected_bootstrap of worker w.                               *)

Owned(w) == status = "RUNNING" /\ holder = w /\ token = claim[w]

StartWorker(w) ==
  /\ wpc[w] = "down"
  /\ wpc' = [wpc EXCEPT ![w] = "idle"]
  /\ UNCHANGED <<row, reconciles, claim, child, outcome, tables, ghosts, crashes>>

(* A first claim creates, the claim of a reconciliation only looks. *)
Claim(w) ==
  /\ wpc[w] = "idle"
  /\ status \in {"QUEUED", "RECONCILE_QUEUED"}
  /\ ~cancelling
  /\ status' = "RUNNING"
  /\ publication' = IF status = "QUEUED" THEN "BUILDING_STAGING" ELSE "RECONCILING"
  /\ holder' = w
  /\ lease' = "live"
  /\ token' = token + 1
  /\ wpc' = [wpc EXCEPT ![w] = IF status = "QUEUED" THEN "create" ELSE "reconcile"]
  /\ claim' = [claim EXCEPT ![w] = token + 1]
  /\ UNCHANGED <<cancelling, reconciles, child, outcome, tables, ghosts, crashes>>

(* What the worker reports; whatever child there is has ended. *)
Report(w, stage, s, p) ==
  /\ wpc' = [wpc EXCEPT ![w] = stage]
  /\ outcome' = [outcome EXCEPT ![w] = <<s, p>>]
  /\ child' = [child EXCEPT ![w] = "none"]
  /\ UNCHANGED <<row, reconciles, claim, tables, attempted>>

(* build_protected_bootstrap_command raises ValueError. *)
RejectCommand(w) ==
  /\ wpc[w] \in {"create", "reconcile"}
  /\ Report(w, "reportQuietly", "FAILED", "NOT_STARTED")
  /\ UNCHANGED <<creates, crashes>>

StartChild(w) ==
  /\ wpc[w] \in {"create", "reconcile"}
  /\ wpc' = [wpc EXCEPT ![w] = "child"]
  /\ child' = [child EXCEPT ![w] = IF wpc[w] = "create" THEN "check"
                                                        ELSE "reconcile"]
  /\ creates' = IF wpc[w] = "create" THEN creates + 1 ELSE creates
  /\ UNCHANGED <<row, reconciles, claim, outcome, tables, attempted, crashes>>

(* execute raises: the private Trino does not start, or the ledger cannot  *)
(* be reached from cancel(); Trino is stopped, and the child with it.      *)
ExecuteRaises(w) ==
  /\ wpc[w] \in {"create", "reconcile", "child"}
  /\ crashes < MaxCrashes
  /\ crashes' = crashes + 1
  /\ Report(w, "raise", "ORPHANED", "RECONCILIATION_REQUIRED")
  /\ UNCHANGED creates

ChildExits(w) ==
  /\ wpc[w] = "child"
  /\ \/ child[w] = "ok" /\ Report(w, "report", "SUCCEEDED", "PUBLISHED")
     \/ child[w] = "failed" /\ Report(w, "report", "FAILED", "NOT_STARTED")
  /\ UNCHANGED <<creates, crashes>>

(* TRANSFORM_BATCH_TIMEOUT_SECONDS: the child is killed. *)
TimesOut(w) ==
  /\ wpc[w] = "child"
  /\ child[w] \in Statements
  /\ Report(w, "report", "ORPHANED", "RECONCILIATION_REQUIRED")
  /\ UNCHANGED <<creates, crashes>>

(* cancel(): the operator asks for it, or the lease is lost or has expired *)
(* at a heartbeat; the child is killed.                                    *)
Cancelled(w) ==
  /\ wpc[w] = "child"
  /\ child[w] \in Statements
  /\ \/ /\ Owned(w) /\ cancelling
        /\ Report(w, "report", "CANCELLED", "NOT_STARTED")
     \/ /\ ~(Owned(w) /\ lease = "live")
        /\ Report(w, "reportQuietly", "ORPHANED", "RECONCILIATION_REQUIRED")
  /\ UNCHANGED <<creates, crashes>>

Forget(w, stage) ==
  /\ wpc' = [wpc EXCEPT ![w] = stage]
  /\ claim' = [claim EXCEPT ![w] = 0]
  /\ child' = [child EXCEPT ![w] = "none"]
  /\ outcome' = [outcome EXCEPT ![w] = NoOutcome]

(* Mutant: the lease is not looked at. *)
FinishUnfenced(w) ==
  /\ wpc[w] \in {"report", "reportQuietly", "raise"}
  /\ CloseRow(outcome[w][1], outcome[w][2])
  /\ Forget(w, IF wpc[w] = "raise" THEN "down" ELSE "idle")
  /\ UNCHANGED <<reconciles, tables, ghosts, crashes>>

(* finish_protected_bootstrap: fenced by owner, token and status, not by   *)
(* the expiry.  LeaseLost ends the process unless it is swallowed.         *)
Finish(w) ==
  /\ wpc[w] \in {"report", "reportQuietly", "raise"}
  /\ IF Owned(w) THEN CloseRow(outcome[w][1], outcome[w][2]) ELSE UNCHANGED row
  /\ Forget(w, IF wpc[w] = "raise" \/ (wpc[w] = "report" /\ ~Owned(w))
               THEN "down" ELSE "idle")
  /\ UNCHANGED <<reconciles, tables, ghosts, crashes>>

(* The container dies, and the child with it. *)
WorkerDies(w) ==
  /\ wpc[w] # "down"
  /\ crashes < MaxCrashes
  /\ crashes' = crashes + 1
  /\ Forget(w, "down")
  /\ UNCHANGED <<row, reconciles, tables, ghosts>>

-----------------------------------------------------------------------------
(* main of the child of worker w, one statement at a time.                 *)

Executes(w, statement) == wpc[w] = "child" /\ child[w] = statement

Continue(w, statement) ==
  /\ child' = [child EXCEPT ![w] = statement]
  /\ UNCHANGED <<row, reconciles, wpc, claim, outcome, creates, crashes>>

(* Neither table is there, and there are beneficiaries to link. *)
Check(w) ==
  /\ Executes(w, "check")
  /\ \/ final = "absent" /\ staging = "absent" /\ Continue(w, "create")
     \/ Continue(w, "failed")
  /\ UNCHANGED <<tables, attempted>>

(* CREATE TABLE: staging_created is set only when it returns. *)
CreateStaging(w) ==
  /\ Executes(w, "create")
  /\ \/ staging = "absent" /\ staging' = "empty" /\ Continue(w, "fill")
     \/ staging = "absent" /\ staging' = "empty" /\ Continue(w, "failed")
     \/ staging' = staging /\ Continue(w, "failed")
  /\ UNCHANGED <<final, attempted>>

(* The Parquet file, add_files and validate_table. *)
Fill(w) ==
  /\ Executes(w, "fill")
  /\ \/ staging # "absent" /\ staging' = "full" /\ Continue(w, "recheck")
     \/ staging' \in {staging, "full"} /\ Continue(w, "cleanup")
  /\ UNCHANGED <<final, attempted>>

Recheck(w) ==
  /\ Executes(w, "recheck")
  /\ \/ final = "absent" /\ Continue(w, "rename")
     \/ Continue(w, "cleanup")
  /\ UNCHANGED <<tables, attempted>>

(* Mutant: the target is replaced. *)
Replace(w) ==
  /\ Executes(w, "rename")
  /\ attempted' = TRUE
  /\ \/ final' = "ours" /\ staging' = "absent" /\ Continue(w, "verify")
     \/ UNCHANGED tables /\ Continue(w, "settle")

(* ALTER TABLE ... RENAME, which Trino refuses when the target is there.   *)
(* After an error it may have been applied.                                *)
Rename(w) ==
  /\ Executes(w, "rename")
  /\ attempted' = TRUE
  /\ \/ /\ final = "absent" /\ final' = "ours" /\ staging' = "absent"
        /\ (Continue(w, "verify") \/ Continue(w, "settle"))
     \/ UNCHANGED tables /\ Continue(w, "settle")

(* Mutant: the provenance is not looked at. *)
PublishedByAnybody == final # "absent" /\ staging = "absent"

(* reconcile_publication: our table, by the execution in its comment and   *)
(* its location, and no staging table.                                     *)
Published == final = "ours" /\ staging = "absent"

(* After an error of the RENAME: reconcile_publication. *)
Settle(w) ==
  /\ Executes(w, "settle")
  /\ \/ Published /\ Continue(w, "verify")
     \/ Continue(w, "failed")
  /\ UNCHANGED <<tables, attempted>>

(* validate_table and the provenance of what was published. *)
Verify(w) ==
  /\ Executes(w, "verify")
  /\ \/ final = "ours" /\ Continue(w, "ok")
     \/ Continue(w, "failed")
  /\ UNCHANGED <<tables, attempted>>

(* The handler of exceptions before publication_attempted. *)
Cleanup(w) ==
  /\ Executes(w, "cleanup")
  /\ staging' \in {staging, "absent"}
  /\ Continue(w, "failed")
  /\ UNCHANGED <<final, attempted>>

(* PROTECTED_BOOTSTRAP_MODE=reconcile. *)
Reconcile(w) ==
  /\ Executes(w, "reconcile")
  /\ \/ Published /\ Continue(w, "ok")
     \/ Continue(w, "failed")
  /\ UNCHANGED <<tables, attempted>>

(* Somebody else creates the target on the branch. *)
ForeignTable ==
  /\ final = "absent"
  /\ final' = "foreign"
  /\ UNCHANGED <<row, reconciles, worker, staging, ghosts, crashes>>

Child(w) ==
  \/ Check(w) \/ CreateStaging(w) \/ Fill(w) \/ Recheck(w) \/ Rename(w)
  \/ Settle(w) \/ Verify(w) \/ Cleanup(w) \/ Reconcile(w)

RunOnce(w) ==
  \/ Claim(w) \/ RejectCommand(w) \/ StartChild(w) \/ ExecuteRaises(w)
  \/ ChildExits(w) \/ TimesOut(w) \/ Cancelled(w) \/ Finish(w)

Next ==
  \/ Submit \/ Queue \/ RequestCancel \/ RequestReconcile
  \/ LeaseExpires \/ ReconcileExpired \/ ForeignTable
  \/ \E w \in Workers : \/ StartWorker(w) \/ RunOnce(w) \/ WorkerDies(w)
                        \/ Child(w)

Spec == Init /\ [][Next]_vars

(* Workers are restarted and run on; so do their children. *)
Fairness ==
  \A w \in Workers : /\ WF_vars(StartWorker(w))
                     /\ WF_vars(RunOnce(w))
                     /\ WF_vars(Child(w))

FairSpec == Spec /\ Fairness

-----------------------------------------------------------------------------
TypeOK ==
  /\ status \in {"NONE", "ADMITTED", "QUEUED", "RECONCILE_QUEUED", "RUNNING"}
                  \cup Terminal
  /\ publication \in {"NOT_STARTED", "BUILDING_STAGING", "RECONCILING",
                      "RECONCILIATION_REQUIRED", "PUBLISHED"}
  /\ cancelling \in BOOLEAN
  /\ holder \in Workers \cup {NoWorker}
  /\ lease \in {"none", "live", "expired"}
  /\ token \in Nat
  /\ reconciles \in 0 .. MaxReconciles
  /\ wpc \in [Workers -> {"down", "idle", "create", "reconcile", "child",
                          "report", "reportQuietly", "raise"}]
  /\ claim \in [Workers -> Nat]
  /\ child \in [Workers -> Statements \cup {"none", "ok", "failed"}]
  /\ outcome \in [Workers -> (Terminal \X {"NOT_STARTED", "PUBLISHED",
                                           "RECONCILIATION_REQUIRED"})
                               \cup {NoOutcome}]
  /\ staging \in {"absent", "empty", "full"}
  /\ final \in {"absent", "ours", "foreign"}
  /\ creates \in Nat
  /\ attempted \in BOOLEAN
  /\ crashes \in 0 .. MaxCrashes
  /\ lease = "none" <=> status # "RUNNING"

(* SUCCEEDED means that the token link this execution built is the one in  *)
(* the catalog, also when it was reconciled by another worker and while    *)
(* somebody else creates the table.                                        *)
PublishedIsOurs ==
  status = "SUCCEEDED" => final = "ours" /\ publication = "PUBLISHED"

(* "must be reconciled, never retried": the child is started at most once  *)
(* to create, however often the bootstrap is orphaned and reconciled.      *)
CreatedOnce == creates <= 1

(* "refusing replacement": once there is a token link it stays. *)
NeverReplaced == [][final # "absent" => final' = final]_vars

(* After a RENAME was issued the staging table is what a reconciliation    *)
(* has to go by: it goes away by the RENAME itself and never by a clean-up. *)
EvidenceKept ==
  [][attempted /\ staging # "absent" =>
       staging' # "absent" \/ (final = "absent" /\ final' = "ours")]_vars

Settled ==
  \/ status \in {"SUCCEEDED", "CANCELLED"}
  \/ status = "FAILED" /\ publication = "NOT_STARTED"

(* What is SUCCEEDED, CANCELLED or FAILED with nothing to reconcile stays  *)
(* so: no worker that has lost its lease, and no reconciliation, writes    *)
(* over it.                                                                *)
SettledForever == [][Settled => UNCHANGED <<status, publication>>]_vars

(* run_once_protected_bootstrap: "A claimed row always reaches a terminal  *)
(* status".                                                                *)
ClaimedEnds == status = "RUNNING" ~> status \in Terminal

=============================================================================
