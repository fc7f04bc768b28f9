----------------------- MODULE ProtectedBootstrapProofs -----------------------
(***************************************************************************)
(* The invariants of a protected bootstrap, for any number of workers,     *)
(* reconciliations and deaths, and whether or not expired leases are       *)
(* reconciled.                                                             *)
(***************************************************************************)
EXTENDS ProtectedBootstrap, TLAPS

Building == {"check", "create", "fill", "recheck", "rename", "cleanup"}

(* Worker w has a create-mode claim, and no RENAME was issued under it. *)
Creating(w) ==
  wpc[w] = "create" \/ (wpc[w] = "child" /\ child[w] \in Building)

(* There is one create-mode claim, and it comes before any RENAME. *)
OneCreation ==
  /\ status \in {"NONE", "ADMITTED", "QUEUED"} =>
       /\ creates = 0
       /\ ~attempted
       /\ \A w \in Workers : ~Creating(w)
  /\ \A w \in Workers : wpc[w] = "create" => creates = 0
  /\ \A w \in Workers : Creating(w) => ~attempted
  /\ \A v, w \in Workers : Creating(v) /\ Creating(w) => v = w
  /\ creates <= 1

(* A child exits with 0 only over our table, and SUCCEEDED is reported     *)
(* only of such a child; at the other stages there is nothing to report.   *)
Witnessed ==
  \A w \in Workers :
    /\ child[w] = "ok" => final = "ours"
    /\ outcome[w][1] = "SUCCEEDED" =>
         outcome[w] = <<"SUCCEEDED", "PUBLISHED">> /\ final = "ours"
    /\ wpc[w] \in {"report", "reportQuietly", "raise"} => outcome[w] # NoOutcome

BootstrapInv == TypeOK /\ OneCreation /\ Witnessed /\ PublishedIsOurs

(* The empty table of bootstraps satisfies the invariant. *)
LEMMA BootstrapInit == Init => BootstrapInv
<1> SUFFICES ASSUME Init PROVE BootstrapInv
  OBVIOUS
<1> USE BootstrapAssumption DEF Init
<1>1. cancelling \in BOOLEAN /\ attempted \in BOOLEAN /\ ~attempted
  BY Zenon
<1>2. TypeOK
  BY <1>1 DEF TypeOK, NoOutcome, Terminal, Statements
<1>3. OneCreation
  BY <1>1 DEF OneCreation, Creating
<1>4. Witnessed /\ PublishedIsOurs
  BY DEF Witnessed, PublishedIsOurs, NoOutcome
<1>5. QED
  BY <1>2, <1>3, <1>4 DEF BootstrapInv

-----------------------------------------------------------------------------
(* Type correctness.                                                       *)

(* Every step of API, worker and child keeps the types. *)
LEMMA TypeNext == BootstrapInv /\ [Next]_vars => TypeOK'
<1> SUFFICES ASSUME BootstrapInv, [Next]_vars PROVE TypeOK'
  OBVIOUS
<1> USE BootstrapAssumption DEF BootstrapInv
<1>1. CASE UNCHANGED vars
  BY <1>1 DEF TypeOK, vars, row, worker, tables, ghosts
<1>2. CASE \/ Submit \/ Queue \/ RequestCancel \/ RequestReconcile
           \/ LeaseExpires \/ ReconcileExpired \/ ForeignTable
  <2>1. cancelling' \in BOOLEAN
    BY <1>2, Zenon DEF TypeOK, Submit, Queue, RequestCancel, RequestReconcile,
         LeaseExpires, ReconcileExpired, ForeignTable, CloseRow, row
  <2>2. QED
    BY <1>2, <2>1 DEF TypeOK, Submit, Queue, RequestCancel, RequestReconcile,
         Reconcilable, LeaseExpires, ReconcileExpired, ForeignTable, CloseRow,
         row, worker, tables, ghosts, Terminal
<1>3. ASSUME NEW w \in Workers,
             StartWorker(w) \/ Claim(w) \/ StartChild(w) \/ WorkerDies(w)
      PROVE  TypeOK'
  BY <1>3 DEF TypeOK, StartWorker, Claim, StartChild, WorkerDies, Forget, row,
       worker, tables, ghosts, Terminal, Statements, NoOutcome
<1>4. ASSUME NEW w \in Workers,
             \/ RejectCommand(w) \/ ExecuteRaises(w) \/ ChildExits(w)
             \/ TimesOut(w) \/ Cancelled(w)
      PROVE  TypeOK'
  <2>1. ASSUME NEW stage \in {"report", "reportQuietly", "raise"},
               NEW s \in Terminal,
               NEW p \in {"NOT_STARTED", "PUBLISHED", "RECONCILIATION_REQUIRED"},
               Report(w, stage, s, p), crashes' \in 0 .. MaxCrashes,
               creates' = creates
        PROVE  TypeOK'
    BY <2>1 DEF TypeOK, Report, row, tables
  <2>2. crashes' \in 0 .. MaxCrashes /\ creates' = creates
    BY <1>4 DEF TypeOK, RejectCommand, ExecuteRaises, ChildExits, TimesOut,
                Cancelled
  <2>3. QED
    BY <1>4, <2>1, <2>2 DEF RejectCommand, ExecuteRaises, ChildExits, TimesOut,
         Cancelled, Terminal
<1>5. ASSUME NEW w \in Workers, Finish(w)
      PROVE  TypeOK'
  <2>1. /\ outcome[w][1] \in Terminal
        /\ outcome[w][2] \in {"NOT_STARTED", "PUBLISHED", "RECONCILIATION_REQUIRED"}
    BY <1>5 DEF Finish, TypeOK, Witnessed
  <2>2. QED
    BY <1>5, <2>1 DEF Finish, CloseRow, Forget, TypeOK, row, tables, ghosts,
         Terminal, NoOutcome
<1>6. ASSUME NEW w \in Workers, Child(w)
      PROVE  TypeOK'
  <2>1. ASSUME NEW statement \in Statements \cup {"ok", "failed"},
               Continue(w, statement), staging' \in {"absent", "empty", "full"},
               final' \in {"absent", "ours", "foreign"}, attempted' \in BOOLEAN
        PROVE  TypeOK'
    BY <2>1 DEF TypeOK, Continue, row
  <2>2. /\ staging' \in {"absent", "empty", "full"}
        /\ final' \in {"absent", "ours", "foreign"}
        /\ attempted' \in BOOLEAN
    BY <1>6 DEF Child, Check, CreateStaging, Fill, Recheck, Rename, Settle,
         Verify, Cleanup, Reconcile, tables, TypeOK
  <2>3. \E statement \in Statements \cup {"ok", "failed"} : Continue(w, statement)
    BY <1>6 DEF Child, Check, CreateStaging, Fill, Recheck, Rename, Settle,
         Verify, Cleanup, Reconcile, Statements
  <2>4. QED
    BY <2>1, <2>2, <2>3
<1>7. QED
  BY <1>1, <1>2, <1>3, <1>4, <1>5, <1>6 DEF Next, RunOnce

-----------------------------------------------------------------------------
(* The tables: what a step may do to them.                                 *)

(* No statement of a child changes a token link that is there. *)
LEMMA TablesNext == [Next]_vars => (final # "absent" => final' = final)
<1> SUFFICES ASSUME [Next]_vars, final # "absent" PROVE final' = final
  OBVIOUS
<1>1. CASE \E w \in Workers : Child(w)
  BY <1>1 DEF Child, Check, CreateStaging, Fill, Recheck, Rename, Settle, Verify,
       Cleanup, Reconcile, tables
<1>2. CASE ~ \E w \in Workers : Child(w)
  BY <1>2 DEF Next, RunOnce, vars, tables, Submit, Queue, RequestCancel,
       RequestReconcile, LeaseExpires, ReconcileExpired, ForeignTable,
       StartWorker, Claim, RejectCommand, StartChild, ExecuteRaises, ChildExits,
       TimesOut, Cancelled, Finish, WorkerDies, Report
<1>3. QED
  BY <1>1, <1>2

(* Only the child itself touches its staging table, and a clean-up comes   *)
(* before the RENAME.                                                      *)
LEMMA StagingNext ==
  BootstrapInv /\ [Next]_vars =>
    (attempted /\ staging # "absent" =>
       staging' # "absent" \/ (final = "absent" /\ final' = "ours"))
<1> SUFFICES ASSUME BootstrapInv, [Next]_vars, attempted, staging # "absent"
             PROVE  staging' # "absent" \/ (final = "absent" /\ final' = "ours")
  OBVIOUS
<1>1. ASSUME NEW w \in Workers, Child(w)
      PROVE  staging' # "absent" \/ (final = "absent" /\ final' = "ours")
  <2>1. ~Cleanup(w)
    BY DEF BootstrapInv, OneCreation, Creating, Building, Cleanup, Executes
  <2>2. QED
    BY <1>1, <2>1 DEF Child, Check, CreateStaging, Fill, Recheck, Rename, Settle,
         Verify, Reconcile, tables
<1>2. CASE ~ \E w \in Workers : Child(w)
  BY <1>2 DEF Next, RunOnce, vars, tables, Submit, Queue, RequestCancel,
       RequestReconcile, LeaseExpires, ReconcileExpired, ForeignTable,
       StartWorker, Claim, RejectCommand, StartChild, ExecuteRaises, ChildExits,
       TimesOut, Cancelled, Finish, WorkerDies, Report
<1>3. QED
  BY <1>1, <1>2

-----------------------------------------------------------------------------
(* One creation.                                                           *)

(* The facts below follow when no worker starts to create, the ghosts stay *)
(* and the row does not go back in front of the first claim.               *)
LEMMA CreationKept ==
  ASSUME OneCreation, UNCHANGED ghosts,
         \A w \in Workers : Creating(w)' => Creating(w),
         \A w \in Workers : wpc'[w] = "create" => wpc[w] = "create",
         status' \in {"NONE", "ADMITTED", "QUEUED"} =>
           status \in {"NONE", "ADMITTED", "QUEUED"}
  PROVE  OneCreation'
  BY DEF OneCreation, ghosts

(* At most one claim is ever a first claim, so one child creates. *)
LEMMA CreationNext == BootstrapInv /\ [Next]_vars => OneCreation'
<1> SUFFICES ASSUME BootstrapInv, [Next]_vars PROVE OneCreation'
  OBVIOUS
<1> USE DEF BootstrapInv
<1>1. CASE \/ UNCHANGED vars
           \/ Submit \/ Queue \/ RequestCancel \/ RequestReconcile
           \/ LeaseExpires \/ ReconcileExpired \/ ForeignTable
  <2>1. /\ UNCHANGED <<wpc, child>>
        /\ UNCHANGED ghosts
        /\ status' \in {"NONE", "ADMITTED", "QUEUED"} =>
             status \in {"NONE", "ADMITTED", "QUEUED"}
    BY <1>1 DEF vars, row, worker, Submit, Queue, RequestCancel,
         RequestReconcile, LeaseExpires, ReconcileExpired, ForeignTable, CloseRow
  <2>2. QED
    BY <2>1, CreationKept DEF Creating
<1>2. ASSUME NEW w \in Workers,
             \/ StartWorker(w) \/ RejectCommand(w) \/ ExecuteRaises(w)
             \/ ChildExits(w) \/ TimesOut(w) \/ Cancelled(w) \/ WorkerDies(w)
             \/ Finish(w)
      PROVE  OneCreation'
  <2>1. UNCHANGED ghosts
    BY <1>2 DEF StartWorker, RejectCommand, ExecuteRaises, ChildExits, TimesOut,
         Cancelled, WorkerDies, Finish, Report, ghosts
  <2>2. PICK stage \in {"down", "idle", "report", "reportQuietly", "raise"} :
          wpc' = [wpc EXCEPT ![w] = stage]
    BY <1>2 DEF StartWorker, RejectCommand, ExecuteRaises, ChildExits, TimesOut,
         Cancelled, WorkerDies, Finish, Report, Forget
  <2>3. \A v \in Workers : v # w => child'[v] = child[v]
    BY <1>2 DEF StartWorker, RejectCommand, ExecuteRaises, ChildExits, TimesOut,
         Cancelled, WorkerDies, Finish, Report, Forget, TypeOK
  <2>4. \A v \in Workers : /\ Creating(v)' => Creating(v)
                           /\ wpc'[v] = "create" => wpc[v] = "create"
    BY <2>2, <2>3 DEF Creating, TypeOK
  <2>5. status' = status \/ status' \in Terminal
    <3>1. CASE Finish(w) /\ Owned(w)
      BY <3>1 DEF Finish, CloseRow, TypeOK, Witnessed
    <3>2. CASE ~(Finish(w) /\ Owned(w))
      BY <1>2, <3>2 DEF StartWorker, RejectCommand, ExecuteRaises, ChildExits,
           TimesOut, Cancelled, WorkerDies, Finish, Report, row
    <3>3. QED
      BY <3>1, <3>2
  <2>6. QED
    BY <2>1, <2>4, <2>5, CreationKept DEF Terminal
<1>3. ASSUME NEW w \in Workers, Claim(w)
      PROVE  OneCreation'
  <2>1. /\ \A v \in Workers : v # w => (Creating(v)' <=> Creating(v))
        /\ \A v \in Workers : v # w => wpc'[v] = wpc[v]
        /\ UNCHANGED ghosts
        /\ status' = "RUNNING"
    BY <1>3 DEF Claim, Creating, TypeOK
  <2>2. CASE status = "QUEUED"
    BY <2>1, <2>2 DEF OneCreation, ghosts
  <2>3. CASE status = "RECONCILE_QUEUED"
    <3>1. wpc'[w] = "reconcile"
      BY <1>3, <2>3 DEF Claim, TypeOK
    <3>2. QED
      BY <2>1, <3>1, CreationKept DEF Creating
  <2>4. QED
    BY <1>3, <2>2, <2>3 DEF Claim
<1>4. ASSUME NEW w \in Workers, StartChild(w)
      PROVE  OneCreation'
  <2>1. /\ \A v \in Workers : v # w => (Creating(v)' <=> Creating(v))
        /\ \A v \in Workers : v # w => wpc'[v] = wpc[v]
        /\ wpc'[w] = "child"
        /\ UNCHANGED <<attempted, status>>
    BY <1>4 DEF StartChild, Creating, TypeOK, row
  <2>2. CASE wpc[w] = "reconcile"
    <3>1. child'[w] = "reconcile" /\ creates' = creates
      BY <1>4, <2>2 DEF StartChild, TypeOK
    <3>2. QED
      BY <2>1, <3>1, CreationKept DEF Creating, Building, ghosts
  <2>3. CASE wpc[w] = "create"
    <3>1. creates' = 1 /\ Creating(w)
      BY <1>4, <2>3 DEF StartChild, OneCreation, Creating
    <3>2. \A v \in Workers : wpc'[v] = "create" => v = w
      BY <2>1, <2>3 DEF OneCreation, Creating
    <3>3. QED
      BY <2>1, <3>1, <3>2 DEF OneCreation
  <2>4. QED
    BY <1>4, <2>2, <2>3 DEF StartChild
<1>5. ASSUME NEW w \in Workers, Child(w)
      PROVE  OneCreation'
  <2>1. /\ UNCHANGED <<wpc, status, creates>>
        /\ \A v \in Workers : v # w => child'[v] = child[v]
    BY <1>5 DEF Child, Check, CreateStaging, Fill, Recheck, Rename, Settle,
         Verify, Cleanup, Reconcile, Continue, row, TypeOK
  <2>2. Creating(w)' => Creating(w)
    BY <1>5 DEF Child, Check, CreateStaging, Fill, Recheck, Rename, Settle,
         Verify, Cleanup, Reconcile, Continue, Executes, Creating, Building,
         TypeOK
  <2>3. \A v \in Workers : Creating(v)' => Creating(v)
    BY <2>1, <2>2 DEF Creating
  <2>4. CASE attempted' = attempted
    BY <2>1, <2>3, <2>4, CreationKept DEF ghosts
  <2>5. CASE Rename(w)
    <3>1. Creating(w) /\ ~Creating(w)'
      BY <2>5 DEF Rename, Executes, Continue, Creating, Building, TypeOK
    <3>2. \A v \in Workers : ~Creating(v)'
      BY <2>3, <3>1 DEF OneCreation
    <3>3. status' \notin {"NONE", "ADMITTED", "QUEUED"}
      BY <2>1, <3>1 DEF OneCreation
    <3>4. QED
      BY <2>1, <3>2, <3>3 DEF OneCreation, Creating
  <2>6. QED
    BY <1>5, <2>4, <2>5 DEF Child, Check, CreateStaging, Fill, Recheck, Settle,
         Verify, Cleanup, Reconcile
<1>6. QED
  BY <1>1, <1>2, <1>3, <1>4, <1>5 DEF Next, RunOnce

-----------------------------------------------------------------------------
(* SUCCEEDED is only reported of a published table.                        *)

(* A worker about to report SUCCEEDED has seen its table published. *)
LEMMA WitnessedNext == BootstrapInv /\ [Next]_vars => Witnessed'
<1> SUFFICES ASSUME BootstrapInv, [Next]_vars PROVE Witnessed'
  OBVIOUS
<1> USE DEF BootstrapInv
<1>1. final = "ours" => final' = "ours"
  BY TablesNext
<1>2. CASE UNCHANGED worker
  BY <1>1, <1>2 DEF worker, Witnessed
<1>3. ASSUME NEW w \in Workers, StartWorker(w) \/ Claim(w) \/ StartChild(w)
      PROVE  Witnessed'
  BY <1>1, <1>3 DEF StartWorker, Claim, StartChild, Witnessed, TypeOK
<1>4. ASSUME NEW w \in Workers, WorkerDies(w) \/ Finish(w)
      PROVE  Witnessed'
  <2>1. PICK stage \in {"down", "idle"} : Forget(w, stage)
    BY <1>4 DEF WorkerDies, Finish
  <2>2. QED
    BY <1>1, <2>1 DEF Forget, Witnessed, TypeOK, NoOutcome
<1>5. ASSUME NEW w \in Workers,
             \/ RejectCommand(w) \/ ExecuteRaises(w) \/ ChildExits(w)
             \/ TimesOut(w) \/ Cancelled(w)
      PROVE  Witnessed'
  <2>1. PICK stage \in {"report", "reportQuietly", "raise"}, s \in Terminal,
             p \in {"NOT_STARTED", "PUBLISHED", "RECONCILIATION_REQUIRED"} :
          /\ Report(w, stage, s, p)
          /\ s = "SUCCEEDED" => p = "PUBLISHED" /\ final = "ours"
    BY <1>5 DEF RejectCommand, ExecuteRaises, ChildExits, TimesOut, Cancelled,
         Terminal, Witnessed
  <2>2. QED
    BY <1>1, <2>1 DEF Report, Witnessed, TypeOK, NoOutcome, Terminal
<1>6. ASSUME NEW w \in Workers, Child(w)
      PROVE  Witnessed'
  <2>1. PICK statement : /\ Continue(w, statement)
                         /\ statement = "ok" => final = "ours"
    BY <1>6 DEF Child, Check, CreateStaging, Fill, Recheck, Rename, Settle,
         Verify, Cleanup, Reconcile, Published
  <2>2. QED
    BY <1>1, <2>1 DEF Continue, Witnessed, TypeOK
<1>7. QED
  BY <1>2, <1>3, <1>4, <1>5, <1>6 DEF Next, RunOnce, vars, Submit, Queue,
       RequestCancel, RequestReconcile, LeaseExpires, ReconcileExpired,
       ForeignTable, worker

(* What a step does to the row. *)
LEMMA RowNext ==
  ASSUME BootstrapInv, [Next]_vars
  PROVE  /\ Settled => UNCHANGED <<status, publication>>
         /\ status' = "SUCCEEDED" =>
              \/ UNCHANGED <<status, publication>>
              \/ publication' = "PUBLISHED" /\ final = "ours"
<1> USE DEF BootstrapInv
<1>1. CASE UNCHANGED row
  BY <1>1 DEF row
<1>2. CASE \/ Submit \/ Queue \/ RequestCancel \/ RequestReconcile
           \/ LeaseExpires \/ ReconcileExpired \/ \E w \in Workers : Claim(w)
  BY <1>2 DEF Submit, Queue, RequestCancel, RequestReconcile, Reconcilable,
       LeaseExpires, ReconcileExpired, Claim, CloseRow, Settled, Terminal
<1>3. ASSUME NEW w \in Workers, Finish(w)
      PROVE  /\ Settled => UNCHANGED <<status, publication>>
             /\ status' = "SUCCEEDED" =>
                  \/ UNCHANGED <<status, publication>>
                  \/ publication' = "PUBLISHED" /\ final = "ours"
  <2>1. CASE Owned(w)
    BY <1>3, <2>1 DEF Finish, Owned, CloseRow, Settled, Witnessed
  <2>2. CASE ~Owned(w)
    BY <1>3, <2>2 DEF Finish, row
  <2>3. QED
    BY <2>1, <2>2
<1>4. QED
  BY <1>1, <1>2, <1>3 DEF Next, RunOnce, vars, ForeignTable, StartWorker,
       RejectCommand, StartChild, ExecuteRaises, ChildExits, TimesOut, Cancelled,
       WorkerDies, Report, Child, Check, CreateStaging, Fill, Recheck, Rename,
       Settle, Verify, Cleanup, Reconcile, Continue

-----------------------------------------------------------------------------
(* The theorems.                                                           *)

(* The invariant is inductive. *)
LEMMA BootstrapNext == BootstrapInv /\ [Next]_vars => BootstrapInv'
<1> SUFFICES ASSUME BootstrapInv, [Next]_vars PROVE BootstrapInv'
  OBVIOUS
<1>1. TypeOK' /\ OneCreation' /\ Witnessed'
  BY TypeNext, CreationNext, WitnessedNext
<1>2. PublishedIsOurs'
  BY RowNext, TablesNext DEF BootstrapInv, PublishedIsOurs
<1>3. QED
  BY <1>1, <1>2 DEF BootstrapInv

(* The inductive invariant. *)
THEOREM BootstrapInvariant == Spec => []BootstrapInv
  BY BootstrapInit, BootstrapNext, PTL DEF Spec

(* The row, the workers and the tables have their types, and the row has a *)
(* lease exactly while it is RUNNING.                                      *)
THEOREM TypeCorrect == Spec => []TypeOK
<1>1. BootstrapInv => TypeOK
  BY DEF BootstrapInv
<1>2. QED
  BY <1>1, BootstrapInvariant, PTL

(* SUCCEEDED is only ever recorded of the table this execution built. *)
THEOREM PublishedIsOursHolds == Spec => []PublishedIsOurs
<1>1. BootstrapInv => PublishedIsOurs
  BY DEF BootstrapInv
<1>2. QED
  BY <1>1, BootstrapInvariant, PTL

(* However often it is orphaned and reconciled, it is created once. *)
THEOREM CreatedOnceHolds == Spec => []CreatedOnce
<1>1. BootstrapInv => CreatedOnce
  BY DEF BootstrapInv, OneCreation, CreatedOnce
<1>2. QED
  BY <1>1, BootstrapInvariant, PTL

(* A token link is never replaced, and the evidence of a RENAME is never     *)
(* dropped, whatever is repeated, killed or reconciled.                      *)
THEOREM TablesKeptHolds == Spec => NeverReplaced /\ EvidenceKept
<1>1. [Next]_vars => (final # "absent" => final' = final)
  BY TablesNext
<1>2. BootstrapInv /\ [Next]_vars =>
        (attempted /\ staging # "absent" =>
           staging' # "absent" \/ (final = "absent" /\ final' = "ours"))
  BY StagingNext
<1>3. QED
  BY <1>1, <1>2, BootstrapInvariant, PTL DEF Spec, NeverReplaced, EvidenceKept

(* A settled row is never written over: not by a worker that has lost its    *)
(* lease, and not by a reconciliation.                                       *)
THEOREM SettledHolds == Spec => SettledForever
<1>1. BootstrapInv /\ [Next]_vars => (Settled => UNCHANGED <<status, publication>>)
  BY RowNext
<1>2. QED
  BY <1>1, BootstrapInvariant, PTL DEF Spec, SettledForever

=============================================================================
