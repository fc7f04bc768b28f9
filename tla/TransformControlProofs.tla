------------------------ MODULE TransformControlProofs ------------------------
(***************************************************************************)
(* The invariants of the transform control plane, for any set of runs,     *)
(* batches, keys and workers, any prerequisites and any number of deaths.  *)
(***************************************************************************)
EXTENDS TransformControl, TLAPS

Started == {"ADMITTED", "QUEUED", "RUNNING"}

(* Only what is inserted is referred to. *)
LedgerOrder ==
  /\ \A r \in creating : run[r] = "NONE"
  /\ \A k \in Keys : status[k] # "NONE" \/ handler[k] # "free" =>
                       run[KeyRun[k]] # "NONE"

(* What handler[k] = "insert" refers to is not inserted yet. *)
InsertsOnce == \A k \in Keys : handler[k] = "insert" => status[k] = "NONE"

(* A worker holds what was claimed, and nobody else ever holds it. *)
HeldOnce ==
  \A w \in Workers : wpc[w] \notin Free =>
    /\ status[work[w]] \in {"RUNNING"} \cup Terminal
    /\ \A v \in Workers : work[v] = work[w] => v = w

(* A worker reports a terminal status, and success only after a build. *)
Reports ==
  \A w \in Workers :
    /\ wpc[w] = "report" => result[w] \in Terminal
    /\ wpc[w] # "report" => result[w] = "NONE"
    /\ result[w] = "SUCCEEDED" => work[w] \in built

PrerequisitesOf(k) ==
  \A b \in Prerequisite[KeyBatch[k]] :
    \E j \in built : KeyRun[j] = KeyRun[k] /\ KeyBatch[j] = b

PrerequisitesAtInsert ==
  \A k \in Keys : handler[k] = "insert" => PrerequisitesOf(k)

ControlInv ==
  /\ TypeOK
  /\ LedgerOrder
  /\ InsertsOnce
  /\ HeldOnce
  /\ Reports
  /\ OneActiveRun
  /\ OneActiveExecution
  /\ FailureEndsRun
  /\ SuccessWasBuilt
  /\ PrerequisitesAtInsert
  /\ PrerequisitesBuilt

(* The empty ledger satisfies the invariant. *)
LEMMA ControlInit == Init => ControlInv
<1> SUFFICES ASSUME Init PROVE ControlInv
  OBVIOUS
<1> USE ControlAssumption DEF Init
<1>1. TypeOK
  BY DEF TypeOK, Stages, Free, Terminal
<1>2. LedgerOrder /\ InsertsOnce /\ HeldOnce /\ Reports
  BY DEF LedgerOrder, InsertsOnce, HeldOnce, Reports, Free
<1>3. ActiveRuns = {} /\ \A k \in Keys : ~Active(k)
  BY DEF ActiveRuns, Active
<1>4. OneActiveRun /\ OneActiveExecution
  BY <1>3 DEF OneActiveRun, OneActiveExecution
<1>5. /\ FailureEndsRun /\ SuccessWasBuilt
      /\ PrerequisitesAtInsert /\ PrerequisitesBuilt
  BY DEF FailureEndsRun, SuccessWasBuilt, PrerequisitesAtInsert,
         PrerequisitesBuilt, Failures
<1>6. QED
  BY <1>1, <1>2, <1>4, <1>5 DEF ControlInv

-----------------------------------------------------------------------------
(* Type correctness.                                                       *)

(* Closing rows keeps the ledger and the queue well typed. *)
LEMMA CloseType ==
  ASSUME TypeOK, NEW K \in SUBSET Keys, NEW s \in Terminal, Close(K, s)
  PROVE  /\ run' \in [Runs -> {"NONE", "ADMITTED"} \cup Failures]
         /\ status' \in [Keys -> {"NONE", "ADMITTED", "QUEUED", "RUNNING"}
                                   \cup Terminal]
         /\ holder' \in [Keys -> Workers \cup {NoWorker}]
         /\ lease' \in [Keys -> {"none", "live", "expired"}]
         /\ \A k \in Keys : lease'[k] = "none" <=> status'[k] # "RUNNING"
  BY DEF TypeOK, Close, TerminalizeParentFailure, Terminal, Failures

(* Every step of handlers, queue and workers keeps the types. *)
LEMMA TypeNext == TypeOK /\ Reports /\ [Next]_vars => TypeOK'
<1> SUFFICES ASSUME TypeOK, Reports, [Next]_vars PROVE TypeOK'
  OBVIOUS
<1> USE ControlAssumption
<1>1. CASE UNCHANGED vars
  BY <1>1 DEF TypeOK, vars, ledger, queue, worker, ghosts
<1>2. ASSUME NEW r \in Runs, CreateRun(r) \/ InsertRun(r)
      PROVE  TypeOK'
  BY <1>2 DEF TypeOK, CreateRun, InsertRun, queue, worker, ghosts
<1>3. ASSUME NEW k \in Keys,
             \/ SubmitBatch(k) \/ InsertBatch(k) \/ QueueBatch(k)
             \/ HandlerDies(k)
      PROVE  TypeOK'
  <2>1. CASE SubmitBatch(k) \/ HandlerDies(k)
    BY <2>1 DEF TypeOK, SubmitBatch, HandlerDies, Sibling, queue, worker, ghosts
  <2>2. CASE InsertBatch(k) \/ QueueBatch(k)
    BY <2>2 DEF TypeOK, InsertBatch, QueueBatch, worker, ghosts, Sibling, Active,
                Terminal, Failures
  <2>3. QED
    BY <1>3, <2>1, <2>2
<1>4. ASSUME NEW k \in Keys, RequestCancel(k) \/ LeaseExpires(k)
      PROVE  TypeOK'
  <2>1. CASE LeaseExpires(k)
    BY <2>1 DEF TypeOK, LeaseExpires, ledger, worker, ghosts
  <2>2. CASE RequestCancel(k)
    <3>1. \/ Close({k}, "CANCELLED")
          \/ UNCHANGED <<status, holder, lease, run>>
      BY <2>2 DEF RequestCancel
    <3>2. QED
      BY <2>2, <3>1, CloseType
      DEF TypeOK, RequestCancel, worker, ghosts, Terminal, Failures
  <2>3. QED
    BY <1>4, <2>1, <2>2
<1>5. ASSUME NEW w \in Workers,
             \/ StartWorker(w) \/ Claim(w) \/ ClaimNothing(w) \/ FindBranch(w)
             \/ StartChild(w) \/ ChildExits(w) \/ ChildTimesOut(w)
             \/ ChildCancelled(w) \/ WorkerDies(w)
      PROVE  TypeOK'
  <2>1. CASE StartWorker(w) \/ ClaimNothing(w) \/ FindBranch(w) \/ StartChild(w)
    BY <2>1 DEF TypeOK, StartWorker, ClaimNothing, FindBranch, StartChild, Goto,
                Stages, Free, ledger, queue, ghosts
  <2>2. CASE Claim(w)
    BY <2>2 DEF TypeOK, Claim, Stages, Free, ledger, ghosts, Terminal, Failures
  <2>3. CASE ChildExits(w) \/ ChildTimesOut(w) \/ ChildCancelled(w)
    BY <2>3 DEF TypeOK, ChildExits, ChildTimesOut, ChildCancelled, Report, Goto,
                Stages, Free, ledger, queue, ghosts, Terminal, Failures
  <2>4. CASE WorkerDies(w)
    BY <2>4 DEF TypeOK, WorkerDies, Done, Stages, Free, ledger, queue, ghosts
  <2>5. QED
    BY <1>5, <2>1, <2>2, <2>3, <2>4
<1>6. ASSUME NEW w \in Workers,
             \/ ReconcileExpired(w) \/ CreateBranch(w) \/ PreparationFails(w)
             \/ RecordBranch(w) \/ ExecuteRaises(w) \/ LeaseLost(w) \/ Finish(w)
      PROVE  TypeOK'
  <2>1. \/ \E K \in SUBSET Keys, s \in Terminal : Close(K, s)
        \/ UNCHANGED <<run, status, holder, lease>>
    BY <1>6 DEF TypeOK, Reports, ReconcileExpired, Expired, CreateBranch,
                PreparationFails, RecordBranch, ExecuteRaises, LeaseLost, Finish,
                OrphanIfOwned, Owned, Free, Terminal, Failures
  <2>2. /\ run' \in [Runs -> {"NONE", "ADMITTED"} \cup Failures]
        /\ status' \in [Keys -> {"NONE", "ADMITTED", "QUEUED", "RUNNING"}
                                  \cup Terminal]
        /\ holder' \in [Keys -> Workers \cup {NoWorker}]
        /\ lease' \in [Keys -> {"none", "live", "expired"}]
        /\ \A k \in Keys : lease'[k] = "none" <=> status'[k] # "RUNNING"
    BY <2>1, CloseType DEF TypeOK
  <2>3. /\ wpc' \in [Workers -> Stages]
        /\ work' \in [Workers -> Keys \cup {NoKey}]
        /\ result' \in [Workers -> Terminal \cup {"NONE"}]
        /\ \A v \in Workers : work'[v] = NoKey <=> wpc'[v] \in Free
    BY <1>6 DEF TypeOK, ReconcileExpired, CreateBranch, PreparationFails,
                RecordBranch, ExecuteRaises, LeaseLost, Finish, Goto, Done,
                Stages, Free
  <2>4. /\ creating' \in SUBSET Runs
        /\ cancelling' \in SUBSET Keys
        /\ handler' \in [Keys -> Keys \cup {"free", "insert"}]
        /\ branch' \in [Runs -> {"absent", "base", "moved"}]
        /\ built' \in SUBSET Keys
        /\ clashed' \in SUBSET Keys
        /\ crashes' \in 0 .. MaxCrashes
    BY <1>6 DEF TypeOK, ReconcileExpired, CreateBranch, PreparationFails,
                RecordBranch, ExecuteRaises, LeaseLost, Finish, ghosts, Free
  <2>5. QED
    BY <2>2, <2>3, <2>4 DEF TypeOK
<1>7. QED
  BY <1>1, <1>2, <1>3, <1>4, <1>5, <1>6 DEF Next, RunOnce

-----------------------------------------------------------------------------
(* What a step does to the statuses: the six ways a record changes.        *)

Advanced(k, from, to) == status[k] = from /\ status' = [status EXCEPT ![k] = to]

Closed(K, s) ==
  /\ \A k \in K : status[k] \in Started
  /\ s = "SUCCEEDED" => K \subseteq built
  /\ Close(K, s)

StepShape ==
  \/ UNCHANGED <<run, status>>
  \/ \E r \in creating : InsertRun(r)
  \/ \E k \in Keys : /\ Advanced(k, "NONE", "ADMITTED") /\ UNCHANGED run
                     /\ handler[k] = "insert" /\ handler'[k] = k
                     /\ \A j \in Sibling(k) : ~Active(j)
  \/ \E k \in Keys : Advanced(k, "ADMITTED", "QUEUED") /\ UNCHANGED run
  \/ \E k \in Keys : Advanced(k, "QUEUED", "RUNNING") /\ UNCHANGED run
  \/ \E K \in SUBSET Keys, s \in Terminal : Closed(K, s)

(* orphan_if_owned closes the row of the worker, or none. *)
LEMMA OrphanShape ==
  ASSUME TypeOK, NEW w \in Workers, wpc[w] \notin Free, OrphanIfOwned(w)
  PROVE  \E K \in SUBSET Keys, s \in Terminal : Closed(K, s)
<1> DEFINE K == IF Owned(w) THEN {work[w]} ELSE {}
<1>1. /\ K \in SUBSET Keys
      /\ \A k \in K : status[k] \in Started
  BY DEF TypeOK, Owned, Started
<1>2. Close(K, "ORPHANED")
  BY DEF OrphanIfOwned
<1> HIDE DEF K
<1>3. Closed(K, "ORPHANED")
  BY <1>1, <1>2 DEF Closed
<1>4. QED
  BY <1>1, <1>3 DEF Terminal, Failures

(* Every step changes the record in one of the ways of StepShape. *)
LEMMA Shape == TypeOK /\ Reports /\ InsertsOnce /\ [Next]_vars => StepShape
<1> SUFFICES ASSUME TypeOK, Reports, InsertsOnce, [Next]_vars PROVE StepShape
  OBVIOUS
<1>1. CASE UNCHANGED vars
  BY <1>1 DEF StepShape, vars, ledger, queue
<1>2. ASSUME NEW r \in Runs, CreateRun(r) \/ InsertRun(r)
      PROVE  StepShape
  BY <1>2 DEF StepShape, CreateRun, InsertRun, queue
<1>3. ASSUME NEW k \in Keys,
             \/ SubmitBatch(k) \/ InsertBatch(k) \/ QueueBatch(k)
             \/ HandlerDies(k) \/ LeaseExpires(k)
      PROVE  StepShape
  <2>1. CASE SubmitBatch(k) \/ HandlerDies(k) \/ LeaseExpires(k)
    BY <2>1 DEF StepShape, SubmitBatch, HandlerDies, LeaseExpires, queue, ledger
  <2>2. CASE InsertBatch(k)
    BY <2>2 DEF StepShape, InsertBatch, Advanced, InsertsOnce, TypeOK
  <2>3. CASE QueueBatch(k)
    BY <2>3 DEF StepShape, QueueBatch, Advanced
  <2>4. QED
    BY <1>3, <2>1, <2>2, <2>3
<1>4. ASSUME NEW k \in Keys, RequestCancel(k)
      PROVE  StepShape
  <2>1. CASE UNCHANGED <<status, holder, lease, run>>
    BY <2>1 DEF StepShape
  <2>2. CASE status[k] \in {"ADMITTED", "QUEUED"} /\ Close({k}, "CANCELLED")
    <3>1. Closed({k}, "CANCELLED")
      BY <2>2 DEF Closed, Started
    <3>2. QED
      BY <3>1 DEF StepShape, Terminal, Failures
  <2>3. QED
    BY <1>4, <2>1, <2>2 DEF RequestCancel
<1>5. ASSUME NEW w \in Workers,
             \/ StartWorker(w) \/ ClaimNothing(w) \/ FindBranch(w)
             \/ StartChild(w) \/ ChildExits(w) \/ ChildTimesOut(w)
             \/ ChildCancelled(w) \/ WorkerDies(w)
      PROVE  StepShape
  BY <1>5 DEF StepShape, StartWorker, ClaimNothing, FindBranch, StartChild,
              ChildExits, ChildTimesOut, ChildCancelled, WorkerDies, ledger, queue
<1>6. ASSUME NEW w \in Workers, Claim(w)
      PROVE  StepShape
  BY <1>6 DEF StepShape, Claim, Advanced, ledger
<1>7. ASSUME NEW w \in Workers, ReconcileExpired(w)
      PROVE  StepShape
  <2>1. Closed(Expired, "ORPHANED") /\ Expired \in SUBSET Keys
    BY <1>7 DEF ReconcileExpired, Closed, Expired, Started
  <2>2. QED
    BY <2>1 DEF StepShape, Terminal, Failures
<1>8. ASSUME NEW w \in Workers,
             \/ CreateBranch(w) \/ PreparationFails(w) \/ RecordBranch(w)
             \/ ExecuteRaises(w) \/ LeaseLost(w)
      PROVE  StepShape
  <2>1. /\ wpc[w] \notin Free
        /\ OrphanIfOwned(w) \/ UNCHANGED <<run, status>>
    BY <1>8 DEF CreateBranch, PreparationFails, RecordBranch, ExecuteRaises,
                LeaseLost, Free
  <2>2. QED
    BY <2>1, OrphanShape DEF StepShape
<1>9. ASSUME NEW w \in Workers, Finish(w)
      PROVE  StepShape
  <2>1. CASE UNCHANGED <<run, status, holder, lease>>
    BY <2>1 DEF StepShape
  <2>2. CASE Owned(w) /\ Close({work[w]}, result[w])
    <3>1. work[w] \in Keys /\ result[w] \in Terminal
      BY <1>9 DEF Finish, TypeOK, Reports, Free
    <3>2. Closed({work[w]}, result[w])
      BY <2>2, <3>1 DEF Closed, Owned, Started, Reports
    <3>3. QED
      BY <3>1, <3>2 DEF StepShape
  <2>3. QED
    BY <1>9, <2>1, <2>2 DEF Finish
<1>10. QED
  BY <1>1, <1>2, <1>3, <1>4, <1>5, <1>6, <1>7, <1>8, <1>9 DEF Next, RunOnce

(* The ghost built only grows. *)
LEMMA BuiltGrows == [Next]_vars => built \subseteq built'
<1> SUFFICES ASSUME [Next]_vars PROVE built \subseteq built'
  OBVIOUS
<1>1. UNCHANGED built \/ \E w \in Workers : ChildExits(w)
  BY DEF Next, vars, ghosts, RunOnce, CreateRun, InsertRun, SubmitBatch,
         InsertBatch, QueueBatch, HandlerDies, RequestCancel, LeaseExpires,
         StartWorker, ReconcileExpired, Claim, ClaimNothing, FindBranch,
         CreateBranch, PreparationFails, RecordBranch, StartChild, ChildTimesOut,
         ChildCancelled, ExecuteRaises, LeaseLost, Finish, WorkerDies
<1>2. QED
  BY <1>1 DEF ChildExits

-----------------------------------------------------------------------------
(* The statuses of runs and executions, from the shape of a step.          *)

(* Runs: one is active at most, and none with a failed batch. *)
LEMMA RunsNext ==
  ControlInv /\ StepShape => OneActiveRun' /\ FailureEndsRun'
<1> SUFFICES ASSUME ControlInv, StepShape PROVE OneActiveRun' /\ FailureEndsRun'
  OBVIOUS
<1> USE ControlAssumption DEF ControlInv
<1>1. CASE UNCHANGED <<run, status>>
  BY <1>1 DEF OneActiveRun, FailureEndsRun, ActiveRuns
<1>2. ASSUME NEW r \in creating, InsertRun(r)
      PROVE  OneActiveRun' /\ FailureEndsRun'
  <2>1. r \in Runs /\ run[r] = "NONE" /\ status' = status
    BY <1>2 DEF TypeOK, LedgerOrder, InsertRun, queue
  <2>2. \A k \in Keys : KeyRun[k] = r => status[k] = "NONE"
    BY <2>1 DEF LedgerOrder
  <2>3. CASE run' = run
    BY <2>1, <2>3 DEF OneActiveRun, FailureEndsRun, ActiveRuns
  <2>4. CASE ActiveRuns = {} /\ run' = [run EXCEPT ![r] = "ADMITTED"]
    <3>1. ActiveRuns' = {r}
      BY <2>1, <2>4 DEF ActiveRuns, TypeOK, Terminal, Failures
    <3>2. QED
      BY <2>1, <2>2, <3>1 DEF OneActiveRun, FailureEndsRun, Failures
  <2>5. QED
    BY <1>2, <2>3, <2>4 DEF InsertRun
<1>3. ASSUME NEW k \in Keys, NEW from, NEW to \in Started,
             Advanced(k, from, to), UNCHANGED run
      PROVE  OneActiveRun' /\ FailureEndsRun'
  BY <1>3 DEF Advanced, OneActiveRun, FailureEndsRun, ActiveRuns, TypeOK,
              Started, Failures
<1>4. ASSUME NEW K \in SUBSET Keys, NEW s \in Terminal, Closed(K, s)
      PROVE  OneActiveRun' /\ FailureEndsRun'
  <2>1. ActiveRuns' \subseteq ActiveRuns
    BY <1>4 DEF Closed, Close, TerminalizeParentFailure, ActiveRuns, TypeOK,
                Terminal, Failures
  <2>2. OneActiveRun'
    BY <2>1 DEF OneActiveRun
  <2>3. ASSUME NEW k \in Keys, status'[k] \in Failures
        PROVE  KeyRun[k] \notin ActiveRuns'
    <3>1. CASE k \in K
      BY <1>4, <2>3, <3>1 DEF Closed, Close, TerminalizeParentFailure,
           ActiveRuns, TypeOK, Terminal, Failures
    <3>2. CASE k \notin K
      BY <1>4, <2>1, <2>3, <3>2 DEF Closed, Close, FailureEndsRun
    <3>3. QED
      BY <3>1, <3>2
  <2>4. QED
    BY <2>2, <2>3 DEF FailureEndsRun
<1>5. QED
  BY <1>1, <1>2, <1>3, <1>4 DEF StepShape, Started

(* Executions: one of a batch of a run is active at most. *)
LEMMA ExecutionsNext ==
  ControlInv /\ StepShape => OneActiveExecution'
<1> SUFFICES ASSUME ControlInv, StepShape PROVE OneActiveExecution'
  OBVIOUS
<1> USE ControlAssumption DEF ControlInv
<1>1. CASE UNCHANGED status
  BY <1>1 DEF OneActiveExecution, Active, Sibling
<1>2. ASSUME NEW k \in Keys, Advanced(k, "NONE", "ADMITTED"),
             \A j \in Sibling(k) : ~Active(j)
      PROVE  OneActiveExecution'
  <2>1. SUFFICES ASSUME NEW i \in Keys, NEW j \in Sibling(i),
                        Active(i)', Active(j)'
                 PROVE  j = i
    BY DEF OneActiveExecution, Sibling
  <2>2. \A h \in Keys : h # k => (Active(h)' <=> Active(h))
    BY <1>2 DEF Advanced, Active, TypeOK
  <2>3. QED
    BY <1>2, <2>1, <2>2 DEF OneActiveExecution, Sibling
<1>3. ASSUME NEW k \in Keys, NEW from \in Started, NEW to \in Started,
             Advanced(k, from, to)
      PROVE  OneActiveExecution'
  <2>1. \A h \in Keys : Active(h)' <=> Active(h)
    BY <1>3 DEF Advanced, Active, TypeOK, Started, Terminal, Failures
  <2>2. QED
    BY <2>1 DEF OneActiveExecution, Sibling
<1>4. ASSUME NEW K \in SUBSET Keys, NEW s \in Terminal, Closed(K, s)
      PROVE  OneActiveExecution'
  <2>1. \A h \in Keys : Active(h)' => Active(h)
    BY <1>4 DEF Closed, Close, Active, TypeOK
  <2>2. QED
    BY <2>1 DEF OneActiveExecution, Sibling
<1>5. QED
  BY <1>1, <1>2, <1>3, <1>4 DEF StepShape, Started, InsertRun, queue

(* What is SUCCEEDED was built, and so were prerequisites. *)
LEMMA BuiltNext ==
  ControlInv /\ StepShape /\ built \subseteq built' =>
    SuccessWasBuilt' /\ PrerequisitesBuilt'
<1> SUFFICES ASSUME ControlInv, StepShape, built \subseteq built'
             PROVE  SuccessWasBuilt' /\ PrerequisitesBuilt'
  OBVIOUS
<1> USE ControlAssumption DEF ControlInv
<1>1. \A k \in Keys : PrerequisitesOf(k) => PrerequisitesOf(k)'
  BY DEF PrerequisitesOf
<1>2. \A k \in Keys : status[k] # "NONE" => PrerequisitesOf(k)
  BY DEF PrerequisitesBuilt, PrerequisitesOf
<1>3. \A k \in Keys : status'[k] # "NONE" => PrerequisitesOf(k)
  <2>1. CASE UNCHANGED status
    BY <1>2, <2>1
  <2>2. ASSUME NEW k \in Keys, NEW from, NEW to, Advanced(k, from, to),
               from # "NONE" \/ handler[k] = "insert"
        PROVE  \A j \in Keys : status'[j] # "NONE" => PrerequisitesOf(j)
    BY <1>2, <2>2 DEF Advanced, PrerequisitesAtInsert, TypeOK
  <2>3. ASSUME NEW K \in SUBSET Keys, NEW s \in Terminal, Closed(K, s)
        PROVE  \A j \in Keys : status'[j] # "NONE" => PrerequisitesOf(j)
    BY <1>2, <2>3 DEF Closed, Close, Started, TypeOK
  <2>4. QED
    BY <2>1, <2>2, <2>3 DEF StepShape, InsertRun, queue
<1>4. PrerequisitesBuilt'
  BY <1>1, <1>3 DEF PrerequisitesBuilt, PrerequisitesOf
<1>5. \A k \in Keys : status'[k] = "SUCCEEDED" => k \in built
  <2>1. CASE UNCHANGED status
    BY <2>1 DEF SuccessWasBuilt
  <2>2. ASSUME NEW k \in Keys, NEW from, NEW to \in Started, Advanced(k, from, to)
        PROVE  \A j \in Keys : status'[j] = "SUCCEEDED" => j \in built
    BY <2>2 DEF Advanced, SuccessWasBuilt, Started, TypeOK
  <2>3. ASSUME NEW K \in SUBSET Keys, NEW s \in Terminal, Closed(K, s)
        PROVE  \A j \in Keys : status'[j] = "SUCCEEDED" => j \in built
    BY <2>3 DEF Closed, Close, SuccessWasBuilt, TypeOK
  <2>4. QED
    BY <2>1, <2>2, <2>3 DEF StepShape, Started, InsertRun, queue
<1>6. QED
  BY <1>4, <1>5 DEF SuccessWasBuilt

(* No record goes back: what a step of this shape does to one status. *)
LEMMA StatusNext ==
  ASSUME TypeOK, StepShape, NEW k \in Keys
  PROVE  /\ status[k] \in Terminal => status'[k] = status[k]
         /\ status[k] = "RUNNING" => status'[k] \in {"RUNNING"} \cup Terminal
         /\ status[k] # "NONE" => status'[k] # "NONE"
<1>1. CASE UNCHANGED status
  BY <1>1
<1>2. ASSUME NEW j \in Keys, NEW from, NEW to \in Started, Advanced(j, from, to),
             from \notin {"RUNNING"} \cup Terminal
      PROVE  /\ status[k] \in Terminal => status'[k] = status[k]
             /\ status[k] = "RUNNING" => status'[k] \in {"RUNNING"} \cup Terminal
             /\ status[k] # "NONE" => status'[k] # "NONE"
  BY <1>2 DEF Advanced, TypeOK, Started
<1>3. ASSUME NEW K \in SUBSET Keys, NEW s \in Terminal, Closed(K, s)
      PROVE  /\ status[k] \in Terminal => status'[k] = status[k]
             /\ status[k] = "RUNNING" => status'[k] \in {"RUNNING"} \cup Terminal
             /\ status[k] # "NONE" => status'[k] # "NONE"
  BY <1>3 DEF Closed, Close, TypeOK, Started, Terminal, Failures
<1>4. QED
  BY <1>1, <1>2, <1>3 DEF StepShape, Started, Terminal, Failures, InsertRun, queue

-----------------------------------------------------------------------------
(* The API handlers.                                                       *)

(* Runs and records stay in the ledger. *)
LEMMA LedgerKept ==
  ASSUME TypeOK, LedgerOrder, StepShape
  PROVE  \A r \in Runs : run[r] # "NONE" => run'[r] # "NONE"
<1>1. ASSUME NEW r \in creating, InsertRun(r)
      PROVE  \A q \in Runs : run[q] # "NONE" => run'[q] # "NONE"
  BY <1>1 DEF InsertRun, TypeOK
<1>2. ASSUME NEW K \in SUBSET Keys, NEW s \in Terminal, Closed(K, s)
      PROVE  \A q \in Runs : run[q] # "NONE" => run'[q] # "NONE"
  BY <1>2 DEF Closed, Close, TerminalizeParentFailure, TypeOK, Terminal, Failures
<1>3. QED
  BY <1>1, <1>2 DEF StepShape

(* What a step does to the handlers and to creating. *)
HandlerShape ==
  \/ UNCHANGED <<creating, handler>>
  \/ \E r \in Runs : CreateRun(r) \/ InsertRun(r)
  \/ \E k \in Keys : \/ SubmitBatch(k) \/ InsertBatch(k) \/ QueueBatch(k)
                     \/ HandlerDies(k)

(* The handlers under way change only by their own steps. *)
LEMMA HandlersStep == [Next]_vars => HandlerShape
  BY DEF HandlerShape, Next, vars, ledger, RunOnce, RequestCancel, LeaseExpires,
         StartWorker, ReconcileExpired, Claim, ClaimNothing, FindBranch,
         CreateBranch, PreparationFails, RecordBranch, StartChild, ChildExits,
         ChildTimesOut, ChildCancelled, ExecuteRaises, LeaseLost, Finish,
         WorkerDies

(* The runs whose creation is under way are not inserted by anybody else. *)
LEMMA CreatingNext ==
  ASSUME ControlInv, StepShape, HandlerShape
  PROVE  \A r \in creating' : run'[r] = "NONE"
<1> USE ControlAssumption DEF ControlInv
<1>1. ASSUME NEW r \in creating', r \notin creating
      PROVE  run'[r] = "NONE"
  BY <1>1 DEF HandlerShape, CreateRun, InsertRun, SubmitBatch, InsertBatch,
              QueueBatch, HandlerDies
<1>2. ASSUME NEW r \in creating', r \in creating
      PROVE  run'[r] = "NONE"
  <2>1. run[r] = "NONE" /\ r \in Runs
    BY <1>2 DEF LedgerOrder, TypeOK
  <2>2. ASSUME NEW q \in creating, InsertRun(q)
        PROVE  run'[r] = "NONE"
    BY <1>2, <2>1, <2>2 DEF InsertRun, TypeOK
  <2>3. ASSUME NEW K \in SUBSET Keys, NEW s \in Terminal, Closed(K, s)
        PROVE  run'[r] = "NONE"
    BY <2>1, <2>3 DEF Closed, Close, TerminalizeParentFailure, ActiveRuns
  <2>4. QED
    BY <2>1, <2>2, <2>3 DEF StepShape
<1>3. QED
  BY <1>1, <1>2

(* What a handler has read still holds when it inserts. *)
LEMMA HandlersNext ==
  ASSUME ControlInv, StepShape, HandlerShape, built \subseteq built'
  PROVE  LedgerOrder' /\ InsertsOnce' /\ PrerequisitesAtInsert'
<1> USE ControlAssumption DEF ControlInv
<1>1. ASSUME NEW k \in Keys, handler'[k] # handler[k], handler'[k] # "free"
      PROVE  SubmitBatch(k) \/ InsertBatch(k)
  BY <1>1 DEF HandlerShape, CreateRun, InsertRun, SubmitBatch, InsertBatch,
              QueueBatch, HandlerDies, TypeOK
<1>2. ASSUME NEW k \in Keys, status'[k] # "NONE" \/ handler'[k] # "free"
      PROVE  run'[KeyRun[k]] # "NONE"
  <2>1. run[KeyRun[k]] # "NONE"
    <3>1. CASE status[k] # "NONE" \/ handler[k] # "free"
      BY <3>1 DEF LedgerOrder
    <3>2. CASE status[k] = "NONE" /\ handler[k] = "free" /\ handler'[k] # "free"
      BY <1>1, <3>2 DEF SubmitBatch, InsertBatch
    <3>3. CASE status[k] = "NONE" /\ status'[k] # "NONE"
      <4>1. ASSUME NEW j \in Keys, NEW from, NEW to, Advanced(j, from, to),
                   from # "NONE" \/ handler[j] = "insert"
            PROVE  handler[k] = "insert"
        BY <3>3, <4>1 DEF Advanced, TypeOK
      <4>2. ~ \E K \in SUBSET Keys, s \in Terminal : Closed(K, s)
        BY <3>3 DEF Closed, Close, Started, TypeOK
      <4>3. handler[k] = "insert"
        BY <3>3, <4>1, <4>2 DEF StepShape, InsertRun, queue
      <4>4. QED
        BY <4>3 DEF LedgerOrder
    <3>4. QED
      BY <1>2, <3>1, <3>2, <3>3
  <2>2. QED
    BY <2>1, LedgerKept
<1>3. LedgerOrder'
  BY <1>2, CreatingNext DEF LedgerOrder
<1>4. ASSUME NEW k \in Keys, handler'[k] = "insert"
      PROVE  status'[k] = "NONE" /\ PrerequisitesOf(k)
  <2>1. status[k] = "NONE" /\ PrerequisitesOf(k)
    <3>1. CASE handler[k] = "insert"
      BY <3>1 DEF InsertsOnce, PrerequisitesAtInsert
    <3>2. CASE handler[k] # "insert"
      <4>1. SubmitBatch(k)
        BY <1>1, <1>4, <3>2 DEF InsertBatch, TypeOK
      <4>2. status[k] = "NONE" /\ PrerequisitesMet(k)
        BY <1>4, <4>1 DEF SubmitBatch, Sibling, TypeOK
      <4>3. QED
        BY <4>2 DEF PrerequisitesMet, PrerequisitesOf, SuccessWasBuilt
    <3>3. QED
      BY <3>1, <3>2
  <2>2. ASSUME NEW j \in Keys, NEW from, NEW to, Advanced(j, from, to),
               from # "NONE" \/ handler'[j] = j
        PROVE  status'[k] = "NONE"
    BY <1>4, <2>1, <2>2 DEF Advanced, TypeOK
  <2>3. ASSUME NEW K \in SUBSET Keys, NEW s \in Terminal, Closed(K, s)
        PROVE  status'[k] = "NONE"
    BY <2>1, <2>3 DEF Closed, Close, Started
  <2>4. QED
    BY <2>1, <2>2, <2>3 DEF StepShape, InsertRun, queue
<1>5. \A k \in Keys : PrerequisitesOf(k) => PrerequisitesOf(k)'
  BY DEF PrerequisitesOf
<1>6. QED
  BY <1>3, <1>4, <1>5 DEF InsertsOnce, PrerequisitesAtInsert

-----------------------------------------------------------------------------
(* The workers.                                                            *)

(* What a step does to the workers: all but w stay as they are. *)
LEMMA HoldersNext ==
  ControlInv /\ StepShape /\ [Next]_vars => HeldOnce'
<1> SUFFICES ASSUME ControlInv, StepShape, [Next]_vars PROVE HeldOnce'
  OBVIOUS
<1> USE ControlAssumption DEF ControlInv
<1>1. CASE UNCHANGED <<wpc, work>>
  <2>1. \A w \in Workers : wpc[w] \notin Free => work[w] \in Keys
    BY DEF TypeOK
  <2>2. QED
    BY <1>1, <2>1, StatusNext DEF HeldOnce
<1>2. ASSUME NEW w \in Workers, NEW stage, wpc' = [wpc EXCEPT ![w] = stage],
             UNCHANGED work, wpc[w] \in Free => stage \in Free
      PROVE  HeldOnce'
  <2>1. \A v \in Workers : wpc'[v] \notin Free =>
                              wpc[v] \notin Free /\ work[v] \in Keys
    BY <1>2 DEF TypeOK
  <2>2. QED
    BY <1>2, <2>1, StatusNext DEF HeldOnce
<1>3. ASSUME NEW w \in Workers, NEW stage \in Free, Done(w, stage)
      PROVE  HeldOnce'
  <2>1. \A v \in Workers : wpc'[v] \notin Free =>
            v # w /\ wpc[v] \notin Free /\ work[v] \in Keys /\ work'[v] = work[v]
    BY <1>3 DEF TypeOK, Done
  <2>2. work'[w] = NoKey
    BY <1>3 DEF TypeOK, Done
  <2>3. \A u \in Workers : u # w => work'[u] = work[u]
    BY <1>3 DEF TypeOK, Done
  <2>4. QED
    BY <2>1, <2>2, <2>3, StatusNext DEF HeldOnce
<1>4. ASSUME NEW w \in Workers, Claim(w)
      PROVE  HeldOnce'
  <2>1. PICK k \in Keys : /\ status[k] = "QUEUED"
                          /\ status' = [status EXCEPT ![k] = "RUNNING"]
                          /\ work' = [work EXCEPT ![w] = k]
                          /\ wpc' = [wpc EXCEPT ![w] = "branch"]
    BY <1>4 DEF Claim
  <2>2. \A v \in Workers : work[v] # k
    BY <2>1 DEF TypeOK, HeldOnce, Terminal, Failures
  <2>3. status'[k] = "RUNNING" /\ work'[w] = k
    BY <2>1 DEF TypeOK
  <2>4. \A v \in Workers : v # w => work'[v] = work[v] /\ wpc'[v] = wpc[v]
    BY <2>1 DEF TypeOK
  <2>5. \A v \in Workers : wpc[v] \notin Free =>
          work[v] \in Keys /\ status[work[v]] \in {"RUNNING"} \cup Terminal
    BY DEF TypeOK, HeldOnce
  <2>6. \A v \in Workers : wpc[v] \notin Free =>
          status'[work[v]] \in {"RUNNING"} \cup Terminal
    BY <2>5, StatusNext
  <2>7. ASSUME NEW v \in Workers, wpc'[v] \notin Free
        PROVE  /\ status'[work'[v]] \in {"RUNNING"} \cup Terminal
               /\ \A u \in Workers : work'[u] = work'[v] => u = v
    <3>1. CASE v = w
      BY <2>2, <2>3, <2>4, <3>1
    <3>2. CASE v # w
      BY <2>2, <2>3, <2>4, <2>6, <2>7, <3>2 DEF HeldOnce
    <3>3. QED
      BY <3>1, <3>2
  <2>8. QED
    BY <2>7 DEF HeldOnce
<1>5. ASSUME NEW w \in Workers,
             \/ StartWorker(w) \/ ReconcileExpired(w) \/ ClaimNothing(w)
             \/ FindBranch(w) \/ StartChild(w) \/ ChildExits(w)
             \/ ChildTimesOut(w) \/ ChildCancelled(w) \/ ExecuteRaises(w)
      PROVE  HeldOnce'
  BY <1>2, <1>5 DEF StartWorker, ReconcileExpired, ClaimNothing, FindBranch,
       StartChild, ChildExits, ChildTimesOut, ChildCancelled, ExecuteRaises,
       Goto, Report, Free
<1>6. ASSUME NEW w \in Workers,
             \/ CreateBranch(w) \/ PreparationFails(w) \/ RecordBranch(w)
             \/ LeaseLost(w) \/ Finish(w) \/ WorkerDies(w)
      PROVE  HeldOnce'
  BY <1>2, <1>3, <1>6 DEF CreateBranch, PreparationFails, RecordBranch,
       LeaseLost, Finish, WorkerDies, Goto, Free
<1>7. CASE \/ UNCHANGED vars
           \/ \E r \in Runs : CreateRun(r) \/ InsertRun(r)
           \/ \E k \in Keys : \/ SubmitBatch(k) \/ InsertBatch(k)
                              \/ QueueBatch(k) \/ HandlerDies(k)
                              \/ RequestCancel(k) \/ LeaseExpires(k)
  BY <1>1, <1>7 DEF vars, worker, CreateRun, InsertRun, SubmitBatch,
       InsertBatch, QueueBatch, HandlerDies, RequestCancel, LeaseExpires
<1>8. QED
  BY <1>4, <1>5, <1>6, <1>7 DEF Next, RunOnce

(* A worker that will report SUCCEEDED had its child exit with 0. *)
LEMMA ReportsNext ==
  ASSUME TypeOK, Reports, [Next]_vars, built \subseteq built'
  PROVE  Reports'
<1>1. CASE UNCHANGED worker
  BY <1>1 DEF worker, Reports
<1>2. ASSUME NEW w \in Workers, NEW stage, Goto(w, stage), stage # "report",
             wpc[w] # "report"
      PROVE  Reports'
  BY <1>2 DEF Goto, Reports, TypeOK
<1>3. ASSUME NEW w \in Workers, NEW stage, Done(w, stage), stage # "report"
      PROVE  Reports'
  BY <1>3 DEF Done, Reports, TypeOK
<1>4. ASSUME NEW w \in Workers, NEW s \in Terminal, Report(w, s),
             s = "SUCCEEDED" => work[w] \in built'
      PROVE  Reports'
  BY <1>4 DEF Report, Reports, TypeOK
<1>5. ASSUME NEW w \in Workers, Claim(w)
      PROVE  Reports'
  <2>1. /\ result' = result
        /\ \A v \in Workers : v # w => wpc'[v] = wpc[v] /\ work'[v] = work[v]
        /\ wpc'[w] = "branch"
    BY <1>5 DEF Claim, TypeOK
  <2>2. result[w] = "NONE"
    BY <1>5 DEF Claim, Reports
  <2>3. QED
    BY <2>1, <2>2 DEF Reports
<1>6. ASSUME NEW w \in Workers,
             \/ StartWorker(w) \/ ReconcileExpired(w) \/ ClaimNothing(w)
             \/ FindBranch(w) \/ StartChild(w) \/ ChildExits(w)
             \/ ChildTimesOut(w) \/ ChildCancelled(w) \/ ExecuteRaises(w)
      PROVE  Reports'
  BY <1>2, <1>4, <1>6 DEF StartWorker, ReconcileExpired, ClaimNothing, FindBranch,
       StartChild, ChildExits, ChildTimesOut, ChildCancelled, ExecuteRaises,
       Terminal, Failures
<1>7. ASSUME NEW w \in Workers,
             \/ CreateBranch(w) \/ PreparationFails(w) \/ RecordBranch(w)
             \/ LeaseLost(w) \/ Finish(w) \/ WorkerDies(w)
      PROVE  Reports'
  BY <1>2, <1>3, <1>7 DEF CreateBranch, PreparationFails, RecordBranch,
       LeaseLost, Finish, WorkerDies
<1>8. CASE \/ UNCHANGED vars
           \/ \E r \in Runs : CreateRun(r) \/ InsertRun(r)
           \/ \E k \in Keys : \/ SubmitBatch(k) \/ InsertBatch(k)
                              \/ QueueBatch(k) \/ HandlerDies(k)
                              \/ RequestCancel(k) \/ LeaseExpires(k)
  BY <1>1, <1>8 DEF vars, CreateRun, InsertRun, SubmitBatch, InsertBatch,
       QueueBatch, HandlerDies, RequestCancel, LeaseExpires, worker
<1>9. QED
  BY <1>5, <1>6, <1>7, <1>8 DEF Next, RunOnce

-----------------------------------------------------------------------------
(* The theorems.                                                           *)

(* The invariant is inductive. *)
LEMMA ControlNext == ControlInv /\ [Next]_vars => ControlInv' /\ StepShape
<1> SUFFICES ASSUME ControlInv, [Next]_vars PROVE ControlInv' /\ StepShape
  OBVIOUS
<1>1. /\ TypeOK
      /\ Reports
      /\ InsertsOnce
  BY DEF ControlInv
<1>2. TypeOK' /\ StepShape /\ HandlerShape /\ built \subseteq built'
  BY <1>1, TypeNext, Shape, HandlersStep, BuiltGrows
<1>3. LedgerOrder' /\ InsertsOnce' /\ PrerequisitesAtInsert'
  BY <1>2, HandlersNext
<1>4. HeldOnce' /\ Reports'
  BY <1>1, <1>2, HoldersNext, ReportsNext
<1>5. OneActiveRun' /\ FailureEndsRun' /\ OneActiveExecution'
  BY <1>2, RunsNext, ExecutionsNext
<1>6. SuccessWasBuilt' /\ PrerequisitesBuilt'
  BY <1>2, BuiltNext
<1>7. QED
  BY <1>2, <1>3, <1>4, <1>5, <1>6 DEF ControlInv

(* The inductive invariant of the control plane holds throughout. *)
THEOREM ControlInvariant == Spec => []ControlInv
<1>1. ControlInv /\ [Next]_vars => ControlInv'
  BY ControlNext
<1>2. QED
  BY <1>1, ControlInit, PTL DEF Spec

(* Every value the control plane keeps has its type, a worker holds an     *)
(* execution exactly while run_once works on one, and an execution has a   *)
(* lease exactly while it is RUNNING.                                      *)
THEOREM TypeCorrect == Spec => []TypeOK
<1>1. ControlInv => TypeOK
  BY DEF ControlInv
<1>2. QED
  BY <1>1, ControlInvariant, PTL

(* Admission: at most one run is active, and none that has a failed,       *)
(* cancelled or orphaned batch, whatever handlers and workers interleave.  *)
THEOREM RunsHold == Spec => [](OneActiveRun /\ FailureEndsRun)
<1>1. ControlInv => OneActiveRun /\ FailureEndsRun
  BY DEF ControlInv
<1>2. QED
  BY <1>1, ControlInvariant, PTL

(* At most one active execution of each batch of a run. *)
THEOREM OneActiveExecutionHolds == Spec => []OneActiveExecution
<1>1. ControlInv => OneActiveExecution
  BY DEF ControlInv
<1>2. QED
  BY <1>1, ControlInvariant, PTL

(* SUCCEEDED means built, and what is admitted has its prerequisites built. *)
THEOREM BuildsHold == Spec => [](SuccessWasBuilt /\ PrerequisitesBuilt)
<1>1. ControlInv => SuccessWasBuilt /\ PrerequisitesBuilt
  BY DEF ControlInv
<1>2. QED
  BY <1>1, ControlInvariant, PTL

(* No record of an execution is ever revived. *)
THEOREM NeverRevivedHolds == Spec => NeverRevived
<1>1. ASSUME ControlInv, [Next]_vars
      PROVE  \A k \in Keys :
               /\ status[k] \in Terminal => status'[k] = status[k]
               /\ status[k] = "RUNNING" =>
                    status'[k] \in {"RUNNING"} \cup Terminal
  BY <1>1, ControlNext, StatusNext DEF ControlInv
<1>2. QED
  BY <1>1, ControlInvariant, PTL DEF Spec, NeverRevived

(* When every batch of a run has one key, as the keys of the Airflow DAG   *)
(* do, no two children ever build the same batch of a run.                 *)
THEOREM OneBuilderHolds ==
  ASSUME \A j, k \in Keys : Sibling(j) = Sibling(k) => j = k
  PROVE  Spec => []OneBuilder
<1>1. ControlInv => OneBuilder
  <2> SUFFICES ASSUME ControlInv, NEW j \in Keys, NEW k \in Keys,
                      NEW v \in Writers(j), NEW w \in Writers(k),
                      Sibling(j) = Sibling(k)
               PROVE  v = w
    BY DEF OneBuilder
  <2>1. j = k
    OBVIOUS
  <2>2. /\ v \in Workers /\ w \in Workers
        /\ work[v] = work[w] /\ wpc[w] \notin Free
    BY <2>1 DEF Writers, Free
  <2>3. QED
    BY <2>2 DEF ControlInv, HeldOnce
<1>2. QED
  BY <1>1, ControlInvariant, PTL

=============================================================================
