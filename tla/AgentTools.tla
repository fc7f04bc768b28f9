----------------------------- MODULE AgentTools -----------------------------
(* Tool calls of the agent API (tools.ToolRegistry): every tool of a request *)
(* runs on one thread pool that all requests share, with a deadline and      *)
(* retries, and counts against the limit of its request.  Some tools call    *)
(* further tools from the worker they run on, and a worker whose caller has  *)
(* given up goes on.                                                         *)
EXTENDS Naturals, Sequences, FiniteSets, Functions

CONSTANTS
  Requests,      \* requests, each with a ToolRegistry of its own
  Jobs,          \* futures of the pool that exist at a time
  NoJob,
  AgentsOf,      \* the agents each request may be for
  PoolSize,      \* max_workers of _TOOL_EXECUTOR
  MaxRetries,    \* settings.tool_max_retries
  MaxToolCalls,  \* settings.max_tool_calls
  Described,     \* tables a discovery describes (at most ten)
  Charts,        \* visualizations recommended for a data source
  Rules          \* data quality rules of a request (dq_max_rules_per_request)

(* AgentRequest.agent: the agents that call tools; and /dq/profile, which    *)
(* calls one without an agent.                                               *)
AgentKeys ==
  {"data_discovery", "analytics", "visualization", "dashboard", "data_quality", "insight",
   "dq_profile"}

ASSUME PoolAssumption ==
  /\ PoolSize \in Nat \ {0}
  /\ MaxRetries \in Nat
  /\ MaxToolCalls \in Nat \ {0}
  /\ {Described, Charts, Rules} \subseteq Nat
  /\ Requests \cap Jobs = {} /\ NoJob \notin Requests \cup Jobs
  /\ IsFiniteSet(Requests) /\ IsFiniteSet(Jobs)
  /\ AgentsOf \in [Requests -> SUBSET AgentKeys]

VARIABLES
  handler,  \* its handler: "running", "completed" or "failed"
  calls,    \* len(tools.calls)
  job,      \* the state of each future, the request and the tool it is of
  queue,    \* futures the pool has not started
  todo,     \* per thread: the tools it has still to call
  checked,  \* per thread: it has passed the limit and not yet reserved
  waits,    \* per thread: the future it waits for
  tries,    \* per thread: attempts of its current call
  spent,    \* ghost, per request: futures submitted
  lapsed    \* ghost, per request: deadlines that have passed

vars == <<handler, calls, job, queue, todo, checked, waits, tries, spent, lapsed>>

(* The handler of a request, or the worker that runs a future. *)
Threads == Requests \cup Jobs

Repeat(n, tool) == [i \in 1 .. n |-> tool]

(* DataDiscoveryAgent.run *)
Discovery == <<"metadata.search">> \o Repeat(Described, "metadata.describe_table")

(* execute_query: the validation is a call of its own. *)
Query == <<"query.validate", "query.execute">>

(* AnalyticsAgent.run *)
Analytics == Discovery \o Query \o <<"builder.datasource.build">>

(* VisualizationAgent.run *)
Visualization == Analytics \o Repeat(Charts, "builder.visualization.build")

(* DataQualityAgent.run: the summary of existing results, or the rules. *)
DataQuality ==
  { <<"dq.summary">>, <<"dq.list_rules">> \o Repeat(Rules, "dq.run_rule") }

(* InsightAgent.run, of a given dataset or of what is discovered. *)
Insight ==
  { <<"metadata.describe_table">> \o Query, Discovery \o Query, Analytics }

(* The tools an agent calls when nothing fails, one after the other. *)
Programs(a) ==
  CASE a = "data_discovery" -> {Discovery}
    [] a = "analytics"      -> {Analytics}
    [] a = "visualization"  -> {Visualization}
    [] a = "dashboard"      -> {Visualization \o <<"builder.dashboard.build">>}
    [] a = "data_quality"   -> DataQuality
    [] a = "insight"        -> Insight
    [] a = "dq_profile"     -> {<<"dq.profile">>}

(* DataQualityEngine.run_rule: the sample is read of failed rules only; the *)
(* reference of a referential rule is described and has no sample.          *)
RunRule ==
  { <<"metadata.describe_table">> \o Query,
    <<"metadata.describe_table">> \o Query \o Query,
    <<"metadata.describe_table", "metadata.describe_table">> \o Query }

(* What a tool calls from the worker it runs on. *)
Nested(tool) ==
  CASE tool = "builder.datasource.build" -> {<<"metadata.describe_table">>}
    [] tool = "dq.run_rule" -> RunRule
    [] tool \in {"dq.summary", "dq.profile"} -> {<<"metadata.describe_table">> \o Query}
    [] OTHER -> {<<>>}

RequestOf(t) == IF t \in Requests THEN t ELSE job[t].req

Free == [state |-> "free", req |-> NoJob, tool |-> "none"]

(* The thread executes code, and is not inside a call. *)
Active(t) ==
  /\ IF t \in Requests THEN handler[t] = "running" ELSE job[t].state = "running"
  /\ waits[t] = NoJob

Running == {j \in Jobs : job[j].state = "running"}

Init ==
  /\ handler = [r \in Requests |-> "running"]
  /\ calls = [r \in Requests |-> 0]
  /\ job = [j \in Jobs |-> Free]
  /\ queue = <<>>
  /\ \E f \in [Requests -> UNION {Programs(a) : a \in UNION Range(AgentsOf)}] :
       /\ \A r \in Requests : \E a \in AgentsOf[r] : f[r] \in Programs(a)
       /\ todo = [t \in Threads |-> IF t \in Requests THEN f[t] ELSE <<>>]
  /\ checked = [t \in Threads |-> FALSE]
  /\ waits = [t \in Threads |-> NoJob]
  /\ tries = [t \in Threads |-> 0]
  /\ spent = [r \in Requests |-> 0]
  /\ lapsed = [r \in Requests |-> 0]

-----------------------------------------------------------------------------
(* Ends of a thread *)

(* The future of a worker is resolved with a result or an exception.  Nobody *)
(* looks at it any more when its caller has given up.                        *)
Resolve(j, outcome) ==
  /\ job' = [job EXCEPT ![j] =
       IF \E t \in Threads : waits[t] = j THEN [@ EXCEPT !.state = outcome] ELSE Free]
  /\ UNCHANGED handler

(* An exception leaves the thread: it fails the future, or the request,     *)
(* whose handler answers with it.                                           *)
Raises(t, outcome) ==
  /\ todo' = [todo EXCEPT ![t] = <<>>]
  /\ IF t \in Requests
     THEN handler' = [handler EXCEPT ![t] = "failed"] /\ UNCHANGED job
     ELSE Resolve(t, outcome)

(* The function has no further tool to call.  A query or a metadata call may *)
(* fail on its connection, and any function may refuse its input.            *)
Finish(j, outcome) ==
  /\ j \in Jobs /\ Active(j) /\ todo[j] = <<>>
  /\ outcome = "transient" => Nested(job[j].tool) = {<<>>}
  /\ Resolve(j, outcome)
  /\ UNCHANGED <<calls, queue, todo, checked, waits, tries, spent, lapsed>>

(* The agent has all its results. *)
Answer(r) ==
  /\ r \in Requests /\ Active(r) /\ todo[r] = <<>>
  /\ handler' = [handler EXCEPT ![r] = "completed"]
  /\ UNCHANGED <<calls, job, queue, todo, checked, waits, tries, spent, lapsed>>

(* The code between two calls raises: a permission, a governance decision,  *)
(* a statement that does not validate, an unknown column.                   *)
Refuse(t) ==
  /\ Active(t) /\ ~checked[t] /\ todo[t] # <<>>
  /\ Raises(t, "permanent")
  /\ UNCHANGED <<calls, queue, checked, waits, tries, spent, lapsed>>

-----------------------------------------------------------------------------
(* _call *)

(* Mutant: the limit is tested with ">". *)
CheckLimitOffByOne(t) ==
  /\ Active(t) /\ ~checked[t] /\ todo[t] # <<>>
  /\ IF calls[RequestOf(t)] > MaxToolCalls
     THEN Raises(t, "permanent") /\ UNCHANGED checked
     ELSE checked' = [checked EXCEPT ![t] = TRUE] /\ UNCHANGED <<handler, job, todo>>
  /\ UNCHANGED <<calls, queue, waits, tries, spent, lapsed>>

(* len(self.calls) is compared with the limit ... *)
CheckLimit(t) ==
  /\ Active(t) /\ ~checked[t] /\ todo[t] # <<>>
  /\ IF calls[RequestOf(t)] >= MaxToolCalls
     THEN Raises(t, "permanent") /\ UNCHANGED checked
     ELSE checked' = [checked EXCEPT ![t] = TRUE] /\ UNCHANGED <<handler, job, todo>>
  /\ UNCHANGED <<calls, queue, waits, tries, spent, lapsed>>

(* _execute_bounded: the function is submitted to the pool. *)
Submit(t, futures) ==
  LET j == CHOOSE i \in Jobs : futures[i].state = "free"
  IN /\ \E i \in Jobs : futures[i].state = "free"
     /\ job' = [futures EXCEPT ![j] =
          [state |-> "queued", req |-> RequestOf(t), tool |-> Head(todo[t])]]
     /\ queue' = Append(queue, j)
     /\ waits' = [waits EXCEPT ![t] = j]
     /\ tries' = [tries EXCEPT ![t] = @ + 1]
     /\ spent' = [spent EXCEPT ![RequestOf(t)] = @ + 1]

(* ... and the call is reserved, then tried for the first time. *)
Reserve(t) ==
  /\ Active(t) /\ checked[t]
  /\ calls' = [calls EXCEPT ![RequestOf(t)] = @ + 1]
  /\ checked' = [checked EXCEPT ![t] = FALSE]
  /\ Submit(t, job)
  /\ UNCHANGED <<handler, todo, lapsed>>

(* A worker of the pool takes the oldest future. *)
Start ==
  /\ queue # <<>>
  /\ Cardinality(Running) < PoolSize
  /\ job' = [job EXCEPT ![Head(queue)].state = "running"]
  /\ \E p \in Nested(job[Head(queue)].tool) :
       todo' = [todo EXCEPT ![Head(queue)] = p]
  /\ queue' = Tail(queue)
  /\ UNCHANGED <<handler, calls, checked, waits, tries, spent, lapsed>>

(* The call returns to its caller, which goes on to its next one. *)
Return(t) ==
  /\ waits[t] # NoJob /\ job[waits[t]].state = "ok"
  /\ job' = [job EXCEPT ![waits[t]] = Free]
  /\ waits' = [waits EXCEPT ![t] = NoJob]
  /\ tries' = [tries EXCEPT ![t] = 0]
  /\ todo' = [todo EXCEPT ![t] = Tail(@)]
  /\ UNCHANGED <<handler, calls, queue, checked, spent, lapsed>>

(* not self._is_transient(exc) or attempts > max_retries *)
MayRetry(t, outcome) == outcome = "transient" /\ tries[t] <= MaxRetries

(* An attempt of t has failed, and futures is what is left of the pool. *)
Failed(t, outcome, futures) ==
  \/ /\ MayRetry(t, outcome)
     /\ Submit(t, futures)
     /\ UNCHANGED <<handler, todo>>
  \/ /\ ~MayRetry(t, outcome)
     /\ waits' = [waits EXCEPT ![t] = NoJob]
     /\ tries' = [tries EXCEPT ![t] = 0]
     /\ todo' = [todo EXCEPT ![t] = <<>>]
     /\ IF t \in Requests
        THEN /\ handler' = [handler EXCEPT ![t] = "failed"]
             /\ job' = futures
        ELSE /\ job' = [futures EXCEPT ![t] =
                  IF \E u \in Threads : waits[u] = t
                  THEN [@ EXCEPT !.state = outcome] ELSE Free]
             /\ UNCHANGED handler
     /\ UNCHANGED <<queue, spent>>

(* The future holds an exception. *)
Catch(t) ==
  /\ waits[t] # NoJob /\ job[waits[t]].state \in {"transient", "permanent"}
  /\ Failed(t, job[waits[t]].state, [job EXCEPT ![waits[t]] = Free])
  /\ UNCHANGED <<calls, checked, lapsed>>

(* Mutant: future.result is called without a timeout. *)
NoDeadline(t) == FALSE /\ UNCHANGED vars

(* The deadline passes first: ToolTimeout is transient, and the future is   *)
(* left in the pool as it is, in the queue or on its worker.                *)
Deadline(t) ==
  /\ waits[t] # NoJob /\ job[waits[t]].state \in {"queued", "running"}
  /\ lapsed' = [lapsed EXCEPT ![RequestOf(t)] = @ + 1]
  /\ Failed(t, "transient", job)
  /\ UNCHANGED <<calls, checked>>

(* The deadline has passed and the future is done by the time it is looked   *)
(* at, with a result: future.exception() is None, and to raise that is a     *)
(* TypeError, which is not transient.                                        *)
LateResult(t) ==
  /\ waits[t] # NoJob /\ job[waits[t]].state = "ok"
  /\ Failed(t, "permanent", [job EXCEPT ![waits[t]] = Free])
  /\ UNCHANGED <<calls, checked, lapsed>>

Step(t) ==
  \/ CheckLimit(t) \/ Reserve(t) \/ Return(t) \/ Catch(t) \/ Deadline(t) \/ LateResult(t)
  \/ Answer(t)

Next ==
  \/ Start
  \/ \E t \in Threads : Step(t) \/ Refuse(t)
  \/ \E j \in Jobs, outcome \in {"ok", "transient", "permanent"} : Finish(j, outcome)

Spec == Init /\ [][Next]_vars

(* Threads run and deadlines pass.  Nothing is assumed of Trino or the       *)
(* metadata: a function may never return.                                    *)
FairSpec == Spec /\ \A t \in Threads : WF_vars(Step(t))

-----------------------------------------------------------------------------
(* Properties *)

TypeOK ==
  /\ handler \in [Requests -> {"running", "completed", "failed"}]
  /\ calls \in [Requests -> Nat] /\ spent \in [Requests -> Nat]
  /\ lapsed \in [Requests -> Nat]
  /\ \A j \in Jobs :
       /\ job[j].state \in {"free", "queued", "running", "ok", "transient", "permanent"}
       /\ job[j].state = "free" <=> job[j].req \notin Requests
  /\ \A t \in Threads : waits[t] \in Jobs \cup {NoJob} /\ tries[t] \in 0 .. MaxRetries + 1
  /\ \A i \in 1 .. Len(queue) : job[queue[i]].state = "queued"
  /\ \A i, k \in 1 .. Len(queue) : queue[i] = queue[k] => i = k

(* "Reserve the call before execution so nested controlled operations cannot *)
(* bypass the global request limit": the calls of a request, nested ones     *)
(* included, exceed the limit by no more than the workers it has abandoned,  *)
(* which race its own thread between the test and the reservation.           *)
CallsLimited == \A r \in Requests : calls[r] <= MaxToolCalls + lapsed[r]

(* Retries included, the functions a request has run are bounded by its     *)
(* reserved calls: a retried call that retries inside is counted inside.     *)
WorkBounded == \A r \in Requests : spent[r] <= calls[r] * (1 + MaxRetries)

(* When no deadline has lapsed, nothing of a request is in the pool after    *)
(* its handler has answered.                                                 *)
NothingLeftBehind ==
  \A r \in Requests :
    handler[r] # "running" /\ lapsed[r] = 0 => \A j \in Jobs : job[j].req # r

(* tools.ToolRegistry: whatever calls, retries, deadlines and abandoned      *)
(* workers interleave, a request keeps to its limits but for the race of     *)
(* workers it gave up, and leaves nothing in the pool if it gave up none.    *)
ToolsBounded == TypeOK /\ CallsLimited /\ WorkBounded /\ NothingLeftBehind

(* A worker that waits for a future of its own pool may wait behind itself:  *)
(* whatever the pool and the functions do, every request is answered.        *)
RequestEnds == \A r \in Requests : handler[r] = "running" ~> handler[r] # "running"

(* If functions return, what the requests have left in the queue of the pool *)
(* is worked off although every worker may hold a caller of a queued future. *)
QueueDrains ==
  /\ WF_vars(Start)
  /\ WF_vars(\E j \in Jobs, outcome \in {"ok", "transient", "permanent"} :
               Finish(j, outcome))
  => <>[](queue = <<>>)
=============================================================================
