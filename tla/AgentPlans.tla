----------------------------- MODULE AgentPlans -----------------------------
(* MultiAgentOrchestrator: a plan of agent steps with dependencies is        *)
(* validated depth first and run step by step, with a policy guard before    *)
(* the plan, before each step and before the answer.                         *)
EXTENDS Naturals, Sequences, SequencesExt, Functions

CONSTANTS
  Plans,      \* plans: [ids : sequence of step ids, deps : id -> sequence of ids,
              \* known : whether every step is of one of KNOWN_AGENTS]
  MaxSteps, MaxDepth, MaxTotalTools,  \* of the ExecutionContext
  HandlerCalls                        \* tool calls a handler may report

(* StepStatus *)
StepStatuses ==
  {"PENDING", "RUNNING", "FAILED", "DENIED", "REQUIRES_APPROVAL", "COMPLETED", "SKIPPED"}

(* AgentPlan: the ids of the steps in order, and a sequence of dependencies *)
(* for each of them.                                                        *)
IsPlan(p) ==
  /\ p.ids \in Seq(ToSet(p.ids))
  /\ \A id \in ToSet(p.ids) : p.deps[id] \in Seq(ToSet(p.deps[id]))

ASSUME PlanAssumption ==
  /\ \A p \in Plans : IsPlan(p)
  /\ {MaxSteps, MaxDepth, MaxTotalTools} \cup HandlerCalls \subseteq Nat

VARIABLES
  plan,
  phase,    \* "precheck", "validate", "run", "return" or "done"
  stack,    \* the nested calls of visit: [id, next : index of the next dependency]
  visited,
  ordered,  \* the order in which the steps are run
  cursor,   \* index of the step that is next
  results,  \* status of each step that has one
  totalTools, \* total_tools
  status    \* of the result; "raised" when an exception leaves execute

planVars == <<plan, phase, stack, visited, ordered, cursor, results, totalTools, status>>

(* DeterministicPlanner.plan: what the words of an objective lead to ... *)
Routes ==
  { <<a>> : a \in {"knowledge", "governance", "data_quality", "insight",
                   "data_discovery", "analytics", "visualization", "dashboard"} }
  \cup { <<"data_discovery", "analytics", "visualization", "dashboard">>,
         <<"data_discovery", "analytics", "visualization">>,
         <<"governance", "analytics">>, <<"knowledge", "analytics">> }

(* ... as a chain, but for the two independent branches of a hybrid one. *)
Planned(agents) ==
  [known |-> TRUE,
   ids  |-> [i \in 1 .. Len(agents) |-> i],
   deps |-> [i \in 1 .. Len(agents) |->
               IF i = 1 \/ agents = <<"knowledge", "analytics">> THEN <<>> ELSE <<i - 1>>]]

(* The plans execute may be given: its own, and those of another planner. *)
AllPlans == Plans \cup {Planned(agents) : agents \in Routes}

Ids == ToSet(plan.ids)

Deps(id) == ToSet(plan.deps[id])

Decisions == {"ALLOW", "MASK", "DENY", "REQUIRE_APPROVAL"}

(* A step is refused with the status of its decision. *)
Refusal(decision) == IF decision = "DENY" THEN "DENIED" ELSE "REQUIRES_APPROVAL"

Refused(decision) == decision \in {"DENY", "REQUIRE_APPROVAL"}

PlanInit ==
  /\ plan \in AllPlans
  /\ phase = "precheck" /\ stack = <<>> /\ visited = {} /\ ordered = <<>>
  /\ cursor = 1 /\ results = <<>> /\ totalTools = 0 /\ status = "none"

End(s) == phase' = "done" /\ status' = s

(* The guard is asked before there is a plan. *)
Precheck(decision) ==
  /\ phase = "precheck"
  /\ \/ Refused(decision) /\ End(Refusal(decision))
     \/ ~Refused(decision) /\ phase' = "validate" /\ UNCHANGED status
  /\ UNCHANGED <<plan, stack, visited, ordered, cursor, results, totalTools>>

WellFormed ==
  /\ Len(plan.ids) <= MaxSteps
  /\ IsInjective(plan.ids)
  /\ plan.known
  /\ \A id \in Ids : Deps(id) \subseteq Ids

Malformed ==
  /\ phase = "validate" /\ ~WellFormed
  /\ End("raised")
  /\ UNCHANGED <<plan, stack, visited, ordered, cursor, results, totalTools>>

Visiting == {stack[i].id : i \in 1 .. Len(stack)}

(* Mutant: a step that is being visited is entered again. *)
EnterAgain(id, below) ==
  \/ /\ Len(below) + 1 > MaxDepth
     /\ End("raised") /\ UNCHANGED stack
  \/ /\ Len(below) + 1 <= MaxDepth
     /\ stack' = IF id \in visited \cup Visiting THEN below
                 ELSE Append(below, [id |-> id, next |-> 1])
     /\ UNCHANGED <<phase, status>>

(* visit(id), called from the top of the stack below: too deep, on a cycle, *)
(* done before, or new.                                                     *)
Enter(id, below) ==
  \/ /\ Len(below) + 1 > MaxDepth \/ id \in Visiting
     /\ End("raised") /\ UNCHANGED stack
  \/ /\ Len(below) + 1 <= MaxDepth /\ id \notin Visiting
     /\ stack' = IF id \in visited THEN below
                 ELSE Append(below, [id |-> id, next |-> 1])
     /\ UNCHANGED <<phase, status>>

(* for step_id in ids: visit(step_id, 1) *)
VisitNext ==
  /\ phase = "validate" /\ WellFormed /\ stack = <<>> /\ cursor <= Len(plan.ids)
  /\ Enter(plan.ids[cursor], <<>>)
  /\ cursor' = cursor + 1
  /\ UNCHANGED <<plan, visited, ordered, results, totalTools>>

(* for dependency in ...: visit(dependency, depth + 1) *)
VisitDependency ==
  /\ phase = "validate" /\ stack # <<>>
  /\ Last(stack).next <= Len(plan.deps[Last(stack).id])
  /\ Enter(plan.deps[Last(stack).id][Last(stack).next],
           [stack EXCEPT ![Len(stack)].next = @ + 1])
  /\ UNCHANGED <<plan, visited, ordered, cursor, results, totalTools>>

(* All the dependencies are visited: the step follows them. *)
Leave ==
  /\ phase = "validate" /\ stack # <<>>
  /\ Last(stack).next > Len(plan.deps[Last(stack).id])
  /\ visited' = visited \cup {Last(stack).id}
  /\ ordered' = Append(ordered, Last(stack).id)
  /\ stack' = Front(stack)
  /\ UNCHANGED <<plan, phase, cursor, results, totalTools, status>>

Validated ==
  /\ phase = "validate" /\ WellFormed /\ stack = <<>> /\ cursor > Len(plan.ids)
  /\ phase' = "run" /\ cursor' = 1
  /\ UNCHANGED <<plan, stack, visited, ordered, results, totalTools, status>>

NextStep == ordered[cursor]

Record(s) ==
  /\ results' = [id \in DOMAIN results \cup {NextStep} |-> IF id = NextStep THEN s ELSE results[id]]
  /\ cursor' = cursor + 1

(* The elapsed time is looked at before each step. *)
OutOfTime ==
  /\ phase = "run" /\ cursor <= Len(ordered)
  /\ End("raised")
  /\ UNCHANGED <<plan, stack, visited, ordered, cursor, results, totalTools>>

Blocked == \E d \in Deps(NextStep) : results[d] # "COMPLETED"

Skip ==
  /\ phase = "run" /\ cursor <= Len(ordered) /\ Blocked
  /\ Record("SKIPPED")
  /\ UNCHANGED <<plan, phase, stack, visited, ordered, totalTools, status>>

RefuseStep(decision) ==
  /\ phase = "run" /\ cursor <= Len(ordered) /\ ~Blocked
  /\ Refused(decision)
  /\ Record(Refusal(decision))
  /\ UNCHANGED <<plan, phase, stack, visited, ordered, totalTools, status>>

(* The handler returns a result of any status, raises (FAILED without       *)
(* calls), or is not there.  Too many calls in all raise before the result  *)
(* is kept.                                                                 *)
Handle(n, s) ==
  /\ phase = "run" /\ cursor <= Len(ordered) /\ ~Blocked
  /\ totalTools' = totalTools + n
  /\ \/ totalTools + n > MaxTotalTools /\ End("raised") /\ UNCHANGED <<cursor, results>>
     \/ totalTools + n <= MaxTotalTools /\ Record(s) /\ UNCHANGED <<phase, status>>
  /\ UNCHANGED <<plan, stack, visited, ordered>>

Statuses == {results[id] : id \in DOMAIN results}

(* The status of the whole, by the worst of the steps and the last guard. *)
Overall(decision) ==
  CASE decision = "DENY" \/ "DENIED" \in Statuses -> "DENIED"
    [] /\ ~(decision = "DENY" \/ "DENIED" \in Statuses)
       /\ decision = "REQUIRE_APPROVAL" \/ "REQUIRES_APPROVAL" \in Statuses ->
         "REQUIRES_APPROVAL"
    [] OTHER -> IF Statuses = {"COMPLETED"} THEN "COMPLETED"
                ELSE IF "COMPLETED" \in Statuses THEN "PARTIAL" ELSE "FAILED"

ReturnResult(decision) ==
  /\ phase = "run" /\ cursor > Len(ordered)
  /\ End(Overall(decision))
  /\ UNCHANGED <<plan, stack, visited, ordered, cursor, results, totalTools>>

PlanNext ==
  \/ Malformed \/ VisitNext \/ VisitDependency \/ Leave \/ Validated
  \/ OutOfTime \/ Skip
  \/ \E d \in Decisions : Precheck(d) \/ RefuseStep(d) \/ ReturnResult(d)
  \/ \E n \in HandlerCalls, s \in StepStatuses : Handle(n, s)

PlanSpec == PlanInit /\ [][PlanNext]_planVars

PlanFairSpec == PlanSpec /\ WF_planVars(PlanNext)

-----------------------------------------------------------------------------
(* Properties *)

PlanTypeOK ==
  /\ plan \in AllPlans
  /\ phase \in {"precheck", "validate", "run", "done"}
  /\ visited \subseteq Ids /\ ToSet(ordered) = visited
  /\ DOMAIN results \subseteq visited
  /\ status \in {"none", "raised", "DENIED", "REQUIRES_APPROVAL", "COMPLETED",
                 "PARTIAL", "FAILED"}

(* What comes out of validate_plan is every step once, after everything it  *)
(* depends on: a plan with a cycle is never run, however it is listed.      *)
RunInOrder ==
  phase = "run" =>
    /\ ToSet(ordered) = Ids /\ Len(ordered) = Len(plan.ids)
    /\ \A i \in 1 .. Len(ordered) :
         Deps(ordered[i]) \subseteq {ordered[k] : k \in 1 .. i - 1}

(* A step has completed only if everything below it has: no chain of steps  *)
(* goes on past one that failed, was refused or was skipped.                *)
CompletedBelow ==
  \A id \in DOMAIN results : results[id] = "COMPLETED" =>
    \A d \in Deps(id) : d \in DOMAIN results /\ results[d] = "COMPLETED"

(* A plan that ends without an exception stayed within its tool calls, and  *)
(* is COMPLETED only when each of its steps is.                             *)
OutcomeTrue ==
  phase = "done" /\ status # "raised" =>
    /\ totalTools <= MaxTotalTools
    /\ status = "COMPLETED" => DOMAIN results = Ids /\ Statuses = {"COMPLETED"}
    /\ "DENIED" \in Statuses => status = "DENIED"

(* multi_agent.py: only acyclic plans run, in an order of their              *)
(* dependencies, no step completes above one that did not, and the status    *)
(* of the whole is that of its steps.                                        *)
PlanKept == PlanTypeOK /\ RunInOrder /\ CompletedBelow /\ OutcomeTrue

(* Every plan ends, a circular one too. *)
PlanEnds == <>(phase = "done")
=============================================================================
