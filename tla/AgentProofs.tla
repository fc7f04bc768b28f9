----------------------------- MODULE AgentProofs -----------------------------
(* The agent API, for any plans, limits, queries, bindings, approvals and    *)
(* dashboards: plans run in an order of their dependencies, governed reads   *)
(* stay within what the server binds and the registry has approved, what is  *)
(* published to Superset is approved, whole and truly reported, and tool     *)
(* calls stay within their limits.                                           *)
EXTENDS AgentPlans, AgentGovernance, BiPublication, AgentTools, FiniteSetTheorems,
        SequenceTheorems, WellFoundedInduction, TLAPS

-----------------------------------------------------------------------------
(* Plans.  validate_plan is a depth first search whose nested calls are the  *)
(* stack: what is on it is not visited yet, and what a frame has done is     *)
(* visited or in the frame above it.                                         *)


Frames == [id : Ids, next : Nat \ {0}]

PlanTypes ==
  /\ plan \in AllPlans
  /\ phase \in {"precheck", "validate", "run", "done"}
  /\ stack \in Seq(Frames)
  /\ visited \subseteq Ids
  /\ ordered \in Seq(Ids)
  /\ cursor \in Nat \ {0}
  /\ results \in [DOMAIN results -> StepStatuses]
  /\ totalTools \in Nat
  /\ status \in {"none", "raised"} \cup (StepStatuses \ {"SKIPPED", "PENDING", "RUNNING"}) \cup {"PARTIAL"}

(* What has been ordered is what is visited, each once and after its        *)
(* dependencies.                                                            *)
Sorted ==
  /\ ToSet(ordered) = visited
  /\ IsInjective(ordered)
  /\ \A i \in DOMAIN ordered : \A d \in Deps(ordered[i]) :
       \E k \in 1 .. i - 1 : ordered[k] = d

(* The dependency k of a frame is behind it. *)
Behind(i, k) ==
  LET d == plan.deps[stack[i].id][k] IN
  d \in visited \/ (i < Len(stack) /\ stack[i + 1].id = d)

StackTrue ==
  /\ stack # <<>> => WellFormed
  /\ \A i \in DOMAIN stack : stack[i].id \notin visited
  /\ \A i, j \in DOMAIN stack : stack[i].id = stack[j].id => i = j
  /\ \A i \in DOMAIN stack : \A k \in DOMAIN plan.deps[stack[i].id] :
       k < stack[i].next => Behind(i, k)

(* The step k of the plan is behind the loop over all steps. *)
Reached(k) == plan.ids[k] \in visited \/ (stack # <<>> /\ stack[1].id = plan.ids[k])

PhaseTrue ==
  /\ phase = "precheck" => cursor = 1
  /\ phase = "validate" => \A k \in DOMAIN plan.ids : k < cursor => Reached(k)
  /\ phase \in {"precheck", "validate"} => DOMAIN results = {} /\ totalTools = 0
  /\ phase = "run" =>
       /\ stack = <<>> /\ WellFormed /\ visited = Ids
       /\ cursor <= Len(ordered) + 1
       /\ DOMAIN results = {ordered[k] : k \in 1 .. cursor - 1}
       /\ totalTools <= MaxTotalTools
  /\ DOMAIN results \subseteq visited

PlanInv == PlanTypes /\ Sorted /\ StackTrue /\ PhaseTrue /\ CompletedBelow /\ OutcomeTrue

(* The plans of the planner are plans. *)
LEMMA PlannedIsPlan == \A agents \in Routes : IsPlan(Planned(agents))
<1> SUFFICES ASSUME NEW agents \in Routes
             PROVE  IsPlan(Planned(agents))
  OBVIOUS
<1> DEFINE n == Len(agents)
           ids == [i \in 1 .. n |-> i]
           deps == [i \in 1 .. n |->
                      IF i = 1 \/ agents = <<"knowledge", "analytics">> THEN <<>> ELSE <<i - 1>>]
<1>1. n \in Nat
  BY DEF Routes
<1> HIDE DEF n
<1>2. ids \in Seq(1 .. n) /\ ToSet(ids) = 1 .. n
  <2>1. ids \in [1 .. n -> 1 .. n] /\ DOMAIN ids = 1 .. n
    OBVIOUS
  <2>2. ids \in Seq(1 .. n)
    BY <1>1, <2>1, SeqDef
  <2>3. QED
    BY <2>2 DEF ToSet
<1>3. ASSUME NEW i \in 1 .. n
      PROVE  deps[i] \in Seq(ToSet(deps[i]))
  <2>1. deps[i] = <<>> \/ deps[i] = <<i - 1>>
    OBVIOUS
  <2>2. <<>> \in Seq(ToSet(<<>>)) /\ <<i - 1>> \in Seq(ToSet(<<i - 1>>))
    BY DEF ToSet
  <2>3. QED
    BY <2>1, <2>2
<1>4. Planned(agents) = [known |-> TRUE, ids |-> ids, deps |-> deps]
  BY DEF Planned, n
<1> HIDE DEF ids, deps
<1>5. Planned(agents).ids = ids /\ Planned(agents).deps = deps
  BY <1>4
<1>6. QED
  BY <1>2, <1>3, <1>5 DEF IsPlan

LEMMA PlanShape ==
  ASSUME plan \in AllPlans
  PROVE  /\ plan.ids \in Seq(Ids)
         /\ \A id \in Ids : plan.deps[id] \in Seq(Deps(id))
         /\ \A id \in Ids : \A k \in DOMAIN plan.deps[id] : plan.deps[id][k] \in Deps(id)
         /\ \A k \in DOMAIN plan.ids : plan.ids[k] \in Ids
<1>1. IsPlan(plan)
  BY PlannedIsPlan, PlanAssumption DEF AllPlans
<1>2. QED
  BY <1>1 DEF IsPlan, Ids, Deps, ToSet

LEMMA PlanInvInit == PlanInit => PlanInv
<1> SUFFICES ASSUME PlanInit
             PROVE  PlanInv
  OBVIOUS
<1> USE DEF PlanInit
<1>1. PlanTypes
  BY DEF PlanTypes
<1>2. Sorted
  BY DEF Sorted, ToSet, IsInjective
<1>3. StackTrue
  BY DEF StackTrue
<1>4. PhaseTrue
  BY PlanAssumption DEF PhaseTrue
<1>5. CompletedBelow /\ OutcomeTrue
  BY DEF CompletedBelow, OutcomeTrue
<1>6. QED
  BY <1>1, <1>2, <1>3, <1>4, <1>5 DEF PlanInv

(* The ends of execute, before and after the search. *)
LEMMA EndsKeep ==
  ASSUME PlanInv,
         \/ \E d \in Decisions : Precheck(d)
         \/ Malformed \/ OutOfTime
  PROVE  PlanInv'
<1>0. /\ UNCHANGED <<plan, stack, visited, ordered, cursor, results, totalTools>>
      /\ \/ phase' = "done" /\ status' = "raised"
         \/ /\ phase = "precheck" /\ phase' = "done"
            /\ status' \in {"DENIED", "REQUIRES_APPROVAL"}
         \/ phase = "precheck" /\ phase' = "validate" /\ status' = status
  BY DEF Precheck, Malformed, OutOfTime, End, Refusal
<1>1. PlanTypes'
  BY <1>0 DEF PlanInv, PlanTypes, Frames, Ids, StepStatuses
<1>2. Sorted' /\ StackTrue'
  BY <1>0 DEF PlanInv, Sorted, StackTrue, Deps, Behind, WellFormed, Ids
<1>3. PhaseTrue'
  <2>1. phase' = "validate" => cursor' = 1
    BY <1>0 DEF PlanInv, PhaseTrue
  <2>2. \A k \in DOMAIN plan'.ids : ~(k < 1)
    BY <1>0, PlanShape DEF PlanInv, PlanTypes
  <2>3. QED
    BY <1>0, <2>1, <2>2 DEF PlanInv, PhaseTrue, Reached, WellFormed, Ids, Deps
<1>4. CompletedBelow'
  BY <1>0 DEF PlanInv, CompletedBelow, Deps
<1>5. OutcomeTrue'
  BY <1>0, PlanAssumption DEF PlanInv, OutcomeTrue, PhaseTrue, Statuses
<1>6. QED
  BY <1>1, <1>2, <1>3, <1>4, <1>5 DEF PlanInv

(* What the stack looks like when a frame is pushed and when one is popped. *)
LEMMA Pushed ==
  ASSUME NEW F, NEW s \in Seq(F), NEW f \in F, NEW t, t = Append(s, f)
  PROVE  /\ t \in Seq(F) /\ Len(t) = Len(s) + 1
         /\ t # <<>>
         /\ \A i \in 1 .. Len(s) : t[i] = s[i]
         /\ t[Len(s) + 1] = f
  OBVIOUS

LEMMA Popped ==
  ASSUME NEW F, NEW s \in Seq(F), s # <<>>, NEW t, t = Front(s)
  PROVE  /\ t \in Seq(F) /\ Len(t) = Len(s) - 1
         /\ \A i \in 1 .. Len(s) - 1 : t[i] = s[i]
<1> DEFINE n == Len(s) - 1
<1>1. n \in Nat /\ \A i \in 1 .. n : s[i] \in F
  BY EmptySeq
<1>2. t = SubSeq(s, 1, n)
  BY DEF Front
<1> HIDE DEF n
<1>3. /\ t \in Seq(F)
      /\ Len(t) = IF 1 <= n THEN n - 1 + 1 ELSE 0
      /\ \A i \in 1 .. n - 1 + 1 : t[i] = s[1 + i - 1]
  BY <1>1, <1>2, SubSeqProperties
<1>4. t \in Seq(F) /\ Len(t) = n /\ \A i \in 1 .. n : t[i] = s[i]
  BY <1>1, <1>3
<1>5. QED
  BY <1>4 DEF n

(* A call of visit that orders nothing: it raises, or only the stack moves. *)
LEMMA SearchKeeps ==
  ASSUME PlanInv, phase = "validate",
         UNCHANGED <<plan, visited, ordered, results, totalTools>>,
         \/ phase' = "done" /\ status' = "raised" /\ stack' = stack
         \/ UNCHANGED <<phase, status>>,
         stack' \in Seq(Frames), cursor' \in Nat \ {0}, StackTrue',
         phase' = "validate" => (\A k \in DOMAIN plan.ids : k < cursor => Reached(k))'
  PROVE  PlanInv'
<1>1. PlanTypes'
  BY DEF PlanInv, PlanTypes, Frames, Ids
<1>2. Sorted'
  BY DEF PlanInv, Sorted, Deps
<1>3. PhaseTrue'
  BY DEF PlanInv, PhaseTrue, Ids
<1>4. CompletedBelow'
  BY DEF PlanInv, CompletedBelow, Deps
<1>5. OutcomeTrue'
  BY DEF PlanInv, OutcomeTrue
<1>6. QED
  BY <1>1, <1>2, <1>3, <1>4, <1>5 DEF PlanInv

LEMMA VisitNextKeeps ==
  ASSUME PlanInv, VisitNext
  PROVE  PlanInv'
<1> DEFINE id == plan.ids[cursor]
           f == [id |-> id, next |-> 1]
<1>0. /\ phase = "validate" /\ WellFormed /\ stack = <<>> /\ cursor \in DOMAIN plan.ids
      /\ cursor \in Nat \ {0} /\ cursor' = cursor + 1 /\ id \in Ids
      /\ plan \in AllPlans /\ stack \in Seq(Frames)
      /\ UNCHANGED <<plan, visited, ordered, results, totalTools>>
      /\ DOMAIN plan.ids \subseteq Nat
      /\ WellFormed'
  BY PlanShape DEF PlanInv, PlanTypes, VisitNext, WellFormed, Ids, Deps
<1>1. \A k \in DOMAIN plan.ids : k < cursor => plan.ids[k] \in visited
  BY <1>0 DEF PlanInv, PhaseTrue, Reached
<1>2. CASE phase' = "done" /\ status' = "raised" /\ stack' = stack
  <2>1. StackTrue' /\ stack' \in Seq(Frames)
    BY <1>0, <1>2 DEF StackTrue
  <2>2. QED
    BY <1>0, <1>2, <2>1, SearchKeeps
<1>3. CASE id \in visited /\ stack' = <<>> /\ UNCHANGED <<phase, status>>
  <2>1. StackTrue' /\ stack' \in Seq(Frames)
    BY <1>0, <1>3 DEF StackTrue
  <2>2. (\A k \in DOMAIN plan.ids : k < cursor => Reached(k))'
    BY <1>0, <1>1, <1>3 DEF Reached
  <2>3. QED
    BY <1>0, <1>3, <2>1, <2>2, SearchKeeps
<1>4. CASE id \notin visited /\ stack' = Append(<<>>, f) /\ UNCHANGED <<phase, status>>
  <2>1. f \in Frames /\ f.id = id /\ f.next = 1
    BY <1>0 DEF Frames
  <2>2. stack' \in Seq(Frames) /\ Len(stack') = 1 /\ stack'[1] = f /\ stack' # <<>>
    BY <1>0, <1>4, <2>1
  <2>3. \A k \in DOMAIN plan.deps[id] : k \in Nat \ {0}
    BY <1>0, PlanShape
  <2>4. DOMAIN stack' = {1}
    BY <2>2
  <2>5. StackTrue'
    BY <1>0, <1>4, <2>1, <2>2, <2>3, <2>4 DEF StackTrue
  <2>6. (\A k \in DOMAIN plan.ids : k < cursor => Reached(k))'
    BY <1>0, <1>1, <2>1, <2>2 DEF Reached
  <2>7. QED
    BY <1>0, <1>4, <2>2, <2>5, <2>6, SearchKeeps
<1>5. QED
  BY <1>0, <1>2, <1>3, <1>4 DEF VisitNext, Enter, End

LEMMA VisitDependencyKeeps ==
  ASSUME PlanInv, VisitDependency
  PROVE  PlanInv'
<1> DEFINE n == Len(stack)
           top == stack[n]
           id == plan.deps[top.id][top.next]
           below == [stack EXCEPT ![n].next = @ + 1]
           f == [id |-> id, next |-> 1]
<1>0. /\ phase = "validate" /\ stack # <<>> /\ stack \in Seq(Frames)
      /\ plan \in AllPlans /\ cursor' = cursor /\ cursor \in Nat \ {0}
      /\ UNCHANGED <<plan, visited, ordered, results, totalTools>>
      /\ WellFormed /\ WellFormed'
      /\ top.next <= Len(plan.deps[top.id])
      /\ StackTrue
  BY DEF PlanInv, PlanTypes, StackTrue, VisitDependency, Last, WellFormed, Ids, Deps
<1>1. /\ n \in Nat \ {0} /\ top \in Frames /\ DOMAIN stack = 1 .. n
      /\ \A i \in 1 .. n : stack[i] \in Frames
  BY <1>0, EmptySeq, LenProperties
<1>2. /\ below \in Seq(Frames) /\ Len(below) = n /\ DOMAIN below = 1 .. n
      /\ \A i \in 1 .. n :
           /\ below[i].id = stack[i].id
           /\ below[i].next = IF i = n THEN stack[i].next + 1 ELSE stack[i].next
  <2> DEFINE up == [top EXCEPT !.next = @ + 1]
  <2>1. up \in Frames /\ up.id = top.id /\ up.next = top.next + 1
    BY <1>1 DEF Frames
  <2>2. below = [stack EXCEPT ![n] = up]
    OBVIOUS
  <2> HIDE DEF up, below
  <2>3. /\ below \in Seq(Frames) /\ Len(below) = n
        /\ \A i \in 1 .. n : below[i] = IF i = n THEN up ELSE stack[i]
    BY <1>0, <1>1, <2>1, <2>2, ExceptSeq
  <2>4. QED
    BY <1>1, <2>1, <2>3, LenProperties
<1>3. /\ top.id \in Ids /\ top.next \in Nat \ {0} /\ id \in Ids
      /\ \A i \in 1 .. n : \A k \in DOMAIN plan.deps[stack[i].id] : k \in Nat \ {0}
      /\ \A k \in DOMAIN plan.deps[id] : k \in Nat \ {0}
  <2>1. top.id \in Ids /\ top.next \in Nat \ {0} /\ \A i \in 1 .. n : stack[i].id \in Ids
    BY <1>1 DEF Frames
  <2>2. top.next \in DOMAIN plan.deps[top.id]
    BY <1>0, <2>1, PlanShape
  <2>3. id \in Ids
    BY <1>0, <2>1, <2>2, PlanShape DEF WellFormed
  <2>4. QED
    BY <1>0, <2>1, <2>3, PlanShape
<1>4. \A k \in DOMAIN plan.ids :
        k < cursor => plan.ids[k] \in visited \/ stack[1].id = plan.ids[k]
  BY <1>0 DEF PlanInv, PhaseTrue, Reached
<1> HIDE DEF n, top, id, below
<1>5. CASE phase' = "done" /\ status' = "raised" /\ stack' = stack
  <2>1. StackTrue' /\ stack' \in Seq(Frames)
    BY <1>0, <1>5 DEF StackTrue, Behind
  <2>2. QED
    BY <1>0, <1>5, <2>1, SearchKeeps
<1>6. ASSUME UNCHANGED <<phase, status>>, stack' \in Seq(Frames),
             stack' # <<>>, stack'[1].id = stack[1].id, StackTrue'
      PROVE  PlanInv'
  <2>1. (\A k \in DOMAIN plan.ids : k < cursor => Reached(k))'
    BY <1>0, <1>4, <1>6 DEF Reached
  <2>2. QED
    BY <1>0, <1>6, <2>1, SearchKeeps
<1>7. CASE id \in visited /\ stack' = below /\ UNCHANGED <<phase, status>>
  <2>1. stack' # <<>> /\ stack'[1].id = stack[1].id
    BY <1>1, <1>2, <1>7
  <2>2. ASSUME NEW i \in 1 .. n, NEW k \in DOMAIN plan.deps[stack[i].id], k < below[i].next
        PROVE  Behind(i, k)'
    <3>1. CASE k < stack[i].next
      BY <1>0, <1>1, <1>2, <1>7, <3>1 DEF StackTrue, Behind
    <3>2. CASE ~(k < stack[i].next)
      <4>1. i = n /\ k = top.next
        <5>1. stack[i].next \in Nat /\ k \in Nat
          BY <1>1, <1>3 DEF Frames
        <5>2. QED
          BY <1>2, <2>2, <3>2, <5>1 DEF top
      <4>2. QED
        BY <1>0, <1>2, <1>7, <4>1 DEF Behind, id, top
    <3>3. QED
      BY <3>1, <3>2
  <2>3. StackTrue'
    BY <1>0, <1>1, <1>2, <1>7, <2>2 DEF StackTrue
  <2>4. QED
    BY <1>2, <1>6, <1>7, <2>1, <2>3
<1>8. CASE /\ id \notin visited /\ id \notin Visiting
           /\ stack' = Append(below, f) /\ UNCHANGED <<phase, status>>
  <2>1. f \in Frames /\ f.id = id /\ f.next = 1
    BY <1>3 DEF Frames
  <2> HIDE DEF f
  <2>2. /\ stack' \in Seq(Frames) /\ Len(stack') = n + 1 /\ DOMAIN stack' = 1 .. n + 1
        /\ \A i \in 1 .. n : stack'[i] = below[i]
        /\ stack'[n + 1] = f /\ stack' # <<>>
    BY <1>1, <1>2, <1>8, <2>1, Pushed, LenProperties
  <2>3. stack'[1].id = stack[1].id
    BY <1>1, <1>2, <2>2
  <2>4. \A i \in 1 .. n : stack[i].id # id
    BY <1>8, <1>1 DEF Visiting, n
  <2>5. ASSUME NEW i \in 1 .. n, NEW k \in DOMAIN plan.deps[stack[i].id], k < below[i].next
        PROVE  Behind(i, k)'
    <3>1. CASE k < stack[i].next
      <4>1. plan.deps[stack[i].id][k] \in visited
              \/ (i < n /\ stack[i + 1].id = plan.deps[stack[i].id][k])
        BY <1>0, <1>1, <3>1 DEF StackTrue, Behind, n
      <4>2. i < n => stack'[i + 1].id = stack[i + 1].id
        BY <1>1, <1>2, <2>2
      <4>3. stack'[i].id = stack[i].id
        BY <1>2, <2>2
      <4>4. QED
        BY <1>0, <1>1, <2>2, <4>1, <4>2, <4>3 DEF Behind
    <3>2. CASE ~(k < stack[i].next)
      <4>1. i = n /\ k = top.next
        <5>1. stack[i].next \in Nat /\ k \in Nat
          BY <1>1, <1>3 DEF Frames
        <5>2. QED
          BY <1>2, <2>5, <3>2, <5>1 DEF top
      <4>2. stack'[i].id = top.id /\ stack'[i + 1].id = id
        BY <1>2, <2>1, <2>2, <4>1 DEF top
      <4>3. QED
        BY <1>0, <1>1, <2>2, <4>1, <4>2 DEF Behind, id
    <3>3. QED
      BY <3>1, <3>2
  <2>6. \A i \in 1 .. n + 1 : stack'[i].id \notin visited
    BY <1>0, <1>1, <1>2, <1>8, <2>1, <2>2 DEF StackTrue
  <2>7. \A i, j \in 1 .. n + 1 : stack'[i].id = stack'[j].id => i = j
    <3>1. n \in Nat /\ DOMAIN stack = 1 .. n
      BY <1>1
    <3>2. \A i, j \in 1 .. n : stack[i].id = stack[j].id => i = j
      BY <1>0, <3>1 DEF StackTrue
    <3>3. (\A i \in 1 .. n : stack'[i].id = stack[i].id) /\ stack'[n + 1].id = id
      BY <1>2, <2>1, <2>2
    <3>4. QED
      BY ONLY <2>4, <3>1, <3>2, <3>3, n \in Nat
  <2>8. \A i \in 1 .. n + 1 : \A k \in DOMAIN plan.deps[stack'[i].id] :
          k < stack'[i].next => Behind(i, k)'
    BY <1>1, <1>2, <1>3, <2>1, <2>2, <2>5
  <2>9. StackTrue'
    BY <1>0, <2>2, <2>6, <2>7, <2>8 DEF StackTrue
  <2>10. QED
    BY <1>6, <1>8, <2>2, <2>3, <2>9
<1>9. QED
  BY <1>0, <1>5, <1>7, <1>8 DEF VisitDependency, Enter, End, Last, n, top, id, below

LEMMA LeaveKeeps ==
  ASSUME PlanInv, Leave
  PROVE  PlanInv'
<1> DEFINE n == Len(stack)
           top == stack[n]
           id == top.id
           m == Len(ordered)
<1>0. /\ phase = "validate" /\ stack # <<>> /\ stack \in Seq(Frames)
      /\ plan \in AllPlans /\ ordered \in Seq(Ids) /\ visited \subseteq Ids
      /\ UNCHANGED <<plan, phase, cursor, results, totalTools, status>>
      /\ WellFormed /\ WellFormed'
      /\ top.next > Len(plan.deps[id])
      /\ visited' = visited \cup {id}
      /\ ordered' = Append(ordered, id) /\ stack' = Front(stack)
      /\ StackTrue /\ Sorted /\ PhaseTrue /\ Ids' = Ids
  BY DEF PlanInv, PlanTypes, StackTrue, Leave, Last, WellFormed, Ids, Deps
<1>1. /\ n \in Nat \ {0} /\ DOMAIN stack = 1 .. n
      /\ \A i \in 1 .. n : stack[i] \in Frames /\ stack[i].id \in Ids
      /\ id \in Ids /\ top.next \in Nat
  <2>1. n \in Nat \ {0} /\ DOMAIN stack = 1 .. n /\ \A i \in 1 .. n : stack[i] \in Frames
    BY <1>0, EmptySeq, LenProperties
  <2>2. QED
    BY <2>1 DEF Frames
<1>2. /\ stack' \in Seq(Frames) /\ Len(stack') = n - 1 /\ DOMAIN stack' = 1 .. n - 1
      /\ \A i \in 1 .. n - 1 : stack'[i] = stack[i]
  <2>1. /\ stack' \in Seq(Frames) /\ Len(stack') = n - 1
        /\ \A i \in 1 .. n - 1 : stack'[i] = stack[i]
    BY <1>0, Popped
  <2>2. QED
    BY <2>1, LenProperties
<1>3. /\ m \in Nat /\ DOMAIN ordered = 1 .. m
      /\ ordered' \in Seq(Ids) /\ Len(ordered') = m + 1 /\ DOMAIN ordered' = 1 .. m + 1
      /\ \A i \in 1 .. m : ordered'[i] = ordered[i]
      /\ ordered'[m + 1] = id
  BY <1>0, <1>1, Pushed, LenProperties
<1>4. Deps(id) \subseteq visited
  <2>1. plan.deps[id] \in Seq(Deps(id))
    BY <1>0, <1>1, PlanShape
  <2>2. \A k \in DOMAIN plan.deps[id] : k < top.next
    BY <1>0, <1>1, <2>1
  <2>3. \A k \in DOMAIN plan.deps[id] : plan.deps[id][k] \in visited
    BY <1>0, <1>1, <2>2 DEF StackTrue, Behind
  <2>4. QED
    BY <2>3 DEF Deps, ToSet
<1>5. id \notin visited
  BY <1>0, <1>1 DEF StackTrue
<1> HIDE DEF n, top, id, m
<1>6. PlanTypes'
  BY <1>0, <1>1, <1>2, <1>3 DEF PlanInv, PlanTypes, Frames
<1>7. Sorted'
  <2>1. \A v \in visited : \E k \in 1 .. m : ordered[k] = v
    BY <1>0, <1>3 DEF Sorted, ToSet
  <2>2. \A k \in 1 .. m : ordered[k] \in visited
    BY <1>0, <1>3 DEF Sorted, ToSet
  <2>3. ToSet(ordered') = visited'
    <3>1. ToSet(ordered') = {ordered'[k] : k \in 1 .. m + 1}
      BY <1>3 DEF ToSet
    <3>2. {ordered'[k] : k \in 1 .. m + 1} = {ordered'[k] : k \in 1 .. m} \cup {id}
      BY <1>3
    <3>3. {ordered'[k] : k \in 1 .. m} = visited
      BY <1>3, <2>1, <2>2
    <3>4. QED
      BY <1>0, <3>1, <3>2, <3>3
  <2>4. IsInjective(ordered')
    BY <1>0, <1>3, <1>5, <2>2 DEF Sorted, IsInjective
  <2>5. ASSUME NEW i \in 1 .. m + 1, NEW d \in Deps(ordered'[i])
        PROVE  \E k \in 1 .. i - 1 : ordered'[k] = d
    <3>1. CASE i = m + 1
      <4>1. d \in visited
        BY <1>3, <1>4, <2>5, <3>1
      <4>2. QED
        BY <1>3, <2>1, <3>1, <4>1
    <3>2. CASE i \in 1 .. m
      <4>1. PICK k \in 1 .. i - 1 : ordered[k] = d
        BY <1>0, <1>3, <2>5, <3>2 DEF Sorted
      <4>2. QED
        BY <1>3, <3>2, <4>1
    <3>3. QED
      BY <1>3, <3>1, <3>2
  <2>6. QED
    BY <1>0, <1>3, <2>3, <2>4, <2>5 DEF Sorted, Deps
<1>8. StackTrue'
  <2>1. ASSUME NEW i \in 1 .. n - 1, NEW k \in DOMAIN plan.deps[stack[i].id], k < stack[i].next
        PROVE  Behind(i, k)'
    <3>1. i \in 1 .. n /\ stack'[i] = stack[i]
      BY <1>1, <1>2
    <3>2. plan.deps[stack[i].id][k] \in visited
            \/ (i < n /\ stack[i + 1].id = plan.deps[stack[i].id][k])
      BY <1>0, <1>1, <2>1, <3>1 DEF StackTrue, Behind, n
    <3>3. i + 1 \in 1 .. n - 1 \/ i + 1 = n
      BY <1>1
    <3>4. CASE i + 1 = n
      BY <1>0, <1>1, <3>1, <3>2, <3>4 DEF Behind, id, top
    <3>5. CASE i + 1 \in 1 .. n - 1
      BY <1>0, <1>1, <1>2, <3>1, <3>2, <3>5 DEF Behind
    <3>6. QED
      BY <3>3, <3>4, <3>5
  <2>2. \A i \in 1 .. n - 1 : stack[i].id \notin visited'
    BY <1>0, <1>1 DEF StackTrue, id, top
  <2>3. \A i, j \in 1 .. n - 1 : stack[i].id = stack[j].id => i = j
    BY <1>0, <1>1 DEF StackTrue
  <2>4. QED
    BY <1>0, <1>2, <2>1, <2>2, <2>3 DEF StackTrue
<1>9. PhaseTrue'
  <2>1. ASSUME NEW k \in DOMAIN plan.ids, k < cursor
        PROVE  Reached(k)'
    <3>1. plan.ids[k] \in visited \/ stack[1].id = plan.ids[k]
      BY <1>0, <2>1 DEF PhaseTrue, Reached
    <3>2. CASE n = 1
      BY <1>0, <3>1, <3>2 DEF Reached, id, top
    <3>3. CASE n # 1
      <4>1. 1 \in 1 .. n - 1 /\ stack' # <<>>
        BY <1>1, <1>2, <3>3
      <4>2. QED
        BY <1>0, <1>2, <3>1, <4>1 DEF Reached
    <3>4. QED
      BY <3>2, <3>3
  <2>2. QED
    BY <1>0, <2>1 DEF PhaseTrue
<1>10. CompletedBelow' /\ OutcomeTrue'
  BY <1>0 DEF PlanInv, CompletedBelow, OutcomeTrue, Deps
<1>11. QED
  BY <1>6, <1>7, <1>8, <1>9, <1>10 DEF PlanInv

LEMMA ValidatedKeeps ==
  ASSUME PlanInv, Validated
  PROVE  PlanInv'
<1>0. /\ phase = "validate" /\ phase' = "run" /\ cursor' = 1 /\ WellFormed /\ stack = <<>>
      /\ cursor > Len(plan.ids) /\ cursor \in Nat
      /\ UNCHANGED <<plan, stack, visited, ordered, results, totalTools, status>>
      /\ plan \in AllPlans /\ ordered \in Seq(Ids) /\ visited \subseteq Ids
      /\ PhaseTrue
  BY DEF Validated, PlanInv, PlanTypes
<1>1. Ids \subseteq visited
  <2>1. plan.ids \in Seq(Ids)
    BY <1>0, PlanShape
  <2>2. \A k \in DOMAIN plan.ids : plan.ids[k] \in visited
    BY <1>0, <2>1 DEF PhaseTrue, Reached
  <2>3. QED
    BY <2>2 DEF Ids, ToSet
<1>2. PlanTypes' /\ Sorted' /\ StackTrue'
  BY <1>0 DEF PlanInv, PlanTypes, Sorted, StackTrue, Frames, Ids, Deps, Behind, WellFormed
<1>3. PhaseTrue'
  <2>1. Len(ordered) \in Nat /\ 1 .. cursor' - 1 = {}
    BY <1>0
  <2>2. {ordered[k] : k \in 1 .. cursor' - 1} = {}
    BY <2>1
  <2>3. WellFormed' /\ Ids' = Ids
    BY <1>0 DEF WellFormed, Ids, Deps
  <2>4. QED
    <3>1. DOMAIN results' = {ordered'[k] : k \in 1 .. cursor' - 1}
      BY <1>0, <2>2 DEF PhaseTrue
    <3>2. totalTools' <= MaxTotalTools /\ cursor' <= Len(ordered') + 1
      BY <1>0, <2>1, PlanAssumption DEF PhaseTrue
    <3>3. stack' = <<>> /\ visited' = Ids' /\ DOMAIN results' \subseteq visited'
      BY <1>0, <1>1, <2>3 DEF PhaseTrue
    <3>4. QED
      BY <1>0, <2>3, <3>1, <3>2, <3>3 DEF PhaseTrue
<1>4. CompletedBelow' /\ OutcomeTrue'
  BY <1>0 DEF PlanInv, CompletedBelow, OutcomeTrue, Deps
<1>5. QED
  BY <1>2, <1>3, <1>4 DEF PlanInv

(* A step that gets a status: it is the next one, and everything it depends *)
(* on has one.                                                              *)
LEMMA RecordKeeps ==
  ASSUME PlanInv, phase = "run", cursor <= Len(ordered),
         NEW s \in StepStatuses, Record(s), s = "COMPLETED" => ~Blocked,
         UNCHANGED <<plan, phase, stack, visited, ordered, status>>,
         totalTools' \in Nat, totalTools' <= MaxTotalTools
  PROVE  PlanInv'
<1> DEFINE id == ordered[cursor]
<1>0. /\ ordered \in Seq(Ids) /\ cursor \in Nat \ {0} /\ Len(ordered) \in Nat
      /\ results \in [DOMAIN results -> StepStatuses]
      /\ results' = [x \in DOMAIN results \cup {id} |-> IF x = id THEN s ELSE results[x]]
      /\ cursor' = cursor + 1
      /\ cursor \in DOMAIN ordered /\ id \in Ids /\ id \in visited
      /\ DOMAIN results = {ordered[k] : k \in 1 .. cursor - 1}
      /\ DOMAIN ordered = 1 .. Len(ordered)
  BY DEF PlanInv, PlanTypes, PhaseTrue, Record, NextStep
<1>1. id \notin DOMAIN results
  BY <1>0 DEF PlanInv, Sorted, IsInjective
<1>2. Deps(id) \subseteq DOMAIN results
  BY <1>0 DEF PlanInv, Sorted
<1>3. /\ DOMAIN results' = DOMAIN results \cup {id}
      /\ results'[id] = s
      /\ \A x \in DOMAIN results : results'[x] = results[x]
  BY <1>0, <1>1
<1>4. PlanTypes'
  <2>1. results' \in [DOMAIN results' -> StepStatuses]
    BY <1>0
  <2>2. QED
    BY <1>0, <2>1 DEF PlanInv, PlanTypes, Frames, Ids
<1>5. Sorted' /\ StackTrue'
  <2>1. Sorted'
    BY DEF PlanInv, Sorted, Deps
  <2>2. WellFormed' = WellFormed /\ \A i, k : Behind(i, k)' = Behind(i, k)
    BY DEF Behind, WellFormed, Deps, Ids
  <2>3. StackTrue'
    BY <2>2 DEF PlanInv, StackTrue
  <2>4. QED
    BY <2>1, <2>3
<1>6. PhaseTrue'
  <2>1. {ordered[k] : k \in 1 .. cursor} = {ordered[k] : k \in 1 .. cursor - 1} \cup {id}
    BY <1>0
  <2>2. DOMAIN results' = {ordered'[k] : k \in 1 .. cursor' - 1}
    BY <1>0, <1>3, <2>1
  <2>3. DOMAIN results' \subseteq visited'
    BY <1>0, <1>3 DEF PlanInv, PhaseTrue
  <2>4. WellFormed' /\ Ids' = Ids /\ cursor' <= Len(ordered') + 1
    BY <1>0 DEF PlanInv, PhaseTrue, WellFormed, Ids, Deps
  <2>5. QED
    BY <1>0, <2>2, <2>3, <2>4 DEF PlanInv, PhaseTrue
<1>7. CompletedBelow'
  <2>1. ASSUME NEW x \in DOMAIN results', results'[x] = "COMPLETED", NEW d \in Deps(x)
        PROVE  d \in DOMAIN results' /\ results'[d] = "COMPLETED"
    <3>1. CASE x = id
      <4>1. results[d] = "COMPLETED" /\ d \in DOMAIN results
        BY <1>2, <1>3, <2>1, <3>1 DEF Blocked, NextStep
      <4>2. QED
        BY <1>3, <4>1
    <3>2. CASE x \in DOMAIN results
      <4>1. results[d] = "COMPLETED" /\ d \in DOMAIN results
        BY <1>3, <2>1, <3>2 DEF PlanInv, CompletedBelow
      <4>2. QED
        BY <1>3, <4>1
    <3>3. QED
      BY <1>3, <3>1, <3>2
  <2>2. QED
    BY <2>1 DEF CompletedBelow, Deps
<1>8. OutcomeTrue'
  BY DEF OutcomeTrue
<1>9. QED
  BY <1>4, <1>5, <1>6, <1>7, <1>8 DEF PlanInv

(* The end of a plan that is run: the status is computed from its steps, or *)
(* an exception leaves execute.                                             *)
LEMMA RunEnds ==
  ASSUME PlanInv, phase = "run",
         UNCHANGED <<plan, stack, visited, ordered, cursor, results>>,
         phase' = "done",
         \/ status' = "raised" /\ totalTools' \in Nat
         \/ /\ cursor > Len(ordered) /\ totalTools' = totalTools
            /\ \E d \in Decisions : status' = Overall(d)
  PROVE  PlanInv'
<1>0. /\ ordered \in Seq(Ids) /\ cursor \in Nat \ {0} /\ Len(ordered) \in Nat
      /\ DOMAIN ordered = 1 .. Len(ordered) /\ totalTools \in Nat
      /\ PhaseTrue /\ Sorted
  BY DEF PlanInv, PlanTypes
<1>1. status' \in {"raised", "DENIED", "REQUIRES_APPROVAL", "COMPLETED", "PARTIAL", "FAILED"}
  BY DEF Overall
<1>2. PlanTypes'
  BY <1>0, <1>1 DEF PlanInv, PlanTypes, Frames, Ids, StepStatuses
<1>3. Sorted' /\ StackTrue' /\ PhaseTrue' /\ CompletedBelow'
  BY <1>0 DEF PlanInv, PhaseTrue, Sorted, StackTrue, CompletedBelow, Deps
<1>4. ASSUME status' # "raised"
      PROVE  /\ totalTools' <= MaxTotalTools
             /\ status' = "COMPLETED" => DOMAIN results = Ids /\ Statuses = {"COMPLETED"}
             /\ "DENIED" \in Statuses => status' = "DENIED"
  <2>1. PICK d \in Decisions : status' = Overall(d)
    BY <1>4
  <2>2. cursor - 1 = Len(ordered)
    BY <1>0, <1>4 DEF PhaseTrue
  <2>3. DOMAIN results = Ids
    BY <1>0, <2>2 DEF PhaseTrue, Sorted, ToSet
  <2>4. /\ status' = "COMPLETED" => Statuses = {"COMPLETED"}
        /\ "DENIED" \in Statuses => status' = "DENIED"
    BY <2>1 DEF Overall
  <2>5. QED
    BY <1>0, <1>4, <2>3, <2>4 DEF PhaseTrue
<1>5. OutcomeTrue'
  BY <1>4 DEF OutcomeTrue, Statuses, Ids
<1>6. QED
  BY <1>2, <1>3, <1>5 DEF PlanInv

LEMMA PlanInvNext == PlanInv /\ [PlanNext]_planVars => PlanInv'
<1> SUFFICES ASSUME PlanInv, [PlanNext]_planVars
             PROVE  PlanInv'
  OBVIOUS
<1>0. totalTools \in Nat /\ (phase = "run" => totalTools <= MaxTotalTools)
  BY DEF PlanInv, PlanTypes, PhaseTrue
<1>1. CASE UNCHANGED planVars
  <2>1. PlanTypes' /\ Sorted' /\ StackTrue'
    BY <1>1 DEF planVars, PlanInv, PlanTypes, Sorted, StackTrue, Frames, Ids, Deps, Behind,
                WellFormed
  <2>2. PhaseTrue' /\ CompletedBelow' /\ OutcomeTrue'
    BY <1>1 DEF planVars, PlanInv, PhaseTrue, CompletedBelow, OutcomeTrue, Reached, Ids,
                Deps, WellFormed, Statuses
  <2>3. QED
    BY <2>1, <2>2 DEF PlanInv
<1>2. CASE Malformed \/ OutOfTime \/ \E d \in Decisions : Precheck(d)
  BY <1>2, EndsKeep
<1>3. CASE VisitNext \/ VisitDependency \/ Leave \/ Validated
  BY <1>3, VisitNextKeeps, VisitDependencyKeeps, LeaveKeeps, ValidatedKeeps
<1>4. CASE Skip
  BY <1>0, <1>4, RecordKeeps DEF Skip, StepStatuses
<1>5. ASSUME NEW d \in Decisions, RefuseStep(d)
      PROVE  PlanInv'
  BY <1>0, <1>5, RecordKeeps DEF RefuseStep, Refusal, StepStatuses
<1>6. ASSUME NEW d \in Decisions, ReturnResult(d)
      PROVE  PlanInv'
  BY <1>6, RunEnds DEF ReturnResult, End
<1>7. ASSUME NEW n \in HandlerCalls, NEW s \in StepStatuses, Handle(n, s)
      PROVE  PlanInv'
  <2>1. totalTools' \in Nat
    BY <1>0, <1>7, PlanAssumption DEF Handle
  <2>2. CASE End("raised") /\ UNCHANGED <<cursor, results>>
    BY <1>7, <2>1, <2>2, RunEnds DEF Handle, End
  <2>3. CASE totalTools + n <= MaxTotalTools /\ Record(s) /\ UNCHANGED <<phase, status>>
    BY <1>7, <2>1, <2>3, RecordKeeps DEF Handle, StepStatuses
  <2>4. QED
    BY <1>7, <2>2, <2>3 DEF Handle
<1>8. QED
  BY <1>1, <1>2, <1>3, <1>4, <1>5, <1>6, <1>7 DEF PlanNext

(* An injective sequence is as long as its set of elements is large. *)
LEMMA InjectiveLength ==
  ASSUME NEW S, NEW s \in Seq(S), IsInjective(s), ToSet(s) = S
  PROVE  Cardinality(S) = Len(s)
<1>1. Len(s) \in Nat /\ s \in [1 .. Len(s) -> S] /\ DOMAIN s = 1 .. Len(s)
  BY LenProperties
<1>2. \A x \in S : \E i \in 1 .. Len(s) : s[i] = x
  BY <1>1 DEF ToSet
<1>3. s \in Bijection(1 .. Len(s), S)
  BY <1>1, <1>2 DEF Bijection, Injection, Surjection
<1>4. QED
  BY <1>1, <1>3, FS_CountingElements DEF ExistsBijection

(* MultiAgentOrchestrator, for every plan, cyclic or malformed ones too, and *)
(* every limit: a plan is run only in an order of its dependencies, no step  *)
(* completes above one that did not, and the outcome is that of the steps.   *)
THEOREM PlanKeptHolds == PlanSpec => []PlanKept
<1>1. PlanInv => PlanKept
  <2> SUFFICES ASSUME PlanInv
               PROVE  PlanKept
    OBVIOUS
  <2>1. PlanTypeOK
    BY DEF PlanInv, PlanTypes, Sorted, PhaseTrue, PlanTypeOK, StepStatuses
  <2>2. RunInOrder
    <3> SUFFICES ASSUME phase = "run"
                 PROVE  /\ ToSet(ordered) = Ids /\ Len(ordered) = Len(plan.ids)
                        /\ \A i \in 1 .. Len(ordered) :
                             Deps(ordered[i]) \subseteq {ordered[k] : k \in 1 .. i - 1}
      BY DEF RunInOrder
    <3>1. ordered \in Seq(Ids) /\ plan.ids \in Seq(Ids)
      BY PlanShape DEF PlanInv, PlanTypes
    <3>2. ToSet(ordered) = Ids /\ IsInjective(ordered)
      BY DEF PlanInv, Sorted, PhaseTrue
    <3>3. ToSet(plan.ids) = Ids /\ IsInjective(plan.ids)
      BY DEF PlanInv, PhaseTrue, WellFormed, Ids
    <3>4. Len(ordered) = Len(plan.ids)
      BY <3>1, <3>2, <3>3, InjectiveLength
    <3>5. \A i \in 1 .. Len(ordered) :
            Deps(ordered[i]) \subseteq {ordered[k] : k \in 1 .. i - 1}
      BY <3>1 DEF PlanInv, Sorted
    <3>6. QED
      BY <3>2, <3>4, <3>5
  <2>3. QED
    BY <2>1, <2>2 DEF PlanInv, PlanKept
<1>2. QED
  BY <1>1, PlanInvInit, PlanInvNext, PTL DEF PlanSpec

-----------------------------------------------------------------------------
(* Every set of numbers has a least element. *)
LEMMA LeastNat ==
  ASSUME NEW T, T \subseteq Nat, T # {}
  PROVE  \E m \in T : \A k \in T : m <= k
<1>1. IsWellFoundedOn(OpToRel(<, Nat), Nat)
  BY NatLessThanWellFounded, Zenon
<1>2. PICK m \in T : \A k \in T : ~(<<k, m>> \in OpToRel(<, Nat))
  BY <1>1, WFMin, Zenon
<1>3. \A k \in T : ~(k < m)
  BY <1>2, Zenon DEF OpToRel
<1>4. m \in Nat /\ \A k \in T : k \in Nat
  BY <1>2, Zenon
<1>5. QED
  BY ONLY <1>3, <1>4, m \in T, SMT

(* Indices of a sequence that are bounded have a last one. *)
LEMMA LastIndex ==
  ASSUME NEW n \in Nat, NEW T, T \subseteq 1 .. n, T # {}
  PROVE  \E m \in T : \A k \in T : k <= m
<1> DEFINE U == {j \in Nat : \A k \in T : k <= j}
<1>1. n \in U
  OBVIOUS
<1>2. PICK m \in U : \A j \in U : m <= j
  <2>1. U \subseteq Nat /\ U # {}
    BY <1>1
  <2> HIDE DEF U
  <2>2. QED
    BY <2>1, LeastNat
<1>3. m \in Nat /\ \A k \in T : k <= m
  BY <1>2
<1>4. m \in T
  <2>1. SUFFICES ASSUME m \notin T PROVE FALSE
    OBVIOUS
  <2>2. PICK k \in T : TRUE
    OBVIOUS
  <2>3. \A j \in T : j \in Nat /\ j <= m - 1
    BY <1>3, <2>1
  <2>4. k \in Nat /\ 1 <= k /\ k <= m - 1
    BY <2>2, <2>3
  <2>5. m - 1 \in U
    BY <1>3, <2>3, <2>4
  <2>6. m <= m - 1
    BY <1>2, <2>5
  <2>7. QED
    BY <1>3, <2>6
<1>5. QED
  BY <1>3, <1>4

-----------------------------------------------------------------------------
(* Governed reads.  The decision is taken before the query is run and may be *)
(* stale by then: what the rows rest on is the decision, the roles it was    *)
(* taken for and the record that was in the registry at that time.           *)

Stages == Final \cup {"idle", "received", "authenticated", "authorised", "classified", "cleared"}

GovernanceTypes ==
  /\ input \in [Queries -> Inputs \cup {None}]
  /\ stage \in [Queries -> Stages]
  /\ roles \in [Queries -> SUBSET Roles]
  /\ DOMAIN decision = Queries /\ DOMAIN rows = Queries
  /\ DOMAIN registry = Approvals
  /\ read \subseteq Queries
  /\ \A r \in Queries : input[r] = None <=> stage[r] = "idle"

(* Whatever is approved in the registry is among what it has held. *)
RegistryTrue ==
  \A a \in Approvals : registry[a] # None =>
    /\ registry[a] \in Records
    /\ registry[a].status = "approved" => registry[a] \in granted

Verified(in) == AuthEnabled => in.caller # None

(* A request goes on only from a verified caller, and the roles it is given  *)
(* are those the server binds to the subject it names, of its claims.        *)
RolesTrue ==
  \A r \in Queries :
    /\ stage[r] \in {"authenticated", "authorised", "classified", "cleared"} => Verified(input[r])
    /\ stage[r] \in {"authorised", "classified", "cleared"} => roles[r] = AuthorisedRoles(input[r])

WasApproved(in) ==
  \E g \in granted : /\ g.subject = in.subject
                     /\ g.action = in.action
                     /\ g.dataset = Dataset(in).name

(* The decision d lets a query of the input in with the roles rs run. *)
Clears(d, in, rs) ==
  /\ d.type \in {"ALLOW", "MASK"}
  /\ d.masked = MaskedFields(in, Permissions(rs))
  /\ Requires(ClassifyDataset(Dataset(in))) \subseteq Permissions(rs)
  /\ \A f \in Projected(in) : FieldResult(in, f, Permissions(rs)) # "DENY"

(* A query is run only under a decision that clears it, audited if it masks, *)
(* and for which an approval was there if it needs one.                      *)
ReadsTrue ==
  \A r \in Queries : stage[r] = "cleared" \/ r \in read =>
    /\ Verified(input[r]) /\ roles[r] = AuthorisedRoles(input[r])
    /\ Clears(decision[r], input[r], roles[r])
    /\ decision[r].type # "ALLOW" => <<r, decision[r]>> \in audit
    /\ Sensitive(input[r]) => WasApproved(input[r])

AnsweredTrue ==
  \A r \in Queries :
    /\ r \in read => stage[r] \in {"completed", "failed"}
    /\ rows[r] # None => r \in read /\ rows[r] = Mask(input[r], decision[r])
    /\ stage[r] \in {"denied", "requires_approval"} => <<r, decision[r]>> \in audit

GovernanceInv == GovernanceTypes /\ RegistryTrue /\ RolesTrue /\ ReadsTrue /\ AnsweredTrue

(* More roles give more permissions. *)
LEMMA PermissionsGrow ==
  ASSUME NEW R, NEW S, R \subseteq S
  PROVE  Permissions(R) \subseteq Permissions(S)
  BY DEF Permissions

FieldResults == {"ALLOW", "MASK", "DENY"}

(* _evaluate_field: ALLOW of a restricted field needs the permission for     *)
(* this kind of field.                                                       *)
LEMMA FieldAllowed ==
  ASSUME NEW level, NEW field, NEW perms
  PROVE  /\ EvaluateField(level, field, perms) \in FieldResults
         /\ level = "RESTRICTED" /\ EvaluateField(level, field, perms) = "ALLOW" =>
              ClearWith(field) \cap perms # {}
  BY DEF EvaluateField, FieldResults, ClearWith, SensitivePayment, RestrictedTypes

(* _evaluate_field: a further permission never makes a field stricter. *)
LEMMA FieldWidens ==
  ASSUME NEW level, NEW field, NEW P, NEW Q, P \subseteq Q
  PROVE  /\ EvaluateField(level, field, P) = "ALLOW" => EvaluateField(level, field, Q) = "ALLOW"
         /\ EvaluateField(level, field, Q) = "DENY" => EvaluateField(level, field, P) = "DENY"
  BY DEF EvaluateField, SensitivePayment, RestrictedTypes

(* What evaluate refuses. *)
Denies(in, rs) ==
  \/ ~(rs \subseteq Roles)
  \/ ~in.purposeKnown
  \/ OutOfArea(in, rs)
  \/ ~(Requires(ClassifyDataset(Dataset(in))) \subseteq Permissions(rs))
  \/ \E f \in Projected(in) : FieldResult(in, f, Permissions(rs)) = "DENY"

(* evaluate, as the three cases it distinguishes. *)
LEMMA Evaluated ==
  ASSUME NEW in, NEW rs, NEW store
  PROVE  /\ Denies(in, rs) => Evaluate(in, rs, store) = [type |-> "DENY", masked |-> {}]
         /\ ~Denies(in, rs) /\ Sensitive(in) /\ ~ApprovalSatisfied(store, in) =>
              Evaluate(in, rs, store) = [type |-> "REQUIRE_APPROVAL",
                                       masked |-> MaskedFields(in, Permissions(rs))]
         /\ ~Denies(in, rs) /\ (Sensitive(in) => ApprovalSatisfied(store, in)) =>
              Evaluate(in, rs, store) =
                [type |-> IF MaskedFields(in, Permissions(rs)) # {} THEN "MASK" ELSE "ALLOW",
                 masked |-> MaskedFields(in, Permissions(rs))]
  BY DEF Evaluate, Denies

LEMMA EvaluateClears ==
  ASSUME NEW in, NEW rs, NEW store, NEW d, d = Evaluate(in, rs, store)
  PROVE  /\ d.type \in {"DENY", "REQUIRE_APPROVAL", "ALLOW", "MASK"}
         /\ d.type \in {"ALLOW", "MASK"} =>
              Clears(d, in, rs) /\ (Sensitive(in) => ApprovalSatisfied(store, in))
<1>1. CASE Denies(in, rs)
  BY <1>1, Evaluated
<1>2. CASE ~Denies(in, rs) /\ Sensitive(in) /\ ~ApprovalSatisfied(store, in)
  BY <1>2, Evaluated
<1>3. CASE ~Denies(in, rs) /\ (Sensitive(in) => ApprovalSatisfied(store, in))
  <2>1. d = [type |-> IF MaskedFields(in, Permissions(rs)) # {} THEN "MASK" ELSE "ALLOW",
             masked |-> MaskedFields(in, Permissions(rs))]
    BY <1>3, Evaluated
  <2>2. Clears(d, in, rs)
    BY <1>3, <2>1 DEF Clears, Denies
  <2>3. QED
    BY <1>3, <2>1, <2>2
<1>4. QED
  BY <1>1, <1>2, <1>3

(* evaluate: a further role other than an officer's never makes the decision *)
(* stricter, and masks no more.                                              *)
LEMMA EvaluateWidens ==
  ASSUME NEW in, NEW rs, NEW store,
         NEW further \in Roles \ {"district_officer", "parish_officer"}
  PROVE  LET less == Evaluate(in, rs, store)
             more == Evaluate(in, rs \cup {further}, store)
         IN /\ Rank(more) >= Rank(less)
            /\ Rank(less) > 0 => more.masked \subseteq less.masked
<1> DEFINE ms == rs \cup {further}
           P == Permissions(rs)
           Q == Permissions(ms)
           less == Evaluate(in, rs, store)
           more == Evaluate(in, ms, store)
<1> SUFFICES /\ Rank(more) >= Rank(less)
             /\ Rank(less) > 0 => more.masked \subseteq less.masked
  OBVIOUS
<1>1. P \subseteq Q
  BY PermissionsGrow
<1>2. \A f \in Projected(in) :
        /\ FieldResult(in, f, P) = "ALLOW" => FieldResult(in, f, Q) = "ALLOW"
        /\ FieldResult(in, f, Q) = "DENY" => FieldResult(in, f, P) = "DENY"
        /\ FieldResult(in, f, P) \in FieldResults
  BY <1>1, FieldWidens, FieldAllowed DEF FieldResult
<1>3. OutOfArea(in, ms) => OutOfArea(in, rs)
  BY DEF OutOfArea
<1> HIDE DEF P, Q
<1>4. Denies(in, ms) => Denies(in, rs)
  <2>1. ~(ms \subseteq Roles) => ~(rs \subseteq Roles)
    OBVIOUS
  <2>2. ~(Requires(ClassifyDataset(Dataset(in))) \subseteq Q) =>
          ~(Requires(ClassifyDataset(Dataset(in))) \subseteq P)
    BY <1>1
  <2>3. QED
    BY <1>2, <1>3, <2>1, <2>2 DEF Denies, P, Q
<1>5. ~Denies(in, rs) => MaskedFields(in, Q) \subseteq MaskedFields(in, P)
  BY <1>2 DEF Denies, MaskedFields, FieldResults, P
<1> HIDE DEF ms
<1>6. CASE Denies(in, rs)
  <2>1. less.type = "DENY" /\ Rank(less) = 0
    BY <1>6, Evaluated DEF Rank
  <2>2. Rank(more) \in {0, 1, 2}
    BY DEF Rank
  <2> HIDE DEF less, more
  <2>3. QED
    BY <2>1, <2>2
<1>7. CASE ~Denies(in, rs) /\ Sensitive(in) /\ ~ApprovalSatisfied(store, in)
  <2>1. /\ less.type = "REQUIRE_APPROVAL" /\ less.masked = MaskedFields(in, P)
        /\ more.type = "REQUIRE_APPROVAL" /\ more.masked = MaskedFields(in, Q)
    BY <1>4, <1>7, Evaluated DEF P, Q
  <2>2. Rank(less) = 1 /\ Rank(more) = 1
    BY <2>1 DEF Rank
  <2> HIDE DEF less, more
  <2>3. QED
    BY <1>5, <1>7, <2>1, <2>2
<1>8. CASE ~Denies(in, rs) /\ (Sensitive(in) => ApprovalSatisfied(store, in))
  <2>1. /\ less.type \in {"ALLOW", "MASK"} /\ less.masked = MaskedFields(in, P)
        /\ more.type \in {"ALLOW", "MASK"} /\ more.masked = MaskedFields(in, Q)
    BY <1>4, <1>8, Evaluated DEF P, Q
  <2>2. Rank(less) = 2 /\ Rank(more) = 2
    BY <2>1 DEF Rank
  <2> HIDE DEF less, more
  <2>3. QED
    BY <1>5, <1>8, <2>1, <2>2
<1>9. QED
  BY <1>6, <1>7, <1>8

LEMMA GovernanceInvInit == GovernanceInit => GovernanceInv
<1> SUFFICES ASSUME GovernanceInit
             PROVE  GovernanceInv
  OBVIOUS
<1> USE DEF GovernanceInit
<1>1. GovernanceTypes
  BY DEF GovernanceTypes, Stages
<1>2. RegistryTrue /\ RolesTrue
  BY DEF RegistryTrue, RolesTrue
<1>3. ReadsTrue /\ AnsweredTrue
  BY DEF ReadsTrue, AnsweredTrue
<1>4. QED
  BY <1>1, <1>2, <1>3 DEF GovernanceInv

(* A step of the request r before its query is cleared or run: it leaves the *)
(* other requests, the registry and the rows alone.                          *)
LEMMA BeforeReads ==
  ASSUME GovernanceInv, NEW r \in Queries, r \notin read,
         NEW s \in Stages, stage' = [stage EXCEPT ![r] = s], s # "cleared", s # "idle",
         UNCHANGED <<rows, registry, read, granted>>,
         GovernanceTypes', audit \subseteq audit',
         \A q \in Queries \ {r} : /\ input'[q] = input[q] /\ roles'[q] = roles[q]
                                  /\ decision'[q] = decision[q],
         s \in {"authenticated", "authorised", "classified"} => Verified(input'[r]),
         s \in {"authorised", "classified"} => roles'[r] = AuthorisedRoles(input'[r]),
         s \in {"denied", "requires_approval"} => <<r, decision'[r]>> \in audit'
  PROVE  GovernanceInv'
<1>0. /\ stage'[r] = s /\ \A q \in Queries \ {r} : stage'[q] = stage[q]
      /\ rows[r] = None
  BY DEF GovernanceInv, GovernanceTypes, AnsweredTrue
<1>1. RegistryTrue'
  BY DEF GovernanceInv, RegistryTrue
<1>2. RolesTrue'
  BY <1>0 DEF GovernanceInv, RolesTrue
<1>3. ReadsTrue'
  BY <1>0 DEF GovernanceInv, ReadsTrue, WasApproved
<1>4. AnsweredTrue'
  BY <1>0 DEF GovernanceInv, AnsweredTrue
<1>5. QED
  BY <1>1, <1>2, <1>3, <1>4 DEF GovernanceInv

LEMMA ReceiveKeeps ==
  ASSUME GovernanceInv, NEW r \in Queries, NEW in \in Inputs, ReceiveQuery(r, in)
  PROVE  GovernanceInv'
<1>0. r \notin read /\ in # None
  BY GovernanceAssumption DEF ReceiveQuery, GovernanceInv, AnsweredTrue
<1>1. GovernanceTypes'
  BY <1>0 DEF ReceiveQuery, Go, GovernanceInv, GovernanceTypes, Stages, Final
<1>2. "received" \in Stages
  BY DEF Stages
<1>3. QED
  BY <1>0, <1>1, <1>2, BeforeReads DEF ReceiveQuery, Go, GovernanceInv, GovernanceTypes

LEMMA AuthenticateKeeps ==
  ASSUME GovernanceInv, NEW r \in Queries, Authenticate(r)
  PROVE  GovernanceInv'
<1>0. r \notin read
  BY DEF Authenticate, GovernanceInv, AnsweredTrue
<1>1. PICK s \in {"unauthenticated", "authenticated"} :
        stage' = [stage EXCEPT ![r] = s] /\ (s = "authenticated" => Verified(input[r]))
  BY DEF Authenticate, Go, Verified
<1>2. s \in Stages
  BY DEF Stages, Final
<1>3. GovernanceTypes'
  BY <1>1, <1>2 DEF Authenticate, GovernanceInv, GovernanceTypes
<1>4. input' = input /\ (s \in {"authenticated", "authorised", "classified"} => Verified(input'[r]))
  BY <1>1 DEF Authenticate, Verified
<1>5. QED
  BY <1>0, <1>1, <1>2, <1>3, <1>4, BeforeReads DEF Authenticate

LEMMA AuthoriseKeeps ==
  ASSUME GovernanceInv, NEW r \in Queries, Authorise(r)
  PROVE  GovernanceInv'
<1>0. r \notin read /\ stage[r] = "authenticated" /\ input[r] \in Inputs /\ Verified(input[r])
  BY DEF Authorise, GovernanceInv, GovernanceTypes, RolesTrue, AnsweredTrue
<1>1. PICK s \in {"unsupported", "failed", "authorised", "completed"} :
        stage' = [stage EXCEPT ![r] = s]
  BY DEF Authorise, Go
<1>2. s \in Stages
  BY DEF Stages, Final
<1>3. /\ roles' = [roles EXCEPT ![r] = AuthorisedRoles(input[r])]
      /\ UNCHANGED <<input, decision, rows, registry, audit, read, granted>>
  BY DEF Authorise
<1>4. AuthorisedRoles(input[r]) \subseteq Roles
  BY <1>0, GovernanceAssumption DEF AuthorisedRoles
<1>5. GovernanceTypes'
  BY <1>0, <1>1, <1>2, <1>3, <1>4 DEF GovernanceInv, GovernanceTypes
<1>6. /\ roles'[r] = AuthorisedRoles(input'[r]) /\ Verified(input'[r])
      /\ \A q \in Queries \ {r} : roles'[q] = roles[q]
  BY <1>0, <1>3 DEF GovernanceInv, GovernanceTypes, Verified
<1>7. QED
  BY <1>0, <1>1, <1>2, <1>3, <1>5, <1>6, BeforeReads

LEMMA ClassifyKeeps ==
  ASSUME GovernanceInv, NEW r \in Queries, Classify(r)
  PROVE  GovernanceInv'
<1>0. /\ r \notin read /\ stage[r] = "authorised" /\ roles[r] = AuthorisedRoles(input[r])
      /\ Verified(input[r])
  BY DEF Classify, GovernanceInv, RolesTrue, AnsweredTrue
<1>1. PICK s \in {"classified", "failed"} : stage' = [stage EXCEPT ![r] = s]
  BY DEF Classify, Go
<1>2. s \in Stages
  BY DEF Stages, Final
<1>3. UNCHANGED <<input, roles, decision, rows, registry, audit, read, granted>>
      /\ Verified(input'[r])
  BY <1>0 DEF Classify, Verified
<1>4. GovernanceTypes'
  BY <1>0, <1>1, <1>2, <1>3 DEF GovernanceInv, GovernanceTypes
<1>5. QED
  BY <1>0, <1>1, <1>2, <1>3, <1>4, BeforeReads

LEMMA ExplainKeeps ==
  ASSUME GovernanceInv, NEW r \in Queries, Explain(r)
  PROVE  GovernanceInv'
<1>0. r \notin read /\ stage[r] = "authenticated"
  BY DEF Explain, GovernanceInv, AnsweredTrue
<1>1. PICK s \in {"completed", "failed"} : stage' = [stage EXCEPT ![r] = s]
  BY DEF Explain, Go
<1>2. s \in Stages
  BY DEF Stages, Final
<1>3. /\ UNCHANGED <<input, roles, rows, registry, read, granted>>
      /\ audit \subseteq audit' /\ DOMAIN decision' = DOMAIN decision
      /\ \A q \in Queries \ {r} : decision'[q] = decision[q]
  <2>1. CASE UNCHANGED <<decision, audit>>
    BY <2>1 DEF Explain
  <2>2. CASE \E d : decision' = [decision EXCEPT ![r] = d] /\ audit' = audit \cup {<<r, d>>}
    BY <2>2 DEF Explain, GovernanceInv, GovernanceTypes
  <2>3. QED
    BY <2>1, <2>2 DEF Explain
<1>4. GovernanceTypes'
  BY <1>0, <1>1, <1>2, <1>3 DEF GovernanceInv, GovernanceTypes
<1>5. QED
  BY <1>0, <1>1, <1>2, <1>3, <1>4, BeforeReads

(* The decision on r: audited unless it is ALLOW, and if it clears the query *)
(* the record that approves it is in the registry now.                       *)
LEMMA DecideKeeps ==
  ASSUME GovernanceInv, NEW r \in Queries, Decide(r)
  PROVE  GovernanceInv'
<1> DEFINE d == Evaluate(input[r], roles[r], registry)
<1>0. /\ r \notin read /\ stage[r] = "classified" /\ roles[r] = AuthorisedRoles(input[r])
      /\ Verified(input[r]) /\ Verified(input'[r])
      /\ input[r] \in Inputs
      /\ DOMAIN decision = Queries /\ DOMAIN stage = Queries
      /\ UNCHANGED <<input, roles, rows, registry, read, granted>>
      /\ decision' = [decision EXCEPT ![r] = d]
  BY DEF Decide, GovernanceInv, GovernanceTypes, RolesTrue, AnsweredTrue, Verified
<1>1. /\ d.type \in {"DENY", "REQUIRE_APPROVAL", "ALLOW", "MASK"}
      /\ d.type \in {"ALLOW", "MASK"} =>
           /\ Clears(d, input[r], roles[r])
           /\ Sensitive(input[r]) => ApprovalSatisfied(registry, input[r])
  BY EvaluateClears
<1>2. \/ d.type = "ALLOW" /\ Go(r, "cleared") /\ UNCHANGED audit
      \/ d.type # "ALLOW" /\ Go(r, After(d)) /\ audit' = audit \cup {<<r, d>>}
      \/ d.type # "ALLOW" /\ Go(r, "failed") /\ UNCHANGED audit
  BY DEF Decide
<1> HIDE DEF d
<1>3. decision'[r] = d /\ \A q \in Queries \ {r} : decision'[q] = decision[q]
  BY <1>0
<1>4. PICK s \in {"cleared", "denied", "requires_approval", "failed"} :
        /\ stage' = [stage EXCEPT ![r] = s]
        /\ audit \subseteq audit'
        /\ s \in {"denied", "requires_approval"} => <<r, d>> \in audit'
        /\ s = "cleared" => /\ d.type \in {"ALLOW", "MASK"}
                            /\ d.type # "ALLOW" => <<r, d>> \in audit'
  BY <1>1, <1>2 DEF Go, After
<1>5. GovernanceTypes'
  BY <1>0, <1>4 DEF GovernanceInv, GovernanceTypes, Stages, Final
<1>6. CASE s # "cleared"
  <2>1. s \in Stages
    BY DEF Stages, Final
  <2>2. QED
    BY <1>0, <1>3, <1>4, <1>5, <1>6, <2>1, BeforeReads
<1>7. CASE s = "cleared"
  <2>1. stage'[r] = "cleared" /\ \A q \in Queries \ {r} : stage'[q] = stage[q]
    BY <1>0, <1>4, <1>7
  <2>2. RegistryTrue' /\ RolesTrue'
    BY <1>0, <2>1 DEF GovernanceInv, RegistryTrue, RolesTrue
  <2>3. Sensitive(input[r]) => WasApproved(input[r])
    <3> SUFFICES ASSUME Sensitive(input[r])
                 PROVE  WasApproved(input[r])
      OBVIOUS
    <3>1. ApprovalSatisfied(registry, input[r])
      BY <1>1, <1>4, <1>7
    <3>2. input[r].approval \in Approvals
      BY <1>0, <3>1, GovernanceAssumption DEF ApprovalSatisfied
    <3>3. registry[input[r].approval] \in granted
      BY <3>1, <3>2 DEF ApprovalSatisfied, Matches, GovernanceInv, RegistryTrue
    <3>4. QED
      BY <3>1, <3>3 DEF ApprovalSatisfied, Matches, WasApproved
  <2>4. ReadsTrue'
    <3>1. ASSUME NEW q \in Queries, q # r, stage'[q] = "cleared" \/ q \in read'
          PROVE  /\ Verified(input'[q]) /\ roles'[q] = AuthorisedRoles(input'[q])
                 /\ Clears(decision'[q], input'[q], roles'[q])
                 /\ decision'[q].type # "ALLOW" => <<q, decision'[q]>> \in audit'
                 /\ Sensitive(input'[q]) => WasApproved(input[q])
      BY <1>0, <1>3, <1>4, <2>1, <3>1 DEF GovernanceInv, ReadsTrue
    <3>2. /\ Verified(input'[r]) /\ roles'[r] = AuthorisedRoles(input'[r])
          /\ Clears(decision'[r], input'[r], roles'[r])
          /\ decision'[r].type # "ALLOW" => <<r, decision'[r]>> \in audit'
          /\ Sensitive(input'[r]) => WasApproved(input[r])
      BY <1>0, <1>1, <1>3, <1>4, <1>7, <2>3
    <3>3. QED
      BY <1>0, <3>1, <3>2 DEF ReadsTrue, WasApproved
  <2>5. AnsweredTrue'
    BY <1>0, <1>3, <1>4, <2>1 DEF GovernanceInv, AnsweredTrue
  <2>6. QED
    BY <1>5, <2>2, <2>4, <2>5 DEF GovernanceInv
<1>8. QED
  BY <1>6, <1>7

LEMMA RunQueryKeeps ==
  ASSUME GovernanceInv, NEW r \in Queries, RunQuery(r)
  PROVE  GovernanceInv'
<1>0. /\ stage[r] = "cleared" /\ read' = read \cup {r}
      /\ DOMAIN rows = Queries /\ DOMAIN stage = Queries /\ rows[r] = None
      /\ UNCHANGED <<input, roles, decision, registry, audit, granted>>
  BY DEF RunQuery, GovernanceInv, GovernanceTypes, AnsweredTrue
<1>1. PICK s \in {"completed", "failed"} : stage' = [stage EXCEPT ![r] = s]
  BY DEF RunQuery, Go
<1>2. /\ stage'[r] = s /\ \A q \in Queries \ {r} : stage'[q] = stage[q]
      /\ DOMAIN rows' = Queries /\ \A q \in Queries \ {r} : rows'[q] = rows[q]
      /\ rows'[r] = None \/ rows'[r] = Mask(input[r], decision[r])
  BY <1>0, <1>1 DEF RunQuery
<1>3. GovernanceTypes'
  BY <1>0, <1>1, <1>2 DEF GovernanceInv, GovernanceTypes, Stages, Final
<1>4. RegistryTrue' /\ RolesTrue'
  BY <1>0, <1>2 DEF GovernanceInv, RegistryTrue, RolesTrue
<1>5. ReadsTrue'
  BY <1>0, <1>2 DEF GovernanceInv, ReadsTrue, WasApproved
<1>6. AnsweredTrue'
  BY <1>0, <1>2 DEF GovernanceInv, AnsweredTrue
<1>7. QED
  BY <1>3, <1>4, <1>5, <1>6 DEF GovernanceInv

LEMMA RegisterKeeps ==
  ASSUME GovernanceInv, NEW a \in Approvals, NEW record \in Records, Register(a, record)
  PROVE  GovernanceInv'
<1>0. /\ registry' = [registry EXCEPT ![a] = record] /\ DOMAIN registry = Approvals
      /\ granted \subseteq granted' /\ (record.status = "approved" => record \in granted')
      /\ UNCHANGED <<input, stage, roles, decision, rows, audit, read>>
  BY DEF Register, GovernanceInv, GovernanceTypes
<1>1. GovernanceTypes'
  BY <1>0 DEF GovernanceInv, GovernanceTypes
<1>2. RegistryTrue'
  BY <1>0 DEF GovernanceInv, RegistryTrue
<1>3. RolesTrue' /\ AnsweredTrue'
  BY <1>0 DEF GovernanceInv, RolesTrue, AnsweredTrue
<1>4. ReadsTrue'
  BY <1>0 DEF GovernanceInv, ReadsTrue, WasApproved
<1>5. QED
  BY <1>1, <1>2, <1>3, <1>4 DEF GovernanceInv

LEMMA GovernanceInvNext == GovernanceInv /\ [GovernanceNext]_governanceVars => GovernanceInv'
<1> SUFFICES ASSUME GovernanceInv, [GovernanceNext]_governanceVars
             PROVE  GovernanceInv'
  OBVIOUS
<1>1. CASE UNCHANGED governanceVars
  <2>1. GovernanceTypes' /\ RegistryTrue' /\ RolesTrue'
    BY <1>1 DEF governanceVars, GovernanceInv, GovernanceTypes, RegistryTrue, RolesTrue
  <2>2. ReadsTrue' /\ AnsweredTrue'
    BY <1>1 DEF governanceVars, GovernanceInv, ReadsTrue, AnsweredTrue, WasApproved
  <2>3. QED
    BY <2>1, <2>2 DEF GovernanceInv
<1>2. ASSUME NEW r \in Queries, QueryStep(r)
      PROVE  GovernanceInv'
  BY <1>2, AuthenticateKeeps, AuthoriseKeeps, ClassifyKeeps, DecideKeeps, RunQueryKeeps,
     ExplainKeeps DEF QueryStep
<1>3. QED
  BY <1>1, <1>2, ReceiveKeeps, RegisterKeeps DEF GovernanceNext

(* projection_lineage_from_sql: of a column with one source, this source. *)
LEMMA LineageTraced ==
  ASSUME NEW in \in Inputs, NEW l \in Answered(in), NEW f, Traced(in, l, f)
  PROVE  Lineage(in, l) = f
<1> DEFINE P == in.projection
           E == [label : Labels, columns : Seq(Fields), answer : Labels \cup {None}]
           T == Labelled(in, l)
<1>1. /\ P \in Seq(E) /\ Len(P) \in Nat /\ DOMAIN P = 1 .. Len(P)
      /\ \A i \in DOMAIN P : P[i] \in E
  <2>1. P \in Seq(E)
    BY GovernanceAssumption DEF IsProjection
  <2> HIDE DEF P, E
  <2>2. QED
    BY <2>1, LenProperties, ElementOfSeq
<1>2. \A i \in DOMAIN P : P[i].label = l \/ P[i].answer = l =>
        P[i].label = l /\ ColumnsOf(P[i]) = {f}
  BY DEF Traced, Expressions
<1>3. \A i \in DOMAIN P : ColumnsOf(P[i]) = {f} => P[i].columns # <<>> /\ P[i].columns[1] = f
  <2> TAKE i \in DOMAIN P
  <2> HAVE ColumnsOf(P[i]) = {f}
  <2> DEFINE c == P[i].columns
  <2>1. c \in Seq(Fields)
    BY <1>1
  <2>2. {c[k] : k \in DOMAIN c} = {f}
    BY DEF ColumnsOf
  <2> HIDE DEF c
  <2>3. DOMAIN c = 1 .. Len(c) /\ Len(c) \in Nat
    BY <2>1, LenProperties
  <2>4. \E k \in 1 .. Len(c) : TRUE
    BY <2>2, <2>3
  <2>5. 1 \in DOMAIN c /\ c # <<>>
    BY <2>3, <2>4
  <2>6. c[1] = f
    BY <2>2, <2>5
  <2>7. QED
    BY <2>5, <2>6 DEF c
<1>4. PICK a \in DOMAIN P : P[a].answer = l
  BY DEF Answered, Expressions
<1>5. a \in T
  BY <1>2, <1>3, <1>4 DEF Labelled
<1>6. T \subseteq 1 .. Len(P)
  BY <1>1 DEF Labelled
<1> HIDE DEF P, T
<1>7. \E m \in T : \A k \in T : k <= m
  BY <1>1, <1>5, <1>6, LastIndex
<1>8. LastOf(T) \in T
  BY <1>7, Zenon DEF LastOf
<1>9. LastOf(T) \in DOMAIN P /\ P[LastOf(T)].label = l
  BY <1>8 DEF Labelled, T, P
<1>10. P[LastOf(T)].columns[1] = f
  BY <1>2, <1>3, <1>9
<1>11. QED
  BY <1>5, <1>10 DEF Lineage, T, P

(* What the rows of an answer rest on. *)
LEMMA InvGoverns == GovernanceInv => AccessGoverned
<1> SUFFICES ASSUME GovernanceInv
             PROVE  AccessGoverned
  OBVIOUS
<1>1. GovernanceTypeOK
  <2>1. ASSUME NEW r \in Queries
        PROVE  /\ input[r] = None <=> stage[r] = "idle"
               /\ stage[r] \in Stages /\ roles[r] \subseteq Roles
               /\ rows[r] # None => DOMAIN rows[r] = Answered(input[r])
    BY DEF GovernanceInv, GovernanceTypes, AnsweredTrue, Mask
  <2>2. QED
    BY <2>1 DEF GovernanceInv, GovernanceTypes, RegistryTrue, GovernanceTypeOK, Stages
<1>2. RestrictedStaysMasked
  <2>1. ASSUME NEW r \in Queries, rows[r] # None, NEW l \in DOMAIN rows[r],
               NEW f \in Projected(input[r]), Traced(input[r], l, f),
               ClassifyField(Dataset(input[r]), f) = "RESTRICTED", rows[r][l] = "clear"
        PROVE  ClearWith(f) \cap Permissions(Bindings[input[r].subject]) # {}
    <3> DEFINE in == input[r]
    <3>1. /\ rows[r] = Mask(in, decision[r]) /\ Clears(decision[r], in, roles[r])
          /\ roles[r] = AuthorisedRoles(in) /\ in \in Inputs
      <4>1. r \in read /\ stage[r] # "idle"
        BY <2>1 DEF GovernanceInv, AnsweredTrue
      <4>2. QED
        BY <2>1, <4>1 DEF GovernanceInv, GovernanceTypes, AnsweredTrue, ReadsTrue
    <3>2. l \in Answered(in) /\ Lineage(in, l) \notin decision[r].masked
      BY <2>1, <3>1 DEF Mask
    <3>3. Lineage(in, l) = f
      BY <2>1, <3>1, <3>2, LineageTraced
    <3>4. FieldResult(in, f, Permissions(roles[r])) = "ALLOW"
      <4>1. FieldResult(in, f, Permissions(roles[r])) \in FieldResults
        BY FieldAllowed DEF FieldResult
      <4>2. FieldResult(in, f, Permissions(roles[r])) \notin {"MASK", "DENY"}
        BY <2>1, <3>1, <3>2, <3>3 DEF Clears, MaskedFields
      <4>3. QED
        BY <4>1, <4>2 DEF FieldResults
    <3>5. ClearWith(f) \cap Permissions(roles[r]) # {}
      BY <2>1, <3>4, FieldAllowed DEF FieldResult
    <3>6. Permissions(roles[r]) \subseteq Permissions(Bindings[in.subject])
      BY <3>1, PermissionsGrow DEF AuthorisedRoles
    <3>7. QED
      BY <3>5, <3>6
  <2>2. QED
    BY <2>1 DEF RestrictedStaysMasked
<1>2a. AnswersAdmitted
  <2>1. ASSUME NEW r \in Queries, rows[r] # None
        PROVE  LET bound == Permissions(Bindings[input[r].subject])
               IN /\ AuthEnabled => input[r].caller # None
                  /\ Requires(ClassifyDataset(Dataset(input[r]))) \subseteq bound
                  /\ \A f \in Projected(input[r]) : FieldResult(input[r], f, bound) # "DENY"
    <3> DEFINE P == Permissions(roles[r])
               Q == Permissions(Bindings[input[r].subject])
    <3>1. /\ Clears(decision[r], input[r], roles[r]) /\ Verified(input[r])
          /\ roles[r] = AuthorisedRoles(input[r])
      BY <2>1 DEF GovernanceInv, AnsweredTrue, ReadsTrue
    <3>2. P \subseteq Q
      BY <3>1, PermissionsGrow DEF AuthorisedRoles
    <3>3. /\ Requires(ClassifyDataset(Dataset(input[r]))) \subseteq P
          /\ \A f \in Projected(input[r]) : FieldResult(input[r], f, P) # "DENY"
      BY <3>1 DEF Clears
    <3> HIDE DEF P, Q
    <3>4. \A f \in Projected(input[r]) : FieldResult(input[r], f, Q) # "DENY"
      BY <3>2, <3>3, FieldWidens DEF FieldResult
    <3>5. QED
      BY <3>1, <3>2, <3>3, <3>4 DEF Verified, Q
  <2>2. QED
    BY <2>1 DEF AnswersAdmitted
<1>3. RestrictedWasApproved
  BY DEF RestrictedWasApproved, GovernanceInv, AnsweredTrue, ReadsTrue, WasApproved
<1>4. DecisionsAudited
  BY DEF DecisionsAudited, GovernanceInv, AnsweredTrue, ReadsTrue, Clears
<1>5. RolesOnlyWiden
  BY EvaluateWidens DEF RolesOnlyWiden
<1>6. QED
  BY <1>1, <1>2, <1>2a, <1>3, <1>4, <1>5 DEF AccessGoverned

(* governance.py, for any number of parallel requests, any inputs, bindings  *)
(* and changes of the registry between decision and query, of the subject a  *)
(* request names: no restricted value in the clear without a bound role (of  *)
(* the columns with one source), no row its roles do not admit and no        *)
(* restricted one without an approval; no decision unaudited, and no role    *)
(* that takes a permission away.                                             *)
THEOREM AccessGovernedHolds == GovernanceSpec => []AccessGoverned
  BY InvGoverns, GovernanceInvInit, GovernanceInvNext, PTL DEF GovernanceSpec

-----------------------------------------------------------------------------
(* Publications.  What is said of a publication is said of its record r and  *)
(* of the rows ds, ch and db Superset holds: a write of another publication, *)
(* or the commit of a suite, changes the rows under it.                      *)

SuiteNames == UNION {NamesOf(SuiteVisuals[s]) : s \in Suites}
AllIds == UNION {IdsOf(Visuals[d]) : d \in Dashboards}
AllSids == UNION {SidsOf(Visuals[d]) : d \in Dashboards}
ChartRows == [name : AgentNames \cup SuiteNames, src : DOMAIN Standing, in : SUBSET Slugs]
Artifacts == ({"dataset"} \X DOMAIN Standing) \cup ({"chart"} \X Nat) \cup ({"dashboard"} \X Slugs)

(* The dictionaries with some of the keys K. *)
Maps(K, W) == UNION {[S -> W] : S \in SUBSET K}

Looping == {"dataset", "dataset_post", "chart", "chart_write"}
Finishing == {"dashboard", "dashboard_put", "dashboard_post", "associate"}
Admitted == {"login", "database", "completed"} \cup Looping \cup Finishing

PublicationRecords ==
  [pc : Admitted \cup Ended \cup {"idle"}, spec : Dashboards \cup {"none"}, next : Nat \ {0},
   found : SUBSET Nat, sources : Maps(AllSids, DOMAIN Standing), drawn : Maps(AllIds, Nat),
   completed : SUBSET Artifacts, alone : BOOLEAN]

(* What a chart of this name may be drawn from. *)
RightSource(name, src) ==
  Approved(src) \/ \E d \in Dashboards : name \in NamesOf(Visuals[d]) /\ ~OneSource(d)

(* The rows of Superset: the charts of an agent are drawn from what is       *)
(* approved, and a specification that is not has left nothing behind.        *)
RowsTrue(ds, id, ch, db) ==
  /\ ds \subseteq DOMAIN Standing /\ id \in Nat
  /\ ch \in [DOMAIN ch -> ChartRows] /\ DOMAIN ch \subseteq 1 .. id
  /\ \A c \in DOMAIN ch : ch[c].name \in AgentNames => RightSource(ch[c].name, ch[c].src)
  /\ DOMAIN db \subseteq Slugs
  /\ \A s \in DOMAIN db : \A i \in DOMAIN db[s] : db[s][i] \in DOMAIN ch
  /\ \A s \in DOMAIN db : s \notin Suites => SlugApproved(s)
  /\ \A c \in DOMAIN ch : \A s \in ch[c].in : s \notin Suites => SlugApproved(s)

NamedOnce(ch) == \A c, d \in DOMAIN ch : ch[c].name = ch[d].name => c = d

Held(a, ds, ch, db) ==
  CASE a[1] = "dataset" -> a[2] \in ds
    [] a[1] = "chart" -> a[2] \in DOMAIN ch
    [] a[1] = "dashboard" -> a[2] \in DOMAIN db

(* Where a publication is in its visuals, and which of them are drawn. *)
AtVisual(r) ==
  /\ r.pc # "idle" => r.next <= Len(Visuals[r.spec])
  /\ r.pc \in {"login", "database"} => r.next = 1 /\ DOMAIN r.drawn = {}
  /\ r.pc \in Looping => \A i \in 1 .. r.next - 1 : Visuals[r.spec][i].id \in DOMAIN r.drawn
  /\ r.pc \in Finishing \cup {"completed"} =>
       \A i \in DOMAIN Visuals[r.spec] : Visuals[r.spec][i].id \in DOMAIN r.drawn
  /\ r.pc \in {"dashboard", "dashboard_put", "dashboard_post"} => r.next = 1
  /\ r.pc \in {"dashboard_put", "dashboard_post", "associate"} =>
       \A i \in DOMAIN Layout[r.spec] : Layout[r.spec][i] \in DOMAIN r.drawn

(* The sources it has registered are of its visuals; that of the visual it   *)
(* draws is one of them.                                                     *)
SourcesKnown(r) ==
  /\ \A x \in DOMAIN r.sources : \E i \in DOMAIN Visuals[r.spec] :
       Visuals[r.spec][i].sid = x /\ Visuals[r.spec][i].src = r.sources[x]
  /\ r.pc \in {"chart", "chart_write"} => Visuals[r.spec][r.next].sid \in DOMAIN r.sources

(* The rows it has found or written are those of its visuals. *)
RowsNamed(r, ch) ==
  /\ r.found \subseteq DOMAIN ch
  /\ r.pc = "chart_write" => \A c \in r.found : ch[c].name = Visuals[r.spec][r.next].name
  /\ \A v \in DOMAIN r.drawn :
       /\ r.drawn[v] \in DOMAIN ch
       /\ \E i \in DOMAIN Visuals[r.spec] :
            Visuals[r.spec][i].id = v /\ Visuals[r.spec][i].name = ch[r.drawn[v]].name

(* While nobody else writes, those of a builder's specification are also as  *)
(* it has written them.                                                      *)
Undisturbed(r, ch, db) ==
  /\ r.pc \in Looping \cup Finishing \cup {"completed"} =>
       \A i \in DOMAIN Visuals[r.spec] : Visuals[r.spec][i].id \in DOMAIN r.drawn =>
         ch[r.drawn[Visuals[r.spec][i].id]].src = Visuals[r.spec][i].src
  /\ r.pc \in {"associate", "completed"} =>
       /\ SlugOf[r.spec] \in DOMAIN db
       /\ db[SlugOf[r.spec]] = [i \in DOMAIN Layout[r.spec] |-> r.drawn[Layout[r.spec][i]]]
       /\ \A i \in DOMAIN Visuals[r.spec] : i < r.next \/ r.pc = "completed" =>
            SlugOf[r.spec] \in ch[r.drawn[Visuals[r.spec][i].id]].in

PubTrue(r, ds, ch, db) ==
  /\ r \in PublicationRecords
  /\ r.pc = "idle" => r = Idle
  /\ r.pc # "idle" => r.spec \in Dashboards
  /\ r.pc \in Admitted \/ r.completed # {} => SourcesApproved(r.spec)
  /\ AtVisual(r) /\ SourcesKnown(r) /\ RowsNamed(r, ch)
  /\ \A a \in r.completed : Held(a, ds, ch, db)
  /\ r.alone /\ r.spec \in Built => Undisturbed(r, ch, db)

(* A row that was not found is still not there. *)
StillMissing(r, ch) ==
  r.pc = "chart_write" /\ r.found = {} =>
    \A c \in DOMAIN ch : ch[c].name # Visuals[r.spec][r.next].name

AtWork(r) == r.pc \notin Ended \cup {"idle"}

BiInv ==
  /\ RowsTrue(datasets, lastId, charts, dashboards)
  /\ pub \in [Publications -> PublicationRecords]
  /\ \A p \in Publications : PubTrue(pub[p], datasets, charts, dashboards)
  /\ ~overlapped =>
       /\ \A p, q \in Publications : AtWork(pub[p]) /\ AtWork(pub[q]) => p = q
       /\ NamedOnce(charts)
       /\ \A p \in Publications : StillMissing(pub[p], charts)
  /\ connection \in {"none", "broken", "working"} /\ ExitCodesTrue


-----------------------------------------------------------------------------
(* Facts about the records and the rows *)

LEMMA VisualFacts ==
  ASSUME NEW d \in Dashboards
  PROVE  /\ Len(Visuals[d]) \in Nat /\ Len(Visuals[d]) >= 1
         /\ DOMAIN Visuals[d] = 1 .. Len(Visuals[d])
         /\ \A i \in 1 .. Len(Visuals[d]) :
              /\ Visuals[d][i].name \in AgentNames /\ Visuals[d][i].name \in NamesOf(Visuals[d])
              /\ Visuals[d][i].src \in DOMAIN Standing
              /\ Visuals[d][i].id \in AllIds /\ Visuals[d][i].sid \in AllSids
<1> DEFINE R == [id : IdsOf(Visuals[d]), name : NamesOf(Visuals[d]), sid : SidsOf(Visuals[d]),
                 src : DOMAIN Standing]
<1>1. Visuals[d] \in Seq(R) /\ Visuals[d] # <<>>
  BY BiAssumption
<1>2. /\ Len(Visuals[d]) \in Nat /\ DOMAIN Visuals[d] = 1 .. Len(Visuals[d])
      /\ \A i \in 1 .. Len(Visuals[d]) : Visuals[d][i] \in R
  <2> HIDE DEF R
  <2>1. QED
    BY <1>1, LenProperties, ElementOfSeq
<1>3. Len(Visuals[d]) >= 1
  <2>1. Len(Visuals[d]) # 0
    <3> HIDE DEF R
    <3>1. QED
      BY <1>1, EmptySeq
  <2>2. QED
    BY <1>2, <2>1
<1>4. \A i \in 1 .. Len(Visuals[d]) :
        /\ Visuals[d][i].name \in NamesOf(Visuals[d]) /\ Visuals[d][i].src \in DOMAIN Standing
        /\ Visuals[d][i].id \in IdsOf(Visuals[d]) /\ Visuals[d][i].sid \in SidsOf(Visuals[d])
  BY <1>2
<1>5. /\ NamesOf(Visuals[d]) \subseteq AgentNames
      /\ IdsOf(Visuals[d]) \subseteq AllIds /\ SidsOf(Visuals[d]) \subseteq AllSids
  BY DEF AgentNames, AllIds, AllSids
<1>6. QED
  BY <1>2, <1>3, <1>4, <1>5

(* What the builders make. *)
LEMMA BuiltFacts ==
  ASSUME NEW d \in Built
  PROVE  /\ d \in Dashboards /\ OneSource(d)
         /\ \A i, k \in DOMAIN Visuals[d] : Visuals[d][i].id = Visuals[d][k].id => i = k
         /\ \A i, k \in DOMAIN Visuals[d] : Visuals[d][i].name = Visuals[d][k].name => i = k
         /\ SlugOf[d] \notin Suites
         /\ \A i \in DOMAIN Visuals[d] : \E k \in DOMAIN Layout[d] : Layout[d][k] = Visuals[d][i].id
<1>1. /\ d \in Dashboards /\ OneSource(d) /\ Distinct(Visuals[d]) /\ SlugOf[d] \notin Suites
      /\ \A i, k \in DOMAIN Visuals[d] : Visuals[d][i].id = Visuals[d][k].id => i = k
      /\ {Layout[d][i] : i \in DOMAIN Layout[d]} = IdsOf(Visuals[d])
  BY BiAssumption
<1>2. \A i \in DOMAIN Visuals[d] : Visuals[d][i].id \in IdsOf(Visuals[d])
  BY DEF IdsOf
<1>3. QED
  BY <1>1, <1>2 DEF Distinct

(* Of charts with one source the last source of an id is every source of it. *)
LEMMA SourceApproved ==
  ASSUME NEW d \in Dashboards, SourcesApproved(d), OneSource(d), NEW i \in DOMAIN Visuals[d]
  PROVE  Approved(Visuals[d][i].src)
<1> DEFINE V == Visuals[d]
           T == {k \in DOMAIN V : V[k].sid = V[i].sid}
<1>1. Len(V) \in Nat /\ DOMAIN V = 1 .. Len(V)
  BY VisualFacts
<1>2. PICK m \in T : \A k \in T : k <= m
  <2>1. T \subseteq 1 .. Len(V) /\ T # {}
    BY <1>1
  <2> HIDE DEF T
  <2>2. QED
    BY <1>1, <2>1, LastIndex
<1>3. m \in DOMAIN V /\ V[m].sid = V[i].sid
  BY <1>2
<1>4. \A k \in DOMAIN V : k > m => V[k].sid # V[m].sid
  BY <1>1, <1>2, <1>3
<1>5. Approved(V[m].src)
  BY <1>3, <1>4 DEF SourcesApproved
<1>6. V[m].src = V[i].src
  BY <1>3 DEF OneSource
<1>7. QED
  BY <1>5, <1>6

LEMMA PutMap ==
  ASSUME NEW K, NEW W, NEW f \in Maps(K, W), NEW k \in K, NEW v \in W
  PROVE  Put(f, k, v) \in Maps(K, W)
<1>1. PICK S \in SUBSET K : f \in [S -> W]
  BY DEF Maps
<1>2. Put(f, k, v) \in [S \cup {k} -> W] /\ S \cup {k} \in SUBSET K
  BY <1>1 DEF Put
<1>3. QED
  BY <1>1, <1>2 DEF Maps, Put

LEMMA NoMap ==
  ASSUME NEW K, NEW W
  PROVE  <<>> \in Maps(K, W)
<1>1. <<>> \in [{} -> W] /\ {} \in SUBSET K
  OBVIOUS
<1>2. QED
  BY <1>1 DEF Maps

(* The names of an agent's charts are not those of a suite. *)
LEMMA NamesApart == AgentNames \cap SuiteNames = {}
<1>1. \A d \in Dashboards : \A s \in Suites : NamesOf(Visuals[d]) \cap NamesOf(SuiteVisuals[s]) = {}
  BY BiAssumption
<1>2. QED
  BY <1>1 DEF AgentNames, SuiteNames

(* Rows are added and rewritten, and keep their names. *)
RowsGrow(ds, ch, db, ds2, ch2, db2) ==
  /\ ds \subseteq ds2 /\ DOMAIN db \subseteq DOMAIN db2
  /\ \A c \in DOMAIN ch : c \in DOMAIN ch2 /\ ch2[c].name = ch[c].name

(* The agents' dashboards and charts stay as they are. *)
AgentRowsKept(ch, db, ch2, db2) ==
  /\ \A c \in DOMAIN ch : ch[c].name \in AgentNames =>
       ch2[c].src = ch[c].src /\ \A s \in ch[c].in : s \notin Suites => s \in ch2[c].in
  /\ \A s \in DOMAIN db : s \notin Suites => db2[s] = db[s]

LEMMA HeldKept ==
  ASSUME NEW ds, NEW ch, NEW db, NEW ds2, NEW ch2, NEW db2, RowsGrow(ds, ch, db, ds2, ch2, db2),
         NEW a \in Artifacts, Held(a, ds, ch, db)
  PROVE  Held(a, ds2, ch2, db2)
<1>1. a[1] \in {"dataset", "chart", "dashboard"}
  BY DEF Artifacts
<1>2. CASE a[1] = "dataset"
  BY <1>2 DEF Held, RowsGrow
<1>3. CASE a[1] = "chart"
  BY <1>3 DEF Held, RowsGrow
<1>4. CASE a[1] = "dashboard"
  BY <1>4 DEF Held, RowsGrow
<1>5. QED
  BY <1>1, <1>2, <1>3, <1>4

(* A publication that fails keeps what it has reported, whatever it or others *)
(* have written in the meantime.                                             *)
LEMMA FailedTrue ==
  ASSUME NEW ds, NEW ch, NEW db, NEW ds2, NEW ch2, NEW db2, RowsGrow(ds, ch, db, ds2, ch2, db2),
         NEW r, PubTrue(r, ds, ch, db), AtWork(r)
  PROVE  LET f == [r EXCEPT !.pc = "failed"]
         IN  PubTrue(f, ds2, ch2, db2) /\ ~AtWork(f) /\ StillMissing(f, ch2)
<1> DEFINE f == [r EXCEPT !.pc = "failed"]
<1>1. r \in PublicationRecords /\ r.pc # "idle"
  BY DEF PubTrue, AtWork
<1>2. /\ f \in PublicationRecords /\ f.pc = "failed" /\ f.spec = r.spec /\ f.next = r.next
      /\ f.found = r.found /\ f.sources = r.sources /\ f.drawn = r.drawn /\ f.completed = r.completed
  BY <1>1 DEF PublicationRecords, Ended
<1>3. ~AtWork(f) /\ StillMissing(f, ch2)
  BY <1>2 DEF AtWork, StillMissing, Ended
<1>4. AtVisual(f)
  BY <1>1, <1>2 DEF PubTrue, AtVisual, Looping, Finishing
<1>4a. SourcesKnown(f)
  BY <1>2 DEF PubTrue, SourcesKnown
<1>5. RowsNamed(f, ch2)
  BY <1>2 DEF PubTrue, RowsNamed, RowsGrow
<1>6. Undisturbed(f, ch2, db2)
  BY <1>2 DEF Undisturbed, Looping, Finishing
<1>7. f.spec \in Dashboards /\ (f.completed # {} => SourcesApproved(f.spec))
  BY <1>1, <1>2 DEF PubTrue
<1>8. \A a \in f.completed : Held(a, ds2, ch2, db2)
  <2>1. r.completed \subseteq Artifacts
    BY <1>1 DEF PublicationRecords
  <2>2. \A a \in r.completed : Held(a, ds, ch, db)
    BY DEF PubTrue
  <2>3. QED
    BY <1>2, <2>1, <2>2, HeldKept
<1>9. f.pc \notin Admitted /\ f.pc # "idle"
  BY <1>2 DEF Admitted, Looping, Finishing
<1>10. QED
  BY <1>2, <1>3, <1>4, <1>4a, <1>5, <1>6, <1>7, <1>8, <1>9 DEF PubTrue

(* Somebody else's write leaves a publication true, though not undisturbed. *)
LEMMA OtherKept ==
  ASSUME NEW ds, NEW ch, NEW db, NEW ds2, NEW ch2, NEW db2, RowsGrow(ds, ch, db, ds2, ch2, db2),
         NEW r, PubTrue(r, ds, ch, db)
  PROVE  LET o == [r EXCEPT !.alone = @ /\ r.pc = "idle"]
         IN  PubTrue(o, ds2, ch2, db2) /\ (AtWork(o) <=> AtWork(r))
<1> DEFINE o == [r EXCEPT !.alone = @ /\ r.pc = "idle"]
<1>1. r \in PublicationRecords
  BY DEF PubTrue
<1>2. /\ o \in PublicationRecords /\ o.pc = r.pc /\ o.spec = r.spec /\ o.next = r.next
      /\ o.found = r.found /\ o.sources = r.sources /\ o.drawn = r.drawn /\ o.completed = r.completed
      /\ o.alone => r.pc = "idle"
      /\ r.pc = "idle" => o.alone = r.alone
  BY <1>1 DEF PublicationRecords
<1>3. r.pc = "idle" => o = Idle
  <2>1. SUFFICES ASSUME r.pc = "idle" PROVE o = Idle
    OBVIOUS
  <2>2. r = Idle
    BY <2>1 DEF PubTrue
  <2>3. QED
    BY <2>1, <2>2 DEF Idle
<1>4. AtVisual(o)
  BY <1>2 DEF PubTrue, AtVisual
<1>4a. SourcesKnown(o)
  BY <1>2 DEF PubTrue, SourcesKnown
<1>5. RowsNamed(o, ch2)
  BY <1>2 DEF PubTrue, RowsNamed, RowsGrow
<1>6. o.alone => Undisturbed(o, ch2, db2)
  BY <1>2 DEF Undisturbed, Looping, Finishing
<1>7. \A a \in o.completed : Held(a, ds2, ch2, db2)
  <2>1. r.completed \subseteq Artifacts
    BY <1>1 DEF PublicationRecords
  <2>2. \A a \in r.completed : Held(a, ds, ch, db)
    BY DEF PubTrue
  <2>3. QED
    BY <1>2, <2>1, <2>2, HeldKept
<1>8. /\ o.pc # "idle" => o.spec \in Dashboards
      /\ o.pc \in Admitted \/ o.completed # {} => SourcesApproved(o.spec)
  BY <1>2 DEF PubTrue
<1>9. AtWork(o) <=> AtWork(r)
  BY <1>2 DEF AtWork
<1>10. QED
  BY <1>2, <1>3, <1>4, <1>4a, <1>5, <1>6, <1>7, <1>8, <1>9 DEF PubTrue

(* What leaves the agents' rows alone leaves a publication true. *)
LEMMA ApartKept ==
  ASSUME NEW ds, NEW ch, NEW db, NEW ds2, NEW ch2, NEW db2, RowsGrow(ds, ch, db, ds2, ch2, db2),
         AgentRowsKept(ch, db, ch2, db2), NEW r, PubTrue(r, ds, ch, db)
  PROVE  PubTrue(r, ds2, ch2, db2)
<1>1. RowsNamed(r, ch2)
  BY DEF PubTrue, RowsNamed, RowsGrow
<1>2. \A a \in r.completed : Held(a, ds2, ch2, db2)
  <2>1. r.completed \subseteq Artifacts
    BY DEF PubTrue, PublicationRecords
  <2>2. \A a \in r.completed : Held(a, ds, ch, db)
    BY DEF PubTrue
  <2>3. QED
    BY <2>1, <2>2, HeldKept
<1>3. r.alone /\ r.spec \in Built => Undisturbed(r, ch2, db2)
  <2>1. SUFFICES ASSUME r.alone, r.spec \in Built, r.pc \in Looping \cup Finishing \cup {"completed"}
                 PROVE  Undisturbed(r, ch2, db2)
    BY DEF Undisturbed, Finishing
  <2>2. /\ r.spec \in Dashboards /\ Undisturbed(r, ch, db) /\ RowsNamed(r, ch)
        /\ SlugOf[r.spec] \notin Suites
    BY <2>1, BuiltFacts DEF PubTrue
  <2>3. \A v \in DOMAIN r.drawn : r.drawn[v] \in DOMAIN ch /\ ch[r.drawn[v]].name \in AgentNames
    <3>1. \A v \in DOMAIN r.drawn : r.drawn[v] \in DOMAIN ch /\
            \E i \in DOMAIN Visuals[r.spec] : ch[r.drawn[v]].name = Visuals[r.spec][i].name
      BY <2>2 DEF RowsNamed
    <3>2. \A i \in DOMAIN Visuals[r.spec] : Visuals[r.spec][i].name \in AgentNames
      BY <2>2, VisualFacts
    <3>3. QED
      BY <3>1, <3>2
  <2>4. \A i \in DOMAIN Visuals[r.spec] : Visuals[r.spec][i].id \in DOMAIN r.drawn =>
          ch2[r.drawn[Visuals[r.spec][i].id]].src = Visuals[r.spec][i].src
    BY <2>1, <2>2, <2>3 DEF Undisturbed, AgentRowsKept
  <2>5. ASSUME r.pc \in {"associate", "completed"}
        PROVE  /\ SlugOf[r.spec] \in DOMAIN db2
               /\ db2[SlugOf[r.spec]] = [i \in DOMAIN Layout[r.spec] |-> r.drawn[Layout[r.spec][i]]]
               /\ \A i \in DOMAIN Visuals[r.spec] : i < r.next \/ r.pc = "completed" =>
                    SlugOf[r.spec] \in ch2[r.drawn[Visuals[r.spec][i].id]].in
    <3>1. \A i \in DOMAIN Visuals[r.spec] : Visuals[r.spec][i].id \in DOMAIN r.drawn
      BY <2>5 DEF PubTrue, AtVisual, Finishing
    <3>2. /\ SlugOf[r.spec] \in DOMAIN db
          /\ db[SlugOf[r.spec]] = [i \in DOMAIN Layout[r.spec] |-> r.drawn[Layout[r.spec][i]]]
          /\ \A i \in DOMAIN Visuals[r.spec] : i < r.next \/ r.pc = "completed" =>
               SlugOf[r.spec] \in ch[r.drawn[Visuals[r.spec][i].id]].in
      BY <2>2, <2>5 DEF Undisturbed
    <3>3. SlugOf[r.spec] \in DOMAIN db2 /\ db2[SlugOf[r.spec]] = db[SlugOf[r.spec]]
      BY <2>2, <3>2 DEF AgentRowsKept, RowsGrow
    <3>4. \A i \in DOMAIN Visuals[r.spec] :
            SlugOf[r.spec] \in ch[r.drawn[Visuals[r.spec][i].id]].in
              => SlugOf[r.spec] \in ch2[r.drawn[Visuals[r.spec][i].id]].in
      BY <2>2, <2>3, <3>1 DEF AgentRowsKept
    <3>5. QED
      BY <3>2, <3>3, <3>4
  <2>6. QED
    BY <2>4, <2>5 DEF Undisturbed
<1>4. QED
  BY <1>1, <1>2, <1>3 DEF PubTrue


-----------------------------------------------------------------------------
(* The calls of a publication *)

Others == <<role, connection, suite, reg, operator, overlapped>>

(* A read changes the publication only. *)
LEMMA ReadKept ==
  ASSUME BiInv, UNCHANGED <<superset, Others>>, NEW p \in Publications, AtWork(pub[p]),
         NEW n, pub' = [pub EXCEPT ![p] = n],
         PubTrue(n, datasets, charts, dashboards), StillMissing(n, charts)
  PROVE  BiInv'
<1>1. /\ datasets' = datasets /\ charts' = charts /\ lastId' = lastId /\ dashboards' = dashboards
      /\ connection' = connection /\ reg' = reg /\ overlapped' = overlapped
  BY DEF superset, Others
<1>2. /\ pub \in [Publications -> PublicationRecords] /\ n \in PublicationRecords
  BY DEF BiInv, PubTrue
<1>3. /\ pub' \in [Publications -> PublicationRecords] /\ pub'[p] = n
      /\ \A q \in Publications : q # p => pub'[q] = pub[q]
  BY <1>2
<1>4. \A q \in Publications : PubTrue(pub'[q], datasets, charts, dashboards)
  BY <1>3 DEF BiInv
<1>5. ~overlapped =>
        /\ \A q, o \in Publications : AtWork(pub'[q]) /\ AtWork(pub'[o]) => q = o
        /\ \A q \in Publications : StillMissing(pub'[q], charts)
  BY <1>3 DEF BiInv
<1>6. ExitCodesTrue' /\ connection' \in {"none", "broken", "working"}
  BY <1>1 DEF BiInv, ExitCodesTrue
<1>7. RowsTrue(datasets, lastId, charts, dashboards) /\ (~overlapped => NamedOnce(charts))
  BY DEF BiInv
<1>8. QED
  BY <1>1, <1>3, <1>4, <1>5, <1>6, <1>7 DEF BiInv

LEMMA ReadStep ==
  ASSUME BiInv, NEW p \in Publications, AtWork(pub[p]), NEW permission, NEW n,
         Read(p, permission, n),
         PubTrue(n, datasets, charts, dashboards), StillMissing(n, charts)
  PROVE  BiInv'
<1>1. UNCHANGED <<superset, Others>>
  BY DEF Read, Others
<1>2. CASE pub' = [pub EXCEPT ![p] = n]
  BY <1>1, <1>2, ReadKept
<1>3. CASE pub' = [pub EXCEPT ![p] = PublicationFailed(p)]
  <2>1. PubTrue(pub[p], datasets, charts, dashboards)
    BY DEF BiInv
  <2>2. RowsGrow(datasets, charts, dashboards, datasets, charts, dashboards)
    BY DEF RowsGrow
  <2>3. /\ PubTrue(PublicationFailed(p), datasets, charts, dashboards)
        /\ StillMissing(PublicationFailed(p), charts)
    BY <2>1, <2>2, FailedTrue DEF PublicationFailed
  <2>4. QED
    BY <1>1, <1>3, <2>3, ReadKept
<1>4. QED
  BY <1>2, <1>3 DEF Read

(* A write disturbs the others. *)
LEMMA WriteKept ==
  ASSUME BiInv, UNCHANGED Others, NEW p \in Publications, AtWork(pub[p]),
         NEW n, Disturb(p, n),
         RowsTrue(datasets, lastId, charts, dashboards)',
         RowsGrow(datasets, charts, dashboards, datasets', charts', dashboards'),
         PubTrue(n, datasets', charts', dashboards'),
         ~overlapped => NamedOnce(charts') /\ StillMissing(n, charts')
  PROVE  BiInv'
<1>1. connection' = connection /\ reg' = reg /\ overlapped' = overlapped
  BY DEF Others
<1>2. /\ pub \in [Publications -> PublicationRecords] /\ n \in PublicationRecords
      /\ \A q \in Publications : PubTrue(pub[q], datasets, charts, dashboards)
  BY DEF BiInv, PubTrue
<1>3. /\ pub' = [q \in Publications |-> pub'[q]] /\ pub'[p] = n
      /\ \A q \in Publications : q # p => pub'[q] = [pub[q] EXCEPT !.alone = @ /\ pub[q].pc = "idle"]
  BY DEF Disturb
<1>4. \A q \in Publications : q # p =>
        PubTrue(pub'[q], datasets', charts', dashboards') /\ (AtWork(pub'[q]) <=> AtWork(pub[q]))
  BY <1>2, <1>3, OtherKept
<1>5. \A q \in Publications : PubTrue(pub'[q], datasets', charts', dashboards')
  BY <1>3, <1>4
<1>6. pub' \in [Publications -> PublicationRecords]
  BY <1>3, <1>5 DEF PubTrue
<1>7. ~overlapped =>
        /\ \A q, o \in Publications : AtWork(pub'[q]) /\ AtWork(pub'[o]) => q = o
        /\ \A q \in Publications : StillMissing(pub'[q], charts')
  <2>1. SUFFICES ASSUME ~overlapped
                 PROVE  /\ \A q, o \in Publications : AtWork(pub'[q]) /\ AtWork(pub'[o]) => q = o
                        /\ \A q \in Publications : StillMissing(pub'[q], charts')
    OBVIOUS
  <2>2. \A q \in Publications : q # p => ~AtWork(pub[q])
    BY <2>1 DEF BiInv
  <2>3. \A q \in Publications : q # p => ~AtWork(pub'[q])
    BY <1>4, <2>2
  <2>4. \A q \in Publications : q # p => StillMissing(pub'[q], charts')
    BY <2>3 DEF StillMissing, AtWork, Ended
  <2>5. QED
    BY <1>3, <2>1, <2>3, <2>4
<1>8. ExitCodesTrue' /\ connection' \in {"none", "broken", "working"}
  BY <1>1 DEF BiInv, ExitCodesTrue
<1>9. QED
  BY <1>1, <1>5, <1>6, <1>7, <1>8 DEF BiInv

(* It is applied and answered, applied and the answer lost, or refused. *)
LEMMA WriteStep ==
  ASSUME BiInv, UNCHANGED Others, NEW p \in Publications, AtWork(pub[p]), NEW n,
         \/ UNCHANGED superset /\ pub' = [pub EXCEPT ![p] = PublicationFailed(p)]
         \/ /\ Disturb(p, n) \/ Disturb(p, PublicationFailed(p))
            /\ RowsTrue(datasets, lastId, charts, dashboards)'
            /\ RowsGrow(datasets, charts, dashboards, datasets', charts', dashboards')
            /\ PubTrue(n, datasets', charts', dashboards')
            /\ ~overlapped => NamedOnce(charts') /\ StillMissing(n, charts')
  PROVE  BiInv'
<1>1. PubTrue(pub[p], datasets, charts, dashboards)
  BY DEF BiInv
<1>2. CASE UNCHANGED superset /\ pub' = [pub EXCEPT ![p] = PublicationFailed(p)]
  <2>1. RowsGrow(datasets, charts, dashboards, datasets, charts, dashboards)
    BY DEF RowsGrow
  <2>2. /\ PubTrue(PublicationFailed(p), datasets, charts, dashboards)
        /\ StillMissing(PublicationFailed(p), charts)
    BY <1>1, <2>1, FailedTrue DEF PublicationFailed
  <2>3. QED
    BY <1>2, <2>2, ReadKept
<1>3. CASE /\ Disturb(p, n) \/ Disturb(p, PublicationFailed(p))
           /\ RowsTrue(datasets, lastId, charts, dashboards)'
           /\ RowsGrow(datasets, charts, dashboards, datasets', charts', dashboards')
           /\ PubTrue(n, datasets', charts', dashboards')
           /\ ~overlapped => NamedOnce(charts') /\ StillMissing(n, charts')
  <2>1. CASE Disturb(p, n)
    BY <1>3, <2>1, WriteKept
  <2>2. CASE Disturb(p, PublicationFailed(p))
    <3>1. /\ PubTrue(PublicationFailed(p), datasets', charts', dashboards')
          /\ StillMissing(PublicationFailed(p), charts')
      BY <1>1, <1>3, FailedTrue DEF PublicationFailed
    <3>2. QED
      BY <1>3, <2>2, <3>1, WriteKept
  <2>3. QED
    BY <1>3, <2>1, <2>2
<1>4. QED
  BY <1>2, <1>3


(* The place moves on, from one call to the next. *)
LEMMA MovedTrue ==
  ASSUME NEW ds, NEW ch, NEW db, NEW r, PubTrue(r, ds, ch, db), NEW to,
         \/ r.pc = "login" /\ to = "database"
         \/ r.pc = "database" /\ to = "dataset"
         \/ r.pc = "dataset" /\ to = "dataset_post"
         \/ /\ r.pc = "dataset" /\ to = "chart"
            /\ Visuals[r.spec][r.next].sid \in DOMAIN r.sources
         \/ /\ r.pc = "dashboard" /\ to \in {"dashboard_put", "dashboard_post"}
            /\ \A i \in DOMAIN Layout[r.spec] : Layout[r.spec][i] \in DOMAIN r.drawn
  PROVE  LET m == [r EXCEPT !.pc = to] IN PubTrue(m, ds, ch, db) /\ StillMissing(m, ch)
<1> DEFINE m == [r EXCEPT !.pc = to]
<1>1. r \in PublicationRecords /\ r.spec \in Dashboards /\ SourcesApproved(r.spec)
  BY DEF PubTrue, Admitted, Looping, Finishing
<1>2. /\ m \in PublicationRecords /\ m.pc = to /\ m.spec = r.spec /\ m.next = r.next
      /\ m.found = r.found /\ m.sources = r.sources /\ m.drawn = r.drawn
      /\ m.completed = r.completed /\ m.alone = r.alone
      /\ to \in {"database", "dataset", "dataset_post", "chart", "dashboard_put", "dashboard_post"}
  BY <1>1 DEF PublicationRecords, Admitted, Looping, Finishing
<1> HIDE DEF m
<1>3. AtVisual(m)
  <2>1. AtVisual(r) /\ r.next \in Nat /\ r.pc # "idle"
    BY <1>1 DEF PubTrue, PublicationRecords
  <2>2. CASE r.pc \in {"login", "database"}
    <3>1. r.next = 1 /\ DOMAIN r.drawn = {} /\ \A i \in 1 .. r.next - 1 : FALSE
      BY <2>1, <2>2 DEF AtVisual
    <3>2. QED
      BY <1>2, <2>1, <2>2, <3>1 DEF AtVisual, Looping, Finishing
  <2>3. CASE r.pc = "dataset"
    BY <1>2, <2>1, <2>3 DEF AtVisual, Looping, Finishing
  <2>4. CASE r.pc = "dashboard"
    BY <1>2, <2>1, <2>4 DEF AtVisual, Looping, Finishing
  <2>5. QED
    BY <2>2, <2>3, <2>4
<1>3a. SourcesKnown(m)
  BY <1>2 DEF PubTrue, SourcesKnown
<1>4. RowsNamed(m, ch)
  BY <1>2 DEF PubTrue, RowsNamed
<1>5. m.alone /\ m.spec \in Built => Undisturbed(m, ch, db)
  <2>1. CASE r.pc \in {"login", "database"}
    <3>1. DOMAIN r.drawn = {}
      BY <2>1 DEF PubTrue, AtVisual
    <3>2. QED
      BY <1>2, <3>1 DEF Undisturbed
  <2>2. CASE r.pc \notin {"login", "database"}
    <3>1. SUFFICES ASSUME r.alone, r.spec \in Built PROVE Undisturbed(m, ch, db)
      BY <1>2
    <3>2. Undisturbed(r, ch, db)
      BY <3>1 DEF PubTrue
    <3>3. r.pc \in Looping \cup Finishing /\ to \notin {"associate", "completed"}
      BY <1>2, <2>2 DEF Looping, Finishing
    <3>4. QED
      BY <1>2, <3>2, <3>3 DEF Undisturbed
  <2>3. QED
    BY <2>1, <2>2
<1>6. StillMissing(m, ch)
  BY <1>2 DEF StillMissing
<1>7. \A a \in m.completed : Held(a, ds, ch, db)
  BY <1>2 DEF PubTrue
<1>8. PubTrue(m, ds, ch, db)
  BY <1>1, <1>2, <1>3, <1>3a, <1>4, <1>5, <1>7 DEF PubTrue
<1>9. QED
  BY <1>6, <1>8 DEF m

(* The visual a publication in the loop is at. *)
LEMMA CurrentVisual ==
  ASSUME NEW ds, NEW ch, NEW db, NEW p, PubTrue(pub[p], ds, ch, db), pub[p].pc \in Looping
  PROVE  /\ pub[p] \in PublicationRecords /\ pub[p].spec \in Dashboards
         /\ SourcesApproved(pub[p].spec)
         /\ pub[p].next \in Nat /\ pub[p].next \in DOMAIN Visuals[pub[p].spec]
         /\ Shown(p) = Visuals[pub[p].spec] /\ Visual(p) = Visuals[pub[p].spec][pub[p].next]
         /\ Visual(p).name \in AgentNames /\ Visual(p).src \in DOMAIN Standing
         /\ Visual(p).id \in AllIds /\ Visual(p).sid \in AllSids
<1>1. /\ pub[p] \in PublicationRecords /\ pub[p].spec \in Dashboards
      /\ SourcesApproved(pub[p].spec) /\ pub[p].next <= Len(Visuals[pub[p].spec])
  BY DEF PubTrue, AtVisual, Admitted, Looping
<1>2. pub[p].next \in Nat /\ 1 <= pub[p].next
  BY <1>1 DEF PublicationRecords
<1>3. /\ pub[p].next \in 1 .. Len(Visuals[pub[p].spec])
      /\ DOMAIN Visuals[pub[p].spec] = 1 .. Len(Visuals[pub[p].spec])
  BY <1>1, <1>2, VisualFacts
<1>4. Shown(p) = Visuals[pub[p].spec] /\ Visual(p) = Visuals[pub[p].spec][pub[p].next]
  BY DEF Visual, Shown
<1>5. /\ Visual(p).name \in AgentNames /\ Visual(p).src \in DOMAIN Standing
      /\ Visual(p).id \in AllIds /\ Visual(p).sid \in AllSids
  BY <1>1, <1>3, <1>4, VisualFacts
<1>6. QED
  BY <1>1, <1>2, <1>3, <1>4, <1>5

(* What it is drawn from: that is its own dataset, and approved, unless its  *)
(* specification gives one source id two of them.                            *)
LEMMA CurrentSource ==
  ASSUME NEW ds, NEW ch, NEW db, NEW p, PubTrue(pub[p], ds, ch, db),
         pub[p].pc = "chart_write"
  PROVE  /\ Source(p) \in DOMAIN Standing /\ RightSource(Visual(p).name, Source(p))
         /\ OneSource(pub[p].spec) => Source(p) = Visual(p).src
<1> DEFINE d == pub[p].spec
           V == Visuals[d]
<1>1. /\ d \in Dashboards /\ SourcesApproved(d) /\ pub[p].next \in DOMAIN V
      /\ Visual(p) = V[pub[p].next]
  BY CurrentVisual DEF Looping
<1>2. PICK i \in DOMAIN V : V[i].sid = Visual(p).sid /\ V[i].src = Source(p)
  BY <1>1 DEF PubTrue, SourcesKnown, Source
<1>3. Source(p) \in DOMAIN Standing /\ Visual(p).name \in NamesOf(V)
  BY <1>1, <1>2, VisualFacts
<1>4. CASE OneSource(d)
  <2>1. Approved(Source(p))
    BY <1>1, <1>2, <1>4, SourceApproved
  <2>2. Source(p) = Visual(p).src
    BY <1>1, <1>2, <1>4 DEF OneSource
  <2>3. QED
    BY <1>3, <2>1, <2>2 DEF RightSource
<1>5. CASE ~OneSource(d)
  BY <1>1, <1>3, <1>5 DEF RightSource
<1>6. QED
  BY <1>4, <1>5

(* The dataset of the visual is there. *)
LEMMA ToChartTrue ==
  ASSUME NEW ds, NEW ch, NEW db, NEW p, PubTrue(pub[p], ds, ch, db),
         pub[p].pc \in {"dataset", "dataset_post"}, Visual(p).src \in ds
  PROVE  PubTrue(ToChart(p), ds, ch, db) /\ StillMissing(ToChart(p), ch)
<1> DEFINE r == pub[p]
           m == ToChart(p)
           x == Visual(p).src
           q == Put(r.sources, Visual(p).sid, x)
<1>1. /\ r \in PublicationRecords /\ r.spec \in Dashboards /\ SourcesApproved(r.spec)
      /\ r.next \in DOMAIN Visuals[r.spec] /\ Visual(p) = Visuals[r.spec][r.next]
      /\ x \in DOMAIN Standing /\ Visual(p).sid \in AllSids
  BY CurrentVisual DEF Looping
<1>2. <<"dataset", x>> \in Artifacts
  BY <1>1 DEF Artifacts
<1>2a. /\ q \in Maps(AllSids, DOMAIN Standing) /\ DOMAIN q = DOMAIN r.sources \cup {Visual(p).sid}
       /\ q[Visual(p).sid] = x
       /\ \A y \in DOMAIN r.sources : y # Visual(p).sid => q[y] = r.sources[y]
  <2>1. r.sources \in Maps(AllSids, DOMAIN Standing)
    BY <1>1 DEF PublicationRecords
  <2>2. x \in DOMAIN Standing /\ Visual(p).sid \in AllSids
    BY <1>1
  <2> HIDE DEF x, r
  <2>3. q \in Maps(AllSids, DOMAIN Standing)
    BY <2>1, <2>2, PutMap
  <2>4. QED
    BY <2>3 DEF Put
<1>3. m = [r EXCEPT !.pc = "chart", !.sources = q, !.completed = r.completed \cup {<<"dataset", x>>}]
  BY DEF ToChart
<1> HIDE DEF x, m, q
<1>4. /\ m \in PublicationRecords /\ m.pc = "chart" /\ m.spec = r.spec /\ m.next = r.next
      /\ m.found = r.found /\ m.sources = q /\ m.drawn = r.drawn
      /\ m.completed = r.completed \cup {<<"dataset", x>>} /\ m.alone = r.alone
  BY <1>1, <1>2, <1>2a, <1>3 DEF PublicationRecords, Admitted, Looping, Finishing
<1>5. AtVisual(m)
  BY <1>4 DEF PubTrue, AtVisual, Looping, Finishing
<1>5a. SourcesKnown(m)
  <2>1. ASSUME NEW y \in DOMAIN q
        PROVE  \E i \in DOMAIN Visuals[r.spec] :
                 Visuals[r.spec][i].sid = y /\ Visuals[r.spec][i].src = q[y]
    <3>1. CASE y = Visual(p).sid
      BY <1>1, <1>2a, <3>1 DEF x
    <3>2. CASE y # Visual(p).sid
      BY <1>2a, <2>1, <3>2 DEF PubTrue, SourcesKnown
    <3>3. QED
      BY <3>1, <3>2
  <2>2. QED
    BY <1>1, <1>2a, <1>4, <2>1 DEF SourcesKnown
<1>6. RowsNamed(m, ch)
  BY <1>4 DEF PubTrue, RowsNamed
<1>7. m.alone /\ m.spec \in Built => Undisturbed(m, ch, db)
  <2>1. SUFFICES ASSUME r.alone, r.spec \in Built PROVE Undisturbed(m, ch, db)
    BY <1>4
  <2>2. Undisturbed(r, ch, db) /\ r.pc \in Looping
    BY <2>1 DEF PubTrue, Looping
  <2>3. QED
    BY <1>4, <2>2 DEF Undisturbed
<1>8. \A a \in m.completed : Held(a, ds, ch, db)
  <2>1. Held(<<"dataset", x>>, ds, ch, db)
    BY DEF Held, x
  <2>2. \A a \in r.completed : Held(a, ds, ch, db)
    BY DEF PubTrue
  <2>3. QED
    BY <1>4, <2>1, <2>2
<1>9. StillMissing(m, ch)
  BY <1>4 DEF StillMissing
<1>10. PubTrue(m, ds, ch, db)
  BY <1>1, <1>4, <1>5, <1>5a, <1>6, <1>7, <1>8 DEF PubTrue
<1>11. QED
  BY <1>9, <1>10 DEF m

LEMMA LoginStep ==
  ASSUME BiInv, NEW p \in Publications, Login(p)
  PROVE  BiInv'
<1>1. PubTrue(pub[p], datasets, charts, dashboards) /\ pub[p].pc = "login" /\ AtWork(pub[p])
  BY DEF BiInv, Login, AtWork, Ended
<1>2. QED
  BY <1>1, MovedTrue, ReadStep DEF Login

LEMMA DatabaseIdStep ==
  ASSUME BiInv, NEW p \in Publications, DatabaseId(p)
  PROVE  BiInv'
<1>1. PubTrue(pub[p], datasets, charts, dashboards) /\ pub[p].pc = "database" /\ AtWork(pub[p])
  BY DEF BiInv, DatabaseId, AtWork, Ended
<1>2. CASE connection = "none"
  <2>1. RowsGrow(datasets, charts, dashboards, datasets, charts, dashboards)
    BY DEF RowsGrow
  <2>2. LET f == [pub[p] EXCEPT !.pc = "failed"]
        IN  PubTrue(f, datasets, charts, dashboards) /\ StillMissing(f, charts)
    BY <1>1, <2>1, FailedTrue
  <2>3. Read(p, <<"Database", "read">>, [pub[p] EXCEPT !.pc = "failed"])
    BY <1>2 DEF DatabaseId
  <2>4. QED
    BY <1>1, <2>2, <2>3, ReadStep
<1>3. CASE connection # "none"
  <2>1. LET m == [pub[p] EXCEPT !.pc = "dataset"]
        IN  PubTrue(m, datasets, charts, dashboards) /\ StillMissing(m, charts)
    BY <1>1, MovedTrue
  <2>2. Read(p, <<"Database", "read">>, [pub[p] EXCEPT !.pc = "dataset"])
    BY <1>3 DEF DatabaseId
  <2>3. QED
    BY <1>1, <2>1, <2>2, ReadStep
<1>4. QED
  BY <1>2, <1>3

LEMMA FindDatasetStep ==
  ASSUME BiInv, NEW p \in Publications, FindDataset(p)
  PROVE  BiInv'
<1>1. /\ PubTrue(pub[p], datasets, charts, dashboards) /\ pub[p].pc = "dataset" /\ AtWork(pub[p])
      /\ pub \in [Publications -> PublicationRecords]
  BY DEF BiInv, FindDataset, AtWork, Ended
<1>2. LET m == [pub[p] EXCEPT !.pc = "dataset_post"]
      IN  PubTrue(m, datasets, charts, dashboards) /\ StillMissing(m, charts)
  BY <1>1, MovedTrue
<1>3. CASE /\ Visual(p).sid \in DOMAIN pub[p].sources
           /\ pub' = [pub EXCEPT ![p].pc = "chart"] /\ UNCHANGED <<superset, Others>>
  <2>1. pub' = [pub EXCEPT ![p] = [pub[p] EXCEPT !.pc = "chart"]]
    BY <1>3
  <2>2. Visuals[pub[p].spec][pub[p].next].sid \in DOMAIN pub[p].sources
    BY <1>3 DEF Visual, Shown
  <2>3. LET m == [pub[p] EXCEPT !.pc = "chart"]
        IN  PubTrue(m, datasets, charts, dashboards) /\ StillMissing(m, charts)
    BY <1>1, <2>2, MovedTrue
  <2>4. QED
    BY <1>1, <1>3, <2>1, <2>3, ReadKept
<1>4. CASE Read(p, <<"Dataset", "read">>,
                IF Visual(p).src \in datasets THEN ToChart(p)
                ELSE [pub[p] EXCEPT !.pc = "dataset_post"])
  <2>1. CASE Visual(p).src \in datasets
    <3>1. PubTrue(ToChart(p), datasets, charts, dashboards) /\ StillMissing(ToChart(p), charts)
      BY <1>1, <2>1, ToChartTrue
    <3>2. Read(p, <<"Dataset", "read">>, ToChart(p))
      BY <1>4, <2>1
    <3>3. QED
      BY <1>1, <3>1, <3>2, ReadStep
  <2>2. CASE Visual(p).src \notin datasets
    <3>1. Read(p, <<"Dataset", "read">>, [pub[p] EXCEPT !.pc = "dataset_post"])
      BY <1>4, <2>2
    <3>2. QED
      BY <1>1, <1>2, <3>1, ReadStep
  <2>3. QED
    BY <2>1, <2>2
<1>5. QED
  BY <1>3, <1>4 DEF FindDataset, Others


LEMMA FindChartStep ==
  ASSUME BiInv, NEW p \in Publications, FindChart(p)
  PROVE  BiInv'
<1> DEFINE r == pub[p]
           all == {c \in DOMAIN charts : Row(p, c)}
           m == [pub[p] EXCEPT !.pc = "chart_write", !.found = all]
<1>1. PubTrue(r, datasets, charts, dashboards) /\ r.pc = "chart" /\ AtWork(r)
  BY DEF BiInv, FindChart, AtWork, Ended
<1>2. /\ all \subseteq DOMAIN charts /\ all \subseteq Nat
      /\ \A c \in DOMAIN charts : c \in all <=> charts[c].name = Visuals[r.spec][r.next].name
  <2>1. DOMAIN charts \subseteq Nat
    BY DEF BiInv, RowsTrue
  <2>2. QED
    BY <2>1 DEF Row, Visual, Shown
<1> HIDE DEF all
<1>3. /\ r \in PublicationRecords /\ r.spec \in Dashboards /\ SourcesApproved(r.spec)
  BY <1>1 DEF PubTrue, Admitted, Looping, Finishing
<1>4. /\ m \in PublicationRecords /\ m.pc = "chart_write" /\ m.spec = r.spec /\ m.next = r.next
      /\ m.found = all /\ m.sources = r.sources /\ m.drawn = r.drawn /\ m.completed = r.completed /\ m.alone = r.alone
  BY <1>2, <1>3 DEF PublicationRecords, Admitted, Looping, Finishing
<1> HIDE DEF m
<1>5. AtVisual(m)
  BY <1>1, <1>4 DEF PubTrue, AtVisual, Looping, Finishing
<1>5a. SourcesKnown(m)
  BY <1>1, <1>4 DEF PubTrue, SourcesKnown
<1>6. RowsNamed(m, charts)
  BY <1>1, <1>2, <1>4 DEF PubTrue, RowsNamed
<1>7. m.alone /\ m.spec \in Built => Undisturbed(m, charts, dashboards)
  BY <1>1, <1>4 DEF PubTrue, Undisturbed, Looping, Finishing
<1>8. StillMissing(m, charts)
  BY <1>2, <1>4 DEF StillMissing
<1>9. \A a \in m.completed : Held(a, datasets, charts, dashboards)
  BY <1>1, <1>4 DEF PubTrue
<1>10. PubTrue(m, datasets, charts, dashboards)
  BY <1>3, <1>4, <1>5, <1>5a, <1>6, <1>7, <1>9 DEF PubTrue
<1>11. Read(p, <<"Chart", "read">>, m)
  BY DEF FindChart, m, all
<1>12. QED
  BY <1>1, <1>8, <1>10, <1>11, ReadStep

LEMMA FindDashboardStep ==
  ASSUME BiInv, NEW p \in Publications, FindDashboard(p)
  PROVE  BiInv'
<1> DEFINE L == Layout[pub[p].spec]
<1>1. PubTrue(pub[p], datasets, charts, dashboards) /\ pub[p].pc = "dashboard" /\ AtWork(pub[p])
  BY DEF BiInv, FindDashboard, AtWork, Ended
<1>2. CASE \A i \in DOMAIN L : L[i] \in DOMAIN pub[p].drawn
  <2>1. {L[i] : i \in DOMAIN L} \subseteq DOMAIN pub[p].drawn
    BY <1>2
  <2>2. PICK to \in {"dashboard_put", "dashboard_post"} :
          Read(p, <<"Dashboard", "read">>, [pub[p] EXCEPT !.pc = to])
    BY <2>1 DEF FindDashboard
  <2>3. LET m == [pub[p] EXCEPT !.pc = to]
        IN  PubTrue(m, datasets, charts, dashboards) /\ StillMissing(m, charts)
    BY <1>1, <1>2, MovedTrue
  <2>4. QED
    BY <1>1, <2>2, <2>3, ReadStep
<1>3. CASE ~ \A i \in DOMAIN L : L[i] \in DOMAIN pub[p].drawn
  <2>1. ~({L[i] : i \in DOMAIN L} \subseteq DOMAIN pub[p].drawn)
    BY <1>3
  <2>2. Read(p, <<"Dashboard", "read">>, [pub[p] EXCEPT !.pc = "failed"])
    BY <2>1 DEF FindDashboard
  <2>3. RowsGrow(datasets, charts, dashboards, datasets, charts, dashboards)
    BY DEF RowsGrow
  <2>4. LET f == [pub[p] EXCEPT !.pc = "failed"]
        IN  PubTrue(f, datasets, charts, dashboards) /\ StillMissing(f, charts)
    BY <1>1, <2>3, FailedTrue
  <2>5. QED
    BY <1>1, <2>2, <2>4, ReadStep
<1>4. QED
  BY <1>2, <1>3

(* The dataset is registered, and reported as far as the answer came. *)
LEMMA PostDatasetStep ==
  ASSUME BiInv, NEW p \in Publications, PostDataset(p)
  PROVE  BiInv'
<1>1. /\ PubTrue(pub[p], datasets, charts, dashboards) /\ pub[p].pc = "dataset_post" /\ AtWork(pub[p])
      /\ RowsTrue(datasets, lastId, charts, dashboards) /\ UNCHANGED Others
  BY DEF BiInv, PostDataset, Write, AtWork, Ended, Others
<1>2. CASE UNCHANGED superset /\ pub' = [pub EXCEPT ![p] = PublicationFailed(p)]
  BY <1>1, <1>2, WriteStep
<1>3. CASE /\ datasets' = datasets \cup {Visual(p).src} /\ UNCHANGED <<charts, lastId, dashboards>>
           /\ Disturb(p, ToChart(p)) \/ Disturb(p, PublicationFailed(p))
  <2>1. Visual(p).src \in DOMAIN Standing
    BY <1>1, CurrentVisual DEF Looping
  <2>2. RowsGrow(datasets, charts, dashboards, datasets', charts', dashboards')
    BY <1>3 DEF RowsGrow
  <2>3. RowsTrue(datasets, lastId, charts, dashboards)'
    BY <1>1, <1>3, <2>1 DEF RowsTrue
  <2>4. PubTrue(pub[p], datasets', charts', dashboards')
    <3>1. AgentRowsKept(charts, dashboards, charts', dashboards')
      BY <1>3 DEF AgentRowsKept
    <3>2. QED
      BY <1>1, <2>2, <3>1, ApartKept
  <2>5. PubTrue(ToChart(p), datasets', charts', dashboards') /\ StillMissing(ToChart(p), charts')
    <3>1. Visual(p).src \in datasets'
      BY <1>3
    <3>2. QED
      BY <1>1, <2>4, <3>1, ToChartTrue
  <2>6. ~overlapped => NamedOnce(charts')
    BY <1>3 DEF BiInv
  <2>7. QED
    BY <1>1, <1>3, <2>2, <2>3, <2>5, <2>6, WriteStep
<1>4. QED
  BY <1>2, <1>3 DEF PostDataset, Write


(* The row of the visual is written: ch2 differs from ch in row c only. *)
LEMMA WithChartTrue ==
  ASSUME NEW ds, NEW ch, NEW db, NEW ch2, NEW p, NEW c \in Nat,
         PubTrue(pub[p], ds, ch, db), pub[p].pc = "chart_write",
         RowsGrow(ds, ch, db, ds, ch2, db),
         c \in DOMAIN ch2, ch2[c].name = Visual(p).name, ch2[c].src = Source(p),
         \A d \in DOMAIN ch : d # c => ch2[d] = ch[d]
  PROVE  PubTrue(WithChart(p, c), ds, ch2, db) /\ StillMissing(WithChart(p, c), ch2)
<1> DEFINE r == pub[p]
           V == Visuals[r.spec]
           m == WithChart(p, c)
           q == Put(r.drawn, Visual(p).id, c)
<1>1. /\ r \in PublicationRecords /\ r.spec \in Dashboards /\ SourcesApproved(r.spec)
      /\ r.next \in Nat /\ r.next \in DOMAIN V /\ Shown(p) = V /\ Visual(p) = V[r.next]
      /\ Visual(p).id \in AllIds
  BY CurrentVisual DEF Looping
<1>2. Len(V) \in Nat /\ DOMAIN V = 1 .. Len(V) /\ 1 <= r.next /\ r.next <= Len(V)
  BY <1>1, VisualFacts
<1>3. /\ m = [r EXCEPT !.drawn = q, !.completed = r.completed \cup {<<"chart", c>>},
                       !.pc = IF r.next < Len(V) THEN "dataset" ELSE "dashboard",
                       !.next = IF r.next < Len(V) THEN r.next + 1 ELSE 1]
  BY <1>1 DEF WithChart
<1>4. /\ q \in Maps(AllIds, Nat) /\ DOMAIN q = DOMAIN r.drawn \cup {V[r.next].id}
      /\ q[V[r.next].id] = c /\ \A v \in DOMAIN r.drawn : v # V[r.next].id => q[v] = r.drawn[v]
  <2>1. r.drawn \in Maps(AllIds, Nat)
    BY <1>1 DEF PublicationRecords
  <2>2. /\ q \in Maps(AllIds, Nat) /\ DOMAIN q = DOMAIN r.drawn \cup {Visual(p).id}
        /\ q[Visual(p).id] = c
        /\ \A v \in DOMAIN r.drawn : v # Visual(p).id => q[v] = r.drawn[v]
    <3>1. Visual(p).id \in AllIds /\ c \in Nat
      BY <1>1
    <3> HIDE DEF r
    <3>2. q \in Maps(AllIds, Nat)
      BY <2>1, <3>1, PutMap
    <3>3. QED
      BY <3>2 DEF Put
  <2> HIDE DEF q
  <2>3. QED
    BY <1>1, <2>2
<1>5. <<"chart", c>> \in Artifacts
  BY DEF Artifacts
<1> HIDE DEF m, q
<1>6. /\ m \in PublicationRecords /\ m.spec = r.spec /\ m.found = r.found /\ m.alone = r.alone
      /\ m.sources = r.sources /\ m.drawn = q /\ m.completed = r.completed \cup {<<"chart", c>>}
      /\ m.pc = IF r.next < Len(V) THEN "dataset" ELSE "dashboard"
      /\ m.next = IF r.next < Len(V) THEN r.next + 1 ELSE 1
  <2>1. /\ (IF r.next < Len(V) THEN "dataset" ELSE "dashboard") \in Admitted
        /\ (IF r.next < Len(V) THEN r.next + 1 ELSE 1) \in Nat \ {0}
    BY <1>1, <1>2 DEF Admitted, Looping, Finishing
  <2>2. QED
    BY <1>1, <1>3, <1>4, <1>5, <2>1 DEF PublicationRecords
<1>7. AtVisual(m)
  <2>1. \A i \in 1 .. r.next : V[i].id \in DOMAIN q
    <3>1. \A i \in 1 .. r.next - 1 : V[i].id \in DOMAIN r.drawn
      BY DEF PubTrue, AtVisual, Looping
    <3>2. \A i \in 1 .. r.next : i = r.next \/ i \in 1 .. r.next - 1
      BY <1>1
    <3>3. QED
      BY <1>4, <3>1, <3>2
  <2>2. CASE r.next < Len(V)
    <3>1. m.pc = "dataset" /\ m.next = r.next + 1 /\ m.next <= Len(V) /\ m.next - 1 = r.next
      BY <1>1, <1>2, <1>6, <2>2
    <3>2. QED
      BY <1>6, <2>1, <3>1 DEF AtVisual, Looping, Finishing
  <2>3. CASE ~(r.next < Len(V))
    <3>1. r.next = Len(V) /\ m.pc = "dashboard" /\ m.next = 1 /\ m.next <= Len(V)
      BY <1>1, <1>2, <1>6, <2>3
    <3>2. QED
      BY <1>2, <1>6, <2>1, <3>1 DEF AtVisual, Looping, Finishing
  <2>4. QED
    BY <2>2, <2>3
<1>7a. SourcesKnown(m)
  BY <1>6 DEF PubTrue, SourcesKnown
<1>8. \A v \in DOMAIN r.drawn :
        /\ r.drawn[v] \in DOMAIN ch /\ r.drawn[v] \in DOMAIN ch2
        /\ ch2[r.drawn[v]].name = ch[r.drawn[v]].name
        /\ \E i \in DOMAIN V : V[i].id = v /\ V[i].name = ch[r.drawn[v]].name
  BY DEF PubTrue, RowsNamed, RowsGrow
<1>9. RowsNamed(m, ch2)
  <2>1. m.found \subseteq DOMAIN ch2
    BY <1>6 DEF PubTrue, RowsNamed, RowsGrow
  <2>2. ASSUME NEW v \in DOMAIN q
        PROVE  q[v] \in DOMAIN ch2 /\ \E i \in DOMAIN V : V[i].id = v /\ V[i].name = ch2[q[v]].name
    <3>1. CASE v = V[r.next].id
      BY <1>1, <1>4, <3>1
    <3>2. CASE v # V[r.next].id
      <4>1. v \in DOMAIN r.drawn /\ q[v] = r.drawn[v]
        BY <1>4, <2>2, <3>2
      <4>2. /\ q[v] \in DOMAIN ch2 /\ ch2[q[v]].name = ch[r.drawn[v]].name
            /\ \E i \in DOMAIN V : V[i].id = v /\ V[i].name = ch[r.drawn[v]].name
        BY <1>8, <4>1
      <4>3. QED
        BY <4>2
    <3>3. QED
      BY <3>1, <3>2
  <2>3. m.pc # "chart_write"
    BY <1>6
  <2>4. QED
    BY <1>6, <2>1, <2>2, <2>3 DEF RowsNamed
<1>10. m.alone /\ m.spec \in Built => Undisturbed(m, ch2, db)
  <2>1. SUFFICES ASSUME m.alone, r.spec \in Built, NEW i \in DOMAIN V, V[i].id \in DOMAIN q
                 PROVE  ch2[q[V[i].id]].src = V[i].src
    BY <1>6 DEF Undisturbed
  <2>2. /\ OneSource(r.spec)
        /\ \A j, k \in DOMAIN V : V[j].id = V[k].id => j = k
        /\ \A j, k \in DOMAIN V : V[j].name = V[k].name => j = k
    BY <2>1, BuiltFacts
  <2>3. CASE i = r.next
    <3>1. ch2[c].src = V[i].src
      BY <1>1, <2>2, <2>3, CurrentSource
    <3>2. QED
      BY <1>4, <2>3, <3>1
  <2>4. CASE i # r.next
    <3>1. V[i].id # V[r.next].id /\ V[i].id \in DOMAIN r.drawn /\ q[V[i].id] = r.drawn[V[i].id]
      BY <1>1, <1>4, <2>1, <2>2, <2>4
    <3>2. ch[r.drawn[V[i].id]].src = V[i].src
      BY <1>6, <2>1, <3>1 DEF PubTrue, Undisturbed, Looping
    <3>3. PICK k \in DOMAIN V : V[k].id = V[i].id /\ V[k].name = ch[r.drawn[V[i].id]].name
      BY <1>8, <3>1
    <3>4. k = i
      BY <2>1, <2>2, <3>3
    <3>5. ch2[r.drawn[V[i].id]].name # V[r.next].name
      <4>1. ch2[r.drawn[V[i].id]].name = V[i].name
        BY <1>8, <3>1, <3>3, <3>4
      <4>2. V[i].name # V[r.next].name
        BY <1>1, <2>1, <2>2, <2>4
      <4>3. QED
        BY <4>1, <4>2
    <3>6. r.drawn[V[i].id] # c
      BY <1>1, <3>5
    <3>7. QED
      BY <1>8, <3>1, <3>2, <3>6
  <2>5. QED
    BY <2>3, <2>4
<1>11. \A a \in m.completed : Held(a, ds, ch2, db)
  <2>1. r.completed \subseteq Artifacts
    BY <1>1 DEF PublicationRecords
  <2>2. \A a \in r.completed : Held(a, ds, ch2, db)
    BY <2>1, HeldKept DEF PubTrue
  <2>3. Held(<<"chart", c>>, ds, ch2, db)
    BY DEF Held
  <2>4. QED
    BY <1>6, <2>2, <2>3
<1>12. StillMissing(m, ch2)
  BY <1>6 DEF StillMissing
<1>13. PubTrue(m, ds, ch2, db)
  <2>1. m.pc # "idle"
    BY <1>6
  <2>2. QED
    BY <1>1, <1>6, <1>7, <1>7a, <1>9, <1>10, <1>11, <2>1 DEF PubTrue
<1>14. QED
  BY <1>12, <1>13 DEF m


LEMMA PutChartStep ==
  ASSUME BiInv, NEW p \in Publications, NEW c \in DOMAIN charts, PutChart(p, c)
  PROVE  BiInv'
<1> DEFINE v == Visual(p)
           x == Source(p)
<1>1. /\ PubTrue(pub[p], datasets, charts, dashboards) /\ pub[p].pc = "chart_write" /\ AtWork(pub[p])
      /\ RowsTrue(datasets, lastId, charts, dashboards) /\ UNCHANGED Others /\ c \in pub[p].found
  BY DEF BiInv, PutChart, Write, AtWork, Ended, Others
<1>2. CASE UNCHANGED superset /\ pub' = [pub EXCEPT ![p] = PublicationFailed(p)]
  BY <1>1, <1>2, WriteStep
<1>3. CASE /\ charts' = [charts EXCEPT ![c].src = x] /\ UNCHANGED <<datasets, lastId, dashboards>>
           /\ Disturb(p, WithChart(p, c)) \/ Disturb(p, PublicationFailed(p))
  <2>1. /\ v = Visuals[pub[p].spec][pub[p].next] /\ v.name \in AgentNames
        /\ x \in DOMAIN Standing /\ RightSource(v.name, x)
    BY <1>1, CurrentVisual, CurrentSource DEF Looping
  <2>2. charts[c].name = v.name /\ charts \in [DOMAIN charts -> ChartRows] /\ c \in Nat
    BY <1>1, <2>1 DEF PubTrue, RowsNamed, RowsTrue
  <2> HIDE DEF v, x
  <2>3. /\ DOMAIN charts' = DOMAIN charts /\ charts' \in [DOMAIN charts -> ChartRows]
        /\ charts'[c].name = v.name /\ charts'[c].src = x /\ charts'[c].in = charts[c].in
        /\ \A d \in DOMAIN charts : d # c => charts'[d] = charts[d]
    BY <1>3, <2>1, <2>2 DEF ChartRows
  <2>4. RowsGrow(datasets, charts, dashboards, datasets, charts', dashboards)
    BY <2>2, <2>3 DEF RowsGrow
  <2>5. RowsTrue(datasets, lastId, charts, dashboards)'
    <3>1. \A d \in DOMAIN charts : charts'[d].name \in AgentNames => RightSource(charts'[d].name, charts'[d].src)
      BY <1>1, <2>1, <2>3 DEF RowsTrue
    <3>2. \A d \in DOMAIN charts : charts'[d].in = charts[d].in
      BY <2>3
    <3>3. QED
      BY <1>1, <1>3, <2>3, <3>1, <3>2 DEF RowsTrue
  <2>6. PubTrue(WithChart(p, c), datasets, charts', dashboards) /\ StillMissing(WithChart(p, c), charts')
    BY <1>1, <2>2, <2>3, <2>4, WithChartTrue DEF v, x
  <2>7. ~overlapped => NamedOnce(charts')
    BY <2>2, <2>3 DEF BiInv, NamedOnce
  <2>8. /\ PubTrue(WithChart(p, c), datasets', charts', dashboards')
        /\ RowsGrow(datasets, charts, dashboards, datasets', charts', dashboards')
    BY <1>3, <2>4, <2>6
  <2>9. QED
    BY <1>1, <1>3, <2>5, <2>6, <2>7, <2>8, WriteStep
<1>4. QED
  BY <1>2, <1>3 DEF PutChart, Write

LEMMA PostChartStep ==
  ASSUME BiInv, NEW p \in Publications, PostChart(p)
  PROVE  BiInv'
<1> DEFINE v == Visual(p)
           x == Source(p)
           c == lastId + 1
           row == [name |-> v.name, src |-> x, in |-> {}]
<1>1. /\ PubTrue(pub[p], datasets, charts, dashboards) /\ pub[p].pc = "chart_write" /\ AtWork(pub[p])
      /\ RowsTrue(datasets, lastId, charts, dashboards) /\ UNCHANGED Others /\ pub[p].found = {}
  BY DEF BiInv, PostChart, Write, AtWork, Ended, Others
<1>2. CASE UNCHANGED superset /\ pub' = [pub EXCEPT ![p] = PublicationFailed(p)]
  BY <1>1, <1>2, WriteStep
<1>3. CASE /\ charts' = Put(charts, c, row) /\ lastId' = lastId + 1 /\ UNCHANGED <<datasets, dashboards>>
           /\ Disturb(p, WithChart(p, c)) \/ Disturb(p, PublicationFailed(p))
  <2>1. /\ v = Visuals[pub[p].spec][pub[p].next] /\ v.name \in AgentNames
        /\ x \in DOMAIN Standing /\ RightSource(v.name, x)
    BY <1>1, CurrentVisual, CurrentSource DEF Looping
  <2>2. /\ charts \in [DOMAIN charts -> ChartRows] /\ lastId \in Nat /\ c \in Nat
        /\ DOMAIN charts \subseteq 1 .. lastId /\ c \notin DOMAIN charts
    BY <1>1 DEF RowsTrue
  <2> HIDE DEF v, x
  <2>3. row \in ChartRows /\ row.name = v.name /\ row.src = x /\ row.in = {}
    BY <2>1 DEF ChartRows
  <2> HIDE DEF row
  <2>4. /\ DOMAIN charts' = DOMAIN charts \cup {c} /\ charts'[c] = row
        /\ \A d \in DOMAIN charts : charts'[d] = charts[d]
        /\ charts' \in [DOMAIN charts' -> ChartRows]
    BY <1>3, <2>2, <2>3 DEF Put
  <2>5. RowsGrow(datasets, charts, dashboards, datasets, charts', dashboards)
    BY <2>4 DEF RowsGrow
  <2>6. RowsTrue(datasets, lastId, charts, dashboards)'
    <3>1. \A d \in DOMAIN charts' : charts'[d].name \in AgentNames => RightSource(charts'[d].name, charts'[d].src)
      BY <1>1, <2>1, <2>3, <2>4 DEF RowsTrue
    <3>2. /\ \A s \in DOMAIN dashboards : s \notin Suites => SlugApproved(s)
          /\ \A d \in DOMAIN charts' : \A s \in charts'[d].in : s \notin Suites => SlugApproved(s)
      BY <1>1, <2>3, <2>4 DEF RowsTrue
    <3>3. DOMAIN charts' \subseteq 1 .. lastId' /\ lastId' \in Nat
      BY <1>3, <2>2, <2>4
    <3>4. \A s \in DOMAIN dashboards : \A i \in DOMAIN dashboards[s] : dashboards[s][i] \in DOMAIN charts'
      BY <1>1, <2>4 DEF RowsTrue
    <3>5. datasets \subseteq DOMAIN Standing /\ DOMAIN dashboards \subseteq Slugs
      BY <1>1 DEF RowsTrue
    <3>6. QED
      BY <1>3, <2>4, <3>1, <3>2, <3>3, <3>4, <3>5 DEF RowsTrue
  <2>7. PubTrue(WithChart(p, c), datasets, charts', dashboards) /\ StillMissing(WithChart(p, c), charts')
    <3>1. c \in DOMAIN charts' /\ charts'[c].name = Visual(p).name /\ charts'[c].src = Source(p)
      BY <2>3, <2>4 DEF v, x
    <3>2. QED
      BY <1>1, <2>2, <2>4, <2>5, <3>1, WithChartTrue
  <2>8. ~overlapped => NamedOnce(charts')
    <3>1. SUFFICES ASSUME ~overlapped PROVE NamedOnce(charts')
      OBVIOUS
    <3>2. \A d \in DOMAIN charts : charts[d].name # v.name
      BY <1>1, <2>1, <3>1 DEF BiInv, StillMissing
    <3>3. QED
      BY <2>3, <2>4, <3>1, <3>2 DEF BiInv, NamedOnce
  <2>9. /\ PubTrue(WithChart(p, c), datasets', charts', dashboards')
        /\ RowsGrow(datasets, charts, dashboards, datasets', charts', dashboards')
    BY <1>3, <2>5, <2>7
  <2>10. QED
    BY <1>1, <1>3, <2>6, <2>7, <2>8, <2>9, WriteStep
<1>4. QED
  BY <1>2, <1>3 DEF PostChart, Write


LEMMA WriteDashboardStep ==
  ASSUME BiInv, NEW p \in Publications, WriteDashboard(p)
  PROVE  BiInv'
<1> DEFINE r == pub[p]
           slug == SlugOf[r.spec]
           laid == [i \in DOMAIN Layout[r.spec] |-> r.drawn[Layout[r.spec][i]]]
           m == [pub[p] EXCEPT !.pc = "associate", !.completed = @ \cup {<<"dashboard", slug>>}]
<1>1. /\ PubTrue(r, datasets, charts, dashboards) /\ r.pc \in {"dashboard_put", "dashboard_post"}
      /\ AtWork(r) /\ RowsTrue(datasets, lastId, charts, dashboards) /\ UNCHANGED Others
  BY DEF BiInv, WriteDashboard, Write, AtWork, Ended, Others
<1>2. CASE UNCHANGED superset /\ pub' = [pub EXCEPT ![p] = PublicationFailed(p)]
  BY <1>1, <1>2, WriteStep
<1>3. CASE /\ dashboards' = Put(dashboards, slug, laid) /\ UNCHANGED <<datasets, charts, lastId>>
           /\ Disturb(p, m) \/ Disturb(p, PublicationFailed(p))
  <2>1. /\ r \in PublicationRecords /\ r.spec \in Dashboards /\ SourcesApproved(r.spec)
        /\ r.next = 1 /\ AtVisual(r) /\ SourcesKnown(r) /\ RowsNamed(r, charts)
        /\ \A i \in DOMAIN Layout[r.spec] : Layout[r.spec][i] \in DOMAIN r.drawn
    BY <1>1 DEF PubTrue, AtVisual, Admitted, Finishing
  <2>2. slug \in Slugs /\ SlugApproved(slug)
    BY <2>1 DEF Slugs, SlugApproved
  <2>3. /\ DOMAIN dashboards' = DOMAIN dashboards \cup {slug} /\ dashboards'[slug] = laid
        /\ \A s \in DOMAIN dashboards : s # slug => dashboards'[s] = dashboards[s]
    BY <1>3 DEF Put
  <2>4. RowsGrow(datasets, charts, dashboards, datasets, charts, dashboards')
    BY <2>3 DEF RowsGrow
  <2>5. RowsTrue(datasets, lastId, charts, dashboards)'
    <3>1. \A i \in DOMAIN laid : laid[i] \in DOMAIN charts
      BY <2>1 DEF RowsNamed
    <3>2. \A s \in DOMAIN dashboards' : \A i \in DOMAIN dashboards'[s] : dashboards'[s][i] \in DOMAIN charts
      <4> HIDE DEF laid, slug
      <4>1. QED
        BY <1>1, <2>3, <3>1 DEF RowsTrue
    <3>3. DOMAIN dashboards' \subseteq Slugs
      BY <1>1, <2>2, <2>3 DEF RowsTrue
    <3>4. \A s \in DOMAIN dashboards' : s \notin Suites => SlugApproved(s)
      BY <1>1, <2>2, <2>3 DEF RowsTrue
    <3>5. QED
      BY <1>1, <1>3, <3>2, <3>3, <3>4 DEF RowsTrue
  <2>6. <<"dashboard", slug>> \in Artifacts
    BY <2>2 DEF Artifacts
  <2>7. /\ m \in PublicationRecords /\ m.pc = "associate" /\ m.spec = r.spec /\ m.next = r.next
        /\ m.found = r.found /\ m.sources = r.sources /\ m.drawn = r.drawn /\ m.alone = r.alone
        /\ m.completed = r.completed \cup {<<"dashboard", slug>>}
    <3> HIDE DEF slug
    <3>1. QED
      BY <2>1, <2>6 DEF PublicationRecords, Admitted, Finishing
  <2> HIDE DEF m
  <2>8. AtVisual(m)
    BY <1>1, <2>1, <2>7 DEF AtVisual, Looping, Finishing
  <2>9. RowsNamed(m, charts) /\ SourcesKnown(m)
    BY <2>1, <2>7 DEF RowsNamed, SourcesKnown
  <2>10. m.alone /\ m.spec \in Built => Undisturbed(m, charts, dashboards')
    <3>1. SUFFICES ASSUME m.alone, r.spec \in Built PROVE Undisturbed(m, charts, dashboards')
      BY <2>7
    <3>2. \A i \in DOMAIN Visuals[r.spec] : Visuals[r.spec][i].id \in DOMAIN r.drawn =>
            charts[r.drawn[Visuals[r.spec][i].id]].src = Visuals[r.spec][i].src
      BY <1>1, <2>7, <3>1 DEF PubTrue, Undisturbed, Finishing
    <3>3. \A i \in DOMAIN Visuals[r.spec] : ~(i < 1)
      BY <2>1, VisualFacts
    <3>4. QED
      BY <2>1, <2>3, <2>7, <3>2, <3>3 DEF Undisturbed
  <2>11. \A a \in m.completed : Held(a, datasets, charts, dashboards')
    <3>1. r.completed \subseteq Artifacts
      BY <2>1 DEF PublicationRecords
    <3>2. \A a \in r.completed : Held(a, datasets, charts, dashboards')
      BY <1>1, <2>4, <3>1, HeldKept DEF PubTrue
    <3>3. Held(<<"dashboard", slug>>, datasets, charts, dashboards')
      BY <2>3 DEF Held
    <3>4. QED
      BY <2>7, <3>2, <3>3
  <2>12. PubTrue(m, datasets, charts, dashboards') /\ StillMissing(m, charts)
    BY <2>1, <2>7, <2>8, <2>9, <2>10, <2>11 DEF PubTrue, StillMissing
  <2>13. ~overlapped => NamedOnce(charts)
    BY DEF BiInv
  <2>14. /\ PubTrue(m, datasets', charts', dashboards')
         /\ RowsGrow(datasets, charts, dashboards, datasets', charts', dashboards')
         /\ (~overlapped => NamedOnce(charts') /\ StillMissing(m, charts'))
    BY <1>3, <2>4, <2>12, <2>13
  <2>15. QED
    BY <1>1, <1>3, <2>5, <2>14, WriteStep
<1>4. QED
  BY <1>2, <1>3 DEF WriteDashboard, Write, Slug, LaidOut

(* The visual a publication is at is on its dashboard, as its row or as that *)
(* of an id that came before.                                                *)
LEMMA AssociatedTrue ==
  ASSUME NEW ds, NEW ch, NEW db, NEW ch2, NEW p, PubTrue(pub[p], ds, ch, db),
         pub[p].pc = "associate", RowsGrow(ds, ch, db, ds, ch2, db),
         \A c \in DOMAIN ch : ch2[c].src = ch[c].src,
         \A c \in DOMAIN ch : SlugOf[pub[p].spec] \in ch[c].in => SlugOf[pub[p].spec] \in ch2[c].in,
         pub[p].spec \in Built =>
           SlugOf[pub[p].spec] \in ch2[pub[p].drawn[Visual(p).id]].in
  PROVE  PubTrue(Associated(p), ds, ch2, db) /\ StillMissing(Associated(p), ch2)
<1> DEFINE r == pub[p]
           V == Visuals[r.spec]
           m == Associated(p)
<1>1. /\ r \in PublicationRecords /\ r.spec \in Dashboards /\ SourcesApproved(r.spec)
      /\ AtVisual(r) /\ SourcesKnown(r) /\ RowsNamed(r, ch)
      /\ r.next \in Nat /\ 1 <= r.next /\ r.next <= Len(V)
      /\ Visual(p) = V[r.next] /\ Shown(p) = V
  BY DEF PubTrue, AtVisual, Admitted, Finishing, PublicationRecords, Visual, Shown
<1>2. Len(V) \in Nat /\ DOMAIN V = 1 .. Len(V)
  BY <1>1, VisualFacts
<1>3. \A i \in DOMAIN V : V[i].id \in DOMAIN r.drawn /\ r.drawn[V[i].id] \in DOMAIN ch
  BY <1>1 DEF AtVisual, RowsNamed, Finishing
<1>4. /\ m \in PublicationRecords /\ m.spec = r.spec /\ m.found = r.found
      /\ m.sources = r.sources /\ m.drawn = r.drawn
      /\ m.alone = r.alone /\ m.completed = r.completed
      /\ IF r.next = Len(V) THEN m.pc = "completed" /\ m.next = r.next
         ELSE m.pc = "associate" /\ m.next = r.next + 1
  <2>1. r.next + 1 \in Nat \ {0}
    BY <1>1
  <2>2. CASE r.next = Len(V)
    <3>1. m = [r EXCEPT !.pc = "completed"]
      BY <1>1, <2>2 DEF Associated
    <3>2. QED
      BY <1>1, <2>2, <3>1 DEF PublicationRecords, Ended
  <2>3. CASE r.next # Len(V)
    <3>1. m = [r EXCEPT !.next = r.next + 1]
      BY <1>1, <2>3 DEF Associated
    <3>2. QED
      BY <1>1, <2>1, <2>3, <3>1 DEF PublicationRecords
  <2>4. QED
    BY <2>2, <2>3
<1> HIDE DEF m
<1>5. AtVisual(m)
  <2>1. m.next <= Len(V)
    BY <1>1, <1>2, <1>4
  <2>2. m.pc \in {"associate", "completed"}
    BY <1>4
  <2>3. \A i \in DOMAIN Layout[r.spec] : Layout[r.spec][i] \in DOMAIN r.drawn
    BY <1>1 DEF AtVisual
  <2>4. QED
    BY <1>3, <1>4, <2>1, <2>2, <2>3 DEF AtVisual, Looping, Finishing
<1>6. SourcesKnown(m) /\ RowsNamed(m, ch2)
  <2>1. m.pc \notin {"chart", "chart_write"}
    BY <1>4
  <2>2. QED
    BY <1>1, <1>4, <2>1 DEF SourcesKnown, RowsNamed, RowsGrow
<1>7. m.alone /\ m.spec \in Built => Undisturbed(m, ch2, db)
  <2>1. SUFFICES ASSUME m.alone, r.spec \in Built PROVE Undisturbed(m, ch2, db)
    BY <1>4
  <2>2. Undisturbed(r, ch, db)
    BY <1>4, <2>1 DEF PubTrue
  <2>3. \A i \in DOMAIN V : ch2[r.drawn[V[i].id]].src = V[i].src
    BY <1>3, <2>2 DEF Undisturbed, Finishing
  <2>4. /\ SlugOf[r.spec] \in DOMAIN db
        /\ db[SlugOf[r.spec]] = [i \in DOMAIN Layout[r.spec] |-> r.drawn[Layout[r.spec][i]]]
    BY <2>2 DEF Undisturbed
  <2>5. ASSUME NEW i \in DOMAIN V, i < m.next \/ m.pc = "completed"
        PROVE  SlugOf[r.spec] \in ch2[r.drawn[V[i].id]].in
    <3>1. CASE i = r.next
      BY <1>1, <2>1, <3>1
    <3>2. CASE i # r.next
      <4>1. i < r.next
        BY <1>1, <1>2, <1>4, <2>5, <3>2
      <4>2. SlugOf[r.spec] \in ch[r.drawn[V[i].id]].in
        BY <2>2, <2>5, <4>1 DEF Undisturbed
      <4>3. QED
        BY <1>3, <2>5, <4>2
    <3>3. QED
      BY <3>1, <3>2
  <2>6. QED
    BY <1>4, <2>3, <2>4, <2>5 DEF Undisturbed
<1>8. \A a \in m.completed : Held(a, ds, ch2, db)
  <2>1. r.completed \subseteq Artifacts
    BY <1>1 DEF PublicationRecords
  <2>2. QED
    BY <1>4, <2>1, HeldKept DEF PubTrue
<1>9. m.pc \in {"associate", "completed"}
  BY <1>4
<1>10. PubTrue(m, ds, ch2, db) /\ StillMissing(m, ch2)
  BY <1>1, <1>4, <1>5, <1>6, <1>7, <1>8, <1>9 DEF PubTrue, StillMissing
<1>11. QED
  BY <1>10 DEF m

LEMMA AssociateStep ==
  ASSUME BiInv, NEW p \in Publications, Associate(p)
  PROVE  BiInv'
<1> DEFINE r == pub[p]
           c == pub[p].drawn[Visual(p).id]
           slug == SlugOf[r.spec]
<1>1. /\ PubTrue(r, datasets, charts, dashboards) /\ r.pc = "associate"
      /\ AtWork(r) /\ RowsTrue(datasets, lastId, charts, dashboards) /\ UNCHANGED Others
  BY DEF BiInv, Associate, Write, AtWork, Ended, Others
<1>2. CASE UNCHANGED superset /\ pub' = [pub EXCEPT ![p] = PublicationFailed(p)]
  BY <1>1, <1>2, WriteStep
<1>3. /\ r.spec \in Dashboards /\ SourcesApproved(r.spec) /\ RowsNamed(r, charts)
      /\ r.next \in DOMAIN Visuals[r.spec] /\ Visual(p) = Visuals[r.spec][r.next]
      /\ Visual(p).id \in DOMAIN r.drawn
  <2>1. /\ r \in PublicationRecords /\ r.spec \in Dashboards /\ SourcesApproved(r.spec)
        /\ RowsNamed(r, charts) /\ r.next <= Len(Visuals[r.spec])
        /\ \A i \in DOMAIN Visuals[r.spec] : Visuals[r.spec][i].id \in DOMAIN r.drawn
    BY <1>1 DEF PubTrue, AtVisual, Admitted, Finishing
  <2>2. r.next \in Nat /\ 1 <= r.next
    BY <2>1 DEF PublicationRecords
  <2>3. r.next \in DOMAIN Visuals[r.spec]
    BY <2>1, <2>2, VisualFacts
  <2>4. Visual(p) = Visuals[r.spec][r.next]
    BY DEF Visual, Shown
  <2>5. QED
    BY <2>1, <2>3, <2>4
<1>4. CASE /\ Repeats(p) /\ pub' = [pub EXCEPT ![p] = Associated(p)]
           /\ UNCHANGED <<superset, role, connection, suite, reg, operator, overlapped>>
  <2>1. r.spec \notin Built
    <3>1. SUFFICES ASSUME r.spec \in Built PROVE FALSE
      OBVIOUS
    <3>2. PICK k \in 1 .. r.next - 1 : Visuals[r.spec][k].id = Visuals[r.spec][r.next].id
      BY <1>3, <1>4 DEF Repeats, Shown
    <3>3. k \in DOMAIN Visuals[r.spec] /\ k # r.next
      BY <1>3, <3>2, VisualFacts
    <3>4. QED
      BY <1>3, <3>1, <3>2, <3>3, BuiltFacts
  <2>2. RowsGrow(datasets, charts, dashboards, datasets, charts, dashboards)
    BY DEF RowsGrow
  <2>3. PubTrue(Associated(p), datasets, charts, dashboards) /\ StillMissing(Associated(p), charts)
    BY <1>1, <2>1, <2>2, AssociatedTrue
  <2>4. UNCHANGED <<superset, Others>>
    BY <1>4 DEF Others
  <2>5. QED
    BY <1>1, <1>4, <2>3, <2>4, ReadKept
<1>5. CASE /\ charts' = [charts EXCEPT ![c].in = {slug}] /\ UNCHANGED <<datasets, lastId, dashboards>>
           /\ Disturb(p, Associated(p)) \/ Disturb(p, PublicationFailed(p))
  <2>1. c \in DOMAIN charts /\ charts \in [DOMAIN charts -> ChartRows]
    BY <1>1, <1>3 DEF RowsNamed, RowsTrue
  <2>2. slug \in Slugs /\ SlugApproved(slug)
    BY <1>3 DEF Slugs, SlugApproved
  <2> HIDE DEF c, slug
  <2>3. /\ DOMAIN charts' = DOMAIN charts /\ charts' \in [DOMAIN charts -> ChartRows]
        /\ charts'[c].in = {slug}
        /\ \A d \in DOMAIN charts : charts'[d].name = charts[d].name /\ charts'[d].src = charts[d].src
        /\ \A d \in DOMAIN charts : d # c => charts'[d].in = charts[d].in
    BY <1>5, <2>1, <2>2 DEF ChartRows
  <2>4. RowsGrow(datasets, charts, dashboards, datasets, charts', dashboards)
    BY <2>3 DEF RowsGrow
  <2>5. RowsTrue(datasets, lastId, charts, dashboards)'
    <3>1. \A d \in DOMAIN charts : charts'[d].name \in AgentNames =>
            RightSource(charts'[d].name, charts'[d].src)
      BY <1>1, <2>3 DEF RowsTrue
    <3>2. \A d \in DOMAIN charts : \A s \in charts'[d].in : s \notin Suites => SlugApproved(s)
      BY <1>1, <2>2, <2>3 DEF RowsTrue
    <3>3. QED
      BY <1>1, <1>5, <2>3, <3>1, <3>2 DEF RowsTrue
  <2>6. PubTrue(Associated(p), datasets, charts', dashboards) /\ StillMissing(Associated(p), charts')
    <3>1. /\ \A d \in DOMAIN charts : SlugOf[pub[p].spec] \in charts[d].in =>
               SlugOf[pub[p].spec] \in charts'[d].in
          /\ SlugOf[pub[p].spec] \in charts'[pub[p].drawn[Visual(p).id]].in
      BY <2>1, <2>3 DEF slug, c
    <3>2. QED
      BY <1>1, <2>3, <2>4, <3>1, AssociatedTrue
  <2>7. ~overlapped => NamedOnce(charts')
    BY <2>3 DEF BiInv, NamedOnce
  <2>8. /\ PubTrue(Associated(p), datasets', charts', dashboards')
        /\ RowsGrow(datasets, charts, dashboards, datasets', charts', dashboards')
    BY <1>5, <2>4, <2>6
  <2>9. QED
    BY <1>1, <1>5, <2>5, <2>6, <2>7, <2>8, WriteStep
<1>6. QED
  BY <1>2, <1>4, <1>5 DEF Associate, Write, Slug


(* A request is admitted, refused or only planned. *)
LEMMA RequestStep ==
  ASSUME BiInv, NEW p \in Publications, NEW d \in Dashboards, NEW direct \in BOOLEAN,
         NEW permitted \in BOOLEAN, NEW publish \in BOOLEAN,
         Request(p, d, direct, permitted, publish)
  PROVE  BiInv'
<1> DEFINE to == CASE ~permitted /\ (direct \/ publish) -> "forbidden"
                   [] (permitted \/ ~direct) /\ ~publish -> "planned"
                   [] permitted /\ publish /\ ~SourcesApproved(d) -> "failed"
                   [] OTHER -> "login"
           n == [Idle EXCEPT !.spec = d, !.pc = to]
<1>1. /\ pub[p].pc = "idle" /\ PubTrue(pub[p], datasets, charts, dashboards)
      /\ pub \in [Publications -> PublicationRecords]
      /\ pub' = [pub EXCEPT ![p].spec = d, ![p].pc = to]
      /\ UNCHANGED <<datasets, charts, lastId, dashboards, connection, reg>>
      /\ overlapped' = (overlapped \/ \E q \in Publications \ {p} : Publishing(q))
  BY DEF BiInv, Request, superset
<1>2. to \in {"forbidden", "planned", "failed", "login"} /\ (to = "login" => SourcesApproved(d))
  OBVIOUS
<1> HIDE DEF to
<1>3. pub[p] = Idle
  BY <1>1 DEF PubTrue
<1>4. pub'[p] = n /\ pub' = [q \in Publications |-> pub'[q]]
      /\ \A q \in Publications : q # p => pub'[q] = pub[q]
  BY <1>1, <1>3
<1>5. /\ n.spec = d /\ n.pc = to /\ n.next = 1 /\ n.found = {} /\ n.sources = <<>>
      /\ n.drawn = <<>> /\ n.completed = {} /\ n.alone = TRUE
      /\ n \in PublicationRecords
  <2>1. /\ <<>> \in Maps(AllSids, DOMAIN Standing) /\ <<>> \in Maps(AllIds, Nat)
        /\ 1 \in Nat \ {0}
    BY NoMap
  <2>2. to \in Admitted \cup Ended
    BY <1>2 DEF Admitted, Ended
  <2>3. QED
    BY <2>1, <2>2 DEF Idle, PublicationRecords
<1> HIDE DEF n
<1>6. PubTrue(n, datasets, charts, dashboards) /\ StillMissing(n, charts)
  <2>1. DOMAIN <<>> = {}
    OBVIOUS
  <2>2. AtVisual(n)
    <3>1. 1 <= Len(Visuals[d])
      BY VisualFacts
    <3>2. QED
      BY <1>2, <1>5, <2>1, <3>1 DEF AtVisual, Looping, Finishing
  <2>3. /\ RowsNamed(n, charts) /\ SourcesKnown(n) /\ Undisturbed(n, charts, dashboards)
        /\ StillMissing(n, charts)
    BY <1>2, <1>5, <2>1 DEF RowsNamed, SourcesKnown, Undisturbed, StillMissing, Looping, Finishing
  <2>4. n.pc \in Admitted => SourcesApproved(n.spec)
    BY <1>2, <1>5 DEF Admitted, Looping, Finishing
  <2>5. n.pc # "idle" /\ n.completed = {}
    BY <1>2, <1>5
  <2>6. QED
    BY <1>5, <2>2, <2>3, <2>4, <2>5 DEF PubTrue
<1>7. \A q \in Publications : PubTrue(pub'[q], datasets, charts, dashboards)
  BY <1>4, <1>6 DEF BiInv
<1>8. pub' \in [Publications -> PublicationRecords]
  BY <1>4, <1>7 DEF PubTrue
<1>9. ~overlapped' =>
        /\ \A q, o \in Publications : AtWork(pub'[q]) /\ AtWork(pub'[o]) => q = o
        /\ \A q \in Publications : StillMissing(pub'[q], charts)
        /\ NamedOnce(charts)
  <2>1. SUFFICES ASSUME ~overlapped'
                 PROVE  /\ \A q, o \in Publications : AtWork(pub'[q]) /\ AtWork(pub'[o]) => q = o
                        /\ \A q \in Publications : StillMissing(pub'[q], charts)
                        /\ NamedOnce(charts)
    OBVIOUS
  <2>2. ~overlapped /\ \A q \in Publications \ {p} : ~AtWork(pub[q])
    BY <1>1, <2>1 DEF Publishing, AtWork
  <2>3. \A q \in Publications : q # p => ~AtWork(pub'[q])
    BY <1>4, <2>2
  <2>4. \A q \in Publications : StillMissing(pub'[q], charts)
    BY <1>4, <1>6, <2>2 DEF BiInv
  <2>5. NamedOnce(charts)
    BY <2>2 DEF BiInv
  <2>6. QED
    BY <2>3, <2>4, <2>5
<1>10. ExitCodesTrue' /\ connection' \in {"none", "broken", "working"}
  BY <1>1 DEF BiInv, ExitCodesTrue
<1>11. RowsTrue(datasets, lastId, charts, dashboards)
  BY DEF BiInv
<1>12. QED
  BY <1>1, <1>7, <1>8, <1>9, <1>10, <1>11 DEF BiInv

LEMMA PublishStep ==
  ASSUME BiInv, NEW p \in Publications, Publish(p)
  PROVE  BiInv'
BY LoginStep, DatabaseIdStep, FindDatasetStep, PostDatasetStep, FindChartStep, PutChartStep,
   PostChartStep, FindDashboardStep, WriteDashboardStep, AssociateStep DEF Publish

(* What neither writes rows nor publishes leaves the rest as it is. *)
LEMMA RowsAlone ==
  ASSUME BiInv, UNCHANGED <<superset, pub, overlapped>>,
         connection' \in {"none", "broken", "working"}, ExitCodesTrue'
  PROVE  BiInv'
<1>1. /\ datasets' = datasets /\ charts' = charts /\ lastId' = lastId /\ dashboards' = dashboards
      /\ pub' = pub /\ overlapped' = overlapped
  BY DEF superset
<1>2. QED
  BY <1>1 DEF BiInv

LEMMA RegisterStep ==
  ASSUME BiInv, NEW b \in BOOLEAN, RegisterConnection(b) \/ Verify(b)
  PROVE  BiInv'
<1>1. UNCHANGED <<superset, pub, overlapped>>
  BY DEF RegisterConnection, Verify
<1>2. connection \in {"none", "broken", "working"} /\ ExitCodesTrue
  BY DEF BiInv
<1>3. connection' \in {"none", "broken", "working"}
  BY <1>2 DEF RegisterConnection, Verify
<1>4. ExitCodesTrue'
  <2>1. CASE RegisterConnection(b)
    BY <2>1 DEF RegisterConnection, ExitCodesTrue
  <2>2. CASE Verify(b)
    <3>1. /\ connection' = connection /\ reg.pc = "persisted"
          /\ reg' = [reg EXCEPT !.pc = IF b THEN "exit0" ELSE "exit3"]
          /\ b => connection = "working"
      BY <2>2 DEF Verify
    <3>2. reg'.pc # "exit2" /\ (reg'.pc = "exit0" => b)
      BY <3>1 
    <3>3. QED
      BY <3>1, <3>2 DEF ExitCodesTrue
  <2>3. QED
    BY <2>1, <2>2
<1>5. QED
  BY <1>1, <1>3, <1>4, RowsAlone

LEMMA QuietStep ==
  ASSUME BiInv,
         \/ \E s \in Suites : SuiteOpens(s) \/ SuiteFails(s)
         \/ \E inventory \in {{}, RequiredPermissions} : Provision(inventory)
         \/ UNCHANGED biVars
  PROVE  BiInv'
<1>1. UNCHANGED <<superset, pub, overlapped>> /\ connection' = connection /\ reg' = reg
  BY DEF SuiteOpens, SuiteFails, Provision, biVars, superset
<1>2. QED
  BY <1>1, RowsAlone DEF BiInv, ExitCodesTrue


-----------------------------------------------------------------------------
(* The commit of a suite *)

LEMMA SuiteFacts ==
  ASSUME NEW s \in Suites
  PROVE  /\ Len(SuiteVisuals[s]) \in Nat
         /\ DOMAIN SuiteVisuals[s] = 1 .. Len(SuiteVisuals[s])
         /\ \A i \in 1 .. Len(SuiteVisuals[s]) :
              SuiteVisuals[s][i].name \in SuiteNames /\ SuiteVisuals[s][i].src \in DOMAIN Standing
         /\ \A i, k \in 1 .. Len(SuiteVisuals[s]) :
              SuiteVisuals[s][i].name = SuiteVisuals[s][k].name => i = k
<1> DEFINE w == SuiteVisuals[s]
<1>1. w \in Seq([name : NamesOf(w), src : DOMAIN Standing]) /\ Distinct(w)
  BY BiAssumption
<1>2. /\ Len(w) \in Nat /\ DOMAIN w = 1 .. Len(w)
      /\ \A i \in 1 .. Len(w) : w[i] \in [name : NamesOf(w), src : DOMAIN Standing]
  BY <1>1, LenProperties, ElementOfSeq
<1>3. \A i \in 1 .. Len(w) : w[i].name \in NamesOf(w) /\ w[i].src \in DOMAIN Standing
  BY <1>2
<1>4. NamesOf(w) \subseteq SuiteNames
  BY DEF SuiteNames
<1>5. QED
  BY <1>1, <1>2, <1>3, <1>4 DEF Distinct

(* The rows a suite takes: an old one of that name, or one after the last. *)
LEMMA SuiteChartFacts ==
  ASSUME RowsTrue(datasets, lastId, charts, dashboards),
         NEW s \in Suites, NEW i \in 1 .. Len(SuiteVisuals[s])
  PROVE  \/ /\ SuiteChart(s, i) \in DOMAIN charts
            /\ charts[SuiteChart(s, i)].name = SuiteVisuals[s][i].name
         \/ /\ SuiteChart(s, i) = lastId + i /\ SuiteChart(s, i) \notin DOMAIN charts
            /\ \A c \in DOMAIN charts : charts[c].name # SuiteVisuals[s][i].name
<1> DEFINE same == {c \in DOMAIN charts : charts[c].name = SuiteVisuals[s][i].name}
<1>1. lastId \in Nat /\ DOMAIN charts \subseteq 1 .. lastId /\ Len(SuiteVisuals[s]) \in Nat
  BY SuiteFacts DEF RowsTrue
<1>2. SuiteChart(s, i) = IF same = {} THEN lastId + i
                         ELSE CHOOSE c \in same : \A d \in same : c <= d
  BY DEF SuiteChart
<1>3. CASE same = {}
  <2>1. SuiteChart(s, i) = lastId + i
    BY <1>2, <1>3
  <2>2. lastId + i \notin DOMAIN charts
    BY <1>1
  <2>3. QED
    BY <1>3, <2>1, <2>2
<1>4. CASE same # {}
  <2>1. same \subseteq Nat
    BY <1>1
  <2>2. \E m \in same : \A k \in same : m <= k
    BY <1>4, <2>1, LeastNat
  <2>3. (CHOOSE c \in same : \A d \in same : c <= d) \in same
    BY <2>2, Zenon
  <2>4. SuiteChart(s, i) \in same
    BY <1>2, <1>4, <2>3
  <2>5. QED
    BY <2>4
<1>5. QED
  BY <1>3, <1>4

SuiteIds(s) == [i \in DOMAIN SuiteVisuals[s] |-> SuiteChart(s, i)]

LEMMA SuiteIdsFacts ==
  ASSUME RowsTrue(datasets, lastId, charts, dashboards), NEW s \in Suites
  PROVE  /\ DOMAIN SuiteIds(s) = 1 .. Len(SuiteVisuals[s]) /\ Len(SuiteVisuals[s]) \in Nat
         /\ SuiteIds(s) \in Seq(Nat) /\ Len(SuiteIds(s)) = Len(SuiteVisuals[s])
         /\ \A i \in DOMAIN SuiteIds(s) :
              /\ SuiteIds(s)[i] \in 1 .. lastId + Len(SuiteVisuals[s])
              /\ \/ /\ SuiteIds(s)[i] \in DOMAIN charts
                    /\ charts[SuiteIds(s)[i]].name = SuiteVisuals[s][i].name
                 \/ /\ SuiteIds(s)[i] = lastId + i /\ SuiteIds(s)[i] \notin DOMAIN charts
                    /\ \A c \in DOMAIN charts : charts[c].name # SuiteVisuals[s][i].name
<1> DEFINE n == Len(SuiteVisuals[s])
           ids == SuiteIds(s)
<1>1. /\ n \in Nat /\ DOMAIN SuiteVisuals[s] = 1 .. n /\ lastId \in Nat
      /\ DOMAIN charts \subseteq 1 .. lastId
  BY SuiteFacts DEF RowsTrue
<1>2. DOMAIN ids = 1 .. n /\ \A i \in 1 .. n : ids[i] = SuiteChart(s, i)
  BY <1>1 DEF SuiteIds
<1>3. \A i \in 1 .. n :
        \/ /\ ids[i] \in DOMAIN charts
           /\ charts[ids[i]].name = SuiteVisuals[s][i].name
        \/ /\ ids[i] = lastId + i /\ ids[i] \notin DOMAIN charts
           /\ \A c \in DOMAIN charts : charts[c].name # SuiteVisuals[s][i].name
  BY <1>2, SuiteChartFacts
<1>4. \A i \in 1 .. n : ids[i] \in 1 .. lastId + n
  <2>1. TAKE i \in 1 .. n
  <2>2. CASE ids[i] \in DOMAIN charts
    BY <1>1, <2>2
  <2>3. CASE ids[i] = lastId + i
    BY <1>1, <2>3
  <2>4. QED
    BY <1>3, <2>2, <2>3
<1>5. ids \in [1 .. n -> Nat]
  <2>1. ids = [i \in 1 .. n |-> ids[i]]
    BY <1>1 DEF SuiteIds
  <2>2. \A i \in 1 .. n : ids[i] \in Nat
    BY <1>1, <1>4
  <2>3. QED
    BY ONLY <2>1, <2>2
<1>6. ids \in Seq(Nat) /\ Len(ids) = n
  BY <1>1, <1>5, SeqDef, LenProperties
<1>7. QED
  BY <1>1, <1>2, <1>3, <1>4, <1>6

(* The rows after the commit. *)
LEMMA SuiteRows ==
  ASSUME RowsTrue(datasets, lastId, charts, dashboards), NEW s \in Suites, SuiteCommits(s)
  PROVE  /\ DOMAIN charts' = DOMAIN charts \cup {SuiteIds(s)[i] : i \in DOMAIN SuiteIds(s)}
         /\ \A c \in DOMAIN charts' :
              \/ \E i \in DOMAIN SuiteIds(s) :
                   /\ SuiteIds(s)[i] = c
                   /\ charts'[c] = [name |-> SuiteVisuals[s][i].name, src |-> SuiteVisuals[s][i].src,
                                    in |-> {s} \cup IF c \in DOMAIN charts THEN charts[c].in ELSE {}]
              \/ /\ c \in DOMAIN charts
                 /\ charts'[c] = [charts[c] EXCEPT !.in = @ \ {s}]
<1> DEFINE ids == SuiteIds(s)
<1>1. charts' = [c \in DOMAIN charts \cup {ids[i] : i \in DOMAIN ids} |-> SuiteRow(s, ids, c)]
  BY DEF SuiteCommits, SuiteIds
<1> HIDE DEF ids
<1>2. DOMAIN charts' = DOMAIN charts \cup {ids[i] : i \in DOMAIN ids}
      /\ \A c \in DOMAIN charts' : charts'[c] = SuiteRow(s, ids, c)
  BY <1>1
<1>3. ASSUME NEW c \in DOMAIN charts'
      PROVE  \/ \E i \in DOMAIN ids :
                  /\ ids[i] = c
                  /\ charts'[c] = [name |-> SuiteVisuals[s][i].name, src |-> SuiteVisuals[s][i].src,
                                   in |-> {s} \cup IF c \in DOMAIN charts THEN charts[c].in ELSE {}]
             \/ /\ c \in DOMAIN charts
                /\ charts'[c] = [charts[c] EXCEPT !.in = @ \ {s}]
  <2>1. CASE \E i \in DOMAIN ids : ids[i] = c
    <3> DEFINE k == CHOOSE i \in DOMAIN ids : ids[i] = c
    <3>1. k \in DOMAIN ids /\ ids[k] = c
      BY <2>1, Zenon
    <3>2. charts'[c] = [name |-> SuiteVisuals[s][k].name, src |-> SuiteVisuals[s][k].src,
                        in |-> {s} \cup IF c \in DOMAIN charts THEN charts[c].in ELSE {}]
      BY <1>2, <2>1 DEF SuiteRow
    <3> HIDE DEF k
    <3>3. QED
      BY <3>1, <3>2
  <2>2. CASE ~ \E i \in DOMAIN ids : ids[i] = c
    <3>1. charts'[c] = [charts[c] EXCEPT !.in = @ \ {s}]
      BY <1>2, <2>2 DEF SuiteRow
    <3>2. QED
      BY <1>2, <2>2, <3>1
  <2>3. QED
    BY <2>1, <2>2
<1>4. QED
  BY <1>2, <1>3 DEF ids

(* The same, field by field. *)
LEMMA SuiteFields ==
  ASSUME RowsTrue(datasets, lastId, charts, dashboards), NEW s \in Suites, SuiteCommits(s)
  PROVE  /\ \A c \in DOMAIN charts :
              /\ c \in DOMAIN charts' /\ charts'[c] \in ChartRows /\ charts'[c].name = charts[c].name
              /\ charts[c].name \in AgentNames => charts'[c].src = charts[c].src
              /\ \A d : d \notin Suites => (d \in charts'[c].in <=> d \in charts[c].in)
         /\ \A c \in DOMAIN charts' : c \notin DOMAIN charts =>
              /\ charts'[c] \in ChartRows /\ charts'[c].in = {s}
              /\ \E i \in 1 .. Len(SuiteVisuals[s]) :
                   /\ c = lastId + i /\ charts'[c].name = SuiteVisuals[s][i].name
                   /\ \A d \in DOMAIN charts : charts[d].name # SuiteVisuals[s][i].name
<1> DEFINE ids == SuiteIds(s)
           w == SuiteVisuals[s]
           Old(c) == IF c \in DOMAIN charts THEN charts[c].in ELSE {}
<1>1. /\ DOMAIN ids = 1 .. Len(w)
      /\ \A i \in DOMAIN ids :
           \/ /\ ids[i] \in DOMAIN charts
              /\ charts[ids[i]].name = w[i].name
           \/ /\ ids[i] = lastId + i /\ ids[i] \notin DOMAIN charts
              /\ \A c \in DOMAIN charts : charts[c].name # w[i].name
  BY SuiteIdsFacts
<1>2. /\ DOMAIN charts' = DOMAIN charts \cup {ids[i] : i \in DOMAIN ids}
      /\ \A c \in DOMAIN charts' :
           \/ \E i \in DOMAIN ids :
                /\ ids[i] = c
                /\ charts'[c] = [name |-> w[i].name, src |-> w[i].src, in |-> {s} \cup Old(c)]
           \/ /\ c \in DOMAIN charts
              /\ charts'[c] = [charts[c] EXCEPT !.in = @ \ {s}]
  BY SuiteRows
<1>3. \A i \in 1 .. Len(w) : w[i].name \in SuiteNames /\ w[i].src \in DOMAIN Standing
  BY SuiteFacts
<1>4. \A c \in DOMAIN charts : charts[c] \in ChartRows
  BY DEF RowsTrue
<1>5. s \in Slugs
  BY DEF Slugs
<1> HIDE DEF ids, w, Old
<1>6. ASSUME NEW c \in DOMAIN charts
      PROVE  /\ c \in DOMAIN charts' /\ charts'[c] \in ChartRows /\ charts'[c].name = charts[c].name
             /\ charts[c].name \in AgentNames => charts'[c].src = charts[c].src
             /\ \A d : d \notin Suites => (d \in charts'[c].in <=> d \in charts[c].in)
  <2>1. c \in DOMAIN charts' /\ charts[c] \in ChartRows
    BY <1>2, <1>4
  <2>2. CASE charts'[c] = [charts[c] EXCEPT !.in = @ \ {s}]
    BY <1>5, <2>1, <2>2 DEF ChartRows
  <2>3. ASSUME NEW i \in DOMAIN ids, ids[i] = c,
               charts'[c] = [name |-> w[i].name, src |-> w[i].src, in |-> {s} \cup Old(c)]
        PROVE  /\ c \in DOMAIN charts' /\ charts'[c] \in ChartRows /\ charts'[c].name = charts[c].name
               /\ charts[c].name \in AgentNames => charts'[c].src = charts[c].src
               /\ \A d : d \notin Suites => (d \in charts'[c].in <=> d \in charts[c].in)
    <3>1. charts[c].name = w[i].name /\ w[i].name \in SuiteNames /\ w[i].src \in DOMAIN Standing
      BY <1>1, <1>3, <2>3
    <3>2. charts[c].name \notin AgentNames
      BY <3>1, NamesApart
    <3>3. Old(c) = charts[c].in /\ charts[c].in \subseteq Slugs
      BY <2>1 DEF Old, ChartRows
    <3>4. QED
      BY <1>5, <2>1, <2>3, <3>1, <3>2, <3>3 DEF ChartRows
  <2>4. QED
    BY <1>2, <2>1, <2>2, <2>3
<1>7. ASSUME NEW c \in DOMAIN charts', c \notin DOMAIN charts
      PROVE  /\ charts'[c] \in ChartRows /\ charts'[c].in = {s}
             /\ \E i \in 1 .. Len(w) :
                  /\ c = lastId + i /\ charts'[c].name = w[i].name
                  /\ \A d \in DOMAIN charts : charts[d].name # w[i].name
  <2>1. PICK i \in DOMAIN ids :
          /\ ids[i] = c
          /\ charts'[c] = [name |-> w[i].name, src |-> w[i].src, in |-> {s} \cup Old(c)]
    BY <1>2, <1>7
  <2>2. /\ c = lastId + i /\ \A d \in DOMAIN charts : charts[d].name # w[i].name
        /\ w[i].name \in SuiteNames /\ w[i].src \in DOMAIN Standing
    BY <1>1, <1>3, <1>7, <2>1
  <2>3. Old(c) = {}
    BY <1>7 DEF Old
  <2>4. charts'[c].in = {s} /\ charts'[c].name = w[i].name
    BY <2>1, <2>3
  <2>5. charts'[c] \in ChartRows
    BY <1>5, <2>1, <2>2, <2>3 DEF ChartRows
  <2>6. QED
    BY <1>1, <2>2, <2>4, <2>5
<1>8. QED
  BY <1>6, <1>7 DEF w

LEMMA SuiteRowsTrue ==
  ASSUME RowsTrue(datasets, lastId, charts, dashboards), NEW s \in Suites, SuiteCommits(s)
  PROVE  /\ RowsTrue(datasets, lastId, charts, dashboards)'
         /\ RowsGrow(datasets, charts, dashboards, datasets', charts', dashboards')
         /\ AgentRowsKept(charts, dashboards, charts', dashboards')
<1> DEFINE ids == SuiteIds(s)
           n == Len(SuiteVisuals[s])
<1>1. /\ datasets \subseteq DOMAIN Standing /\ lastId \in Nat /\ DOMAIN charts \subseteq 1 .. lastId
      /\ \A c \in DOMAIN charts : charts[c].name \in AgentNames => RightSource(charts[c].name, charts[c].src)
      /\ DOMAIN dashboards \subseteq Slugs
      /\ \A d \in DOMAIN dashboards : \A i \in DOMAIN dashboards[d] : dashboards[d][i] \in DOMAIN charts
      /\ \A d \in DOMAIN dashboards : d \notin Suites => SlugApproved(d)
      /\ \A c \in DOMAIN charts : \A d \in charts[c].in : d \notin Suites => SlugApproved(d)
  BY DEF RowsTrue
<1>2. /\ datasets' = datasets \cup SuiteSources(s)
      /\ lastId' = IF \A i \in DOMAIN ids : ids[i] \in DOMAIN charts THEN lastId
                   ELSE lastId + Len(ids)
      /\ dashboards' = Put(dashboards, s, ids)
  BY DEF SuiteCommits, SuiteIds
<1>3. /\ DOMAIN charts' = DOMAIN charts \cup {ids[i] : i \in DOMAIN ids}
      /\ charts' = [c \in DOMAIN charts' |-> charts'[c]]
  <2>1. charts' = [c \in DOMAIN charts \cup {ids[i] : i \in DOMAIN ids} |-> SuiteRow(s, ids, c)]
    BY DEF SuiteCommits, SuiteIds
  <2>2. QED
    BY <2>1
<1>4. /\ n \in Nat /\ Len(ids) = n /\ DOMAIN ids = 1 .. n
      /\ \A i \in DOMAIN ids : ids[i] \in 1 .. lastId + n
  BY SuiteIdsFacts
<1>5. /\ \A c \in DOMAIN charts :
           /\ c \in DOMAIN charts' /\ charts'[c] \in ChartRows /\ charts'[c].name = charts[c].name
           /\ charts[c].name \in AgentNames => charts'[c].src = charts[c].src
           /\ \A d : d \notin Suites => (d \in charts'[c].in <=> d \in charts[c].in)
      /\ \A c \in DOMAIN charts' : c \notin DOMAIN charts =>
           /\ charts'[c] \in ChartRows /\ charts'[c].in = {s} /\ charts'[c].name \notin AgentNames
  <2>1. \A i \in 1 .. n : SuiteVisuals[s][i].name \notin AgentNames
    BY SuiteFacts, NamesApart
  <2>2. QED
    BY <2>1, SuiteFields
<1>6. s \in Slugs /\ datasets' \subseteq DOMAIN Standing
  <2>1. SuiteSources(s) \subseteq DOMAIN Standing
    BY SuiteFacts DEF SuiteSources
  <2>2. QED
    BY <1>1, <1>2, <2>1 DEF Slugs
<1> HIDE DEF ids, n
<1>7. /\ DOMAIN dashboards' = DOMAIN dashboards \cup {s} /\ dashboards'[s] = ids
      /\ \A d \in DOMAIN dashboards : d # s => dashboards'[d] = dashboards[d]
  BY <1>2 DEF Put
<1>8. RowsGrow(datasets, charts, dashboards, datasets', charts', dashboards')
  BY <1>2, <1>5, <1>7 DEF RowsGrow
<1>9. AgentRowsKept(charts, dashboards, charts', dashboards')
  BY <1>5, <1>6, <1>7 DEF AgentRowsKept
<1>10. lastId' \in Nat /\ DOMAIN charts' \subseteq 1 .. lastId'
  <2>1. CASE \A i \in DOMAIN ids : ids[i] \in DOMAIN charts
    <3>1. lastId' = lastId /\ DOMAIN charts' = DOMAIN charts
      BY <1>2, <1>3, <2>1
    <3>2. QED
      BY <1>1, <3>1
  <2>2. CASE ~ \A i \in DOMAIN ids : ids[i] \in DOMAIN charts
    <3>1. lastId' = lastId + n
      BY <1>2, <1>4, <2>2
    <3>2. {ids[i] : i \in DOMAIN ids} \subseteq 1 .. lastId + n
      BY <1>4
    <3>3. 1 .. lastId \subseteq 1 .. lastId + n
      BY <1>1, <1>4
    <3>4. QED
      BY <1>1, <1>3, <1>4, <3>1, <3>2, <3>3
  <2>3. QED
    BY <2>1, <2>2
<1>11. charts' \in [DOMAIN charts' -> ChartRows]
  BY <1>3, <1>5
<1>12. \A c \in DOMAIN charts' : charts'[c].name \in AgentNames =>
         RightSource(charts'[c].name, charts'[c].src)
  BY <1>1, <1>5
<1>13. \A d \in DOMAIN dashboards' : \A i \in DOMAIN dashboards'[d] : dashboards'[d][i] \in DOMAIN charts'
  BY <1>1, <1>3, <1>7
<1>14. /\ \A d \in DOMAIN dashboards' : d \notin Suites => SlugApproved(d)
       /\ \A c \in DOMAIN charts' : \A d \in charts'[c].in : d \notin Suites => SlugApproved(d)
  BY <1>1, <1>5, <1>6, <1>7
<1>15. DOMAIN dashboards' \subseteq Slugs
  BY <1>1, <1>6, <1>7
<1>16. RowsTrue(datasets', lastId', charts', dashboards')
  BY <1>6, <1>10, <1>11, <1>12, <1>13, <1>14, <1>15 DEF RowsTrue
<1>17. RowsTrue(datasets, lastId, charts, dashboards)' = RowsTrue(datasets', lastId', charts', dashboards')
  BY DEF RowsTrue, RightSource, OneSource, Approved, SlugApproved, SourcesApproved, ChartRows,
         AgentNames, SuiteNames, Slugs, NamesOf
<1>18. QED
  BY <1>8, <1>9, <1>16, <1>17

(* A suite names no chart twice, and none of an agent. *)
LEMMA SuiteNamedOnce ==
  ASSUME RowsTrue(datasets, lastId, charts, dashboards), NEW s \in Suites, SuiteCommits(s),
         NamedOnce(charts)
  PROVE  NamedOnce(charts')
<1>1. /\ \A c \in DOMAIN charts : charts'[c].name = charts[c].name
      /\ \A c \in DOMAIN charts' : c \notin DOMAIN charts =>
           \E i \in 1 .. Len(SuiteVisuals[s]) :
             /\ c = lastId + i /\ charts'[c].name = SuiteVisuals[s][i].name
             /\ \A d \in DOMAIN charts : charts[d].name # SuiteVisuals[s][i].name
  BY SuiteFields
<1>2. \A i, k \in 1 .. Len(SuiteVisuals[s]) :
        SuiteVisuals[s][i].name = SuiteVisuals[s][k].name => i = k
  BY SuiteFacts
<1>3. ASSUME NEW c \in DOMAIN charts', NEW d \in DOMAIN charts', charts'[c].name = charts'[d].name
      PROVE  c = d
  <2>1. CASE c \in DOMAIN charts /\ d \in DOMAIN charts
    BY <1>1, <1>3, <2>1 DEF NamedOnce
  <2>2. CASE c \in DOMAIN charts /\ d \notin DOMAIN charts
    BY <1>1, <1>3, <2>2
  <2>3. CASE c \notin DOMAIN charts /\ d \in DOMAIN charts
    BY <1>1, <1>3, <2>3
  <2>4. CASE c \notin DOMAIN charts /\ d \notin DOMAIN charts
    <3>1. PICK i \in 1 .. Len(SuiteVisuals[s]) :
            c = lastId + i /\ charts'[c].name = SuiteVisuals[s][i].name
      BY <1>1, <2>4
    <3>2. PICK k \in 1 .. Len(SuiteVisuals[s]) :
            d = lastId + k /\ charts'[d].name = SuiteVisuals[s][k].name
      BY <1>1, <2>4
    <3>3. i = k
      BY <1>2, <1>3, <3>1, <3>2
    <3>4. QED
      BY <3>1, <3>2, <3>3
  <2>5. QED
    BY <2>1, <2>2, <2>3, <2>4
<1>4. QED
  BY <1>3 DEF NamedOnce

LEMMA SuiteCommitsStep ==
  ASSUME BiInv, NEW s \in Suites, SuiteCommits(s)
  PROVE  BiInv'
<1>1. /\ RowsTrue(datasets, lastId, charts, dashboards) /\ pub \in [Publications -> PublicationRecords]
      /\ \A p \in Publications : PubTrue(pub[p], datasets, charts, dashboards)
  BY DEF BiInv
<1>2. pub' = pub /\ overlapped' = overlapped /\ connection' = connection /\ reg' = reg
  BY DEF SuiteCommits
<1>3. /\ RowsTrue(datasets, lastId, charts, dashboards)'
      /\ RowsGrow(datasets, charts, dashboards, datasets', charts', dashboards')
      /\ AgentRowsKept(charts, dashboards, charts', dashboards')
  BY <1>1, SuiteRowsTrue
<1>4. \A p \in Publications : PubTrue(pub[p], datasets', charts', dashboards')
  BY <1>1, <1>3, ApartKept
<1>5. ~overlapped =>
        /\ \A p, q \in Publications : AtWork(pub[p]) /\ AtWork(pub[q]) => p = q
        /\ NamedOnce(charts')
        /\ \A p \in Publications : StillMissing(pub[p], charts')
  <2>1. SUFFICES ASSUME ~overlapped
                 PROVE  /\ \A p, q \in Publications : AtWork(pub[p]) /\ AtWork(pub[q]) => p = q
                        /\ NamedOnce(charts')
                        /\ \A p \in Publications : StillMissing(pub[p], charts')
    OBVIOUS
  <2>2. /\ \A p, q \in Publications : AtWork(pub[p]) /\ AtWork(pub[q]) => p = q
        /\ NamedOnce(charts) /\ \A p \in Publications : StillMissing(pub[p], charts)
    BY <2>1 DEF BiInv
  <2>3. NamedOnce(charts')
    BY <1>1, <2>2, SuiteNamedOnce
  <2>4. ASSUME NEW p \in Publications PROVE StillMissing(pub[p], charts')
    <3>1. SUFFICES ASSUME pub[p].pc = "chart_write", pub[p].found = {}, NEW c \in DOMAIN charts'
                   PROVE  charts'[c].name # Visuals[pub[p].spec][pub[p].next].name
      BY DEF StillMissing
    <3>2. /\ pub[p].spec \in Dashboards /\ pub[p].next \in Nat \ {0}
          /\ pub[p].next <= Len(Visuals[pub[p].spec])
      BY <1>1, <3>1 DEF PubTrue, AtVisual, Looping, PublicationRecords
    <3>3. Visuals[pub[p].spec][pub[p].next].name \in AgentNames
      BY <3>2, VisualFacts
    <3>4. CASE c \in DOMAIN charts
      BY <1>3, <2>2, <3>1, <3>4 DEF StillMissing, RowsGrow
    <3>5. CASE c \notin DOMAIN charts
      <4>1. charts'[c].name \in SuiteNames
        BY <1>1, <3>5, SuiteFields, SuiteFacts
      <4>2. QED
        BY <3>3, <4>1, NamesApart
    <3>6. QED
      BY <3>4, <3>5
  <2>5. QED
    BY <2>2, <2>3, <2>4
<1>6. ExitCodesTrue' /\ connection' \in {"none", "broken", "working"}
  BY <1>2 DEF BiInv, ExitCodesTrue
<1>7. QED
  BY <1>1, <1>2, <1>3, <1>4, <1>5, <1>6 DEF BiInv


-----------------------------------------------------------------------------
(* The invariant *)

LEMMA BiInvInit == BiInit => BiInv
<1> SUFFICES ASSUME BiInit PROVE BiInv
  OBVIOUS
<1>1. /\ datasets = {} /\ charts = <<>> /\ lastId = 0 /\ dashboards = <<>>
      /\ pub = [p \in Publications |-> Idle] /\ reg.pc = "idle"
      /\ connection \in {"none", "broken", "working"}
  BY DEF BiInit
<1>2. /\ <<>> \in Maps(AllSids, DOMAIN Standing) /\ <<>> \in Maps(AllIds, Nat)
      /\ DOMAIN <<>> = {} /\ 1 \in Nat \ {0}
  BY NoMap
<1>3. /\ Idle.pc = "idle" /\ Idle.next = 1 /\ Idle.found = {} /\ Idle.sources = <<>>
      /\ Idle.drawn = <<>>
      /\ Idle.completed = {} /\ Idle \in PublicationRecords
  BY <1>2 DEF Idle, PublicationRecords
<1>4. PubTrue(Idle, datasets, charts, dashboards) /\ ~AtWork(Idle) /\ StillMissing(Idle, charts)
  <2>1. AtVisual(Idle)
    BY <1>2, <1>3 DEF AtVisual, Looping, Finishing
  <2>2. /\ RowsNamed(Idle, charts) /\ SourcesKnown(Idle) /\ Undisturbed(Idle, charts, dashboards)
        /\ ~AtWork(Idle) /\ StillMissing(Idle, charts)
    BY <1>2, <1>3 DEF RowsNamed, SourcesKnown, Undisturbed, StillMissing, AtWork, Looping, Finishing
  <2>3. Idle.pc \notin Admitted
    BY <1>3 DEF Admitted, Looping, Finishing
  <2>4. QED
    BY <1>3, <2>1, <2>2, <2>3 DEF PubTrue
<1>5. /\ pub \in [Publications -> PublicationRecords]
      /\ \A p \in Publications : pub[p] = Idle
  BY <1>1, <1>3
<1>6. RowsTrue(datasets, lastId, charts, dashboards)
  <2>1. charts \in [DOMAIN charts -> ChartRows]
    BY <1>1, <1>2
  <2>2. QED
    BY <1>1, <1>2, <2>1 DEF RowsTrue
<1>7. NamedOnce(charts) /\ ExitCodesTrue
  BY <1>1, <1>2 DEF NamedOnce, ExitCodesTrue
<1>8. QED
  BY <1>1, <1>4, <1>5, <1>6, <1>7 DEF BiInv

LEMMA BiInvNext == BiInv /\ [BiNext]_biVars => BiInv'
<1> SUFFICES ASSUME BiInv, [BiNext]_biVars PROVE BiInv'
  OBVIOUS
<1>1. ASSUME NEW p \in Publications, NEW d \in Dashboards, NEW direct \in BOOLEAN,
             NEW permitted \in BOOLEAN, NEW publish \in BOOLEAN,
             Request(p, d, direct, permitted, publish)
      PROVE  BiInv'
  BY <1>1, RequestStep
<1>2. ASSUME NEW p \in Publications, Publish(p) PROVE BiInv'
  BY <1>2, PublishStep
<1>3. ASSUME NEW s \in Suites, SuiteCommits(s) PROVE BiInv'
  BY <1>3, SuiteCommitsStep
<1>4. ASSUME NEW b \in BOOLEAN, RegisterConnection(b) \/ Verify(b) PROVE BiInv'
  BY <1>4, RegisterStep
<1>5. CASE \/ \E s \in Suites : SuiteOpens(s) \/ SuiteFails(s)
           \/ \E inventory \in {{}, RequiredPermissions} : Provision(inventory)
           \/ UNCHANGED biVars
  BY <1>5, QuietStep
<1>6. QED
  BY <1>1, <1>2, <1>3, <1>4, <1>5 DEF BiNext

LEMMA BiInvTrue == BiInv => PublicationTrue
<1> SUFFICES ASSUME BiInv PROVE PublicationTrue
  OBVIOUS
<1>1. /\ RowsTrue(datasets, lastId, charts, dashboards)
      /\ \A p \in Publications : PubTrue(pub[p], datasets, charts, dashboards)
  BY DEF BiInv
<1>2. BiTypeOK
  <2>1. \A c \in DOMAIN charts : charts[c].src \in DOMAIN Standing /\ charts[c].in \subseteq Slugs
    BY <1>1 DEF RowsTrue, ChartRows
  <2>2. \A p \in Publications : pub[p].pc # "idle" => pub[p].next \in 1 .. Len(Shown(p))
    <3>1. SUFFICES ASSUME NEW p \in Publications, pub[p].pc # "idle"
                   PROVE  pub[p].next \in 1 .. Len(Shown(p))
      OBVIOUS
    <3>2. /\ pub[p] \in PublicationRecords /\ pub[p].spec \in Dashboards
          /\ pub[p].next <= Len(Visuals[pub[p].spec])
      BY <1>1, <3>1 DEF PubTrue, AtVisual
    <3>3. pub[p].next \in Nat \ {0} /\ Len(Visuals[pub[p].spec]) \in Nat
      BY <3>2, VisualFacts DEF PublicationRecords
    <3>4. QED
      BY <3>2, <3>3 DEF Shown
  <2>3. QED
    BY <1>1, <2>1, <2>2 DEF BiTypeOK, RowsTrue, BiInv
<1>3. NothingUnapproved
  BY <1>1 DEF NothingUnapproved, RowsTrue, RightSource, PubTrue
<1>4. ReportTrue
  BY <1>1 DEF ReportTrue, PubTrue, Held, Exists
<1>5. CompletedIsWhole
  <2>1. SUFFICES ASSUME NEW p \in Publications, pub[p].pc = "completed", pub[p].alone,
                        pub[p].spec \in Built
                 PROVE  /\ Slug(p) \in DOMAIN dashboards
                        /\ dashboards[Slug(p)] = LaidOut(p)
                        /\ \A i \in DOMAIN Shown(p) :
                             LET c == pub[p].drawn[Shown(p)[i].id]
                             IN  /\ \E k \in DOMAIN dashboards[Slug(p)] : dashboards[Slug(p)][k] = c
                                 /\ charts[c].name = Shown(p)[i].name /\ charts[c].src = Shown(p)[i].src
                                 /\ Slug(p) \in charts[c].in
    BY DEF CompletedIsWhole
  <2> DEFINE d == pub[p].spec
             V == Visuals[d]
  <2>2. /\ RowsNamed(pub[p], charts) /\ Undisturbed(pub[p], charts, dashboards)
        /\ \A i \in DOMAIN V : V[i].id \in DOMAIN pub[p].drawn
    BY <1>1, <2>1 DEF PubTrue, AtVisual
  <2>3. /\ SlugOf[d] \in DOMAIN dashboards
        /\ dashboards[SlugOf[d]] = [i \in DOMAIN Layout[d] |-> pub[p].drawn[Layout[d][i]]]
        /\ \A i \in DOMAIN V : /\ charts[pub[p].drawn[V[i].id]].src = V[i].src
                               /\ SlugOf[d] \in charts[pub[p].drawn[V[i].id]].in
    BY <2>1, <2>2 DEF Undisturbed
  <2>4. \A i \in DOMAIN V : charts[pub[p].drawn[V[i].id]].name = V[i].name
    <3>1. TAKE i \in DOMAIN V
    <3>2. PICK k \in DOMAIN V : V[k].id = V[i].id /\ V[k].name = charts[pub[p].drawn[V[i].id]].name
      BY <2>2 DEF RowsNamed
    <3>3. k = i
      BY <2>1, <3>2, BuiltFacts
    <3>4. QED
      BY <3>2, <3>3
  <2>5. \A i \in DOMAIN V : \E k \in DOMAIN dashboards[SlugOf[d]] :
          dashboards[SlugOf[d]][k] = pub[p].drawn[V[i].id]
    <3>1. \A i \in DOMAIN V : \E k \in DOMAIN Layout[d] : Layout[d][k] = V[i].id
      BY <2>1, BuiltFacts
    <3>2. \A k \in DOMAIN Layout[d] :
            /\ k \in DOMAIN dashboards[SlugOf[d]]
            /\ dashboards[SlugOf[d]][k] = pub[p].drawn[Layout[d][k]]
      BY <2>3
    <3> HIDE DEF d
    <3>3. QED
      BY <3>1, <3>2
  <2>6. Slug(p) = SlugOf[d] /\ Shown(p) = V
        /\ LaidOut(p) = [i \in DOMAIN Layout[d] |-> pub[p].drawn[Layout[d][i]]]
    BY DEF Slug, Shown, LaidOut
  <2>7. /\ Slug(p) \in DOMAIN dashboards /\ dashboards[Slug(p)] = LaidOut(p)
    BY <2>3, <2>6
  <2>8. ASSUME NEW i \in DOMAIN V
        PROVE  LET c == pub[p].drawn[V[i].id]
               IN  /\ \E k \in DOMAIN dashboards[SlugOf[d]] : dashboards[SlugOf[d]][k] = c
                   /\ charts[c].name = V[i].name /\ charts[c].src = V[i].src
                   /\ SlugOf[d] \in charts[c].in
    BY <2>3, <2>4, <2>5
  <2>9. QED
    BY <2>7, <2>8 DEF Slug, Shown
<1>6. NoDuplicates
  BY DEF NoDuplicates, NamedOnce, BiInv
<1>7. QED
  BY <1>2, <1>3, <1>4, <1>5, <1>6 DEF PublicationTrue, BiInv

(* bi_adapter.py, for any specifications, of a builder or of a body, suites  *)
(* and number of requests: a chart is drawn from an approved dataset unless  *)
(* its specification gives one source id two of them, what an answer reports *)
(* is there, "completed" is whole for a builder's specification unless       *)
(* another writer was at work, publications that do not overlap name no      *)
(* chart twice although answers are lost, and the exit codes of              *)
(* register_bi_connection.py are true.                                       *)
THEOREM PublicationTrueHolds == BiSpec => []PublicationTrue
<1>1. BiInv /\ [BiNext]_biVars => BiInv'
  BY BiInvNext
<1>2. QED
  BY <1>1, BiInvInit, BiInvTrue, PTL DEF BiSpec

-----------------------------------------------------------------------------
(* Tool calls.  The threads of a request form chains, each thread waiting    *)
(* for the next.  A request starts with one chain, a deadline that lapses    *)
(* cuts one in two, and nothing else makes one: the last threads of its      *)
(* chains, the only ones that can test the limit, are at most one more than  *)
(* its lapsed deadlines.                                                     *)

(* The tools that a tool calls: they call none. *)
LeafTools == {"metadata.describe_table", "query.validate", "query.execute"}

Tools ==
  LeafTools \cup
  {"metadata.search", "builder.datasource.build", "builder.visualization.build",
   "builder.dashboard.build", "dq.summary", "dq.profile", "dq.list_rules", "dq.run_rule"}

Resolved == {"ok", "transient", "permanent"}

Futures ==
  [state : {"free", "queued", "running"} \cup Resolved,
   req : Requests \cup {NoJob}, tool : Tools \cup {"none"}]

ToolsTypes ==
  /\ handler \in [Requests -> {"running", "completed", "failed"}]
  /\ calls \in [Requests -> Nat] /\ spent \in [Requests -> Nat]
  /\ lapsed \in [Requests -> Nat]
  /\ job \in [Jobs -> Futures]
  /\ queue \in Seq(Jobs)
  /\ todo \in [Threads -> Seq(Tools)]
  /\ checked \in [Threads -> BOOLEAN]
  /\ waits \in [Threads -> Jobs \cup {NoJob}]
  /\ tries \in [Threads -> 0 .. MaxRetries + 1]

(* A future is of a request until it is forgotten; those in the queue wait   *)
(* there once.                                                               *)
PoolTrue ==
  /\ \A j \in Jobs : job[j].state = "free" <=> job[j].req \notin Requests
  /\ \A i \in 1 .. Len(queue) : job[queue[i]].state = "queued"
  /\ \A i, k \in 1 .. Len(queue) : queue[i] = queue[k] => i = k

(* Calls nest two deep: what a worker calls has nothing to call itself. *)
NestingTrue ==
  \A j \in Jobs :
    /\ todo[j] \in Seq(LeafTools)
    /\ job[j].state = "running" /\ job[j].tool \in LeafTools => todo[j] = <<>>

Live(t) == IF t \in Requests THEN handler[t] = "running" ELSE job[t].state = "running"

(* A thread waits inside a call, for a future of its own request ... *)
WaitsTrue ==
  \A t \in Threads :
    /\ waits[t] = NoJob => tries[t] = 0
    /\ waits[t] # NoJob =>
         /\ Live(t) /\ todo[t] # <<>> /\ tries[t] # 0
         /\ job[waits[t]].state # "free" /\ job[waits[t]].req = RequestOf(t)
         /\ t \in Jobs => job[waits[t]].tool \in LeafTools

(* ... that nobody else waits for ... *)
WaitsApart ==
  \A t, u \in Threads : waits[t] # NoJob /\ waits[t] = waits[u] => t = u

(* ... and not between the test of the limit and the reservation. *)
CheckedTrue == \A t \in Threads : checked[t] => Active(t) /\ todo[t] # <<>>

Shape == ToolsTypes /\ PoolTrue /\ NestingTrue /\ WaitsTrue /\ WaitsApart /\ CheckedTrue

(* The last threads of the chains of r: its handler or a future of it, *)
(* started or not, that waits for nothing.                             *)
Present(t) == IF t \in Requests THEN handler[t] = "running" ELSE job[t].state # "free"
Ends(r) == {t \in Threads : RequestOf(t) = r /\ Present(t) /\ waits[t] = NoJob}

EndsBounded == \A r \in Requests : Cardinality(Ends(r)) <= 1 + lapsed[r]

(* The threads of r that will reserve a call. *)
Checked(r) == {t \in Threads : RequestOf(t) = r /\ checked[t]}

CheckedBounded ==
  \A r \in Requests : calls[r] + Cardinality(Checked(r)) <= MaxToolCalls + lapsed[r]

(* The retries that calls of r have left. *)
Credits(r) ==
  {c \in Threads \X (1 .. MaxRetries) :
     RequestOf(c[1]) = r /\ waits[c[1]] # NoJob /\ tries[c[1]] <= c[2]}

CreditsBounded ==
  \A r \in Requests :
    spent[r] + Cardinality(Credits(r)) <= calls[r] * (1 + MaxRetries)

ToolsInv ==
  Shape /\ EndsBounded /\ CheckedBounded /\ CreditsBounded /\ NothingLeftBehind

-----------------------------------------------------------------------------
(* Finite sets *)

LEMMA ThreadsFinite == IsFiniteSet(Threads) /\ IsFiniteSet(Threads \X (1 .. MaxRetries))
<1>1. IsFiniteSet(Threads)
  BY FS_Union, PoolAssumption DEF Threads
<1>2. IsFiniteSet(1 .. MaxRetries)
  BY FS_Interval, PoolAssumption
<1>3. QED
  BY <1>1, <1>2, FS_Product

(* Every set that is counted is one of threads, or of threads and numbers. *)
LEMMA CountedFinite ==
  ASSUME NEW r
  PROVE  /\ IsFiniteSet(Ends(r)) /\ IsFiniteSet(Checked(r)) /\ IsFiniteSet(Credits(r))
         /\ IsFiniteSet(Ends(r)') /\ IsFiniteSet(Checked(r)') /\ IsFiniteSet(Credits(r)')
<1>1. /\ Ends(r) \in SUBSET Threads /\ Checked(r) \in SUBSET Threads
      /\ Ends(r)' \in SUBSET Threads /\ Checked(r)' \in SUBSET Threads
  BY DEF Ends, Checked, Threads
<1>2. /\ Credits(r) \in SUBSET (Threads \X (1 .. MaxRetries))
      /\ Credits(r)' \in SUBSET (Threads \X (1 .. MaxRetries))
  BY DEF Credits, Threads
<1>3. QED
  BY <1>1, <1>2, ThreadsFinite, FS_Subset

LEMMA Shrinks ==
  ASSUME NEW S, NEW T, IsFiniteSet(S), T \subseteq S
  PROVE  /\ Cardinality(S) \in Nat /\ Cardinality(T) \in Nat
         /\ Cardinality(T) <= Cardinality(S)
<1>1. T \in SUBSET S
  OBVIOUS
<1>2. IsFiniteSet(T) /\ Cardinality(T) <= Cardinality(S)
  BY <1>1, FS_Subset
<1>3. QED
  BY <1>2, FS_CardinalityType

LEMMA Grows ==
  ASSUME NEW S, NEW T, NEW b, IsFiniteSet(S), T \subseteq S \cup {b}
  PROVE  /\ Cardinality(S) \in Nat /\ Cardinality(T) \in Nat
         /\ Cardinality(T) <= Cardinality(S) + 1
<1>1. /\ IsFiniteSet(S \cup {b}) /\ Cardinality(S) \in Nat
      /\ Cardinality(S \cup {b}) <= Cardinality(S) + 1
  BY FS_AddElement, FS_CardinalityType
<1>2. /\ Cardinality(T) \in Nat /\ Cardinality(S \cup {b}) \in Nat
      /\ Cardinality(T) <= Cardinality(S \cup {b})
  BY <1>1, Shrinks
<1>3. QED
  BY <1>1, <1>2

LEMMA Loses ==
  ASSUME NEW S, NEW T, NEW a, IsFiniteSet(S), a \in S, T \subseteq S \ {a}
  PROVE  /\ Cardinality(S) \in Nat /\ Cardinality(T) \in Nat
         /\ Cardinality(T) <= Cardinality(S) - 1
<1>1. /\ IsFiniteSet(S \ {a}) /\ Cardinality(S) \in Nat
      /\ Cardinality(S \ {a}) = Cardinality(S) - 1
  BY FS_RemoveElement, FS_CardinalityType
<1>2. /\ Cardinality(T) \in Nat /\ Cardinality(S \ {a}) \in Nat
      /\ Cardinality(T) <= Cardinality(S \ {a})
  BY <1>1, Shrinks
<1>3. QED
  BY <1>1, <1>2

LEMMA Swaps ==
  ASSUME NEW S, NEW T, NEW a, NEW b, IsFiniteSet(S), a \in S, T \subseteq (S \ {a}) \cup {b}
  PROVE  /\ Cardinality(S) \in Nat /\ Cardinality(T) \in Nat
         /\ Cardinality(T) <= Cardinality(S)
<1>1. IsFiniteSet(S \ {a}) /\ Cardinality(S) \in Nat /\ Cardinality(S \ {a}) = Cardinality(S) - 1
  BY FS_RemoveElement, FS_CardinalityType
<1>2. Cardinality(T) \in Nat /\ Cardinality(T) <= Cardinality(S \ {a}) + 1
  BY <1>1, Grows
<1>3. QED
  BY <1>1, <1>2

LEMMA OneElement ==
  ASSUME NEW S, NEW a, NEW b, IsFiniteSet(S), a \in S, b \in S, Cardinality(S) <= 1
  PROVE  a = b
<1>1. SUFFICES ASSUME a # b PROVE FALSE
  OBVIOUS
<1>2. IsFiniteSet(S \ {a}) /\ Cardinality(S \ {a}) = Cardinality(S) - 1
  BY FS_RemoveElement
<1>3. Cardinality(S \ {a}) # 0
  BY <1>1, <1>2, FS_EmptySet
<1>4. Cardinality(S) \in Nat /\ Cardinality(S \ {a}) \in Nat
  BY <1>2, FS_CardinalityType
<1>5. QED
  BY <1>2, <1>3, <1>4

-----------------------------------------------------------------------------
(* What agents and tools call *)

LEMMA RepeatType ==
  ASSUME NEW n \in Nat, NEW x \in Tools
  PROVE  Repeat(n, x) \in Seq(Tools)
  BY SeqDef DEF Repeat

LEMMA ProgramsType ==
  ASSUME NEW a \in AgentKeys, NEW p \in Programs(a)
  PROVE  p \in Seq(Tools)
<1>0. Described \in Nat /\ Charts \in Nat /\ Rules \in Nat
  BY PoolAssumption
<1>1. /\ Repeat(Described, "metadata.describe_table") \in Seq(Tools)
      /\ Repeat(Charts, "builder.visualization.build") \in Seq(Tools)
      /\ Repeat(Rules, "dq.run_rule") \in Seq(Tools)
  BY <1>0, RepeatType DEF Tools, LeafTools
<1>2. \A s, q \in Seq(Tools) : s \o q \in Seq(Tools)
  BY ConcatProperties
<1>3. Discovery \in Seq(Tools) /\ Query \in Seq(Tools)
  BY <1>1, <1>2 DEF Discovery, Query, Tools, LeafTools
<1>4. <<"builder.datasource.build">> \in Seq(Tools) /\ <<"builder.dashboard.build">> \in Seq(Tools)
      /\ <<"dq.summary">> \in Seq(Tools) /\ <<"dq.profile">> \in Seq(Tools) /\ <<"dq.list_rules">> \in Seq(Tools)
      /\ <<"metadata.describe_table">> \in Seq(Tools)
  BY DEF Tools, LeafTools
<1>5. Analytics \in Seq(Tools)
  BY <1>2, <1>3, <1>4 DEF Analytics
<1>6. Visualization \in Seq(Tools)
  BY <1>1, <1>2, <1>5 DEF Visualization
<1>7. \A s \in DataQuality : s \in Seq(Tools)
  BY <1>1, <1>2, <1>4 DEF DataQuality
<1>8. \A s \in Insight : s \in Seq(Tools)
  BY <1>2, <1>3, <1>4, <1>5 DEF Insight
<1>9. \/ p = Discovery \/ p = Analytics \/ p = Visualization
      \/ p = Visualization \o <<"builder.dashboard.build">> \/ p \in DataQuality \/ p \in Insight
      \/ p = <<"dq.profile">>
  BY DEF Programs, AgentKeys
<1>10. QED
  BY <1>2, <1>3, <1>4, <1>5, <1>6, <1>7, <1>8, <1>9

LEMMA NestedLeaf ==
  ASSUME NEW tool, NEW p \in Nested(tool)
  PROVE  p \in Seq(LeafTools) /\ (tool \in LeafTools => p = <<>>)
<1>1. \A s, q \in Seq(LeafTools) : s \o q \in Seq(LeafTools)
  BY ConcatProperties
<1>2. /\ <<"metadata.describe_table">> \in Seq(LeafTools) /\ Query \in Seq(LeafTools)
      /\ <<"metadata.describe_table", "metadata.describe_table">> \in Seq(LeafTools)
      /\ <<>> \in Seq(LeafTools)
  BY DEF LeafTools, Query
<1>3. \A s \in RunRule : s \in Seq(LeafTools)
  BY <1>1, <1>2 DEF RunRule
<1>4. <<"metadata.describe_table">> \o Query \in Seq(LeafTools)
  BY <1>1, <1>2
<1>5. CASE tool = "builder.datasource.build"
  BY <1>2, <1>5 DEF Nested, LeafTools
<1>6. CASE tool = "dq.run_rule"
  BY <1>3, <1>6 DEF Nested, LeafTools
<1>7. CASE tool \in {"dq.summary", "dq.profile"}
  BY <1>4, <1>7 DEF Nested, LeafTools
<1>8. CASE tool \notin {"builder.datasource.build", "dq.run_rule", "dq.summary", "dq.profile"}
  BY <1>2, <1>8 DEF Nested
<1>9. QED
  BY <1>5, <1>6, <1>7, <1>8

-----------------------------------------------------------------------------
(* What a step does to the thread that takes it *)

(* The thread has no call in hand and ends, with a result or an exception. *)
Stops(t) ==
  /\ Active(t) /\ ~checked[t]
  /\ todo' = todo \/ todo' = [todo EXCEPT ![t] = <<>>]
  /\ \/ /\ t \in Requests /\ job' = job
        /\ \E o \in {"completed", "failed"} : handler' = [handler EXCEPT ![t] = o]
     \/ t \in Jobs /\ \E o \in Resolved : Resolve(t, o)
  /\ UNCHANGED <<calls, queue, checked, waits, tries, spent, lapsed>>

(* It finds its request below the limit. *)
Passes(t) ==
  /\ Active(t) /\ todo[t] # <<>>
  /\ calls[RequestOf(t)] < MaxToolCalls
  /\ checked' = [checked EXCEPT ![t] = TRUE]
  /\ UNCHANGED <<handler, calls, job, queue, todo, waits, tries, spent, lapsed>>

(* Its attempt is over: the deadline has lapsed, or the future is resolved *)
(* and forgotten.                                                          *)
Gone(t, futures) ==
  /\ waits[t] # NoJob
  /\ \/ futures = job /\ lapsed' = [lapsed EXCEPT ![RequestOf(t)] = @ + 1]
     \/ /\ job[waits[t]].state \in Resolved /\ futures = [job EXCEPT ![waits[t]] = Free]
        /\ lapsed' = lapsed

Retries(t, futures) ==
  /\ Gone(t, futures) /\ tries[t] <= MaxRetries /\ Submit(t, futures)
  /\ UNCHANGED <<handler, calls, todo, checked>>

GivesUp(t, futures) ==
  /\ Gone(t, futures)
  /\ waits' = [waits EXCEPT ![t] = NoJob]
  /\ tries' = [tries EXCEPT ![t] = 0]
  /\ todo' = [todo EXCEPT ![t] = <<>>]
  /\ \/ t \in Requests /\ handler' = [handler EXCEPT ![t] = "failed"] /\ job' = futures
     \/ /\ t \in Jobs /\ handler' = handler
        /\ \E o \in Resolved :
             job' = [futures EXCEPT ![t] =
               IF \E u \in Threads : waits[u] = t THEN [@ EXCEPT !.state = o] ELSE Free]
  /\ UNCHANGED <<calls, queue, checked, spent>>

LEMMA ThreadSteps ==
  ASSUME Shape, NEW t \in Threads, Step(t) \/ Refuse(t)
  PROVE  \/ Stops(t) \/ Passes(t) \/ Reserve(t) \/ Return(t)
         \/ \E futures : Retries(t, futures) \/ GivesUp(t, futures)
<1>1. CASE Refuse(t)
  BY <1>1 DEF Refuse, Raises, Stops, Resolved, Threads, Resolve
<1>2. CASE Answer(t)
  <2>1. ~checked[t] /\ t \in Requests
    BY <1>2 DEF Answer, Shape, CheckedTrue
  <2>2. QED
    BY <1>2, <2>1 DEF Answer, Stops
<1>3. CASE CheckLimit(t)
  <2>1. calls[RequestOf(t)] >= MaxToolCalls \/ calls[RequestOf(t)] < MaxToolCalls
    <3>1. RequestOf(t) \in Requests
      BY <1>3 DEF CheckLimit, Active, RequestOf, Shape, PoolTrue, Threads
    <3>2. QED
      BY <3>1, PoolAssumption DEF Shape, ToolsTypes
  <2>2. CASE calls[RequestOf(t)] >= MaxToolCalls
    <3>1. Active(t) /\ ~checked[t] /\ Raises(t, "permanent")
          /\ UNCHANGED <<calls, queue, checked, waits, tries, spent, lapsed>>
      BY <1>3, <2>2 DEF CheckLimit
    <3>2. QED
      BY <3>1 DEF Raises, Stops, Resolved, Threads, Resolve
  <2>3. CASE ~(calls[RequestOf(t)] >= MaxToolCalls)
    <3>1. QED
      BY <1>3, <2>1, <2>3 DEF CheckLimit, Passes
  <2>4. QED
    BY <2>2, <2>3
<1>4. ASSUME NEW futures, NEW o \in {"transient", "permanent"}, Gone(t, futures),
             Failed(t, o, futures), UNCHANGED <<calls, checked>>
      PROVE  Retries(t, futures) \/ GivesUp(t, futures)
  <2>1. CASE MayRetry(t, o) /\ Submit(t, futures) /\ UNCHANGED <<handler, todo>>
    BY <1>4, <2>1 DEF Retries, MayRetry
  <2>2. CASE ~(MayRetry(t, o) /\ Submit(t, futures) /\ UNCHANGED <<handler, todo>>)
    BY <1>4, <2>2 DEF GivesUp, Failed, Resolved, Threads
  <2>3. QED
    BY <2>1, <2>2
<1>5. CASE Catch(t)
  <2>1. Gone(t, [job EXCEPT ![waits[t]] = Free])
    BY <1>5 DEF Catch, Gone, Resolved
  <2>2. QED
    BY <1>4, <1>5, <2>1 DEF Catch
<1>6. CASE Deadline(t)
  <2>1. Gone(t, job)
    BY <1>6 DEF Deadline, Gone
  <2>2. QED
    BY <1>4, <1>6, <2>1 DEF Deadline
<1>7. CASE LateResult(t)
  <2>1. Gone(t, [job EXCEPT ![waits[t]] = Free])
    BY <1>7 DEF LateResult, Gone, Resolved
  <2>2. QED
    BY <1>4, <1>7, <2>1 DEF LateResult
<1>8. QED
  BY <1>1, <1>2, <1>3, <1>5, <1>6, <1>7 DEF Step

LEMMA FinishStops ==
  ASSUME Shape, NEW j \in Jobs, NEW o \in {"ok", "transient", "permanent"}, Finish(j, o)
  PROVE  Stops(j)
<1>1. j \in Threads /\ ~checked[j]
  BY DEF Finish, Shape, CheckedTrue, Threads
<1>2. QED
  BY <1>1 DEF Finish, Stops, Resolved

(* A thread that has begun and is not inside a call, or one that waits, is   *)
(* of a request.                                                             *)
LEMMA LiveRequest ==
  ASSUME Shape, NEW t \in Threads, Present(t)
  PROVE  RequestOf(t) \in Requests
  BY DEF Present, RequestOf, Shape, PoolTrue, Threads

LEMMA Apart ==
  /\ \A t \in Requests : t \notin Jobs /\ t \in Threads /\ t # NoJob
  /\ \A t \in Jobs : t \notin Requests /\ t \in Threads /\ t # NoJob
  /\ \A t \in Threads : t \in Requests \/ t \in Jobs
  /\ NoJob \notin Requests
  BY PoolAssumption DEF Threads

-----------------------------------------------------------------------------
(* Every step keeps the shape of the pool *)

(* The thread that stops is no longer live; a future that someone waits for *)
(* is resolved, another is forgotten, and no other future changes.          *)
LEMMA StopsEffect ==
  ASSUME Shape, NEW t \in Threads, Stops(t)
  PROVE  /\ handler' \in [Requests -> {"running", "completed", "failed"}]
         /\ job' \in [Jobs -> Futures]
         /\ \A u \in Requests : u # t => handler'[u] = handler[u]
         /\ t \in Requests => handler'[t] # "running"
         /\ \A i \in Jobs : i # t => job'[i] = job[i]
         /\ t \in Jobs =>
              /\ job[t].state = "running"
              /\ \/ job'[t] = Free /\ \A u \in Threads : waits[u] # t
                 \/ /\ job'[t].state \in Resolved
                    /\ job'[t].req = job[t].req /\ job'[t].tool = job[t].tool
<1>0. /\ handler \in [Requests -> {"running", "completed", "failed"}]
      /\ job \in [Jobs -> Futures]
  BY DEF Shape, ToolsTypes
<1>1. CASE t \in Requests
  BY <1>0, <1>1, Apart DEF Stops
<1>2. CASE t \in Jobs
  <2>1. PICK o \in Resolved : Resolve(t, o)
    BY <1>2, Apart DEF Stops
  <2>2. job[t].state = "running" /\ job[t] \in Futures
    BY <1>0, <1>2, Apart DEF Stops, Active
  <2>3. CASE \E u \in Threads : waits[u] = t
    <3>1. handler' = handler /\ job' = [job EXCEPT ![t] = [@ EXCEPT !.state = o]]
      BY <2>1, <2>3 DEF Resolve
    <3>2. [job[t] EXCEPT !.state = o] \in Futures
      BY <2>2 DEF Futures, Resolved
    <3>3. job'[t] = [job[t] EXCEPT !.state = o]
      BY <1>0, <1>2, <3>1
    <3>4. job'[t].state = o /\ job'[t].req = job[t].req /\ job'[t].tool = job[t].tool
      BY <2>2, <3>3 DEF Futures
    <3>5. QED
      BY <1>0, <1>2, <2>2, <3>1, <3>2, <3>3, <3>4, Apart
  <2>4. CASE ~\E u \in Threads : waits[u] = t
    <3>1. handler' = handler /\ job' = [job EXCEPT ![t] = Free]
      BY <2>1, <2>4 DEF Resolve
    <3>2. Free \in Futures
      BY DEF Free, Futures
    <3>3. QED
      BY <1>0, <1>2, <2>2, <2>4, <3>1, <3>2, Apart
  <2>5. QED
    BY <2>3, <2>4
<1>3. QED
  BY <1>1, <1>2, Apart

LEMMA StopsShape ==
  ASSUME Shape, NEW t \in Threads, Stops(t)
  PROVE  Shape'
<1>0. /\ todo \in [Threads -> Seq(Tools)] /\ queue \in Seq(Jobs)
      /\ waits \in [Threads -> Jobs \cup {NoJob}]
      /\ job \in [Jobs -> Futures]
  BY DEF Shape, ToolsTypes
<1>e. /\ \A u \in Requests : u # t => handler'[u] = handler[u]
      /\ \A i \in Jobs : i # t => job'[i] = job[i]
      /\ t \in Jobs =>
           /\ job[t].state = "running"
           /\ \/ job'[t] = Free /\ \A u \in Threads : waits[u] # t
              \/ /\ job'[t].state \in Resolved
                 /\ job'[t].req = job[t].req /\ job'[t].tool = job[t].tool
  BY StopsEffect
<1>1. /\ UNCHANGED <<calls, queue, checked, waits, tries, spent, lapsed>>
      /\ waits[t] = NoJob /\ ~checked[t]
  BY DEF Stops, Active
<1>2. todo' \in [Threads -> Seq(Tools)] /\ \A u \in Threads : todo'[u] = todo[u] \/ (u = t /\ todo'[u] = <<>>)
  BY <1>0, EmptySeq DEF Stops
<1>3. ToolsTypes'
  BY <1>1, <1>2, StopsEffect DEF Shape, ToolsTypes
<1>4. PoolTrue'
  <2>1. \A j \in Jobs : job'[j].state = "free" <=> job'[j].req \notin Requests
    <3>1. Free.state = "free" /\ Free.req \notin Requests /\ "free" \notin Resolved
      BY Apart DEF Free, Resolved
    <3>2. QED
      BY <1>e, <3>1 DEF Shape, PoolTrue
  <2>2. \A i \in 1 .. Len(queue) : queue[i] \in Jobs /\ job'[queue[i]].state = "queued"
    <3>1. \A i \in 1 .. Len(queue) : queue[i] \in Jobs
      BY <1>0, ElementOfSeq
    <3>2. QED
      BY <1>e, <3>1 DEF Shape, PoolTrue
  <2>3. QED
    BY <1>1, <2>1, <2>2 DEF Shape, PoolTrue
<1>5. NestingTrue'
  <2>1. \A j \in Jobs : todo'[j] \in Seq(LeafTools)
    BY <1>2, EmptySeq, Apart DEF Shape, NestingTrue
  <2>2. \A j \in Jobs : job'[j].state = "running" => job'[j] = job[j]
    <3>1. Free.state # "running" /\ "running" \notin Resolved
      BY DEF Free, Resolved
    <3>2. QED
      BY <1>e, <3>1
  <2>3. QED
    BY <1>2, <2>1, <2>2, Apart DEF Shape, NestingTrue
<1>6. \A u \in Threads : u # t => (Live(u)' <=> Live(u)) /\ RequestOf(u)' = RequestOf(u)
  BY <1>e, Apart DEF Live, RequestOf
<1>7. WaitsTrue'
  <2>1. SUFFICES ASSUME NEW u \in Threads, waits[u] # NoJob
                 PROVE  /\ Live(u)' /\ todo'[u] # <<>> /\ tries[u] # 0
                        /\ job'[waits[u]].state # "free" /\ job'[waits[u]].req = RequestOf(u)'
                        /\ u \in Jobs => job'[waits[u]].tool \in LeafTools
    BY <1>1 DEF Shape, WaitsTrue
  <2>2. u # t
    BY <1>1, <2>1
  <2>3. waits[u] \in Jobs
    BY <1>0, <2>1
  <2>4. /\ job'[waits[u]].state # "free" /\ job'[waits[u]].req = job[waits[u]].req
        /\ job'[waits[u]].tool = job[waits[u]].tool
    BY <1>e, <2>1, <2>3 DEF Shape, WaitsTrue, Resolved
  <2>5. QED
    BY <1>2, <1>6, <2>1, <2>2, <2>4 DEF Shape, WaitsTrue
<1>8. WaitsApart'
  BY <1>1 DEF Shape, WaitsApart
<1>9. CheckedTrue'
  <2>1. \A u \in Threads : Active(u) <=> (Live(u) /\ waits[u] = NoJob)
    BY DEF Active, Live
  <2>2. \A u \in Threads : Active(u)' <=> (Live(u)' /\ waits'[u] = NoJob)
    BY DEF Active, Live
  <2>3. QED
    BY <1>1, <1>2, <1>6, <2>1, <2>2 DEF Shape, CheckedTrue
<1>10. QED
  BY <1>3, <1>4, <1>5, <1>7, <1>8, <1>9 DEF Shape

LEMMA PassesShape ==
  ASSUME Shape, NEW t \in Threads, Passes(t)
  PROVE  Shape'
<1>1. ToolsTypes'
  BY DEF Shape, ToolsTypes, Passes
<1>2. PoolTrue' /\ NestingTrue' /\ WaitsTrue' /\ WaitsApart'
  BY DEF Shape, PoolTrue, NestingTrue, WaitsTrue, WaitsApart, Passes, Live, RequestOf
<1>3. CheckedTrue'
  <2>1. checked \in [Threads -> BOOLEAN]
    BY DEF Shape, ToolsTypes
  <2>2. \A u \in Threads : Active(u)' <=> Active(u)
    BY DEF Active, Passes
  <2>3. \A u \in Threads : u # t => checked'[u] = checked[u]
    BY <2>1 DEF Passes
  <2>4. Active(t) /\ todo[t] # <<>> /\ todo' = todo
    BY DEF Passes
  <2>5. QED
    BY <2>2, <2>3, <2>4 DEF Shape, CheckedTrue
<1>4. QED
  BY <1>1, <1>2, <1>3 DEF Shape

LEMMA StartEffect ==
  ASSUME Shape, Start
  PROVE  \E h \in Jobs, p \in Seq(LeafTools) :
           /\ queue # <<>> /\ h = Head(queue) /\ queue' = Tail(queue)
           /\ job[h].state = "queued"
           /\ job' = [job EXCEPT ![h].state = "running"]
           /\ todo' = [todo EXCEPT ![h] = p]
           /\ job[h].tool \in LeafTools => p = <<>>
           /\ waits[h] = NoJob /\ ~checked[h]
           /\ UNCHANGED <<handler, calls, checked, waits, tries, spent, lapsed>>
<1>1. queue \in Seq(Jobs) /\ queue # <<>>
  BY DEF Start, Shape, ToolsTypes
<1>2. Head(queue) \in Jobs /\ Head(queue) = queue[1] /\ 1 \in 1 .. Len(queue)
  BY <1>1, HeadTailProperties, EmptySeq
<1>3. job[Head(queue)].state = "queued"
  BY <1>2 DEF Shape, PoolTrue
<1>4. PICK p \in Nested(job[Head(queue)].tool) : todo' = [todo EXCEPT ![Head(queue)] = p]
  BY DEF Start
<1>5. p \in Seq(LeafTools) /\ (job[Head(queue)].tool \in LeafTools => p = <<>>)
  BY <1>4, NestedLeaf
<1>6. waits[Head(queue)] = NoJob /\ ~checked[Head(queue)]
  BY <1>2, <1>3, Apart DEF Shape, WaitsTrue, CheckedTrue, Live, Active
<1>7. QED
  BY <1>1, <1>2, <1>3, <1>4, <1>5, <1>6 DEF Start

LEMMA LeafSequences == Seq(LeafTools) \subseteq Seq(Tools)
  BY SeqDef DEF Tools

LEMMA StartShape ==
  ASSUME Shape, Start
  PROVE  Shape'
<1>0. /\ todo \in [Threads -> Seq(Tools)] /\ queue \in Seq(Jobs)
      /\ waits \in [Threads -> Jobs \cup {NoJob}]
      /\ job \in [Jobs -> Futures]
  BY DEF Shape, ToolsTypes
<1>1. PICK h \in Jobs, p \in Seq(LeafTools) :
           /\ queue # <<>> /\ h = Head(queue) /\ queue' = Tail(queue)
           /\ job[h].state = "queued"
           /\ job' = [job EXCEPT ![h].state = "running"]
           /\ todo' = [todo EXCEPT ![h] = p]
           /\ job[h].tool \in LeafTools => p = <<>>
           /\ waits[h] = NoJob /\ ~checked[h]
           /\ UNCHANGED <<handler, calls, checked, waits, tries, spent, lapsed>>
  BY StartEffect
<1>2. /\ job' \in [Jobs -> Futures]
      /\ \A i \in Jobs : i # h => job'[i] = job[i]
      /\ job'[h].state = "running" /\ job'[h].req = job[h].req /\ job'[h].tool = job[h].tool
  BY <1>0, <1>1 DEF Futures
<1>3. /\ todo' \in [Threads -> Seq(Tools)] /\ todo'[h] = p
      /\ \A u \in Threads : u # h => todo'[u] = todo[u]
  BY <1>0, <1>1, LeafSequences, Apart
<1>4. /\ queue' \in Seq(Jobs) /\ Len(queue') = Len(queue) - 1
      /\ \A i \in 1 .. Len(queue') : queue'[i] = queue[i + 1]
      /\ h = queue[1] /\ Len(queue) \in Nat \ {0}
  BY <1>0, <1>1, HeadTailProperties, EmptySeq
<1>5. ToolsTypes'
  BY <1>1, <1>2, <1>3, <1>4 DEF Shape, ToolsTypes
<1>6. PoolTrue'
  <2>1. \A j \in Jobs : job'[j].state = "free" <=> job'[j].req \notin Requests
    BY <1>1, <1>2 DEF Shape, PoolTrue
  <2>2. ASSUME NEW i \in 1 .. Len(queue')
        PROVE  queue'[i] = queue[i + 1] /\ i + 1 \in 1 .. Len(queue)
               /\ queue[i + 1] # h /\ queue[i + 1] \in Jobs
    <3>1. i + 1 \in 1 .. Len(queue) /\ 1 \in 1 .. Len(queue) /\ i + 1 # 1
      BY <1>4
    <3>2. QED
      BY <1>0, <1>4, <3>1, LenProperties DEF Shape, PoolTrue
  <2>3. \A i \in 1 .. Len(queue') : job'[queue'[i]].state = "queued"
    BY <1>2, <2>2 DEF Shape, PoolTrue
  <2>4. ASSUME NEW i \in 1 .. Len(queue'), NEW k \in 1 .. Len(queue'), queue'[i] = queue'[k]
        PROVE  i = k
    <3>1. i + 1 = k + 1
      BY <2>2, <2>4 DEF Shape, PoolTrue
    <3>2. QED
      BY <1>4, <3>1
  <2>5. QED
    BY <2>1, <2>3, <2>4 DEF PoolTrue
<1>7. NestingTrue'
  BY <1>1, <1>2, <1>3, Apart DEF Shape, NestingTrue
<1>8. \A u \in Threads : u # h => (Live(u)' <=> Live(u)) /\ RequestOf(u)' = RequestOf(u)
  BY <1>1, <1>2, Apart DEF Live, RequestOf
<1>9. WaitsTrue'
  <2>1. SUFFICES ASSUME NEW u \in Threads, waits[u] # NoJob
                 PROVE  /\ Live(u)' /\ todo'[u] # <<>> /\ tries[u] # 0
                        /\ job'[waits[u]].state # "free" /\ job'[waits[u]].req = RequestOf(u)'
                        /\ u \in Jobs => job'[waits[u]].tool \in LeafTools
    BY <1>1 DEF Shape, WaitsTrue
  <2>2. u # h /\ waits[u] \in Jobs
    BY <1>0, <1>1, <2>1
  <2>3. /\ job'[waits[u]].state # "free" /\ job'[waits[u]].req = job[waits[u]].req
        /\ job'[waits[u]].tool = job[waits[u]].tool
    BY <1>2, <2>1, <2>2 DEF Shape, WaitsTrue
  <2>4. QED
    BY <1>3, <1>8, <2>1, <2>2, <2>3 DEF Shape, WaitsTrue
<1>10. WaitsApart'
  BY <1>1 DEF Shape, WaitsApart
<1>11. CheckedTrue'
  <2>1. \A u \in Threads : Active(u) <=> (Live(u) /\ waits[u] = NoJob)
    BY DEF Active, Live
  <2>2. \A u \in Threads : Active(u)' <=> (Live(u)' /\ waits'[u] = NoJob)
    BY DEF Active, Live
  <2>3. QED
    BY <1>1, <1>3, <1>8, <2>1, <2>2 DEF Shape, CheckedTrue
<1>12. QED
  BY <1>5, <1>6, <1>7, <1>9, <1>10, <1>11 DEF Shape

LEMMA FreeFacts ==
  /\ Free \in Futures /\ Free.state = "free" /\ Free.req \notin Requests
  /\ Free.state \notin {"queued", "running"} /\ Free.req = NoJob
  /\ {"free", "queued", "running"} \cap Resolved = {}
  BY PoolAssumption DEF Free, Futures, Resolved

(* What is left of the pool when the attempt of t, if it has one, is over. *)
Left(t, futures) ==
  /\ futures \in [Jobs -> Futures]
  /\ \A i \in Jobs :
       \/ futures[i] = job[i]
       \/ i = waits[t] /\ futures[i] = Free /\ job[i].state \in Resolved

LEMMA GoneLeft ==
  ASSUME Shape, NEW t \in Threads, NEW futures, Gone(t, futures)
  PROVE  /\ Left(t, futures) /\ waits[t] \in Jobs /\ Live(t) /\ todo[t] # <<>> /\ ~checked[t]
         /\ waits[waits[t]] = NoJob \/ futures = job
         /\ waits[t] # t
<1>1. job \in [Jobs -> Futures] /\ waits \in [Threads -> Jobs \cup {NoJob}]
  BY DEF Shape, ToolsTypes
<1>2. waits[t] # NoJob /\ waits[t] \in Jobs
  BY <1>1 DEF Gone
<1>3. Live(t) /\ todo[t] # <<>> /\ ~checked[t]
  BY <1>2 DEF Shape, WaitsTrue, CheckedTrue, Active
<1>4. Left(t, futures)
  BY <1>1, <1>2, FreeFacts DEF Gone, Left
<1>5. waits[waits[t]] = NoJob \/ futures = job
  <2>1. SUFFICES ASSUME job[waits[t]].state \in Resolved PROVE waits[waits[t]] = NoJob
    BY DEF Gone
  <2>2. ~Live(waits[t]) /\ waits[t] \in Threads
    BY <1>2, <2>1, FreeFacts, Apart DEF Live
  <2>3. QED
    BY <2>2 DEF Shape, WaitsTrue
<1>6. waits[t] # t
  <2>1. SUFFICES ASSUME waits[t] = t PROVE FALSE
    OBVIOUS
  <2>2. t \in Jobs /\ job[t].tool \in LeafTools /\ job[t].state = "running"
    BY <1>2, <1>3, <2>1, Apart DEF Shape, WaitsTrue, Live
  <2>3. QED
    BY <1>3, <2>2 DEF Shape, NestingTrue
<1>7. QED
  BY <1>2, <1>3, <1>4, <1>5, <1>6

LEMMA GoneLapsed ==
  ASSUME Shape, NEW t \in Threads, NEW futures, Gone(t, futures)
  PROVE  /\ lapsed' \in [Requests -> Nat] /\ RequestOf(t) \in Requests
         /\ \A r \in Requests : r # RequestOf(t) => lapsed'[r] = lapsed[r]
         /\ futures = job => lapsed'[RequestOf(t)] = lapsed[RequestOf(t)] + 1
         /\ futures # job =>
              /\ lapsed' = lapsed /\ futures = [job EXCEPT ![waits[t]] = Free]
              /\ job[waits[t]].state \in Resolved
<1>1. lapsed \in [Requests -> Nat] /\ job \in [Jobs -> Futures]
  BY DEF Shape, ToolsTypes
<1>2. Live(t) /\ waits[t] \in Jobs
  BY GoneLeft
<1>3. RequestOf(t) \in Requests
  BY <1>2, FreeFacts DEF Live, RequestOf, Shape, PoolTrue, Threads
<1>4. CASE futures = job /\ lapsed' = [lapsed EXCEPT ![RequestOf(t)] = @ + 1]
  <2>1. lapsed[RequestOf(t)] + 1 \in Nat
    BY <1>1, <1>3
  <2>2. QED
    BY <1>1, <1>3, <1>4, <2>1
<1>5. CASE /\ job[waits[t]].state \in Resolved /\ futures = [job EXCEPT ![waits[t]] = Free]
           /\ lapsed' = lapsed
  <2>1. futures[waits[t]].state # job[waits[t]].state
    BY <1>1, <1>2, <1>5, FreeFacts
  <2>2. QED
    BY <1>1, <1>3, <1>5, <2>1
<1>6. QED
  BY <1>4, <1>5 DEF Gone

LEMMA GoneLapses ==
  ASSUME Shape, NEW t \in Threads, NEW futures, Gone(t, futures)
  PROVE  \A r \in Requests : lapsed[r] \in Nat /\ lapsed'[r] \in Nat /\ lapsed[r] <= lapsed'[r]
<1>1. TAKE r \in Requests
<1>2. lapsed[r] \in Nat
  BY DEF Shape, ToolsTypes
<1>3. lapsed'[r] = lapsed[r] \/ lapsed'[r] = lapsed[r] + 1
  BY GoneLapsed
<1>4. QED
  BY <1>2, <1>3

(* The new future was none before, or the one just forgotten: no thread but *)
(* t knows it.                                                              *)
SubmitsTo(t, futures, j) ==
  /\ j # t /\ waits[j] = NoJob /\ ~checked[j]
  /\ job[j].state = "free" \/ (j = waits[t] /\ job[j].state \in Resolved)
  /\ job' = [futures EXCEPT ![j] =
       [state |-> "queued", req |-> RequestOf(t), tool |-> Head(todo[t])]]
  /\ queue' = Append(queue, j)
  /\ waits' = [waits EXCEPT ![t] = j]
  /\ tries' = [tries EXCEPT ![t] = @ + 1]
  /\ spent' = [spent EXCEPT ![RequestOf(t)] = @ + 1]
  /\ \A u \in Threads : u # t => waits[u] # j

LEMMA SubmitEffect ==
  ASSUME Shape, NEW t \in Threads, NEW futures, Left(t, futures), Live(t),
         Submit(t, futures)
  PROVE  \E j \in Jobs : SubmitsTo(t, futures, j)
<1>0. /\ job \in [Jobs -> Futures] /\ futures \in [Jobs -> Futures]
      /\ waits \in [Threads -> Jobs \cup {NoJob}]
  BY DEF Shape, ToolsTypes, Left
<1>1. PICK j \in Jobs :
        /\ futures[j].state = "free"
        /\ job' = [futures EXCEPT ![j] =
             [state |-> "queued", req |-> RequestOf(t), tool |-> Head(todo[t])]]
        /\ queue' = Append(queue, j)
        /\ waits' = [waits EXCEPT ![t] = j]
        /\ tries' = [tries EXCEPT ![t] = @ + 1]
        /\ spent' = [spent EXCEPT ![RequestOf(t)] = @ + 1]
  BY DEF Submit
<1>2. job[j].state = "free" \/ (j = waits[t] /\ job[j].state \in Resolved)
  BY <1>1 DEF Left
<1>3. j \in Threads /\ ~Live(j)
  BY <1>2, FreeFacts, Apart DEF Live
<1>4. waits[j] = NoJob /\ ~checked[j] /\ j # t
  BY <1>3 DEF Shape, WaitsTrue, CheckedTrue, Active, Live
<1>5. ASSUME NEW u \in Threads, u # t PROVE waits[u] # j
  <2>1. SUFFICES ASSUME waits[u] = j PROVE FALSE
    OBVIOUS
  <2>2. j # NoJob
    BY Apart
  <2>3. job[j].state # "free"
    BY <2>1, <2>2 DEF Shape, WaitsTrue
  <2>4. waits[t] = j
    BY <1>2, <2>3
  <2>5. QED
    BY <1>5, <2>1, <2>2, <2>4 DEF Shape, WaitsApart
<1>6. QED
  BY <1>1, <1>2, <1>4, <1>5 DEF SubmitsTo

LEMMA SubmitShape ==
  ASSUME Shape, NEW t \in Threads, NEW futures, NEW j \in Jobs,
         Left(t, futures), Live(t), todo[t] # <<>>, tries[t] <= MaxRetries,
         SubmitsTo(t, futures, j),
         UNCHANGED <<handler, todo>>,
         calls' \in [Requests -> Nat], lapsed' \in [Requests -> Nat],
         checked' \in [Threads -> BOOLEAN],
         \A u \in Threads : checked'[u] => checked[u] /\ u # t
  PROVE  Shape'
<1>0. /\ todo \in [Threads -> Seq(Tools)] /\ queue \in Seq(Jobs)
      /\ waits \in [Threads -> Jobs \cup {NoJob}] /\ tries \in [Threads -> 0 .. MaxRetries + 1]
      /\ job \in [Jobs -> Futures] /\ futures \in [Jobs -> Futures]
      /\ spent \in [Requests -> Nat]
  BY DEF Shape, ToolsTypes, Left
<1>1. RequestOf(t) \in Requests
  BY FreeFacts DEF Live, RequestOf, Shape, PoolTrue, Threads
<1>2. Head(todo[t]) \in Tools /\ (t \in Jobs => Head(todo[t]) \in LeafTools)
  <2>1. todo[t] \in Seq(Tools) /\ (t \in Jobs => todo[t] \in Seq(LeafTools))
    BY <1>0 DEF Shape, NestingTrue
  <2>2. QED
    BY <2>1, HeadTailProperties
<1>3. /\ job' \in [Jobs -> Futures]
      /\ job'[j].state = "queued" /\ job'[j].req = RequestOf(t) /\ job'[j].tool = Head(todo[t])
      /\ \A i \in Jobs : i # j => job'[i] = futures[i]
  BY <1>0, <1>1, <1>2 DEF SubmitsTo, Futures
<1>4. /\ waits' \in [Threads -> Jobs \cup {NoJob}] /\ waits'[t] = j
      /\ \A u \in Threads : u # t => waits'[u] = waits[u]
  BY <1>0 DEF SubmitsTo
<1>5. /\ tries' \in [Threads -> 0 .. MaxRetries + 1] /\ tries'[t] # 0
      /\ \A u \in Threads : u # t => tries'[u] = tries[u]
  <2>1. tries[t] \in 0 .. MaxRetries + 1 /\ tries[t] + 1 \in 0 .. MaxRetries + 1 /\ tries[t] + 1 # 0
    BY <1>0, PoolAssumption
  <2>2. QED
    BY <1>0, <2>1 DEF SubmitsTo
<1>6. /\ queue' \in Seq(Jobs) /\ Len(queue') = Len(queue) + 1 /\ Len(queue) \in Nat
      /\ \A i \in 1 .. Len(queue) : queue'[i] = queue[i]
      /\ queue'[Len(queue) + 1] = j
  BY <1>0, AppendProperties, LenProperties DEF SubmitsTo
<1>7. spent' \in [Requests -> Nat]
  BY <1>0, <1>1 DEF SubmitsTo
<1>8. ToolsTypes'
  BY <1>3, <1>4, <1>5, <1>6, <1>7 DEF Shape, ToolsTypes
<1>9. ASSUME NEW i \in Jobs, job[i].state \in {"queued", "running"}
      PROVE  i # j /\ job'[i] = job[i]
  BY <1>3, <1>9, FreeFacts DEF SubmitsTo, Left
<1>10. PoolTrue'
  <2>1. \A i \in Jobs : job'[i].state = "free" <=> job'[i].req \notin Requests
    BY <1>1, <1>3, FreeFacts DEF Shape, PoolTrue, Left
  <2>2. \A i \in 1 .. Len(queue) :
          queue[i] \in Jobs /\ queue[i] # j /\ job'[queue[i]].state = "queued"
    <3>1. \A i \in 1 .. Len(queue) : queue[i] \in Jobs /\ job[queue[i]].state = "queued"
      BY <1>0, ElementOfSeq DEF Shape, PoolTrue
    <3>2. QED
      BY <1>9, <3>1
  <2>3. ASSUME NEW i \in 1 .. Len(queue') PROVE i \in 1 .. Len(queue) \/ i = Len(queue) + 1
    BY <1>6
  <2>4. \A i \in 1 .. Len(queue') : job'[queue'[i]].state = "queued"
    BY <1>3, <1>6, <2>2, <2>3
  <2>5. ASSUME NEW i \in 1 .. Len(queue'), NEW k \in 1 .. Len(queue'), queue'[i] = queue'[k]
        PROVE  i = k
    BY <1>6, <2>2, <2>3, <2>5 DEF Shape, PoolTrue
  <2>6. QED
    BY <2>1, <2>4, <2>5 DEF PoolTrue
<1>11. NestingTrue'
  <2>1. \A i \in Jobs : job'[i].state = "running" => job'[i] = job[i]
    BY <1>3, FreeFacts DEF Left
  <2>2. QED
    BY <2>1 DEF Shape, NestingTrue
<1>12. \A u \in Threads : Live(u) => Live(u)' /\ RequestOf(u)' = RequestOf(u)
  BY <1>9, Apart DEF Live, RequestOf
<1>13. WaitsTrue'
  <2>1. ASSUME NEW u \in Threads, u # t, waits[u] # NoJob
        PROVE  /\ Live(u)' /\ todo'[u] # <<>> /\ tries'[u] # 0
               /\ job'[waits[u]].state # "free" /\ job'[waits[u]].req = RequestOf(u)'
               /\ u \in Jobs => job'[waits[u]].tool \in LeafTools
    <3>1. waits[u] \in Jobs /\ waits[u] # j
      BY <1>0, <2>1 DEF SubmitsTo
    <3>2. waits[u] # waits[t]
      BY <2>1 DEF Shape, WaitsApart
    <3>3. job'[waits[u]] = job[waits[u]]
      BY <1>3, <3>1, <3>2 DEF Left
    <3>4. QED
      BY <1>5, <1>12, <2>1, <3>3 DEF Shape, WaitsTrue
  <2>2. /\ Live(t)' /\ todo'[t] # <<>> /\ tries'[t] # 0
        /\ job'[j].state # "free" /\ job'[j].req = RequestOf(t)'
        /\ t \in Jobs => job'[j].tool \in LeafTools
    BY <1>2, <1>3, <1>5, <1>12
  <2>3. \A u \in Threads : u # t /\ waits[u] = NoJob => tries'[u] = 0
    BY <1>5 DEF Shape, WaitsTrue
  <2>4. j # NoJob
    BY Apart
  <2>5. QED
    BY <1>4, <2>1, <2>2, <2>3, <2>4 DEF WaitsTrue
<1>14. WaitsApart'
  BY <1>4 DEF Shape, WaitsApart, SubmitsTo
<1>15. CheckedTrue'
  <2>1. \A u \in Threads : Active(u) <=> (Live(u) /\ waits[u] = NoJob)
    BY DEF Active, Live
  <2>2. \A u \in Threads : Active(u)' <=> (Live(u)' /\ waits'[u] = NoJob)
    BY DEF Active, Live
  <2>3. QED
    BY <1>4, <1>12, <2>1, <2>2 DEF Shape, CheckedTrue
<1>16. QED
  BY <1>8, <1>10, <1>11, <1>13, <1>14, <1>15 DEF Shape

(* A call of t is over, with a result or an exception that may end t. *)
Releases(t, futures) ==
  /\ Gone(t, futures)
  /\ waits' = [waits EXCEPT ![t] = NoJob]
  /\ tries' = [tries EXCEPT ![t] = 0]
  /\ todo' \in [Threads -> Seq(Tools)] /\ (t \in Jobs => todo'[t] \in Seq(LeafTools))
  /\ \A u \in Threads : u # t => todo'[u] = todo[u]
  /\ handler' \in [Requests -> {"running", "completed", "failed"}]
  /\ \A u \in Requests : u # t => handler'[u] = handler[u]
  /\ job' \in [Jobs -> Futures]
  /\ \A i \in Jobs : i # t => job'[i] = futures[i]
  /\ t \in Jobs =>
       \/ job'[t] = job[t]
       \/ job'[t] = Free /\ \A u \in Threads : waits[u] # t
       \/ /\ job'[t].state \in Resolved
          /\ job'[t].req = job[t].req /\ job'[t].tool = job[t].tool
  /\ UNCHANGED <<calls, queue, checked, spent>>

LEMMA ReturnReleases ==
  ASSUME Shape, NEW t \in Threads, Return(t)
  PROVE  /\ Releases(t, [job EXCEPT ![waits[t]] = Free])
         /\ handler' = handler /\ lapsed' = lapsed
<1>0. /\ todo \in [Threads -> Seq(Tools)] /\ job \in [Jobs -> Futures]
      /\ handler \in [Requests -> {"running", "completed", "failed"}]
  BY DEF Shape, ToolsTypes
<1>1. Gone(t, [job EXCEPT ![waits[t]] = Free])
  BY DEF Return, Gone, Resolved
<1>2. waits[t] \in Jobs /\ todo[t] # <<>> /\ waits[t] # t
  BY <1>1, GoneLeft
<1>3. Tail(todo[t]) \in Seq(Tools) /\ (t \in Jobs => Tail(todo[t]) \in Seq(LeafTools))
  <2>1. todo[t] \in Seq(Tools) /\ (t \in Jobs => todo[t] \in Seq(LeafTools))
    BY <1>0 DEF Shape, NestingTrue
  <2>2. QED
    BY <1>2, <2>1, HeadTailProperties
<1>4. /\ job' = [job EXCEPT ![waits[t]] = Free] /\ todo' = [todo EXCEPT ![t] = Tail(@)]
      /\ waits' = [waits EXCEPT ![t] = NoJob] /\ tries' = [tries EXCEPT ![t] = 0]
      /\ UNCHANGED <<handler, calls, queue, checked, spent, lapsed>>
  BY DEF Return
<1>5. job' \in [Jobs -> Futures] /\ (t \in Jobs => job'[t] = job[t])
  BY <1>0, <1>2, <1>4, FreeFacts
<1>6. /\ todo' \in [Threads -> Seq(Tools)] /\ todo'[t] = Tail(todo[t])
      /\ \A u \in Threads : u # t => todo'[u] = todo[u]
  BY <1>0, <1>3, <1>4
<1>7. QED
  BY <1>0, <1>1, <1>3, <1>4, <1>5, <1>6 DEF Releases

LEMMA GivesUpReleases ==
  ASSUME Shape, NEW t \in Threads, NEW futures, GivesUp(t, futures)
  PROVE  /\ Releases(t, futures)
         /\ t \in Requests => handler'[t] # "running" /\ job' = futures
<1>0. /\ todo \in [Threads -> Seq(Tools)] /\ job \in [Jobs -> Futures]
      /\ handler \in [Requests -> {"running", "completed", "failed"}]
  BY DEF Shape, ToolsTypes
<1>1. Gone(t, futures)
  BY DEF GivesUp
<1>2. futures \in [Jobs -> Futures] /\ waits[t] # t /\ Live(t)
  BY <1>1, GoneLeft DEF Left
<1>3. /\ todo' = [todo EXCEPT ![t] = <<>>]
      /\ waits' = [waits EXCEPT ![t] = NoJob] /\ tries' = [tries EXCEPT ![t] = 0]
      /\ UNCHANGED <<calls, queue, checked, spent>>
  BY DEF GivesUp
<1>4. /\ todo' \in [Threads -> Seq(Tools)] /\ (t \in Jobs => todo'[t] \in Seq(LeafTools))
      /\ \A u \in Threads : u # t => todo'[u] = todo[u]
  BY <1>0, <1>3, EmptySeq
<1>5. CASE t \in Requests
  <2>1. handler' = [handler EXCEPT ![t] = "failed"] /\ job' = futures
    BY <1>5, Apart DEF GivesUp
  <2>2. QED
    BY <1>0, <1>1, <1>2, <1>3, <1>4, <1>5, <2>1, Apart DEF Releases
<1>6. CASE t \in Jobs
  <2>1. PICK o \in Resolved :
          /\ handler' = handler
          /\ job' = [futures EXCEPT ![t] =
               IF \E u \in Threads : waits[u] = t THEN [@ EXCEPT !.state = o] ELSE Free]
    BY <1>6, Apart DEF GivesUp
  <2>2. futures[t] = job[t] /\ job[t] \in Futures
    BY <1>0, <1>1, <1>2, <1>6, GoneLeft DEF Left
  <2>3. /\ [futures[t] EXCEPT !.state = o] \in Futures
        /\ [futures[t] EXCEPT !.state = o].state = o
        /\ [futures[t] EXCEPT !.state = o].req = job[t].req
        /\ [futures[t] EXCEPT !.state = o].tool = job[t].tool
    BY <2>2 DEF Futures, Resolved
  <2>4. CASE \E u \in Threads : waits[u] = t
    <3>1. job' = [futures EXCEPT ![t] = [@ EXCEPT !.state = o]]
      BY <2>1, <2>4
    <3>2. /\ job' \in [Jobs -> Futures] /\ job'[t] = [futures[t] EXCEPT !.state = o]
          /\ \A i \in Jobs : i # t => job'[i] = futures[i]
      BY <1>2, <1>6, <2>3, <3>1
    <3>3. QED
      BY <1>0, <1>1, <1>3, <1>4, <1>6, <2>1, <2>3, <3>2, Apart DEF Releases
  <2>5. CASE ~\E u \in Threads : waits[u] = t
    <3>1. job' = [futures EXCEPT ![t] = Free]
      BY <2>1, <2>5
    <3>2. /\ job' \in [Jobs -> Futures] /\ job'[t] = Free
          /\ \A i \in Jobs : i # t => job'[i] = futures[i]
      BY <1>2, <1>6, <3>1, FreeFacts
    <3>3. QED
      BY <1>0, <1>1, <1>3, <1>4, <1>6, <2>1, <2>5, <3>2, Apart DEF Releases
  <2>6. QED
    BY <2>4, <2>5
<1>7. QED
  BY <1>5, <1>6, Apart

LEMMA ReleasesShape ==
  ASSUME Shape, NEW t \in Threads, NEW futures, Releases(t, futures)
  PROVE  Shape'
<1>0. /\ waits \in [Threads -> Jobs \cup {NoJob}] /\ tries \in [Threads -> 0 .. MaxRetries + 1]
      /\ job \in [Jobs -> Futures] /\ queue \in Seq(Jobs) /\ lapsed \in [Requests -> Nat]
  BY DEF Shape, ToolsTypes
<1>1. /\ Left(t, futures) /\ waits[t] \in Jobs /\ Live(t) /\ todo[t] # <<>> /\ ~checked[t]
      /\ waits[t] # t
  BY GoneLeft DEF Releases
<1>2. /\ waits' \in [Threads -> Jobs \cup {NoJob}] /\ waits'[t] = NoJob
      /\ \A u \in Threads : u # t => waits'[u] = waits[u]
  BY <1>0 DEF Releases
<1>3. /\ tries' \in [Threads -> 0 .. MaxRetries + 1] /\ tries'[t] = 0
      /\ \A u \in Threads : u # t => tries'[u] = tries[u]
  <2>1. 0 \in 0 .. MaxRetries + 1
    BY PoolAssumption
  <2>2. QED
    BY <1>0, <2>1 DEF Releases
<1>4. RequestOf(t) \in Requests
  BY <1>1, FreeFacts DEF Live, RequestOf, Shape, PoolTrue, Threads
<1>5. lapsed' \in [Requests -> Nat]
  BY GoneLapsed DEF Releases
<1>6. ToolsTypes'
  BY <1>2, <1>3, <1>5 DEF Shape, ToolsTypes, Releases
<1>7. /\ \A i \in Jobs : i # t =>
           job'[i] = job[i] \/ (i = waits[t] /\ job'[i] = Free /\ job[i].state \in Resolved)
      /\ t \in Jobs => job[t].state = "running"
      /\ t \in Jobs =>
           \/ job'[t] = job[t]
           \/ job'[t] = Free /\ \A u \in Threads : waits[u] # t
           \/ /\ job'[t].state \in Resolved
              /\ job'[t].req = job[t].req /\ job'[t].tool = job[t].tool
  BY <1>1, Apart DEF Releases, Left, Live
<1>8. PoolTrue'
  <2>1. \A i \in Jobs : job'[i].state = "free" <=> job'[i].req \notin Requests
    BY <1>7, FreeFacts DEF Shape, PoolTrue
  <2>2. \A i \in 1 .. Len(queue) : queue[i] \in Jobs /\ job'[queue[i]].state = "queued"
    <3>1. \A i \in 1 .. Len(queue) : queue[i] \in Jobs
      BY <1>0, ElementOfSeq
    <3>2. QED
      BY <1>7, <3>1, FreeFacts DEF Shape, PoolTrue
  <2>3. QED
    BY <2>1, <2>2 DEF Shape, PoolTrue, Releases
<1>9. NestingTrue'
  <2>1. \A i \in Jobs : job'[i].state = "running" => job'[i] = job[i]
    BY <1>7, FreeFacts
  <2>2. t \in Jobs => todo'[t] \in Seq(LeafTools)
    BY DEF Releases
  <2>3. t \in Jobs => job[t].state = "running" /\ job[t].tool \notin LeafTools
    BY <1>1, <1>7 DEF Shape, NestingTrue
  <2>4. \A u \in Jobs : u # t => todo'[u] = todo[u]
    BY Apart DEF Releases
  <2>5. QED
    BY <2>1, <2>2, <2>3, <2>4 DEF Shape, NestingTrue
<1>10. \A u \in Threads : u # t /\ Live(u) => Live(u)' /\ RequestOf(u)' = RequestOf(u)
  <2>1. \A u \in Requests : u # t => handler'[u] = handler[u]
    BY DEF Releases
  <2>2. QED
    BY <1>7, <2>1, FreeFacts, Apart DEF Live, RequestOf
<1>11. WaitsTrue'
  <2>1. ASSUME NEW u \in Threads, u # t, waits[u] # NoJob
        PROVE  /\ Live(u)' /\ todo'[u] # <<>> /\ tries'[u] # 0
               /\ job'[waits[u]].state # "free" /\ job'[waits[u]].req = RequestOf(u)'
               /\ u \in Jobs => job'[waits[u]].tool \in LeafTools
    <3>1. waits[u] \in Jobs /\ waits[u] # waits[t]
      BY <1>0, <2>1 DEF Shape, WaitsApart
    <3>2. /\ Live(u) /\ todo[u] # <<>> /\ tries[u] # 0
          /\ job[waits[u]].state # "free" /\ job[waits[u]].req = RequestOf(u)
          /\ u \in Jobs => job[waits[u]].tool \in LeafTools
      BY <2>1 DEF Shape, WaitsTrue
    <3>3. /\ job'[waits[u]].state # "free" /\ job'[waits[u]].req = job[waits[u]].req
          /\ job'[waits[u]].tool = job[waits[u]].tool
      BY <1>7, <3>1, <3>2, FreeFacts
    <3>4. todo'[u] = todo[u]
      BY <2>1 DEF Releases
    <3>5. QED
      BY <1>3, <1>10, <2>1, <3>2, <3>3, <3>4
  <2>2. \A u \in Threads : u # t /\ waits[u] = NoJob => tries'[u] = 0
    BY <1>3 DEF Shape, WaitsTrue
  <2>3. QED
    BY <1>2, <1>3, <2>1, <2>2 DEF WaitsTrue
<1>12. WaitsApart'
  BY <1>2 DEF Shape, WaitsApart
<1>13. CheckedTrue'
  <2>1. \A u \in Threads : Active(u) <=> (Live(u) /\ waits[u] = NoJob)
    BY DEF Active, Live
  <2>2. \A u \in Threads : Active(u)' <=> (Live(u)' /\ waits'[u] = NoJob)
    BY DEF Active, Live
  <2>3. checked' = checked /\ \A u \in Threads : u # t => todo'[u] = todo[u]
    BY DEF Releases
  <2>4. QED
    BY <1>1, <1>2, <1>10, <2>1, <2>2, <2>3 DEF Shape, CheckedTrue
<1>14. QED
  BY <1>6, <1>8, <1>9, <1>11, <1>12, <1>13 DEF Shape

-----------------------------------------------------------------------------
(* Every step keeps the counts *)

Counts == EndsBounded /\ CheckedBounded /\ CreditsBounded

(* A request whose chains, tests and credits only lose threads. *)
LEMMA CountsKept ==
  ASSUME ToolsTypes, Counts, NEW r \in Requests,
         calls'[r] = calls[r], spent'[r] = spent[r], lapsed'[r] = lapsed[r],
         Ends(r)' \subseteq Ends(r), Checked(r)' \subseteq Checked(r),
         Credits(r)' \subseteq Credits(r)
  PROVE  /\ Cardinality(Ends(r)') <= 1 + lapsed'[r]
         /\ calls'[r] + Cardinality(Checked(r)') <= MaxToolCalls + lapsed'[r]
         /\ spent'[r] + Cardinality(Credits(r)') <= calls'[r] * (1 + MaxRetries)
<1>1. /\ calls[r] \in Nat /\ spent[r] \in Nat /\ lapsed[r] \in Nat
      /\ MaxToolCalls \in Nat /\ MaxRetries \in Nat
  BY PoolAssumption DEF ToolsTypes
<1>2. /\ Cardinality(Ends(r)) \in Nat /\ Cardinality(Ends(r)') \in Nat
      /\ Cardinality(Ends(r)') <= Cardinality(Ends(r))
  BY CountedFinite, Shrinks
<1>3. /\ Cardinality(Checked(r)) \in Nat /\ Cardinality(Checked(r)') \in Nat
      /\ Cardinality(Checked(r)') <= Cardinality(Checked(r))
  BY CountedFinite, Shrinks
<1>4. /\ Cardinality(Credits(r)) \in Nat /\ Cardinality(Credits(r)') \in Nat
      /\ Cardinality(Credits(r)') <= Cardinality(Credits(r))
  BY CountedFinite, Shrinks
<1>5. /\ Cardinality(Ends(r)) <= 1 + lapsed[r]
      /\ calls[r] + Cardinality(Checked(r)) <= MaxToolCalls + lapsed[r]
      /\ spent[r] + Cardinality(Credits(r)) <= calls[r] * (1 + MaxRetries)
  BY DEF Counts, EndsBounded, CheckedBounded, CreditsBounded
<1>6. calls[r] * (1 + MaxRetries) \in Nat
  BY <1>1
<1>7. QED
  BY <1>1, <1>2, <1>3, <1>4, <1>5, <1>6

(* The chains of a request have changed one end for another. *)
LEMMA EndsSwapped ==
  ASSUME ToolsTypes, EndsBounded, NEW r \in Requests, NEW a \in Ends(r), NEW b,
         lapsed'[r] = lapsed[r], Ends(r)' \subseteq (Ends(r) \ {a}) \cup {b}
  PROVE  Cardinality(Ends(r)') <= 1 + lapsed'[r]
<1>1. lapsed[r] \in Nat
  BY DEF ToolsTypes
<1>2. /\ Cardinality(Ends(r)) \in Nat /\ Cardinality(Ends(r)') \in Nat
      /\ Cardinality(Ends(r)') <= Cardinality(Ends(r))
  BY CountedFinite, Swaps
<1>3. QED
  BY <1>1, <1>2 DEF EndsBounded

(* A deadline of the request has lapsed, and cut a chain in two. *)
LEMMA EndsCut ==
  ASSUME ToolsTypes, EndsBounded, NEW r \in Requests, NEW b,
         lapsed'[r] = lapsed[r] + 1, Ends(r)' \subseteq Ends(r) \cup {b}
  PROVE  Cardinality(Ends(r)') <= 1 + lapsed'[r]
<1>1. lapsed[r] \in Nat
  BY DEF ToolsTypes
<1>2. /\ Cardinality(Ends(r)) \in Nat /\ Cardinality(Ends(r)') \in Nat
      /\ Cardinality(Ends(r)') <= Cardinality(Ends(r)) + 1
  BY CountedFinite, Grows
<1>3. QED
  BY <1>1, <1>2 DEF EndsBounded

LEMMA CheckedKept ==
  ASSUME ToolsTypes, CheckedBounded, NEW r \in Requests,
         calls'[r] = calls[r], lapsed'[r] \in Nat, lapsed[r] <= lapsed'[r],
         Checked(r)' \subseteq Checked(r)
  PROVE  calls'[r] + Cardinality(Checked(r)') <= MaxToolCalls + lapsed'[r]
<1>1. calls[r] \in Nat /\ lapsed[r] \in Nat /\ MaxToolCalls \in Nat
  BY PoolAssumption DEF ToolsTypes
<1>2. /\ Cardinality(Checked(r)) \in Nat /\ Cardinality(Checked(r)') \in Nat
      /\ Cardinality(Checked(r)') <= Cardinality(Checked(r))
  BY CountedFinite, Shrinks
<1>3. QED
  BY <1>1, <1>2 DEF CheckedBounded

LEMMA CreditsKept ==
  ASSUME ToolsTypes, CreditsBounded, NEW r \in Requests,
         calls'[r] = calls[r], spent'[r] = spent[r],
         Credits(r)' \subseteq Credits(r)
  PROVE  spent'[r] + Cardinality(Credits(r)') <= calls'[r] * (1 + MaxRetries)
<1>1. calls[r] \in Nat /\ spent[r] \in Nat /\ MaxRetries \in Nat
  BY PoolAssumption DEF ToolsTypes
<1>2. /\ Cardinality(Credits(r)) \in Nat /\ Cardinality(Credits(r)') \in Nat
      /\ Cardinality(Credits(r)') <= Cardinality(Credits(r))
  BY CountedFinite, Shrinks
<1>3. calls[r] * (1 + MaxRetries) \in Nat
  BY <1>1
<1>4. QED
  BY <1>1, <1>2, <1>3 DEF CreditsBounded

(* Below every future of a request is an end of one of its chains. *)
LEMMA EndBelow ==
  ASSUME Shape, NEW j \in Jobs, job[j].req \in Requests
  PROVE  \E e \in Jobs : e \in Ends(job[j].req) /\ (e = j \/ waits[j] = e)
<1>0. waits \in [Threads -> Jobs \cup {NoJob}]
  BY DEF Shape, ToolsTypes
<1>1. CASE waits[j] = NoJob
  BY <1>1, Apart DEF Ends, Present, RequestOf, Shape, PoolTrue
<1>2. CASE waits[j] # NoJob
  <2>1. /\ waits[j] \in Jobs /\ job[waits[j]].state # "free" /\ job[waits[j]].req = job[j].req
        /\ job[waits[j]].tool \in LeafTools
    BY <1>0, <1>2, Apart DEF Shape, WaitsTrue, RequestOf
  <2>2. waits[waits[j]] = NoJob
    <3>1. SUFFICES ASSUME waits[waits[j]] # NoJob PROVE FALSE
      OBVIOUS
    <3>2. job[waits[j]].state = "running" /\ todo[waits[j]] # <<>>
      BY <2>1, <3>1, Apart DEF Shape, WaitsTrue, Live
    <3>3. QED
      BY <2>1, <3>2 DEF Shape, NestingTrue
  <2>3. waits[j] \in Ends(job[j].req)
    BY <2>1, <2>2, Apart DEF Ends, Present, RequestOf
  <2>4. QED
    BY <2>1, <2>3
<1>3. QED
  BY <1>1, <1>2

LEMMA StopsCounts ==
  ASSUME ToolsInv, NEW t \in Threads, Stops(t)
  PROVE  Counts' /\ NothingLeftBehind'
<1>0. Shape /\ Counts /\ NothingLeftBehind /\ ToolsTypes
  BY DEF ToolsInv, Counts, Shape
<1>1. /\ UNCHANGED <<calls, queue, checked, waits, tries, spent, lapsed>>
      /\ waits[t] = NoJob /\ ~checked[t] /\ Live(t)
  BY DEF Stops, Active, Live
<1>2. /\ \A u \in Requests : u # t => handler'[u] = handler[u]
      /\ \A i \in Jobs : i # t => job'[i] = job[i]
      /\ t \in Jobs =>
           /\ job[t].state = "running"
           /\ \/ job'[t] = Free /\ \A u \in Threads : waits[u] # t
              \/ /\ job'[t].state \in Resolved
                 /\ job'[t].req = job[t].req /\ job'[t].tool = job[t].tool
      /\ t \in Requests => handler'[t] # "running"
  BY <1>0, StopsEffect
<1>3. \A u \in Threads : u # t => RequestOf(u)' = RequestOf(u) /\ (Present(u)' <=> Present(u))
  BY <1>2, Apart DEF RequestOf, Present
<1>4. Present(t)' => RequestOf(t)' = RequestOf(t) /\ Present(t)
  BY <1>1, <1>2, FreeFacts, Apart DEF RequestOf, Present, Live
<1>5. ASSUME NEW r \in Requests
      PROVE  /\ Ends(r)' \subseteq Ends(r) /\ Checked(r)' \subseteq Checked(r)
             /\ Credits(r)' \subseteq Credits(r)
  <2>1. Ends(r)' \subseteq Ends(r)
    BY <1>1, <1>3, <1>4 DEF Ends, Threads
  <2>2. Checked(r)' \subseteq Checked(r)
    BY <1>1, <1>3 DEF Checked, Threads
  <2>3. Credits(r)' \subseteq Credits(r)
    BY <1>1, <1>3 DEF Credits, Threads
  <2>4. QED
    BY <2>1, <2>2, <2>3
<1>6. Counts'
  BY <1>0, <1>1, <1>5, CountsKept DEF Counts, EndsBounded, CheckedBounded, CreditsBounded
<1>7. NothingLeftBehind'
  <2>1. SUFFICES ASSUME NEW r \in Requests, handler'[r] # "running", lapsed'[r] = 0,
                        NEW j \in Jobs, job'[j].req = r
                 PROVE  FALSE
    BY DEF NothingLeftBehind
  <2>2. job[j].req = r
    BY <1>2, <2>1, FreeFacts
  <2>3. handler[r] = "running" /\ r = t
    BY <1>0, <1>1, <1>2, <2>1, <2>2 DEF NothingLeftBehind
  <2>4. PICK e \in Jobs : e \in Ends(r)
    BY <1>0, <2>2, EndBelow
  <2>5. t \in Ends(r)
    BY <1>1, <2>3 DEF Ends, Present, RequestOf
  <2>6. Cardinality(Ends(r)) <= 1
    BY <1>0, <1>1, <2>1 DEF Counts, EndsBounded
  <2>7. e = t
    BY <2>4, <2>5, <2>6, CountedFinite, OneElement
  <2>8. QED
    BY <2>3, <2>7, Apart
<1>8. QED
  BY <1>6, <1>7

(* The thread that passes the test is the end of a chain: with the others    *)
(* that have passed it there are no more than the chains, and the test has   *)
(* left room for one.                                                        *)
LEMMA PassesCounts ==
  ASSUME ToolsInv, NEW t \in Threads, Passes(t)
  PROVE  Counts' /\ NothingLeftBehind'
<1>0. Shape /\ Counts /\ NothingLeftBehind /\ ToolsTypes
  BY DEF ToolsInv, Counts, Shape
<1>1. /\ UNCHANGED <<handler, calls, job, queue, todo, waits, tries, spent, lapsed>>
      /\ Active(t) /\ calls[RequestOf(t)] < MaxToolCalls
      /\ checked' = [checked EXCEPT ![t] = TRUE]
  BY DEF Passes
<1>2. NothingLeftBehind'
  BY <1>0, <1>1 DEF NothingLeftBehind
<1>3. \A u \in Threads : RequestOf(u)' = RequestOf(u) /\ (Present(u)' <=> Present(u))
  BY <1>1 DEF RequestOf, Present
<1>4. \A u \in Threads : u # t => checked'[u] = checked[u]
  BY <1>0, <1>1 DEF ToolsTypes
<1>5. ASSUME NEW r \in Requests
      PROVE  Ends(r)' \subseteq Ends(r) /\ Credits(r)' \subseteq Credits(r)
  BY <1>1, <1>3 DEF Ends, Credits, Threads
<1>6. ASSUME NEW r \in Requests, r # RequestOf(t)
      PROVE  Checked(r)' \subseteq Checked(r)
  BY <1>3, <1>4, <1>6 DEF Checked, Threads
<1>7. ASSUME NEW r \in Requests, r = RequestOf(t)
      PROVE  /\ Cardinality(Ends(r)') <= 1 + lapsed'[r]
             /\ calls'[r] + Cardinality(Checked(r)') <= MaxToolCalls + lapsed'[r]
             /\ spent'[r] + Cardinality(Credits(r)') <= calls'[r] * (1 + MaxRetries)
  <2>1. Checked(r)' \subseteq Ends(r)
    <3>1. ASSUME NEW u \in Threads, checked'[u] PROVE Active(u)
      BY <1>0, <1>1, <1>4, <3>1 DEF Shape, CheckedTrue
    <3>2. ASSUME NEW u \in Threads, Active(u) PROVE Present(u) /\ waits[u] = NoJob
      BY <3>2 DEF Active, Present
    <3>3. QED
      BY <1>3, <3>1, <3>2 DEF Checked, Ends, Threads
  <2>2. /\ Cardinality(Ends(r)) \in Nat /\ Cardinality(Checked(r)') \in Nat
        /\ Cardinality(Checked(r)') <= Cardinality(Ends(r))
    BY <2>1, CountedFinite, Shrinks
  <2>3. /\ Cardinality(Ends(r)') \in Nat /\ Cardinality(Ends(r)') <= Cardinality(Ends(r))
    BY <1>5, CountedFinite, Shrinks
  <2>4. /\ calls[r] \in Nat /\ lapsed[r] \in Nat /\ MaxToolCalls \in Nat
        /\ Cardinality(Ends(r)) <= 1 + lapsed[r] /\ calls[r] < MaxToolCalls
    BY <1>0, <1>1, <1>7, PoolAssumption DEF ToolsTypes, Counts, EndsBounded
  <2>5. /\ Cardinality(Ends(r)') <= 1 + lapsed[r]
        /\ calls[r] + Cardinality(Checked(r)') <= MaxToolCalls + lapsed[r]
    BY <2>2, <2>3, <2>4
  <2>6. spent'[r] + Cardinality(Credits(r)') <= calls'[r] * (1 + MaxRetries)
    BY <1>0, <1>1, <1>5, CreditsKept DEF Counts
  <2>7. QED
    BY <1>1, <2>5, <2>6
<1>8. Counts'
  BY <1>0, <1>1, <1>5, <1>6, <1>7, CountsKept
     DEF Counts, EndsBounded, CheckedBounded, CreditsBounded
<1>9. QED
  BY <1>2, <1>8

LEMMA StartCounts ==
  ASSUME ToolsInv, Start
  PROVE  Counts' /\ NothingLeftBehind'
<1>0. Shape /\ Counts /\ NothingLeftBehind /\ ToolsTypes
  BY DEF ToolsInv, Counts, Shape
<1>1. PICK h \in Jobs :
           /\ job[h].state = "queued"
           /\ job' = [job EXCEPT ![h].state = "running"]
           /\ UNCHANGED <<handler, calls, checked, waits, tries, spent, lapsed>>
  BY <1>0, StartEffect
<1>2. \A i \in Jobs : job'[i].req = job[i].req /\ (job'[i].state = "free" <=> job[i].state = "free")
  BY <1>0, <1>1 DEF ToolsTypes, Futures
<1>3. NothingLeftBehind'
  BY <1>0, <1>1, <1>2 DEF NothingLeftBehind
<1>4. \A u \in Threads : RequestOf(u)' = RequestOf(u) /\ (Present(u)' <=> Present(u))
  BY <1>1, <1>2, Apart DEF RequestOf, Present
<1>5. ASSUME NEW r \in Requests
      PROVE  /\ Ends(r)' \subseteq Ends(r) /\ Checked(r)' \subseteq Checked(r)
             /\ Credits(r)' \subseteq Credits(r)
  BY <1>1, <1>4 DEF Ends, Checked, Credits, Threads
<1>6. Counts'
  BY <1>0, <1>1, <1>5, CountsKept DEF Counts, EndsBounded, CheckedBounded, CreditsBounded
<1>7. QED
  BY <1>3, <1>6

(* What a submission does to the sets that are counted: the new future is an *)
(* end, its caller none, and of the caller's credits those above the attempt *)
(* are left.                                                                 *)
LEMMA SubmitSets ==
  ASSUME Shape, NEW t \in Threads, NEW futures, NEW j \in Jobs,
         Left(t, futures), Live(t), SubmitsTo(t, futures, j), handler' = handler
  PROVE  /\ RequestOf(t) \in Requests
         /\ \A i \in Jobs : job'[i].req = job[i].req \/ job'[i].req \in {RequestOf(t), NoJob}
         /\ \A r \in Requests : \A u \in Ends(r)' :
              \/ u = j /\ r = RequestOf(t)
              \/ u \in Ends(r) /\ u # t /\ (waits[t] # NoJob /\ futures # job => u # waits[t])
         /\ \A r \in Requests : \A c \in Credits(r)' :
              \/ c[1] = t /\ r = RequestOf(t) /\ c[2] >= tries[t] + 1
              \/ c \in Credits(r) /\ c[1] # t
         /\ \A u \in Threads : checked[u] => RequestOf(u)' = RequestOf(u)
<1>0. /\ waits \in [Threads -> Jobs \cup {NoJob}] /\ tries \in [Threads -> 0 .. MaxRetries + 1]
      /\ job \in [Jobs -> Futures] /\ futures \in [Jobs -> Futures]
  BY DEF Shape, ToolsTypes, Left
<1>1. RequestOf(t) \in Requests
  BY FreeFacts DEF Live, RequestOf, Shape, PoolTrue, Threads
<1>2. /\ job'[j].state = "queued" /\ job'[j].req = RequestOf(t)
      /\ \A i \in Jobs : i # j => job'[i] = futures[i]
      /\ waits'[t] = j /\ tries'[t] = tries[t] + 1
      /\ \A u \in Threads : u # t => waits'[u] = waits[u] /\ tries'[u] = tries[u]
      /\ j # t /\ j # NoJob
  BY <1>0, Apart DEF SubmitsTo
<1>3. \A i \in Jobs : i # j =>
        job'[i] = job[i] \/ (i = waits[t] /\ job'[i] = Free /\ job[i].state \in Resolved)
  BY <1>2 DEF Left
<1>4. \A i \in Jobs : job'[i].req = job[i].req \/ job'[i].req \in {RequestOf(t), NoJob}
  BY <1>2, <1>3, FreeFacts
<1>5. \A u \in Threads : Live(u) => RequestOf(u)' = RequestOf(u) /\ u # j
  <2>1. ~Live(j)
    BY FreeFacts, Apart DEF SubmitsTo, Live
  <2>2. QED
    BY <1>3, <2>1, FreeFacts, Apart DEF Live, RequestOf
<1>6. ASSUME NEW r \in Requests, NEW u \in Ends(r)', u # j
      PROVE  u \in Ends(r) /\ u # t /\ (waits[t] # NoJob /\ futures # job => u # waits[t])
  <2>1. u \in Threads /\ RequestOf(u)' = r /\ Present(u)' /\ waits'[u] = NoJob
    BY DEF Ends, Threads
  <2>2. u # t
    BY <1>2, <2>1
  <2>3. u \in Jobs => job'[u] = job[u] /\ job'[u] = futures[u]
    BY <1>2, <1>3, <1>6, <2>1, FreeFacts, Apart DEF Present
  <2>4. RequestOf(u) = r /\ Present(u) /\ waits[u] = NoJob
    BY <1>2, <2>1, <2>2, <2>3, Apart DEF RequestOf, Present
  <2>5. ASSUME waits[t] # NoJob, futures # job PROVE u # waits[t]
    <3>1. \E i \in Jobs : futures[i] # job[i]
      BY <1>0, <2>5
    <3>2. futures[waits[t]] = Free /\ job[waits[t]].state \in Resolved /\ waits[t] \in Jobs
      BY <3>1 DEF Left
    <3>3. futures[waits[t]] # job[waits[t]]
      BY <3>2, FreeFacts
    <3>4. QED
      BY <2>3, <3>2, <3>3
  <2>6. QED
    BY <2>1, <2>2, <2>4, <2>5 DEF Ends
<1>7. \A r \in Requests : j \in Ends(r)' => r = RequestOf(t)
  BY <1>2, Apart DEF Ends, RequestOf
<1>8. ASSUME NEW r \in Requests, NEW c \in Credits(r)'
      PROVE  \/ c[1] = t /\ r = RequestOf(t) /\ c[2] >= tries[t] + 1
             \/ c \in Credits(r) /\ c[1] # t
  <2>1. /\ c \in Threads \X (1 .. MaxRetries) /\ RequestOf(c[1])' = r
        /\ waits'[c[1]] # NoJob /\ tries'[c[1]] <= c[2]
    BY DEF Credits, Threads
  <2>2. c[1] \in Threads /\ c[2] \in 1 .. MaxRetries
    BY <2>1
  <2>3. CASE c[1] = t
    <3>1. tries[t] + 1 <= c[2] /\ RequestOf(t)' = r
      BY <1>2, <2>1, <2>3
    <3>2. RequestOf(t) = r
      BY <1>5, <3>1
    <3>3. tries[t] \in Nat /\ c[2] \in Nat
      BY <1>0, <2>2, PoolAssumption
    <3>4. QED
      BY <2>3, <3>1, <3>2, <3>3
  <2>4. CASE c[1] # t
    <3>1. waits[c[1]] # NoJob /\ tries[c[1]] <= c[2]
      BY <1>2, <2>1, <2>2, <2>4
    <3>2. RequestOf(c[1]) = r
      BY <1>5, <2>1, <2>2, <3>1 DEF Shape, WaitsTrue
    <3>3. QED
      BY <2>1, <2>4, <3>1, <3>2 DEF Credits
  <2>5. QED
    BY <2>3, <2>4
<1>9. \A u \in Threads : checked[u] => RequestOf(u)' = RequestOf(u)
  <2>1. \A u \in Threads : checked[u] => Live(u)
    BY DEF Shape, CheckedTrue, Active, Live
  <2>2. QED
    BY <1>5, <2>1
<1>10. QED
  BY <1>1, <1>4, <1>6, <1>7, <1>8, <1>9

(* A request that has nothing in the pool and no handler submits nothing. *)
LEMMA SubmitLeaves ==
  ASSUME Shape, NothingLeftBehind, NEW t \in Threads, Live(t), RequestOf(t) \in Requests,
         handler' = handler, lapsed' \in [Requests -> Nat],
         \A r \in Requests : lapsed'[r] = 0 => lapsed[r] = 0,
         \A i \in Jobs : job'[i].req = job[i].req \/ job'[i].req \in {RequestOf(t), NoJob}
  PROVE  NothingLeftBehind'
<1>1. SUFFICES ASSUME NEW r \in Requests, handler'[r] # "running", lapsed'[r] = 0,
                      NEW i \in Jobs, job'[i].req = r
               PROVE  FALSE
  BY DEF NothingLeftBehind
<1>2. \A k \in Jobs : job[k].req # r
  BY <1>1 DEF NothingLeftBehind
<1>3. r = RequestOf(t)
  BY <1>1, <1>2, Apart
<1>4. QED
  BY <1>1, <1>2, <1>3, Apart DEF RequestOf, Live

LEMMA ReserveStep ==
  ASSUME ToolsInv, NEW t \in Threads, Reserve(t)
  PROVE  Shape' /\ Counts' /\ NothingLeftBehind'
<1>0. Shape /\ Counts /\ NothingLeftBehind /\ ToolsTypes
  BY DEF ToolsInv, Counts, Shape
<1>1. /\ Active(t) /\ checked[t] /\ Live(t) /\ todo[t] # <<>> /\ waits[t] = NoJob
      /\ calls' = [calls EXCEPT ![RequestOf(t)] = @ + 1]
      /\ checked' = [checked EXCEPT ![t] = FALSE]
      /\ Submit(t, job) /\ UNCHANGED <<handler, todo, lapsed>>
  BY <1>0 DEF Reserve, Active, Live, Shape, CheckedTrue
<1>2. Left(t, job) /\ tries[t] = 0
  BY <1>0, <1>1 DEF Left, ToolsTypes, Shape, WaitsTrue
<1>3. PICK j \in Jobs : SubmitsTo(t, job, j)
  BY <1>0, <1>1, <1>2, SubmitEffect
<1>4. /\ RequestOf(t) \in Requests
      /\ \A i \in Jobs : job'[i].req = job[i].req \/ job'[i].req \in {RequestOf(t), NoJob}
      /\ \A r \in Requests : \A u \in Ends(r)' :
           (u = j /\ r = RequestOf(t)) \/ (u \in Ends(r) /\ u # t)
      /\ \A r \in Requests : \A c \in Credits(r)' :
           \/ c[1] = t /\ r = RequestOf(t) /\ c[2] >= tries[t] + 1
           \/ c \in Credits(r) /\ c[1] # t
      /\ \A u \in Threads : checked[u] => RequestOf(u)' = RequestOf(u)
  BY <1>0, <1>1, <1>2, <1>3, SubmitSets
<1>5. /\ checked' \in [Threads -> BOOLEAN] /\ calls' \in [Requests -> Nat]
      /\ lapsed' \in [Requests -> Nat]
      /\ \A u \in Threads : checked'[u] => checked[u] /\ u # t
      /\ calls'[RequestOf(t)] = calls[RequestOf(t)] + 1
      /\ \A r \in Requests : r # RequestOf(t) => calls'[r] = calls[r]
  <2>1. calls[RequestOf(t)] + 1 \in Nat /\ calls \in [Requests -> Nat]
    BY <1>0, <1>4 DEF ToolsTypes
  <2>2. checked \in [Threads -> BOOLEAN] /\ lapsed \in [Requests -> Nat]
    BY <1>0 DEF ToolsTypes
  <2>3. checked' \in [Threads -> BOOLEAN] /\ \A u \in Threads : checked'[u] => checked[u] /\ u # t
    BY <1>1, <2>2
  <2>4. QED
    BY <1>1, <1>4, <2>1, <2>2, <2>3
<1>6. Shape'
  <2>1. tries[t] <= MaxRetries
    BY <1>2, PoolAssumption
  <2>2. QED
    BY <1>0, <1>1, <1>2, <1>3, <1>5, <2>1, SubmitShape
<1>7. NothingLeftBehind'
  BY <1>0, <1>1, <1>4, <1>5, SubmitLeaves
<1>8. /\ spent'[RequestOf(t)] = spent[RequestOf(t)] + 1
      /\ \A r \in Requests : r # RequestOf(t) => spent'[r] = spent[r]
  BY <1>0, <1>3, <1>4 DEF SubmitsTo, ToolsTypes
<1>9. ASSUME NEW r \in Requests PROVE Checked(r)' \subseteq Checked(r) \ {t}
  BY <1>4, <1>5 DEF Checked, Threads
<1>10. ASSUME NEW r \in Requests, r # RequestOf(t)
       PROVE  /\ Cardinality(Ends(r)') <= 1 + lapsed'[r]
              /\ calls'[r] + Cardinality(Checked(r)') <= MaxToolCalls + lapsed'[r]
              /\ spent'[r] + Cardinality(Credits(r)') <= calls'[r] * (1 + MaxRetries)
  <2>1. Ends(r)' \subseteq Ends(r) /\ Credits(r)' \subseteq Credits(r)
        /\ Checked(r)' \subseteq Checked(r)
    BY <1>4, <1>9, <1>10
  <2>2. QED
    BY <1>0, <1>1, <1>5, <1>8, <1>10, <2>1, CountsKept
<1>11. ASSUME NEW r \in Requests, r = RequestOf(t)
       PROVE  /\ Cardinality(Ends(r)') <= 1 + lapsed'[r]
              /\ calls'[r] + Cardinality(Checked(r)') <= MaxToolCalls + lapsed'[r]
              /\ spent'[r] + Cardinality(Credits(r)') <= calls'[r] * (1 + MaxRetries)
  <2>0. /\ calls[r] \in Nat /\ spent[r] \in Nat /\ lapsed[r] \in Nat
        /\ MaxToolCalls \in Nat /\ MaxRetries \in Nat
        /\ calls'[r] = calls[r] + 1 /\ spent'[r] = spent[r] + 1 /\ lapsed'[r] = lapsed[r]
    BY <1>0, <1>1, <1>5, <1>8, <1>11, PoolAssumption DEF ToolsTypes
  <2>1. Cardinality(Ends(r)') <= 1 + lapsed'[r]
    <3>1. t \in Ends(r)
      BY <1>1, <1>11 DEF Ends, Present, Live
    <3>2. Ends(r)' \subseteq (Ends(r) \ {t}) \cup {j}
      BY <1>4
    <3>3. QED
      BY <1>0, <1>1, <3>1, <3>2, EndsSwapped DEF Counts
  <2>2. calls'[r] + Cardinality(Checked(r)') <= MaxToolCalls + lapsed'[r]
    <3>1. t \in Checked(r)
      BY <1>1, <1>11 DEF Checked
    <3>2. /\ Cardinality(Checked(r)) \in Nat /\ Cardinality(Checked(r)') \in Nat
          /\ Cardinality(Checked(r)') <= Cardinality(Checked(r)) - 1
      BY <1>9, <3>1, CountedFinite, Loses
    <3>3. calls[r] + Cardinality(Checked(r)) <= MaxToolCalls + lapsed[r]
      BY <1>0 DEF Counts, CheckedBounded
    <3>4. QED
      BY <2>0, <3>2, <3>3
  <2>3. spent'[r] + Cardinality(Credits(r)') <= calls'[r] * (1 + MaxRetries)
    <3>1. /\ IsFiniteSet({t} \X (1 .. MaxRetries))
          /\ Cardinality({t} \X (1 .. MaxRetries)) = MaxRetries
      <4>1. /\ IsFiniteSet({t}) /\ Cardinality({t}) = 1
            /\ IsFiniteSet(1 .. MaxRetries) /\ Cardinality(1 .. MaxRetries) = MaxRetries
        <5>1. IsFiniteSet({t}) /\ Cardinality({t}) = 1
          BY FS_Singleton
        <5>2. /\ IsFiniteSet(1 .. MaxRetries)
              /\ Cardinality(1 .. MaxRetries) = IF 1 > MaxRetries THEN 0 ELSE MaxRetries - 1 + 1
          <6>1. 1 \in Int /\ MaxRetries \in Int
            BY <2>0
          <6>2. QED
            BY <6>1, FS_Interval
        <5>3. QED
          BY <2>0, <5>1, <5>2
      <4>2. /\ IsFiniteSet({t} \X (1 .. MaxRetries))
            /\ Cardinality({t} \X (1 .. MaxRetries)) = Cardinality({t}) * Cardinality(1 .. MaxRetries)
        BY <4>1, FS_Product
      <4>3. QED
        BY <2>0, <4>1, <4>2
    <3>2. Credits(r)' \subseteq Credits(r) \cup ({t} \X (1 .. MaxRetries))
      <4>1. Credits(r)' \subseteq Threads \X (1 .. MaxRetries)
        BY DEF Credits, Threads
      <4>2. QED
        BY <1>4, <4>1
    <3>3. /\ IsFiniteSet(Credits(r) \cup ({t} \X (1 .. MaxRetries)))
          /\ Cardinality(Credits(r) \cup ({t} \X (1 .. MaxRetries)))
               <= Cardinality(Credits(r)) + MaxRetries
          /\ Cardinality(Credits(r)) \in Nat
      <4>1. IsFiniteSet(Credits(r)) /\ IsFiniteSet(Credits(r) \cap ({t} \X (1 .. MaxRetries)))
        BY CountedFinite, FS_Intersection
      <4>2. Cardinality(Credits(r)) \in Nat /\ Cardinality(Credits(r) \cap ({t} \X (1 .. MaxRetries))) \in Nat
        BY <4>1, FS_CardinalityType
      <4>3. /\ IsFiniteSet(Credits(r) \cup ({t} \X (1 .. MaxRetries)))
            /\ Cardinality(Credits(r) \cup ({t} \X (1 .. MaxRetries)))
                 = Cardinality(Credits(r)) + Cardinality({t} \X (1 .. MaxRetries))
                   - Cardinality(Credits(r) \cap ({t} \X (1 .. MaxRetries)))
        BY <3>1, <4>1, FS_Union
      <4>4. QED
        BY <2>0, <3>1, <4>2, <4>3
    <3>4. /\ Cardinality(Credits(r)') \in Nat
          /\ Cardinality(Credits(r) \cup ({t} \X (1 .. MaxRetries))) \in Nat
          /\ Cardinality(Credits(r)') <= Cardinality(Credits(r) \cup ({t} \X (1 .. MaxRetries)))
      BY <3>2, <3>3, Shrinks
    <3>5. spent[r] + Cardinality(Credits(r)) <= calls[r] * (1 + MaxRetries)
      BY <1>0 DEF Counts, CreditsBounded
    <3>6. /\ (calls[r] + 1) * (1 + MaxRetries) = calls[r] * (1 + MaxRetries) + (1 + MaxRetries)
          /\ calls[r] * (1 + MaxRetries) \in Nat
      BY <2>0
    <3>7. QED
      BY <2>0, <3>3, <3>4, <3>5, <3>6
  <2>4. QED
    BY <2>1, <2>2, <2>3
<1>12. Counts'
  BY <1>10, <1>11 DEF Counts, EndsBounded, CheckedBounded, CreditsBounded
<1>13. QED
  BY <1>6, <1>7, <1>12

LEMMA RetriesStep ==
  ASSUME ToolsInv, NEW t \in Threads, NEW futures, Retries(t, futures)
  PROVE  Shape' /\ Counts' /\ NothingLeftBehind'
<1>0. Shape /\ Counts /\ NothingLeftBehind /\ ToolsTypes
  BY DEF ToolsInv, Counts, Shape
<1>1. /\ Gone(t, futures) /\ tries[t] <= MaxRetries /\ Submit(t, futures)
      /\ UNCHANGED <<handler, calls, todo, checked>> /\ waits[t] # NoJob
  BY DEF Retries, Gone
<1>2. /\ Left(t, futures) /\ waits[t] \in Jobs /\ Live(t) /\ todo[t] # <<>> /\ ~checked[t]
      /\ waits[waits[t]] = NoJob \/ futures = job
  BY <1>0, <1>1, GoneLeft
<1>3. /\ lapsed' \in [Requests -> Nat] /\ RequestOf(t) \in Requests
      /\ \A r \in Requests : r # RequestOf(t) => lapsed'[r] = lapsed[r]
      /\ futures = job => lapsed'[RequestOf(t)] = lapsed[RequestOf(t)] + 1
      /\ futures # job => lapsed' = lapsed
  BY <1>0, <1>1, GoneLapsed
<1>4. PICK j \in Jobs : SubmitsTo(t, futures, j)
  BY <1>0, <1>1, <1>2, SubmitEffect
<1>5. /\ \A i \in Jobs : job'[i].req = job[i].req \/ job'[i].req \in {RequestOf(t), NoJob}
      /\ \A r \in Requests : \A u \in Ends(r)' :
           \/ u = j /\ r = RequestOf(t)
           \/ u \in Ends(r) /\ u # t /\ (futures # job => u # waits[t])
      /\ \A r \in Requests : \A c \in Credits(r)' :
           \/ c[1] = t /\ r = RequestOf(t) /\ c[2] >= tries[t] + 1
           \/ c \in Credits(r) /\ c[1] # t
      /\ \A u \in Threads : checked[u] => RequestOf(u)' = RequestOf(u)
  BY <1>0, <1>1, <1>2, <1>4, SubmitSets
<1>6. Shape'
  <2>1. /\ calls' \in [Requests -> Nat] /\ checked' \in [Threads -> BOOLEAN]
        /\ \A u \in Threads : checked'[u] => checked[u] /\ u # t
    BY <1>0, <1>1, <1>2 DEF ToolsTypes
  <2>2. QED
    BY <1>0, <1>1, <1>2, <1>3, <1>4, <2>1, SubmitShape
<1>7. \A r \in Requests : lapsed[r] \in Nat /\ lapsed'[r] \in Nat /\ lapsed[r] <= lapsed'[r]
  BY <1>0, <1>1, GoneLapses
<1>8. NothingLeftBehind'
  BY <1>0, <1>1, <1>2, <1>3, <1>5, <1>7, SubmitLeaves
<1>9. /\ spent'[RequestOf(t)] = spent[RequestOf(t)] + 1
      /\ \A r \in Requests : r # RequestOf(t) => spent'[r] = spent[r]
  BY <1>0, <1>3, <1>4 DEF SubmitsTo, ToolsTypes
<1>10. ASSUME NEW r \in Requests PROVE Checked(r)' \subseteq Checked(r)
  BY <1>1, <1>5 DEF Checked, Threads
<1>11. ASSUME NEW r \in Requests, r # RequestOf(t)
       PROVE  /\ Cardinality(Ends(r)') <= 1 + lapsed'[r]
              /\ calls'[r] + Cardinality(Checked(r)') <= MaxToolCalls + lapsed'[r]
              /\ spent'[r] + Cardinality(Credits(r)') <= calls'[r] * (1 + MaxRetries)
  <2>1. Ends(r)' \subseteq Ends(r) /\ Credits(r)' \subseteq Credits(r)
    BY <1>5, <1>11
  <2>2. QED
    BY <1>0, <1>1, <1>3, <1>9, <1>10, <1>11, <2>1, CountsKept
<1>12. ASSUME NEW r \in Requests, r = RequestOf(t)
       PROVE  /\ Cardinality(Ends(r)') <= 1 + lapsed'[r]
              /\ calls'[r] + Cardinality(Checked(r)') <= MaxToolCalls + lapsed'[r]
              /\ spent'[r] + Cardinality(Credits(r)') <= calls'[r] * (1 + MaxRetries)
  <2>0. /\ calls[r] \in Nat /\ spent[r] \in Nat /\ MaxRetries \in Nat
        /\ calls'[r] = calls[r] /\ spent'[r] = spent[r] + 1
    BY <1>0, <1>1, <1>9, <1>12, PoolAssumption DEF ToolsTypes
  <2>1. Cardinality(Ends(r)') <= 1 + lapsed'[r]
    <3>1. CASE futures = job
      <4>1. Ends(r)' \subseteq Ends(r) \cup {j}
        BY <1>5
      <4>2. QED
        BY <1>0, <1>3, <1>12, <3>1, <4>1, EndsCut DEF Counts
    <3>2. CASE futures # job
      <4>1. Ends(r)' \subseteq (Ends(r) \ {waits[t]}) \cup {j}
        BY <1>5, <3>2
      <4>2. waits[t] \in Ends(r)
        BY <1>0, <1>1, <1>2, <1>12, <3>2, Apart DEF Ends, Present, RequestOf, Shape, WaitsTrue
      <4>3. QED
        BY <1>0, <1>3, <3>2, <4>1, <4>2, EndsSwapped DEF Counts
    <3>3. QED
      BY <3>1, <3>2
  <2>2. calls'[r] + Cardinality(Checked(r)') <= MaxToolCalls + lapsed'[r]
    BY <1>0, <1>1, <1>7, <1>10, CheckedKept DEF Counts
  <2>3. spent'[r] + Cardinality(Credits(r)') <= calls'[r] * (1 + MaxRetries)
    <3>1. tries[t] \in 1 .. MaxRetries
      BY <1>0, <1>1, PoolAssumption DEF ToolsTypes, Shape, WaitsTrue
    <3>2. <<t, tries[t]>> \in Credits(r)
      BY <1>1, <1>12, <3>1 DEF Credits
    <3>3. <<t, tries[t]>> \notin Credits(r)'
      BY <1>5, <3>1
    <3>4. Credits(r)' \subseteq Credits(r) \ {<<t, tries[t]>>}
      <4>1. ASSUME NEW c \in Credits(r)' PROVE c \in Credits(r)
        <5>1. CASE c[1] = t /\ c[2] >= tries[t] + 1
          <6>1. c \in Threads \X (1 .. MaxRetries)
            BY DEF Credits, Threads
          <6>2. c[2] \in 1 .. MaxRetries /\ tries[t] <= c[2]
            BY <3>1, <5>1, <6>1
          <6>3. QED
            BY <1>1, <1>12, <5>1, <6>1, <6>2 DEF Credits
        <5>2. QED
          BY <1>5, <5>1
      <4>2. QED
        BY <3>3, <4>1
    <3>5. /\ Cardinality(Credits(r)) \in Nat /\ Cardinality(Credits(r)') \in Nat
          /\ Cardinality(Credits(r)') <= Cardinality(Credits(r)) - 1
      BY <3>2, <3>4, CountedFinite, Loses
    <3>6. spent[r] + Cardinality(Credits(r)) <= calls[r] * (1 + MaxRetries)
      BY <1>0 DEF Counts, CreditsBounded
    <3>7. calls[r] * (1 + MaxRetries) \in Nat
      BY <2>0
    <3>8. QED
      BY <2>0, <3>5, <3>6, <3>7
  <2>4. QED
    BY <2>1, <2>2, <2>3
<1>13. Counts'
  BY <1>11, <1>12 DEF Counts, EndsBounded, CheckedBounded, CreditsBounded
<1>14. QED
  BY <1>6, <1>8, <1>13

(* The caller is an end again, in the place of the future it has forgotten  *)
(* or beside the one it has abandoned, unless it ends itself.               *)
LEMMA ReleasesStep ==
  ASSUME ToolsInv, NEW t \in Threads, NEW futures, Releases(t, futures),
         \/ handler' = handler
         \/ t \in Requests => handler'[t] # "running" /\ job' = futures
  PROVE  Shape' /\ Counts' /\ NothingLeftBehind'
<1>0. Shape /\ Counts /\ NothingLeftBehind /\ ToolsTypes
  BY DEF ToolsInv, Counts, Shape
<1>1. /\ Gone(t, futures) /\ waits[t] # NoJob
      /\ UNCHANGED <<calls, queue, checked, spent>>
  BY DEF Releases, Gone
<1>2. /\ Left(t, futures) /\ waits[t] \in Jobs /\ Live(t) /\ ~checked[t] /\ waits[t] # t
      /\ waits[waits[t]] = NoJob \/ futures = job
  BY <1>0, <1>1, GoneLeft
<1>3. /\ lapsed' \in [Requests -> Nat] /\ RequestOf(t) \in Requests
      /\ \A r \in Requests : r # RequestOf(t) => lapsed'[r] = lapsed[r]
      /\ futures = job => lapsed'[RequestOf(t)] = lapsed[RequestOf(t)] + 1
      /\ futures # job =>
           /\ lapsed' = lapsed /\ futures = [job EXCEPT ![waits[t]] = Free]
           /\ job[waits[t]].state \in Resolved
  BY <1>0, <1>1, GoneLapsed
<1>4. \A r \in Requests : lapsed[r] \in Nat /\ lapsed'[r] \in Nat /\ lapsed[r] <= lapsed'[r]
  BY <1>0, <1>1, GoneLapses
<1>5. Shape'
  BY <1>0, ReleasesShape
<1>6. /\ waits'[t] = NoJob /\ tries'[t] = 0
      /\ \A u \in Threads : u # t => waits'[u] = waits[u] /\ tries'[u] = tries[u]
  BY <1>0 DEF Releases, ToolsTypes
<1>7. /\ \A u \in Requests : u # t => handler'[u] = handler[u]
      /\ \A i \in Jobs : i # t =>
           /\ job'[i] = futures[i]
           /\ job'[i] = job[i] \/ (i = waits[t] /\ job'[i] = Free)
      /\ t \in Jobs => job'[t].req = job[t].req \/ job'[t] = Free
  BY <1>2 DEF Releases, Left
<1>8. \A u \in Threads : Present(u)' => RequestOf(u)' = RequestOf(u) /\ Present(u)
  <2>1. Present(t)
    BY <1>2 DEF Live, Present
  <2>2. ASSUME NEW u \in Threads, Present(u)', u # t
        PROVE  RequestOf(u)' = RequestOf(u) /\ Present(u)
    BY <1>7, <2>2, FreeFacts, Apart DEF Present, RequestOf
  <2>3. Present(t)' => RequestOf(t)' = RequestOf(t)
    BY <1>7, FreeFacts, Apart DEF Present, RequestOf
  <2>4. QED
    BY <2>1, <2>2, <2>3
<1>9. ASSUME NEW r \in Requests, NEW u \in Ends(r)'
      PROVE  \/ u = t /\ r = RequestOf(t)
             \/ u \in Ends(r) /\ (futures # job => u # waits[t])
  <2>1. u \in Threads /\ RequestOf(u)' = r /\ Present(u)' /\ waits'[u] = NoJob
    BY DEF Ends, Threads
  <2>2. RequestOf(u) = r /\ Present(u)
    BY <1>8, <2>1
  <2>3. CASE u = t
    BY <2>2, <2>3
  <2>4. CASE u # t
    <3>1. u \in Ends(r)
      BY <1>6, <2>1, <2>2, <2>4 DEF Ends
    <3>2. ASSUME futures # job, u = waits[t] PROVE FALSE
      <4>1. job'[u] = Free
        BY <1>0, <1>2, <1>3, <1>7, <2>4, <3>2 DEF ToolsTypes
      <4>2. QED
        BY <1>2, <2>1, <3>2, <4>1, FreeFacts, Apart DEF Present
    <3>3. QED
      BY <3>1, <3>2
  <2>5. QED
    BY <2>3, <2>4
<1>10. \A u \in Threads : Live(u) /\ u # t => RequestOf(u)' = RequestOf(u)
  BY <1>2, <1>3, <1>7, FreeFacts, Apart DEF Live, RequestOf, Left, Releases
<1>11. ASSUME NEW r \in Requests
       PROVE  Checked(r)' \subseteq Checked(r) /\ Credits(r)' \subseteq Credits(r)
  <2>1. \A u \in Threads : checked[u] => u # t /\ Live(u)
    BY <1>0, <1>2 DEF Shape, CheckedTrue, Active, Live
  <2>2. \A u \in Threads : waits[u] # NoJob => Live(u)
    BY <1>0 DEF Shape, WaitsTrue
  <2>3. Checked(r)' \subseteq Checked(r)
    BY <1>1, <1>10, <2>1 DEF Checked, Threads
  <2>4. ASSUME NEW c \in Credits(r)' PROVE c \in Credits(r)
    <3>1. /\ c \in Threads \X (1 .. MaxRetries) /\ RequestOf(c[1])' = r
          /\ waits'[c[1]] # NoJob /\ tries'[c[1]] <= c[2]
      BY DEF Credits, Threads
    <3>2. c[1] \in Threads /\ c[1] # t
      BY <1>6, <3>1
    <3>3. waits[c[1]] # NoJob /\ tries[c[1]] <= c[2]
      BY <1>6, <3>1, <3>2
    <3>4. RequestOf(c[1]) = r
      BY <1>10, <2>2, <3>1, <3>2, <3>3
    <3>5. QED
      BY <3>1, <3>3, <3>4 DEF Credits
  <2>5. QED
    BY <2>3, <2>4
<1>12. ASSUME NEW r \in Requests PROVE Cardinality(Ends(r)') <= 1 + lapsed'[r]
  <2>1. CASE r # RequestOf(t)
    <3>1. Ends(r)' \subseteq Ends(r)
      BY <1>9, <2>1
    <3>2. calls'[r] = calls[r] /\ spent'[r] = spent[r] /\ lapsed'[r] = lapsed[r]
      BY <1>1, <1>3, <2>1
    <3>3. QED
      BY <1>0, <1>11, <3>1, <3>2, CountsKept
  <2>2. CASE r = RequestOf(t) /\ futures = job
    <3>1. Ends(r)' \subseteq Ends(r) \cup {t}
      BY <1>9
    <3>2. QED
      BY <1>0, <1>3, <2>2, <3>1, EndsCut DEF Counts
  <2>3. CASE r = RequestOf(t) /\ futures # job
    <3>1. Ends(r)' \subseteq (Ends(r) \ {waits[t]}) \cup {t}
      BY <1>9, <2>3
    <3>2. waits[t] \in Ends(r)
      BY <1>0, <1>1, <1>2, <2>3, Apart DEF Ends, Present, RequestOf, Shape, WaitsTrue
    <3>3. lapsed'[r] = lapsed[r]
      BY <1>3, <2>3
    <3>4. QED
      BY <1>0, <3>1, <3>2, <3>3, EndsSwapped DEF Counts
  <2>4. QED
    BY <2>1, <2>2, <2>3
<1>13. Counts'
  <2>1. ASSUME NEW r \in Requests
        PROVE  /\ calls'[r] + Cardinality(Checked(r)') <= MaxToolCalls + lapsed'[r]
               /\ spent'[r] + Cardinality(Credits(r)') <= calls'[r] * (1 + MaxRetries)
    BY <1>0, <1>1, <1>4, <1>11, CheckedKept, CreditsKept DEF Counts
  <2>2. QED
    BY <1>12, <2>1 DEF Counts, EndsBounded, CheckedBounded, CreditsBounded
<1>14. NothingLeftBehind'
  <2>1. SUFFICES ASSUME NEW r \in Requests, handler'[r] # "running", lapsed'[r] = 0,
                        NEW i \in Jobs, job'[i].req = r
                 PROVE  FALSE
    BY DEF NothingLeftBehind
  <2>2. job[i].req = r /\ lapsed[r] = 0
    BY <1>4, <1>7, <2>1, FreeFacts, Apart
  <2>3. handler[r] = "running" /\ r = t
    BY <1>0, <1>7, <2>1, <2>2 DEF NothingLeftBehind
  <2>4. futures # job /\ job' = futures
    <3>1. RequestOf(t) = t
      BY <2>3 DEF RequestOf
    <3>2. futures # job
      BY <1>3, <2>1, <2>2, <2>3, <3>1
    <3>3. QED
      BY <2>1, <2>3, <3>2
  <2>5. i # waits[t]
    <3>1. futures[waits[t]] = Free
      BY <1>0, <1>2, <1>3, <2>4 DEF ToolsTypes
    <3>2. QED
      BY <2>1, <2>4, <3>1, FreeFacts
  <2>6. PICK e \in Jobs : e \in Ends(r) /\ (e = i \/ waits[i] = e)
    BY <1>0, <2>2, EndBelow
  <2>7. waits[t] \in Ends(r)
    BY <1>0, <1>1, <1>2, <2>3, <2>4, Apart DEF Ends, Present, RequestOf, Shape, WaitsTrue
  <2>8. Cardinality(Ends(r)) <= 1
    BY <1>0, <2>2 DEF Counts, EndsBounded
  <2>9. e = waits[t]
    BY <2>6, <2>7, <2>8, CountedFinite, OneElement
  <2>10. waits[i] = waits[t] /\ i \in Threads
    BY <2>5, <2>6, <2>9, Apart
  <2>11. i = t
    BY <1>0, <1>1, <2>10 DEF Shape, WaitsApart
  <2>12. QED
    BY <2>3, <2>11, Apart
<1>15. QED
  BY <1>5, <1>13, <1>14

-----------------------------------------------------------------------------
(* The theorem *)

LEMMA ToolsInit == Init => ToolsInv
<1>1. SUFFICES ASSUME Init PROVE ToolsInv
  OBVIOUS
<1>2. /\ handler = [r \in Requests |-> "running"] /\ calls = [r \in Requests |-> 0]
      /\ job = [j \in Jobs |-> Free] /\ queue = <<>>
      /\ checked = [t \in Threads |-> FALSE] /\ waits = [t \in Threads |-> NoJob]
      /\ tries = [t \in Threads |-> 0] /\ spent = [r \in Requests |-> 0]
      /\ lapsed = [r \in Requests |-> 0]
  BY <1>1 DEF Init
<1>3. /\ todo \in [Threads -> Seq(Tools)]
      /\ \A j \in Jobs : todo[j] = <<>>
  <2>1. PICK f : /\ \A r \in Requests : \E a \in AgentsOf[r] : f[r] \in Programs(a)
                 /\ todo = [t \in Threads |-> IF t \in Requests THEN f[t] ELSE <<>>]
    BY <1>1 DEF Init
  <2>2. \A r \in Requests : f[r] \in Seq(Tools)
    <3>1. \A r \in Requests : AgentsOf[r] \subseteq AgentKeys
      BY PoolAssumption
    <3>2. QED
      BY <2>1, <3>1, ProgramsType
  <2>3. <<>> \in Seq(Tools)
    BY EmptySeq
  <2>4. QED
    BY <2>1, <2>2, <2>3, Apart
<1>4. ToolsTypes
  <2>1. 0 \in 0 .. MaxRetries + 1
    BY PoolAssumption
  <2>2. <<>> \in Seq(Jobs)
    BY EmptySeq
  <2>3. QED
    BY <1>2, <1>3, <2>1, <2>2, FreeFacts DEF ToolsTypes
<1>5. PoolTrue /\ NestingTrue
  <2>1. \A j \in Jobs : job[j] = Free
    BY <1>2
  <2>2. Len(queue) = 0 /\ <<>> \in Seq(LeafTools)
    BY <1>2, EmptySeq
  <2>3. NestingTrue
    BY <1>3, <2>2 DEF NestingTrue
  <2>4. \A i \in 1 .. Len(queue) : FALSE
    BY <2>2
  <2>5. PoolTrue
    BY <2>1, <2>4, FreeFacts DEF PoolTrue
  <2>6. QED
    BY <2>3, <2>5
<1>6. WaitsTrue /\ WaitsApart /\ CheckedTrue
  BY <1>2 DEF WaitsTrue, WaitsApart, CheckedTrue
<1>7. NothingLeftBehind
  BY <1>2, FreeFacts DEF NothingLeftBehind
<1>8. ASSUME NEW r \in Requests
      PROVE  /\ Cardinality(Ends(r)) <= 1 + lapsed[r]
             /\ calls[r] + Cardinality(Checked(r)) <= MaxToolCalls + lapsed[r]
             /\ spent[r] + Cardinality(Credits(r)) <= calls[r] * (1 + MaxRetries)
  <2>1. calls[r] = 0 /\ spent[r] = 0 /\ lapsed[r] = 0 /\ MaxToolCalls \in Nat /\ MaxRetries \in Nat
    BY <1>2, PoolAssumption
  <2>2. Ends(r) \subseteq {r}
    BY <1>2, FreeFacts, Apart DEF Ends, RequestOf, Present
  <2>3. Checked(r) = {}
    BY <1>2 DEF Checked
  <2>4. Credits(r) = {}
    <3>1. \A c \in Threads \X (1 .. MaxRetries) : waits[c[1]] = NoJob
      BY <1>2
    <3>2. QED
      BY <3>1 DEF Credits
  <2>5. Cardinality({}) = 0
    BY FS_EmptySet
  <2>6. Cardinality(Ends(r)) <= 1 /\ Cardinality(Ends(r)) \in Nat
    <3>1. IsFiniteSet({r}) /\ Cardinality({r}) = 1
      BY FS_Singleton
    <3>2. QED
      BY <2>2, <3>1, Shrinks
  <2>7. 0 * (1 + MaxRetries) = 0
    BY <2>1
  <2>8. QED
    BY <2>1, <2>3, <2>4, <2>5, <2>6, <2>7
<1>9. QED
  BY <1>4, <1>5, <1>6, <1>7, <1>8
     DEF ToolsInv, Shape, EndsBounded, CheckedBounded, CreditsBounded

LEMMA ToolsStep == ToolsInv /\ [Next]_vars => ToolsInv'
<1>1. SUFFICES ASSUME ToolsInv, [Next]_vars PROVE Shape' /\ Counts' /\ NothingLeftBehind'
  BY DEF ToolsInv, Counts
<1>0. Shape
  BY <1>1 DEF ToolsInv
<1>2. CASE Start
  BY <1>0, <1>1, <1>2, StartShape, StartCounts
<1>3. ASSUME NEW t \in Threads, Stops(t)
      PROVE  Shape' /\ Counts' /\ NothingLeftBehind'
  BY <1>0, <1>1, <1>3, StopsShape, StopsCounts
<1>4. ASSUME NEW j \in Jobs, NEW o \in {"ok", "transient", "permanent"}, Finish(j, o)
      PROVE  Shape' /\ Counts' /\ NothingLeftBehind'
  <2>1. j \in Threads /\ Stops(j)
    BY <1>0, <1>4, FinishStops, Apart
  <2>2. QED
    BY <1>3, <2>1
<1>5. ASSUME NEW t \in Threads, Step(t) \/ Refuse(t)
      PROVE  Shape' /\ Counts' /\ NothingLeftBehind'
  <2>1. \/ Stops(t) \/ Passes(t) \/ Reserve(t) \/ Return(t)
        \/ \E futures : Retries(t, futures) \/ GivesUp(t, futures)
    BY <1>0, <1>5, ThreadSteps
  <2>2. CASE Passes(t)
    BY <1>0, <1>1, <2>2, PassesShape, PassesCounts
  <2>3. CASE Reserve(t)
    BY <1>1, <2>3, ReserveStep
  <2>4. CASE Return(t)
    BY <1>0, <1>1, <2>4, ReturnReleases, ReleasesStep
  <2>5. ASSUME NEW futures, Retries(t, futures)
        PROVE  Shape' /\ Counts' /\ NothingLeftBehind'
    BY <1>1, <2>5, RetriesStep
  <2>6. ASSUME NEW futures, GivesUp(t, futures)
        PROVE  Shape' /\ Counts' /\ NothingLeftBehind'
    BY <1>0, <1>1, <2>6, GivesUpReleases, ReleasesStep
  <2>7. QED
    BY <1>3, <2>1, <2>2, <2>3, <2>4, <2>5, <2>6
<1>6. CASE UNCHANGED vars
  <2>1. Shape'
    <3>1. ToolsTypes'
      BY <1>0, <1>6 DEF vars, Shape, ToolsTypes
    <3>2. PoolTrue' /\ NestingTrue' /\ WaitsApart'
      BY <1>0, <1>6 DEF vars, Shape, PoolTrue, NestingTrue, WaitsApart
    <3>3. WaitsTrue' /\ CheckedTrue'
      BY <1>0, <1>6 DEF vars, Shape, WaitsTrue, CheckedTrue, Active, Live, RequestOf
    <3>4. QED
      BY <3>1, <3>2, <3>3 DEF Shape
  <2>2. \A r : Ends(r)' = Ends(r) /\ Checked(r)' = Checked(r) /\ Credits(r)' = Credits(r)
    BY <1>6 DEF vars, Ends, Checked, Credits, Present, RequestOf, Threads
  <2>3. Counts' /\ NothingLeftBehind'
    BY <1>1, <1>6, <2>2 DEF vars, ToolsInv, Counts, EndsBounded, CheckedBounded,
                            CreditsBounded, NothingLeftBehind
  <2>4. QED
    BY <2>1, <2>3
<1>7. QED
  BY <1>1, <1>2, <1>4, <1>5, <1>6 DEF Next

LEMMA ToolsInvBounded == ToolsInv => ToolsBounded
<1>1. SUFFICES ASSUME ToolsInv PROVE ToolsBounded
  OBVIOUS
<1>2. TypeOK
  BY <1>1, FreeFacts DEF ToolsInv, Shape, ToolsTypes, PoolTrue, TypeOK, Futures, Resolved
<1>3. ASSUME NEW r \in Requests
      PROVE  calls[r] <= MaxToolCalls + lapsed[r] /\ spent[r] <= calls[r] * (1 + MaxRetries)
  <2>1. /\ calls[r] \in Nat /\ spent[r] \in Nat /\ lapsed[r] \in Nat
        /\ MaxToolCalls \in Nat /\ MaxRetries \in Nat
    BY <1>1, PoolAssumption DEF ToolsInv, Shape, ToolsTypes
  <2>2. Cardinality(Checked(r)) \in Nat /\ Cardinality(Credits(r)) \in Nat
    BY CountedFinite, FS_CardinalityType
  <2>3. /\ calls[r] + Cardinality(Checked(r)) <= MaxToolCalls + lapsed[r]
        /\ spent[r] + Cardinality(Credits(r)) <= calls[r] * (1 + MaxRetries)
        /\ calls[r] * (1 + MaxRetries) \in Nat
    BY <1>1, <2>1 DEF ToolsInv, CheckedBounded, CreditsBounded
  <2>4. QED
    BY <2>1, <2>2, <2>3
<1>4. QED
  BY <1>1, <1>2, <1>3 DEF ToolsInv, ToolsBounded, CallsLimited, WorkBounded

(* tools.ToolRegistry, for any number of requests, workers, retries, nested  *)
(* tools and lapsed deadlines: a request reserves no more calls than its     *)
(* limit and the deadlines it has seen lapse, the functions it runs are      *)
(* bounded by them, and without a lapsed deadline it leaves nothing behind.  *)
THEOREM ToolsBoundedHolds == Spec => []ToolsBounded
<1>1. Init => ToolsInv
  BY ToolsInit
<1>2. ToolsInv /\ [Next]_vars => ToolsInv'
  BY ToolsStep
<1>3. ToolsInv => ToolsBounded
  BY ToolsInvBounded
<1>4. QED
  BY <1>1, <1>2, <1>3, PTL DEF Spec
=============================================================================
