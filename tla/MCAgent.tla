------------------------------- MODULE MCAgent -------------------------------
(* TLC instance of the agent API: its tool calls, its governed reads, its    *)
(* plans and its publications.  They share nothing these modules tell apart, *)
(* so a behaviour exercises one of them; the others stay as they start, or   *)
(* are left out.                                                             *)
EXTENDS AgentTools, AgentGovernance, AgentPlans, BiPublication, TLC

CONSTANTS r1, r2, q1, s1, s2, a1, l1, l2, p1, p2

VARIABLE part

-----------------------------------------------------------------------------
(* Tools: a request that runs rules, whose tools call tools, and one that    *)
(* only calls tools in sequence.                                             *)
MCRequests == {r1, r2}
MCAgentsOf == (r1 :> {"data_quality"}) @@ (r2 :> {"data_discovery"})

(* On a single worker no tool can call another with success; on two workers *)
(* it can, up to the limit of its request.                                  *)
W == INSTANCE AgentTools WITH PoolSize <- 2

-----------------------------------------------------------------------------
(* Governance: an investigator who also administers, and an analyst, who     *)
(* makes the requests, in the name of either.                                *)
(* Requests meet only in the registry: one is enough.                        *)
MCBindings ==
  (s1 :> {"investigator", "governance_administrator"}) @@ (s2 :> {"programme_analyst"})

Named(name, level) == [name |-> name, level |-> level]

(* An expression of the outermost SELECT, and one of a subquery. *)
Column(label, columns) == [label |-> label, columns |-> columns, answer |-> label]
Inner(label, columns) == [Column(label, columns) EXCEPT !.answer = None]

AllCapabilities ==
  {"can_discover_metadata", "can_execute_read_queries", "can_build_visualizations",
   "can_build_dashboards", "can_run_data_quality_checks", "can_generate_insights"}

Base ==
  [subject |-> s1, caller |-> s2, claims |-> {"investigator"}, context |-> "given",
   agent |-> "analytics", permissions |-> AllCapabilities, action |-> "read",
   purposeKnown |-> TRUE, area |-> "own", approval |-> a1, valid |-> TRUE,
   datasets |-> {Named("beneficiaries", "RESTRICTED")}, star |-> FALSE,
   projection |-> << Column(l1, <<"beneficiary_name">>) >>]

Both == {"investigator", "governance_administrator"}

(* Every projection of two fields by every claim, dataset, reference and area, ... *)
Reads ==
  { [Base EXCEPT !.subject = s, !.claims = c, !.datasets = {d}, !.approval = a,
                 !.projection = << Column(l1, <<f>>), Column(l2, <<g>>) >>, !.area = area] :
      s \in {s1, s2}, c \in {{"investigator"}, Both \cup {"programme_analyst"}},
      d \in {Named("loans", "INTERNAL"), Named("beneficiaries", "RESTRICTED")},
      a \in {a1, None}, area \in {"own", "other_district"},
      f \in {"beneficiary_name", "account_identifier"},
      g \in {"national_identifier", "creditor_identity", "other"} }

(* ... expressions of two columns and of none, a label of two SELECTs, and   *)
(* one that is answered under another name, ...                              *)
Composed ==
  { [Base EXCEPT !.claims = Both, !.projection = p] :
      p \in { << Column(l1, <<"other", "beneficiary_name">>), Column(l2, <<"phone_number">>) >>,
             << Column(l1, <<"national_identifier">>), Inner(l1, <<"other">>), Column(l2, <<>>) >>,
             << Inner(l1, <<"other">>), Column(l1, <<"phone_number">>) >>,
             << [Column(l1, <<"creditor_identity">>) EXCEPT !.answer = l2] >> } }

(* ... and the requests that end early. *)
Early ==
  { [Base EXCEPT !.caller = None], [Base EXCEPT !.valid = FALSE],
    [Base EXCEPT !.agent = "none"], [Base EXCEPT !.agent = "data_discovery"],
    [Base EXCEPT !.agent = "governance", !.claims = Both],
    [Base EXCEPT !.purposeKnown = FALSE], [Base EXCEPT !.star = TRUE],
    [Base EXCEPT !.datasets = {}],
    [Base EXCEPT !.datasets = {Named("unknown", "none")}],
    [Base EXCEPT !.datasets = {Named("loans", "INTERNAL"),
                               Named("beneficiaries", "RESTRICTED")}] }
  \cup { [Base EXCEPT !.agent = a, !.context = c, !.permissions = p] :
           a \in {"data_discovery", "analytics", "visualization", "dashboard",
                  "data_quality", "insight"},
           c \in {"given", "missing", "malformed"},
           p \in {AllCapabilities, {"can_discover_metadata"}} }

Approval(dataset, answer) ==
  [subject |-> s1, action |-> "read", dataset |-> dataset, status |-> answer]

MCRecords ==
  {Approval("beneficiaries", "approved"), Approval("beneficiaries", "denied"),
   Approval("loans", "approved")}

MCInputs == Reads \cup Composed \cup Early
MCReads == {q1}
MCLabels == {l1, l2}
MCSubjects == {s1, s2}
MCApprovals == {a1}

-----------------------------------------------------------------------------
(* Plans: every dependency relation over three steps, malformed lists of     *)
(* ids, chains longer than the depth, and what the planner itself makes.     *)
Three == {1, 2, 3}

MCPlans ==
  { [ids |-> <<1, 2, 3>>, known |-> TRUE,
     deps |-> [id \in Three |-> SelectSeq(<<1, 2, 3>>, LAMBDA d : d \in f[id])]] :
      f \in [Three -> SUBSET Three] }
  \cup
  { [ids |-> ids, known |-> known, deps |-> [id \in 1 .. 5 |-> IF id = 1 THEN <<>> ELSE <<id - 1>>]] :
      ids \in {<<1, 2, 3, 4>>, <<4, 3, 2, 1>>, <<1, 1, 2>>, <<2, 3>>, <<1, 2, 3, 4, 5>>},
      known \in BOOLEAN }

MCHandlerCalls == {0, 2}

-----------------------------------------------------------------------------
(* Publications: recommend_visualizations gives the charts of all objectives *)
(* the same ids and two of them the same titles: two dashboards share one.   *)
(* b1 and b2 are not of the builders: b1 takes the slug of a suite, gives    *)
(* one source id two datasets and one id two titles; b2 repeats a chart of   *)
(* d1's slug with a layout that names one it does not have.                  *)
(* Two publications overlap, or one and the job of an operator.              *)
Chart(name, src) == [id |-> name, name |-> name, sid |-> src, src |-> src]

MCVisuals ==
  ("d1" :> << Chart("kpi", "risk"), Chart("rank1", "risk") >>)
    @@ ("d2" :> << Chart("kpi", "trend") >>)
    @@ ("d3" :> << Chart("kpi", "trend"), Chart("people", "insights") >>)
    @@ ("b1" :> << [Chart("x", "insights") EXCEPT !.sid = "ds"],
                   [Chart("x", "risk") EXCEPT !.sid = "ds", !.name = "y"] >>)
    @@ ("b2" :> << Chart("rank1", "trend") >>)

MCLayout ==
  ("d1" :> <<"kpi", "rank1">>) @@ ("d2" :> <<"kpi">>) @@ ("d3" :> <<"kpi", "people">>)
    @@ ("b1" :> <<"x">>) @@ ("b2" :> <<"rank1", "kpi">>)

MCSlugOf == ("b1" :> "ops") @@ ("b2" :> "d1") @@ [d \in {"d1", "d2", "d3"} |-> d]
MCBuilt == {"d1", "d2", "d3"}

MCPublications == {p1, p2}
MCDashboards == DOMAIN MCVisuals
MCSuites == {"ops"}
MCSuiteVisuals == "ops" :> << [name |-> "payments", src |-> "trend"] >>
MCOperators == {"none", "suite", "register", "provision"}
MCStanding == ("risk" :> "approved") @@ ("trend" :> "approved") @@ ("insights" :> "identity")
MCGranted == {<<"Database", "read">>, <<"Dataset", "write">>}

-----------------------------------------------------------------------------
(* The requests of R are made, the others have been answered. *)
ToolsFor(R) ==
  /\ handler = [r \in Requests |-> IF r \in R THEN "running" ELSE "completed"]
  /\ \E f \in [R -> DataQuality] :
       todo = [t \in Threads |-> IF t \in R THEN f[t] ELSE <<>>]
  /\ calls = [r \in Requests |-> 0] /\ job = [j \in Jobs |-> Free] /\ queue = <<>>
  /\ checked = [t \in Threads |-> FALSE]
  /\ waits = [t \in Threads |-> NoJob] /\ tries = [t \in Threads |-> 0]
  /\ spent = [r \in Requests |-> 0] /\ lapsed = [r \in Requests |-> 0]

ToolsOff == ToolsFor({})

(* No plan in particular, before it is checked. *)
PlansOff == PlanInit /\ plan = Planned(<<"knowledge">>)

PublicationsOff == BiInit /\ connection = "none" /\ operator = "none"

MCInit ==
  \/ part = "tools" /\ Init /\ GovernanceInit /\ PlansOff /\ PublicationsOff
  \/ part = "wide" /\ ToolsFor({r1}) /\ GovernanceInit /\ PlansOff /\ PublicationsOff
  \/ part = "governance" /\ GovernanceInit /\ ToolsOff /\ PlansOff /\ PublicationsOff
  \/ part = "plans" /\ PlanInit /\ ToolsOff /\ GovernanceInit /\ PublicationsOff
  \/ part = "publications" /\ BiInit /\ ToolsOff /\ GovernanceInit /\ PlansOff

MCNext ==
  \/ part = "tools" /\ Next /\ UNCHANGED <<part, governanceVars, planVars, biVars>>
  \/ part = "wide" /\ W!Next /\ UNCHANGED <<part, governanceVars, planVars, biVars>>
  \/ part = "governance" /\ GovernanceNext /\ UNCHANGED <<part, vars, planVars, biVars>>
  \/ part = "plans" /\ PlanNext /\ UNCHANGED <<part, vars, governanceVars, biVars>>
  \/ /\ part = "publications" /\ BiNext /\ UNCHANGED <<part, vars, governanceVars, planVars>>
     /\ operator # "none" => pub'[p2] = pub[p2]

(* What each module assumes of its own steps. *)
MCFairSpec ==
  /\ MCInit /\ [][MCNext]_<<part, vars, governanceVars, planVars, biVars>>
  /\ \A t \in Threads : WF_vars((part = "tools" /\ Step(t)) \/ (part = "wide" /\ W!Step(t)))
  /\ WF_governanceVars(part = "governance" /\ QueryStep(q1))
  /\ WF_planVars(part = "plans" /\ PlanNext)
  /\ \A p \in MCPublications : WF_biVars(part = "publications" /\ Publish(p))

-----------------------------------------------------------------------------
(* Every request is answered: the tools' although the pool may wait for      *)
(* itself, the governed ones', every plan's and every publication's.         *)
AnswersCome ==
  /\ RequestEnds
  /\ (part = "governance" /\ stage[q1] = "received")
       ~> (part = "governance" /\ stage[q1] \in Final)
  /\ <>(part # "plans" \/ phase = "done")
  /\ PublicationEnds
=============================================================================
