--------------------------- MODULE AgentGovernance ---------------------------
(* A governed read of the agent API: the caller is authenticated, the roles  *)
(* the request claims are cut down to those the server binds to the subject  *)
(* the request names, the query is classified by the platform's metadata,    *)
(* the policy decides, the decision is audited, and only then is the query   *)
(* run and its rows masked.  The caller the token verifies and the subject   *)
(* of the body are two things: nothing compares them.  Requests run in       *)
(* parallel with each other and with changes of the approval registry.       *)
EXTENDS Naturals, Sequences, FiniteSets, TLC

CONSTANTS
  Queries,
  Inputs,       \* what a request may carry (records, see Input)
  Labels,       \* of the columns of a query
  Subjects,
  Bindings,     \* load_role_bindings: [Subjects -> SUBSET roles]
  Approvals,    \* approval ids
  Records,      \* approval records that may be entered
  AuthEnabled,  \* settings.auth_enabled
  None

(* ROLE_PERMISSIONS *)
RolePermissions ==
  LET read == {"can_discover_metadata", "can_run_read_queries"}
      internal == {"can_view_internal_data"}
      confidential == internal \cup {"can_view_confidential_data"}
      restricted == confidential \cup {"can_view_restricted_data"}
  IN [ public_viewer     |-> {"can_discover_metadata"},
       parish_officer    |-> read \cup {"can_generate_insights"},
       district_officer  |-> read \cup {"can_run_data_quality_checks",
                                        "can_generate_insights"},
       programme_analyst |-> read \cup internal \cup
         {"can_build_data_sources", "can_build_visualizations",
          "can_build_dashboards", "can_generate_insights",
          "can_run_data_quality_checks"},
       auditor           |-> read \cup confidential \cup
         {"can_run_data_quality_checks", "can_view_data_quality_samples",
          "can_generate_insights", "can_view_governance_evidence"},
       investigator      |-> read \cup restricted \cup
         {"can_run_data_quality_checks", "can_view_data_quality_samples",
          "can_generate_insights", "can_view_beneficiary_data",
          "can_request_sensitive_access", "can_view_governance_evidence"},
       platform_operator |-> {"can_discover_metadata",
                              "can_view_governance_evidence"} \cup internal,
       governance_administrator |-> restricted \cup
         {"can_discover_metadata", "can_view_beneficiary_data",
          "can_view_beneficiary_identity", "can_view_sensitive_payment_data",
          "can_manage_governance_policies", "can_view_governance_evidence",
          "can_approve_sensitive_access"},
       bi_publisher      |-> read \cup restricted \cup
         {"can_build_visualizations", "can_build_dashboards",
          "can_publish_bi_assets", "can_view_governance_evidence"} ]

Roles == DOMAIN RolePermissions

(* capabilities_for_roles and GovernancePolicyEngine.effective_permissions: *)
(* what a caller states as its permissions is not looked at.                *)
Permissions(roles) == UNION {RolePermissions[r] : r \in roles \cap Roles}

(* DEFAULT_AGENT_CAPABILITIES: what the server gives to any request. *)
Ceiling == {"can_discover_metadata", "can_execute_read_queries",
            "can_build_visualizations", "can_build_dashboards",
            "can_run_data_quality_checks", "can_generate_insights"}

(* agent_capabilities_for_roles: one permission has another name here. *)
AgentCapabilities(perms) ==
  perms \cup (IF "can_run_read_queries" \in perms THEN {"can_execute_read_queries"} ELSE {})

Agents == {"data_discovery", "analytics", "visualization", "dashboard",
           "data_quality", "insight"}

(* GOVERNED_DATA_AGENTS *)
Governed == Agents \ {"data_discovery"}

(* What the agents ask of the permissions before they read data, and what   *)
(* the agents they call ask.                                                *)
DiscoveryNeeds == {"can_discover_metadata"}
AnalyticsNeeds == {"can_execute_read_queries"} \cup DiscoveryNeeds
VisualizationNeeds == {"can_build_visualizations"} \cup AnalyticsNeeds
DashboardNeeds == {"can_build_dashboards"} \cup VisualizationNeeds
DataQualityNeeds == {"can_run_data_quality_checks", "can_execute_read_queries"}
InsightNeeds == {"can_generate_insights", "can_execute_read_queries"}

Needs == [ data_discovery |-> DiscoveryNeeds, analytics |-> AnalyticsNeeds,
           visualization |-> VisualizationNeeds, dashboard |-> DashboardNeeds,
           data_quality |-> DataQualityNeeds, insight |-> InsightNeeds ]

-----------------------------------------------------------------------------
(* Classification *)

Levels == {"PUBLIC", "INTERNAL", "CONFIDENTIAL", "RESTRICTED"}

(* Fields are told apart by the semantic type their name stands for.        *)
(* "measure" is one of AGGREGATE_PUBLIC_FIELDS, "other" any unknown name.   *)
Identity == {"beneficiary_name", "national_identifier", "phone_number",
             "email_address", "account_identifier", "payment_identifier",
             "address", "debtor_identity", "creditor_identity"}
Fields == Identity \cup {"measure", "other"}

(* DATASET_POLICIES: the levels the registry knows; other datasets have     *)
(* none.  A dataset is told apart by its level and its name.                *)
ClassifyDataset(dataset) == dataset.level

(* classify_field *)
ClassifyField(dataset, field) ==
  IF field \in Identity THEN "RESTRICTED"
  ELSE IF field = "measure" THEN "PUBLIC" ELSE ClassifyDataset(dataset)

(* resolve_sql.  No dataset has a complete column list, so a star over a    *)
(* table cannot be resolved.                                                *)
Resolvable(in) ==
  /\ Cardinality(in.datasets) = 1
  /\ \A d \in in.datasets : d.level \in Levels
  /\ ~in.star

Dataset(in) == CHOOSE d \in in.datasets : TRUE

(* The projection of a query: the expressions of all its SELECTs, those of   *)
(* subqueries and CTEs too, in the order of the traversal.  An expression    *)
(* has a label (its alias or name, or its first column), the columns in it,  *)
(* and the label it is answered under, None if it is not of the outermost    *)
(* SELECT.                                                                   *)
Expressions(in) == {in.projection[i] : i \in DOMAIN in.projection}
ColumnsOf(e) == {e.columns[i] : i \in DOMAIN e.columns}
Answered(in) == {e.answer : e \in Expressions(in)} \ {None}

(* projected_fields_from_sql: every column of every expression. *)
Projected(in) == UNION {ColumnsOf(e) : e \in Expressions(in)}

(* projection_lineage_from_sql: of the expressions with columns that have    *)
(* the label l the last one counts, and of its columns the first.            *)
Labelled(in, l) ==
  {i \in DOMAIN in.projection : in.projection[i].label = l /\ in.projection[i].columns # <<>>}

LastOf(indices) == CHOOSE i \in indices : \A k \in indices : k <= i

(* field_lineage.get(label, label) *)
Lineage(in, l) ==
  IF Labelled(in, l) = {} THEN l ELSE in.projection[LastOf(Labelled(in, l))].columns[1]

-----------------------------------------------------------------------------
(* Policy *)

SensitivePayment == {"account_identifier", "debtor_identity", "creditor_identity"}
RestrictedTypes == {"beneficiary_name", "national_identifier", "phone_number",
                    "account_identifier", "address"}

(* _evaluate_field *)
EvaluateField(level, field, perms) ==
  CASE level # "RESTRICTED" -> "ALLOW"
    [] level = "RESTRICTED" /\ field = "beneficiary_name" ->
         IF "can_view_beneficiary_identity" \in perms THEN "ALLOW"
         ELSE IF "can_view_beneficiary_data" \in perms THEN "MASK" ELSE "DENY"
    [] level = "RESTRICTED" /\ field \in SensitivePayment ->
         IF "can_view_sensitive_payment_data" \in perms THEN "ALLOW"
         ELSE IF "can_view_restricted_data" \in perms THEN "MASK" ELSE "DENY"
    [] level = "RESTRICTED" /\ field \in RestrictedTypes \ ({"beneficiary_name"}
                                                            \cup SensitivePayment) ->
         IF "can_view_restricted_data" \in perms THEN "MASK" ELSE "DENY"
    [] OTHER -> "MASK"

FieldResult(in, field, perms) ==
  EvaluateField(ClassifyField(Dataset(in), field), field, perms)

(* _evaluate_geography: officers stay in their area when both are known. *)
OutOfArea(in, roles) ==
  \/ "district_officer" \in roles /\ in.area = "other_district"
  \/ "parish_officer" \in roles /\ in.area = "other_parish"

Requires(level) ==
  CASE level = "PUBLIC" -> {}
    [] level = "INTERNAL" -> {"can_view_internal_data"}
    [] level = "CONFIDENTIAL" -> {"can_view_confidential_data"}
    [] level = "RESTRICTED" -> {"can_view_restricted_data"}

(* resolve_approval: a record that is approved and of this subject, action  *)
(* and dataset.                                                             *)
Matches(record, in) ==
  /\ record # None
  /\ record.status = "approved"
  /\ record.subject = in.subject
  /\ record.action = in.action
  /\ record.dataset = Dataset(in).name

ApprovalSatisfied(registry, in) ==
  in.approval # None /\ Matches(registry[in.approval], in)

Sensitive(in) ==
  \E f \in Projected(in) : ClassifyField(Dataset(in), f) = "RESTRICTED"

MaskedFields(in, perms) == {f \in Projected(in) : FieldResult(in, f, perms) = "MASK"}

(* evaluate *)
Evaluate(in, roles, registry) ==
  LET perms == Permissions(roles)
      denied == \/ ~(roles \subseteq Roles)
                \/ ~in.purposeKnown
                \/ OutOfArea(in, roles)
                \/ ~(Requires(ClassifyDataset(Dataset(in))) \subseteq perms)
                \/ \E f \in Projected(in) : FieldResult(in, f, perms) = "DENY"
      masked == MaskedFields(in, perms)
  IN CASE denied -> [type |-> "DENY", masked |-> {}]
       [] ~denied /\ Sensitive(in) /\ ~ApprovalSatisfied(registry, in) ->
            [type |-> "REQUIRE_APPROVAL", masked |-> masked]
       [] OTHER -> [type |-> IF masked # {} THEN "MASK" ELSE "ALLOW",
                    masked |-> masked]

(* The projections sqlglot gives. *)
IsProjection(p) ==
  p \in Seq([label : Labels, columns : Seq(Fields), answer : Labels \cup {None}])

(* load_role_bindings refuses a role it does not know. *)
ASSUME GovernanceAssumption ==
  /\ Bindings \in [Subjects -> SUBSET Roles]
  /\ \A in \in Inputs : in.subject \in Subjects /\ in.approval \in Approvals \cup {None}
                       /\ IsProjection(in.projection)
  /\ None \notin Inputs \cup Records

-----------------------------------------------------------------------------
(* Requests *)

VARIABLES
  input,     \* what a request carries
  stage,     \* how far its handler is
  roles,     \* the roles it is given
  decision,  \* the policy decision
  rows,      \* the cells it answers with, by label
  registry,  \* the approval registry
  audit,     \* the audit log: decisions that are persisted
  read,      \* ghost: requests whose query has been run
  granted    \* ghost: every approved record the registry has held

governanceVars == <<input, stage, roles, decision, rows, registry, audit, read, granted>>

(* Statuses of the answer. *)
Final == {"completed", "unauthenticated", "unsupported", "failed", "denied",
          "requires_approval"}

GovernanceInit ==
  /\ input = [r \in Queries |-> None]
  /\ stage = [r \in Queries |-> "idle"]
  /\ roles = [r \in Queries |-> {}]
  /\ decision = [r \in Queries |-> None]
  /\ rows = [r \in Queries |-> None]
  /\ registry = [a \in Approvals |-> None]
  /\ audit = {} /\ read = {} /\ granted = {}

Go(r, s) == stage' = [stage EXCEPT ![r] = s]

ReceiveQuery(r, in) ==
  /\ stage[r] = "idle"
  /\ input' = [input EXCEPT ![r] = in]
  /\ Go(r, "received")
  /\ UNCHANGED <<roles, decision, rows, registry, audit, read, granted>>

(* authentication_hook: when it is enabled, a token that verifies.  The      *)
(* subject of the token stays in request.state, where no query reads it.     *)
Authenticate(r) ==
  /\ stage[r] = "received"
  /\ Go(r, IF AuthEnabled /\ input[r].caller = None THEN "unauthenticated" ELSE "authenticated")
  /\ UNCHANGED <<input, roles, decision, rows, registry, audit, read, granted>>

(* ServerAuthorityResolver.authorised_roles: subject and claims are those of *)
(* the body, context.governance.identity.                                    *)
AuthorisedRoles(in) == Bindings[in.subject] \cap in.claims

(* effective_permissions, narrow_permissions: without an identity only the   *)
(* ceiling of the server cuts.                                               *)
EffectivePermissions(in, bound) ==
  in.permissions \cap Ceiling \cap
    (IF in.context = "missing" THEN Ceiling ELSE AgentCapabilities(Permissions(bound)))

(* Orchestrator.execute up to the agent: a routed objective, a governance    *)
(* context that parses, one at all if the agent reads data, and the          *)
(* permissions the agent asks for.  Discovery reads no data.                 *)
Authorise(r) ==
  LET in == input[r]
      bound == AuthorisedRoles(in)
      admitted == /\ in.context # "malformed"
                  /\ in.context = "missing" => in.agent \notin Governed
                  /\ Needs[in.agent] \subseteq EffectivePermissions(in, bound)
  IN /\ stage[r] = "authenticated" /\ in.agent # "governance"
     /\ roles' = [roles EXCEPT ![r] = bound]
     /\ \/ in.agent \notin Agents /\ Go(r, "unsupported")
        \/ in.agent \in Agents /\ ~admitted /\ Go(r, "failed")
        \/ /\ in.agent \in Agents /\ admitted
           /\ Go(r, IF in.agent \in Governed THEN "authorised" ELSE "completed")
     /\ UNCHANGED <<input, decision, rows, registry, audit, read, granted>>

(* execute_query: the statement validates and is classified. *)
Classify(r) ==
  /\ stage[r] = "authorised"
  /\ Go(r, IF input[r].valid /\ Resolvable(input[r]) THEN "classified" ELSE "failed")
  /\ UNCHANGED <<input, roles, decision, rows, registry, audit, read, granted>>

(* Where a request goes after the decision. *)
After(d) == CASE d.type = "DENY" -> "denied"
              [] d.type = "REQUIRE_APPROVAL" -> "requires_approval"
              [] OTHER -> "cleared"

(* _enforce_governance_pre_query: all but ALLOW is persisted before it has  *)
(* an effect; an audit log that cannot be written fails the request.        *)
Decide(r) ==
  /\ stage[r] = "classified"
  /\ LET d == Evaluate(input[r], roles[r], registry)
     IN /\ decision' = [decision EXCEPT ![r] = d]
        /\ \/ d.type = "ALLOW" /\ Go(r, "cleared") /\ UNCHANGED audit
           \/ d.type # "ALLOW" /\ Go(r, After(d)) /\ audit' = audit \cup {<<r, d>>}
           \/ d.type # "ALLOW" /\ Go(r, "failed") /\ UNCHANGED audit
  /\ UNCHANGED <<input, roles, rows, registry, read, granted>>

(* Mutant: labels are compared with the masked fields. *)
MaskByLabel(in, d) ==
  [l \in Answered(in) |-> IF l \in d.masked THEN "masked" ELSE "clear"]

(* _mask_query_rows: the lineage of a label decides.  mask_value keeps the  *)
(* last characters of identifiers and nothing of the rest.                  *)
Mask(in, d) ==
  [l \in Answered(in) |->
     IF Lineage(in, l) \notin d.masked THEN "clear"
     ELSE IF Lineage(in, l) \in {"phone_number", "account_identifier", "national_identifier"}
          THEN "tail" ELSE "masked"]

(* The query runs under the decision taken before, whatever the registry    *)
(* says now.  It may fail.                                                  *)
RunQuery(r) ==
  /\ stage[r] = "cleared"
  /\ read' = read \cup {r}
  /\ \/ rows' = [rows EXCEPT ![r] = Mask(input[r], decision[r])] /\ Go(r, "completed")
     \/ UNCHANGED rows /\ Go(r, "failed")
  /\ UNCHANGED <<input, roles, decision, registry, audit, granted>>

(* governance_evaluate, governance_agent_query: the roles and levels of the *)
(* request itself, no registry, every decision persisted, nothing read.     *)
Explain(r) ==
  /\ stage[r] = "authenticated" /\ input[r].agent = "governance"
  /\ Cardinality(input[r].datasets) = 1 /\ Dataset(input[r]).level \in Levels
  /\ LET d == Evaluate(input[r], input[r].claims, [a \in Approvals |-> None])
     IN \/ /\ decision' = [decision EXCEPT ![r] = d]
           /\ audit' = audit \cup {<<r, d>>}
           /\ Go(r, "completed")
        \/ Go(r, "failed") /\ UNCHANGED <<decision, audit>>
  /\ UNCHANGED <<input, roles, rows, registry, read, granted>>

(* An administrator writes a record: InMemoryApprovalRegistry.add replaces. *)
Register(a, record) ==
  /\ registry' = [registry EXCEPT ![a] = record]
  /\ granted' = granted \cup (IF record.status = "approved" THEN {record} ELSE {})
  /\ UNCHANGED <<input, stage, roles, decision, rows, audit, read>>

QueryStep(r) ==
  \/ Authenticate(r) \/ Authorise(r) \/ Classify(r) \/ Decide(r) \/ RunQuery(r)
  \/ Explain(r)

GovernanceNext ==
  \/ \E r \in Queries : QueryStep(r) \/ \E in \in Inputs : ReceiveQuery(r, in)
  \/ \E a \in Approvals, record \in Records : Register(a, record)

GovernanceSpec == GovernanceInit /\ [][GovernanceNext]_governanceVars

GovernanceFairSpec == GovernanceSpec /\ \A r \in Queries : WF_governanceVars(QueryStep(r))

-----------------------------------------------------------------------------
(* Properties *)

GovernanceTypeOK ==
  /\ \A r \in Queries :
       /\ input[r] = None <=> stage[r] = "idle"
       /\ stage[r] \in Final \cup {"idle", "received", "authenticated", "authorised",
                                   "classified", "cleared"}
       /\ roles[r] \subseteq Roles
       /\ rows[r] # None => DOMAIN rows[r] = Answered(input[r])
  /\ read \subseteq Queries
  /\ \A a \in Approvals : registry[a] = None \/ registry[a] \in Records

(* The permission that shows a restricted field as it is.  No permission    *)
(* does so for the other ones.                                              *)
ClearWith(field) ==
  CASE field = "beneficiary_name" -> {"can_view_beneficiary_identity"}
    [] field \in SensitivePayment -> {"can_view_sensitive_payment_data"}
    [] OTHER -> {}

(* The column answered as l has the one source f, whichever of the          *)
(* expressions of that label the lineage takes.                              *)
Traced(in, l, f) ==
  \A e \in Expressions(in) :
    e.label = l \/ e.answer = l => e.label = l /\ ColumnsOf(e) = {f}

(* A2.3, A2.5: a restricted value is answered in the clear, under whatever   *)
(* label, only when the server itself binds a role with the permission for   *)
(* that kind of field to the subject the request names, whatever is claimed. *)
(* Said of the columns that have one source: the lineage keeps no more.      *)
RestrictedStaysMasked ==
  \A r \in Queries : rows[r] # None =>
    \A l \in DOMAIN rows[r], f \in Projected(input[r]) :
      /\ Traced(input[r], l, f)
      /\ ClassifyField(Dataset(input[r]), f) = "RESTRICTED"
      /\ rows[r][l] = "clear"
      => ClearWith(f) \cap Permissions(Bindings[input[r].subject]) # {}

(* Of any column of any expression, traced or not: rows are only answered to *)
(* a caller whose token was verified (when that is enabled), and only when   *)
(* the roles bound to the subject admit the level of the dataset and do not  *)
(* deny one of the fields.                                                   *)
AnswersAdmitted ==
  \A r \in Queries : rows[r] # None =>
    LET bound == Permissions(Bindings[input[r].subject])
    IN /\ AuthEnabled => input[r].caller # None
       /\ Requires(ClassifyDataset(Dataset(input[r]))) \subseteq bound
       /\ \A f \in Projected(input[r]) : FieldResult(input[r], f, bound) # "DENY"

(* A2.4: rows with restricted fields in any expression, masked or not, are   *)
(* only answered when the registry has held an approval of the subject the   *)
(* request names, of its action and its dataset.                             *)
RestrictedWasApproved ==
  \A r \in Queries : rows[r] # None /\ Sensitive(input[r]) =>
    \E g \in granted : /\ g.subject = input[r].subject
                       /\ g.action = input[r].action
                       /\ g.dataset = Dataset(input[r]).name

(* Nothing is read, and no refusal is answered, under a decision other than  *)
(* ALLOW that is not in the audit log, and no refused query is run.          *)
DecisionsAudited ==
  \A r \in Queries :
    /\ stage[r] \in {"denied", "requires_approval"} => <<r, decision[r]>> \in audit
    /\ stage[r] \in {"denied", "requires_approval"} => r \notin read
    /\ r \in read /\ decision[r].type # "ALLOW" =>
         decision[r].type = "MASK" /\ <<r, decision[r]>> \in audit

Rank(d) == CASE d.type = "DENY" -> 0
             [] d.type = "REQUIRE_APPROVAL" -> 1
             [] OTHER -> 2

(* A further role never turns a decision into a stricter one or masks more,  *)
(* but for the officers', which confine a subject to its area.               *)
RolesOnlyWiden ==
  \A r \in Queries : decision[r] # None /\ stage[r] # "failed" =>
    \A role \in Roles \ {"district_officer", "parish_officer"} :
      LET less == Evaluate(input[r], roles[r], registry)
          more == Evaluate(input[r], roles[r] \cup {role}, registry)
      IN /\ Rank(more) >= Rank(less)
         /\ Rank(less) > 0 => more.masked \subseteq less.masked

(* governance.py: of the subject the request names, no restricted value in   *)
(* the clear without a bound role, no row its roles do not admit and no      *)
(* restricted one without an approval; no decision unaudited, and no role    *)
(* that takes a permission away.                                             *)
AccessGoverned ==
  /\ GovernanceTypeOK /\ RestrictedStaysMasked /\ AnswersAdmitted
  /\ RestrictedWasApproved /\ DecisionsAudited /\ RolesOnlyWiden

(* Every request is answered. *)
EveryRequestAnswered == \A r \in Queries : stage[r] = "received" ~> stage[r] \in Final
=============================================================================
