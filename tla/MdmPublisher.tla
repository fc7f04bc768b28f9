---------------------------- MODULE MdmPublisher ----------------------------
(* services/mdm-publisher/mdm_publisher.py: validate the registry, build the *)
(* publication plan of one authority, publish it.  The record files are read *)
(* three times (validate_registry, the plan main prints, the plan            *)
(* execute_publish builds again), and may be edited in between.              *)
EXTENDS Naturals, Sequences, FiniteSets

CONSTANTS
  Specs,      \* the registry's records, in order: one file and topic each
  Authority,  \* Authority[s]: "ordinary" or "restricted_identity"
  Keys,       \* values of the key fields
  Contents,   \* what a record file may hold: the key of each of its rows,
              \* "none" when a key field is missing
  Buffer,     \* librdkafka's queue limit
  MaxEdits,   \* bound: edits of the files
  MaxErrors   \* bound: failed deliveries

SpecSet == {Specs[i] : i \in DOMAIN Specs}

ASSUME MdmAssumption ==
  /\ Specs \in Seq(SpecSet) /\ Buffer \in Nat
  /\ Contents \subseteq Seq(Keys \cup {"none"})

VARIABLES
  mode, who,  \* --validate-only, --plan-only or --execute; --authority
  enabled,    \* MDM_KAFKA_PUBLISH_ENABLED
  rows,       \* what each file holds
  mpc, at,    \* where the command is, and how many records of the registry are planned
  plan, sent, answer, delivered, published, edits, errors

mdmvars == <<mode, who, enabled, rows, mpc, at, plan, sent, answer, delivered,
             published, edits, errors>>

RowsOf(s) == [i \in DOMAIN rows[s] |-> [spec |-> s, key |-> rows[s][i]]]

MdmInit ==
  /\ mode \in {"validate", "plan", "execute"}
  /\ who \in {"ordinary", "restricted_identity"} /\ enabled \in BOOLEAN
  /\ rows \in [SpecSet -> Contents]
  /\ mpc = "validate" /\ at = 0 /\ plan = <<>> /\ sent = 0
  /\ answer = <<>> /\ delivered = 0
  /\ published = <<>> /\ edits = 0 /\ errors = 0

-----------------------------------------------------------------------------
Keyed(s) == \A i \in DOMAIN rows[s] : rows[s][i] # "none"

(* validate_registry looks at the files of both authorities. *)
Validate ==
  /\ mpc = "validate"
  /\ mpc' = IF \E s \in SpecSet : ~Keyed(s) THEN "exit1"
            ELSE IF mode = "validate" THEN "exit0" ELSE "plan"
  /\ UNCHANGED <<mode, who, enabled, rows, at, plan, sent, answer, delivered, published, edits, errors>>

(* The registry's records of the authority. *)
Selects(s) == Authority[s] = who

(* build_publish_plan, for main and again inside execute_publish: the next   *)
(* record of the registry.  A row without its key raises before anything is  *)
(* sent.                                                                     *)
PlanRecord ==
  LET s == Specs[at + 1]
  IN /\ mpc \in {"plan", "replan"} /\ at < Len(Specs)
     /\ IF Selects(s) /\ ~Keyed(s)
        THEN mpc' = "exit1" /\ UNCHANGED <<at, plan>>
        ELSE /\ at' = at + 1 /\ mpc' = mpc
             /\ plan' = IF Selects(s) THEN plan \o RowsOf(s) ELSE plan
     /\ UNCHANGED <<mode, who, enabled, rows, sent, answer, delivered, published, edits, errors>>

(* main prints the plan, or execute_publish forgets it and builds it anew. *)
PlanBuilt ==
  /\ mpc \in {"plan", "replan"} /\ at = Len(Specs)
  /\ mpc' = CASE mpc = "replan" -> "produce"
              [] mpc = "plan" /\ mode = "plan" -> "exit0"
              [] OTHER -> IF enabled THEN "replan" ELSE "exit1"
  /\ IF mpc' = "replan" THEN at' = 0 /\ plan' = <<>> ELSE UNCHANGED <<at, plan>>
  /\ UNCHANGED <<mode, who, enabled, rows, sent, answer, delivered, published, edits, errors>>

(* produce never polls: once the local queue is full it raises.              *)
ProduceItem ==
  /\ mpc = "produce"
  /\ IF sent = Len(plan) THEN mpc' = "flush" /\ UNCHANGED <<sent, answer>>
     ELSE IF sent = Buffer THEN mpc' = "exit1" /\ UNCHANGED <<sent, answer>>
     ELSE mpc' = mpc /\ sent' = sent + 1 /\ answer' = Append(answer, "sent")
  /\ UNCHANGED <<mode, who, enabled, rows, at, plan, delivered, published, edits, errors>>

(* The broker (external). *)
Acknowledge(i, ok) ==
  /\ mpc \in {"produce", "flush"} /\ answer[i] = "sent"
  /\ answer' = [answer EXCEPT ![i] = IF ok THEN "ok" ELSE "error"]
  /\ published' = IF ok THEN Append(published, plan[i]) ELSE published
  /\ errors' = errors + IF ok THEN 0 ELSE 1
  /\ UNCHANGED <<mode, who, enabled, rows, mpc, at, plan, sent, delivered, edits>>

Answered(a) == {i \in DOMAIN answer : answer[i] = a}

(* Mutant: the callback swallows the error and no count is compared. *)
FlushLenient ==
  /\ mpc = "flush" /\ Answered("sent") = {}
  /\ delivered' = Cardinality(Answered("ok")) /\ mpc' = "exit0"
  /\ UNCHANGED <<mode, who, enabled, rows, at, plan, sent, answer, published, edits, errors>>

(* flush: the callback's exception leaves it at once; otherwise it waits for *)
(* every answer, and the count must be the plan's.                           *)
FlushAll ==
  /\ mpc = "flush"
  /\ \/ /\ Answered("error") # {}
        /\ mpc' = "exit1" /\ UNCHANGED delivered
     \/ /\ Answered("sent") = {} /\ Answered("error") = {}
        /\ delivered' = Cardinality(Answered("ok"))
        /\ mpc' = IF delivered' = Len(plan) THEN "exit0" ELSE "exit1"
  /\ UNCHANGED <<mode, who, enabled, rows, at, plan, sent, answer, published, edits, errors>>

(* Someone edits a record file while the command runs. *)
Edit(s, c) ==
  /\ mpc \in {"validate", "plan", "replan"} /\ edits < MaxEdits
  /\ rows' = [rows EXCEPT ![s] = c] /\ edits' = edits + 1
  /\ UNCHANGED <<mode, who, enabled, mpc, at, plan, sent, answer, delivered, published, errors>>

MdmStep == Validate \/ PlanRecord \/ PlanBuilt \/ ProduceItem \/ FlushAll
MdmBroker == \E i \in DOMAIN answer : Acknowledge(i, TRUE)

MdmNext ==
  \/ MdmStep \/ MdmBroker
  \/ errors < MaxErrors /\ \E i \in DOMAIN answer : Acknowledge(i, FALSE)
  \/ \E s \in SpecSet, c \in Contents : Edit(s, c)

MdmSpec == MdmInit /\ [][MdmNext]_mdmvars

-----------------------------------------------------------------------------
(* Exit status 0 of --execute means that the topics hold exactly the files'  *)
(* rows of that authority as they were last read: none lost, none twice.     *)
MdmExitTrue ==
  mpc = "exit0" /\ mode = "execute" =>
    /\ enabled /\ delivered = Len(plan) /\ Len(published) = Len(plan)
    /\ \A x \in {plan[i] : i \in DOMAIN plan} :
         Cardinality({i \in DOMAIN plan : plan[i] = x})
           = Cardinality({i \in DOMAIN published : published[i] = x})

(* No row of the other authority's files, and none without its key, is ever  *)
(* published, whatever was edited after validation; the two other modes      *)
(* publish nothing.                                                          *)
AuthorityKept ==
  /\ \A i \in DOMAIN published : Authority[published[i].spec] = who /\ published[i].key # "none"
  /\ published # <<>> => mode = "execute" /\ enabled

(* mdm_publisher: exit 0 means the whole plan is published, and no row of    *)
(* the other authority ever is.                                              *)
MdmTrue == MdmExitTrue /\ AuthorityKept
=============================================================================
