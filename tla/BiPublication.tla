---------------------------- MODULE BiPublication ----------------------------
(* Everything that writes to Superset: the agent's SupersetAdapter.publish    *)
(* (one process per HTTP request), the suite dashboards built in one session, *)
(* the registration of the Trino connection and the provisioning of the       *)
(* publisher's role.  Rows are found by a natural key and then written, by    *)
(* calls any of which may be refused, fail, or be applied without an answer.  *)
EXTENDS Naturals, Sequences

CONSTANTS
  Publications,  \* publication requests
  Dashboards,    \* dashboard specifications
  Built,         \* those DashboardBuilder makes; the others are of a request's body
  SlugOf,        \* specification -> slug of its dashboard
  Visuals,       \* specification -> sequence of [id, name, sid, src]: the chart's id and
                 \* name, the id of its source and the dataset that is
  Layout,        \* specification -> sequence of chart ids
  Suites,        \* slugs of the suite dashboards
  SuiteVisuals,  \* slug -> sequence of [name, src]
  Operators,     \* bound: which operator's jobs may run beside the requests
  Standing,      \* dataset -> what the classification and the BI policy say
  Granted        \* permissions the publisher has beside RequiredPermissions

NamesOf(visuals) == {visuals[i].name : i \in DOMAIN visuals}
IdsOf(visuals) == {visuals[i].id : i \in DOMAIN visuals}
SidsOf(visuals) == {visuals[i].sid : i \in DOMAIN visuals}
Distinct(visuals) == \A i, k \in DOMAIN visuals : visuals[i].name = visuals[k].name => i = k

(* Charts of one source id have one dataset. *)
OneSource(d) ==
  \A i, k \in DOMAIN Visuals[d] :
    Visuals[d][i].sid = Visuals[d][k].sid => Visuals[d][i].src = Visuals[d][k].src

(* A specification has at least one visual (min_length).  What the builders  *)
(* make is more: ids of their own ("visualization IDs must be unique"), with *)
(* which the names begin; the id of a source is that of its dataset          *)
(* (stable_id("ds", dataset)); every chart has a place in the layout, and no *)
(* place is of another; the slug is not a suite's.  The names of all charts  *)
(* begin with a bracket, those of the suites are other constants.            *)
ASSUME BiAssumption ==
  /\ Built \subseteq Dashboards
  /\ \A d \in Dashboards :
       /\ Visuals[d] \in Seq([id : IdsOf(Visuals[d]), name : NamesOf(Visuals[d]),
                              sid : SidsOf(Visuals[d]), src : DOMAIN Standing])
       /\ Visuals[d] # <<>>
       /\ \A s \in Suites : NamesOf(Visuals[d]) \cap NamesOf(SuiteVisuals[s]) = {}
  /\ \A d \in Built :
       /\ \A i, k \in DOMAIN Visuals[d] : Visuals[d][i].id = Visuals[d][k].id => i = k
       /\ Distinct(Visuals[d]) /\ OneSource(d)
       /\ {Layout[d][i] : i \in DOMAIN Layout[d]} = IdsOf(Visuals[d])
       /\ SlugOf[d] \notin Suites
  /\ \A s \in Suites :
       /\ SuiteVisuals[s] \in Seq([name : NamesOf(SuiteVisuals[s]), src : DOMAIN Standing])
       /\ Distinct(SuiteVisuals[s])

VARIABLES
  datasets,    \* registered datasets: the key is unique in Superset
  charts,      \* chart rows by id: names are not unique
  lastId,      \* the last id the database has given a chart
  dashboards,  \* slug -> chart ids of its layout, for the rows there are
  role,        \* permissions of agent_publisher
  connection,  \* the Trino database row: "none", "broken" or "working"
  pub,         \* the publication requests
  suite,       \* the suite builders: what their session has found
  reg,         \* register_bi_connection: [pc, before]
  operator,    \* the one of Operators that does
  overlapped   \* history: two writers were at work at the same time

superset == <<datasets, charts, lastId, dashboards>>
biVars == <<datasets, charts, lastId, dashboards, role, connection, pub, suite, reg,
            operator, overlapped>>

RequiredPermissions ==
  { <<"Dashboard", "read">>, <<"Dashboard", "write">>, <<"Chart", "read">>,
    <<"Chart", "write">>, <<"Dataset", "read">>, <<"SecurityRestApi", "read">> }

(* check_bi_publication and resolve_resource refuse all other standings:     *)
(* "unclassified", "restricted", "identity", "unlisted", "restricted_field". *)
Approved(src) == Standing[src] = "approved"

Slug(p) == SlugOf[pub[p].spec]
Shown(p) == Visuals[pub[p].spec]
Visual(p) == Shown(p)[pub[p].next]

(* sources and drawn are the dictionaries datasets and charts of publish: by *)
(* the id of a source the dataset registered for it, and by the id of a      *)
(* visual the chart row.                                                     *)
Idle == [pc |-> "idle", spec |-> "none", next |-> 1, found |-> {}, sources |-> <<>>,
         drawn |-> <<>>, completed |-> {}, alone |-> TRUE]

Ended == {"forbidden", "planned", "completed", "failed"}
Publishing(p) == pub[p].pc \notin Ended \cup {"idle"}

BiInit ==
  /\ datasets = {} /\ charts = <<>> /\ lastId = 0 /\ dashboards = <<>>
  /\ role = RequiredPermissions \cup Granted
  /\ connection \in {"none", "working"}
  /\ pub = [p \in Publications |-> Idle]
  /\ suite = [s \in Suites |-> [pc |-> "idle", missing |-> {}]]
  /\ reg = [pc |-> "idle", before |-> "none"]
  /\ operator \in Operators
  /\ overlapped = FALSE

-----------------------------------------------------------------------------
(* _validate_publication_governance, before any call: sources[source.id] is  *)
(* overwritten, so that the last source of an id is the one checked.         *)
SourcesApproved(d) ==
  \A i \in DOMAIN Visuals[d] :
    (\A k \in DOMAIN Visuals[d] : k > i => Visuals[d][k].sid # Visuals[d][i].sid)
      => Approved(Visuals[d][i].src)

(* /publish/superset, with a specification of the body, and                  *)
(* /agents/dashboard, with what the agent has built: publication authority,  *)
(* which the dry run of the latter does without, governance, the publisher's *)
(* identity.                                                                 *)
Request(p, d, direct, permitted, publish) ==
  /\ pub[p].pc = "idle" /\ (direct \/ d \in Built)
  /\ pub' = [pub EXCEPT ![p].spec = d,
                        ![p].pc = CASE ~permitted /\ (direct \/ publish) -> "forbidden"
                                    [] (permitted \/ ~direct) /\ ~publish -> "planned"
                                    [] permitted /\ publish /\ ~SourcesApproved(d) -> "failed"
                                    [] OTHER -> "login"]
  /\ overlapped' = (overlapped \/ \E q \in Publications \ {p} : Publishing(q))
  /\ UNCHANGED <<superset, role, connection, suite, reg, operator>>

(* A write makes the layout of everyone else's dashboard a matter of luck,   *)
(* except of those that have still to begin.                                 *)
Disturb(p, next) ==
  pub' = [q \in Publications |->
            IF q = p THEN next
            ELSE [pub[q] EXCEPT !.alone = @ /\ pub[q].pc = "idle"]]

(* An exception ends the publication; what was completed is reported. *)
PublicationFailed(p) == [pub[p] EXCEPT !.pc = "failed"]

(* A read of Superset: refused without the permission, or failing. *)
Read(p, permission, next) ==
  /\ \/ permission \in role /\ pub' = [pub EXCEPT ![p] = next]
     \/ pub' = [pub EXCEPT ![p] = PublicationFailed(p)]
  /\ UNCHANGED <<superset, role, connection, suite, reg, operator, overlapped>>

(* A write of Superset: applied and answered, applied and the answer lost, *)
(* or refused.  `effect` has the primed rows.                              *)
Write(p, permission, effect, next) ==
  /\ \/ permission \in role /\ effect /\ (Disturb(p, next) \/ Disturb(p, PublicationFailed(p)))
     \/ UNCHANGED superset /\ pub' = [pub EXCEPT ![p] = PublicationFailed(p)]
  /\ UNCHANGED <<role, connection, suite, reg, operator, overlapped>>

(* _login: the token and the CSRF token. *)
Login(p) ==
  /\ pub[p].pc = "login"
  /\ Read(p, <<"SecurityRestApi", "read">>, [pub[p] EXCEPT !.pc = "database"])

(* _database_id: the connection has to be registered, working or not. *)
DatabaseId(p) ==
  /\ pub[p].pc = "database"
  /\ Read(p, <<"Database", "read">>,
          [pub[p] EXCEPT !.pc = IF connection = "none" THEN "failed" ELSE "dataset"])

Row(p, c) == charts[c].name = Visual(p).name

Put(f, k, v) == [x \in DOMAIN f \cup {k} |-> IF x = k THEN v ELSE f[x]]

ToChart(p) == [pub[p] EXCEPT !.pc = "chart", !.sources = Put(@, Visual(p).sid, Visual(p).src),
                             !.completed = @ \cup {<<"dataset", Visual(p).src>>}]

(* _upsert_dataset, GET: once per source id, of the first source that has it. *)
FindDataset(p) ==
  /\ pub[p].pc = "dataset"
  /\ \/ /\ Visual(p).sid \in DOMAIN pub[p].sources
        /\ pub' = [pub EXCEPT ![p].pc = "chart"]
        /\ UNCHANGED <<superset, role, connection, suite, reg, operator, overlapped>>
     \/ /\ Visual(p).sid \notin DOMAIN pub[p].sources
        /\ Read(p, <<"Dataset", "read">>,
                IF Visual(p).src \in datasets THEN ToChart(p)
                ELSE [pub[p] EXCEPT !.pc = "dataset_post"])

(* _upsert_dataset, POST: the key exists by now, or is created. *)
PostDataset(p) ==
  /\ pub[p].pc = "dataset_post"
  /\ Write(p, <<"Dataset", "write">>,
           Visual(p).src \notin datasets /\ datasets' = datasets \cup {Visual(p).src}
             /\ UNCHANGED <<charts, lastId, dashboards>>,
           ToChart(p))

(* The dataset the chart is drawn from: the one registered for the source id. *)
Source(p) == pub[p].sources[Visual(p).sid]

(* _upsert_chart, GET by name. *)
FindChart(p) ==
  /\ pub[p].pc = "chart"
  /\ Read(p, <<"Chart", "read">>,
          [pub[p] EXCEPT !.pc = "chart_write", !.found = {c \in DOMAIN charts : Row(p, c)}])

(* The loop over the visuals. *)
WithChart(p, c) ==
  [pub[p] EXCEPT !.drawn = Put(@, Visual(p).id, c),
                 !.completed = @ \cup {<<"chart", c>>},
                 !.pc = IF pub[p].next < Len(Shown(p)) THEN "dataset" ELSE "dashboard",
                 !.next = IF @ < Len(Shown(p)) THEN @ + 1 ELSE 1]

(* PUT of the first row found, in whatever order Superset lists them: name   *)
(* and data source are overwritten, the dashboards stay.                     *)
PutChart(p, c) ==
  /\ pub[p].pc = "chart_write" /\ c \in pub[p].found
  /\ Write(p, <<"Chart", "write">>,
           charts' = [charts EXCEPT ![c].src = Source(p)] /\ UNCHANGED <<datasets, lastId, dashboards>>,
           WithChart(p, c))

PostChart(p) ==
  /\ pub[p].pc = "chart_write" /\ pub[p].found = {}
  /\ Write(p, <<"Chart", "write">>,
           /\ charts' = Put(charts, lastId + 1,
                            [name |-> Visual(p).name, src |-> Source(p), in |-> {}])
           /\ lastId' = lastId + 1 /\ UNCHANGED <<datasets, dashboards>>,
           WithChart(p, lastId + 1))

(* _position_json *)
LaidOut(p) == [i \in DOMAIN Layout[pub[p].spec] |-> pub[p].drawn[Layout[pub[p].spec][i]]]

(* _upsert_dashboard, GET by slug; a layout with an id that no chart has is  *)
(* a KeyError.                                                               *)
FindDashboard(p) ==
  LET places == {Layout[pub[p].spec][i] : i \in DOMAIN Layout[pub[p].spec]}
  IN  /\ pub[p].pc = "dashboard"
      /\ Read(p, <<"Dashboard", "read">>,
              [pub[p] EXCEPT !.pc = IF ~(places \subseteq DOMAIN pub[p].drawn) THEN "failed"
                                    ELSE IF Slug(p) \in DOMAIN dashboards THEN "dashboard_put"
                                    ELSE "dashboard_post"])

(* PUT, or POST where the slug must still be free: title and layout. *)
WriteDashboard(p) ==
  /\ pub[p].pc \in {"dashboard_put", "dashboard_post"}
  /\ Write(p, <<"Dashboard", "write">>,
           (pub[p].pc = "dashboard_post") = (Slug(p) \notin DOMAIN dashboards)
             /\ dashboards' = Put(dashboards, Slug(p), LaidOut(p))
             /\ UNCHANGED <<datasets, charts, lastId>>,
           [pub[p] EXCEPT !.pc = "associate", !.completed = @ \cup {<<"dashboard", Slug(p)>>}])

(* An id that came before is in the dictionary already. *)
Repeats(p) == \E k \in 1 .. pub[p].next - 1 : Shown(p)[k].id = Visual(p).id

Associated(p) == IF pub[p].next = Len(Shown(p)) THEN [pub[p] EXCEPT !.pc = "completed"]
                 ELSE [pub[p] EXCEPT !.next = @ + 1]

(* Mutant: the last chart is not associated. *)
AssociateAllButLast(p) ==
  /\ pub[p].pc = "associate"
  /\ Write(p, <<"Chart", "write">>,
           charts' = (IF pub[p].next = Len(Shown(p)) THEN charts
                      ELSE [charts EXCEPT ![pub[p].drawn[Visual(p).id]].in = {Slug(p)}])
             /\ UNCHANGED <<datasets, lastId, dashboards>>,
           Associated(p))

(* _associate_charts: PUT dashboards=[id] replaces where the chart is shown, *)
(* once per id.                                                              *)
Associate(p) ==
  /\ pub[p].pc = "associate"
  /\ \/ /\ Repeats(p) /\ pub' = [pub EXCEPT ![p] = Associated(p)]
        /\ UNCHANGED <<superset, role, connection, suite, reg, operator, overlapped>>
     \/ /\ ~Repeats(p)
        /\ Write(p, <<"Chart", "write">>,
                 charts' = [charts EXCEPT ![pub[p].drawn[Visual(p).id]].in = {Slug(p)}]
                   /\ UNCHANGED <<datasets, lastId, dashboards>>,
                 Associated(p))

Publish(p) ==
  \/ Login(p) \/ DatabaseId(p) \/ FindDataset(p) \/ PostDataset(p) \/ FindChart(p)
  \/ \E c \in DOMAIN charts : PutChart(p, c)
  \/ PostChart(p) \/ FindDashboard(p) \/ WriteDashboard(p) \/ Associate(p)

-----------------------------------------------------------------------------
SuiteSources(s) == {SuiteVisuals[s][i].src : i \in DOMAIN SuiteVisuals[s]}

(* build_suite_dashboard and update_dashboard: owner, connection, dashboard  *)
(* and datasets are looked up in the session; what is missing is inserted    *)
(* and flushed, so that nobody else sees it before the commit.               *)
SuiteOpens(s) ==
  /\ suite[s].pc = "idle" /\ connection # "none"
  /\ suite' = [suite EXCEPT ![s] = [pc |-> "open", missing |-> SuiteSources(s) \ datasets]]
  /\ UNCHANGED <<superset, role, connection, pub, reg, operator, overlapped>>

(* upsert_chart: the first row of that name, or a new one.  It also looks    *)
(* for the aliases of a chart, names no builder gives any more.              *)
SuiteChart(s, i) ==
  LET same == {c \in DOMAIN charts : charts[c].name = SuiteVisuals[s][i].name}
  IN  IF same = {} THEN lastId + i ELSE CHOOSE c \in same : \A d \in same : c <= d

(* The rows as the session leaves them: the charts of the suite, old or new, *)
(* and all the others.                                                       *)
SuiteRow(s, ids, c) ==
  LET v == SuiteVisuals[s][CHOOSE i \in DOMAIN ids : ids[i] = c]
  IN  IF \E i \in DOMAIN ids : ids[i] = c
      THEN [name |-> v.name, src |-> v.src,
            in |-> {s} \cup IF c \in DOMAIN charts THEN charts[c].in ELSE {}]
      ELSE [charts[c] EXCEPT !.in = @ \ {s}]

(* dashboard.slices = charts; session.commit(). A dataset that somebody else *)
(* registered in the meantime is a violation of the unique key.              *)
SuiteCommits(s) ==
  LET ids == [i \in DOMAIN SuiteVisuals[s] |-> SuiteChart(s, i)]
  IN  /\ suite[s].pc = "open" /\ suite[s].missing \cap datasets = {}
      /\ suite' = [suite EXCEPT ![s] = [pc |-> "idle", missing |-> {}]]
      /\ datasets' = datasets \cup SuiteSources(s)
      /\ charts' = [c \in DOMAIN charts \cup {ids[i] : i \in DOMAIN ids} |-> SuiteRow(s, ids, c)]
      /\ lastId' = IF \A i \in DOMAIN ids : ids[i] \in DOMAIN charts THEN lastId
                   ELSE lastId + Len(ids)
      /\ dashboards' = Put(dashboards, s, ids)
      /\ UNCHANGED <<role, connection, pub, reg, operator, overlapped>>

(* Trino, a missing column or the unique key: the session is rolled back. *)
SuiteFails(s) ==
  /\ suite[s].pc = "open"
  /\ suite' = [suite EXCEPT ![s] = [pc |-> "idle", missing |-> {}]]
  /\ UNCHANGED <<superset, role, connection, pub, reg, operator, overlapped>>

-----------------------------------------------------------------------------
(* main of register_bi_connection: a URI of the wrong scheme, identity or    *)
(* encoding, or one without certificate verification, ends with exit 2;      *)
(* otherwise _persist_connection commits the row, working or not, or fails.  *)
RegisterConnection(valid) ==
  /\ reg.pc = "idle"
  /\ \/ /\ ~valid /\ reg' = [pc |-> "exit2", before |-> connection]
        /\ UNCHANGED connection
     \/ /\ valid /\ reg' = [pc |-> "persisted", before |-> connection]
        /\ connection' \in {"working", "broken"}
     \/ /\ valid /\ reg' = [pc |-> "exit3", before |-> connection]
        /\ UNCHANGED connection
  /\ UNCHANGED <<superset, role, pub, suite, operator, overlapped>>

(* _verify_connection: a broken connection fails, and so may a working one. *)
Verify(answered) ==
  /\ reg.pc = "persisted"
  /\ answered => connection = "working"
  /\ reg' = [reg EXCEPT !.pc = IF answered THEN "exit0" ELSE "exit3"]
  /\ UNCHANGED <<superset, role, connection, pub, suite, operator, overlapped>>

(* provision: the role converges to the required set, or nothing changes. *)
Provision(inventory) ==
  /\ role # RequiredPermissions
  /\ RequiredPermissions \subseteq inventory
  /\ role' = RequiredPermissions
  /\ UNCHANGED <<superset, connection, pub, suite, reg, operator, overlapped>>

BiNext ==
  \/ \E p \in Publications :
       \/ \E d \in Dashboards, direct, permitted, publish \in BOOLEAN :
            Request(p, d, direct, permitted, publish)
       \/ Publish(p)
  \/ operator = "suite" /\ \E s \in Suites : SuiteOpens(s) \/ SuiteCommits(s) \/ SuiteFails(s)
  \/ operator = "register" /\ \E b \in BOOLEAN : RegisterConnection(b) \/ Verify(b)
  \/ operator = "provision" /\ \E inventory \in {{}, RequiredPermissions} : Provision(inventory)

BiSpec == BiInit /\ [][BiNext]_biVars

-----------------------------------------------------------------------------
Slugs == {SlugOf[d] : d \in Dashboards} \cup Suites

(* Types, and that layouts and publications only name rows that are there. *)
BiTypeOK ==
  /\ datasets \subseteq DOMAIN Standing
  /\ \A c \in DOMAIN charts : charts[c].src \in DOMAIN Standing /\ charts[c].in \subseteq Slugs
  /\ DOMAIN dashboards \subseteq Slugs
  /\ \A s \in DOMAIN dashboards : \A i \in DOMAIN dashboards[s] : dashboards[s][i] \in DOMAIN charts
  /\ connection \in {"none", "broken", "working"}
  /\ \A p \in Publications : pub[p].pc # "idle" => pub[p].next \in 1 .. Len(Shown(p))

AgentNames == UNION {NamesOf(Visuals[d]) : d \in Dashboards}

(* Some specification whose sources were approved has this slug. *)
SlugApproved(s) == \E d \in Dashboards : SlugOf[d] = s /\ SourcesApproved(d)

(* _validate_publication_governance fails closed before any side effect: a   *)
(* chart of an agent is drawn from an approved dataset (only a specification *)
(* that gives one source id two datasets could make it otherwise), and a     *)
(* specification with a refused source leaves nothing at all behind.         *)
NothingUnapproved ==
  /\ \A c \in DOMAIN charts : charts[c].name \in AgentNames =>
       \/ Approved(charts[c].src)
       \/ \E d \in Dashboards : charts[c].name \in NamesOf(Visuals[d]) /\ ~OneSource(d)
  /\ \A s \in DOMAIN dashboards \ Suites : SlugApproved(s)
  /\ \A c \in DOMAIN charts : \A s \in charts[c].in \ Suites : SlugApproved(s)
  /\ \A p \in Publications : pub[p].completed # {} => SourcesApproved(pub[p].spec)

Exists(artifact) ==
  CASE artifact[1] = "dataset" -> artifact[2] \in datasets
    [] artifact[1] = "chart" -> artifact[2] \in DOMAIN charts
    [] artifact[1] = "dashboard" -> artifact[2] \in DOMAIN dashboards

(* "Superset publication failed after {completed}": what an answer lists is  *)
(* there, whichever of the calls failed or was lost.                         *)
ReportTrue == \A p \in Publications : \A a \in pub[p].completed : Exists(a)

(* A publication of what the builders made that was not disturbed and        *)
(* answers "completed" has its layout, with every chart of it, its charts on *)
(* the right datasets, and every chart on this dashboard, also when it       *)
(* repeats one that failed half way.                                         *)
CompletedIsWhole ==
  \A p \in Publications : pub[p].pc = "completed" /\ pub[p].alone /\ pub[p].spec \in Built =>
    /\ Slug(p) \in DOMAIN dashboards
    /\ dashboards[Slug(p)] = LaidOut(p)
    /\ \A i \in DOMAIN Shown(p) :
         LET c == pub[p].drawn[Shown(p)[i].id]
         IN  /\ \E k \in DOMAIN dashboards[Slug(p)] : dashboards[Slug(p)][k] = c
             /\ charts[c].name = Shown(p)[i].name /\ charts[c].src = Shown(p)[i].src
             /\ Slug(p) \in charts[c].in

(* Publications that do not overlap never duplicate a chart, although each   *)
(* of them may have lost an answer: the next one finds the row by name.      *)
NoDuplicates ==
  ~overlapped => \A c, d \in DOMAIN charts : charts[c].name = charts[d].name => c = d

(* main: "2 input was rejected; nothing was written", and exit 0 only for a  *)
(* connection that answers.                                                  *)
ExitCodesTrue ==
  /\ reg.pc = "exit2" => connection = reg.before
  /\ reg.pc = "exit0" => connection = "working"

(* bi_adapter.py: what governance has refused leaves nothing behind, and     *)
(* charts show what it has checked, but for a source id of two datasets;     *)
(* what an answer says is there, "completed" is whole, publications that do  *)
(* not overlap duplicate nothing, and the exit codes of the registration are *)
(* true.                                                                     *)
PublicationTrue ==
  /\ BiTypeOK /\ NothingUnapproved /\ ReportTrue
  /\ CompletedIsWhole /\ NoDuplicates /\ ExitCodesTrue

(* Every admitted publication ends. *)
PublicationEnds == \A p \in Publications : Publishing(p) ~> pub[p].pc \in Ended
=============================================================================
