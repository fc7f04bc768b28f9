# Formal models of the payments platform

TLA+ modules for the parts of this repository in which several processes, a
message log, an object store, a database, a thread pool or files on disk have to
agree: the source generators, the payment producer, the Kafka to Raw archiver
with its dead letters, the lifecycle job, the lakehouse transforms with the DAG
that drives them, the master data, and the agent API with the dashboards it
publishes. All are model-checked with TLC on small instances; the main safety
properties of every part are also proved with TLAPS for every value of their
constants, except what the generators compute over dates and amounts.

`PROJECT.json` lists the components, the runs, the source lines every definition
stands for, the hazards and which property covers each, the findings, the
mutants (a plausible bug per property, under which TLC finds it violated) and
the theorems.

## 1. Inventory

Generators write the records of five payment systems to files; a producer sends
them to Kafka, a consumer archives them in an object store (Raw) and a Flink job
follows each payment's lifecycle. The platform transforms Raw with dbt and Trino
on Nessie branches of an Iceberg catalog (Bronze, Silver, Vault, Gold) under a
control plane that Airflow calls, and serves the tables to dashboards and agents.

| Component | State it keeps | Operations | Talks to |
|---|---|---|---|
| Raw archiver, payment path (`services/kafka-consumer-events`) | Kafka position and committed offset; the record in hand and its attempt; Raw objects; DLQ envelopes | poll, deserialize, head, serialize, put, commit, retry, publish to the DLQ, fail-stop | Kafka, Schema Registry, MinIO |
| Raw archiver, CDC path (same process) | the same, with quarantine objects instead of a DLQ | decode and normalise, head and compare, put, commit, exit | Kafka, MinIO |
| DLQ replay tool (`replay_dlq.py`) | none of its own; the DLQ | scan for duplicates, refuse, produce | Kafka |
| Replay ledger (`services/shared/replay_ledger.py`) | requests and attempts in SQLite | reserve, transition | its demo only |
| Transform control plane (`orchestration/transform_runtime`, `job_runner/transform_worker.py`) | `transform_runs`, `batch_executions` with leases in PostgreSQL; Nessie branches; the worker's claim and child | create_run, submit_batch, transition, request_cancel, claim, heartbeat, finish, orphan, reconcile_expired, branch and namespace creation, start/kill the child | PostgreSQL, Nessie, Trino, dbt |
| Protected bootstrap (the same worker, `services/shared/materialise_token_link.py`) | `protected_bootstrap_executions`; staging and final table on the run's branch | submit, queue, cancel, reconcile, claim, finish; check, create, fill, rename, settle, verify, clean up | PostgreSQL, Trino |
| Transform child execution (`job_runner/transform_execution.py`) | one child process, its deadline and output | start Trino, Popen, poll, kill, collect | dbt child |
| Raw to Bronze (`job_runner/raw_to_bronze_executor.py`) | one Iceberg table and one Parquet file per model | count, create, write, register, verify | MinIO, Trino |
| Platform job runner (`job_runner/api.py`, `planner.py`, `transform_jobs.py`, `raw_readiness.py`) | execution results | plan, preflight, run, submit and poll batches | subprocesses, control plane |
| Airflow DAGs | task state in Airflow | call the two APIs, retry | control plane, job runner |
| Payment producer (`services/payment-producer`) | librdkafka's local queue, delivery counters | produce, poll, flush, exit | Kafka |
| J1 lifecycle job (`platform/flink/jobs`) | keyed state, seen event ids with a TTL, checkpoints | deduplicate, update, emit, restore | Kafka |
| MDM publisher (`services/mdm-publisher`) | the plan of an authority | validate, plan, publish | registry files, Kafka |
| MDM resolver and store (`services/shared/mdm`) | golden records, crosswalk, quarantine | resolve, persist | PostgreSQL or JSON files |
| Source generators (`services/payment-xml-generator`) | the files of a data directory | compute, validate, clean, write, chain | each other, through the files |
| Agent API, tools (`services/agent-api/tools.py` and the agents) | futures of one shared pool, calls of a request | call, retry, time out, nested calls | Trino |
| Agent API, governance (`governance.py`, `classification.py`, ...) | approval registry, audit trail | authenticate, bind roles, classify, decide, audit, mask | tools |
| Agent API, plans (`multi_agent.py`) | the steps and their results | plan, validate, guard, run | agents |
| BI publication (`bi_adapter.py`, `platform/superset`) | datasets, charts and dashboards of Superset; its Trino connection and publisher role | ensure, put, layout; build a suite dashboard; register; provision | Superset |
| Tokeniser, lifecycle planner, machine learning, dbt models, programme tooling, Terraform, provisioning | files and tables of their own | batch computations | |

What is hard, by component, and what makes it correct:

* **Archiver.** At-least-once delivery with a deterministic sink. Everything
  that leaves the process may fail after it took effect; the process may die
  between any two calls; a rebalance may hand a record to a second member while
  the first one still holds it and later commits it. Correct means: an offset is
  committed only when everything below it is durable, nothing is skipped, a
  replay does not rewrite, poison records do not block a partition for ever.
* **CDC path.** The same without retries: every failure ends the process. What
  is stored carries the time of the delivery, which a redelivery does not repeat.
* **Dead letters.** A replay is an ordinary record that may be quarantined
  again, and the scan that precedes it sees only a part of the topic. Correct
  means: a replay carries what was quarantined, exit codes are true, a complete
  scan refuses duplicates; a ledger reserves and starts an identity once.
* **Control plane.** Check-then-insert admissions, decided by partial unique
  indexes; leases that expire while a worker is still building; late reports;
  cancellations; two workers on a branch. Correct means: one active run, one
  active execution per batch, prerequisites really built, success really built,
  never two builders, terminal means final, a failure ends its run, everything
  that was queued ends.
* **Bootstrap.** A RENAME whose outcome may be unknown publishes restricted
  data. Correct means: never created twice, never replacing anything, success
  only over our own table, evidence kept for a reconciliation.
* **Bronze.** A model is counted and copied by two queries over a Raw that
  grows, and attempts of one execution repeat each other's steps. Correct means:
  no row registered twice, PASS only over what was published.
* **DAG.** A task may be repeated after an answer that was lost. Correct means:
  a batch is accepted only if it was built, nothing runs before what it needs.
* **Stream.** Deliveries are answered in callbacks, and a restore rewinds state
  and offsets but not the sinks. Correct means: exit 0 means delivered, nothing
  is lost, what is emitted twice is explained.
* **Agent API.** Threads that wait for threads of the same small pool, workers
  whose caller has gone, approvals that change during a read. Correct means:
  every request is answered, limits are kept, and no restricted value in clear
  without a role bound to the subject it is read for, an approval and an audit
  record.
* **Superset.** Look up, then write, with names that are not unique. Correct
  means: the answer tells what is there, and an undisturbed publication
  duplicates nothing.
* **Generators.** Five programs derive one loan's payment by their own indices
  from files that a kill may tear or an earlier run may have left. Correct
  means: every system tells the same story of a loan; positions follow from
  events for every date; a clean finished chain leaves no file of an earlier one.

The hazards are listed one by one, with their lines, in `PROJECT.json`.

## 2. Modules

    RawArchive            what an archive promises
      RawConsumer           payment path            -> RawConsumerProofs
      CdcConsumer           CDC path                -> CdcConsumerProofs
    TransformControl      admission, queue, workers -> TransformControlProofs
    ProtectedBootstrap    one bootstrap             -> ProtectedBootstrapProofs
    PlatformPipeline      the DAG and its clients   \ MCPipeline
    BronzePublication     the first batch's executor /     -> PipelineProofs
    PaymentProducer       files to Kafka            \
      LifecycleJob          Kafka to lifecycle state  |
    MdmPublisher          registry to Kafka           | MCStream
    DlqReplay             dead letters back to Kafka  |    -> StreamProofs
    ReplayLedger          reservations of replays    /
    AgentTools            calls on the shared pool  \
    AgentGovernance       a governed read             | MCAgent
    AgentPlans            plans of several agents     |    -> AgentProofs
    BiPublication         everything into Superset   /
    PdmisData             what pdmis computes       \
      SourceMessages        what the others derive    | MCSources
        SourceGenerators      programs over files    /     -> SourceProofs
    MC<Name>              instances for TLC, with <Name>.cfg or <Name>_<run>.cfg

Modules that an MC module brings together share nothing in the code, apart from
`LifecycleJob`, which extends the producer that feeds it. `part` therefore says
which of them a behaviour exercises; the others are switched off. A property of
such a part is the conjunction of its promises. It is stated in the component's
own module, beside the part's own specification (`ProducerSpec`, `JobSpec`,
`MdmSpec`, `ReplaySpec`, `LedgerSpec`, `PublicationSpec`, `PlanSpec`,
`GovernanceSpec`, `BiSpec`), so that the run and the theorem are about the same
formula.

### RawArchive

Three variables (log ends, archived records, committed offsets) and three
actions: records are appended, become durable in offset order within a
partition, and an offset is set only just behind a record at and below which all
is durable. The offset may be set back. Both consumers implement it, with
`archived` mapped to the records that are durable.

### RawConsumer

| Model | Code |
|---|---|
| `pc[m]`, `cur[m]`, `attempt[m]` | where `process_message` is, its `msg`, its loop variable |
| `puts[r]` | the Raw object of a record, with the number of its writes |
| `dlq[r]` | the envelopes of a record on the DLQ, by their `retry_count` |
| `position`, `committed`, `owner` | the consumer's position, the group's offset, the assignment |
| `Poll` ... `Commit`, `Retry`, `Dlq*`, `FailStop` | the calls of `main` and `process_message`, each with its failing variant |
| `Undecodable`, `NullValue`, `Unserializable` | the three ways in which a record itself is bad |

A record is its coordinate (topic partition, offset), from which both the object
key and the failure id are computed; the payment path's key takes its day from the Kafka
timestamp of the record, which a redelivery repeats. A null value is decoded to
`None` and fails in the store with an `AttributeError`, so it is retried, and is
decoded again at each attempt. A failing call may have taken effect. The
retry topic is an audit trail nobody reads and is left out; that publishing to
it may raise and end the process is `RetryRaises`.

### CdcConsumer

As above, with `stamp[m]` for the `ingestion_timestamp` that `main` takes from
the clock at each delivery, `keyDay[m]` for its day, and `objects[r][d]` for the
stamp in the object of a record under the key of day `d`. A valid change goes to
Raw and a malformed one to the quarantine by the same steps (head, compare, put)
with the same errors, so an object stands for either. The topic map is empty at
this commit: the model is of the path as it would run for an activated topic.

### TransformControl

`run`, `status`, `holder`, `lease`, `cancelling` are the columns of the ledger;
`creating` and `handler` are API requests between their SELECTs, their INSERT
and the separate transition to QUEUED; `wpc`, `work`, `result` are `run_once`
of each worker; `branch` is the run's Nessie branch (absent, at its base, moved).
A lease is live or expired: it may expire at any time, since a heartbeat may be
late. `Close` is the update that all terminal paths share, with the parent run
in the same transaction. `built` and `clashed` are history variables.
Idempotency keys are the identities of rows: the run and the batch a key is for
are constants, as a key reused with another meaning is rejected.

### ProtectedBootstrap

One row (a run has at most one, and its tables are on the run's own branch), the
workers, and the child statement by statement. `token` counts claims, which
stands for the unique lease token. `final` tells our table from somebody else's,
as `_provenance_matches` does. `ReconcilerRuns` says whether
`reconcile_expired_protected_bootstraps` is ever called; nothing in the
repository calls it.

### PlatformPipeline

The task instances of one DAG run after the other (`task`, `tries`, the edges
drawn in the DAG, `max_active_tasks`, retries), the transform run each creates
and its ten batches as a client sees them. A call may fail after it was applied,
so a batch may be queued although its task is repeated under the same key. The
job runner answers according to `enabled`: the DAG's dry-run jobs report success
without running, and with real execution it refuses all but the preflight and
the readiness check.

### BronzePublication

`raw` is how many rows each model selects, `table` the files registered with
each table, `object` the Parquet object of a model and an execution. An attempt
goes through the calls of `execute_model` for one model after the other: count,
look for the table, copy, create, register, count again; what it finds of its
own execution it accepts, what is partial or of another one it calls ambiguous.
It may die anywhere, and attempts of one execution or of two overlap.

### PaymentProducer and LifecycleJob

The producer's `queue` is librdkafka's: a message in it is waiting, stored
without an answer, or answered and not yet reported to `poll` or `flush`. `log`
are the topics. A file may not parse, may have no topic, or may meet a full
queue; the command may be run again, which gives every event but the technical
ones a new id. `todo` is what is left of `XmlWork` and `JsonWork`, the events of
the files that have a topic. The job reads the same `log`: `job` holds offsets, keyed state
and the dedup state, `snap` the checkpoint under way, `ckpt` the last completed
one, `unsent` what the sinks have not flushed. `Restore` goes back to `ckpt` and
leaves the output topics as they are; `Expire` is the TTL of a dedup entry.
`epoch` and `expired` are history variables that count restores and remember
that an entry has expired.

### MdmPublisher

The three readings of the record files (validation, the plan that is printed,
the plan that is published), with an edit possible between any two; both
authorities and all three modes; delivery answers and the exit status. A plan is
built record by record of the registry, `at` being how many were planned, so
that an edit may also fall between two records.

### DlqReplay and ReplayLedger

`source` is the topic with the records that were replayed into it and where they
came from, `dlq` the envelopes. A command reads the envelope, scans until its
deadline, refuses or produces, and exits; the consumer goes on beside it. The
ledger is its two tables, the write lock, and the clients between the statements
of a transaction; a client that dies gives the lock back and leaves no change.

### AgentTools

Threads are request handlers and pool workers. `todo[t]` is what a thread has
still to call; a call tests the limit, reserves itself, submits a future and
waits for it or for its deadline; a tool such as a data quality check puts
further calls into the `todo` of the worker it runs on. `spent` and `lapsed` are
history variables. The tools each agent calls, in their order, are those of the
agent classes; `AgentKeys` are the agents a request may name, and `/dq/profile`,
whose handler calls one tool without an agent. `LateResult` is a deadline that
passes just before the result: the future is done when it is looked at, its
exception is `None`, and raising that is a `TypeError`, which is not retried.

### AgentGovernance

A request goes through authentication, role binding, classification of the
datasets and of the fields of its projection, the policy, the audit, the query
and the masking of rows. The role, classification and masking tables are the
code's. Approvals are entered and withdrawn at any time.

The caller that the token verifies (`input.caller`) and the subject, whose roles
and approvals count (`input.subject`), are two fields of a request: the code
takes the subject and the claimed roles from the body and compares them with
the bindings of the server, not with the token. What is checked and proved is
therefore about the subject a request names.

A query is the sequence of the expressions of all its SELECTs in the order of the
traversal (`projection`), each with its label, its columns and the label it is
answered under, if it is of the outermost SELECT. `Projected` and `Lineage` are
computed from it as the code does: all columns of all expressions are projected,
while the lineage of a label is the first column of the last expression that has
it. `MCAgent` has queries where the two tell different stories: an expression of
two columns, an inner and an outer SELECT that use one label for two columns,
and one without an alias.

### AgentPlans

`stack`, `visited`, `ordered` are the nested calls of `visit`; then the steps run
in that order with a guard before each, and the outcome follows from `results`.
The plans are those of the deterministic planner and arbitrary ones, with
unknown agents, and a handler may answer with any `StepStatus`.

### BiPublication

Superset as its rows: datasets with a unique key, charts by the ids the database
gives them (`lastId`) and with names that are not unique, dashboards by slug with
the chart ids of their layout. A publication
looks every chart up and writes it, then the dashboard; any call may fail, also
after it was applied. `sources` and `drawn` are the dictionaries of `publish`: by
source id the dataset registered for it, which is that of the first source with
the id, and by visual id the chart. `SourcesApproved` is the governance check,
which sees the last source of an id. A specification is one that the builders
make (`Built`, of which `BiAssumption` says what `DashboardBuilder` guarantees)
or any of the body of `/publish/superset`, which may give a source id two
datasets, repeat an id, or lay out a chart it does not have. The dry run of
`/agents/dashboard` needs no publication authority. Beside it an operator builds a suite dashboard, registers
the Trino connection, or provisions the publisher's role. `alone` remembers of a
publication, and `overlapped` of the behaviour, whether another writer was at
work at the same time.

### PdmisData, SourceMessages, SourceGenerators

`PdmisData` computes what `pdmis_generator.py` computes for a case: region and
SACCO, lifecycle dates with month ends and leap years, repayment events up to
the observation date, the position they leave, and the validators. Amounts are
whole numbers of a unit in which every multiplier of the code is whole. The
module was compared with the program's own output: 217 loans agree in every
modelled field, and so do the regional counts for every total from 9 to 5000.
`SourceMessages` derives the payment context and the message of each of the
other five generators, reduced to the fields they share: references, amount,
currency, account, network, agent, dates, and the outcome in each system's own
words. `SourceGenerators` has the
programs as lists of file operations: read, clean, compute, validate, write; a
kill leaves the file under way torn. A loop over payment contexts is a list of
writes, in which a context without the file is a `skip`; a clean is the set of
the paths it removes, one at a time. `mdm_generator` resolves the masters and
persists them as one transaction, or file by file. Jobs are any lists of
programs; `JobsAssumption` says of those that begin with pdmis that the masters
come after the agents, whose roster they read.

## 3. Runs

| Run | Checks | Result |
|---|---|---|
| `raw` | `OffsetInvariant`, `NothingSkipped`, `RetriesHarmless`, `ImplementsArchive`, `EveryRecordArchived` | hold, 84 k states |
| `cdc_safety` | `OffsetInvariant`, `NothingSkipped`, `ImplementsArchive` | hold, 153 k states |
| `cdc_replay` | `ReplayIdempotent` (operational contract) | violated: a redelivery never equals what is stored |
| `transform_safety` | `OneActiveRun`, `PrerequisitesBuilt`, `OneBuilder`, `NeverRevived` | hold, 333 k states |
| `transform_live` | `OneActiveExecution`, `EveryBatchEnds`, with a batch under two keys | hold, 150 k states |
| `transform_branch` | `BranchCreationIdempotent` (`ensure_nessie_branch`) | violated: the loser of the race orphans its run |
| `bootstrap_safety` | `PublishedIsOurs`, `CreatedOnce`, `NeverReplaced`, `SettledForever` | hold, 66 k states |
| `bootstrap_crash` | `ClaimedEnds` when a worker dies (`run_once_protected_bootstrap`) | violated: nothing reconciles the row |
| `pipeline` | `DagTrue`, `AcceptedIsBuilt`, `BronzeKept`, `PipelineEnds` | hold, 299 k states |
| `stream` | `ProducerTrue`, `JobExact`, `MdmTrue`, `ReplayTrue`, `LedgerOnce`, `StreamEnds` | hold, 267 k states |
| `agent` | `ToolsBounded`, `AccessGoverned`, `PlanKept`, `PublicationTrue`, `AnswersCome`, `QueueDrains` | hold, 202 k states |
| `sources` | `DatasetTrue`, `MessagesAgree`, `MastersHonest`, `RunEnds` | hold, 89 k states |

`raw` and `transform_safety` also check the type invariant of their module; in
the composed runs it is a member of the first property of each part. What the
conjunctions say (the constants' bounds are those of the run; section 4 has the
ones that are also proved without bounds):

* `RetriesHarmless`: the position never outruns the archive; an object is
  written at most once per member, and once if no partition was taken from a
  live member; only permanent errors skip the retries.
* `DagTrue`: tasks are started only above what they need, so the control plane
  never refuses a batch; while a run is active no later DAG run gets one.
  `AcceptedIsBuilt`: a run is accepted only if all its batches were built.
* `BronzeKept`: a table has one file at most, PASS means that this execution's
  file is in it and stays, and a registered object is not overwritten.
* `ProducerTrue`: exit 0 means that every event that was read and has a topic was
  acknowledged; each event is counted once; nothing is stored twice but by a rerun or a retry.
  `JobExact`: what a checkpoint covers has reached the sinks; a second
  transition of an event means a restore or an expired entry; retries are
  counted once per event; transitions chain. `MdmTrue`: exit codes are true and
  an authority publishes its own records only, although files change.
* `ReplayTrue` and `LedgerOnce`: as in section 1.
* `ToolsBounded`: the limit of calls is exceeded by no more than the workers a
  request has abandoned, the work by no more than the retries, and a request
  none of whose deadlines passed leaves nothing in the pool. `AnswersCome` and
  `QueueDrains`: the pool may wait for itself, but not for ever.
* `AccessGoverned`: of a column with one source, no restricted value in clear
  unless the server binds a role with that permission to the subject the request
  names, whatever label or roles the request uses (`RestrictedStaysMasked`); of
  any query, no rows but to a verified caller and unless the bound roles admit
  the dataset and deny no field of any expression (`AnswersAdmitted`); no
  restricted row without an approval of that subject, action and dataset; no
  decision unaudited; and a further role never takes anything away.
* `PlanKept`: no cycle is run, no step before its dependencies or above a failed
  one, and the overall status is true.
* `PublicationTrue`: a specification that governance refuses leaves nothing
  behind, and the charts of agents are drawn from approved datasets, except those
  of a specification that gives one source id two datasets
  (`NothingUnapproved`); reports true; `completed` is whole for what the builders
  made; no duplicates unless two writers overlap; exit codes 0 and 2 of the
  registration true.
* `DatasetTrue`: counts, dates, positions and totals of a generated dataset are
  consistent with its events for every observation date, and a chain that begins
  with pdmis never meets an input that is missing, torn or dangling, whatever
  earlier jobs and kills have left (`ChainReadable`).
  `MessagesAgree`: after a finished chain all systems agree about a loan, its
  amount, account, network, dates, agent and outcome (`OutcomesAgree`,
  `AgentsAgree`), except two fields of PLM: its agent reference, and its credit
  status, which says only that a failed payment is not paid out and that a
  credited one is not pending. With `--clean` nothing else is there. `MastersHonest`: no shared verified
  NIN among golden persons, and a crosswalk for every source row, at any time.

**Bounds.** Two members or workers are enough for every race described above, as
each is between a current and a former owner; the theorems remove the bound.
In `raw` two records, the second of which is null, and two retries give a poison
record behind another one and a first, a middle and a last attempt; any delivery
may fail to decode, while `Undecodable` and `Unserializable` are nonempty in the
proofs only. One crash and one rebalance at any step put a record in the hands
of two members. Four stamps let every delivery of a change
in `cdc_safety` differ from the ones before it, two days put midnight between
deliveries. Two runs, a chain of two batches and three keys give an admission
race and a prerequisite in another run; two keys of one batch are a duplicate submission. Two
reconciliations are one after a failed one. `MaxCrashes` also bounds the
exceptions that end a process.

In `pipeline`, two DAG runs show what the first leaves behind, two faults let a
retry fail as well, and three attempts of two executions are a repetition and a
rival. In `stream`, two runs of the producer over five files (technical XML in two
topics, other XML, JSON, and one without a topic), a queue of two and two faults;
the job has one fault, a restore or an expiry, and starts after the last run of
the producer, whose steps commute with its own; two replay commands over two
original records and two envelopes; two ledger clients with two calls each over
requests that share an identity or an id. In `agent`, one worker and two
requests, one of which has tools that call tools, are the smallest pool that
waits for itself, and a request alone on two workers lets the tools of tools
succeed; a limit of three calls is reached by both; a governed
read shares only the registry with others, so one is enough, of a caller that
may differ from the subject; plans are all
dependency relations over three steps, longer chains and malformed lists; two
publications overlap, or one and an operator, one of the specifications being of
a body, with two datasets under one source id. In
`sources`, two jobs of which one may be killed at any operation, four cases that
differ in outcome and wallet, pdmis alone for every day of four weeks around a
month end in the second year and for 34 dataset sizes.

**Deadlock.** The consumers and the transform workers poll for ever; `stream`
has an explicit last state. Elsewhere the work ends and nothing is left to do
(a bootstrap row, answered requests, ended DAG runs, the last job), so deadlock
is not checked there.

**Symmetry.** Members, workers and stamps are interchangeable; symmetry is used
in safety runs only.

**Fairness.** Processes are restarted by `restart: unless-stopped` and their
loops go on: weak fairness of their start and of their steps. In `raw`
also: the coordinator assigns free partitions, and a broker that is asked again
and again acknowledges at some time (strong fairness of `Commit`, `DlqPublish`,
`DlqCommit`); nothing is assumed of the object store or the Schema Registry. In
`transform_live`: a lease nobody renews expires, and an API handler that is not
killed ends. `bootstrap_crash` assumes the progress of the workers, which are
restarted, and of the child. `pipeline`: Airflow starts what is ready, tasks and
queued batches end (their calls have timeouts), attempts go on. `stream`:
librdkafka answers every message within `delivery.timeout.ms`, Flink schedules
operators and checkpoints, every wait of the replay command has a limit, a
ledger client goes on unless it dies. `agent`: handlers run and deadlines pass;
nothing is assumed of Trino, except that `QueueDrains` is conditional on
functions that return; the calls to Superset have timeouts. `sources`: a
generator that is not killed goes on.

## 4. Proofs

Each component that is proved about has an inductive invariant of its own; every
step of its next-state relation has a case of its own. TLC checks the properties
on the instance of a run, and checked the invariants there before they were
proved; those of SourceProofs quantify over all sets, which TLC cannot evaluate,
and rest on their proofs. Assumptions are those named in the
components: bounds are natural numbers, the "no such" values are not members,
sets that are counted (members, files, requests, futures, payloads) are finite,
and functions have the types of the code's tables. They do not bound the number
of members, partitions, runs, keys, workers, files, requests or commands.

* **RawConsumerProofs.** `OffsetInvariant` alone is not inductive: a commit keeps
  it only if the record in hand is durable and so is everything before it.
  `ArchiveInv` adds `Evidence` (at the steps before a commit the record in
  hand is durable), `InLog`, `NothingSkipped` and `PositionFollowsArchive`, which
  is what a poll needs to establish `NothingSkipped`. `RetryRoom` (a member about
  to retry has attempts left) is needed for the types. For `RetriesHarmless`,
  `RetryInv` counts: the writes of an object together with the members that may
  still write it never exceed the members, since a write uses a writer up and a
  member that finds the object does not become one; `HeldByOwner` says that while
  nothing was revoked only the owner holds a record. `ArchiveImplemented` maps
  every step to an append, an archiving, an advance or a stutter.
* **CdcConsumerProofs.** The same argument over objects with days; `Stamped` says
  that what is written is a stamp, so a write only adds durable records.
* **TransformControlProofs.** `ControlInv` adds to the properties that a handler
  about to insert has no row yet, that a worker's execution is RUNNING or
  terminal and held by no other worker, and that a worker reports SUCCEEDED only
  of what was built. `StepShape` summarises once what a step may do to the
  statuses; runs, executions, prerequisites and `NeverRevived` follow from it.
  `OneBuilderHolds` assumes one key per batch of a run: a second key for an
  orphaned batch does give a second builder while the first child is dying.
* **ProtectedBootstrapProofs.** `OneCreation` says that there is at most one
  claim in create mode and that it comes before any RENAME; `Witnessed` that a
  child exits with 0, and SUCCEEDED is reported, only over our own table.
* **PipelineProofs.** `BronzeInv` rests on CREATE TABLE succeeding once:
  `CreatorAlone` says that the attempt that created a table and has not yet
  registered a file is the only one, and finds the table empty; `AttemptsTrue`
  says what an attempt knows at each call, so that what it registers is what it
  has written, and what it verifies is published. `DagInv` ties the three views
  of a batch together: the state of its task, the row of the control plane, and
  what was built (`TasksTrue`, `ControlTrue`, `SuccessTrue`); `PlanRespected` is
  the part of `DagTrue` that needs them. `AcceptedIsBuilt` follows from the same
  invariant: acceptance is above all ten batches.
* **StreamProofs.** The ledger: `LockHeld` (only the holder of the write lock is
  between BEGIN and COMMIT) gives `ReadIsCurrent` (what it has read is what the
  ledger says), and that gives one REQUESTED attempt and one start for an
  identity. The replay command: the scan of a command counts envelopes of a DLQ
  that only grows (`Grown`), so a complete scan has seen all those that were
  there when it began; `ReplaysFaithful` needs that a record of the topic is
  never changed. The producer: `ProducerInv` adds to the counts that a message in
  the queue is on its topic if it was acknowledged and is not there while it is
  unanswered (`QueueTrue`), that what the topics hold was routed there and read
  (`LogTrue`), and `Accounted`, the heart of `ExitZeroDelivered`: as long as
  nothing was counted as failed, an event is to do, in the queue or on its topic.
  The lifecycle job: `JobInv` says of the operators' state, of the checkpoint
  under way and of the completed one the same two things. `FollowsFrom`: it
  knows only events of the log below its offsets, and, unless an entry has
  expired, all of them, with the retries they add up to. `Written`: every event
  and every keyed state it covers is among the records handed to the sinks
  before it. `MovesTrue`: without a restore or an expiry no event has two
  transitions; within an epoch every transition of a correlation begins where
  the one before it ended, and the last one ends at the keyed state, which is
  also the last state record. `OffsetsOrdered` is what a restore needs. That
  transitions chain is stated by positions of the output, so no filter over a
  sequence has to be reasoned about. The MDM publisher: `MdmPlaces` says how the plan, the
  answers and the exit status belong together, `OwnRows` that a plan holds keyed
  rows of one authority, and `TakenIsHeld` that an item was delivered exactly as
  often as the topics hold it, by cardinalities that grow together.
* **AgentProofs.** `PlanInv`: `Sorted` says that every visited step stands behind
  its dependencies in `ordered`, `StackTrue` that the steps on the stack are
  different and not yet visited, and that a dependency `visit` has passed is
  visited or next on the stack, so a step is finished only above finished ones;
  with `Reached` a validated plan has all its steps in the order, and
  `CompletedBelow` and the outcome follow. `GovernanceInv` remembers what a decision was based on:
  `ReadsTrue` says that whatever was cleared had the roles the server binds to
  its subject, a decision the policy gives for them, and, for sensitive data, an
  approval that was in the registry; `AnsweredTrue` that the rows are those the
  mask of that decision gives. For a column with one source every expression that
  could write its lineage has that source, so the last of them does (a set of
  numbers below a bound has a greatest element), which gives
  `RestrictedStaysMasked`. That a further role never makes a decision stricter is a
  fact about the tables, proved field by field (`PermissionsGrow` and after).
  Superset: `BiInv` says of every publication what it knows of the rows at its
  step (`PubTrue`): it passed the check of its sources, the dictionary `sources`
  holds for an id the dataset of some visual that has it (and so an approved one,
  if no id has two datasets: the last visual of the id was checked), the charts it
  has found or written are there under the names of its visuals, and, as long as it
  was alone, they are as it has written them (`Undisturbed`). While nothing overlapped there is at most one publication at
  work, a chart name stands for one row (`NamedOnce`), and a name that was looked
  up in vain is still missing when it is written (`StillMissing`). What the
  commit of a suite does is not computed: it is enough that it adds or keeps
  rows and touches only names of its own, which no agent's chart has
  (`BiAssumption`, which otherwise constrains only the specifications of the
  builders). That the row found is the first of its name uses that every
  set of numbers has a least element.
  Tools: a request without lapsed deadlines is a chain: its
  handler waits for a worker that waits for a worker. Every deadline that lapses
  cuts the chain once, so the threads of a request that wait for nobody are at
  most 1 + `lapsed` (`EndsBounded`). A thread between the test of the limit and
  the reservation is such an end; `CheckedBounded` counts them against the limit,
  which gives `CallsLimited`. `CreditsBounded` counts the retries still open
  together with the functions already run, which gives `WorkBounded`.
  `WaitsApart` (no future has two waiters) keeps the chains apart.
* **SourceProofs.** The programs are lists of operations of any length, so the
  invariants speak of the set of the operations still to do (`TrueOps`) and not
  of the lists. `MastersInv`: what the resolver may read is finite and has every
  person under a number of its own, every operation still to do keeps it so
  (`Proper`, `OpTrue`), and the tables are honest. What is honest comes from `resolve`: persons with one verified NIN
  are quarantined together (`ResolvedHonest`), so a resolution of any
  beneficiaries can be written, file by file or as a transaction, in any prefix.
  `ChainInv`: once pdmis is done in a chain its files are there and refer to each
  other (`Prepared`); `PdmisAhead` and `AgentAhead` say how far the program that
  writes them is, so that a file which is not there yet is still to do;
  `ValidLoadable` says that what pdmis validates is what `load_pdmis_context`
  demands; the other programs neither clean nor overwrite their inputs
  (`Harmless`).

`FailureEndsRun`, `SuccessWasBuilt`, `EvidenceKept`, `PositionFollowsArchive` and
the type invariants of `CdcConsumer` and `ProtectedBootstrap` are proved and have
no run of their own; `ChainReadable` is proved and is a conjunct of `DatasetTrue`.

Only model-checked:

* the liveness properties (`EveryRecordArchived`, `EveryBatchEnds`,
  `PipelineEnds`, `StreamEnds`, `AnswersCome`, `QueueDrains`, `RunEnds`), which
  the prover does not treat;
* the rest of `DatasetTrue` (the position of a loan, quotas, payments kept,
  refusals): sums over events and recursive functions over months and cases,
  about which a fact for every input needs induction over data;
* `MessagesAgree`: the n-th message of each system is found by counting loans,
  and the statements are sums.

## 5. What is not modelled

* **Not modelled**: the machine learning jobs (floating point); the dbt models
  (data transformations without shared state); data protection and the
  tokeniser (keyed hashes); the lifecycle planner (a dry-run classification by
  age); CDC contracts (static); programme tooling, Terraform and provisioning
  (formatting and configuration); `pdm_history_generator`.
* **Left out of modelled parts**: contents of records, tables and commands;
  delays and backoff; the SQLite ledger used by tests and the transform API's
  disabled mode; `promote_run`, `reject_prerequisite_if_owned` and
  `protected_bootstrap_succeeded`, which nothing calls; the start of the private
  Trino other than that it may fail; `PlatformExecutor`, which runs host commands
  and is disabled by default; the DAG `pdm_generate_source_data`, a single call;
  SLA fields of the lifecycle job; rate limits, evidence endpoints and texts of
  the agent API; queries and layouts of dashboards, and the suite builders other
  than the national overview, and of that the aliases of renamed charts (538-544);
  the status check of a specification in a request's body
  (`_validated`); names, references and XML of the generators; the pool slot of
  one that the run and batch tasks share (the model lets them overlap, which
  only adds behaviours); the order in which `glob` lists the files a clean
  removes (any order leaves the same files at its end). Of the validators of
  `pdmis_generator`, those that can only refuse what the generator never makes:
  allocation and rate checks of single events (2271-2284, 2297-2303, 2315-2323,
  2332-2343), uniqueness of phones, accounts and groups (2186-2239), and the
  refusals of `argparse` (a count below one, a start date not before the
  observation date, 2622-2627), before which nothing is written. What Trino
  makes of single statements is taken as any of their outcomes; in particular the
  model does not decide whether `validate_table` finds the staging table by the
  unqualified name it is given (`materialise_token_link.py:246`).

What could be added: the suite builders other than the national overview as
further actions of `BiPublication`, and the promotion of a run once something
calls it.

## 6. Disagreements that have no run of their own

Three disagreements between the code and what is said about it have a run each
(`cdc_replay`, `transform_branch`, `bootstrap_crash`). The following can be read
off the models, or were met while writing them.

Archiver and dead letters:

* The README (line 94) says that transient failures are retried, but a failure
  of the Schema Registry is treated as permanent
  (`kafka_consumer_events.py:1335`).
* `DlqPublishFailedError` says that a record "was neither stored durably nor
  DLQ'd durably", but `failStop` is also reached by `DlqCommitFails`, after the
  DLQ has acknowledged the record.
* `deterministic_cdc_s3_key` is documented as a key of the Kafka coordinate, but
  has the day of the delivery in it: `Poll` after `NewDay` gives a redelivered
  change a second object. `ReplayIdempotent` is therefore checked within a day.
* `replay_dlq` leaves no trace in the DLQ: repeated, or run by two operators, it
  injects the same record twice. Its scan reports fewer envelopes than there are
  when the deadline ends it: `DuplicatesRefused` is said of complete scans only.

Control plane and pipeline:

* `ensure_nessie_branch` says that a branch whose hash has drifted is a
  conflict, but `FindBranch` compares the name only, and the second batch of a
  run always finds its branch moved.
* A bootstrap child that fails or is cancelled after the RENAME was applied
  leaves FAILED or CANCELLED with NOT_STARTED over a published table
  (`transform_worker.py:338`; the docstring at 260 says otherwise).
* A handler that dies between `submit_batch` and `transition` leaves the row
  ADMITTED (`api.py:98`); `claim` does not look whether the run has ended
  (`durable_queue.py:54`); cancelling a RECONCILE_QUEUED row leaves it where no
  claim takes it (`durable_queue.py:116`).
* A repeated POST of a batch under its key is refused unless the row is still
  ADMITTED, so a retried task of the DAG fails although its batch is being built.
* `create_runtime_run` has no upstream task: a run is created even when the
  preflight fails, and blocks later DAG runs, as does a run that succeeded.
* The Bronze executor's count and copy differ while Raw grows, and its
  verification then fails; a death after CREATE TABLE makes every retry ambiguous.

Producer and lifecycle job:

* A full librdkafka queue raises in `produce`, and the `poll` that would make
  room is in the same `try`: the event, and those that follow until the broker
  answers, count as failed. Files without a topic, and JSON files that do not
  parse or hold nothing routable, are skipped with exit status 0.
* `select_business_key` says that "event_id is intentionally never used"
  (`kafka_producer.py:136`), but falls back to `message_id`, which for a JSON
  record may be its `event_id` (line 620) or, without any id, a fresh uuid.

Agent API and Superset:

* `docs/architecture/agent-platform-security-review.md` says that "every security
  decision resolves to server-side state" (14-15) and that the verified subject
  is what the roles are resolved for (134-137), as does `authority.py:3-11`.
  `authentication_hook` stores the token's subject in `request.state`
  (`api.py:229-236`), while the subject and the
  roles that governance uses are those of the body (`orchestrator.py:302-376`,
  `authority.py:149-155`); nothing compares the two. `AccessGoverned` is
  therefore a statement about the subject a request names, and says of the caller
  only that the token was verified.
* "Masking follows FIELD LINEAGE" (`tools.py`), but the lineage of a label is the
  first column of an expression (`classification.py:910`) and the last of all
  SELECTs that use the label (921); an expression without an alias is answered
  under a label of Trino's, for which there is no lineage. `AccessGoverned` says
  what holds of every column (`AnswersAdmitted`, approvals, audit), and of
  clear values only for columns with one source.
* The governance check of a publication keeps the last source of an id
  (`bi_adapter.py:151-155`), and `publish` registers the first (96-97). The
  builders make an id from its dataset, so the two are one; a specification of
  the body of `/publish/superset` (`api.py:1077-1112`) need not.
* `check_bi_publication` compares the table name only (`bi_policy.py:147`), and
  `_upsert_dataset` looks a dataset up by schema and table without its catalog.
* A result that arrives between the deadline and `future.done()` is raised as
  `None` (`tools.py:183-185`): the call fails with a `TypeError` and is not
  retried (`LateResult`).
* The `/dq` endpoints build a `ToolRegistry` without a governance request, which
  every governed tool refuses.
* The documented minimal permissions of the publisher lack reading databases and
  writing datasets, which a publication needs.
* Chart names are fixed per objective, so two dashboards share, and overwrite,
  each other's charts.
* The registration of the connection overwrites the row and commits before it
  tests it: exit 3 leaves the broken row.

Generators:

* `pdmis_generator.py:51` says that generation fails before files are written
  when validation fails, but some validators run after the first writes
  (2705-2728).
* Without `--clean` files of a larger earlier run stay and are read by the next
  generator. A change of the month of the observation date assigns cases to
  other cohorts.
* A disbursed loan is never partial nor of the default-prone kind, slot 17 of
  the payment scenarios is never reached, and PLM says CREDITED of payments that
  were rejected (`generator_common.py:459-462`).
* PLM's agent reference is the number of the loan modulo 50
  (`generator_common.py:475`), while the agent of a loan is that of its SACCO in
  the roster and in Wendi (`agent_network_generator.py:174`,
  `wendi_generator.py:359`): it names another agent, or one the roster does not
  have.
