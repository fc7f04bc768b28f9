------------------------- MODULE BronzePublication -------------------------
(* raw_to_bronze_executor.py: an attempt publishes the models of its batch,  *)
(* one after the other, on the branch of the run.  DuckDB counts the rows of *)
(* a model and later copies them to a file that carries the execution id;    *)
(* Trino creates the table, registers that file and counts the rows again.   *)
(* Raw grows meanwhile, an attempt may be repeated under its execution id    *)
(* (POST /v1/transforms), and another execution may run on the same branch.  *)
(*                                                                           *)
(* Abstracted: the rows of a model are their number; columns, locations and  *)
(* connections that do not fit are failures (Fail).                          *)
EXTENDS Naturals, Sequences, SequencesExt

CONSTANTS
  Attempts,    \* processes running the executor
  ExecutionOf, \* TRANSFORM_EXECUTION_ID of each
  Models,      \* the models of the batch, in the order of argv
  MaxRaw       \* bound on the rows of a model

(* main ends at once when argv is empty. *)
ASSUME BronzeAssumption ==
  /\ MaxRaw \in Nat \ {0}
  /\ Models \in Seq({Models[i] : i \in DOMAIN Models}) /\ Models # <<>>

VARIABLES
  raw,     \* rows each model selects from Raw
  table,   \* files registered with each table; NoTable before CREATE TABLE
  object,  \* rows of the Parquet object of each model and execution; 0: none
  attempt  \* the attempts

bvars == <<raw, table, object, attempt>>

Executions == {ExecutionOf[a] : a \in Attempts}
ModelSet == {Models[i] : i \in DOMAIN Models}

File(e, n) == [execution |-> e, rows |-> n]
NoTable == <<File("absent", 0)>>
Started == [pc |-> "count", at |-> 1, rows |-> 0, exists |-> FALSE]

Model(a) == Models[attempt[a].at]
Ended(a) == attempt[a].pc \in {"passed", "failed", "ambiguous"}

NothingRuns == \A a \in Attempts : attempt[a].pc = "idle" \/ Ended(a)

PublicationInit ==
  /\ raw = [m \in ModelSet |-> 1]
  /\ table = [m \in ModelSet |-> NoTable]
  /\ object = [me \in ModelSet \X Executions |-> 0]
  /\ attempt = [a \in Attempts |-> [Started EXCEPT !.pc = "idle"]]

(* The consumers archive another event. *)
RawGrows(m) ==
  /\ raw[m] < MaxRaw
  /\ raw' = [raw EXCEPT ![m] = @ + 1]
  /\ UNCHANGED <<table, object, attempt>>

Goto(a, pc) == attempt' = [attempt EXCEPT ![a].pc = pc]

Start(a) ==
  /\ attempt[a].pc = "idle" /\ Goto(a, "count")
  /\ UNCHANGED <<raw, table, object>>

-----------------------------------------------------------------------------
(* transformation_metadata *)
CountRows(a) ==
  /\ attempt[a].pc = "count"
  /\ attempt' = [attempt EXCEPT ![a].pc = "exists", ![a].rows = raw[Model(a)]]
  /\ UNCHANGED <<raw, table, object>>

(* _table_exists *)
TableExists(a) ==
  /\ attempt[a].pc = "exists"
  /\ LET there == table[Model(a)] # NoTable
     IN attempt' = [attempt EXCEPT ![a].exists = there,
                                   ![a].pc = IF there THEN "inspect" ELSE "create"]
  /\ UNCHANGED <<raw, table, object>>

(* Mutant: CREATE TABLE IF NOT EXISTS. *)
CreateIfAbsent(a) ==
  /\ attempt[a].pc = "create"
  /\ table' = [table EXCEPT ![Model(a)] = IF @ = NoTable THEN <<>> ELSE @]
  /\ Goto(a, "inspect")
  /\ UNCHANGED <<raw, object>>

(* _create_table fails when another attempt has created the table since. *)
CreateTable(a) ==
  /\ attempt[a].pc = "create"
  /\ IF table[Model(a)] = NoTable
     THEN table' = [table EXCEPT ![Model(a)] = <<>>] /\ Goto(a, "inspect")
     ELSE table' = table /\ Goto(a, "failed")
  /\ UNCHANGED <<raw, object>>

(* What an attempt concludes from the registered files: a table that was     *)
(* there must hold exactly the file of this execution with the rows counted  *)
(* now, a new one nothing, and the object must not be there yet.             *)
Recognise(a) ==
  LET files == table[Model(a)] e == ExecutionOf[a] IN
  IF attempt[a].exists
  THEN IF files = <<File(e, attempt[a].rows)>> THEN "verify" ELSE "ambiguous"
  ELSE IF files # <<>> \/ object[<<Model(a), e>>] # 0 THEN "ambiguous" ELSE "copy"

(* _show_table_location, _registered_files, _permanent_file_exists *)
Inspect(a) ==
  /\ attempt[a].pc = "inspect"
  /\ Goto(a, Recognise(a))
  /\ UNCHANGED <<raw, table, object>>

(* _write_parquet runs the query again. *)
WriteParquet(a) ==
  /\ attempt[a].pc = "copy"
  /\ object' = [object EXCEPT ![<<Model(a), ExecutionOf[a]>>] = raw[Model(a)]]
  /\ Goto(a, "register")
  /\ UNCHANGED <<raw, table>>

(* _register_file: add_files appends to the table's files. *)
RegisterFile(a) ==
  LET m == Model(a) e == ExecutionOf[a] IN
  /\ attempt[a].pc = "register"
  /\ table' = [table EXCEPT ![m] = Append(@, File(e, object[<<m, e>>]))]
  /\ Goto(a, "verify")
  /\ UNCHANGED <<raw, object>>

RowsOf(files) == FoldLeft(LAMBDA n, f : n + f.rows, 0, files)

NextModel(a) ==
  IF attempt[a].at = Len(Models)
  THEN Goto(a, "passed")
  ELSE attempt' = [attempt EXCEPT ![a] = [Started EXCEPT !.at = attempt[a].at + 1]]

(* Mutant: the count is repeated until the rows agree. *)
VerifyUntilEqual(a) ==
  /\ attempt[a].pc = "verify"
  /\ RowsOf(table[Model(a)]) = attempt[a].rows /\ NextModel(a)
  /\ UNCHANGED <<raw, table, object>>

(* _verify_table, then main goes on with the next model. *)
VerifyTable(a) ==
  /\ attempt[a].pc = "verify"
  /\ IF RowsOf(table[Model(a)]) = attempt[a].rows THEN NextModel(a) ELSE Goto(a, "failed")
  /\ UNCHANGED <<raw, table, object>>

(* The process is killed, or a call raises: its answer may have been lost    *)
(* after its effect, which is then on the branch.                            *)
Fail(a) ==
  /\ attempt[a].pc # "idle" /\ ~Ended(a)
  /\ Goto(a, "failed")
  /\ UNCHANGED <<raw, table, object>>

PublicationStep(a) ==
  \/ CountRows(a) \/ TableExists(a) \/ CreateTable(a) \/ Inspect(a)
  \/ WriteParquet(a) \/ RegisterFile(a) \/ VerifyTable(a)

PublicationNext ==
  \/ \E m \in ModelSet : RawGrows(m)
  \/ \E a \in Attempts : Start(a) \/ PublicationStep(a) \/ Fail(a)

PublicationSpec == PublicationInit /\ [][PublicationNext]_bvars

-----------------------------------------------------------------------------
Pcs == {"idle", "count", "exists", "create", "inspect", "copy", "register",
        "verify", "passed", "failed", "ambiguous"}

(* The state of a publication: what Raw holds, the files of each table, the  *)
(* objects and the attempts.                                                 *)
BronzeTypeOK ==
  /\ raw \in [ModelSet -> 1 .. MaxRaw]
  /\ \A m \in ModelSet : table[m] = NoTable \/
       \A i \in DOMAIN table[m] : table[m][i] \in
          [execution : Executions, rows : 1 .. MaxRaw]
  /\ object \in [ModelSet \X Executions -> 0 .. MaxRaw]
  /\ attempt \in [Attempts -> [pc : Pcs, at : DOMAIN Models, rows : 0 .. MaxRaw,
                               exists : BOOLEAN]]

(* execute_model: however attempts of one or of several executions overlap,  *)
(* die or are repeated, no table ever holds two files, so no Raw row is in   *)
(* Bronze twice.                                                             *)
RegisteredOnce == \A m \in ModelSet : table[m] = NoTable \/ Len(table[m]) <= 1

(* main prints RAW_TO_BRONZE_PUBLICATION=PASS only when every model's table  *)
(* holds the file of this very execution, and a model that has been passed   *)
(* stays so whatever the other attempts do.                                  *)
PassedIsPublished ==
  \A a \in Attempts :
    \A i \in DOMAIN Models :
      (attempt[a].pc = "passed" \/ (attempt[a].pc # "idle" /\ i < attempt[a].at)) =>
        \E n \in 1 .. MaxRaw : table[Models[i]] = <<File(ExecutionOf[a], n)>>

(* _register_file: the file a table refers to is never overwritten: the rows *)
(* the catalog recorded are those of the object.                             *)
FilesKept ==
  \A m \in ModelSet : table[m] # NoTable =>
    \A i \in DOMAIN table[m] :
      object[<<m, table[m][i].execution>>] = table[m][i].rows

(* raw_to_bronze_executor, whatever attempts overlap, die or are repeated:   *)
(* no Raw row is registered twice, PASS means published by this execution,   *)
(* and a registered file is not overwritten.                                 *)
BronzeKept == BronzeTypeOK /\ RegisteredOnce /\ PassedIsPublished /\ FilesKept

(* Every attempt that is started ends. *)
AttemptsEnd == []<>NothingRuns
=============================================================================
