---------------------------- MODULE PipelineProofs ----------------------------
(* The platform pipeline, for any number of DAG runs, retries and faults,    *)
(* and the publication of its first batch, for any attempts, executions and  *)
(* models.                                                                   *)
EXTENDS PlatformPipeline, BronzePublication, FiniteSetTheorems, TLAPS

-----------------------------------------------------------------------------
(* Raw to Bronze.  CREATE TABLE succeeds once: whoever created a table is    *)
(* the only one that writes and registers a file for it.                     *)

AttemptRecords == [pc : Pcs, at : DOMAIN Models, rows : 0 .. MaxRaw, exists : BOOLEAN]

BronzeTypes ==
  /\ raw \in [ModelSet -> 1 .. MaxRaw]
  /\ table = [m \in ModelSet |-> table[m]]
  /\ object \in [ModelSet \X Executions -> 0 .. MaxRaw]
  /\ attempt \in [Attempts -> AttemptRecords]

(* A table is absent, empty, or has one file, with the rows of its object. *)
TablesTrue ==
  \A m \in ModelSet :
    \/ table[m] = NoTable \/ table[m] = <<>>
    \/ \E e \in Executions, n \in 1 .. MaxRaw : table[m] = <<File(e, n)>> /\ object[<<m, e>>] = n

(* The attempt has created the table of its model and not registered a file. *)
Creating(a) == attempt[a].pc \in {"inspect", "copy", "register"} /\ ~attempt[a].exists

CreatorAlone ==
  \A a \in Attempts : Creating(a) =>
    /\ table[Model(a)] = <<>>
    /\ \A b \in Attempts : Creating(b) /\ Model(b) = Model(a) => b = a

(* The table of m has the file of the execution of a. *)
Published(a, m) == \E n \in 1 .. MaxRaw : table[m] = <<File(ExecutionOf[a], n)>>

(* What an attempt knows of the model it is at. *)
AttemptsTrue ==
  \A a \in Attempts :
    /\ attempt[a].pc = "idle" => attempt[a].at = 1
    /\ attempt[a].pc \in {"exists", "create", "inspect"} => attempt[a].rows # 0
    /\ attempt[a].pc \in {"create", "copy", "register"} => ~attempt[a].exists
    /\ attempt[a].pc = "register" => object[<<Model(a), ExecutionOf[a]>>] # 0
    /\ attempt[a].pc = "verify" => Published(a, Model(a))

BronzeInv == BronzeTypes /\ TablesTrue /\ CreatorAlone /\ AttemptsTrue /\ PassedIsPublished

(* Three different things: no table, an empty one, one with a file. *)
LEMMA TablesDiffer ==
  /\ NoTable # <<>>
  /\ \A e, f, n, k : <<File(e, n)>> = <<File(f, k)>> => e = f /\ n = k
  /\ \A e : \A n \in 1 .. MaxRaw : <<File(e, n)>> # <<>> /\ <<File(e, n)>> # NoTable
<1>1. MaxRaw \in Nat
  BY BronzeAssumption
<1>2. QED
  BY <1>1 DEF NoTable, File

(* The model an attempt is at. *)
LEMMA ModelIsModel ==
  ASSUME BronzeTypes, NEW a \in Attempts
  PROVE  Model(a) \in ModelSet /\ ExecutionOf[a] \in Executions /\ attempt[a] \in AttemptRecords
  BY DEF BronzeTypes, Model, ModelSet, Executions, AttemptRecords

(* Nothing is published and nobody has begun. *)
LEMMA BronzeInvInit == PublicationInit => BronzeInv
<1> SUFFICES ASSUME PublicationInit PROVE BronzeInv
  OBVIOUS
<1>1. 1 \in DOMAIN Models /\ 1 \in 1 .. MaxRaw /\ 0 \in 0 .. MaxRaw
  BY BronzeAssumption
<1>2. [Started EXCEPT !.pc = "idle"] \in AttemptRecords
  BY <1>1 DEF Started, AttemptRecords, Pcs
<1>3. BronzeTypes
  BY <1>1, <1>2 DEF PublicationInit, BronzeTypes
<1>4. \A a \in Attempts : attempt[a].pc = "idle" /\ attempt[a].at = 1
  BY DEF PublicationInit, Started
<1>5. TablesTrue /\ CreatorAlone /\ AttemptsTrue /\ PassedIsPublished
  BY <1>4 DEF PublicationInit, TablesTrue, CreatorAlone, Creating, AttemptsTrue, PassedIsPublished
<1>6. QED
  BY <1>3, <1>5 DEF BronzeInv

(* Attempt a goes on with rec; the others stay. *)
Becomes(a, rec) ==
  /\ attempt'[a] = rec /\ rec \in AttemptRecords
  /\ attempt' \in [Attempts -> AttemptRecords]
  /\ \A b \in Attempts \ {a} : attempt'[b] = attempt[b]

LEMMA GotoBecomes ==
  ASSUME BronzeTypes, NEW a \in Attempts, NEW pc \in Pcs, Goto(a, pc)
  PROVE  /\ Becomes(a, attempt'[a])
         /\ attempt'[a].pc = pc /\ attempt'[a].at = attempt[a].at
         /\ attempt'[a].rows = attempt[a].rows /\ attempt'[a].exists = attempt[a].exists
<1>1. attempt[a] \in AttemptRecords /\ attempt \in [Attempts -> AttemptRecords]
  BY DEF BronzeTypes
<1> DEFINE rec == [attempt[a] EXCEPT !.pc = pc]
<1>2. rec \in AttemptRecords
  BY <1>1 DEF AttemptRecords
<1>3. attempt' = [attempt EXCEPT ![a] = rec]
  BY <1>1 DEF Goto
<1>4. attempt'[a] = rec /\ attempt' \in [Attempts -> AttemptRecords]
      /\ \A b \in Attempts \ {a} : attempt'[b] = attempt[b]
  BY <1>1, <1>2, <1>3
<1>5. QED
  BY <1>1, <1>2, <1>4 DEF Becomes, AttemptRecords

(* A step that leaves tables and objects alone keeps the invariant if the    *)
(* attempt it moves knows what it should.                                    *)
LEMMA OnlyMoves ==
  ASSUME BronzeInv, NEW a \in Attempts, UNCHANGED <<raw, table, object>>,
         Becomes(a, attempt'[a]),
         Creating(a)' => Creating(a) /\ attempt'[a].at = attempt[a].at,
         attempt'[a].pc \in {"exists", "create", "inspect"} => attempt'[a].rows # 0,
         attempt'[a].pc \in {"create", "copy", "register"} => ~attempt'[a].exists,
         attempt'[a].pc \notin {"idle", "register"},
         attempt'[a].pc = "verify" => Published(a, Models[attempt'[a].at]),
         \A i \in DOMAIN Models :
           (attempt'[a].pc = "passed" \/ (attempt'[a].pc # "idle" /\ i < attempt'[a].at)) =>
             Published(a, Models[i])
  PROVE  BronzeInv'
<1>0. BronzeTypes /\ TablesTrue /\ CreatorAlone /\ AttemptsTrue /\ PassedIsPublished
  BY DEF BronzeInv
<1>1. BronzeTypes'
  BY <1>0 DEF BronzeTypes, Becomes
<1>2. TablesTrue'
  BY <1>0 DEF TablesTrue
<1>3. CreatorAlone'
  BY <1>0 DEF CreatorAlone, Creating, Model, Becomes
<1>4. AttemptsTrue'
  BY <1>0 DEF AttemptsTrue, Published, Model, Becomes
<1>5. PassedIsPublished'
  BY <1>0 DEF PassedIsPublished, Published, Becomes
<1>6. QED
  BY <1>1, <1>2, <1>3, <1>4, <1>5 DEF BronzeInv

(* CREATE TABLE: the first to create it is alone with it. *)
LEMMA CreateKeeps ==
  ASSUME BronzeInv, NEW a \in Attempts, CreateTable(a), table[Model(a)] = NoTable
  PROVE  BronzeInv'
<1> DEFINE m == Model(a)
<1>0. BronzeTypes /\ TablesTrue /\ CreatorAlone /\ AttemptsTrue /\ PassedIsPublished
  BY DEF BronzeInv
<1>1. /\ Becomes(a, attempt'[a]) /\ attempt[a].pc = "create"
      /\ attempt'[a].pc = "inspect" /\ attempt'[a].at = attempt[a].at
      /\ attempt'[a].rows = attempt[a].rows /\ attempt'[a].exists = attempt[a].exists
  <2>1. Goto(a, "inspect") /\ attempt[a].pc = "create"
    BY DEF CreateTable
  <2>2. "inspect" \in Pcs
    BY DEF Pcs
  <2>3. QED
    BY <1>0, <2>1, <2>2, GotoBecomes
<1>2. /\ UNCHANGED <<raw, object>> /\ m \in ModelSet
      /\ table' = [table EXCEPT ![m] = <<>>]
  BY <1>0, ModelIsModel DEF CreateTable
<1>3. /\ table' = [k \in ModelSet |-> table'[k]] /\ table'[m] = <<>>
      /\ \A k \in ModelSet \ {m} : table'[k] = table[k]
  BY <1>0, <1>2 DEF BronzeTypes
<1>4. \A b \in Attempts : Model(b) \in ModelSet /\ Models[attempt'[b].at] = Model(b)
  BY <1>0, <1>1, ModelIsModel DEF Becomes, Model
<1>5. \A b \in Attempts : ~Published(b, m) /\ (Creating(b) => Model(b) # m)
  BY <1>0, TablesDiffer DEF Published, CreatorAlone
<1>6. \A b \in Attempts, k \in ModelSet : Published(b, k) => Published(b, k)'
  BY <1>3, <1>5 DEF Published
<1>7. BronzeTypes'
  BY <1>0, <1>1, <1>2, <1>3 DEF BronzeTypes, Becomes
<1>8. TablesTrue'
  BY <1>0, <1>2, <1>3 DEF TablesTrue
<1>9. CreatorAlone'
  BY <1>0, <1>1, <1>3, <1>4, <1>5 DEF CreatorAlone, Creating, Model, Becomes
<1>10. AttemptsTrue'
  <2>1. SUFFICES ASSUME NEW b \in Attempts
                 PROVE  /\ attempt'[b].pc = "idle" => attempt'[b].at = 1
                        /\ attempt'[b].pc \in {"exists", "create", "inspect"} => attempt'[b].rows # 0
                        /\ attempt'[b].pc \in {"create", "copy", "register"} => ~attempt'[b].exists
                        /\ attempt'[b].pc = "register" => object'[<<Model(b)', ExecutionOf[b]>>] # 0
                        /\ attempt'[b].pc = "verify" => Published(b, Model(b))'
    BY DEF AttemptsTrue
  <2>2. CASE b = a
    BY <1>0, <1>1, <2>2 DEF AttemptsTrue
  <2>3. CASE b # a
    <3>1. attempt'[b] = attempt[b] /\ Model(b)' = Model(b) /\ object' = object
      BY <1>1, <1>2, <2>3 DEF Becomes, Model
    <3>2. attempt[b].pc = "verify" => Published(b, Model(b))'
      BY <1>0, <1>4, <1>6, <3>1 DEF AttemptsTrue, Published
    <3>3. QED
      BY <1>0, <3>1, <3>2 DEF AttemptsTrue
  <2>4. QED
    BY <2>2, <2>3
<1>11. PassedIsPublished'
  <2>1. \A i \in DOMAIN Models : Models[i] \in ModelSet
    BY DEF ModelSet
  <2>2. QED
    BY <1>0, <1>1, <1>6, <2>1 DEF PassedIsPublished, Published, Becomes
<1>12. QED
  BY <1>7, <1>8, <1>9, <1>10, <1>11 DEF BronzeInv

(* COPY: the object is the creator's, and no table refers to it yet. *)
LEMMA WriteKeeps ==
  ASSUME BronzeInv, NEW a \in Attempts, WriteParquet(a)
  PROVE  BronzeInv'
<1> DEFINE m == Model(a)
           e == ExecutionOf[a]
<1>0. BronzeTypes /\ TablesTrue /\ CreatorAlone /\ AttemptsTrue /\ PassedIsPublished
  BY DEF BronzeInv
<1>1. /\ Becomes(a, attempt'[a]) /\ attempt[a].pc = "copy" /\ ~attempt[a].exists
      /\ attempt'[a].pc = "register" /\ attempt'[a].at = attempt[a].at
      /\ attempt'[a].rows = attempt[a].rows /\ attempt'[a].exists = attempt[a].exists
  <2>1. Goto(a, "register") /\ attempt[a].pc = "copy"
    BY DEF WriteParquet
  <2>2. "register" \in Pcs
    BY DEF Pcs
  <2>3. QED
    BY <1>0, <2>1, <2>2, GotoBecomes DEF AttemptsTrue
<1>2. /\ UNCHANGED <<raw, table>> /\ m \in ModelSet /\ e \in Executions /\ raw[m] \in 1 .. MaxRaw
      /\ object' = [object EXCEPT ![<<m, e>>] = raw[m]]
  BY <1>0, ModelIsModel DEF WriteParquet, BronzeTypes
<1>3. /\ object' \in [ModelSet \X Executions -> 0 .. MaxRaw] /\ object'[<<m, e>>] # 0
      /\ \A k \in ModelSet \ {m}, f \in Executions : object'[<<k, f>>] = object[<<k, f>>]
  BY <1>0, <1>2, BronzeAssumption DEF BronzeTypes
<1>4. Creating(a) /\ table[m] = <<>>
  BY <1>0, <1>1 DEF CreatorAlone, Creating
<1>5. BronzeTypes'
  BY <1>0, <1>1, <1>2, <1>3 DEF BronzeTypes, Becomes
<1>6. TablesTrue'
  <2>1. SUFFICES ASSUME NEW k \in ModelSet, table'[k] # NoTable, table'[k] # <<>>
                 PROVE  \E f \in Executions, n \in 1 .. MaxRaw :
                          table'[k] = <<File(f, n)>> /\ object'[<<k, f>>] = n
    BY DEF TablesTrue
  <2>2. k # m /\ table'[k] = table[k]
    BY <1>2, <1>4, <2>1
  <2>3. PICK f \in Executions, n \in 1 .. MaxRaw : table[k] = <<File(f, n)>> /\ object[<<k, f>>] = n
    BY <1>0, <2>1, <2>2 DEF TablesTrue
  <2>4. object'[<<k, f>>] = object[<<k, f>>]
    BY <1>3, <2>2
  <2>5. QED
    BY <2>2, <2>3, <2>4
<1>7. CreatorAlone'
  BY <1>0, <1>1, <1>2, <1>4 DEF CreatorAlone, Creating, Model, Becomes
<1>8. AttemptsTrue'
  <2>1. SUFFICES ASSUME NEW b \in Attempts
                 PROVE  /\ attempt'[b].pc = "idle" => attempt'[b].at = 1
                        /\ attempt'[b].pc \in {"exists", "create", "inspect"} => attempt'[b].rows # 0
                        /\ attempt'[b].pc \in {"create", "copy", "register"} => ~attempt'[b].exists
                        /\ attempt'[b].pc = "register" => object'[<<Model(b)', ExecutionOf[b]>>] # 0
                        /\ attempt'[b].pc = "verify" => Published(b, Model(b))'
    BY DEF AttemptsTrue
  <2>2. CASE b = a
    BY <1>0, <1>1, <1>3, <2>2 DEF AttemptsTrue, Model
  <2>3. CASE b # a
    <3>1. /\ attempt'[b] = attempt[b] /\ Model(b)' = Model(b) /\ table' = table
          /\ Model(b) \in ModelSet /\ ExecutionOf[b] \in Executions
      BY <1>0, <1>1, <1>2, <2>3, ModelIsModel DEF Becomes, Model
    <3>2. attempt[b].pc = "register" => Model(b) # m
      BY <1>0, <1>4, <2>3 DEF CreatorAlone, Creating, AttemptsTrue
    <3>3. QED
      BY <1>0, <1>3, <3>1, <3>2 DEF AttemptsTrue, Published
  <2>4. QED
    BY <2>2, <2>3
<1>9. PassedIsPublished'
  BY <1>0, <1>1, <1>2 DEF PassedIsPublished, Becomes
<1>10. QED
  BY <1>5, <1>6, <1>7, <1>8, <1>9 DEF BronzeInv

(* add_files: the creator registers its object, and nobody else is about to. *)
LEMMA RegisterKeeps ==
  ASSUME BronzeInv, NEW a \in Attempts, RegisterFile(a)
  PROVE  BronzeInv'
<1> DEFINE m == Model(a)
           e == ExecutionOf[a]
<1>0. BronzeTypes /\ TablesTrue /\ CreatorAlone /\ AttemptsTrue /\ PassedIsPublished
  BY DEF BronzeInv
<1>1. /\ Becomes(a, attempt'[a]) /\ attempt[a].pc = "register" /\ ~attempt[a].exists
      /\ attempt'[a].pc = "verify" /\ attempt'[a].at = attempt[a].at
      /\ attempt'[a].rows = attempt[a].rows /\ attempt'[a].exists = attempt[a].exists
  <2>1. Goto(a, "verify") /\ attempt[a].pc = "register"
    BY DEF RegisterFile
  <2>2. "verify" \in Pcs
    BY DEF Pcs
  <2>3. QED
    BY <1>0, <2>1, <2>2, GotoBecomes DEF AttemptsTrue
<1>2. /\ UNCHANGED <<raw, object>> /\ m \in ModelSet /\ e \in Executions
      /\ object[<<m, e>>] \in 1 .. MaxRaw
  <2>1. object[<<m, e>>] \in 0 .. MaxRaw /\ object[<<m, e>>] # 0
    BY <1>0, <1>1, ModelIsModel DEF BronzeTypes, AttemptsTrue
  <2>2. QED
    BY <1>0, <2>1, ModelIsModel, BronzeAssumption DEF RegisterFile
<1>3. Creating(a) /\ table[m] = <<>>
  BY <1>0, <1>1 DEF CreatorAlone, Creating
<1>4. /\ table' = [k \in ModelSet |-> table'[k]] /\ table'[m] = <<File(e, object[<<m, e>>])>>
      /\ \A k \in ModelSet \ {m} : table'[k] = table[k]
  <2>1. table' = [table EXCEPT ![m] = Append(<<>>, File(e, object[<<m, e>>]))]
    BY <1>3 DEF RegisterFile
  <2>2. Append(<<>>, File(e, object[<<m, e>>])) = <<File(e, object[<<m, e>>])>>
    OBVIOUS
  <2>3. QED
    BY <1>0, <1>2, <2>1, <2>2 DEF BronzeTypes
<1>5. \A b \in Attempts : Model(b) \in ModelSet /\ Models[attempt'[b].at] = Model(b)
  BY <1>0, <1>1, ModelIsModel DEF Becomes, Model
<1>6. \A b \in Attempts : ~Published(b, m) /\ (Creating(b) /\ b # a => Model(b) # m)
  BY <1>0, <1>3, TablesDiffer DEF Published, CreatorAlone
<1>7. \A b \in Attempts, k \in ModelSet : Published(b, k) => Published(b, k)'
  BY <1>4, <1>6 DEF Published
<1>8. BronzeTypes'
  BY <1>0, <1>1, <1>2, <1>4 DEF BronzeTypes, Becomes
<1>9. TablesTrue'
  <2>1. SUFFICES ASSUME NEW k \in ModelSet, table'[k] # NoTable, table'[k] # <<>>
                 PROVE  \E f \in Executions, n \in 1 .. MaxRaw :
                          table'[k] = <<File(f, n)>> /\ object'[<<k, f>>] = n
    BY DEF TablesTrue
  <2>2. CASE k = m
    BY <1>2, <1>4, <2>2
  <2>3. CASE k # m
    <3>1. table'[k] = table[k] /\ object' = object
      BY <1>2, <1>4, <2>3
    <3>2. QED
      BY <1>0, <2>1, <3>1 DEF TablesTrue
  <2>4. QED
    BY <2>2, <2>3
<1>10. CreatorAlone'
  BY <1>0, <1>1, <1>4, <1>5, <1>6 DEF CreatorAlone, Creating, Model, Becomes
<1>11. AttemptsTrue'
  <2>1. SUFFICES ASSUME NEW b \in Attempts
                 PROVE  /\ attempt'[b].pc = "idle" => attempt'[b].at = 1
                        /\ attempt'[b].pc \in {"exists", "create", "inspect"} => attempt'[b].rows # 0
                        /\ attempt'[b].pc \in {"create", "copy", "register"} => ~attempt'[b].exists
                        /\ attempt'[b].pc = "register" => object'[<<Model(b)', ExecutionOf[b]>>] # 0
                        /\ attempt'[b].pc = "verify" => Published(b, Model(b))'
    BY DEF AttemptsTrue
  <2>2. CASE b = a
    <3>1. Published(a, Model(a))'
      BY <1>1, <1>2, <1>4, <1>5 DEF Published, Model
    <3>2. QED
      BY <1>1, <2>2, <3>1
  <2>3. CASE b # a
    <3>1. attempt'[b] = attempt[b] /\ Model(b)' = Model(b) /\ object' = object
      BY <1>1, <1>2, <2>3 DEF Becomes, Model
    <3>2. attempt[b].pc = "verify" => Published(b, Model(b))'
      BY <1>0, <1>5, <1>7, <3>1 DEF AttemptsTrue, Published
    <3>3. QED
      BY <1>0, <3>1, <3>2 DEF AttemptsTrue
  <2>4. QED
    BY <2>2, <2>3
<1>12. PassedIsPublished'
  <2>1. \A i \in DOMAIN Models : Models[i] \in ModelSet
    BY DEF ModelSet
  <2>2. QED
    BY <1>0, <1>1, <1>7, <2>1 DEF PassedIsPublished, Published, Becomes
<1>13. QED
  BY <1>8, <1>9, <1>10, <1>11, <1>12 DEF BronzeInv

(* Every step of the publication keeps the invariant. *)
LEMMA BronzeInvNext == BronzeInv /\ [PublicationNext]_bvars => BronzeInv'
<1> SUFFICES ASSUME BronzeInv, [PublicationNext]_bvars PROVE BronzeInv'
  OBVIOUS
<1>0. BronzeTypes /\ TablesTrue /\ CreatorAlone /\ AttemptsTrue /\ PassedIsPublished
  BY DEF BronzeInv
<1>1. CASE UNCHANGED bvars
  <2>1. BronzeTypes' /\ TablesTrue'
    BY <1>0, <1>1 DEF bvars, BronzeTypes, TablesTrue
  <2>2. CreatorAlone' /\ AttemptsTrue' /\ PassedIsPublished'
    BY <1>0, <1>1 DEF bvars, CreatorAlone, Creating, AttemptsTrue, Published, Model, PassedIsPublished
  <2>3. QED
    BY <2>1, <2>2 DEF BronzeInv
<1>2. ASSUME NEW m \in ModelSet, RawGrows(m) PROVE BronzeInv'
  <2>1. raw' \in [ModelSet -> 1 .. MaxRaw]
    BY <1>0, <1>2, BronzeAssumption DEF RawGrows, BronzeTypes
  <2>2. UNCHANGED <<table, object, attempt>>
    BY <1>2 DEF RawGrows
  <2>3. BronzeTypes'
    BY <1>0, <2>1, <2>2 DEF BronzeTypes
  <2>4. TablesTrue' /\ CreatorAlone' /\ AttemptsTrue' /\ PassedIsPublished'
    BY <1>0, <2>2 DEF TablesTrue, CreatorAlone, Creating, AttemptsTrue, Published, Model, PassedIsPublished
  <2>5. QED
    BY <2>3, <2>4 DEF BronzeInv
<1>3. ASSUME NEW a \in Attempts, NEW pc \in Pcs, Goto(a, pc), UNCHANGED <<raw, table, object>>,
             pc \in {"count", "failed", "ambiguous", "passed"} \/ (pc = "copy" /\ Creating(a))
               \/ (pc = "verify" /\ Published(a, Model(a))),
             pc = "passed" => \A i \in DOMAIN Models : Published(a, Models[i])
      PROVE  BronzeInv'
  <2>1. /\ Becomes(a, attempt'[a])
        /\ attempt'[a].pc = pc /\ attempt'[a].at = attempt[a].at
        /\ attempt'[a].rows = attempt[a].rows /\ attempt'[a].exists = attempt[a].exists
    BY <1>0, <1>3, GotoBecomes
  <2>2. Creating(a)' => Creating(a)
    BY <1>3, <2>1 DEF Creating
  <2>3. ASSUME NEW i \in DOMAIN Models,
               attempt'[a].pc = "passed" \/ (attempt'[a].pc # "idle" /\ i < attempt'[a].at)
        PROVE  Published(a, Models[i])
    <3>1. CASE attempt[a].pc = "idle"
      <4>1. ~ (i < 1)
        BY BronzeAssumption
      <4>2. QED
        BY <1>0, <1>3, <2>1, <2>3, <3>1, <4>1 DEF AttemptsTrue
    <3>2. CASE attempt[a].pc # "idle"
      BY <1>0, <1>3, <2>1, <2>3, <3>2 DEF PassedIsPublished, Published
    <3>3. QED
      BY <3>1, <3>2
  <2>4. attempt'[a].pc = "verify" => Published(a, Models[attempt'[a].at])
    BY <1>3, <2>1 DEF Model
  <2>5. attempt'[a].pc \notin {"idle", "exists", "create", "inspect", "register"}
    BY <1>3, <2>1
  <2>6. attempt'[a].pc = "copy" => ~attempt'[a].exists
    BY <1>3, <2>1 DEF Creating
  <2>7. QED
    BY <1>3, <2>1, <2>2, <2>3, <2>4, <2>5, <2>6, OnlyMoves
<1>4. ASSUME NEW a \in Attempts, Start(a) PROVE BronzeInv'
  <2>1. "count" \in Pcs
    BY DEF Pcs
  <2>2. QED
    BY <1>3, <1>4, <2>1 DEF Start
<1>5. ASSUME NEW a \in Attempts, Fail(a) PROVE BronzeInv'
  <2>1. "failed" \in Pcs
    BY DEF Pcs
  <2>2. QED
    BY <1>3, <1>5, <2>1 DEF Fail
<1>6. ASSUME NEW a \in Attempts, CountRows(a) PROVE BronzeInv'
  <2>1. /\ attempt[a] \in AttemptRecords /\ attempt \in [Attempts -> AttemptRecords]
        /\ raw[Model(a)] \in 1 .. MaxRaw /\ raw[Model(a)] \in 0 .. MaxRaw
    BY <1>0, ModelIsModel, BronzeAssumption DEF BronzeTypes
  <2> DEFINE rec == [attempt[a] EXCEPT !.pc = "exists", !.rows = raw[Model(a)]]
  <2>2. rec \in AttemptRecords
    BY <2>1 DEF AttemptRecords, Pcs
  <2>3. attempt' = [attempt EXCEPT ![a] = rec] /\ attempt[a].pc = "count"
    BY <1>6, <2>1 DEF CountRows
  <2>4. Becomes(a, attempt'[a]) /\ attempt'[a] = rec
    BY <2>1, <2>2, <2>3 DEF Becomes
  <2>5. attempt'[a].pc = "exists" /\ attempt'[a].at = attempt[a].at /\ attempt'[a].rows # 0
    BY <2>1, <2>4, BronzeAssumption DEF AttemptRecords
  <2>6. \A i \in DOMAIN Models : i < attempt'[a].at => Published(a, Models[i])
    BY <1>0, <2>3, <2>5 DEF PassedIsPublished, Published
  <2>7. UNCHANGED <<raw, table, object>> /\ ~Creating(a)'
    BY <1>6, <2>5 DEF CountRows, Creating
  <2>8. QED
    BY <2>4, <2>5, <2>6, <2>7, OnlyMoves
<1>7. ASSUME NEW a \in Attempts, TableExists(a) PROVE BronzeInv'
  <2>1. attempt[a] \in AttemptRecords /\ attempt \in [Attempts -> AttemptRecords]
    BY <1>0 DEF BronzeTypes
  <2>2. PICK there \in BOOLEAN :
          /\ there <=> table[Model(a)] # NoTable
          /\ attempt' = [attempt EXCEPT ![a].exists = there,
                                        ![a].pc = IF there THEN "inspect" ELSE "create"]
    BY <1>7 DEF TableExists
  <2> DEFINE rec == [attempt[a] EXCEPT !.exists = there, !.pc = IF there THEN "inspect" ELSE "create"]
  <2>3. rec \in AttemptRecords
    BY <2>1 DEF AttemptRecords, Pcs
  <2>4. attempt' = [attempt EXCEPT ![a] = rec] /\ attempt[a].pc = "exists"
    BY <1>7, <2>1, <2>2 DEF TableExists
  <2>5. Becomes(a, attempt'[a]) /\ attempt'[a] = rec
    BY <2>1, <2>3, <2>4 DEF Becomes
  <2>6. /\ attempt'[a].pc = IF there THEN "inspect" ELSE "create"
        /\ attempt'[a].exists = there /\ attempt'[a].at = attempt[a].at
        /\ attempt'[a].rows = attempt[a].rows
    BY <2>1, <2>5 DEF AttemptRecords
  <2>7. \A i \in DOMAIN Models : i < attempt'[a].at => Published(a, Models[i])
    BY <1>0, <2>4, <2>6 DEF PassedIsPublished, Published
  <2>8. UNCHANGED <<raw, table, object>> /\ ~Creating(a)'
    BY <1>7, <2>6 DEF TableExists, Creating
  <2>9. attempt'[a].rows # 0 /\ attempt'[a].pc \in {"inspect", "create"}
    BY <1>0, <2>4, <2>6 DEF AttemptsTrue
  <2>10. attempt'[a].pc = "create" => ~attempt'[a].exists
    BY <2>6
  <2>11. QED
    BY <2>5, <2>7, <2>8, <2>9, <2>10, OnlyMoves
<1>8. ASSUME NEW a \in Attempts, CreateTable(a) PROVE BronzeInv'
  <2>1. CASE table[Model(a)] = NoTable
    BY <1>8, <2>1, CreateKeeps
  <2>2. CASE table[Model(a)] # NoTable
    <3>1. Goto(a, "failed") /\ UNCHANGED <<raw, table, object>> /\ "failed" \in Pcs
      BY <1>8, <2>2 DEF CreateTable, Pcs
    <3>2. QED
      BY <1>3, <3>1
  <2>3. QED
    BY <2>1, <2>2
<1>9. ASSUME NEW a \in Attempts, Inspect(a) PROVE BronzeInv'
  <2>1. attempt[a].pc = "inspect" /\ Goto(a, Recognise(a)) /\ UNCHANGED <<raw, table, object>>
    BY <1>9 DEF Inspect
  <2>2. Recognise(a) \in {"verify", "ambiguous", "copy"} /\ Recognise(a) \in Pcs
    BY DEF Recognise, Pcs
  <2>3. Recognise(a) = "copy" => Creating(a)
    BY <2>1 DEF Recognise, Creating
  <2>4. Recognise(a) = "verify" => Published(a, Model(a))
    <3>1. SUFFICES ASSUME Recognise(a) = "verify" PROVE Published(a, Model(a))
      OBVIOUS
    <3>2. table[Model(a)] = <<File(ExecutionOf[a], attempt[a].rows)>>
      BY <3>1 DEF Recognise
    <3>3. attempt[a].rows \in 0 .. MaxRaw /\ attempt[a].rows # 0
      BY <1>0, <2>1 DEF BronzeTypes, AttemptRecords, AttemptsTrue
    <3>4. attempt[a].rows \in 1 .. MaxRaw
      BY <3>3, BronzeAssumption
    <3>5. QED
      BY <3>2, <3>4 DEF Published
  <2>5. QED
    BY <1>3, <2>1, <2>2, <2>3, <2>4
<1>10. ASSUME NEW a \in Attempts, VerifyTable(a) PROVE BronzeInv'
  <2>1. /\ attempt[a].pc = "verify" /\ UNCHANGED <<raw, table, object>> /\ (NextModel(a) \/ Goto(a, "failed"))
        /\ attempt[a] \in AttemptRecords /\ attempt \in [Attempts -> AttemptRecords]
    BY <1>0, <1>10 DEF VerifyTable, BronzeTypes
  <2>2. \A i \in DOMAIN Models : i <= attempt[a].at => Published(a, Models[i])
    <3>1. Published(a, Models[attempt[a].at]) /\ attempt[a].at \in Nat
      <4>1. Published(a, Models[attempt[a].at])
        BY <1>0, <2>1 DEF AttemptsTrue, Model
      <4>2. attempt[a].at \in DOMAIN Models /\ DOMAIN Models \subseteq Nat
        BY <2>1, BronzeAssumption DEF AttemptRecords
      <4>3. QED
        BY <4>1, <4>2
    <3>2. \A i \in DOMAIN Models : i < attempt[a].at => Published(a, Models[i])
      BY <1>0, <2>1 DEF PassedIsPublished, Published
    <3>3. \A i \in DOMAIN Models : i \in Nat /\ (i <= attempt[a].at => i < attempt[a].at \/ i = attempt[a].at)
      BY <3>1, BronzeAssumption
    <3>4. QED
      BY <3>1, <3>2, <3>3
  <2>3. CASE Goto(a, "failed")
    BY <1>3, <2>1, <2>3 DEF Pcs
  <2>4. CASE attempt[a].at = Len(Models) /\ Goto(a, "passed")
    <3>1. \A i \in DOMAIN Models : Published(a, Models[i])
      BY <2>2, <2>4, BronzeAssumption
    <3>2. "passed" \in Pcs
      BY DEF Pcs
    <3>3. QED
      BY <1>3, <2>1, <2>4, <3>1, <3>2
  <2>5. CASE attempt[a].at # Len(Models)
             /\ attempt' = [attempt EXCEPT ![a] = [Started EXCEPT !.at = attempt[a].at + 1]]
    <3> DEFINE rec == [Started EXCEPT !.at = attempt[a].at + 1]
    <3>1. attempt[a].at + 1 \in DOMAIN Models /\ attempt[a].at \in Nat /\ DOMAIN Models \subseteq Nat
          /\ 0 \in 0 .. MaxRaw
      BY <2>1, <2>5, BronzeAssumption DEF AttemptRecords
    <3>2. rec \in AttemptRecords /\ rec.pc = "count" /\ rec.at = attempt[a].at + 1
      BY <3>1 DEF Started, AttemptRecords, Pcs
    <3>3. Becomes(a, attempt'[a]) /\ attempt'[a] = rec
      BY <2>1, <2>5, <3>2 DEF Becomes
    <3>4. \A i \in DOMAIN Models : i < attempt'[a].at => Published(a, Models[i])
      BY <2>2, <3>1, <3>2, <3>3
    <3>5. ~Creating(a)' /\ attempt'[a].pc = "count"
      BY <3>2, <3>3 DEF Creating
    <3>6. QED
      BY <2>1, <3>3, <3>4, <3>5, OnlyMoves
  <2>6. QED
    BY <2>1, <2>3, <2>4, <2>5 DEF NextModel
<1>11. QED
  BY <1>1, <1>2, <1>4, <1>5, <1>6, <1>7, <1>8, <1>9, <1>10, WriteKeeps, RegisterKeeps
     DEF PublicationNext, PublicationStep

(* raw_to_bronze_executor.py: for any attempts, executions and models, a     *)
(* table never holds two files, PASS means that every table holds the file   *)
(* of this execution, and a registered object is not overwritten.            *)
THEOREM BronzeKeptHolds == PublicationSpec => []BronzeKept
<1>1. ASSUME BronzeInv PROVE BronzeKept
  <2>0. BronzeTypes /\ TablesTrue /\ PassedIsPublished
    BY <1>1 DEF BronzeInv
  <2>1. ASSUME NEW m \in ModelSet, table[m] # NoTable
        PROVE  /\ Len(table[m]) <= 1
               /\ \A i \in DOMAIN table[m] :
                    /\ table[m][i] \in [execution : Executions, rows : 1 .. MaxRaw]
                    /\ object[<<m, table[m][i].execution>>] = table[m][i].rows
    <3>1. CASE table[m] = <<>>
      BY <3>1
    <3>2. CASE table[m] # <<>>
      <4>1. PICK e \in Executions, n \in 1 .. MaxRaw :
              table[m] = <<File(e, n)>> /\ object[<<m, e>>] = n
        BY <2>0, <2>1, <3>2 DEF TablesTrue
      <4>2. File(e, n) \in [execution : Executions, rows : 1 .. MaxRaw]
            /\ File(e, n).execution = e /\ File(e, n).rows = n
        BY DEF File
      <4>3. Len(table[m]) = 1 /\ \A i \in DOMAIN table[m] : table[m][i] = File(e, n)
        BY <4>1
      <4>4. QED
        BY <4>1, <4>2, <4>3
    <3>3. QED
      BY <3>1, <3>2
  <2>2. BronzeTypeOK
    BY <2>0, <2>1 DEF BronzeTypes, BronzeTypeOK, AttemptRecords
  <2>3. RegisteredOnce
    BY <2>1 DEF RegisteredOnce
  <2>4. FilesKept
    BY <2>1 DEF FilesKept
  <2>5. QED
    BY <2>0, <2>2, <2>3, <2>4 DEF BronzeKept
<1>2. QED
  BY BronzeInvInit, BronzeInvNext, <1>1, PTL DEF PublicationSpec

-----------------------------------------------------------------------------
(* The DAG and the control plane.  The tasks of a DAG run start in the order *)
(* of the edges; the control plane admits one run at a time; what joins the  *)
(* two is that a task that succeeded has seen its row.                       *)

TaskStates == {"none", "running", "retry"} \cup Finished

(* Tasks start after what is above them, and are tried MaxTries times. *)
TasksTrue ==
  /\ task \in [Tasks -> TaskStates] /\ tries \in [Tasks -> 0 .. MaxTries]
  /\ waiting \subseteq Batches \cap Running
  /\ Cardinality(Running) <= MaxActive
  /\ \A t \in Tasks : task[t] = "retry" => tries[t] < MaxTries
  /\ \A t \in Tasks : task[t] \notin {"running", "retry"} => tries[t] = 0
  /\ \A t \in Tasks : task[t] \notin {"none", "upstream_failed"} =>
       \A u \in Upstream[t] : task[u] = "success"

(* At most one run is admitted and it is the last that was created; a run    *)
(* fails by one of its batches, and batches belong to a run.                 *)
ControlTrue ==
  /\ dag \in DagRuns /\ enabled \in BOOLEAN
  /\ run \in [DagRuns -> {"NONE", "ADMITTED", "FAILED"}]
  /\ batch \in [DagRuns \X Batches -> {"NONE", "ADMITTED", "QUEUED", "SUCCEEDED", "FAILED"}]
  /\ \A d \in DagRuns : d > dag => run[d] = "NONE"
  /\ \A d \in DagRuns, b \in Batches : batch[<<d, b>>] # "NONE" => run[d] # "NONE"
  /\ \A d \in DagRuns : run[d] = "FAILED" => \E b \in Batches : batch[<<d, b>>] = "FAILED"
  /\ \A d, e \in DagRuns : d < e /\ run[d] = "ADMITTED" => run[e] = "NONE"

(* What the success of a task means. *)
SuccessTrue ==
  /\ \A b \in Batches : task[b] = "success" => batch[<<dag, b>>] = "SUCCEEDED"
  /\ task["create"] = "success" => run[dag] # "NONE"
  /\ task["accepted"] = "success" => ~enabled

DagInv == TasksTrue /\ ControlTrue /\ SuccessTrue /\ PlanRespected

(* The plan: tasks, batches, and that each batch is below its prerequisites  *)
(* and below create_runtime_run.                                             *)
LEMMA PlanFacts ==
  /\ Batches = {"ml", "raw02", "rid03", "ord04", "bridge05", "alert06", "ridalerts07",
                "signal08", "ridsignals09", "down10"}
  /\ \A t \in Tasks : Upstream[t] \subseteq Tasks
  /\ \A t \in Batches : Prerequisite[t] \subseteq Upstream[t] \cap Batches /\ "create" \in Upstream[t]
  /\ Batches \subseteq Tasks /\ Jobs \subseteq Tasks /\ "create" \in Tasks
  /\ "create" \notin Batches \cup Jobs /\ Batches \cap Jobs = {}
<1>1. Batches = {"ml", "raw02", "rid03", "ord04", "bridge05", "alert06", "ridalerts07",
                 "signal08", "ridsignals09", "down10"}
  BY DEF Batches, Prerequisite
<1>2. \A t \in Tasks : Edges[t] \subseteq Tasks
  BY <1>1 DEF Tasks, Jobs, Edges
<1>3. \A t \in Batches : Prerequisite[t] \subseteq Edges[t] \cap Batches
  <2>1. SUFFICES ASSUME NEW t \in Batches PROVE Prerequisite[t] \subseteq Edges[t] \cap Batches
    OBVIOUS
  <2>2. QED
    BY <1>1 DEF Prerequisite, Edges
<1>4. Batches \subseteq Tasks /\ Jobs \subseteq Tasks /\ "create" \in Tasks
      /\ "create" \notin Batches \cup Jobs /\ Batches \cap Jobs = {}
  BY <1>1 DEF Tasks, Jobs
<1>5. QED
  BY <1>1, <1>2, <1>3, <1>4 DEF Upstream

(* There are finitely many tasks. *)
LEMMA TasksFinite == IsFiniteSet(Tasks)
<1> DEFINE s1 == {"ml"} \cup {"raw02"}
           s2 == s1 \cup {"rid03"}
           s3 == s2 \cup {"ord04"}
           s4 == s3 \cup {"bridge05"}
           s5 == s4 \cup {"alert06"}
           s6 == s5 \cup {"ridalerts07"}
           s7 == s6 \cup {"signal08"}
           s8 == s7 \cup {"ridsignals09"}
           s9 == s8 \cup {"down10"}
           j1 == {"preflight"} \cup {"raw"}
           j2 == j1 \cup {"dq"}
           j3 == j2 \cup {"features"}
           j4 == j3 \cup {"scoring"}
           j5 == j4 \cup {"reconcile"}
           j6 == j5 \cup {"accepted"}
<1>1. IsFiniteSet({"ml"}) /\ IsFiniteSet({"preflight"})
  BY FS_Singleton
<1>2. Batches = s9 /\ Jobs = j6
  BY PlanFacts DEF Jobs
<1>3. IsFiniteSet(s1) /\ IsFiniteSet(j1)
  BY <1>1, FS_AddElement, Zenon
<1> HIDE DEF s1, j1
<1>4. IsFiniteSet(s2) /\ IsFiniteSet(j2)
  BY <1>3, FS_AddElement, Zenon
<1> HIDE DEF s2, j2
<1>5. IsFiniteSet(s3) /\ IsFiniteSet(j3)
  BY <1>4, FS_AddElement, Zenon
<1> HIDE DEF s3, j3
<1>6. IsFiniteSet(s4) /\ IsFiniteSet(j4)
  BY <1>5, FS_AddElement, Zenon
<1> HIDE DEF s4, j4
<1>7. IsFiniteSet(s5) /\ IsFiniteSet(j5)
  BY <1>6, FS_AddElement, Zenon
<1> HIDE DEF s5, j5
<1>8. IsFiniteSet(s6) /\ IsFiniteSet(j6)
  BY <1>7, FS_AddElement, Zenon
<1> HIDE DEF s6, j6
<1>9. IsFiniteSet(s7)
  BY <1>8, FS_AddElement, Zenon
<1> HIDE DEF s7
<1>10. IsFiniteSet(s8)
  BY <1>9, FS_AddElement, Zenon
<1> HIDE DEF s8
<1>11. IsFiniteSet(s9)
  BY <1>10, FS_AddElement, Zenon
<1> HIDE DEF s9
<1>12. IsFiniteSet(Batches \cup Jobs)
  BY <1>2, <1>8, <1>11, FS_Union
<1>13. IsFiniteSet((Batches \cup Jobs) \cup {"create"})
  BY <1>12, FS_AddElement, Zenon
<1>14. QED
  BY <1>13 DEF Tasks

(* Nothing has started. *)
LEMMA DagInvInit == Init => DagInv
<1> SUFFICES ASSUME Init PROVE DagInv
  OBVIOUS
<1>1. TasksTrue
  <2>1. Running = {}
    BY DEF Init, Running
  <2>2. Cardinality(Running) <= MaxActive
    BY <2>1, FS_EmptySet, PipelineAssumption
  <2>3. QED
    BY <2>1, <2>2, PipelineAssumption DEF Init, TasksTrue, TaskStates
<1>2. ControlTrue
  BY PipelineAssumption DEF Init, ControlTrue
<1>3. SuccessTrue /\ PlanRespected
  BY PlanFacts DEF Init, SuccessTrue, PlanRespected, Tasks, Jobs
<1>4. QED
  BY <1>1, <1>2, <1>3 DEF DagInv

(* A running task ends. *)
Ends(t, state) ==
  task[t] = "running" /\ End(t, state) /\ (state = "retry" => tries[t] < MaxTries)

(* What a step may do to the tasks ... *)
TaskMove ==
  \/ UNCHANGED <<task, tries, waiting>>
  \/ \E t \in Tasks : StartTask(t)
  \/ SkipTasks
  \/ NextDagRun
  \/ \E t \in Tasks, state \in {"success", "retry", "failed"} : Ends(t, state)
  \/ \E t \in Batches : task[t] = "running" /\ waiting' = waiting \cup {t} /\ UNCHANGED <<task, tries>>

(* ... and to the runs and batches. *)
AdmitsRun == run[dag] = "NONE" /\ ActiveRuns = {} /\ run' = [run EXCEPT ![dag] = "ADMITTED"] /\ batch' = batch

AdmitsBatch ==
  \E t \in Batches, s \in {"ADMITTED", "QUEUED"} :
    /\ task[t] = "running" /\ batch[<<dag, t>>] \in {"NONE", "ADMITTED"}
    /\ batch' = [batch EXCEPT ![<<dag, t>>] = s] /\ run' = run

EndsBatch ==
  \E d \in DagRuns, b \in Batches :
    /\ batch[<<d, b>>] = "QUEUED"
    /\ \/ batch' = [batch EXCEPT ![<<d, b>>] = "SUCCEEDED"] /\ run' = run
       \/ batch' = [batch EXCEPT ![<<d, b>>] = "FAILED"] /\ run' = [run EXCEPT ![d] = "FAILED"]

ControlMove ==
  /\ enabled' = enabled
  /\ \/ NextDagRun
     \/ dag' = dag /\ (UNCHANGED <<run, batch>> \/ AdmitsRun \/ AdmitsBatch \/ EndsBatch)

(* A task that raises is retried or fails. *)
LEMMA RaiseEnds ==
  ASSUME TasksTrue, NEW t \in Tasks, task[t] = "running", Raise(t)
  PROVE  \E state \in {"retry", "failed"} : Ends(t, state)
  BY DEF Raise, Ends

(* Every step is such a pair of moves. *)
LEMMA StepMoves ==
  ASSUME DagInv, [Next]_pvars
  PROVE  TaskMove /\ ControlMove
<1>0. TasksTrue /\ ControlTrue
  BY DEF DagInv
<1>1. CASE UNCHANGED pvars
  BY <1>1 DEF pvars, TaskMove, ControlMove
<1>2. CASE \E t \in Tasks : StartTask(t)
  BY <1>2 DEF TaskMove, ControlMove, StartTask
<1>3. CASE SkipTasks
  BY <1>3 DEF TaskMove, ControlMove, SkipTasks
<1>4. CASE NextDagRun
  BY <1>4 DEF TaskMove, ControlMove, NextDagRun
<1>5. ASSUME NEW t \in Tasks, RunScheduledJob(t) PROVE TaskMove /\ ControlMove
  <2>1. task[t] = "running" /\ (Succeed(t) \/ Raise(t)) /\ UNCHANGED <<enabled, dag, run, batch>>
    BY <1>5 DEF RunScheduledJob, Perform
  <2>2. \E state \in {"success", "retry", "failed"} : Ends(t, state)
    BY <1>0, <2>1, RaiseEnds DEF Succeed, Ends
  <2>3. QED
    BY <2>1, <2>2 DEF TaskMove, ControlMove
<1>6. ASSUME CreateRun PROVE TaskMove /\ ControlMove
  <2>1. /\ task["create"] = "running" /\ (Succeed("create") \/ Raise("create"))
        /\ UNCHANGED <<enabled, dag, batch>> /\ (run' = run \/ AdmitsRun)
    BY <1>6 DEF CreateRun, AdmitsRun
  <2>2. \E state \in {"success", "retry", "failed"} : Ends("create", state)
    BY <1>0, <2>1, RaiseEnds, PlanFacts DEF Succeed, Ends
  <2>3. QED
    BY <2>1, <2>2, PlanFacts DEF TaskMove, ControlMove
<1>7. ASSUME NEW t \in Tasks, SubmitBatch(t) PROVE TaskMove /\ ControlMove
  <2>1. /\ t \in Batches /\ task[t] = "running" /\ UNCHANGED <<enabled, dag, run>>
        /\ (waiting' = waiting \cup {t} /\ UNCHANGED <<task, tries>>) \/ Raise(t)
    BY <1>7 DEF SubmitBatch
  <2>2. batch' = batch \/ AdmitsBatch
    BY <1>7, <2>1 DEF SubmitBatch, Queue, AdmitsBatch
  <2>3. TaskMove
    BY <1>0, <2>1, RaiseEnds DEF TaskMove
  <2>4. QED
    BY <2>1, <2>2, <2>3 DEF ControlMove
<1>8. ASSUME NEW t \in Tasks, PollBatch(t) PROVE TaskMove /\ ControlMove
  <2>1. task[t] = "running"
    BY <1>0, <1>8 DEF PollBatch, TasksTrue, Running
  <2>2. (Succeed(t) \/ Raise(t)) /\ UNCHANGED <<enabled, dag, run, batch>>
    BY <1>8 DEF PollBatch
  <2>3. \E state \in {"success", "retry", "failed"} : Ends(t, state)
    BY <1>0, <2>1, <2>2, RaiseEnds DEF Succeed, Ends
  <2>4. QED
    BY <2>2, <2>3 DEF TaskMove, ControlMove
<1>9. ASSUME NEW t \in Tasks, LoseCall(t) PROVE TaskMove /\ ControlMove
  <2>1. task[t] = "running" /\ Raise(t) /\ UNCHANGED <<enabled, dag>>
    BY <1>9 DEF LoseCall
  <2>2. UNCHANGED <<run, batch>> \/ AdmitsRun \/ AdmitsBatch
    <3>1. CASE UNCHANGED <<run, batch>>
      BY <3>1
    <3>2. CASE run[dag] = "NONE" /\ ActiveRuns = {} /\ run' = [run EXCEPT ![dag] = "ADMITTED"] /\ batch' = batch
      BY <3>2 DEF AdmitsRun
    <3>3. CASE /\ t \in Batches \ waiting /\ Accepts(t)
               /\ \E s \in {"ADMITTED", "QUEUED"} : batch' = [batch EXCEPT ![<<dag, t>>] = s]
               /\ run' = run
      BY <2>1, <3>3 DEF AdmitsBatch, Accepts
    <3>4. QED
      BY <1>9, <3>1, <3>2, <3>3 DEF LoseCall
  <2>3. \E state \in {"success", "retry", "failed"} : Ends(t, state)
    BY <1>0, <2>1, RaiseEnds
  <2>4. QED
    BY <2>1, <2>2, <2>3 DEF TaskMove, ControlMove
<1>10. ASSUME NEW d \in DagRuns, NEW b \in Batches, EndBatch(d, b) PROVE TaskMove /\ ControlMove
  <2>1. UNCHANGED <<enabled, dag, task, tries, waiting>> /\ EndsBatch
    BY <1>10 DEF EndBatch, EndsBatch
  <2>2. QED
    BY <2>1 DEF TaskMove, ControlMove
<1>11. QED
  BY <1>1, <1>2, <1>3, <1>4, <1>5, <1>6, <1>7, <1>8, <1>9, <1>10, Zenon
     DEF Next, Progress, Airflow, Control, Call

(* The tasks keep their order and their number of tries. *)
LEMMA TasksTrueNext ==
  ASSUME DagInv, TaskMove
  PROVE  TasksTrue'
<1>0. /\ task \in [Tasks -> TaskStates] /\ tries \in [Tasks -> 0 .. MaxTries]
      /\ waiting \subseteq Batches \cap Running
      /\ Cardinality(Running) <= MaxActive
      /\ \A t \in Tasks : task[t] = "retry" => tries[t] < MaxTries
      /\ \A t \in Tasks : task[t] \notin {"running", "retry"} => tries[t] = 0
      /\ \A t \in Tasks : task[t] \notin {"none", "upstream_failed"} =>
           \A u \in Upstream[t] : task[u] = "success"
      /\ \A t \in Tasks : tries[t] \in Nat
  BY PipelineAssumption DEF DagInv, TasksTrue
<1>1. \A t \in Tasks : Upstream[t] \subseteq Tasks
  BY PlanFacts
<1>2. /\ IsFiniteSet(Running) /\ Cardinality(Running) \in Nat /\ MaxTries \in Nat /\ 0 < MaxTries
      /\ MaxActive \in Nat
  <2>1. Running \in SUBSET Tasks
    BY DEF Running
  <2>2. QED
    BY <2>1, TasksFinite, FS_Subset, FS_CardinalityType, PipelineAssumption
<1>3. ASSUME Running' \subseteq Running PROVE Cardinality(Running') <= MaxActive
  <2>1. Cardinality(Running') <= Cardinality(Running) /\ Cardinality(Running') \in Nat
    BY <1>2, <1>3, FS_Subset, FS_CardinalityType
  <2>2. QED
    BY <1>0, <1>2, <2>1
<1>4. CASE UNCHANGED <<task, tries, waiting>>
  <2>1. Running' = Running
    BY <1>4 DEF Running
  <2>2. QED
    BY <1>0, <1>4, <2>1 DEF TasksTrue
<1>5. ASSUME NEW t \in Tasks, StartTask(t) PROVE TasksTrue'
  <2>1. /\ task' = [task EXCEPT ![t] = "running"] /\ tries' = [tries EXCEPT ![t] = @ + 1]
        /\ task[t] \in {"none", "retry"} /\ waiting' = waiting /\ Cardinality(Running) < MaxActive
        /\ task[t] = "none" => \A u \in Upstream[t] : task[u] = "success"
    BY <1>5 DEF StartTask
  <2>2. tries[t] < MaxTries
    BY <1>0, <1>2, <2>1
  <2>3. Running' = Running \cup {t} /\ t \notin Running
    BY <1>0, <2>1 DEF Running
  <2>4. Cardinality(Running') <= MaxActive
    <3>1. Cardinality(Running \cup {t}) = Cardinality(Running) + 1
      BY <1>2, <2>3, FS_AddElement
    <3>2. QED
      BY <1>2, <2>1, <2>3, <3>1
  <2>5. task' \in [Tasks -> TaskStates] /\ tries' \in [Tasks -> 0 .. MaxTries]
    BY <1>0, <1>2, <2>1, <2>2 DEF TaskStates
  <2>6. /\ task'[t] = "running" /\ \A u \in Tasks \ {t} : task'[u] = task[u] /\ tries'[u] = tries[u]
    BY <1>0, <2>1
  <2>7. \A k \in Tasks : task'[k] \notin {"none", "upstream_failed"} =>
          \A u \in Upstream[k] : task'[u] = "success"
    BY <1>0, <1>1, <2>1, <2>6
  <2>8. QED
    BY <1>0, <2>1, <2>3, <2>4, <2>5, <2>6, <2>7 DEF TasksTrue
<1>6. ASSUME SkipTasks PROVE TasksTrue'
  <2>1. /\ task' = [t \in Tasks |-> IF t \in Skipped THEN "upstream_failed" ELSE task[t]]
        /\ UNCHANGED <<tries, waiting>>
    BY <1>6 DEF SkipTasks
  <2>2. \A t \in Skipped : task[t] = "none"
    BY DEF Skipped
  <2>3. Running' = Running
    BY <2>1, <2>2 DEF Running
  <2>4. task' \in [Tasks -> TaskStates]
    BY <1>0, <2>1 DEF TaskStates, Finished
  <2>5. \A t \in Tasks : task'[t] = task[t] \/ (task'[t] = "upstream_failed" /\ task[t] = "none")
    BY <2>1, <2>2
  <2>6. \A k \in Tasks : task'[k] \notin {"none", "upstream_failed"} =>
          \A u \in Upstream[k] : task'[u] = "success"
    BY <1>0, <1>1, <2>5
  <2>7. QED
    BY <1>0, <2>1, <2>3, <2>4, <2>5, <2>6 DEF TasksTrue
<1>7. ASSUME NextDagRun PROVE TasksTrue'
  <2>1. task' = [t \in Tasks |-> "none"] /\ UNCHANGED <<tries, waiting>> /\ DagEnded
    BY <1>7 DEF NextDagRun
  <2>2. Running = {} /\ Running' = {}
    BY <2>1 DEF Running, DagEnded, Finished
  <2>3. \A t \in Tasks : tries[t] = 0
    BY <1>0, <2>1 DEF DagEnded, Finished
  <2>4. QED
    BY <1>0, <1>3, <2>1, <2>2, <2>3 DEF TasksTrue, TaskStates
<1>8. ASSUME NEW t \in Tasks, NEW state \in {"success", "retry", "failed"}, Ends(t, state)
      PROVE  TasksTrue'
  <2>1. /\ task' = [task EXCEPT ![t] = state] /\ waiting' = waiting \ {t} /\ task[t] = "running"
        /\ tries' = [tries EXCEPT ![t] = IF state = "retry" THEN @ ELSE 0]
        /\ state = "retry" => tries[t] < MaxTries
    BY <1>8 DEF Ends, End
  <2>2. Running' = Running \ {t}
    BY <1>0, <2>1 DEF Running
  <2>3. task' \in [Tasks -> TaskStates] /\ tries' \in [Tasks -> 0 .. MaxTries]
    BY <1>0, <1>2, <2>1 DEF TaskStates, Finished
  <2>4. /\ task'[t] = state /\ \A u \in Tasks \ {t} : task'[u] = task[u] /\ tries'[u] = tries[u]
        /\ tries'[t] = IF state = "retry" THEN tries[t] ELSE 0
    BY <1>0, <2>1
  <2>5. \A k \in Tasks : task'[k] \notin {"none", "upstream_failed"} =>
          \A u \in Upstream[k] : task'[u] = "success"
    BY <1>0, <1>1, <2>1, <2>4
  <2>6. QED
    BY <1>0, <1>3, <2>1, <2>2, <2>3, <2>4, <2>5 DEF TasksTrue
<1>9. ASSUME NEW t \in Batches, task[t] = "running", waiting' = waiting \cup {t}, UNCHANGED <<task, tries>>
      PROVE  TasksTrue'
  <2>1. Running' = Running /\ t \in Running
    BY <1>9, PlanFacts DEF Running
  <2>2. QED
    BY <1>0, <1>9, <2>1 DEF TasksTrue
<1>10. QED
  BY <1>4, <1>5, <1>6, <1>7, <1>8, <1>9 DEF TaskMove

(* The control plane keeps one run active, and its batches in a run. *)
LEMMA ControlTrueNext ==
  ASSUME DagInv, ControlMove
  PROVE  ControlTrue'
<1>0. /\ dag \in DagRuns /\ enabled \in BOOLEAN /\ DagRuns \subseteq Nat
      /\ run \in [DagRuns -> {"NONE", "ADMITTED", "FAILED"}]
      /\ batch \in [DagRuns \X Batches -> {"NONE", "ADMITTED", "QUEUED", "SUCCEEDED", "FAILED"}]
      /\ \A d \in DagRuns : d > dag => run[d] = "NONE"
      /\ \A d \in DagRuns, b \in Batches : batch[<<d, b>>] # "NONE" => run[d] # "NONE"
      /\ \A d \in DagRuns : run[d] = "FAILED" => \E b \in Batches : batch[<<d, b>>] = "FAILED"
      /\ \A d, e \in DagRuns : d < e /\ run[d] = "ADMITTED" => run[e] = "NONE"
      /\ enabled' = enabled
  BY PipelineAssumption DEF DagInv, ControlTrue, ControlMove
<1>1. CASE NextDagRun
  <2>1. UNCHANGED <<run, batch>> /\ dag' = dag + 1 /\ dag + 1 \in DagRuns
    BY <1>1 DEF NextDagRun
  <2>2. QED
    BY <1>0, <2>1 DEF ControlTrue
<1>2. CASE UNCHANGED <<dag, run, batch>>
  BY <1>0, <1>2 DEF ControlTrue
<1>3. CASE dag' = dag /\ AdmitsRun
  <2>1. /\ run[dag] = "NONE" /\ run' = [run EXCEPT ![dag] = "ADMITTED"] /\ batch' = batch
        /\ \A d \in DagRuns : run[d] # "ADMITTED"
    BY <1>3 DEF AdmitsRun, ActiveRuns
  <2>2. /\ run' \in [DagRuns -> {"NONE", "ADMITTED", "FAILED"}] /\ run'[dag] = "ADMITTED"
        /\ \A d \in DagRuns \ {dag} : run'[d] = run[d]
    BY <1>0, <2>1
  <2>3. \A d \in DagRuns : d > dag => d # dag
    BY <1>0
  <2>4. \A d, e \in DagRuns : d < e /\ run'[d] = "ADMITTED" => run'[e] = "NONE"
    BY <1>0, <2>1, <2>2
  <2>5. QED
    BY <1>0, <1>3, <2>1, <2>2, <2>3, <2>4 DEF ControlTrue
<1>4. CASE dag' = dag /\ AdmitsBatch
  <2>1. PICK t \in Batches, s \in {"ADMITTED", "QUEUED"} :
          /\ task[t] = "running" /\ batch[<<dag, t>>] \in {"NONE", "ADMITTED"}
          /\ batch' = [batch EXCEPT ![<<dag, t>>] = s] /\ run' = run
    BY <1>4 DEF AdmitsBatch
  <2>2. run[dag] # "NONE"
    <3>1. task["create"] = "success"
      BY <2>1, PlanFacts DEF DagInv, TasksTrue
    <3>2. QED
      BY <3>1 DEF DagInv, SuccessTrue
  <2>3. /\ batch' \in [DagRuns \X Batches -> {"NONE", "ADMITTED", "QUEUED", "SUCCEEDED", "FAILED"}]
        /\ \A d \in DagRuns, b \in Batches :
             batch'[<<d, b>>] = batch[<<d, b>>] \/ (d = dag /\ b = t)
    BY <1>0, <2>1
  <2>4. \A d \in DagRuns, b \in Batches : batch[<<d, b>>] = "FAILED" => batch'[<<d, b>>] = "FAILED"
    BY <2>1, <2>3
  <2>5. QED
    BY <1>0, <1>4, <2>1, <2>2, <2>3, <2>4 DEF ControlTrue
<1>5. CASE dag' = dag /\ EndsBatch
  <2>1. PICK d \in DagRuns, b \in Batches :
          /\ batch[<<d, b>>] = "QUEUED"
          /\ \/ batch' = [batch EXCEPT ![<<d, b>>] = "SUCCEEDED"] /\ run' = run
             \/ batch' = [batch EXCEPT ![<<d, b>>] = "FAILED"] /\ run' = [run EXCEPT ![d] = "FAILED"]
    BY <1>5 DEF EndsBatch
  <2>2. run[d] # "NONE"
    BY <1>0, <2>1
  <2>3. /\ batch' \in [DagRuns \X Batches -> {"NONE", "ADMITTED", "QUEUED", "SUCCEEDED", "FAILED"}]
        /\ \A c \in DagRuns, k \in Batches :
             batch'[<<c, k>>] = batch[<<c, k>>] \/ (c = d /\ k = b)
        /\ run' \in [DagRuns -> {"NONE", "ADMITTED", "FAILED"}]
        /\ \A c \in DagRuns : run'[c] = run[c] \/ (c = d /\ run'[c] = "FAILED" /\ batch'[<<d, b>>] = "FAILED")
    BY <1>0, <2>1
  <2>4. \A c \in DagRuns, k \in Batches : batch[<<c, k>>] = "FAILED" => batch'[<<c, k>>] = "FAILED"
    BY <2>1, <2>3
  <2>5. \A c \in DagRuns : run'[c] = "FAILED" => \E k \in Batches : batch'[<<c, k>>] = "FAILED"
    <3>1. SUFFICES ASSUME NEW c \in DagRuns, run'[c] = "FAILED"
                   PROVE  \E k \in Batches : batch'[<<c, k>>] = "FAILED"
      OBVIOUS
    <3>2. CASE run'[c] = run[c]
      <4>1. PICK k \in Batches : batch[<<c, k>>] = "FAILED"
        BY <1>0, <3>1, <3>2
      <4>2. QED
        BY <2>4, <4>1
    <3>3. CASE c = d /\ batch'[<<d, b>>] = "FAILED"
      BY <3>3
    <3>4. QED
      BY <2>3, <3>2, <3>3
  <2>6. \A c, e \in DagRuns : c < e /\ run'[c] = "ADMITTED" => run'[e] = "NONE"
    BY <1>0, <2>2, <2>3
  <2>7. \A c \in DagRuns : c > dag => run'[c] = "NONE"
    BY <1>0, <2>2, <2>3
  <2>8. \A c \in DagRuns, k \in Batches : batch'[<<c, k>>] # "NONE" => run'[c] # "NONE"
    BY <1>0, <2>2, <2>3
  <2>9. QED
    BY <1>0, <1>5, <2>3, <2>5, <2>6, <2>7, <2>8 DEF ControlTrue
<1>6. QED
  BY <1>1, <1>2, <1>3, <1>4, <1>5 DEF ControlMove

(* A batch task succeeds when its row says SUCCEEDED, create_runtime_run     *)
(* when there is a run, and a job the runner does not perform only when      *)
(* execution is off.                                                         *)
LEMMA NewSuccess ==
  ASSUME DagInv, [Next]_pvars, NEW t \in Tasks, task'[t] = "success", task[t] # "success"
  PROVE  /\ dag' = dag
         /\ \/ t \in Jobs /\ (t \in {"raw", "preflight"} \/ ~enabled)
            \/ t = "create" /\ run'[dag] # "NONE"
            \/ t \in Batches /\ batch[<<dag, t>>] = "SUCCEEDED" /\ batch' = batch
<1>0. TasksTrue /\ task \in [Tasks -> TaskStates] /\ dag \in DagRuns /\ run \in [DagRuns -> {"NONE", "ADMITTED", "FAILED"}]
  BY DEF DagInv, TasksTrue, ControlTrue
<1>1. CASE UNCHANGED pvars \/ SkipTasks \/ NextDagRun \/ \E k \in Tasks : StartTask(k)
  BY <1>0, <1>1 DEF pvars, SkipTasks, NextDagRun, StartTask
<1>2. ASSUME NEW d \in DagRuns, NEW b \in Batches, EndBatch(d, b) PROVE FALSE
  BY <1>2 DEF EndBatch
<1>3. ASSUME NEW k \in Tasks, Raise(k) PROVE FALSE
  BY <1>0, <1>3 DEF Raise, End
<1>4. ASSUME NEW k \in Tasks, Succeed(k) PROVE k = t
  BY <1>0, <1>4 DEF Succeed, End
<1>5. ASSUME NEW k \in Tasks, LoseCall(k) PROVE FALSE
  BY <1>3, <1>5 DEF LoseCall
<1>6. ASSUME NEW k \in Tasks, SubmitBatch(k) PROVE FALSE
  BY <1>3, <1>6 DEF SubmitBatch
<1>7. ASSUME NEW k \in Tasks, RunScheduledJob(k)
      PROVE  dag' = dag /\ t \in Jobs /\ (t \in {"raw", "preflight"} \/ ~enabled)
  <2>1. k \in Jobs /\ dag' = dag /\ (Raise(k) \/ (Succeed(k) /\ (k \in {"raw", "preflight"} \/ ~enabled)))
    BY <1>7 DEF RunScheduledJob, Perform
  <2>2. QED
    BY <1>3, <1>4, <2>1
<1>8. ASSUME CreateRun PROVE dag' = dag /\ t = "create" /\ run'[dag] # "NONE"
  <2>1. /\ dag' = dag
        /\ Raise("create") \/ (Succeed("create") /\ (\/ run' = run /\ run[dag] # "NONE"
                                                     \/ run' = [run EXCEPT ![dag] = "ADMITTED"]))
    BY <1>8 DEF CreateRun
  <2>2. QED
    BY <1>0, <1>3, <1>4, <2>1, PlanFacts
<1>9. ASSUME NEW k \in Tasks, PollBatch(k)
      PROVE  dag' = dag /\ t \in Batches /\ batch[<<dag, t>>] = "SUCCEEDED" /\ batch' = batch
  <2>1. k \in Batches
    BY <1>0, <1>9 DEF PollBatch, TasksTrue
  <2>2. dag' = dag /\ batch' = batch /\ (Raise(k) \/ (Succeed(k) /\ batch[<<dag, k>>] = "SUCCEEDED"))
    BY <1>9 DEF PollBatch
  <2>3. QED
    BY <1>3, <1>4, <2>1, <2>2
<1>10. QED
  BY <1>1, <1>2, <1>5, <1>6, <1>7, <1>8, <1>9, Zenon DEF Next, Progress, Airflow, Control, Call

(* What the tasks have seen stays so. *)
LEMMA SuccessTrueNext ==
  ASSUME DagInv, [Next]_pvars
  PROVE  SuccessTrue'
<1>0. /\ SuccessTrue /\ dag \in DagRuns /\ ControlMove
      /\ run \in [DagRuns -> {"NONE", "ADMITTED", "FAILED"}]
      /\ batch \in [DagRuns \X Batches -> {"NONE", "ADMITTED", "QUEUED", "SUCCEEDED", "FAILED"}]
  BY StepMoves DEF DagInv, ControlTrue
<1>1. CASE NextDagRun
  BY <1>1, PlanFacts DEF NextDagRun, SuccessTrue, Jobs
<1>2. CASE ~NextDagRun
  <2>1. /\ dag' = dag /\ enabled' = enabled
        /\ UNCHANGED <<run, batch>> \/ AdmitsRun \/ AdmitsBatch \/ EndsBatch
    BY <1>0, <1>2 DEF ControlMove
  <2>2. \A b \in Batches : batch[<<dag, b>>] = "SUCCEEDED" => batch'[<<dag, b>>] = "SUCCEEDED"
    BY <1>0, <2>1 DEF AdmitsRun, AdmitsBatch, EndsBatch
  <2>3. run[dag] # "NONE" => run'[dag] # "NONE"
    BY <1>0, <2>1 DEF AdmitsRun, AdmitsBatch, EndsBatch
  <2>4. ASSUME NEW b \in Batches, task'[b] = "success" PROVE batch'[<<dag, b>>] = "SUCCEEDED"
    BY <1>0, <2>2, <2>4, NewSuccess, PlanFacts DEF SuccessTrue
  <2>5. ASSUME task'["create"] = "success" PROVE run'[dag] # "NONE"
    BY <1>0, <2>3, <2>5, NewSuccess, PlanFacts DEF SuccessTrue
  <2>6. ASSUME task'["accepted"] = "success" PROVE ~enabled
    <3>1. "accepted" \in Tasks /\ "accepted" \notin Batches /\ "accepted" # "create"
          /\ "accepted" \notin {"raw", "preflight"}
      BY PlanFacts DEF Jobs, Tasks
    <3>2. CASE task["accepted"] = "success"
      BY <1>0, <3>2 DEF SuccessTrue
    <3>3. CASE task["accepted"] # "success"
      BY <2>6, <3>1, <3>3, NewSuccess
    <3>4. QED
      BY <3>2, <3>3
  <2>7. QED
    BY <2>1, <2>4, <2>5, <2>6 DEF SuccessTrue
<1>3. QED
  BY <1>1, <1>2

(* A batch task that runs has its prerequisites built. *)
LEMMA PlanRespectedNext ==
  ASSUME DagInv, [Next]_pvars
  PROVE  PlanRespected'
<1>0. TasksTrue /\ SuccessTrue /\ PlanRespected
  BY DEF DagInv
<1>1. ASSUME NEW t \in Tasks, SubmitBatch(t) PROVE refused' = refused
  <2>1. t \in Batches /\ task[t] = "running"
    BY <1>1 DEF SubmitBatch
  <2>2. \A p \in Prerequisite[t] : p \in Batches /\ task[p] = "success"
    BY <1>0, <2>1, PlanFacts DEF TasksTrue
  <2>3. \A p \in Prerequisite[t] : batch[<<dag, p>>] = "SUCCEEDED"
    BY <1>0, <2>2 DEF SuccessTrue
  <2>4. Queue(t)
    BY <1>1 DEF SubmitBatch
  <2>5. QED
    BY <2>3, <2>4 DEF Queue
<1>2. refused' = refused
  <2>1. CASE UNCHANGED pvars \/ Airflow \/ Control \/ \E t \in Tasks : LoseCall(t)
    BY <2>1 DEF pvars, Airflow, StartTask, SkipTasks, NextDagRun, Control, EndBatch, LoseCall
  <2>2. CASE \E t \in Tasks : Call(t)
    BY <1>1, <2>2 DEF Call, RunScheduledJob, CreateRun, PollBatch
  <2>3. QED
    BY <2>1, <2>2 DEF Next, Progress
<1>3. QED
  BY <1>0, <1>2 DEF PlanRespected

(* pdm_platform_pipeline.py, DagInv: tasks, runs and batches agree.          *)
LEMMA DagInvHolds == Spec => []DagInv
<1>1. DagInv /\ [Next]_pvars => DagInv'
  BY StepMoves, TasksTrueNext, ControlTrueNext, SuccessTrueNext, PlanRespectedNext DEF DagInv
<1>2. QED
  BY DagInvInit, <1>1, PTL DEF Spec

(* pdm_platform_pipeline.py and execution_plan.py: for any number of DAG     *)
(* runs, retries and faults the control plane never refuses a batch for a    *)
(* prerequisite, and while a run is active no later DAG run has a batch.     *)
THEOREM DagTrueHolds == Spec => []DagTrue
<1>1. DagInv => TypeOK
  BY DEF DagInv, TasksTrue, ControlTrue, TypeOK, TaskStates
<1>2. DagInv => ActiveRunBlocks
  <2>1. SUFFICES ASSUME DagInv, NEW d \in DagRuns, NEW e \in DagRuns, d < e, run[d] = "ADMITTED"
                 PROVE  run[e] # "ADMITTED" /\ \A b \in Batches : batch[<<e, b>>] = "NONE"
    BY DEF ActiveRunBlocks
  <2>2. QED
    BY <2>1 DEF DagInv, ControlTrue
<1>3. DagInv => DagTrue
  BY <1>1, <1>2 DEF DagTrue, DagInv
<1>4. QED
  BY DagInvHolds, <1>3, PTL

(* acceptance: for any number of DAG runs it succeeds only when all ten      *)
(* batches of this run are built, no failure has ended it, and execution is  *)
(* off.                                                                      *)
THEOREM AcceptedIsBuiltHolds == Spec => []AcceptedIsBuilt
<1>1. ASSUME DagInv, task["accepted"] = "success"
      PROVE  /\ \A b \in Batches : batch[<<dag, b>>] = "SUCCEEDED"
             /\ run[dag] = "ADMITTED" /\ ~enabled
  <2>0. TasksTrue /\ ControlTrue /\ SuccessTrue
    BY <1>1 DEF DagInv
  <2>1. ASSUME NEW t \in Tasks, task[t] = "success", NEW u \in Upstream[t]
        PROVE  task[u] = "success"
    BY <2>0, <2>1 DEF TasksTrue
  <2>2. \A t \in Tasks : Edges[t] \subseteq Upstream[t]
    BY DEF Upstream
  <2>3. /\ "accepted" \in Tasks /\ "reconcile" \in Tasks /\ "scoring" \in Tasks /\ "features" \in Tasks
        /\ "dq" \in Tasks /\ "reconcile" \in Edges["accepted"] /\ "scoring" \in Edges["reconcile"]
        /\ "features" \in Edges["scoring"] /\ "dq" \in Edges["features"] /\ "down10" \in Edges["dq"]
    BY DEF Tasks, Jobs, Edges
  <2>4. task["reconcile"] = "success"
    BY <1>1, <2>1, <2>2, <2>3
  <2>5. task["scoring"] = "success"
    BY <2>1, <2>2, <2>3, <2>4
  <2>6. task["features"] = "success"
    BY <2>1, <2>2, <2>3, <2>5
  <2>7. task["dq"] = "success"
    BY <2>1, <2>2, <2>3, <2>6
  <2>8. task["down10"] = "success"
    BY <2>1, <2>2, <2>3, <2>7
  <2>9. /\ Batches \subseteq Tasks
        /\ \A b \in {"ord04", "bridge05", "alert06", "signal08", "ridsignals09"} : b \in Edges["down10"]
        /\ "ridalerts07" \in Edges["ridsignals09"]
        /\ \A b \in {"ml", "raw02", "rid03"} : b \in Edges["bridge05"]
    BY PlanFacts DEF Edges
  <2>10. \A b \in {"ord04", "bridge05", "alert06", "signal08", "ridsignals09"} : task[b] = "success"
    BY <2>1, <2>2, <2>8, <2>9, PlanFacts
  <2>11. task["ridalerts07"] = "success" /\ \A b \in {"ml", "raw02", "rid03"} : task[b] = "success"
    BY <2>1, <2>2, <2>9, <2>10, PlanFacts
  <2>12. \A b \in Batches : task[b] = "success"
    BY <2>8, <2>10, <2>11, PlanFacts
  <2>13. \A b \in Batches : batch[<<dag, b>>] = "SUCCEEDED"
    BY <2>0, <2>12 DEF SuccessTrue
  <2>14. run[dag] = "ADMITTED"
    BY <2>0, <2>13, PlanFacts DEF ControlTrue
  <2>15. QED
    BY <1>1, <2>0, <2>13, <2>14 DEF SuccessTrue
<1>2. DagInv => AcceptedIsBuilt
  BY <1>1 DEF AcceptedIsBuilt
<1>3. QED
  BY DagInvHolds, <1>2, PTL
===============================================================================
