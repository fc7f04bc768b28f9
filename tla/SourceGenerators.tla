-------------------------- MODULE SourceGenerators --------------------------
(* The source generators as programs that share a data directory:            *)
(* generate_all_sources.py runs pdmis, icmn, cpo, agent_network, wendi and   *)
(* mobile_networks in turn; any of them, and mdm_generator.py, can be run    *)
(* alone.  A program is a list of operations on files; a file that is being  *)
(* written when the process dies is left torn.                               *)
EXTENDS SourceMessages

CONSTANTS
  Jobs,        \* what an operator may start: [gens, count, cases, as_of, clean]
  MaxRuns,     \* bound on the jobs of a behaviour
  MaxFaults    \* bound on the processes that are killed

VARIABLES
  disk,        \* path -> content, for the files that are whole
  torn,        \* the paths of the files that were being written at a kill
  tables,      \* the ten mdm tables of PostgreSQL, empty at first
  run,         \* the job that runs: [job, gens, at, todo, data, touched]
  done,        \* how the last job ended: [job, why]
  runs, faults

vars == <<disk, torn, tables, run, done, runs, faults>>

Idle == [at |-> "idle"]
NoData == [loans |-> {}]

GENERATORS == <<"pdmis", "icmn", "cpo", "agent", "wendi", "mobile">>

-----------------------------------------------------------------------------
(* Files: <<directory or JSON file, number>> *)

Dirs ==
  [pdmis  |-> {"beneficiaries", "households", "loans", "repayments", "business_plans",
               "saccos", "special_groups"},
   icmn   |-> {"vpm", "pmn"},
   cpo    |-> {"psn", "plm"},
   agent  |-> {"agent_tx"},
   wendi  |-> {"pain001", "pain002", "camt052", "camt053", "camt054"},
   mobile |-> {"pacs008_MTN", "pacs008_AIRTEL", "pacs002_MTN", "pacs002_AIRTEL"},
   mdm_json |-> {}, mdm_postgres |-> {}]

Masters == {"mdm_json", "mdm_postgres"}

\* The masters are built from the roster of the agents.
Rostered(gens) ==
  \A i \in DOMAIN gens : gens[i] \in Masters => \E k \in 1..(i - 1) : gens[k] = "agent"

ASSUME JobsAssumption ==
  \A j \in Jobs : /\ IsFiniteSet(j.cases) /\ j.count \in Nat
                  /\ j.gens \in Seq(DOMAIN Dirs) \ {<<>>}
                  /\ Head(j.gens) = "pdmis" => Rostered(j.gens)

In(d) == {p \in DOMAIN disk \cup torn : p[1] \in d}

Readable(name) == <<name, 0>> \in DOMAIN disk

File(name) == disk[<<name, 0>>]

Op(op)           == [op |-> op]
WriteOp(path, c) == [op |-> "write", path |-> path, content |-> c]
JsonOp(name, c)  == WriteOp(<<name, 0>>, c)

\* clean_directory, and the loop over *.json of pdmis_generator.main
clean_directory(gen) == [op |-> "clean", paths |-> In(Dirs[gen])]

CleanFor(gen) ==
  IF run.job.clean /\ In(Dirs[gen]) # {} THEN <<clean_directory(gen)>> ELSE <<>>

-----------------------------------------------------------------------------
(* The programs *)

\* pdmis_generator.main after validation: repayments are validated only when
\* three files are there.
PdmisWrites(d) ==
  << JsonOp("beneficiaries", d.beneficiaries), JsonOp("households", d.households),
     JsonOp("loans", d.loans), Op("check"), JsonOp("repayments", d.repayments),
     JsonOp("business_plans", d.business_plans), JsonOp("saccos", d.saccos),
     JsonOp("special_groups", "groups") >>

\* The loop over the contexts, which has k files for each of them.
Each(contexts, k, file(_, _)) ==
  [i \in 1 .. k * Len(contexts) |-> file(((i - 1) \div k) + 1, ((i - 1) % k) + 1)]

icmn_main(contexts) ==
  Each(contexts, 2, LAMBDA n, j :
    IF j = 1 THEN WriteOp(<<"vpm", n>>, generate_vpm(contexts[n]))
    ELSE WriteOp(<<"pmn", n>>, generate_pmn(contexts[n])))

cpo_main(contexts) ==
  Each(contexts, 2, LAMBDA n, j :
    IF j = 1 THEN WriteOp(<<"psn", n>>, generate_psn(contexts[n]))
    ELSE WriteOp(<<"plm", n>>, generate_plm(contexts[n])))

\* One agent for every SACCO, registered when the first loan was applied for.
generate_roster(loans, saccos) ==
  LET since == Min({l.application : l \in loans})
  IN [s \in DOMAIN saccos |-> since]

Settled(c) == c.status = "ACSC"

\* The cash-outs are numbered among themselves.
agent_main(contexts) ==
  LET number(n) == Cardinality({m \in 1 .. n : Settled(contexts[m])})
  IN Each(contexts, 1, LAMBDA n, j :
       IF Settled(contexts[n])
       THEN WriteOp(<<"agent_tx", number(n)>>, generate_transaction(contexts[n]))
       ELSE Op("skip"))

\* The reports of the SACCOs, camt052, are taken as one file.
wendi_main(contexts, loans, saccos) ==
  LET total(s) == FoldSeq(LAMBDA c, t : (IF Settled(c) /\ c.sacco = s THEN c.amount ELSE 0) + t,
                          0, contexts)
      asOf == (CHOOSE l \in loans : TRUE).as_of
  IN Each(contexts, 4, LAMBDA n, j :
       CASE j = 1 -> WriteOp(<<"pain001", n>>, generate_pain001(contexts[n]))
         [] j = 2 -> WriteOp(<<"pain002", n>>, generate_pain002(contexts[n]))
         [] j = 3 /\ Settled(contexts[n]) -> WriteOp(<<"camt053", n>>, generate_camt053(contexts[n]))
         [] j = 4 /\ Settled(contexts[n]) -> WriteOp(<<"camt054", n>>, generate_camt054(contexts[n]))
         [] OTHER -> Op("skip"))
       \o << WriteOp(<<"camt052", 0>>,
                     {generate_camt052(s, total(s), asOf) : s \in DOMAIN saccos}),
             JsonOp("wendi_transactions", {transaction_record(c) : c \in Range(contexts)}) >>

\* MUTANT mobile_main: the network by the parity of the number, not the account.
mobile_main_by_index(contexts) ==
  Each(contexts, 2, LAMBDA n, j :
    IF j = 1
    THEN WriteOp(<<IF n % 2 = 1 THEN "pacs008_MTN" ELSE "pacs008_AIRTEL", n>>, generate_pacs008(contexts[n]))
    ELSE WriteOp(<<IF n % 2 = 1 THEN "pacs002_MTN" ELSE "pacs002_AIRTEL", n>>, generate_pacs002(contexts[n])))

mobile_main(contexts) ==
  LET mtn(n) == network_for_account(contexts[n].account) = "MTN"
  IN Each(contexts, 2, LAMBDA n, j :
       IF j = 1
       THEN WriteOp(<<IF mtn(n) THEN "pacs008_MTN" ELSE "pacs008_AIRTEL", n>>, generate_pacs008(contexts[n]))
       ELSE WriteOp(<<IF mtn(n) THEN "pacs002_MTN" ELSE "pacs002_AIRTEL", n>>, generate_pacs002(contexts[n])))

-----------------------------------------------------------------------------
(* mdm_generator and the resolver *)

\* MUTANT resolve_beneficiaries: the first of two persons is taken.
resolve_beneficiaries_first(rows) ==
  LET later(b) == \E o \in rows : o.beneficiary < b.beneficiary /\ o.nin = b.nin
      both(b)  == \E o \in rows : o.beneficiary # b.beneficiary /\ o.nin = b.nin
  IN {[domain |-> "beneficiary", source |-> b.beneficiary,
       status |-> IF both(b) /\ later(b) /\ ~b.nin_verified THEN "QUARANTINED" ELSE "MATCHED"] : b \in rows}

\* A verified NIN shared by two source persons quarantines both.
resolve_beneficiaries(rows) ==
  LET shared(b) == \E o \in rows : /\ o.beneficiary # b.beneficiary /\ o.nin = b.nin
                                    /\ o.nin_verified
      status(b) == IF b.nin_verified /\ shared(b) THEN "QUARANTINED" ELSE "MATCHED"
  IN {[domain |-> "beneficiary", source |-> b.beneficiary, status |-> status(b)] : b \in rows}

resolve_simple_domain(domain, keys) ==
  {[domain |-> domain, source |-> k, status |-> "MATCHED"] : k \in keys}

build_resolved_mdm(beneficiaries, saccos, agents) ==
  LET people   == resolve_beneficiaries(beneficiaries)
      status(b) == (CHOOSE r \in people : r.source = b.beneficiary).status
      places   == {b.location : b \in beneficiaries}
  IN [beneficiary_master_sources |-> beneficiaries,
      sacco_master_sources       |-> DOMAIN saccos,
      agent_master_sources       |-> DOMAIN agents,
      geography_master_sources   |-> places,
      golden_beneficiaries_restricted |-> {b \in beneficiaries : status(b) = "MATCHED"},
      golden_saccos              |-> DOMAIN saccos,
      golden_agents              |-> DOMAIN agents,
      golden_geography           |-> places,
      source_crosswalk           |-> people \cup resolve_simple_domain("sacco", DOMAIN saccos)
                                       \cup resolve_simple_domain("agent", DOMAIN agents)
                                       \cup resolve_simple_domain("geography", places),
      beneficiary_identity_alerts_restricted |->
        {r.source : r \in {q \in people : q.status = "QUARANTINED"}}]

MdmFiles == <<"beneficiary_master_sources", "sacco_master_sources", "agent_master_sources",
              "geography_master_sources", "golden_beneficiaries_restricted", "golden_saccos",
              "golden_agents", "golden_geography", "source_crosswalk",
              "beneficiary_identity_alerts_restricted">>

\* The JSON export is one file after the other, PostgreSQL one transaction.
mdm_main(gen, data) ==
  IF gen = "mdm_postgres" THEN <<[op |-> "persist", content |-> data]>>
  ELSE [n \in DOMAIN MdmFiles |-> JsonOp(MdmFiles[n], data[MdmFiles[n]])]

-----------------------------------------------------------------------------
(* Behaviour *)

Init ==
  /\ disk = << >> /\ torn = {} /\ tables = build_resolved_mdm({}, << >>, << >>)
  /\ run = Idle /\ done = Idle
  /\ runs = 0 /\ faults = 0

Gen == Head(run.gens)

\* What pdmis computes for a job: seeded, so a function of the job alone.
DatasetOf == [j \in Jobs |-> Dataset(j.count, j.cases, j.as_of)]

Valid(count, d) == validate_all(count, d) /\ validate_repayment_contract(d)

\* The job ends: all went well, an exception, or a kill.
End(why) ==
  /\ run' = Idle
  /\ done' = [at |-> "ended", job |-> run.job, why |-> why]

Go(todo) == run' = [run EXCEPT !.at = "work", !.todo = todo]

Start(job) ==
  /\ run = Idle /\ runs < MaxRuns
  /\ runs' = runs + 1
  /\ run' = [at |-> "begin", job |-> job, gens |-> job.gens, todo |-> <<>>,
             data |-> NoData, touched |-> FALSE]
  /\ UNCHANGED <<disk, torn, tables, done, faults>>

\* pdmis computes and validates before it touches the directory (argparse has
\* refused a count below 1 and an observation date not after the start) ...
BeginPdmis(d) ==
  IF Valid(run.job.count, d)
  THEN /\ run' = [run EXCEPT !.at = "work", !.data = d,
                             !.todo = CleanFor("pdmis") \o PdmisWrites(d)]
       /\ UNCHANGED done
  ELSE End("invalid")

\* ... mobile cleans after its inputs are read, the others before.
Begin ==
  /\ run.at = "begin"
  /\ \/ Gen = "pdmis" /\ BeginPdmis(DatasetOf[run.job])
     \/ /\ Gen \notin {"pdmis", "mobile", "agent"}
        /\ Go(CleanFor(Gen) \o <<Op("load")>>) /\ UNCHANGED done
     \/ /\ Gen = "agent"
        /\ Go(CleanFor(Gen) \o <<Op("roster")>>) /\ UNCHANGED done
     \/ /\ Gen = "mobile"
        /\ Go(<<Op("load")>>) /\ UNCHANGED done
  /\ UNCHANGED <<disk, torn, tables, runs, faults>>

AtOp(op) == run.at = "work" /\ run.todo # <<>> /\ Head(run.todo).op = op

Write ==
  LET path == Head(run.todo).path
  IN /\ AtOp("write")
     /\ disk' = [p \in DOMAIN disk \cup {path} |-> IF p = path THEN Head(run.todo).content ELSE disk[p]]
     /\ torn' = torn \ {path}
     /\ run' = [run EXCEPT !.todo = Tail(@), !.touched = TRUE]
     /\ UNCHANGED <<tables, done, runs, faults>>

\* Files are removed one by one.  One order stands for the arbitrary order of
\* glob: no program reads a directory that is being cleaned.
Unlink ==
  LET paths == Head(run.todo).paths
      path  == CHOOSE p \in paths : TRUE
      left  == IF paths = {path} THEN <<>> ELSE <<[op |-> "clean", paths |-> paths \ {path}]>>
  IN /\ AtOp("clean")
     /\ disk' = Restrict(disk, DOMAIN disk \ {path})
     /\ torn' = torn \ {path}
     /\ run' = [run EXCEPT !.todo = left \o Tail(@), !.touched = TRUE]
     /\ UNCHANGED <<tables, done, runs, faults>>

\* A context without the file.
Skip ==
  /\ AtOp("skip")
  /\ run' = [run EXCEPT !.todo = Tail(@)]
  /\ UNCHANGED <<disk, torn, tables, done, runs, faults>>

\* validate_no_nulls_or_blanks and validate_unique over the repayments
Check ==
  /\ AtOp("check")
  /\ IF run.data.repayments # {} /\ validate_unique(run.data.repayments, "id")
     THEN run' = [run EXCEPT !.todo = Tail(@)] /\ UNCHANGED done
     ELSE End("empty")
  /\ UNCHANGED <<disk, torn, tables, runs, faults>>

\* agent_network: the roster is written before the contexts are loaded.
Roster ==
  /\ AtOp("roster")
  /\ IF Readable("saccos") /\ Readable("loans")
     THEN LET roster == generate_roster(File("loans"), File("saccos"))
          IN /\ Go(<<JsonOp("agent_profiles", roster), JsonOp("agent_locations", DOMAIN roster),
                    Op("load")>>)
             /\ UNCHANGED done
     ELSE End("unreadable")
  /\ UNCHANGED <<disk, torn, tables, runs, faults>>

\* MUTANT LoadContexts: waits for the files instead of failing.
LoadContextsWaits ==
  /\ AtOp("load") /\ Gen \in {"icmn", "cpo", "agent", "wendi", "mobile"}
  /\ Readable("beneficiaries") /\ Readable("loans") /\ Readable("saccos")
  /\ Go(<<>>)
  /\ UNCHANGED <<done, disk, torn, tables, runs, faults>>

\* payment_contexts, then the loop of the generator.
LoadContexts ==
  /\ AtOp("load") /\ Gen \in {"icmn", "cpo", "agent", "wendi", "mobile"}
  /\ IF /\ Readable("beneficiaries") /\ Readable("loans") /\ Readable("saccos")
        /\ Loadable(File("beneficiaries"), File("loans"), File("saccos"))
     THEN LET contexts == load_pdmis_context(File("loans"), run.job.count)
          IN /\ Go(CASE Gen = "icmn"  -> icmn_main(contexts)
                     [] Gen = "cpo"   -> cpo_main(contexts)
                     [] Gen = "agent" -> agent_main(contexts)
                     [] Gen = "wendi" -> wendi_main(contexts, File("loans"), File("saccos"))
                     [] OTHER         -> CleanFor("mobile") \o mobile_main(contexts))
             /\ UNCHANGED done
     ELSE End("unreadable")
  /\ UNCHANGED <<disk, torn, tables, runs, faults>>

LoadMasters ==
  /\ AtOp("load") /\ Gen \in Masters
  /\ IF Readable("beneficiaries") /\ Readable("saccos") /\ Readable("agent_profiles")
     THEN /\ Go(mdm_main(Gen, build_resolved_mdm(File("beneficiaries"), File("saccos"),
                                                 File("agent_profiles"))))
          /\ UNCHANGED done
     ELSE End("unreadable")
  /\ UNCHANGED <<disk, torn, tables, runs, faults>>

\* persist_mdm commits, or the transaction rolls back and the command fails.
Persist ==
  /\ AtOp("persist")
  /\ \/ /\ tables' = Head(run.todo).content
        /\ run' = [run EXCEPT !.todo = <<>>] /\ UNCHANGED done
     \/ /\ UNCHANGED tables /\ End("rolled back")
  /\ UNCHANGED <<disk, torn, runs, faults>>

\* subprocess.run(check=True): the next generator only after this one's exit 0.
Finish ==
  /\ run.at = "work" /\ run.todo = <<>>
  /\ IF Len(run.gens) = 1 THEN End("ok")
     ELSE /\ run' = [run EXCEPT !.at = "begin", !.gens = Tail(@), !.data = NoData]
          /\ UNCHANGED done
  /\ UNCHANGED <<disk, torn, tables, runs, faults>>

\* The process is killed, or its disk is full, possibly in the middle of a file.
Fault ==
  /\ run # Idle /\ faults < MaxFaults
  /\ faults' = faults + 1
  /\ \/ UNCHANGED <<disk, torn>>
     \/ /\ AtOp("write")
        /\ disk' = Restrict(disk, DOMAIN disk \ {Head(run.todo).path})
        /\ torn' = torn \cup {Head(run.todo).path}
  /\ End("killed")
  /\ UNCHANGED <<tables, runs>>

Work == \/ Begin \/ Write \/ Unlink \/ Skip \/ Check \/ Roster \/ LoadContexts \/ LoadMasters
        \/ Persist \/ Finish

Next == (\E job \in Jobs : Start(job)) \/ Work \/ Fault

Spec == Init /\ [][Next]_vars /\ WF_vars(Work)

-----------------------------------------------------------------------------
(* Properties *)

Reasons == {"ok", "killed", "invalid", "empty", "unreadable", "rolled back"}

(* The type invariant: a file is whole or torn, and the generators still to  *)
(* run are the last ones of the job.                                         *)
TypeOK ==
  /\ DOMAIN disk \cap torn = {}
  /\ runs \in 0..MaxRuns /\ faults \in 0..MaxFaults
  /\ done.at = "ended" => done.why \in Reasons
  /\ run.at \in {"idle", "begin", "work"}
  /\ run.at # "idle" => /\ run.job \in Jobs
                        /\ IsSuffix(run.gens, run.job.gens) /\ run.gens # <<>>

\* pdmis has its data and has not touched a file yet.
Generated == run.at = "work" /\ Gen = "pdmis" /\ ~run.touched

(* A chain that begins with pdmis never meets an unreadable or dangling      *)
(* file of its inputs, whatever an earlier, killed, job has left: what pdmis *)
(* validates is what load_pdmis_context demands, and nothing that a later    *)
(* program of the chain cleans or writes is an input of another.             *)
ChainReadable ==
  done.at = "ended" /\ done.why = "unreadable" => Head(done.job.gens) # "pdmis"

(* pdmis_generator never refuses its own data except where no instalment is  *)
(* due yet.                                                                  *)
RefusalsExplained ==
  run.at = "idle" /\ done.at = "ended" =>
    /\ done.why # "invalid"
    /\ done.why = "empty" =>
         \A i \in done.job.cases :
           LET l == generate_loan(done.job.count, i, done.job.as_of)
           IN l.status = "DISBURSED" => add_months_on_day(l.disbursement, 1) > done.job.as_of

(* generate_repayments: the position written into a loan is what its events  *)
(* say, read without the running totals: the sum paid, never more than the   *)
(* contract, by nobody in the future; the days since the first instalment    *)
(* the sum does not cover; and the standing that follows.                    *)
PositionsTrue ==
  Generated =>
    \A l \in {m \in run.data.loans : m.status = "DISBURSED"} :
      LET own  == {e \in run.data.repayments : e.id[1] = l.loan}
          paid == FoldSet(LAMBDA e, n : e.amount + n, 0, own)
          late == {e.due : e \in {f \in own : f.type = "REPAYMENT" /\ 20 * f.instalment > paid}}
          days == IF late = {} THEN 0 ELSE l.as_of - Min(late)
      IN /\ \A e \in own : e.date <= l.as_of
         /\ l.repaid = paid /\ paid <= ContractTotal
         /\ l.days_past_due = days
         /\ l.standing = "REPAID" <=> paid = ContractTotal
         /\ l.standing = "DEFAULTED" <=> days > 90
         /\ l.standing \in {"NOT_STARTED", "REPAID", "CURRENT"} <=> late = {}

(* Generating again later in the same month keeps every payment: the event   *)
(* of that id has the same amount, date and balance.  (In another month the  *)
(* loans fall into other cohorts, and nothing is kept.)                      *)
PaymentsKept ==
  Generated /\ Readable("repayments") =>
    \A e \in File("repayments") :
      /\ e.amount > 0 /\ e.id[1] \in run.job.cases
      /\ e.as_of <= run.job.as_of /\ month_start(e.as_of) = month_start(run.job.as_of)
      => [e EXCEPT !.as_of = run.job.as_of] \in run.data.repayments

(* scaled_regional_case_counts: every case has a region, every region a case *)
(* when there are nine, no region is a whole case away from its share of the *)
(* rest, and the locations of a region differ by one case at most.           *)
QuotaKept ==
  Generated =>
    LET count  == run.job.count
        target == expected_region_counts(count)
        homes(s) == Cardinality({b \in run.data.beneficiaries : b.location = s})
    IN /\ FoldFunction(+, 0, target) = count
       /\ count >= 9 /\ count # 100 =>
            \A r \in Regions :
              LET apart == 100 * (target[r] - 1) - REGIONAL_CASE_COUNTS[r] * (count - 9)
              IN target[r] >= 1 /\ -100 < apart /\ apart < 100
       /\ Cardinality(run.job.cases) = count =>
            \A s, t \in Saccos : s[1] = t[1] => homes(s) - homes(t) \in -1..1

(* pdmis_generator writes a dataset that is right by its own definitions:    *)
(* refused only where nothing is due, readable for the programs after it,    *)
(* every loan in the position its events lead to, the payments of an earlier *)
(* run of the month kept, and the cases spread over the regions by quota.    *)
DatasetTrue ==
  TypeOK /\ ChainReadable /\ RefusalsExplained /\ PositionsTrue /\ PaymentsKept /\ QuotaKept

\* The whole chain has just exited 0.
ChainDone ==
  run.at = "idle" /\ done.at = "ended" /\ done.why = "ok" /\ done.job.gens = GENERATORS

\* The loans with a payment attempt, in order.
PaidLoans ==
  LET paid == {l \in File("loans") : l.status # "REJECTED"}
  IN [n \in 1..Cardinality(paid) |->
        CHOOSE l \in paid : Cardinality({m \in paid : m.loan < l.loan}) = n - 1]

Messages == UNION {Dirs[g] : g \in {"icmn", "cpo", "agent", "wendi", "mobile"}} \ {"camt052"}

(* After the chain has exited 0 the n-th message of every system is about    *)
(* the same loan of loans.json, with one amount, one account, one outcome,   *)
(* and on the network of that account only; a statement or a cash-out exists *)
(* exactly for the disbursed ones.  With --clean there is no other message   *)
(* and no torn file, whatever earlier jobs have left behind.                 *)
SystemsAgree ==
  ChainDone =>
    /\ \A n \in DOMAIN PaidLoans :
         LET l == PaidLoans[n]
             settled == l.status = "DISBURSED"
             to   == network_for_account(disk[<<"vpm", n>>].account)
             at(d) == CASE d = "pacs008" /\ to = "MTN" -> <<"pacs008_MTN", n>>
                        [] d = "pacs008"               -> <<"pacs008_AIRTEL", n>>
                        [] d = "pacs002" /\ to = "MTN" -> <<"pacs002_MTN", n>>
                        [] d = "pacs002"               -> <<"pacs002_AIRTEL", n>>
                        [] OTHER                       -> <<d, n>>
             each(ds) == {disk[at(d)] : d \in ds}
             kinds == {"vpm", "pmn", "psn", "plm", "pain001", "pain002", "pacs008", "pacs002"}
                        \cup (IF settled THEN {"camt053", "camt054"} ELSE {})
         IN /\ \A d \in kinds : at(d) \in DOMAIN disk
            /\ \A m \in each(kinds) : m.loan = l.loan
            /\ \A m \in each({"vpm", "psn", "pain001", "pain002", "pacs008"}) :
                 m.amount = IF settled THEN l.disbursed ELSE l.approved
            /\ \A m \in each({"psn", "pain002", "pacs002"}) : (m.status = "ACSC") <=> settled
            /\ Cardinality({m.account : m \in each({"vpm", "plm", "pain001", "pacs008"})}) = 1
            /\ \A m \in each({"plm", "pain001", "pacs008", "pacs002"}) : m.network = to
    /\ done.job.clean =>
         /\ \A p \in In(Messages) : p \in DOMAIN disk /\ \E n \in DOMAIN PaidLoans : PaidLoans[n].loan = disk[p].loan
         /\ \A d \in {"camt053", "camt054", "agent_tx"} :
              {disk[p].loan : p \in In({d})} = {l.loan : l \in {m \in File("loans") : m.status = "DISBURSED"}}

(* The SACCO reports of wendi (camt052), the statements they summarise, the   *)
(* cash-outs and the totals pdmis wrote into saccos.json are one figure.      *)
TotalsAgree ==
  ChainDone /\ done.job.clean =>
    \A r \in disk[<<"camt052", 0>>] :
      LET mine(d) == {disk[p] : p \in {q \in In({d}) : disk[q].sacco = r.sacco}}
          amounts == FoldSet(LAMBDA m, n : m.amount + n, 0, mine("camt053"))
      IN /\ r.total = amounts
         /\ r.total = File("saccos")[r.sacco].disbursed
         /\ Cardinality(mine("agent_tx")) = Cardinality(mine("camt053"))

(* What was observed agrees with what happened: PLM reports a completed       *)
(* cash-out exactly for the loans the agents paid out, nobody is paid out     *)
(* whose payment PMN reports as rejected or PLM as not credited, and PLM      *)
(* credits no payment that PSN reports as pending.  (It credits payments that *)
(* PSN reports as rejected.)                                                  *)
OutcomesAgree ==
  ChainDone /\ done.job.clean =>
    LET paidOut == {disk[p].loan : p \in In({"agent_tx"})}
        pending == {disk[p].loan : p \in {q \in In({"psn"}) : disk[q].status = "PDNG"}}
    IN /\ \A p \in In({"plm"}) :
            /\ (disk[p].cashout = "COMPLETED") <=> (disk[p].loan \in paidOut)
            /\ disk[p].credit = "FAILED" => disk[p].loan \notin paidOut
            /\ disk[p].credit = "CREDITED" => disk[p].loan \notin pending
       /\ \A p \in In({"pmn"}) : disk[p].submission = "REJECTED" => disk[p].loan \notin paidOut

(* wendi_generator and agent_network_generator, which number the agents each  *)
(* by itself, name the same agent for a cash-out: the one of the roster for   *)
(* the SACCO of the loan.  No agent is named where nothing is paid out.       *)
(* (XAgentReference of PLM is another agent, and is not compared.)            *)
AgentsAgree ==
  ChainDone /\ done.job.clean =>
    LET roster == File("agent_profiles")
        payers(loan) == {disk[p].agent : p \in {q \in In({"agent_tx"}) : disk[q].loan = loan}}
    IN \A t \in File("wendi_transactions") :
         IF payers(t.loan) = {} THEN t.agent = NotApplicable
         ELSE /\ payers(t.loan) = {t.agent}
              /\ \E s \in DOMAIN roster : /\ sacco_index(s) = t.agent
                                          /\ \E l \in File("loans") : l.loan = t.loan /\ l.sacco = s

(* No message is dated after the observation date, the planned payments of    *)
(* pending loans included, and a payment is initiated before it is reported.  *)
NothingFromTheFuture ==
  ChainDone =>
    \A n \in DOMAIN PaidLoans :
      /\ \A p \in In(Messages) : p[2] = n /\ p[1] # "agent_tx" => disk[p].on <= done.job.as_of
      /\ disk[<<"vpm", n>>].created <= disk[<<"psn", n>>].on
      /\ <<"camt053", n>> \in DOMAIN disk => disk[<<"psn", n>>].on <= disk[<<"camt053", n>>].on

(* After the chain has exited 0 five generators that never talk to each other *)
(* agree on every loan: who, how much, where, through which agent, when and   *)
(* with which outcome, and their totals are those of pdmis.  Two fields of    *)
(* PLM are outside of the agreement, XAgentReference and the XCreditStatus of *)
(* a rejected payment: the generators do not agree on them.                   *)
MessagesAgree ==
  SystemsAgree /\ TotalsAgree /\ OutcomesAgree /\ AgentsAgree /\ NothingFromTheFuture

(* The mdm tables, at any time: no two golden persons share a verified NIN,   *)
(* every quarantined person has an alert and no golden record, and every      *)
(* source row has one row in the crosswalk.                                   *)
MastersHonest ==
  LET people == tables.beneficiary_master_sources
      golden == tables.golden_beneficiaries_restricted
      alerts == tables.beneficiary_identity_alerts_restricted
      keys   == ({"beneficiary"} \X {b.beneficiary : b \in people})
                  \cup ({"sacco"} \X tables.sacco_master_sources)
                  \cup ({"agent"} \X tables.agent_master_sources)
                  \cup ({"geography"} \X tables.geography_master_sources)
  IN /\ \A b, c \in golden : b.nin = c.nin /\ b.nin_verified /\ c.nin_verified => b = c
     /\ \A b \in people : (b \in golden) <=> (b.beneficiary \notin alerts)
     /\ {<<r.domain, r.source>> : r \in tables.source_crosswalk} = keys
     /\ Cardinality(tables.source_crosswalk) = Cardinality(keys)

(* Every job ends. *)
RunEnds == (run.at # "idle") ~> (run.at = "idle")
=============================================================================
