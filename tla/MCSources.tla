------------------------------ MODULE MCSources ------------------------------
(* The jobs TLC runs: the whole chain over a sample of cases, pdmis alone     *)
(* over many observation dates and counts, and the masters.                   *)
EXTENDS SourceGenerators

Job(gens, count, cases, asOf, clean) ==
  [gens |-> gens, count |-> count, cases |-> cases, as_of |-> asOf, clean |-> clean]

\* 4 is paid, 12 fails and is on the other network, 20 is rejected, 24 is paid
\* to a substituted wallet.  Day 20 is in the start month, where nothing is due.
Whole == {Job(GENERATORS, count, {4, 12, 20, 24} \cap 1..count, asOf, clean) :
            count \in {12, 24}, asOf \in {20, 420}, clean \in BOOLEAN}

\* Every day of four weeks around a month end in the second year, four behaviours.
Daily == {Job(<<"pdmis">>, 100, {1, 2, 3, 4}, asOf, FALSE) : asOf \in {1, 35} \cup 405..432}

Sized == {Job(<<"pdmis">>, count, 1..Min({count, 25}), 70, FALSE) :
            count \in (1..30) \cup {99, 100, 101, 137}}

Alone == {Job(<<"wendi">>, 24, {}, 0, TRUE), Job(<<"mobile">>, 1, {}, 0, TRUE),
          Job(<<"pdmis", "agent", "mdm_postgres">>, 100, {4, 9, 41}, 420, TRUE),
          Job(<<"mdm_json">>, 100, {}, 0, TRUE)}

MCJobs == Whole \cup Daily \cup Sized \cup Alone

\* Dates follow dates and chains follow chains; only chains are killed, and the
\* counts are tried once each.
Focus ==
  /\ done # Idle /\ run' # Idle => /\ done.job \in Daily <=> run'.job \in Daily
                                  /\ done.job \notin Sized /\ run'.job \notin Sized
  /\ faults' # faults => run.job \in Whole \cup Alone

MCSpec == Init /\ [][Next /\ Focus]_vars /\ WF_vars(Work)
=============================================================================
