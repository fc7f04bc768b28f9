------------------------------ MODULE PdmisData ------------------------------
(* What pdmis_generator.py computes for a case: its region and SACCO, the    *)
(* lifecycle dates of its loan, the repayment events up to the observation   *)
(* date and the position they leave, and the validators the data must pass.  *)
(*                                                                           *)
(* A date is a number of days, 0 the first day of the start month (January   *)
(* of a leap year, as in DEFAULT_START_DATE).  A month is its distance from  *)
(* the start month.  Repayments are counted in twentieths of the scheduled   *)
(* instalment, so that every multiplier of the code is a whole number;       *)
(* principals in units of 25,000 UGX.                                        *)
EXTENDS Integers, Sequences, FiniteSets, SequencesExt, FiniteSetsExt, Functions

CONSTANTS
  LocationsIn,   \* PDM_LOCATIONS of each region (the code has 2 to 8)
  LastMonth      \* bound: no observation date is later than this month

ASSUME LocationsAssumption == LocationsIn \in Nat \ {0}

-----------------------------------------------------------------------------
(* Calendar *)

MonthDays(m) ==
  IF m % 48 = 1 THEN 29
  ELSE <<31, 28, 31, 30, 31, 30, 31, 31, 30, 31, 30, 31>>[(m % 12) + 1]

FirstDay[m \in 0..(LastMonth + 13)] ==
  IF m = 0 THEN 0 ELSE FirstDay[m - 1] + MonthDays(m - 1)

month_start(d) == CHOOSE m \in 0..(LastMonth + 12) :
                    FirstDay[m] <= d /\ d < FirstDay[m + 1]

reporting_months(asOf) == month_start(asOf) + 1

add_months_on_day(d, n) ==
  LET from == month_start(d)
      to   == from + n
  IN FirstDay[to] + Min({d - FirstDay[from], MonthDays(to) - 1})

-----------------------------------------------------------------------------
(* Regions: largest remainders, one case in every region first *)

Regions == 1..9

REGIONAL_CASE_COUNTS == <<16, 24, 8, 14, 8, 14, 4, 6, 6>>

\* The n regions that come first by key, then by weight, then in file order.
Ranked(n, key) ==
  LET before(r, s) ==
        \/ key[r] > key[s]
        \/ /\ key[r] = key[s]
           /\ \/ REGIONAL_CASE_COUNTS[r] > REGIONAL_CASE_COUNTS[s]
              \/ REGIONAL_CASE_COUNTS[r] = REGIONAL_CASE_COUNTS[s] /\ r < s
  IN {r \in Regions : Cardinality({s \in Regions : before(s, r)}) < n}

scaled_regional_case_counts(count) ==
  LET rest   == count - 9
      share  == [r \in Regions |-> REGIONAL_CASE_COUNTS[r] * rest]
      floors == [r \in Regions |-> share[r] \div 100]
      spare  == Ranked(rest - FoldFunction(+, 0, floors), [r \in Regions |-> share[r] % 100])
  IN IF count < 9
     THEN [r \in Regions |-> IF r \in Ranked(count, REGIONAL_CASE_COUNTS) THEN 1 ELSE 0]
     ELSE [r \in Regions |-> 1 + floors[r] + IF r \in spare THEN 1 ELSE 0]

expected_region_counts(count) ==
  IF count = 100 THEN REGIONAL_CASE_COUNTS ELSE scaled_regional_case_counts(count)

\* The location, and with it the SACCO, of case i: regions in file order, the
\* locations of a region in turn.
build_case_locations(count, i) ==
  LET target     == expected_region_counts(count)
      earlier(r) == FoldFunctionOnSet(+, 0, target, 1..(r - 1))
      region     == CHOOSE r \in Regions :
                      earlier(r) < i /\ i <= earlier(r) + target[r]
  IN <<region, (i - 1 - earlier(region)) % LocationsIn>>

Saccos == Regions \X (0..(LocationsIn - 1))

-----------------------------------------------------------------------------
(* Loans *)

loan_status_for_case(i) ==
  CASE i % 20 = 0                             -> "REJECTED"
    [] i % 20 \in {5, 7, 10, 12, 14, 15, 18} -> "APPROVED"
    [] OTHER                                  -> "DISBURSED"

approval_date_for_case(i, months) == FirstDay[(i - 1) % months] + 4 + ((i - 1) % 20)

\* A pending approval is recent, a disbursed one old enough for its cash-out.
ApprovalDate(i, asOf) ==
  LET status == loan_status_for_case(i)
      capped == Min({approval_date_for_case(i, reporting_months(asOf)), asOf - 2})
  IN CASE status = "APPROVED"                          -> asOf - (10 + (i % 5))
       [] status = "DISBURSED" /\ capped + 8 > asOf -> asOf - 8
       [] OTHER                                        -> capped

NotApplicable == -9999   \* no date, no agent

generate_loan(count, i, asOf) ==
  LET status   == loan_status_for_case(i)
      approval == ApprovalDate(i, asOf)
      paid     == status = "DISBURSED"
  IN [loan         |-> i,
      status       |-> status,
      sacco        |-> build_case_locations(count, i),
      application  |-> approval - 14,
      approval     |-> approval,
      verification |-> approval + 2,
      disbursement |-> IF paid THEN approval + 7 ELSE NotApplicable,
      cashout      |-> IF paid THEN approval + 8 ELSE NotApplicable,
      as_of        |-> asOf,
      approved     |-> IF status = "REJECTED" THEN 0 ELSE 40,
      disbursed    |-> CASE ~paid     -> 0
                         [] i % 5 = 0 -> 40 - 1 - (i % 7)
                         [] OTHER     -> 40]

-----------------------------------------------------------------------------
(* Repayments *)

Profile(i) ==
  <<"STRONG", "STEADY", "VOLATILE", "DISTRESSED", "DEFAULT_PRONE">>[((i - 1) % 5) + 1]

\* What the borrower of case i does about instalment k.
Intended(i, k) ==
  LET pay(share, late, status) == [share |-> share, late |-> late, status |-> status]
      slot  == (i + k) % 5
      lates == (i + k) % 4
  IN CASE Profile(i) = "STRONG" -> pay(IF k % 4 = 0 THEN 21 ELSE 20, 0, "SUCCESSFUL")
       [] Profile(i) = "STEADY" ->
            pay(20, lates, IF lates = 0 THEN "SUCCESSFUL" ELSE "LATE")
       [] Profile(i) = "VOLATILE" ->
            CASE slot = 0 -> pay(0, 0, "FAILED")
              [] slot = 1 -> pay(10, 12, "PARTIAL")
              [] slot = 2 -> pay(20, 18, "LATE")
              [] OTHER    -> pay(20, 0, "SUCCESSFUL")
       [] Profile(i) = "DISTRESSED" ->
            IF k % 3 = 0 THEN pay(0, 0, "MISSED") ELSE pay(9, 25 + k, "PARTIAL")
       [] OTHER -> IF k > 2 THEN pay(0, 0, "MISSED") ELSE pay(20, 10, "LATE")

Bucket(days) ==
  CASE days = 0   -> "CURRENT"
    [] days <= 30 -> "DPD_1_30"
    [] days <= 60 -> "DPD_31_60"
    [] days <= 90 -> "DPD_61_90"
    [] OTHER      -> "DPD_90_PLUS"

Term == 12
ContractTotal == 20 * Term

\* paid_total after the events so far.
Repaid(events) == IF events = <<>> THEN 0 ELSE Last(events).cumulative

\* The instalment of due date due, on the account left by the earlier ones.
RepaymentEvent(i, k, due, asOf, events) ==
  LET plan   == Intended(i, k)
      paid   == Repaid(events)
      date   == due + plan.late
      missed == plan.share > 0 /\ date > asOf
      made   == plan.share > 0 /\ ~missed
      amount == IF made THEN Min({plan.share, ContractTotal - paid}) ELSE 0
  IN [id         |-> <<i, Len(events) + 1>>,
      instalment |-> k,
      type       |-> "REPAYMENT",
      due        |-> due,
      date       |-> IF made THEN date ELSE due,
      amount     |-> amount,
      status     |-> IF missed THEN "MISSED" ELSE plan.status,
      days_late  |-> IF made THEN plan.late ELSE asOf - due,
      cumulative |-> paid + amount,
      as_of      |-> asOf]

\* A volatile borrower makes good a failed instalment three weeks later.
Recovered(event, asOf) ==
  LET amount == Min({20, ContractTotal - event.cumulative})
  IN [event EXCEPT !.id[2] = @ + 1, !.type = "RECOVERY", !.date = event.due + 21,
                   !.amount = amount, !.status = "RECOVERED", !.days_late = 21,
                   !.cumulative = @ + amount]

\* What instalment k adds to the events.
Booked(i, event, asOf) ==
  IF Profile(i) = "VOLATILE" /\ event.status = "FAILED" /\ event.due + 21 <= asOf
  THEN <<event, Recovered(event, asOf)>> ELSE <<event>>

\* Nothing falls due after the observation date.
WithInstalment(past, i, k, due, asOf) ==
  IF due > asOf THEN past
  ELSE past \o Booked(i, RepaymentEvent(i, k, due, asOf, past), asOf)

generate_repayments(loan, asOf) ==
  LET after[k \in 0..Term] ==
        IF k = 0 THEN <<>>
        ELSE WithInstalment(after[k - 1], loan.loan, k,
                            add_months_on_day(loan.disbursement, k), asOf)
  IN IF loan.status = "DISBURSED" THEN after[Term] ELSE <<>>

\* MUTANT Position: the days are counted from the last instalment the payments
\* cover, not from the first one that they do not.
PositionFromCovered(loan, events, asOf) ==
  LET dues == {add_months_on_day(loan.disbursement, k) : k \in 1..Term} \cap 0..asOf
      paid == Repaid(events)
      scheduled == 20 * Cardinality(dues)
      arrears   == Max({0, scheduled - paid})
      days      == IF arrears > 0 THEN asOf - add_months_on_day(loan.disbursement, paid \div 20)
                   ELSE 0
  IN [repaid |-> paid, outstanding |-> ContractTotal - paid, scheduled |-> scheduled,
      days_past_due |-> days, bucket |-> Bucket(days),
      standing |-> CASE scheduled = 0         -> "NOT_STARTED"
                     [] paid >= ContractTotal -> "REPAID"
                     [] days > 90             -> "DEFAULTED"
                     [] arrears > 0           -> "IN_ARREARS"
                     [] OTHER                 -> "CURRENT"]

\* What generate_repayments writes back into the loan.
Position(loan, events, asOf) ==
  LET dues == {add_months_on_day(loan.disbursement, k) : k \in 1..Term} \cap 0..asOf
      paid == Repaid(events)
      scheduled == 20 * Cardinality(dues)
      arrears   == Max({0, scheduled - paid})
      covered   == paid \div 20
      oldest    == add_months_on_day(loan.disbursement, covered + 1)
      days      == IF arrears > 0 /\ covered < Cardinality(dues) THEN asOf - oldest ELSE 0
  IN [repaid        |-> paid,
      outstanding   |-> ContractTotal - paid,
      scheduled     |-> scheduled,
      days_past_due |-> days,
      bucket        |-> Bucket(days),
      standing      |-> CASE scheduled = 0         -> "NOT_STARTED"
                          [] paid >= ContractTotal -> "REPAID"
                          [] days > 90             -> "DEFAULTED"
                          [] arrears > 0           -> "IN_ARREARS"
                          [] OTHER                 -> "CURRENT"]

NoPosition == [repaid |-> 0, outstanding |-> 0, scheduled |-> 0, days_past_due |-> 0,
               bucket |-> "CURRENT", standing |-> "NOT_STARTED"]

-----------------------------------------------------------------------------
(* The other records of a case *)

\* SHARED_NIN_PAIRS: the follower enrols with the leader's national ID.
shared_nin_partner(i) ==
  CASE i = 41 -> 4 [] i = 71 -> 17 [] i = 86 -> 23 [] OTHER -> i

registration_date_for_case(i) == 0 - (90 + ((i - 1) % 60))

generate_beneficiary(count, i) ==
  [beneficiary  |-> i,
   nin          |-> shared_nin_partner(i),
   nin_verified |-> i \notin {9, 30, 52, 68, 91},
   household    |-> i,
   location     |-> build_case_locations(count, i),
   registration |-> registration_date_for_case(i)]

generate_household(b) ==
  LET adults == 1 + (b.beneficiary % 3)
  IN [household    |-> b.household,
      adults       |-> adults,
      children     |-> Max({0, (b.beneficiary % 6) - (adults % 2)}),
      location     |-> b.location,
      registration |-> b.registration]

generate_business_plan(loan) ==
  [loan |-> loan.loan, beneficiary |-> loan.loan, submission |-> loan.approval - 7,
   status |-> IF loan.status = "REJECTED" THEN "REJECTED" ELSE "APPROVED"]

\* Repayments come in twentieths of an instalment of the whole principal, 40
\* units: a loan of d units repays d fortieths of that.
generate_saccos(loans) ==
  [s \in Saccos |->
     LET own == {l \in loans : l.sacco = s}
         total(f(_)) == FoldSet(LAMBDA l, n : f(l) + n, 0, own)
     IN [beneficiaries |-> Cardinality(own),
         received      |-> total(LAMBDA l : l.approved),
         disbursed     |-> total(LAMBDA l : l.disbursed),
         repaid        |-> total(LAMBDA l : l.repaid * l.disbursed)]]

\* A loan with its events and the position they leave.
Account(loan, events, asOf) ==
  [loan   |-> loan @@ (IF loan.status = "DISBURSED" THEN Position(loan, events, asOf)
                       ELSE NoPosition),
   events |-> events]

Repaying(loan, asOf) == Account(loan, generate_repayments(loan, asOf), asOf)

\* The seven datasets of a run, from its beneficiaries and accounts.
Datasets(beneficiaries, accounts) ==
  LET loans == {a.loan : a \in accounts}
  IN [beneficiaries  |-> beneficiaries,
      households     |-> {generate_household(b) : b \in beneficiaries},
      loans          |-> loans,
      repayments     |-> UNION {Range(a.events) : a \in accounts},
      business_plans |-> {generate_business_plan(l) : l \in loans},
      saccos         |-> generate_saccos(loans)]

Dataset(count, cases, asOf) ==
  Datasets({generate_beneficiary(count, i) : i \in cases},
           {Repaying(generate_loan(count, i, asOf), asOf) : i \in cases})

-----------------------------------------------------------------------------
(* Validators *)

\* validate_unique over a dataset held as a set: no two records share a key.
validate_unique(records, key) ==
  \A r, s \in records : r[key] = s[key] => r = s

validate_referential_integrity(d) ==
  LET ids == {b.beneficiary : b \in d.beneficiaries}
  IN /\ \A b \in d.beneficiaries : \E h \in d.households : h.household = b.household
     /\ \A l \in d.loans : /\ l.loan \in ids
                          /\ l.sacco \in DOMAIN d.saccos
                          /\ \E p \in d.business_plans : p.loan = l.loan
     /\ \A p \in d.business_plans : p.beneficiary \in ids /\ \E l \in d.loans : l.loan = p.loan

\* The lifecycle of a disbursed loan in order, none of it after the as-of date.
LifecycleOrdered(l) ==
  /\ l.application <= l.approval /\ l.approval <= l.verification
  /\ l.verification <= l.disbursement /\ l.disbursement <= l.cashout
  /\ l.cashout <= l.as_of

Undisbursed(l) ==
  l.disbursed = 0 /\ l.disbursement = NotApplicable /\ l.cashout = NotApplicable

validate_pdm_loan_amounts(loans) ==
  /\ Cardinality({l.as_of : l \in loans}) = 1
  /\ \A l \in loans :
       CASE l.status = "DISBURSED" -> /\ l.approved = 40
                                      /\ l.disbursed > 0 /\ l.disbursed <= l.approved
                                      /\ LifecycleOrdered(l)
         [] l.status = "APPROVED"  -> l.approved = 40 /\ Undisbursed(l)
         [] OTHER                  -> l.approved = 0 /\ Undisbursed(l)

\* Equality, or at most that when the cases are a sample of the count.
validate_regional_distribution(count, d) ==
  \A r \in Regions :
    LET found    == Cardinality({b \in d.beneficiaries : b.location[1] = r})
        expected == expected_region_counts(count)[r]
    IN found = expected \/ (found < expected /\ Cardinality(d.beneficiaries) < count)

validate_all(count, d) ==
  /\ validate_unique(d.beneficiaries, "beneficiary")
  /\ validate_unique(d.households, "household")
  /\ validate_unique(d.loans, "loan")
  /\ validate_unique(d.business_plans, "loan")
  /\ validate_referential_integrity(d)
  /\ validate_pdm_loan_amounts(d.loans)
  /\ validate_regional_distribution(count, d)

\* Every event reconciles with its loan's contract, and the last event of a loan
\* with the loan's position.
validate_repayment_contract(d) ==
  /\ \A e \in d.repayments : \E l \in d.loans : l.loan = e.id[1]
  /\ \A l \in d.loans :
       LET own == {e \in d.repayments : e.id[1] = l.loan}
       IN /\ l.status = "DISBURSED" => l.repaid + l.outstanding = ContractTotal
          /\ \A e \in own :
               (\A f \in own : f.id[2] <= e.id[2]) =>
                 /\ ContractTotal - e.cumulative = l.outstanding
                 /\ Min({e.cumulative, 20 * e.instalment}) * l.scheduled
                      = Min({l.repaid, l.scheduled}) * 20 * e.instalment
=============================================================================
