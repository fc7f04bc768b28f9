--------------------------- MODULE SourceMessages ---------------------------
(* What the five downstream generators derive from the PDMIS files           *)
(* (generator_common.py and the icmn, cpo, agent_network, wendi and          *)
(* mobile_networks generators): the payment context of a loan and the        *)
(* message each of them writes about it.  A message keeps the fields that    *)
(* must agree between systems: the loan, the outcome, the amount, the        *)
(* account credited, the agent of the cash-out and the dates.                *)
EXTENDS PdmisData

-----------------------------------------------------------------------------
(* generator_common: what a loan says about its payment *)

payment_scenario(loan) ==
  LET slot == loan.loan % 20
  IN CASE loan.status = "DISBURSED" -> "SUCCESSFUL"
       [] slot = 5  -> "BENEFICIARY_VALIDATION_FAILED"
       [] slot = 10 -> "DOWNSTREAM_PROVIDER_FAILED"
       [] slot = 12 -> "FAILED"
       [] slot = 14 -> "DELAYED"
       [] slot = 15 -> "REJECTED"
       [] slot = 17 -> "AGENT_FINAL_MILE_FAILED"
       [] OTHER     -> "PENDING"

scenario_status(scenario) ==
  CASE scenario = "SUCCESSFUL"             -> "ACSC"
    [] scenario \in {"PENDING", "DELAYED"} -> "PDNG"
    [] OTHER                               -> "RJCT"

\* A substituted wallet is on the other network's prefix.
is_account_substituted(i) == i % 12 = 0

payment_account(i) == <<IF is_account_substituted(i) THEN "25678" ELSE "25677", i>>

network_for_account(account) == IF account[1] = "25677" THEN "MTN" ELSE "AIRTEL"

disbursement_eligible(loan) ==
  /\ loan.status = "DISBURSED"
  /\ loan.disbursement # NotApplicable
  /\ loan.disbursed > 0

validate_loan_lifecycle_contract(loan) ==
  IF loan.status = "DISBURSED" THEN loan.disbursed > 0 /\ LifecycleOrdered(loan)
  ELSE /\ loan.disbursed = 0
       /\ loan.disbursement = NotApplicable /\ loan.cashout = NotApplicable

\* AGENT-000n is the agent of the n-th SACCO of saccos.json.
sacco_index(s) == (s[1] - 1) * LocationsIn + s[2] + 1

\* The context of a payment attempt; an approved loan is given planned dates.
Context(loan) ==
  LET scenario == payment_scenario(loan)
      pending  == loan.status = "APPROVED"
  IN [loan         |-> loan.loan,
      sacco        |-> loan.sacco,
      scenario     |-> scenario,
      status       |-> scenario_status(scenario),
      amount       |-> IF disbursement_eligible(loan) THEN loan.disbursed ELSE loan.approved,
      account      |-> payment_account(loan.loan),
      verification |-> loan.verification,
      disbursement |-> IF pending THEN loan.verification + 1 ELSE loan.disbursement,
      cashout      |-> IF pending THEN loan.verification + 2 ELSE loan.cashout]

\* load_pdmis_context: raises (Loadable) or the contexts in loan order, cut at count.
Loadable(beneficiaries, loans, saccos) ==
  /\ Cardinality({l.as_of : l \in loans}) = 1
  /\ \A l \in loans : /\ validate_loan_lifecycle_contract(l)
                      /\ \E b \in beneficiaries : b.beneficiary = l.loan
                      /\ l.sacco \in DOMAIN saccos

load_pdmis_context(loans, count) ==
  LET paid   == {l \in loans : l.status # "REJECTED"}
      nth(n) == CHOOSE l \in paid : Cardinality({m \in paid : m.loan < l.loan}) = n - 1
  IN [n \in 1..Min({Cardinality(paid), count}) |-> Context(nth(n))]

\* The technical event of a payment: what the network observed.  PLM takes its
\* agent from the number of the loan, not from the SACCO.
technical_event_fields(c, type) ==
  LET failed(code, stage) == [status |-> "FAILED", error |-> code, stage |-> stage]
      usual    == IF type = "PMN" THEN "payment-routing" ELSE "mobile-money-credit"
      outcome  ==
        CASE c.scenario \in {"PENDING", "DELAYED"} ->
               [status |-> c.scenario, error |-> "none", stage |-> usual]
          [] c.scenario = "BENEFICIARY_VALIDATION_FAILED" -> failed("AC01", "payment-validation")
          [] c.scenario = "DOWNSTREAM_PROVIDER_FAILED" /\ type = "PLM" ->
               failed("PROVIDER_UNAVAILABLE", usual)
          [] c.scenario = "AGENT_FINAL_MILE_FAILED" /\ type = "PLM" ->
               failed("AGENT_CASHOUT_FAILED", "agent-cashout")
          [] c.scenario \in {"FAILED", "REJECTED"} -> failed("PROCESSING_REJECTED", usual)
          [] OTHER -> [status |-> "COMPLETED", error |-> "none", stage |-> usual]
      timeout  == type = "PLM" /\ c.loan % 11 = 0
      retried  == type = "PLM" /\ c.loan % 7 = 0
      status   == CASE timeout -> "TIMED_OUT"
                    [] retried /\ outcome.status = "COMPLETED" -> "RETRYING"
                    [] OTHER -> outcome.status
      common   == [loan   |-> c.loan,
                   on     |-> c.disbursement,
                   stage  |-> outcome.stage,
                   status |-> status,
                   error  |-> IF timeout THEN "TECHNICAL_TIMEOUT" ELSE outcome.error]
  IN IF type = "PMN"
     THEN common @@ [submission |-> IF status = "FAILED" THEN "REJECTED" ELSE "ACCEPTED"]
     ELSE common @@
          [account |-> c.account,
           network |-> network_for_account(c.account),
           credit  |-> CASE c.scenario = "DOWNSTREAM_PROVIDER_FAILED" -> "FAILED"
                         [] status \in {"PENDING", "DELAYED", "RETRYING", "TIMED_OUT"} -> "PENDING"
                         [] OTHER -> "CREDITED",
           agent   |-> ((c.loan - 1) % 50) + 1,
           cashout |-> CASE c.scenario = "AGENT_FINAL_MILE_FAILED" -> "FAILED"
                         [] c.scenario = "SUCCESSFUL" -> "COMPLETED"
                         [] OTHER -> "NOT_STARTED"]

-----------------------------------------------------------------------------
(* The messages *)

generate_vpm(c) ==
  [loan |-> c.loan, amount |-> c.amount, account |-> c.account,
   network |-> network_for_account(c.account), created |-> c.verification, on |-> c.disbursement]

generate_pmn(c) == technical_event_fields(c, "PMN")

generate_psn(c) ==
  [loan |-> c.loan, amount |-> c.amount, status |-> c.status, on |-> c.disbursement]

generate_plm(c) == technical_event_fields(c, "PLM")

generate_transaction(c) ==
  [loan |-> c.loan, sacco |-> c.sacco, agent |-> sacco_index(c.sacco),
   withdrawn |-> (c.amount * 95) \div 100, on |-> c.cashout]

generate_pain001(c) ==
  [loan |-> c.loan, amount |-> c.amount, account |-> c.account,
   network |-> network_for_account(c.account), created |-> c.verification, on |-> c.disbursement]

generate_pain002(c) ==
  [loan |-> c.loan, amount |-> c.amount, status |-> c.status, on |-> c.disbursement]

generate_camt053(c) ==
  [loan |-> c.loan, sacco |-> c.sacco, amount |-> c.amount, from |-> c.disbursement,
   on |-> c.cashout]

generate_camt054(c) ==
  [loan |-> c.loan, amount |-> c.amount, account |-> c.account, on |-> c.cashout]

generate_camt052(sacco, total, asOf) == [sacco |-> sacco, total |-> total, on |-> asOf]

transaction_record(c) ==
  [loan |-> c.loan, sacco |-> c.sacco, amount |-> c.amount, account |-> c.account,
   status |-> CASE c.status = "ACSC" -> "SUCCESSFUL"
                [] c.status = "PDNG" -> "PENDING"
                [] OTHER             -> "FAILED",
   agent |-> IF c.status = "ACSC" THEN sacco_index(c.sacco) ELSE NotApplicable,
   on |-> c.disbursement]

generate_pacs008(c) ==
  [loan |-> c.loan, amount |-> c.amount, account |-> c.account,
   network |-> network_for_account(c.account), on |-> c.disbursement]

generate_pacs002(c) ==
  [loan |-> c.loan, status |-> c.status, network |-> network_for_account(c.account),
   on |-> c.disbursement]
=============================================================================
