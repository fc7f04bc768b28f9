----------------------------- MODULE MCPipeline -----------------------------
(* The DAG and the executor of its first batch meet only through the control *)
(* plane, of which each module has its own view: a behaviour runs the one    *)
(* and leaves the other in its initial state.                                *)
EXTENDS PlatformPipeline, BronzePublication, TLC

CONSTANTS a1, a2, a3, e1, e2, m1, m2

VARIABLE part

MCModels == <<m1, m2>>
MCExecutionOf == (a1 :> e1) @@ (a2 :> e1) @@ (a3 :> e2)

MCInit ==
  /\ Init /\ PublicationInit
  /\ part \in {"bronze", "dag"}
  /\ part = "bronze" => ~enabled

MCNext ==
  \/ part = "dag" /\ Next /\ UNCHANGED <<part, bvars>>
  \/ part = "bronze" /\ PublicationNext /\ UNCHANGED <<part, pvars>>

FairSpec ==
  /\ MCInit /\ [][MCNext]_<<part, bvars, pvars>>
  /\ WF_bvars(part = "bronze" /\ \E a \in Attempts : PublicationStep(a))
  /\ WF_pvars(part = "dag" /\ Progress)

-----------------------------------------------------------------------------
(* The attempts at a publication end, and so does every DAG run, whatever    *)
(* fails: tasks and batches end, and what is below a failed task is not      *)
(* waited for.                                                               *)
PipelineEnds == AttemptsEnd /\ <>(part = "dag" => LastEnded)
=============================================================================
