-------------------------- MODULE MCTransformControl --------------------------
(* Instances of TransformControl for TLC: keys k1 ... for TransformControl's  *)
(* Keys, and the run and the batch each of them is for.                       *)
EXTENDS TransformControl, TLC

CONSTANTS r1, r2, b1, b2, k1, k2, k3, w1, w2

(* b2 needs b1, or the two are independent. *)
Chain       == (b1 :> {} @@ b2 :> {b1})
Independent == (b1 :> {} @@ b2 :> {})

(* Two batches of the first run and one of the second: one key for each.   *)
TwoRuns       == [k \in Keys |-> IF k = k3 THEN r2 ELSE r1]
BatchesOfRuns == [k \in Keys |-> IF k = k2 THEN b2 ELSE b1]

(* One run, and one batch under all keys. *)
OneRun         == [k \in Keys |-> r1]
SubmittedTwice == [k \in Keys |-> b1]

WorkerSymmetry == Permutations(Workers)
=============================================================================
