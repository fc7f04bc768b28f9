------------------------- MODULE MCProtectedBootstrap -------------------------
(* Instances of ProtectedBootstrap for TLC. *)
EXTENDS ProtectedBootstrap, TLC

WorkerSymmetry == Permutations(Workers)
=============================================================================
