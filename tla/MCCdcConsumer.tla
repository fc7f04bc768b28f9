---------------------------- MODULE MCCdcConsumer ----------------------------
(* Instances of CdcConsumer for TLC. *)
EXTENDS CdcConsumer, TLC

CONSTANTS m1, m2, p1, s1, s2, s3, s4, s5

Symmetric == Permutations(Members) \cup Permutations(Stamps)
=============================================================================
