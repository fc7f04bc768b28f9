---------------------------- MODULE MCRawConsumer ----------------------------
(* Instances of RawConsumer for TLC. *)
EXTENDS RawConsumer

CONSTANTS m1, m2, p1

MCNone   == {}
MCSecond == {<<p1, 1>>}
=============================================================================
