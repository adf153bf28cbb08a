-------------------------- MODULE MCNetworkSession --------------------------
(***************************************************************************)
(* Instances of NetworkSession for TLC: a prefix of two units, messages    *)
(* shorter and longer than it.                                             *)
(***************************************************************************)
EXTENDS NetworkSession

SomeSizes == {1, 3}
SomeLengths == {-2, 0, 2, 9}
=============================================================================
