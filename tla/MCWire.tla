------------------------------- MODULE MCWire -------------------------------
(***************************************************************************)
(* Identifiers of no, one and two bytes; an empty string, one of a single  *)
(* two-byte letter, and one whose length takes two bytes to write.         *)
(***************************************************************************)
EXTENDS Wire

SmallIds == {0, 1, 300}
SmallTexts == {<<>>, <<195, 169>>, [i \in 1..130 |-> 97]}

=============================================================================
