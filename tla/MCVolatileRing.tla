--------------------------- MODULE MCVolatileRing ---------------------------
(***************************************************************************)
(* Model values for VolatileRing.  Producers are interchangeable where no  *)
(* record is unsealed; records carry their producer, so they permute with  *)
(* them.                                                                   *)
(***************************************************************************)
EXTENDS VolatileRing, TLC

CONSTANTS p1, p2

OneProducer == {p1}
TwoProducers == {p1, p2}
Symmetry == Permutations(TwoProducers)

AllCalls == {"write", "reserve", "block"}
WriteCalls == {"write"}

NoneUnsealed == {}
FirstUnsealed == {<<p1, 1>>}

=============================================================================
