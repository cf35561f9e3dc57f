-------------------------- MODULE MCPersistentRing --------------------------
(***************************************************************************)
(* Payload lengths for PersistentRing: with a two-unit header, an empty    *)
(* record, one of odd extent and one larger than a header.                 *)
(***************************************************************************)
EXTENDS PersistentRing

SomeLengths == {0, 1, 3}

=============================================================================
