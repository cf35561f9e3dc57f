------------------------- MODULE MCPersistentCursor -------------------------
(***************************************************************************)
(* Payload lengths for PersistentCursor.                                   *)
(***************************************************************************)
EXTENDS PersistentCursor

SomeLengths == {0, 1}

=============================================================================
