--------------------------- MODULE MCFlushDaemon ---------------------------
(***************************************************************************)
(* Model values for FlushDaemon: one producer that calls write().          *)
(***************************************************************************)
EXTENDS FlushDaemon

CONSTANTS p1

OneProducer == {p1}

WriteCalls == {"write"}

SecondUnsealed == {<<p1, 2>>}

=============================================================================
