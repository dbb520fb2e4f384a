--------------------------- MODULE MCStConnector ---------------------------
(* StConnector for TLC. *)
EXTENDS StConnector, TLC

CONSTANTS io1, io2
OneIo == {io1}
TwoIo == {io1, io2}
=============================================================================
