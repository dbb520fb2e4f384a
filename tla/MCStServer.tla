----------------------------- MODULE MCStServer -----------------------------
(* StServer for TLC. *)
EXTENDS StServer, TLC

CONSTANTS o1, o2, o3, io1, io2
TwoObjects   == {o1, o2}
ThreeObjects == {o1, o2, o3}
OneIo == {io1}
TwoIo == {io1, io2}
=============================================================================
