----------------------------- MODULE MCStTcpRecv -----------------------------
(* StTcpRecv for TLC. *)
EXTENDS StTcpRecv, TLC

CONSTANTS t1, t2, m1, m2, m3

NoThreads  == {}
TwoThreads == {t1, t2}
TwoMsgs    == {m1, m2}
ThreeMsgs  == {m1, m2, m3}

(* Messages are interchangeable, and threads. *)
Symmetry == Permutations(TwoThreads) \cup Permutations(ThreeMsgs)
=============================================================================
