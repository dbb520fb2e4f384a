------------------------------ MODULE MCMsgPool ------------------------------
(* MsgPool for TLC. *)
EXTENDS MsgPool, TLC

CONSTANTS t1, t2, b1, b2, b3, b4, echo, ping

TwoThreads  == {t1, t2}
FourBuffers == {b1, b2, b3, b4}
TwoTypes    == {echo, ping}
OneType     == {echo}

(* Below, at and beyond the fixed body, with MaxBody = 2. *)
AllLengths == {0, 2, 3, 4}

(* Threads and buffers are interchangeable. *)
Symmetry == Permutations(TwoThreads) \cup Permutations(FourBuffers)
=============================================================================
