----------------------------- MODULE MCStTcpSend -----------------------------
(* StTcpSend for TLC. *)
EXTENDS StTcpSend, TLC

CONSTANTS t1, t2, m1, m2, m3, m4

TwoThreads == {t1, t2}
ThreeMsgs  == {m1, m2, m3}
FourMsgs   == {m1, m2, m3, m4}
NoMsgs     == {}
LastMsg    == {m4}

(* Threads are interchangeable. *)
Symmetry == Permutations(TwoThreads)

(* No guard reads the histories' order: sent is left out where no property
   speaks of it, and of taken only the members count. *)
WithoutHistory == <<bufferVars, postVars, suspend_send_msg_, linkVars, callVars,
                    Elements(taken)>>
=============================================================================
