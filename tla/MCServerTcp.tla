----------------------------- MODULE MCServerTcp -----------------------------
(* ServerTcp for TLC. *)
EXTENDS ServerTcp, TLC

CONSTANTS t1, t2, s1, s2, s3, s4, s5, s6

TwoThreads   == {t1, t2}
FourSessions == {s1, s2, s3, s4}
FiveSessions == {s1, s2, s3, s4, s5}
SixSessions  == {s1, s2, s3, s4, s5, s6}

(* Threads are interchangeable, and so are session objects. *)
Symmetry     == Permutations(TwoThreads) \cup Permutations(SixSessions)
SymmetryFive == Permutations(TwoThreads) \cup Permutations(FiveSessions)
=============================================================================
