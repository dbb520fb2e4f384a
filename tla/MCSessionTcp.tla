---------------------------- MODULE MCSessionTcp ----------------------------
(* SessionTcp for TLC: threads and messages are model values. *)
EXTENDS SessionTcp, TLC

CONSTANTS t1, t2, app, m1, m2, m3, m4

TwoThreads == {t1, t2}
NoThreads  == {}
OneApp     == {app}
NoMsgs     == {}
AppMsg     == {m4}
TwoMsgs    == {m1, m2}
ThreeMsgs  == {m1, m2, m3}

(* wire only records what was sent, no guard reads it, and op says which buffer
   that comes from: once two chains have met, when the properties say nothing
   more of the wire, states that differ in the two alone have the same futures. *)
WireUntilDoubled == <<msg_queue_, chain, runs, read, reader, joined, link,
                      accepted, freed, doubled, IF doubled THEN <<>> ELSE <<op, wire>> >>
=============================================================================
