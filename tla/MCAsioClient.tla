---------------------------- MODULE MCAsioClient ----------------------------
(* AsioClient for TLC: a loop of two rounds, and a server with two io
   threads. *)
EXTENDS AsioClient

CONSTANTS t1, t2

TwoThreads == {t1, t2}
NoThreads  == {}
NoMsgs     == {}
ClientSends == 1..3

(* Once the session is doubled the properties say nothing more of the contents
   of the wire, and its length and the counters of the client matter only as
   what is under way in either direction: states that agree in that have the
   same futures. *)
WireUntilDoubled ==
    << <<msg_queue_, chain, runs, read, reader, joined, link, accepted, doubled, at, nCount>>,
       IF doubled THEN <<Len(wire) - got, written - taken>>
       ELSE <<op, freed, wire, written, taken, got>> >>
=============================================================================
