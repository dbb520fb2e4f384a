----------------------------- MODULE AsioClient -----------------------------
(***************************************************************************)
(* The blocking test client (asio_client/asio_client.cpp) talking to the   *)
(* session that serves it: one thread of RunConnection composed with       *)
(* SessionTcp.  The 20 threads of the client share nothing but the lock    *)
(* around cout, so one of them stands for all; join_all waits until each   *)
(* has returned.                                                           *)
(*                                                                         *)
(* Message k is the k-th one the client sends.  What a side has written    *)
(* and the other has not read is in the network; both directions carry     *)
(* segments, the header or the body of a message.                          *)
(*                                                                         *)
(* Once the session is doubled (SessionTcp), what comes back is no echo any *)
(* more: the client may take a piece of a body for the length of the next  *)
(* one, and is then "misled": it sends anything, or nothing, and may end or *)
(* wait for ever.                                                          *)
(***************************************************************************)
EXTENDS SessionTcp

CONSTANTS
    nTotalCnt,   \* the limit of the do-while loop (100 in the code)
    MayBreak     \* the network may break the link, the server be stopped

ASSUME ClientAssumption ==
    /\ nTotalCnt \in Nat
    /\ MayBreak \in BOOLEAN
    /\ ClientMsgs = 1..(nTotalCnt + 2)

VARIABLES
    at,        \* where RunConnection is
    nCount,    \* its loop counter
    written,   \* segments the client has written
    taken,     \* segments of these that the session has read
    got        \* segments of wire that the client has read

clientVars == <<at, nCount, written, taken, got>>
allVars    == <<vars, clientVars>>

Closed == {"exit", "exception"}
Ends   == Closed \cup {"not_connected"}
Loop   == {"read_header", "read_body", "write_header", "write_body"}
Places == {"connect", "first_header", "first_body", "misled"} \cup Loop \cup Ends

ClientTypeOK ==
    /\ TypeOK
    /\ at \in Places
    /\ nCount \in 0..(nTotalCnt + 1)
    /\ written \in 0..(2 * nTotalCnt + 4)
    /\ taken \in 0..written
    /\ got \in 0..Len(wire)

EchoInit ==
    /\ Init
    /\ at = "connect"
    /\ nCount = 0 /\ written = 0 /\ taken = 0 /\ got = 0

-----------------------------------------------------------------------------
(* RunConnection *)

\* connect: on an error the thread returns at once.
connect(next) ==
    /\ at = "connect"
    /\ next \in {"first_header", "not_connected"}
    /\ at' = next
    /\ UNCHANGED <<vars, nCount, written, taken, got>>

\* A blocking write of one segment: into the network, or an exception.
write_segment(here, next) ==
    /\ at = here
    /\ \/ link # "down" /\ written' = written + 1 /\ at' = next
       \/ link = "down" /\ at' = "exception" /\ UNCHANGED written
    /\ UNCHANGED <<vars, taken, got>>

\* Mutant of read_segment: an error is taken for more to come.
read_segment_waits(here, next) ==
    /\ at = here
    /\ got < Len(wire) /\ got' = got + 1 /\ at' = next
    /\ UNCHANGED <<vars, nCount, written, taken>>

\* A blocking read of one segment.  A reset may destroy what was sent before.
read_segment(here, next) ==
    /\ at = here
    /\ \/ got < Len(wire) /\ got' = got + 1 /\ at' = next
       \/ link = "down" /\ at' = "exception" /\ UNCHANGED got
    /\ UNCHANGED <<vars, nCount, written, taken>>

first_header == write_segment("first_header", "first_body") /\ UNCHANGED nCount
first_body   == write_segment("first_body", "read_header") /\ UNCHANGED nCount

\* Mutant: the reply is sent back before its body was read.
read_header_only == read_segment("read_header", "write_header")

read_header  == read_segment("read_header", "read_body")
read_body    == read_segment("read_body", "write_header")
write_header == write_segment("write_header", "write_body") /\ UNCHANGED nCount

\* The body goes back, and then the test nCount++ < nTotalCnt.
write_body ==
    /\ write_segment("write_body", IF nCount < nTotalCnt THEN "read_header" ELSE "exit")
    /\ nCount' = IF at' = "exception" THEN nCount ELSE nCount + 1

Client ==
    \/ \E next \in Places : connect(next)
    \/ first_header \/ first_body
    \/ read_header \/ read_body
    \/ write_header \/ write_body

\* The loop goes on with a length and a body that are no echo.
misled ==
    /\ doubled /\ at \in Loop \cup {"misled"}
    /\ at' \in {"misled"} \cup Closed
    /\ UNCHANGED <<vars, nCount, written, taken, got>>

-----------------------------------------------------------------------------
(* The session and the network between the two *)

\* The session reads what the client wrote, in that order.
segment_arrives ==
    /\ taken < written
    /\ read_arrives
    /\ taken' = taken + 1
    /\ UNCHANGED <<at, nCount, written, got>>

\* What a misled client may have sent: anything.
misled_arrives ==
    /\ doubled /\ at \in {"misled"} \cup Closed
    /\ read_arrives
    /\ UNCHANGED clientVars

InOrder == \A i \in 1..Len(accepted) : accepted[i] = i

Session ==
    /\ \/ \E t \in Threads, c \in Msgs : do_write(t, c)
       \/ \E t \in IoThreads : IoStep(t)
       \/ read_fails
       \/ \E c \in Msgs : write_header_completes(c) \/ write_body_completes(c)
    /\ at \notin {"connect", "not_connected"}
    /\ InOrder'
    /\ UNCHANGED clientVars

\* The client's socket is closed when RunConnection returns: the session reads
\* what is left and then the end, unless a reset comes first, which the close
\* sends when a reply was not read and any later write of the session provokes.
\* (How much a misled client has written is not known.)
client_closed ==
    /\ at \in Closed
    /\ \/ (taken = written \/ doubled) /\ peer_eof
       \/ peer_reset
    /\ UNCHANGED clientVars

link_breaks ==
    /\ MayBreak /\ at \notin Ends \cup {"connect"}
    /\ peer_reset \/ mgr_stop
    /\ UNCHANGED clientVars

EchoNext ==
    \/ Client \/ misled
    \/ segment_arrives \/ misled_arrives
    \/ Session
    \/ client_closed \/ link_breaks

EchoSpec == EchoInit /\ [][EchoNext]_allVars

(***************************************************************************)
(* Fairness: the client's thread and an io thread of the server run, and   *)
(* the network delivers what was sent, a close included.  Nothing makes    *)
(* the link break, and nothing makes a misled client send or end.          *)
(***************************************************************************)
EchoFairness ==
    /\ WF_allVars(Client)
    /\ WF_allVars(segment_arrives)
    /\ WF_allVars(Session)
    /\ WF_allVars(client_closed)

EchoFairSpec == EchoSpec /\ EchoFairness

-----------------------------------------------------------------------------
(***************************************************************************)
(* Until the session is doubled: each reply is the echo of the client's    *)
(* latest request, its header first, nothing else comes between, and a     *)
(* client that has exited by itself has left exactly the echo of its last  *)
(* message unread: 102 messages are written and 101 read, as the loop      *)
(* counts from 0 to 100 and the first message goes out before it.          *)
(***************************************************************************)
EchoMatches ==
    ~doubled =>
        /\ \A i \in 1..got :
              wire[i] = [part |-> IF i % 2 = 1 THEN "header" ELSE "body", msg |-> (i + 1) \div 2]
        /\ at = "write_header" => got = written
        /\ at = "exit" => got = 2 * (nTotalCnt + 1) /\ written = got + 2

(***************************************************************************)
(* The thread returns in the end, so that join_all does: neither side      *)
(* waits for a segment that the other will not send, and a broken link     *)
(* ends the client by an exception.  The one way out is a session that is  *)
(* doubled, whose client may wait in a read for ever.                      *)
(***************************************************************************)
ClientEnds == <>(at \in Ends \/ doubled)

(***************************************************************************)
(* Once the client is gone its session leaves connection_list_, although   *)
(* the session is then in the middle of echoing the last message, and also *)
(* when the session was doubled.                                           *)
(***************************************************************************)
SessionFollows == at \in Closed /\ joined ~> ~joined

=============================================================================
