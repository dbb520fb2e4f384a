----------------------------- MODULE ServerTcp -----------------------------
(***************************************************************************)
(* The server around the sessions: class server_tcp (asio_test/server.h,   *)
(* Server.cpp), the connection list of connection_mgr (connection.{h,cpp}) *)
(* and the program that starts, stops and restarts it (asio_test.cpp).     *)
(*                                                                         *)
(* The io threads execute handler_accept and the sessions' error handlers; *)
(* the main thread executes start() and stop().  handler_accept is several *)
(* actions: can_join and join lock connection_mgr::mutex_ separately, and  *)
(* curr_client_id_++ is an unprotected read and write.  What a session     *)
(* does while it is connected is SessionTcp's matter; here it is "open"    *)
(* until its socket fails.  An exception that leaves a handler leaves       *)
(* io_service::run and its thread, and ends the program.                   *)
(***************************************************************************)
EXTENDS Naturals, FiniteSets

CONSTANTS
    IoThreads,   \* the io_thread_num_ threads
    Sessions,    \* session_tcp objects (an object is reused once destroyed)
    NoSession,
    MaxConn,     \* max_conn_
    MaxStarts,   \* bound: how often start() is called (the program: twice)
    MaxId        \* bound: no client connects once this many ids are used

ASSUME ServerAssumption ==
    /\ NoSession \notin Sessions
    /\ MaxConn \in Nat
    /\ MaxStarts \in Nat
    /\ MaxId \in Nat

VARIABLES
    main,             \* the main thread: "down", "up", its place in stop(), or
                      \* "terminated" by std::terminate
    starts,           \* calls of start() so far
    acceptor,         \* the acceptor is open
    stopped,          \* io_service::stopped
    sess,             \* sess[s]: the life of a session object
    connection_list_,
    client_id_,       \* client_id_[s]
    curr_client_id_,
    at,               \* at[t]: where io thread t is; "out" of io_service::run
    cur,              \* cur[t]: the session whose handler_accept t executes
    id,               \* id[t]: the value of curr_client_id_ t has read, 0 once used
    refused           \* history: some join failed, so assert(false) was reached

vars == <<main, starts, acceptor, stopped, sess, connection_list_, client_id_,
          curr_client_id_, at, cur, id, refused>>
sessionVars == <<connection_list_, client_id_, curr_client_id_>>
mainVars    == <<main, starts, acceptor, stopped>>

(***************************************************************************)
(* A session object: not created; async_accept outstanding; its handler    *)
(* queued with a client or with an error; inside handler_accept; started;  *)
(* an operation failed and its handler is queued; left the list while      *)
(* another operation is outstanding on the open socket.                    *)
(***************************************************************************)
Lives == {"free", "accepting", "accepted", "aborted", "handled", "open", "failed", "left"}
Places == {"out", "idle", "checked", "id_read", "named", "again"}

TypeOK ==
    /\ main \in {"down", "up", "acceptor_closed", "list_cleared", "joining", "terminated"}
    /\ starts \in 0..MaxStarts
    /\ acceptor \in BOOLEAN
    /\ stopped \in BOOLEAN
    /\ sess \in [Sessions -> Lives]
    /\ connection_list_ \subseteq Sessions
    /\ client_id_ \in [Sessions -> Nat]
    /\ curr_client_id_ \in Nat
    /\ at \in [IoThreads -> Places]
    /\ cur \in [IoThreads -> Sessions \cup {NoSession}]
    /\ id \in [IoThreads -> Nat]
    /\ refused \in BOOLEAN

Init ==
    /\ main = "down"
    /\ starts = 0
    /\ acceptor = FALSE
    /\ stopped = FALSE
    /\ sess = [s \in Sessions |-> "free"]
    /\ connection_list_ = {}
    /\ client_id_ = [s \in Sessions |-> 0]
    /\ curr_client_id_ = 1
    /\ at = [t \in IoThreads |-> "out"]
    /\ cur = [t \in IoThreads |-> NoSession]
    /\ id = [t \in IoThreads |-> 0]
    /\ refused = FALSE

-----------------------------------------------------------------------------
(* connection_mgr *)

can_join == ~(Cardinality(connection_list_) > MaxConn)

\* Mutant of join: no test of its own, since can_join was asked before.
join_unchecked(s) ==
    /\ connection_list_' = connection_list_ \cup {s}
    /\ UNCHANGED refused

\* join under the exclusive lock; a failure is session_tcp::start's
\* assert(false), after which a release build returns.
join(s) ==
    \/ /\ can_join
       /\ connection_list_' = connection_list_ \cup {s}
       /\ UNCHANGED refused
    \/ /\ ~can_join
       /\ refused' = TRUE
       /\ UNCHANGED connection_list_

\* Mutant of leave: the session stays in the list.
leave_nothing(s) == UNCHANGED connection_list_

leave(s) == connection_list_' = connection_list_ \ {s}

-----------------------------------------------------------------------------
(* server_tcp: accepting clients *)

\* handler_accept begins: with a client, ask can_join; with an error, leave.
handler_accept(t, s) ==
    /\ at[t] = "idle" /\ ~stopped
    /\ \/ /\ sess[s] = "accepted"
          /\ at' = [at EXCEPT ![t] = IF can_join THEN "checked" ELSE "again"]
          /\ UNCHANGED connection_list_
       \/ /\ sess[s] = "aborted"
          /\ at' = [at EXCEPT ![t] = "again"]
          /\ leave(s)
    /\ sess' = [sess EXCEPT ![s] = "handled"]
    /\ cur' = [cur EXCEPT ![t] = s]
    /\ UNCHANGED <<mainVars, client_id_, curr_client_id_, id, refused>>

\* new_session->start(curr_client_id_++): read the counter, ...
read_client_id(t) ==
    /\ at[t] = "checked"
    /\ id' = [id EXCEPT ![t] = curr_client_id_]
    /\ at' = [at EXCEPT ![t] = "id_read"]
    /\ UNCHANGED <<mainVars, sess, sessionVars, cur, refused>>

\* ... write it back, and name the session.
set_client_id(t) ==
    /\ at[t] = "id_read"
    /\ curr_client_id_' = id[t] + 1
    /\ client_id_' = [client_id_ EXCEPT ![cur[t]] = id[t]]
    /\ id' = [id EXCEPT ![t] = 0]
    /\ at' = [at EXCEPT ![t] = "named"]
    /\ UNCHANGED <<mainVars, sess, connection_list_, cur, refused>>

\* session_tcp::start asks the socket for its two endpoints to log them; for a
\* client that has reset the connection since, remote_endpoint throws.  Nobody
\* catches it: the program is gone with its sockets, before the next accept.
start_session_throws(t) ==
    /\ at[t] = "named"
    /\ main' = "terminated" /\ acceptor' = FALSE
    /\ sess' = [s \in Sessions |-> "free"]
    /\ connection_list_' = {}
    /\ client_id_' = [s \in Sessions |-> 0]
    /\ at' = [u \in IoThreads |-> "out"]
    /\ cur' = [u \in IoThreads |-> NoSession]
    /\ id' = [u \in IoThreads |-> 0]
    /\ UNCHANGED <<starts, stopped, curr_client_id_, refused>>

\* Otherwise session_tcp::start goes on: join and, when that succeeded, read.
start_session(t, s) ==
    /\ at[t] = "named" /\ cur[t] = s
    /\ join(s)
    /\ sess' = [sess EXCEPT ![s] = IF s \in connection_list_' THEN "open" ELSE @]
    /\ cur' = [cur EXCEPT ![t] = IF s \in connection_list_' THEN NoSession ELSE @]
    /\ at' = [at EXCEPT ![t] = "again"]
    /\ UNCHANGED <<mainVars, client_id_, curr_client_id_, id>>

\* Mutant of accept_again: an error, or a closed acceptor, ends the accepting.
accept_again_if_open(t, s) ==
    /\ at[t] = "again" /\ (sess[s] = "free" \/ s = cur[t])
    /\ sess' = [x \in Sessions |->
                   IF x = s /\ acceptor THEN "accepting"
                   ELSE IF x = cur[t] THEN "free" ELSE sess[x]]
    /\ at' = [at EXCEPT ![t] = IF stopped THEN "out" ELSE "idle"]
    /\ cur' = [cur EXCEPT ![t] = NoSession]
    /\ client_id_' = [client_id_ EXCEPT ![s] = 0]
    /\ UNCHANGED <<mainVars, connection_list_, curr_client_id_, id, refused>>

\* handler_accept ends with start_accept on a new session s, whatever happened
\* (async_accept on a closed acceptor queues an error); a session that was not
\* started dies with the handler, a new one has id 0.  A stopped io_service lets the thread go.
accept_again(t, s) ==
    /\ at[t] = "again" /\ (sess[s] = "free" \/ s = cur[t])
    /\ sess' = [x \in Sessions |->
                   IF x = s THEN (IF acceptor THEN "accepting" ELSE "aborted")
                   ELSE IF x = cur[t] THEN "free" ELSE sess[x]]
    /\ at' = [at EXCEPT ![t] = IF stopped THEN "out" ELSE "idle"]
    /\ cur' = [cur EXCEPT ![t] = NoSession]
    /\ client_id_' = [client_id_ EXCEPT ![s] = 0]
    /\ UNCHANGED <<mainVars, connection_list_, curr_client_id_, id, refused>>

\* A started session's handler sees an error and leaves the list; its object
\* goes unless another of its operations is still outstanding.
session_error(t, s) ==
    /\ at[t] = "idle" /\ ~stopped
    /\ \/ sess[s] = "failed" /\ sess' = [sess EXCEPT ![s] = "free"]
       \/ sess[s] = "failed" /\ sess' = [sess EXCEPT ![s] = "left"]
       \/ sess[s] = "left"   /\ sess' = [sess EXCEPT ![s] = "free"]
    /\ leave(s)
    /\ client_id_' = [client_id_ EXCEPT ![s] = IF sess'[s] = "free" THEN 0 ELSE @]
    /\ UNCHANGED <<mainVars, curr_client_id_, at, cur, id, refused>>

\* io_service::run returns in a thread that finds the io_service stopped.
run_returns(t) ==
    /\ at[t] = "idle" /\ stopped
    /\ at' = [at EXCEPT ![t] = "out"]
    /\ UNCHANGED <<mainVars, sess, sessionVars, cur, id, refused>>

-----------------------------------------------------------------------------
(* server_tcp: start and stop, by the main thread *)

start(s) ==
    /\ main = "down" /\ starts < MaxStarts /\ sess[s] = "free"
    /\ main' = "up"
    /\ starts' = starts + 1
    /\ stopped' = FALSE
    /\ acceptor' = TRUE
    /\ curr_client_id_' = 1
    /\ sess' = [sess EXCEPT ![s] = "accepting"]
    /\ client_id_' = [client_id_ EXCEPT ![s] = 0]
    /\ at' = [t \in IoThreads |-> "idle"]
    /\ UNCHANGED <<connection_list_, cur, id, refused>>

\* stop: cancel and close the acceptor; outstanding accepts are aborted.
stop_accepting ==
    /\ main = "up" /\ main' = "acceptor_closed"
    /\ acceptor' = FALSE
    /\ sess' = [s \in Sessions |-> IF sess[s] = "accepting" THEN "aborted" ELSE sess[s]]
    /\ UNCHANGED <<starts, stopped, sessionVars, at, cur, id, refused>>

\* connection_mgr::stop: shut down and close the listed sessions, clear the list.
stop_clients ==
    /\ main = "acceptor_closed" /\ main' = "list_cleared"
    /\ sess' = [s \in Sessions |-> IF s \in connection_list_ THEN "failed" ELSE sess[s]]
    /\ connection_list_' = {}
    /\ UNCHANGED <<starts, acceptor, stopped, client_id_, curr_client_id_, at, cur, id, refused>>

\* Mutant of stop_io: ios_.stop() forgotten.
stop_io_forgotten ==
    /\ main = "list_cleared" /\ main' = "joining"
    /\ UNCHANGED <<starts, acceptor, stopped, sess, sessionVars, at, cur, id, refused>>

stop_io ==
    /\ main = "list_cleared" /\ main' = "joining"
    /\ stopped' = TRUE
    /\ UNCHANGED <<starts, acceptor, sess, sessionVars, at, cur, id, refused>>

\* All threads are joined; stop clears the buffers (MsgPool) and returns.
stop_returns ==
    /\ main = "joining" /\ \A t \in IoThreads : at[t] = "out"
    /\ main' = "down"
    /\ UNCHANGED <<starts, acceptor, stopped, sess, sessionVars, at, cur, id, refused>>

-----------------------------------------------------------------------------
(* Clients *)

\* A client connects.  Bounds of the model: MaxId, and as many unused session
\* objects as the accepts under way will need.
connect(s) ==
    /\ sess[s] = "accepting"
    /\ curr_client_id_ <= MaxId
    /\ Cardinality({x \in Sessions : sess[x] = "free"})
          > Cardinality({x \in Sessions : sess[x] \in {"accepted", "handled"}})
            + Cardinality({t \in IoThreads : at[t] = "again" /\ cur[t] = NoSession})
    /\ sess' = [sess EXCEPT ![s] = "accepted"]
    /\ UNCHANGED <<mainVars, sessionVars, at, cur, id, refused>>

disconnect(s) ==
    /\ sess[s] = "open"
    /\ sess' = [sess EXCEPT ![s] = "failed"]
    /\ UNCHANGED <<mainVars, sessionVars, at, cur, id, refused>>

-----------------------------------------------------------------------------
AcceptStep(t) ==
    \/ read_client_id(t)
    \/ set_client_id(t)
    \/ start_session_throws(t)
    \/ \E s \in Sessions : start_session(t, s)
    \/ \E s \in Sessions : accept_again(t, s)

IoStep(t) ==
    \/ AcceptStep(t)
    \/ run_returns(t)
    \/ \E s \in Sessions : handler_accept(t, s)
    \/ \E s \in Sessions : session_error(t, s)

StopStep == stop_accepting \/ stop_clients \/ stop_io \/ stop_returns

Next ==
    \/ \E t \in IoThreads : IoStep(t)
    \/ \E s \in Sessions : start(s) \/ connect(s) \/ disconnect(s)
    \/ StopStep

Spec == Init /\ [][Next]_vars

\* A thread inside a handler, or with run() about to return, gets on; so does
\* the main thread once it is inside stop().
FairSpec ==
    /\ Spec
    /\ \A t \in IoThreads : WF_vars(AcceptStep(t)) /\ WF_vars(run_returns(t))
    /\ WF_vars(stop_clients) /\ WF_vars(stop_io) /\ WF_vars(stop_returns)

-----------------------------------------------------------------------------
InHandler(t) == at[t] \in {"checked", "id_read", "named", "again"}

(***************************************************************************)
(* As long as the program runs, a started server accepts: an async_accept  *)
(* is outstanding, or its handler queued or under way.  This is what lets  *)
(* one start_accept at the end of handler_accept carry the server through  *)
(* refused clients, errors and stop().  There is one way out of            *)
(* handler_accept before its start_accept, the exception, and it leaves no *)
(* deaf server behind but none.                                            *)
(***************************************************************************)
AcceptingGoesOn ==
    starts > 0 /\ main # "terminated" =>
        \/ \E s \in Sessions : sess[s] \in {"accepting", "accepted", "aborted"}
        \/ \E t \in IoThreads : InHandler(t)

(***************************************************************************)
(* can_join and join let in one client more than max_conn_, and never two: *)
(* join asks again under the exclusive lock, so that two accept handlers   *)
(* that both passed can_join do not both get in.                           *)
(***************************************************************************)
ListIsBounded == Cardinality(connection_list_) <= MaxConn + 1

(***************************************************************************)
(* The list holds only sessions that are started and still have a handler  *)
(* to come, and every session that reads is in the list, where stop() and  *)
(* find() can reach it.                                                    *)
(***************************************************************************)
ListIsAccurate ==
    /\ \A s \in connection_list_ : sess[s] \in {"open", "failed"}
    /\ \A s \in Sessions : sess[s] = "open" => s \in connection_list_

\* Each accept handler under way works on a session of its own, which nobody
\* else touches; no handler runs while the server is down.
HandlersApart ==
    /\ \A t \in IoThreads : cur[t] # NoSession => sess[cur[t]] = "handled" /\ InHandler(t)
    /\ \A t \in IoThreads : at[t] \in {"checked", "id_read", "named"} => cur[t] # NoSession
    /\ \A t, u \in IoThreads : cur[t] = cur[u] /\ cur[t] # NoSession => t = u
    /\ main = "down" => \A t \in IoThreads : at[t] = "out"

(***************************************************************************)
(* The inductive invariant: the properties above hold together because an  *)
(* accept handler owns its session until start() puts it in the list.      *)
(***************************************************************************)
ServerInv ==
    /\ HandlersApart
    /\ AcceptingGoesOn
    /\ ListIsAccurate
    /\ IsFiniteSet(connection_list_) /\ ListIsBounded

(***************************************************************************)
(* "failed to join: assert(false)" (session_tcp::start): the branch is     *)
(* never reached.  See ServerAssert.cfg.                                   *)
(***************************************************************************)
AssertNeverFires == ~refused

(***************************************************************************)
(* "maximum connections" (max_conn_).                                      *)
(***************************************************************************)
MaxConnRespected == Cardinality(connection_list_) <= MaxConn

(***************************************************************************)
(* "to disconnect all the clients" (connection_mgr::stop): when stop()     *)
(* has returned, no session is left reading from its client.               *)
(***************************************************************************)
StopDisconnectsAll ==
    main = "down" => \A s \in Sessions : sess[s] # "open"

(***************************************************************************)
(* stop() returns: the accept handlers, which after the acceptor is closed *)
(* fail and are queued again without end, do not keep the io threads from  *)
(* being joined.  Unless an accept handler under way throws: stop() then    *)
(* ends with the program.                                                  *)
(***************************************************************************)
StopReturns == main = "acceptor_closed" ~> main \in {"down", "terminated"}
=============================================================================
