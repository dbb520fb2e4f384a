-------------------------- MODULE ServerTcp_proofs --------------------------
(***************************************************************************)
(* What holds of the server for any number of io threads, of clients and   *)
(* of restarts.                                                            *)
(***************************************************************************)
EXTENDS ServerTcp, FiniteSetTheorems, TLAPS

\* Each step keeps the types of the server's variables.
LEMMA TypeStep == TypeOK /\ [Next]_vars => TypeOK'
<1> SUFFICES ASSUME TypeOK, [Next]_vars PROVE TypeOK'
  OBVIOUS
<1> USE ServerAssumption DEF TypeOK, mainVars, sessionVars, Lives, Places
<1>1. ASSUME NEW t \in IoThreads, NEW s \in Sessions, handler_accept(t, s) PROVE TypeOK'
  BY <1>1 DEF handler_accept, leave
<1>2. ASSUME NEW t \in IoThreads, read_client_id(t) PROVE TypeOK'
  BY <1>2 DEF read_client_id
<1>3. ASSUME NEW t \in IoThreads, set_client_id(t) PROVE TypeOK'
  <2>1. id[t] \in Nat /\ client_id_' \in [Sessions -> Nat]
    BY <1>3 DEF set_client_id
  <2> QED
    BY <1>3, <2>1 DEF set_client_id
<1>4. ASSUME NEW t \in IoThreads, NEW s \in Sessions, start_session(t, s) PROVE TypeOK'
  BY <1>4 DEF start_session, join
<1>5. ASSUME NEW t \in IoThreads, NEW s \in Sessions, accept_again(t, s) PROVE TypeOK'
  BY <1>5 DEF accept_again
<1>6. ASSUME NEW t \in IoThreads, NEW s \in Sessions, session_error(t, s) PROVE TypeOK'
  BY <1>6 DEF session_error, leave
<1>7. ASSUME NEW t \in IoThreads, run_returns(t) PROVE TypeOK'
  BY <1>7 DEF run_returns
<1>8. ASSUME NEW s \in Sessions, start(s) PROVE TypeOK'
  <2>1. starts' \in 0..MaxStarts
    BY <1>8 DEF start
  <2>2. sess' \in [Sessions -> Lives] /\ at' \in [IoThreads -> Places]
    BY <1>8 DEF start
  <2> QED
    BY <1>8, <2>1, <2>2 DEF start
<1>9. ASSUME NEW s \in Sessions, connect(s) \/ disconnect(s) PROVE TypeOK'
  BY <1>9 DEF connect, disconnect
<1>10. CASE StopStep
  BY <1>10 DEF StopStep, stop_accepting, stop_clients, stop_io, stop_returns
<1>11. CASE UNCHANGED vars
  BY <1>11 DEF vars
<1>14. ASSUME NEW t \in IoThreads, start_session_throws(t) PROVE TypeOK'
  BY <1>14 DEF start_session_throws
<1> HIDE DEF TypeOK
<1>12. ASSUME NEW t \in IoThreads, IoStep(t) PROVE TypeOK'
  BY <1>1, <1>2, <1>3, <1>4, <1>5, <1>6, <1>7, <1>12, <1>14 DEF IoStep, AcceptStep
<1>13. ASSUME NEW s \in Sessions, start(s) \/ connect(s) \/ disconnect(s) PROVE TypeOK'
  BY <1>8, <1>9, <1>13
<1> QED
  BY <1>10, <1>11, <1>12, <1>13 DEF Next

\* The server's variables keep their types.
THEOREM ServerTypeCorrect == Spec => []TypeOK
<1>1. Init => TypeOK
  <2> SUFFICES ASSUME Init PROVE TypeOK
    OBVIOUS
  <2>1. starts \in 0..MaxStarts /\ curr_client_id_ \in Nat
    BY ServerAssumption DEF Init
  <2>2. client_id_ \in [Sessions -> Nat] /\ id \in [IoThreads -> Nat]
    BY DEF Init
  <2> QED
    BY <2>1, <2>2 DEF Init, TypeOK, Lives, Places
<1> QED
  BY <1>1, TypeStep, PTL DEF Spec

-----------------------------------------------------------------------------
\* Accept handlers keep their sessions to themselves.
LEMMA ApartStep ==
    TypeOK /\ HandlersApart /\ ListIsAccurate /\ [Next]_vars => HandlersApart'
<1> SUFFICES ASSUME TypeOK, HandlersApart, ListIsAccurate, [Next]_vars PROVE HandlersApart'
  OBVIOUS
<1> USE ServerAssumption DEF TypeOK, mainVars, sessionVars, Lives, Places, HandlersApart, ListIsAccurate, InHandler
<1>1. ASSUME NEW t \in IoThreads, NEW s \in Sessions, handler_accept(t, s) PROVE HandlersApart'
  BY <1>1 DEF handler_accept, leave
<1>2. ASSUME NEW t \in IoThreads, read_client_id(t) PROVE HandlersApart'
  BY <1>2 DEF read_client_id
<1>3. ASSUME NEW t \in IoThreads, set_client_id(t) PROVE HandlersApart'
  BY <1>3 DEF set_client_id
<1>4. ASSUME NEW t \in IoThreads, NEW s \in Sessions, start_session(t, s) PROVE HandlersApart'
  BY <1>4 DEF start_session, join
<1>5. ASSUME NEW t \in IoThreads, NEW s \in Sessions, accept_again(t, s) PROVE HandlersApart'
  BY <1>5 DEF accept_again
<1>6. ASSUME NEW t \in IoThreads, NEW s \in Sessions, session_error(t, s) PROVE HandlersApart'
  BY <1>6 DEF session_error, leave
<1>7. ASSUME NEW t \in IoThreads, run_returns(t) PROVE HandlersApart'
  BY <1>7 DEF run_returns
<1>8. ASSUME NEW s \in Sessions, start(s) PROVE HandlersApart'
  BY <1>8 DEF start
<1>9. ASSUME NEW s \in Sessions, connect(s) \/ disconnect(s) PROVE HandlersApart'
  BY <1>9 DEF connect, disconnect
<1>10. CASE StopStep
  BY <1>10 DEF StopStep, stop_accepting, stop_clients, stop_io, stop_returns
<1>11. CASE UNCHANGED vars
  BY <1>11 DEF vars
<1>14. ASSUME NEW t \in IoThreads, start_session_throws(t) PROVE HandlersApart'
  BY <1>14 DEF start_session_throws
<1>12. ASSUME NEW t \in IoThreads, IoStep(t) PROVE HandlersApart'
  BY <1>1, <1>2, <1>3, <1>4, <1>5, <1>6, <1>7, <1>12, <1>14 DEF IoStep, AcceptStep
<1>13. ASSUME NEW s \in Sessions, start(s) \/ connect(s) \/ disconnect(s) PROVE HandlersApart'
  BY <1>8, <1>9, <1>13
<1> QED
  BY <1>10, <1>11, <1>12, <1>13 DEF Next

\* Every handler_accept ends in another start_accept.
LEMMA AcceptingStep ==
    TypeOK /\ ListIsAccurate /\ AcceptingGoesOn /\ [Next]_vars => AcceptingGoesOn'
<1> SUFFICES ASSUME TypeOK, ListIsAccurate, AcceptingGoesOn, [Next]_vars
             PROVE  AcceptingGoesOn'
  OBVIOUS
<1> USE ServerAssumption DEF TypeOK, mainVars, sessionVars, Lives, Places, AcceptingGoesOn, ListIsAccurate, InHandler
<1>1. ASSUME NEW t \in IoThreads, NEW s \in Sessions, handler_accept(t, s) PROVE AcceptingGoesOn'
  BY <1>1 DEF handler_accept, leave
<1>2. ASSUME NEW t \in IoThreads, read_client_id(t) PROVE AcceptingGoesOn'
  BY <1>2 DEF read_client_id
<1>3. ASSUME NEW t \in IoThreads, set_client_id(t) PROVE AcceptingGoesOn'
  BY <1>3 DEF set_client_id
<1>4. ASSUME NEW t \in IoThreads, NEW s \in Sessions, start_session(t, s) PROVE AcceptingGoesOn'
  BY <1>4 DEF start_session, join
<1>5. ASSUME NEW t \in IoThreads, NEW s \in Sessions, accept_again(t, s) PROVE AcceptingGoesOn'
  BY <1>5 DEF accept_again
<1>6. ASSUME NEW t \in IoThreads, NEW s \in Sessions, session_error(t, s) PROVE AcceptingGoesOn'
  BY <1>6 DEF session_error, leave
<1>7. ASSUME NEW t \in IoThreads, run_returns(t) PROVE AcceptingGoesOn'
  BY <1>7 DEF run_returns
<1>8. ASSUME NEW s \in Sessions, start(s) PROVE AcceptingGoesOn'
  BY <1>8 DEF start
<1>9. ASSUME NEW s \in Sessions, connect(s) \/ disconnect(s) PROVE AcceptingGoesOn'
  BY <1>9 DEF connect, disconnect
<1>10. CASE StopStep
  BY <1>10 DEF StopStep, stop_accepting, stop_clients, stop_io, stop_returns
<1>11. CASE UNCHANGED vars
  BY <1>11 DEF vars
<1>14. ASSUME NEW t \in IoThreads, start_session_throws(t) PROVE AcceptingGoesOn'
  BY <1>14 DEF start_session_throws
<1>12. ASSUME NEW t \in IoThreads, IoStep(t) PROVE AcceptingGoesOn'
  BY <1>1, <1>2, <1>3, <1>4, <1>5, <1>6, <1>7, <1>12, <1>14 DEF IoStep, AcceptStep
<1>13. ASSUME NEW s \in Sessions, start(s) \/ connect(s) \/ disconnect(s) PROVE AcceptingGoesOn'
  BY <1>8, <1>9, <1>13
<1> QED
  BY <1>10, <1>11, <1>12, <1>13 DEF Next

\* A session enters the list when it starts to read and is only destroyed
\* after it has left.
LEMMA AccurateStep ==
    TypeOK /\ HandlersApart /\ ListIsAccurate /\ [Next]_vars => ListIsAccurate'
<1> SUFFICES ASSUME TypeOK, HandlersApart, ListIsAccurate, [Next]_vars PROVE ListIsAccurate'
  OBVIOUS
<1> USE ServerAssumption DEF TypeOK, mainVars, sessionVars, Lives, Places, HandlersApart, ListIsAccurate, InHandler
<1>1. ASSUME NEW t \in IoThreads, NEW s \in Sessions, handler_accept(t, s) PROVE ListIsAccurate'
  BY <1>1 DEF handler_accept, leave
<1>2. ASSUME NEW t \in IoThreads, read_client_id(t) PROVE ListIsAccurate'
  BY <1>2 DEF read_client_id
<1>3. ASSUME NEW t \in IoThreads, set_client_id(t) PROVE ListIsAccurate'
  BY <1>3 DEF set_client_id
<1>4. ASSUME NEW t \in IoThreads, NEW s \in Sessions, start_session(t, s) PROVE ListIsAccurate'
  BY <1>4 DEF start_session, join
<1>5. ASSUME NEW t \in IoThreads, NEW s \in Sessions, accept_again(t, s) PROVE ListIsAccurate'
  BY <1>5 DEF accept_again
<1>6. ASSUME NEW t \in IoThreads, NEW s \in Sessions, session_error(t, s) PROVE ListIsAccurate'
  BY <1>6 DEF session_error, leave
<1>7. ASSUME NEW t \in IoThreads, run_returns(t) PROVE ListIsAccurate'
  BY <1>7 DEF run_returns
<1>8. ASSUME NEW s \in Sessions, start(s) PROVE ListIsAccurate'
  BY <1>8 DEF start
<1>9. ASSUME NEW s \in Sessions, connect(s) \/ disconnect(s) PROVE ListIsAccurate'
  BY <1>9 DEF connect, disconnect
<1>10. CASE StopStep
  BY <1>10 DEF StopStep, stop_accepting, stop_clients, stop_io, stop_returns
<1>11. CASE UNCHANGED vars
  BY <1>11 DEF vars
<1>14. ASSUME NEW t \in IoThreads, start_session_throws(t) PROVE ListIsAccurate'
  BY <1>14 DEF start_session_throws
<1>12. ASSUME NEW t \in IoThreads, IoStep(t) PROVE ListIsAccurate'
  BY <1>1, <1>2, <1>3, <1>4, <1>5, <1>6, <1>7, <1>12, <1>14 DEF IoStep, AcceptStep
<1>13. ASSUME NEW s \in Sessions, start(s) \/ connect(s) \/ disconnect(s) PROVE ListIsAccurate'
  BY <1>8, <1>9, <1>13
<1> QED
  BY <1>10, <1>11, <1>12, <1>13 DEF Next

-----------------------------------------------------------------------------
\* The list changes in one of four ways.
LEMMA ListChanges ==
    ASSUME [Next]_vars
    PROVE  \/ connection_list_' = connection_list_
           \/ connection_list_' = {}
           \/ \E s \in Sessions : connection_list_' = connection_list_ \ {s}
           \/ can_join /\ \E s \in Sessions : connection_list_' = connection_list_ \cup {s}
<1> DEFINE Goal == \/ connection_list_' = connection_list_
                   \/ connection_list_' = {}
                   \/ \E s \in Sessions : connection_list_' = connection_list_ \ {s}
                   \/ can_join /\ \E s \in Sessions : connection_list_' = connection_list_ \cup {s}
<1> USE DEF sessionVars
<1>1. ASSUME NEW t \in IoThreads, NEW s \in Sessions,
             handler_accept(t, s) \/ session_error(t, s)
      PROVE  Goal
  BY <1>1 DEF handler_accept, session_error, leave
<1>2. ASSUME NEW t \in IoThreads, NEW s \in Sessions, start_session(t, s) PROVE Goal
  BY <1>2 DEF start_session, join
<1>3. ASSUME NEW t \in IoThreads, NEW s \in Sessions,
             read_client_id(t) \/ set_client_id(t) \/ accept_again(t, s) \/ run_returns(t)
      PROVE  Goal
  BY <1>3 DEF read_client_id, set_client_id, accept_again, run_returns
<1>4. ASSUME NEW s \in Sessions, start(s) \/ connect(s) \/ disconnect(s) PROVE Goal
  BY <1>4 DEF start, connect, disconnect
<1>5. ASSUME StopStep PROVE Goal
  BY <1>5 DEF StopStep, stop_accepting, stop_clients, stop_io, stop_returns
<1>6. ASSUME UNCHANGED vars PROVE Goal
  BY <1>6 DEF vars
<1>7. ASSUME NEW t \in IoThreads,
             \/ read_client_id(t) \/ set_client_id(t) \/ run_returns(t)
             \/ start_session_throws(t)
      PROVE  Goal
  BY <1>7 DEF read_client_id, set_client_id, run_returns, start_session_throws
<1> HIDE DEF Goal
<1>8. ASSUME NEW t \in IoThreads, IoStep(t) PROVE Goal
  BY <1>1, <1>2, <1>3, <1>7, <1>8 DEF IoStep, AcceptStep
<1>9. Goal
  BY <1>4, <1>5, <1>6, <1>8 DEF Next
<1> QED
  BY <1>9 DEF Goal

\* join tests the size under the same lock as it inserts.
LEMMA BoundStep ==
    IsFiniteSet(connection_list_) /\ ListIsBounded /\ [Next]_vars
        => IsFiniteSet(connection_list_') /\ ListIsBounded'
<1> SUFFICES ASSUME IsFiniteSet(connection_list_), ListIsBounded, [Next]_vars
             PROVE  IsFiniteSet(connection_list_') /\ ListIsBounded'
  OBVIOUS
<1>0. Cardinality(connection_list_) \in Nat /\ MaxConn \in Nat
  BY FS_CardinalityType, ServerAssumption
<1>1. CASE connection_list_' = connection_list_
  BY <1>1 DEF ListIsBounded
<1>2. CASE connection_list_' = {}
  BY <1>0, <1>2, FS_EmptySet DEF ListIsBounded
<1>3. ASSUME NEW s \in Sessions, connection_list_' = connection_list_ \ {s}
      PROVE  IsFiniteSet(connection_list_') /\ ListIsBounded'
  <2>1. /\ IsFiniteSet(connection_list_ \ {s})
        /\ Cardinality(connection_list_ \ {s}) \in
              {Cardinality(connection_list_), Cardinality(connection_list_) - 1}
    BY FS_RemoveElement
  <2> QED
    BY <1>0, <1>3, <2>1 DEF ListIsBounded
<1>4. ASSUME NEW s \in Sessions, can_join, connection_list_' = connection_list_ \cup {s}
      PROVE  IsFiniteSet(connection_list_') /\ ListIsBounded'
  <2>1. /\ IsFiniteSet(connection_list_ \cup {s})
        /\ Cardinality(connection_list_ \cup {s}) \in
              {Cardinality(connection_list_), Cardinality(connection_list_) + 1}
    BY FS_AddElement
  <2> QED
    BY <1>0, <1>4, <2>1 DEF ListIsBounded, can_join
<1> QED
  BY <1>1, <1>2, <1>3, <1>4, ListChanges

\* The inductive invariant of the server.
LEMMA ServerInvariant == Spec => []ServerInv
<1>1. Init => ServerInv
  <2> SUFFICES ASSUME Init PROVE ServerInv
    OBVIOUS
  <2>1. IsFiniteSet(connection_list_) /\ ListIsBounded
    BY FS_EmptySet, ServerAssumption DEF Init, ListIsBounded
  <2> QED
    BY <2>1 DEF Init, ServerInv, HandlersApart, AcceptingGoesOn, ListIsAccurate
<1>2. TypeOK /\ ServerInv /\ [Next]_vars => ServerInv'
  BY ApartStep, AcceptingStep, AccurateStep, BoundStep DEF ServerInv
<1> QED
  BY <1>1, <1>2, ServerTypeCorrect, PTL DEF Spec

\* Once started, the server has an accept outstanding, queued or under way for as
\* long as the program runs, through refusals, errors, stop() and restarts; the
\* exception that leaves handler_accept early ends the program.
THEOREM ServerKeepsAccepting == Spec => []AcceptingGoesOn
  BY ServerInvariant, PTL DEF ServerInv

\* However many accept handlers run at once, at most max_conn_ + 1 sessions are
\* in the list.
THEOREM ServerListIsBounded == Spec => []ListIsBounded
  BY ServerInvariant, PTL DEF ServerInv

\* The list holds started sessions only, and every session that reads.
THEOREM ServerListIsAccurate == Spec => []ListIsAccurate
  BY ServerInvariant, PTL DEF ServerInv
=============================================================================
