------------------------- MODULE SessionTcp_proofs -------------------------
(***************************************************************************)
(* What holds of a session for every set of io threads, of application     *)
(* threads and of messages, and of one that serves the blocking test       *)
(* client.                                                                 *)
(***************************************************************************)
EXTENDS AsioClient, Integers, TLAPS

\* The front of a queue of messages is a message, and popping it leaves a queue.
LEMMA FrontOfQueue ==
    ASSUME NEW S, NEW q \in Seq(S), q # <<>>
    PROVE  Head(q) \in S /\ Tail(q) \in Seq(S) /\ Head(q) = q[1] /\ Len(q) > 0
  OBVIOUS

\* Each step of a session keeps the types of its variables.
LEMMA TypeStep == TypeOK /\ [Next]_vars => TypeOK'
<1> SUFFICES ASSUME TypeOK, [Next]_vars PROVE TypeOK'
  OBVIOUS
<1> DEFINE Sequences == /\ msg_queue_ \in Seq(Msgs)
                        /\ accepted \in Seq(Msgs)
                        /\ wire \in Seq(Segments)
<1> USE SessionAssumption DEF TypeOK
<1>0. msg_queue_ # <<>> => Head(msg_queue_) \in Msgs /\ Tail(msg_queue_) \in Seq(Msgs)
  BY FrontOfQueue
<1>1. ASSUME NEW t \in Threads, NEW c \in Msgs, do_write(t, c) PROVE TypeOK'
  <2>1. Sequences'
    BY <1>1 DEF do_write
  <2>2. /\ runs' \in [Threads -> Msgs \cup {NoMsg}]
        /\ chain' \in [Msgs -> WritePhases]
        /\ op' \in [Msgs -> Msgs \cup {NoMsg}]
    BY <1>1, <1>0 DEF do_write, WritePhases
  <2> QED
    BY <1>1, <2>1, <2>2 DEF do_write, ReadPhases
<1>2. ASSUME NEW t \in IoThreads, start(t) PROVE TypeOK'
  BY <1>2 DEF start, do_read, WritePhases, ReadPhases
<1>3. ASSUME NEW t \in IoThreads, handler_read_header(t) PROVE TypeOK'
  BY <1>3 DEF handler_read_header, leave, WritePhases, ReadPhases
<1>4. ASSUME NEW t \in IoThreads, handler_read_body_err(t) PROVE TypeOK'
  BY <1>4 DEF handler_read_body_err, leave, WritePhases, ReadPhases
<1>5. ASSUME NEW t \in IoThreads, NEW m \in ClientMsgs, handler_read_body_ok(t, m) PROVE TypeOK'
  <2>1. Sequences'
    BY <1>5 DEF handler_read_body_ok, ProcessMsg, do_read, write, Threads, Msgs
  <2> QED
    BY <1>5, <2>1 DEF handler_read_body_ok, ProcessMsg, do_read, write, Threads, Msgs, WritePhases, ReadPhases
<1>6. ASSUME NEW t \in IoThreads, NEW c \in Msgs, handler_write_header(t, c) PROVE TypeOK'
  <2>1. Sequences'
    BY <1>6 DEF handler_write_header, leave
  <2>2. chain' \in [Msgs -> WritePhases]
    BY <1>6 DEF handler_write_header, WritePhases
  <2>3. op' \in [Msgs -> Msgs \cup {NoMsg}]
    BY <1>0, <1>6 DEF handler_write_header
  <2> QED
    BY <1>6, <2>1, <2>2, <2>3 DEF handler_write_header, leave
<1>7. ASSUME NEW t \in IoThreads, NEW c \in Msgs, handler_write_body_ok(t, c) PROVE TypeOK'
  <2>1. Sequences'
    BY <1>0, <1>7 DEF handler_write_body_ok, Threads
  <2> QED
    BY <1>7, <1>0, <2>1 DEF handler_write_body_ok, Threads, WritePhases, ReadPhases
<1>8. ASSUME NEW t \in IoThreads, NEW c \in Msgs, handler_write_body_err(t, c) PROVE TypeOK'
  BY <1>8 DEF handler_write_body_err, leave, WritePhases, ReadPhases
<1>9. ASSUME NEW t \in AppThreads, NEW m \in AppMsgs, app_write(t, m) PROVE TypeOK'
  <2>1. Sequences'
    BY <1>9 DEF app_write, write, Threads, Msgs
  <2>2. m \in Msgs /\ t \in Threads
    BY DEF Threads, Msgs
  <2>3. runs' \in [Threads -> Msgs \cup {NoMsg}]
    BY <1>9, <2>2 DEF app_write, write
  <2>4. chain' \in [Msgs -> WritePhases]
    BY <1>9, <2>2 DEF app_write, write, WritePhases
  <2>5. UNCHANGED <<op, read, reader, joined, link, freed>>
    BY <1>9 DEF app_write
  <2> QED
    BY <1>9, <2>1, <2>3, <2>4, <2>5 DEF app_write, write
<1>10. CASE mgr_stop \/ peer_eof \/ peer_reset \/ read_arrives \/ read_fails
  BY <1>10 DEF mgr_stop, peer_eof, peer_reset, read_arrives, read_fails, ReadPhases
<1>11. ASSUME NEW c \in Msgs, write_header_completes(c) PROVE TypeOK'
  <2>1. \A m \in BufferContents(op[c]) : [part |-> "header", msg |-> m] \in Segments
    BY DEF BufferContents, Segments
  <2>2. wire' \in Seq(Segments)
    <3>1. CASE Sends("header", c)
      BY <2>1, <3>1 DEF Sends
    <3>2. CASE wire' = wire
      BY <3>2
    <3> QED
      BY <1>11, <3>1, <3>2 DEF write_header_completes
  <2> QED
    BY <1>11, <2>2 DEF write_header_completes, WritePhases
<1>12. ASSUME NEW c \in Msgs, write_body_completes(c) PROVE TypeOK'
  <2>1. \A m \in BufferContents(op[c]) : [part |-> "body", msg |-> m] \in Segments
    BY DEF BufferContents, Segments
  <2>2. wire' \in Seq(Segments)
    <3>1. CASE Sends("body", c)
      BY <2>1, <3>1 DEF Sends
    <3>2. CASE wire' = wire
      BY <3>2
    <3> QED
      BY <1>12, <3>1, <3>2 DEF write_body_completes
  <2> QED
    BY <1>12, <2>2 DEF write_body_completes, WritePhases
<1>13. CASE UNCHANGED vars
  BY <1>13 DEF vars
<1> QED
  BY <1>1, <1>2, <1>3, <1>4, <1>5, <1>6, <1>7, <1>8, <1>9, <1>10, <1>11, <1>12,
     <1>13 DEF Next, IoStep, Network

\* The session's variables keep their types, whatever the threads do.
THEOREM TypeCorrect == Spec => []TypeOK
<1>1. Init => TypeOK
  <2> SUFFICES ASSUME Init PROVE TypeOK
    OBVIOUS
  <2>1. /\ msg_queue_ \in Seq(Msgs)
        /\ accepted \in Seq(Msgs)
        /\ wire \in Seq(Segments)
    BY DEF Init
  <2> QED
    BY <2>1 DEF Init, TypeOK, WritePhases, ReadPhases
<1> QED
  BY <1>1, TypeStep, PTL DEF Spec

-----------------------------------------------------------------------------
(***************************************************************************)
(* A chain ends only where its thread sees, under the lock, that the queue *)
(* is empty; a chain is started exactly when a push finds it empty.        *)
(***************************************************************************)
LEMMA StrandedStep ==
    TypeOK /\ NoStrandedMessage /\ [Next]_vars => NoStrandedMessage'
<1> SUFFICES ASSUME TypeOK, NoStrandedMessage, [Next]_vars PROVE NoStrandedMessage'
  OBVIOUS
<1> USE DEF TypeOK, NoStrandedMessage, Alive, Failed
<1>1. ASSUME NEW t \in Threads, NEW c \in Msgs, do_write(t, c) PROVE NoStrandedMessage'
  BY <1>1 DEF do_write
<1>2. ASSUME NEW t \in IoThreads, start(t) PROVE NoStrandedMessage'
  BY <1>2 DEF start, do_read
<1>3. ASSUME NEW t \in IoThreads, handler_read_header(t) PROVE NoStrandedMessage'
  BY <1>3 DEF handler_read_header, leave
<1>4. ASSUME NEW t \in IoThreads, handler_read_body_err(t) PROVE NoStrandedMessage'
  BY <1>4 DEF handler_read_body_err, leave
<1>5. ASSUME NEW t \in IoThreads, NEW m \in ClientMsgs, handler_read_body_ok(t, m) PROVE NoStrandedMessage'
  BY <1>5 DEF handler_read_body_ok, ProcessMsg, do_read, write, Threads, Msgs
<1>6. ASSUME NEW t \in IoThreads, NEW c \in Msgs, handler_write_header(t, c) PROVE NoStrandedMessage'
  BY <1>6 DEF handler_write_header, leave
<1>7. ASSUME NEW t \in IoThreads, NEW c \in Msgs, handler_write_body_ok(t, c) PROVE NoStrandedMessage'
  BY <1>7 DEF handler_write_body_ok, Threads
<1>8. ASSUME NEW t \in IoThreads, NEW c \in Msgs, handler_write_body_err(t, c) PROVE NoStrandedMessage'
  BY <1>8 DEF handler_write_body_err, leave
<1>9. ASSUME NEW t \in AppThreads, NEW m \in AppMsgs, app_write(t, m) PROVE NoStrandedMessage'
  BY <1>9 DEF app_write, write, Threads, Msgs
<1>10. CASE mgr_stop \/ peer_eof \/ peer_reset \/ read_arrives \/ read_fails
  BY <1>10 DEF mgr_stop, peer_eof, peer_reset, read_arrives, read_fails
<1>11. ASSUME NEW c \in Msgs, write_header_completes(c) PROVE NoStrandedMessage'
  BY <1>11 DEF write_header_completes
<1>12. ASSUME NEW c \in Msgs, write_body_completes(c) PROVE NoStrandedMessage'
  BY <1>12 DEF write_body_completes
<1>13. CASE UNCHANGED vars
  BY <1>13 DEF vars
<1> QED
  BY <1>1, <1>2, <1>3, <1>4, <1>5, <1>6, <1>7, <1>8, <1>9, <1>10, <1>11, <1>12,
     <1>13 DEF Next, IoStep, Network

\* While messages wait in the queue, a write chain is under way to send them,
\* unless a write of the session failed: for any number of io threads and of
\* application threads calling write.
THEOREM NothingStranded == Spec => []NoStrandedMessage
<1>1. Init => NoStrandedMessage
  BY DEF Init, NoStrandedMessage
<1> QED
  BY <1>1, TypeCorrect, StrandedStep, PTL DEF Spec

\* Only a handler that leaves the list ends the read chain.
LEMMA ListedStep ==
    ListedSessionReads /\ [Next]_vars => ListedSessionReads'
<1> SUFFICES ASSUME ListedSessionReads, [Next]_vars PROVE ListedSessionReads'
  OBVIOUS
<1> USE DEF ListedSessionReads
<1>1. ASSUME NEW t \in Threads, NEW c \in Msgs, do_write(t, c) PROVE ListedSessionReads'
  BY <1>1 DEF do_write
<1>2. ASSUME NEW t \in IoThreads, start(t) PROVE ListedSessionReads'
  BY <1>2 DEF start, do_read
<1>3. ASSUME NEW t \in IoThreads, handler_read_header(t) PROVE ListedSessionReads'
  BY <1>3 DEF handler_read_header, leave
<1>4. ASSUME NEW t \in IoThreads, handler_read_body_err(t) PROVE ListedSessionReads'
  BY <1>4 DEF handler_read_body_err, leave
<1>5. ASSUME NEW t \in IoThreads, NEW m \in ClientMsgs, handler_read_body_ok(t, m) PROVE ListedSessionReads'
  BY <1>5 DEF handler_read_body_ok, ProcessMsg, do_read, write, Threads, Msgs
<1>6. ASSUME NEW t \in IoThreads, NEW c \in Msgs, handler_write_header(t, c) PROVE ListedSessionReads'
  BY <1>6 DEF handler_write_header, leave
<1>7. ASSUME NEW t \in IoThreads, NEW c \in Msgs, handler_write_body_ok(t, c) PROVE ListedSessionReads'
  BY <1>7 DEF handler_write_body_ok, Threads
<1>8. ASSUME NEW t \in IoThreads, NEW c \in Msgs, handler_write_body_err(t, c) PROVE ListedSessionReads'
  BY <1>8 DEF handler_write_body_err, leave
<1>9. ASSUME NEW t \in AppThreads, NEW m \in AppMsgs, app_write(t, m) PROVE ListedSessionReads'
  BY <1>9 DEF app_write, write, Threads, Msgs
<1>10. CASE mgr_stop \/ peer_eof \/ peer_reset \/ read_arrives \/ read_fails
  BY <1>10 DEF mgr_stop, peer_eof, peer_reset, read_arrives, read_fails
<1>11. ASSUME NEW c \in Msgs, write_header_completes(c) PROVE ListedSessionReads'
  BY <1>11 DEF write_header_completes
<1>12. ASSUME NEW c \in Msgs, write_body_completes(c) PROVE ListedSessionReads'
  BY <1>12 DEF write_body_completes
<1>13. CASE UNCHANGED vars
  BY <1>13 DEF vars
<1> QED
  BY <1>1, <1>2, <1>3, <1>4, <1>5, <1>6, <1>7, <1>8, <1>9, <1>10, <1>11, <1>12,
     <1>13 DEF Next, IoStep, Network

\* A session that is in connection_list_ has a read outstanding, or a thread
\* inside the handler of one: the list holds no session that is dead.
THEOREM ListedReads == Spec => []ListedSessionReads
<1>1. Init => ListedSessionReads
  BY DEF Init, ListedSessionReads
<1> QED
  BY <1>1, ListedStep, PTL DEF Spec

-----------------------------------------------------------------------------
(***************************************************************************)
(* The order on the wire, with any number of io and application threads:   *)
(* one chain at a time works on the queue, until a write() finds the queue *)
(* empty between the pop and the do_write of another thread (doubled).     *)
(***************************************************************************)

\* The message an operation sends is the first unsent one, and its buffer is
\* not back in the pool.
LEMMA InFlightMessage ==
    ASSUME TypeOK, QueueIsRest, OneChain, NEW c \in Msgs, InFlight(c)
    PROVE  /\ Sent \in Nat
           /\ Sent + 1 \in 1..Len(accepted)
           /\ op[c] = accepted[Sent + 1]
           /\ op[c] \notin freed
<1>1. /\ msg_queue_ \in Seq(Msgs) /\ accepted \in Seq(Msgs)
      /\ Len(msg_queue_) \in Nat /\ Len(accepted) \in Nat
  BY DEF TypeOK
<1>2. msg_queue_ # <<>> /\ op[c] = Head(msg_queue_)
  BY DEF OneChain, InFlight, Started
<1>3. Len(msg_queue_) > 0 /\ Head(msg_queue_) = msg_queue_[1]
  BY <1>1, <1>2
<1>4. Sent \in Nat /\ Sent + 1 \in 1..Len(accepted) /\ op[c] = accepted[Sent + 1]
  BY <1>1, <1>2, <1>3 DEF QueueIsRest, Sent
<1>5. op[c] \notin freed
  <2> SUFFICES ASSUME op[c] \in freed PROVE FALSE
    OBVIOUS
  <2>1. PICK i \in 1..Sent : op[c] = accepted[i]
    BY Zenon DEF QueueIsRest
  <2>2. i \in 1..Len(accepted) /\ i # Sent + 1
    BY <1>1, <1>4
  <2>3. \A j, k \in 1..Len(accepted) : accepted[j] = accepted[k] => j = k
    BY Zenon DEF QueueIsRest
  <2> QED
    BY <1>4, <2>1, <2>2, <2>3, Zenon
<1> QED
  BY <1>4, <1>5

\* write() adds a new message at the end of the queue.
LEMMA PushKeepsRest ==
    ASSUME TypeOK, QueueIsRest, NEW t, NEW m \in Msgs, Fresh(m), write(t, m), UNCHANGED freed
    PROVE  /\ QueueIsRest'
           /\ Sent' = Sent /\ Sent \in Nat
           /\ \A i \in 1..Len(accepted) : accepted'[i] = accepted[i]
           /\ Len(accepted') = Len(accepted) + 1
           /\ msg_queue_' # <<>>
           /\ msg_queue_ # <<>> => Head(msg_queue_') = Head(msg_queue_)
<1>0. /\ msg_queue_ \in Seq(Msgs) /\ accepted \in Seq(Msgs)
      /\ Len(msg_queue_) \in Nat /\ Len(accepted) \in Nat
  BY DEF TypeOK
<1>1. /\ accepted' = Append(accepted, m) /\ msg_queue_' = Append(msg_queue_, m) /\ freed' = freed
      /\ \A i \in 1..Len(accepted) : accepted[i] # m
  BY DEF write, Fresh
<1>2. /\ Len(accepted') = Len(accepted) + 1 /\ Len(msg_queue_') = Len(msg_queue_) + 1
      /\ \A i \in 1..Len(accepted) : accepted'[i] = accepted[i]
      /\ \A i \in 1..Len(msg_queue_) : msg_queue_'[i] = msg_queue_[i]
      /\ accepted'[Len(accepted) + 1] = m /\ msg_queue_'[Len(msg_queue_) + 1] = m
      /\ msg_queue_' # <<>>
  BY <1>0, <1>1
<1>3. Sent' = Sent /\ Sent \in Nat
  BY <1>0, <1>2 DEF Sent, QueueIsRest
<1>4. /\ Len(msg_queue_') <= Len(accepted')
      /\ \A i \in 1..Len(msg_queue_') : msg_queue_'[i] = accepted'[Sent' + i]
  <2>1. Sent + Len(msg_queue_) = Len(accepted) /\ Len(msg_queue_) <= Len(accepted)
    BY <1>0 DEF Sent, QueueIsRest
  <2>2. ASSUME NEW i \in 1..Len(msg_queue_) PROVE msg_queue_'[i] = accepted'[Sent' + i]
    <3>1. Sent + i \in 1..Len(accepted)
      BY <1>0, <1>3, <2>1
    <3> QED
      BY <1>0, <1>2, <1>3, <3>1 DEF QueueIsRest
  <2>3. msg_queue_'[Len(msg_queue_) + 1] = accepted'[Sent' + (Len(msg_queue_) + 1)]
    BY <1>0, <1>2, <1>3, <2>1
  <2>4. \A i \in 1..Len(msg_queue_') : i \in 1..Len(msg_queue_) \/ i = Len(msg_queue_) + 1
    BY <1>0, <1>2
  <2> QED
    BY <1>0, <1>2, <2>1, <2>2, <2>3, <2>4
<1>5. \A i, j \in 1..Len(accepted') : accepted'[i] = accepted'[j] => i = j
  <2> SUFFICES ASSUME NEW i \in 1..Len(accepted) + 1, NEW j \in 1..Len(accepted) + 1,
                      accepted'[i] = accepted'[j]
               PROVE  i = j
    BY <1>2
  <2>1. CASE i \in 1..Len(accepted) /\ j \in 1..Len(accepted)
    BY <1>0, <1>2, <2>1 DEF QueueIsRest
  <2>2. CASE i = Len(accepted) + 1 \/ j = Len(accepted) + 1
    BY <1>0, <1>1, <1>2, <2>2
  <2> QED
    BY <1>0, <2>1, <2>2
<1>6. \A x \in freed' : \E i \in 1..Sent' : x = accepted'[i]
  BY <1>0, <1>1, <1>2, <1>3 DEF QueueIsRest, Sent
<1>7. msg_queue_ # <<>> => Head(msg_queue_') = Head(msg_queue_)
  BY <1>0, <1>1
<1> QED
  BY <1>2, <1>3, <1>4, <1>5, <1>6, <1>7 DEF QueueIsRest

\* handler_write_body frees and pops the first unsent message.
LEMMA PopKeepsRest ==
    ASSUME TypeOK, QueueIsRest, msg_queue_ # <<>>, UNCHANGED accepted,
           msg_queue_' = Tail(msg_queue_), freed' = freed \cup {Head(msg_queue_)}
    PROVE  QueueIsRest' /\ Sent' = Sent + 1 /\ Sent \in Nat
<1>0. /\ msg_queue_ \in Seq(Msgs) /\ accepted \in Seq(Msgs)
      /\ Len(msg_queue_) \in Nat /\ Len(accepted) \in Nat
  BY DEF TypeOK
<1>1. Len(msg_queue_) > 0 /\ Head(msg_queue_) = msg_queue_[1]
  BY <1>0, FrontOfQueue
<1>2. /\ Len(msg_queue_') = Len(msg_queue_) - 1
      /\ \A i \in 1..Len(msg_queue_') : msg_queue_'[i] = msg_queue_[i + 1]
  BY <1>0, <1>1
<1>3. Sent' = Sent + 1 /\ Sent \in Nat
  <2>1. Len(msg_queue_) <= Len(accepted) /\ Len(accepted') = Len(accepted)
    BY <1>0 DEF QueueIsRest
  <2> QED
    BY <1>0, <1>2, <2>1 DEF Sent
<1>4. Head(msg_queue_) = accepted[Sent + 1]
  <2>1. 1 \in 1..Len(msg_queue_)
    BY <1>0, <1>1
  <2> QED
    BY <1>0, <1>1, <1>3, <2>1 DEF QueueIsRest
<1>5. /\ Len(msg_queue_') <= Len(accepted')
      /\ \A i \in 1..Len(msg_queue_') : msg_queue_'[i] = accepted'[Sent' + i]
  BY <1>0, <1>1, <1>2, <1>3 DEF QueueIsRest
<1>6. \A m \in freed' : \E i \in 1..Sent' : m = accepted'[i]
  BY <1>0, <1>3, <1>4 DEF QueueIsRest
<1> QED
  BY <1>0, <1>3, <1>5, <1>6 DEF QueueIsRest

\* Each step, of any thread, leaves the queue the unsent rest of what was accepted.
LEMMA RestStep == TypeOK /\ QueueIsRest /\ [Next]_vars => QueueIsRest'
<1> SUFFICES ASSUME TypeOK, QueueIsRest, [Next]_vars PROVE QueueIsRest'
  OBVIOUS
<1>1. ASSUME UNCHANGED <<msg_queue_, accepted, freed>> PROVE QueueIsRest'
  BY <1>1 DEF QueueIsRest, Sent
<1>2. ASSUME NEW t \in IoThreads, NEW c \in Msgs, handler_write_body_ok(t, c) PROVE QueueIsRest'
  <2>1. UNCHANGED accepted
    BY <1>2, Zenon DEF handler_write_body_ok
  <2>2. CASE msg_queue_ = <<>>
    BY <1>1, <1>2, <2>2, Zenon DEF handler_write_body_ok
  <2>3. CASE msg_queue_ # <<>>
    BY <1>2, <2>1, <2>3, PopKeepsRest, Zenon DEF handler_write_body_ok
  <2> QED
    BY <2>2, <2>3
<1>3. ASSUME NEW t \in IoThreads, NEW m \in ClientMsgs, handler_read_body_ok(t, m)
      PROVE  QueueIsRest'
  <2>1. m \in Msgs /\ Fresh(m) /\ write(t, m) /\ UNCHANGED freed
    BY <1>3, Zenon DEF handler_read_body_ok, ProcessMsg, Msgs
  <2> QED
    BY <2>1, PushKeepsRest
<1>4. ASSUME NEW t \in AppThreads, NEW m \in AppMsgs, app_write(t, m) PROVE QueueIsRest'
  <2>1. m \in Msgs /\ Fresh(m) /\ write(t, m) /\ UNCHANGED freed
    BY <1>4, Zenon DEF app_write, Msgs
  <2> QED
    BY <2>1, PushKeepsRest
<1>5. ASSUME NEW t \in Threads, NEW c \in Msgs, do_write(t, c) PROVE QueueIsRest'
  BY <1>1, <1>5, Zenon DEF do_write
<1>6. ASSUME NEW t \in IoThreads, NEW c \in Msgs,
             handler_write_header(t, c) \/ handler_write_body_err(t, c)
      PROVE  QueueIsRest'
  BY <1>1, <1>6, Zenon DEF handler_write_header, handler_write_body_err
<1>7. ASSUME NEW t \in IoThreads,
             start(t) \/ handler_read_header(t) \/ handler_read_body_err(t)
      PROVE  QueueIsRest'
  BY <1>1, <1>7, Zenon DEF start, handler_read_header, handler_read_body_err
<1>8. ASSUME NEW c \in Msgs, write_header_completes(c) \/ write_body_completes(c)
      PROVE  QueueIsRest'
  BY <1>1, <1>8, Zenon DEF write_header_completes, write_body_completes
<1>9. CASE mgr_stop \/ peer_eof \/ peer_reset \/ read_arrives \/ read_fails
  BY <1>1, <1>9, Zenon DEF mgr_stop, peer_eof, peer_reset, read_arrives, read_fails
<1>10. CASE UNCHANGED vars
  BY <1>1, <1>10, Zenon DEF vars
<1> QED
  BY <1>2, <1>3, <1>4, <1>5, <1>6, <1>7, <1>8, <1>9, <1>10, Zenon DEF Next, IoStep, Network

\* The part of the invariant that holds until two chains meet.
OrderInv == OneChain /\ WireMatchesChain /\ WireInOrder

\* What the session has sent belongs to messages that it has accepted.
LEMMA WireBounded ==
    ASSUME TypeOK, QueueIsRest, OrderInv
    PROVE  /\ Len(wire) <= 2 * Len(accepted)
           /\ Len(wire) >= 2 * Sent
<1>1. /\ Len(msg_queue_) \in Nat /\ Len(accepted) \in Nat /\ Len(wire) \in Nat
      /\ Len(msg_queue_) <= Len(accepted) /\ msg_queue_ \in Seq(Msgs)
  BY DEF TypeOK, QueueIsRest
<1>2. Sent \in Nat /\ Sent <= Len(accepted) /\ (msg_queue_ # <<>> => Sent + 1 <= Len(accepted))
  <2>1. msg_queue_ # <<>> => Len(msg_queue_) >= 1
    BY <1>1
  <2> QED
    BY <1>1, <2>1 DEF Sent
<1>3. ASSUME NEW c \in Msgs, Started(c)
      PROVE  Len(wire) <= 2 * Len(accepted) /\ Len(wire) >= 2 * Sent
  <2>1. chain[c] \in WritePhases
    BY DEF TypeOK
  <2>2. chain[c] # "do_write" => msg_queue_ # <<>>
    BY <1>3 DEF OrderInv, OneChain
  <2>3. /\ chain[c] \in {"do_write", "hdr_io", "hdr_err"} => Len(wire) = 2 * Sent
        /\ chain[c] \in {"hdr_ok", "body_io", "body_err"} => Len(wire) = 2 * Sent + 1
        /\ chain[c] = "body_ok" => Len(wire) = 2 * Sent + 2
        /\ chain[c] = "failed" => Len(wire) \in {2 * Sent, 2 * Sent + 1}
    BY DEF OrderInv, WireMatchesChain
  <2>4. \/ Len(wire) = 2 * Sent
        \/ msg_queue_ # <<>> /\ Len(wire) <= 2 * Sent + 2 /\ Len(wire) >= 2 * Sent
    BY <1>1, <1>2, <1>3, <2>1, <2>2, <2>3 DEF WritePhases, Started
  <2> QED
    BY <1>1, <1>2, <2>4
<1>4. ASSUME \A c \in Msgs : ~Started(c)
      PROVE  Len(wire) <= 2 * Len(accepted) /\ Len(wire) >= 2 * Sent
  <2>1. Len(wire) = 2 * Sent
    BY <1>4, Zenon DEF OrderInv, WireMatchesChain
  <2> QED
    BY <1>1, <1>2, <2>1
<1> QED
  BY <1>3, <1>4

\* A push keeps the order, unless it falls between a pop and its do_write.
LEMMA PushKeepsOrder ==
    ASSUME TypeOK, QueueIsRest, OrderInv, ~doubled',
           NEW t \in Threads, NEW m \in Msgs, Idle(t), Fresh(m), write(t, m),
           UNCHANGED <<op, freed, wire>>
    PROVE  OrderInv'
<1>0. /\ OneChain /\ WireMatchesChain /\ WireInOrder
      /\ accepted \in Seq(Msgs) /\ wire \in Seq(Segments)
      /\ chain \in [Msgs -> WritePhases] /\ runs \in [Threads -> Msgs \cup {NoMsg}]
      /\ Len(accepted) \in Nat /\ Len(wire) \in Nat
  BY DEF TypeOK, OrderInv
<1>1. /\ Sent' = Sent /\ Sent \in Nat
      /\ \A i \in 1..Len(accepted) : accepted'[i] = accepted[i]
      /\ Len(accepted') = Len(accepted) + 1
      /\ msg_queue_' # <<>>
      /\ msg_queue_ # <<>> => Head(msg_queue_') = Head(msg_queue_)
  BY PushKeepsRest
<1>2. wire' = wire /\ op' = op
  OBVIOUS
<1>3. WireInOrder'
  <2>1. Len(wire) <= 2 * Len(accepted)
    BY WireBounded
  <2> QED
    BY <1>0, <1>1, <1>2, <2>1 DEF WireInOrder
<1>4. CASE msg_queue_ = <<>>
  <2>1. \A u \in Threads : runs[u] = NoMsg
    BY <1>4, Zenon DEF write, BetweenPopAndWrite
  <2>2. \A d \in Msgs : ~Started(d)
    BY <1>0, <1>4, <2>1, SessionAssumption, Zenon DEF OneChain
  <2>3. /\ chain' = [chain EXCEPT ![m] = "do_write"]
        /\ runs' = [runs EXCEPT ![t] = m]
    BY <1>4, Zenon DEF write
  <2>4. /\ chain'[m] = "do_write" /\ \A d \in Msgs : d # m => chain'[d] = chain[d]
        /\ runs'[t] = m /\ \A u \in Threads : u # t => runs'[u] = NoMsg
    BY <1>0, <2>1, <2>3
  <2>5. \A d \in Msgs : Started(d)' => d = m
    BY <2>2, <2>4, Zenon DEF Started
  <2>6. OneChain'
    BY <2>4, <2>5 DEF OneChain, Started, InFlight
  <2>7. Len(wire') = 2 * Sent'
    BY <1>0, <1>1, <1>2, <2>2 DEF WireMatchesChain
  <2>8. WireMatchesChain'
    BY <2>2, <2>4, <2>7 DEF WireMatchesChain, Started
  <2> QED
    BY <2>6, <2>8, <1>3 DEF OrderInv
<1>5. CASE msg_queue_ # <<>>
  <2>1. chain' = chain /\ runs' = runs /\ Head(msg_queue_') = Head(msg_queue_)
    BY <1>1, <1>5 DEF write
  <2>2. OneChain'
    BY <1>0, <1>1, <1>2, <2>1 DEF OneChain, Started, InFlight
  <2>3. WireMatchesChain'
    BY <1>0, <1>1, <1>2, <2>1 DEF WireMatchesChain, Started
  <2> QED
    BY <1>3, <2>2, <2>3 DEF OrderInv
<1> QED
  BY <1>4, <1>5

\* Each step keeps the order, until a push makes two chains of one.
LEMMA OrderStep ==
    TypeOK /\ QueueIsRest /\ OrderInv /\ [Next]_vars /\ ~doubled' => OrderInv'
<1> SUFFICES ASSUME TypeOK, QueueIsRest, OrderInv, [Next]_vars, ~doubled'
             PROVE  OrderInv'
  OBVIOUS
<1> USE SessionAssumption DEF OrderInv
<1>0. /\ QueueIsRest /\ OneChain /\ WireMatchesChain /\ WireInOrder
      /\ msg_queue_ \in Seq(Msgs) /\ accepted \in Seq(Msgs) /\ wire \in Seq(Segments)
      /\ chain \in [Msgs -> WritePhases] /\ op \in [Msgs -> Msgs \cup {NoMsg}]
      /\ runs \in [Threads -> Msgs \cup {NoMsg}]
      /\ Len(msg_queue_) \in Nat /\ Len(accepted) \in Nat /\ Len(wire) \in Nat
  BY DEF TypeOK
<1>1. ASSUME NEW t \in Threads, NEW c \in Msgs, do_write(t, c) PROVE OrderInv'
  <2>0. chain[c] = "do_write" /\ \A d \in Msgs : Started(d) => d = c
    BY <1>1, <1>0 DEF do_write, OneChain, Started
  <2>1. \A d \in Msgs : d # c => ~Started(d) /\ chain'[d] = chain[d] /\ op'[d] = op[d]
    BY <1>1, <1>0, <2>0 DEF do_write
  <2>2. \A u \in Threads : runs'[u] = NoMsg
    <3>1. runs[t] = c /\ c # NoMsg /\ runs' = [runs EXCEPT ![t] = NoMsg]
      BY <1>1, Zenon DEF do_write
    <3>2. \A u \in Threads : u # t => runs[u] = NoMsg
      BY <1>0, <3>1, Zenon DEF OneChain
    <3> QED
      BY <1>0, <3>1, <3>2
  <2>3. \/ chain'[c] = "end"
        \/ chain'[c] = "hdr_io" /\ op'[c] = Head(msg_queue_) /\ msg_queue_ # <<>>
    BY <1>1, <1>0 DEF do_write
  <2>4. OneChain'
    BY <1>1, <2>1, <2>2, <2>3 DEF do_write, OneChain, Started, InFlight
  <2>5. WireMatchesChain'
    BY <1>1, <1>0, <2>0, <2>1, <2>3 DEF do_write, WireMatchesChain, Started, Sent
  <2>6. WireInOrder'
    BY <1>1, <1>0 DEF do_write, WireInOrder
  <2> QED
    BY <2>4, <2>5, <2>6
<1>2. ASSUME NEW t \in IoThreads, NEW c \in Msgs, handler_write_header(t, c) PROVE OrderInv'
  <2>0. /\ chain[c] \in {"hdr_ok", "hdr_err"}
        /\ \A d \in Msgs : d # c => ~Started(d)
        /\ msg_queue_ # <<>>
    BY <1>2, <1>0 DEF handler_write_header, OneChain, Started
  <2>1. /\ \A d \in Msgs : d # c => chain'[d] = chain[d] /\ op'[d] = op[d]
        /\ UNCHANGED <<msg_queue_, runs, accepted, freed, wire>>
    BY <1>2, <1>0 DEF handler_write_header
  <2>2. \/ chain[c] = "hdr_ok" /\ chain'[c] = "body_io" /\ op'[c] = Head(msg_queue_)
        \/ chain[c] = "hdr_err" /\ chain'[c] = "failed"
    BY <1>2, <1>0, <2>0 DEF handler_write_header
  <2>3. \A u \in Threads : runs[u] = NoMsg
    <3> SUFFICES ASSUME NEW u \in Threads, runs[u] # NoMsg PROVE FALSE
      OBVIOUS
    <3>1. runs[u] \in Msgs /\ chain[runs[u]] = "do_write"
      BY <1>0 DEF OneChain
    <3> QED
      BY <2>0, <3>1 DEF Started
  <2>4. OneChain'
    BY <2>0, <2>1, <2>2, <2>3 DEF OneChain, Started, InFlight
  <2>5. WireMatchesChain'
    BY <1>0, <2>0, <2>1, <2>2 DEF WireMatchesChain, Started, Sent
  <2>6. WireInOrder'
    BY <1>0, <2>1 DEF WireInOrder
  <2> QED
    BY <2>4, <2>5, <2>6
<1>3. ASSUME NEW t \in IoThreads, NEW c \in Msgs, handler_write_body_err(t, c) PROVE OrderInv'
  <2>0. /\ chain[c] = "body_err"
        /\ \A d \in Msgs : d # c => ~Started(d)
        /\ msg_queue_ # <<>>
    BY <1>3, <1>0 DEF handler_write_body_err, OneChain, Started
  <2>1. /\ \A d \in Msgs : d # c => chain'[d] = chain[d]
        /\ chain'[c] = "failed"
        /\ UNCHANGED <<msg_queue_, op, runs, accepted, freed, wire>>
    BY <1>3, <1>0 DEF handler_write_body_err
  <2>2. \A u \in Threads : runs[u] = NoMsg
    <3> SUFFICES ASSUME NEW u \in Threads, runs[u] # NoMsg PROVE FALSE
      OBVIOUS
    <3>1. runs[u] \in Msgs /\ chain[runs[u]] = "do_write"
      BY <1>0 DEF OneChain
    <3> QED
      BY <2>0, <3>1 DEF Started
  <2>4. OneChain'
    BY <2>0, <2>1, <2>2 DEF OneChain, Started, InFlight
  <2>5. WireMatchesChain'
    BY <1>0, <2>0, <2>1 DEF WireMatchesChain, Started, Sent
  <2>6. WireInOrder'
    BY <1>0, <2>1 DEF WireInOrder
  <2> QED
    BY <2>4, <2>5, <2>6
<1>4. ASSUME NEW c \in Msgs, write_header_completes(c) PROVE OrderInv'
  <2>0. InFlight(c) /\ chain[c] = "hdr_io" /\ \A d \in Msgs : Started(d) => d = c
    BY <1>4, <1>0 DEF write_header_completes, OneChain, Started, InFlight
  <2>2. OneChain'
    <3>1. \A d \in Msgs : d # c => ~Started(d) /\ chain'[d] = chain[d]
      BY <1>4, <1>0, <2>0 DEF write_header_completes
    <3>2. chain'[c] \in {"hdr_ok", "hdr_err"}
      BY <1>4, <1>0 DEF write_header_completes
    <3>3. msg_queue_ # <<>> /\ \A u \in Threads : runs[u] = NoMsg
      BY <1>0, <2>0 DEF OneChain, Started, InFlight
    <3> QED
      BY <1>4, <3>1, <3>2, <3>3 DEF write_header_completes, OneChain, Started, InFlight
  <2>3. \/ link # "down" /\ chain'[c] = "hdr_ok"
           /\ wire' = Append(wire, [part |-> "header", msg |-> accepted[Sent + 1]])
        \/ link = "down" /\ chain'[c] = "hdr_err" /\ wire' = wire
    BY <1>4, <1>0, <2>0, InFlightMessage DEF write_header_completes, Sends, BufferContents
  <2>4. Len(wire) = 2 * Sent /\ Sent \in Nat /\ Sent + 1 \in 1..Len(accepted)
    BY <1>0, <2>0, InFlightMessage DEF WireMatchesChain
  <2>5. WireMatchesChain'
    <3>1. \A d \in Msgs : d # c => ~Started(d) /\ chain'[d] = chain[d]
      BY <1>4, <1>0, <2>0 DEF write_header_completes
    <3>2. \/ chain'[c] = "hdr_ok" /\ Len(wire') = 2 * Sent + 1
          \/ chain'[c] = "hdr_err" /\ Len(wire') = 2 * Sent
      BY <1>0, <2>3, <2>4
    <3>3. Sent' = Sent
      BY <1>4 DEF write_header_completes, Sent
    <3> QED
      BY <3>1, <3>2, <3>3 DEF WireMatchesChain, Started
  <2>6. WireInOrder'
    <3>1. CASE wire' = wire
      BY <1>4, <1>0, <3>1 DEF write_header_completes, WireInOrder
    <3>2. CASE wire' = Append(wire, [part |-> "header", msg |-> accepted[Sent + 1]])
      <4>1. Len(wire') = Len(wire) + 1 /\ accepted' = accepted
        BY <1>4, <1>0, <3>2 DEF write_header_completes
      <4>2. \A k \in 1..Len(wire) : wire'[k] = wire[k]
        BY <1>0, <3>2
      <4>3. wire'[Len(wire) + 1] = [part |-> "header", msg |-> accepted[Sent + 1]]
        BY <1>0, <3>2
      <4>4. ASSUME NEW i \in 1..Len(accepted)
            PROVE  /\ 2*i - 1 <= Len(wire') =>
                        wire'[2*i - 1] = [part |-> "header", msg |-> accepted[i]]
                   /\ 2*i <= Len(wire') =>
                        wire'[2*i] = [part |-> "body", msg |-> accepted[i]]
        <5>1. i \in Nat /\ i > 0 /\ Len(wire) \in Nat /\ Sent \in Nat
          BY <1>0, <2>4
        <5>2. CASE 2*i - 1 <= Len(wire) /\ 2*i <= Len(wire)
          <6>1. 2*i - 1 \in 1..Len(wire) /\ 2*i \in 1..Len(wire)
            BY <5>1, <5>2
          <6>2. wire'[2*i - 1] = wire[2*i - 1] /\ wire'[2*i] = wire[2*i]
            BY <4>2, <6>1
          <6> QED
            BY <1>0, <5>2, <6>2 DEF WireInOrder
        <5>3. CASE 2*i - 1 <= Len(wire) /\ 2*i = Len(wire) + 1
          BY <2>4, <5>1, <5>3
        <5>4. CASE 2*i - 1 = Len(wire) + 1
          <6>1. i = Sent + 1 /\ 2*i > Len(wire')
            BY <2>4, <4>1, <5>1, <5>4
          <6> QED
            BY <4>3, <5>1, <5>4, <6>1
        <5>5. CASE 2*i - 1 > Len(wire) + 1
          BY <4>1, <5>1, <5>5
        <5> QED
          BY <5>1, <5>2, <5>3, <5>4, <5>5
      <4> QED
        BY <4>1, <4>4 DEF WireInOrder
    <3> QED
      BY <2>3, <3>1, <3>2
  <2> QED
    BY <2>2, <2>5, <2>6
<1>5. ASSUME NEW c \in Msgs, write_body_completes(c) PROVE OrderInv'
  <2>0. InFlight(c) /\ chain[c] = "body_io" /\ \A d \in Msgs : Started(d) => d = c
    BY <1>5, <1>0 DEF write_body_completes, OneChain, Started, InFlight
  <2>2. OneChain'
    <3>1. \A d \in Msgs : d # c => ~Started(d) /\ chain'[d] = chain[d]
      BY <1>5, <1>0, <2>0 DEF write_body_completes
    <3>2. chain'[c] \in {"body_ok", "body_err"}
      BY <1>5, <1>0 DEF write_body_completes
    <3>3. msg_queue_ # <<>> /\ \A u \in Threads : runs[u] = NoMsg
      BY <1>0, <2>0 DEF OneChain, Started, InFlight
    <3> QED
      BY <1>5, <3>1, <3>2, <3>3 DEF write_body_completes, OneChain, Started, InFlight
  <2>3. \/ link # "down" /\ chain'[c] = "body_ok"
           /\ wire' = Append(wire, [part |-> "body", msg |-> accepted[Sent + 1]])
        \/ link = "down" /\ chain'[c] = "body_err" /\ wire' = wire
    BY <1>5, <1>0, <2>0, InFlightMessage DEF write_body_completes, Sends, BufferContents
  <2>4. Len(wire) = 2 * Sent + 1 /\ Sent \in Nat /\ Sent + 1 \in 1..Len(accepted)
    BY <1>0, <2>0, InFlightMessage DEF WireMatchesChain
  <2>5. WireMatchesChain'
    <3>1. \A d \in Msgs : d # c => ~Started(d) /\ chain'[d] = chain[d]
      BY <1>5, <1>0, <2>0 DEF write_body_completes
    <3>2. \/ chain'[c] = "body_ok" /\ Len(wire') = 2 * Sent + 2
          \/ chain'[c] = "body_err" /\ Len(wire') = 2 * Sent + 1
      BY <1>0, <2>3, <2>4
    <3>3. Sent' = Sent
      BY <1>5 DEF write_body_completes, Sent
    <3> QED
      BY <3>1, <3>2, <3>3 DEF WireMatchesChain, Started
  <2>6. WireInOrder'
    <3>1. CASE wire' = wire
      BY <1>5, <1>0, <3>1 DEF write_body_completes, WireInOrder
    <3>2. CASE wire' = Append(wire, [part |-> "body", msg |-> accepted[Sent + 1]])
      <4>1. Len(wire') = Len(wire) + 1 /\ accepted' = accepted
        BY <1>5, <1>0, <3>2 DEF write_body_completes
      <4>2. \A k \in 1..Len(wire) : wire'[k] = wire[k]
        BY <1>0, <3>2
      <4>3. wire'[Len(wire) + 1] = [part |-> "body", msg |-> accepted[Sent + 1]]
        BY <1>0, <3>2
      <4>4. ASSUME NEW i \in 1..Len(accepted)
            PROVE  /\ 2*i - 1 <= Len(wire') =>
                        wire'[2*i - 1] = [part |-> "header", msg |-> accepted[i]]
                   /\ 2*i <= Len(wire') =>
                        wire'[2*i] = [part |-> "body", msg |-> accepted[i]]
        <5>1. i \in Nat /\ i > 0 /\ Len(wire) \in Nat /\ Sent \in Nat
          BY <1>0, <2>4
        <5>2. CASE 2*i - 1 <= Len(wire) /\ 2*i <= Len(wire)
          <6>1. 2*i - 1 \in 1..Len(wire) /\ 2*i \in 1..Len(wire)
            BY <5>1, <5>2
          <6>2. wire'[2*i - 1] = wire[2*i - 1] /\ wire'[2*i] = wire[2*i]
            BY <4>2, <6>1
          <6> QED
            BY <1>0, <5>2, <6>2 DEF WireInOrder
        <5>3. CASE 2*i - 1 <= Len(wire) /\ 2*i = Len(wire) + 1
          BY <2>4, <4>1, <4>2, <4>3, <5>1, <5>3, <1>0 DEF WireInOrder
        <5>4. CASE 2*i - 1 = Len(wire) + 1
          BY <2>4, <4>1, <4>3, <5>1, <5>4
        <5>5. CASE 2*i - 1 > Len(wire) + 1
          BY <4>1, <5>1, <5>5
        <5> QED
          BY <5>1, <5>2, <5>3, <5>4, <5>5
      <4> QED
        BY <4>1, <4>4 DEF WireInOrder
    <3> QED
      BY <2>3, <3>1, <3>2
  <2> QED
    BY <2>2, <2>5, <2>6
<1>6. ASSUME NEW t \in IoThreads, NEW c \in Msgs, handler_write_body_ok(t, c)
      PROVE  OrderInv'
  <2>0. /\ \A d \in Msgs : Started(d) => d = c
        /\ chain[c] = "body_ok"
        /\ msg_queue_ # <<>>
    BY <1>6, <1>0 DEF handler_write_body_ok, OneChain, Started
  <2>1. /\ chain' = [chain EXCEPT ![c] = "do_write"]
        /\ runs' = [runs EXCEPT ![t] = c]
        /\ UNCHANGED <<op, accepted, wire>>
        /\ msg_queue_' = Tail(msg_queue_) /\ freed' = freed \cup {Head(msg_queue_)}
    BY <1>6, <2>0, Zenon DEF handler_write_body_ok
  <2>2. Sent' = Sent + 1 /\ Sent \in Nat
    BY <2>0, <2>1, PopKeepsRest, Zenon
  <2>3. chain'[c] = "do_write" /\ \A d \in Msgs : d # c => ~Started(d) /\ chain'[d] = chain[d]
    BY <1>0, <2>0, <2>1
  <2>4. \A u \in Threads : runs[u] = NoMsg
    <3> SUFFICES ASSUME NEW u \in Threads, runs[u] # NoMsg PROVE FALSE
      OBVIOUS
    <3>1. runs[u] \in Msgs /\ chain[runs[u]] = "do_write"
      BY <1>0 DEF OneChain
    <3> QED
      BY <2>0, <3>1 DEF Started
  <2>5. t \in Threads /\ runs'[t] = c /\ \A u \in Threads : u # t => runs'[u] = NoMsg
    BY <1>0, <2>1, <2>4 DEF Threads
  <2>6. OneChain'
    BY <2>3, <2>5 DEF OneChain, Started, InFlight
  <2>7. Len(wire') = 2 * Sent'
    BY <1>0, <2>0, <2>1, <2>2 DEF WireMatchesChain
  <2>8. WireMatchesChain'
    BY <2>3, <2>7 DEF WireMatchesChain, Started
  <2>9. WireInOrder'
    BY <1>0, <2>1 DEF WireInOrder
  <2> QED
    BY <2>6, <2>8, <2>9
<1>7. ASSUME NEW t \in IoThreads, NEW m \in ClientMsgs, handler_read_body_ok(t, m)
      PROVE  OrderInv'
  <2>1. /\ t \in Threads /\ m \in Msgs /\ Idle(t) /\ Fresh(m) /\ write(t, m)
        /\ UNCHANGED <<op, freed, wire>>
    BY <1>7, Zenon DEF handler_read_body_ok, ProcessMsg, Threads, Msgs
  <2> QED
    BY <2>1, PushKeepsOrder
<1>8. ASSUME NEW t \in AppThreads, NEW m \in AppMsgs, app_write(t, m) PROVE OrderInv'
  <2>1. /\ t \in Threads /\ m \in Msgs /\ Idle(t) /\ Fresh(m) /\ write(t, m)
        /\ UNCHANGED <<op, freed, wire>>
    BY <1>8, Zenon DEF app_write, Threads, Msgs
  <2> QED
    BY <2>1, PushKeepsOrder
<1>9. ASSUME UNCHANGED <<msg_queue_, chain, op, runs, accepted, freed, wire>>
      PROVE  OrderInv'
  BY <1>0, <1>9 DEF OneChain, WireMatchesChain, WireInOrder, Sent, Started, InFlight
<1>10. ASSUME NEW t \in IoThreads,
              start(t) \/ handler_read_header(t) \/ handler_read_body_err(t)
       PROVE  OrderInv'
  BY <1>9, <1>10, Zenon DEF start, do_read, handler_read_header, handler_read_body_err
<1>11. CASE mgr_stop \/ peer_eof \/ peer_reset \/ read_arrives \/ read_fails
  BY <1>9, <1>11, Zenon DEF mgr_stop, peer_eof, peer_reset, read_arrives, read_fails
<1>12. CASE UNCHANGED vars
  BY <1>9, <1>12, Zenon DEF vars
<1> QED
  BY <1>1, <1>2, <1>3, <1>4, <1>5, <1>6, <1>7, <1>8, <1>10, <1>11, <1>12, Zenon
     DEF Next, IoStep, Network

\* Two chains that have met have met for good.
LEMMA DoubledForGood == [Next]_vars /\ doubled => doubled'
<1> QED
  BY Zenon DEF Next, IoStep, Network, do_write, start, handler_read_header, handler_read_body_err,
     handler_read_body_ok, ProcessMsg, write, handler_write_header, handler_write_body_ok,
     handler_write_body_err, app_write, mgr_stop, peer_eof, peer_reset, read_arrives, read_fails,
     write_header_completes, write_body_completes, vars

\* The inductive invariant of a session holds for ever.
LEMMA SessionInvariant == Spec => []SessionInv
<1>1. Init => SessionInv
  BY SessionAssumption
     DEF Init, SessionInv, QueueIsRest, OneChain, WireMatchesChain, WireInOrder,
         Sent, Started, InFlight
<1>2. TypeOK /\ SessionInv /\ [Next]_vars => SessionInv'
  <2> SUFFICES ASSUME TypeOK, SessionInv, [Next]_vars PROVE SessionInv'
    OBVIOUS
  <2>1. QueueIsRest /\ QueueIsRest'
    BY RestStep DEF SessionInv
  <2>2. ASSUME ~doubled' PROVE OrderInv'
    <3>1. ~doubled
      BY <2>2, DoubledForGood
    <3>2. OrderInv
      BY <3>1 DEF SessionInv, OrderInv
    <3> QED
      BY <2>1, <2>2, <3>2, OrderStep
  <2> QED
    BY <2>1, <2>2, Zenon DEF SessionInv, OrderInv
<1> QED
  BY <1>1, <1>2, TypeCorrect, PTL DEF Spec

(***************************************************************************)
(* "We can not send multiple data at one time, should be one after one"    *)
(* (the comment on msg_queue_) holds, for any number of io and application *)
(* threads, until a write() falls between the pop and the do_write of      *)
(* another thread, and that is the only way to break it.                   *)
(***************************************************************************)
THEOREM OneAfterOne == Spec => [](~doubled => OneWriteAtATime)
<1>1. SessionInv => (~doubled => OneWriteAtATime)
  BY DEF SessionInv, OneChain, OneWriteAtATime, InFlight, Started
<1> QED
  BY <1>1, SessionInvariant, PTL

(***************************************************************************)
(* Until then the socket sends header, body, header, body, ... of the      *)
(* messages given to write(), in that order, whole and once each, by       *)
(* however many threads the session is served.                             *)
(***************************************************************************)
THEOREM WholeMessagesInOrder == Spec => []WireIsFifo
<1>1. SessionInv => WireIsFifo
  BY DEF SessionInv, WireIsFifo
<1> QED
  BY <1>1, SessionInvariant, PTL

(***************************************************************************)
(* For any number of threads: a buffer that is given back is in the queue  *)
(* no more, and, until two chains meet, it is given back only after its    *)
(* message has been sent, when no operation uses it any more.              *)
(***************************************************************************)
THEOREM BuffersFreedAfterUse == Spec => []FreedAfterSent
<1>1. TypeOK /\ SessionInv => FreedAfterSent
  <2> SUFFICES ASSUME TypeOK, SessionInv PROVE FreedAfterSent
    OBVIOUS
  <2>0. QueueIsRest /\ Len(accepted) \in Nat /\ Len(msg_queue_) \in Nat /\ Len(wire) \in Nat
    BY DEF SessionInv, TypeOK
  <2>1. ASSUME NEW i \in 1..Len(msg_queue_), msg_queue_[i] \in freed PROVE FALSE
    <3>1. PICK j \in 1..Sent : msg_queue_[i] = accepted[j]
      BY <2>0, <2>1, Zenon DEF QueueIsRest
    <3>2. msg_queue_[i] = accepted[Sent + i]
      BY <2>0 DEF QueueIsRest
    <3>3. j \in 1..Len(accepted) /\ Sent + i \in 1..Len(accepted) /\ j # Sent + i
      BY <2>0 DEF QueueIsRest, Sent
    <3> QED
      BY <2>0, <3>1, <3>2, <3>3, Zenon DEF QueueIsRest
  <2>2. ASSUME ~doubled, NEW c \in Msgs, InFlight(c) PROVE op[c] \notin freed
    BY <2>0, <2>2, InFlightMessage DEF SessionInv
  <2>3. ASSUME ~doubled, NEW m \in freed
        PROVE  \E i \in 1..Len(wire) : wire[i] = [part |-> "body", msg |-> m]
    <3>1. WireInOrder /\ Len(wire) >= 2 * Sent
      BY <2>0, <2>3, WireBounded DEF SessionInv, OrderInv
    <3>2. PICK i \in 1..Sent : m = accepted[i]
      BY <2>0 DEF QueueIsRest
    <3>3. Sent <= Len(accepted) /\ Sent \in Int
      BY <2>0 DEF Sent
    <3>5. 2*i \in 1..Len(wire) /\ i \in 1..Len(accepted)
      BY <2>0, <3>1, <3>2, <3>3
    <3>6. wire[2*i] = [part |-> "body", msg |-> accepted[i]]
      <4>1. 2*i <= Len(wire)
        BY <2>0, <3>5
      <4> QED
        BY <3>1, <3>5, <4>1 DEF WireInOrder
    <3> QED
      BY <3>2, <3>5, <3>6
  <2> QED
    BY <2>1, <2>2, <2>3 DEF FreedAfterSent
<1> QED
  BY <1>1, SessionInvariant, TypeCorrect, PTL
-----------------------------------------------------------------------------
(***************************************************************************)
(* The session implements EchoChannel, step by step: what the peer has     *)
(* received is every second segment of the wire, so a completed body is a  *)
(* Deliver, a message that write() takes an Accept, a link that goes down  *)
(* a Break; the write() that doubles the session spoils the channel, which *)
(* is drained then; and every other step leaves the channel as it is.      *)
(***************************************************************************)

\* Half of an even and of an odd length.
LEMMA Halves ==
    ASSUME NEW n \in Nat
    PROVE  (2 * n) \div 2 = n /\ (2 * n + 1) \div 2 = n /\ (2 * n + 2) \div 2 = n + 1
  OBVIOUS

\* Delivered, of any wire.
Bodies(w) == [i \in 1..(Len(w) \div 2) |-> w[2*i].msg]

\* A header on the wire delivers nothing; the body delivers the next message.
LEMMA NextSegment ==
    ASSUME NEW w \in Seq(Segments), NEW n \in Nat, NEW s \in Segments
    PROVE  /\ Len(w) = 2 * n => Bodies(Append(w, s)) = Bodies(w)
           /\ Len(w) = 2 * n + 1 => /\ Len(Bodies(w)) = n
                                    /\ Bodies(Append(w, s)) = Append(Bodies(w), s.msg)
<1> DEFINE a == Append(w, s)
<1>1. /\ a \in Seq(Segments) /\ Len(w) \in Nat /\ Len(a) = Len(w) + 1
      /\ a[Len(w) + 1] = s /\ \A k \in 1..Len(w) : a[k] = w[k]
  OBVIOUS
<1> HIDE DEF a
<1>2. ASSUME Len(w) = 2 * n PROVE Bodies(a) = Bodies(w)
  <2>1. Len(w) \div 2 = n /\ Len(a) \div 2 = n
    BY <1>1, <1>2, Halves
  <2>2. \A i \in 1..n : a[2*i] = w[2*i]
    <3> SUFFICES ASSUME NEW i \in 1..n PROVE a[2*i] = w[2*i]
      OBVIOUS
    <3>1. 2*i \in 1..Len(w)
      BY <1>1, <1>2
    <3> QED
      BY <1>1, <3>1
  <2>3. Bodies(a) = [i \in 1..n |-> a[2*i].msg] /\ Bodies(w) = [i \in 1..n |-> w[2*i].msg]
    BY <2>1, Zenon DEF Bodies
  <2>4. [i \in 1..n |-> a[2*i].msg] = [i \in 1..n |-> w[2*i].msg]
    BY <2>2, Zenon
  <2> QED
    BY <2>3, <2>4, Zenon
<1>3. ASSUME Len(w) = 2 * n + 1 PROVE Len(Bodies(w)) = n /\ Bodies(a) = Append(Bodies(w), s.msg)
  <2>1. Len(w) \div 2 = n /\ Len(a) \div 2 = n + 1
    <3>1. Len(a) = 2 * n + 2
      BY <1>1, <1>3
    <3> QED
      BY <1>3, <3>1, Halves, Zenon
  <2> DEFINE dw == [i \in 1..n |-> w[2*i].msg]
             da == [i \in 1..(n + 1) |-> a[2*i].msg]
  <2>2. Bodies(w) = dw /\ Bodies(a) = da
    BY <2>1, Zenon DEF Bodies
  <2>3. ASSUME NEW i \in 1..n PROVE w[2*i] = a[2*i] /\ w[2*i].msg \in Msgs \cup {NoMsg}
    <3>1. 2*i \in 1..Len(w)
      BY <1>3
    <3>2. w[2*i] \in Segments
      BY <3>1
    <3> QED
      BY <1>1, <3>1, <3>2 DEF Segments
  <2>4. dw \in Seq(Msgs \cup {NoMsg}) /\ Len(dw) = n
    BY <2>3
  <2>5. a[2 * (n + 1)] = s
    <3>1. 2 * (n + 1) = Len(w) + 1
      BY <1>3
    <3> QED
      BY <1>1, <3>1, Zenon
  <2>6. Append(dw, s.msg) = [i \in 1..(n + 1) |-> IF i = n + 1 THEN s.msg ELSE dw[i]]
    <3> HIDE DEF dw
    <3> QED
      BY <2>4
  <2>7. ASSUME NEW i \in 1..(n + 1) PROVE da[i] = IF i = n + 1 THEN s.msg ELSE dw[i]
    <3>1. CASE i = n + 1
      BY <2>5, <3>1
    <3>2. CASE i # n + 1
      <4>1. i \in 1..n
        BY <3>2
      <4>2. da[i] = a[2*i].msg /\ dw[i] = w[2*i].msg
        BY <4>1
      <4> QED
        BY <2>3, <3>2, <4>1, <4>2
    <3> QED
      BY <3>1, <3>2
  <2>8. da = Append(dw, s.msg)
    <3>1. da = [i \in 1..(n + 1) |-> da[i]]
      BY Zenon
    <3> HIDE DEF da
    <3> QED
      BY <2>6, <2>7, <3>1, Zenon
  <2> QED
    BY <2>2, <2>4, <2>8, Zenon
<1> QED
  BY <1>2, <1>3, Zenon DEF a

\* A new session is a new channel.
LEMMA ChannelInitMaps == Init => Echo!ChannelInit
<1> SUFFICES ASSUME Init PROVE Echo!ChannelInit
  OBVIOUS
<1>1. accepted = <<>> /\ wire = <<>> /\ (link # "down") = TRUE /\ (~doubled) = TRUE
  BY DEF Init
<1>2. Len(wire) \div 2 = 0
  BY <1>1
<1>3. Delivered = <<>>
  BY <1>2 DEF Delivered
<1> QED
  BY <1>1, <1>3, Zenon DEF Echo!ChannelInit

\* Each step of the session is a step of the channel, or leaves it alone.
LEMMA ChannelStepMaps ==
    TypeOK /\ SessionInv /\ [Next]_vars => [Echo!ChannelNext]_Echo!channel
<1> SUFFICES ASSUME TypeOK, SessionInv, [Next]_vars
             PROVE  [Echo!ChannelNext]_Echo!channel
  OBVIOUS
<1>0. /\ QueueIsRest /\ (~doubled => OneChain /\ WireMatchesChain /\ WireInOrder)
      /\ wire \in Seq(Segments) /\ accepted \in Seq(Msgs) /\ link \in {"up", "eof", "down"}
      /\ Len(accepted) \in Nat /\ doubled \in BOOLEAN
  BY DEF SessionInv, TypeOK
<1>1. ASSUME UNCHANGED <<accepted, wire, link, doubled>> PROVE [Echo!ChannelNext]_Echo!channel
  <2>1. Delivered' = Delivered
    BY <1>1, Zenon DEF Delivered
  <2> QED
    BY <1>1, <2>1, Zenon DEF Echo!channel
<1>2. ASSUME UNCHANGED <<accepted, wire, doubled>>, link' = "down"
      PROVE  [Echo!ChannelNext]_Echo!channel
  <2>1. Delivered' = Delivered
    BY <1>2, Zenon DEF Delivered
  <2>2. CASE link = "down"
    BY <1>1, <1>2, <2>2, Zenon
  <2>3. CASE link # "down"
    <3>1. (link # "down") /\ (link # "down")' = FALSE
      BY <1>2, <2>3, Zenon
    <3>2. Echo!Break
      BY <1>2, <2>1, <3>1, Zenon DEF Echo!Break
    <3> QED
      BY <3>2, Zenon DEF Echo!ChannelNext
  <2> QED
    BY <2>2, <2>3
<1>3. ASSUME NEW t \in Threads, NEW m \in Msgs, write(t, m), UNCHANGED <<wire, link>>
      PROVE  [Echo!ChannelNext]_Echo!channel
  <2>1. Delivered' = Delivered /\ accepted' = Append(accepted, m)
    BY <1>3, Zenon DEF Delivered, write
  <2>2. CASE doubled' = doubled
    <3>1. Echo!Accept(m)
      BY <1>3, <2>1, <2>2, Zenon DEF Echo!Accept
    <3> QED
      BY <3>1, Zenon DEF Echo!ChannelNext
  <2>3. CASE doubled' # doubled
    <3>1. doubled' /\ ~doubled /\ BetweenPopAndWrite
      BY <1>3, <2>3, <1>0, Zenon DEF write
    <3>2. PICK u \in Threads : runs[u] # NoMsg /\ msg_queue_ = <<>>
      BY <3>1, Zenon DEF BetweenPopAndWrite
    <3>3. runs[u] \in Msgs /\ chain[runs[u]] = "do_write"
      BY <1>0, <3>1, <3>2 DEF OneChain, TypeOK
    <3>4. Len(wire) = 2 * Sent
      BY <1>0, <3>1, <3>3 DEF WireMatchesChain
    <3>5. Sent = Len(accepted)
      BY <1>0, <3>2 DEF Sent
    <3>6. Len(wire) \div 2 = Len(accepted)
      BY <1>0, <3>4, <3>5, Halves, Zenon
    <3>7. Len(Delivered) = Len(accepted)
      BY <1>0, <3>6 DEF Delivered
    <3>8. Echo!Accept(m)
      BY <1>3, <2>1, <3>1, <3>7, Zenon DEF Echo!Accept, Echo!Drained
    <3> QED
      BY <3>8, Zenon DEF Echo!ChannelNext
  <2> QED
    BY <2>2, <2>3
<1>4. ASSUME NEW c \in Msgs, write_header_completes(c) PROVE [Echo!ChannelNext]_Echo!channel
  <2>1. InFlight(c) /\ chain[c] = "hdr_io" /\ UNCHANGED <<accepted, link, doubled>>
    BY <1>4 DEF write_header_completes, InFlight
  <2>2. CASE wire' = wire
    BY <1>1, <2>1, <2>2, Zenon
  <2>3. CASE link # "down" /\ doubled
    BY <2>1, <2>3, Zenon DEF Echo!DeliverAnything, Echo!ChannelNext
  <2>4. CASE Sends("header", c) /\ ~doubled
    <3>0. Len(wire) = 2 * Sent /\ Sent \in Nat /\ Sent + 1 \in 1..Len(accepted)
      BY <1>0, <2>1, <2>4, InFlightMessage DEF WireMatchesChain
    <3>1. PICK m \in BufferContents(op[c]) : wire' = Append(wire, [part |-> "header", msg |-> m])
      BY <2>4, Zenon DEF Sends
    <3>2. m \in Msgs \cup {NoMsg}
      BY <3>1 DEF BufferContents, TypeOK
    <3> DEFINE s == [part |-> "header", msg |-> m]
    <3>3. s \in Segments /\ wire' = Append(wire, s)
      BY <3>1, <3>2 DEF Segments
    <3> HIDE DEF s
    <3>4. Delivered' = Delivered
      <4>1. Bodies(Append(wire, s)) = Bodies(wire)
        BY <1>0, <3>0, <3>3, NextSegment
      <4> QED
        BY <3>3, <4>1, Zenon DEF Delivered, Bodies
    <3> QED
      BY <2>1, <3>4, Zenon DEF Echo!channel
  <2> QED
    BY <1>4, <2>2, <2>3, <2>4, Zenon DEF write_header_completes
<1>5. ASSUME NEW c \in Msgs, write_body_completes(c) PROVE [Echo!ChannelNext]_Echo!channel
  <2>1. InFlight(c) /\ chain[c] = "body_io" /\ UNCHANGED <<accepted, link, doubled>>
    BY <1>5 DEF write_body_completes, InFlight
  <2>2. CASE wire' = wire
    BY <1>1, <2>1, <2>2, Zenon
  <2>3. CASE link # "down" /\ doubled
    BY <2>1, <2>3, Zenon DEF Echo!DeliverAnything, Echo!ChannelNext
  <2>4. CASE link # "down" /\ Sends("body", c) /\ ~doubled
    <3>0. /\ Len(wire) = 2 * Sent + 1 /\ Sent \in Nat /\ Sent + 1 \in 1..Len(accepted)
          /\ op[c] = accepted[Sent + 1] /\ op[c] \notin freed
      BY <1>0, <2>1, <2>4, InFlightMessage DEF WireMatchesChain
    <3> DEFINE s == [part |-> "body", msg |-> op[c]]
    <3>1. wire' = Append(wire, s)
      BY <3>0, <2>4, Zenon DEF Sends, BufferContents
    <3>2. s \in Segments /\ s.msg = op[c]
      BY DEF Segments, TypeOK
    <3> HIDE DEF s
    <3>3. Len(Delivered) = Sent /\ Delivered' = Append(Delivered, s.msg)
      <4>1. Len(Bodies(wire)) = Sent /\ Bodies(Append(wire, s)) = Append(Bodies(wire), s.msg)
        BY <1>0, <3>0, <3>2, NextSegment
      <4> QED
        BY <3>1, <4>1, Zenon DEF Delivered, Bodies
    <3>4. Delivered' = Append(Delivered, accepted[Len(Delivered) + 1])
      BY <3>0, <3>2, <3>3, Zenon
    <3>5. Len(Delivered) < Len(accepted)
      BY <1>0, <3>0, <3>3
    <3>6. Echo!Deliver
      BY <2>1, <2>4, <3>4, <3>5, Zenon DEF Echo!Deliver
    <3> QED
      BY <3>6, Zenon DEF Echo!ChannelNext
  <2> QED
    BY <1>5, <2>2, <2>3, <2>4, Zenon DEF write_body_completes
<1>6. CASE peer_eof
  <2>1. UNCHANGED <<accepted, wire, doubled>> /\ link = "up" /\ link' = "eof"
    BY <1>6, Zenon DEF peer_eof
  <2>2. Delivered' = Delivered
    BY <2>1, Zenon DEF Delivered
  <2>3. (link' # "down") = (link # "down")
    BY <2>1
  <2> QED
    BY <2>1, <2>2, <2>3, Zenon DEF Echo!channel
<1>7. CASE mgr_stop \/ peer_reset
  BY <1>2, <1>7, Zenon DEF mgr_stop, peer_reset
<1>8. CASE read_arrives \/ read_fails
  BY <1>1, <1>8, Zenon DEF read_arrives, read_fails
<1>9. ASSUME NEW t \in Threads, NEW c \in Msgs, do_write(t, c) PROVE [Echo!ChannelNext]_Echo!channel
  BY <1>1, <1>9, Zenon DEF do_write
<1>10. ASSUME NEW t \in IoThreads, IoStep(t) PROVE [Echo!ChannelNext]_Echo!channel
  <2>1. ASSUME NEW m \in ClientMsgs, handler_read_body_ok(t, m) PROVE [Echo!ChannelNext]_Echo!channel
    <3>1. t \in Threads /\ m \in Msgs
      BY <1>10, <2>1, Zenon DEF Threads, Msgs
    <3> QED
      BY <1>3, <2>1, <3>1, Zenon DEF handler_read_body_ok, ProcessMsg
  <2>2. CASE start(t) \/ handler_read_header(t) \/ handler_read_body_err(t)
    BY <1>1, <2>2, Zenon DEF start, handler_read_header, handler_read_body_err
  <2>3. ASSUME NEW c \in Msgs,
               handler_write_header(t, c) \/ handler_write_body_ok(t, c) \/ handler_write_body_err(t, c)
        PROVE  [Echo!ChannelNext]_Echo!channel
    BY <1>1, <2>3, Zenon DEF handler_write_header, handler_write_body_ok, handler_write_body_err
  <2> QED
    BY <1>10, <2>1, <2>2, <2>3, Zenon DEF IoStep
<1>11. ASSUME NEW t \in AppThreads, NEW m \in AppMsgs, app_write(t, m)
       PROVE  [Echo!ChannelNext]_Echo!channel
  <2>1. t \in Threads /\ m \in Msgs
    BY <1>11, Zenon DEF Threads, Msgs
  <2> QED
    BY <1>3, <1>11, <2>1, Zenon DEF app_write
<1>12. CASE UNCHANGED vars
  BY <1>1, <1>12, Zenon DEF vars
<1>13. CASE Next
  BY <1>4, <1>5, <1>6, <1>7, <1>8, <1>9, <1>10, <1>11, <1>13, Zenon DEF Next, Network
<1> QED
  BY <1>12, <1>13

(***************************************************************************)
(* A session implements the safety part of EchoChannel, with any number of *)
(* io and application threads: the peer receives the messages given to     *)
(* write() whole, once each and in order, and nothing after the link went  *)
(* down; only a message given to write() when all the former ones are      *)
(* delivered may spoil that.  (That they are delivered in the end is       *)
(* checked by TLC.)                                                        *)
(***************************************************************************)
THEOREM SessionImplementsChannel == Spec => Echo!ChannelSafe
<1>1. Init => Echo!ChannelInit
  BY ChannelInitMaps
<1>2. TypeOK /\ SessionInv /\ [Next]_vars => [Echo!ChannelNext]_Echo!channel
  BY ChannelStepMaps
<1> QED
  BY <1>1, <1>2, SessionInvariant, TypeCorrect, PTL DEF Spec, Echo!ChannelSafe

-----------------------------------------------------------------------------
(* The blocking test client with the session that serves it, for every      *)
(* number of rounds and with a link that may break at any time.  The        *)
(* session of the composition is a session of SessionTcp, so what is proved *)
(* above, its order on the wire above all, is used here.                    *)

\* A step of the composition is a step of its session, or none of it.
LEMMA SessionSteps == [EchoNext]_allVars => [Next]_vars
<1> SUFFICES ASSUME [EchoNext]_allVars PROVE [Next]_vars
  OBVIOUS
<1>1. CASE UNCHANGED allVars
  BY <1>1, Zenon DEF allVars
<1>2. CASE Client \/ misled
  <2>1. UNCHANGED vars
    BY <1>2, Zenon DEF Client, misled, connect, first_header, first_body, read_header, read_body,
                       write_header, write_body, write_segment, read_segment
  <2> QED
    BY <2>1, Zenon
<1>3. CASE segment_arrives \/ misled_arrives
  BY <1>3, Zenon DEF segment_arrives, misled_arrives, Next, Network
<1>4. CASE Session
  BY <1>4, Zenon DEF Session, Next, Network
<1>5. CASE client_closed \/ link_breaks
  BY <1>5, Zenon DEF client_closed, link_breaks, Next, Network
<1>6. CASE EchoNext
  BY <1>2, <1>3, <1>4, <1>5, <1>6, Zenon DEF EchoNext
<1> QED
  BY <1>1, <1>6

(***************************************************************************)
(* The server's side of the composition is a session as SessionTcp has it: *)
(* the client only decides which messages come, and when.                  *)
(***************************************************************************)
THEOREM ServedBySession == EchoSpec => Spec
<1>1. EchoInit => Init
  BY DEF EchoInit
<1> QED
  BY <1>1, SessionSteps, PTL DEF EchoSpec, Spec

-----------------------------------------------------------------------------
(***************************************************************************)
(* The inductive invariant: the messages that the session has accepted are *)
(* numbered as the client sent them, the client has read no more than was  *)
(* sent, and its place in RunConnection says how many segments it has      *)
(* written and read in its nCount rounds, unless it is misled.             *)
(***************************************************************************)
Counters ==
    /\ at \in Places /\ nCount \in Nat
    /\ written \in Nat /\ taken \in Nat /\ taken <= written
    /\ got \in Nat /\ got <= Len(wire)

Rounds ==
    /\ at \in {"connect", "not_connected", "first_header"} => written = 0 /\ got = 0 /\ nCount = 0
    /\ at = "first_body" => written = 1 /\ got = 0 /\ nCount = 0
    /\ at = "read_header" => got = 2 * nCount /\ written = got + 2
    /\ at = "read_body" => got = 2 * nCount + 1 /\ written = got + 1
    /\ at = "write_header" => got = 2 * nCount + 2 /\ written = got
    /\ at = "write_body" => got = 2 * nCount + 2 /\ written = got + 1
    /\ at = "exit" /\ ~doubled => got = 2 * nCount /\ written = got + 2 /\ nCount = nTotalCnt + 1
    /\ at # "exit" => nCount <= nTotalCnt
    /\ nCount <= nTotalCnt + 1
    /\ written <= 2 * nTotalCnt + 4

ClientInv == InOrder /\ Counters /\ Rounds

\* Segment i is the header or the body of message (i + 1) \div 2.
LEMMA Halving ==
    ASSUME NEW i \in Nat, i > 0
    PROVE  /\ (i + 1) \div 2 \in Nat /\ (i + 1) \div 2 > 0
           /\ i % 2 = 1 => 2 * ((i + 1) \div 2) - 1 = i
           /\ i % 2 # 1 => 2 * ((i + 1) \div 2) = i
  OBVIOUS

\* The wire of a session that accepts the messages in the client's order.
LEMMA WireIsEcho ==
    ASSUME TypeOK, SessionInv, ~doubled, InOrder, NEW i \in 1..Len(wire)
    PROVE  wire[i] = [part |-> IF i % 2 = 1 THEN "header" ELSE "body", msg |-> (i + 1) \div 2]
<1> DEFINE k == (i + 1) \div 2
<1>1. Len(wire) \in Nat /\ Len(accepted) \in Nat /\ Len(wire) <= 2 * Len(accepted)
  BY WireBounded DEF TypeOK, SessionInv, OrderInv
<1>2. i \in Nat /\ i > 0 /\ i <= Len(wire)
  BY <1>1
<1>3. /\ k \in Nat /\ k > 0
      /\ i % 2 = 1 => 2 * k - 1 = i
      /\ i % 2 # 1 => 2 * k = i
  BY <1>2, Halving
<1> HIDE DEF k
<1>4. k \in 1..Len(accepted)
  BY <1>1, <1>2, <1>3
<1>5. accepted[k] = k
  BY <1>4 DEF InOrder
<1>6. /\ 2*k - 1 <= Len(wire) => wire[2*k - 1] = [part |-> "header", msg |-> accepted[k]]
      /\ 2*k <= Len(wire) => wire[2*k] = [part |-> "body", msg |-> accepted[k]]
  BY <1>4 DEF SessionInv, WireInOrder
<1>7. CASE i % 2 = 1
  BY <1>2, <1>3, <1>5, <1>6, <1>7 DEF k
<1>8. CASE i % 2 # 1
  BY <1>2, <1>3, <1>5, <1>6, <1>8 DEF k
<1> QED
  BY <1>7, <1>8

\* What is sent stays sent.
LEMMA WireGrows == TypeOK /\ [Next]_vars => Len(wire') \in Nat /\ Len(wire) <= Len(wire')
<1> SUFFICES ASSUME TypeOK, [Next]_vars PROVE Len(wire') \in Nat /\ Len(wire) <= Len(wire')
  OBVIOUS
<1>0. wire \in Seq(Segments) /\ Len(wire) \in Nat
  BY DEF TypeOK
<1>1. CASE wire' = wire
  BY <1>0, <1>1
<1>2. ASSUME NEW s, wire' = Append(wire, s) PROVE Len(wire') \in Nat /\ Len(wire) <= Len(wire')
  <2>1. Len(wire') = Len(wire) + 1
    BY <1>0, <1>2
  <2> QED
    BY <1>0, <2>1
<1>3. wire' = wire \/ \E s : wire' = Append(wire, s)
  BY Zenon DEF Next, IoStep, Network, do_write, start, handler_read_header, handler_read_body_err,
     handler_read_body_ok, handler_write_header, handler_write_body_ok, handler_write_body_err,
     app_write, mgr_stop, peer_eof, peer_reset, read_arrives, read_fails,
     write_header_completes, write_body_completes, Sends, vars
<1> QED
  BY <1>1, <1>2, <1>3

\* A new client.
LEMMA ClientInit == EchoInit => ClientInv
<1> SUFFICES ASSUME EchoInit PROVE ClientInv
  OBVIOUS
<1>1. /\ at = "connect" /\ nCount = 0 /\ written = 0 /\ taken = 0 /\ got = 0
      /\ Len(accepted) = 0 /\ Len(wire) = 0
  BY DEF EchoInit, Init
<1>2. InOrder
  BY <1>1 DEF InOrder
<1>3. Counters
  BY <1>1 DEF Counters, Places, Loop
<1>4. Rounds
  BY <1>1, ClientAssumption DEF Rounds
<1> QED
  BY <1>2, <1>3, <1>4 DEF ClientInv

\* Each step keeps the counts of the client and the numbering.
LEMMA ClientStep == TypeOK /\ ClientInv /\ [EchoNext]_allVars => ClientInv'
<1> SUFFICES ASSUME TypeOK, ClientInv, [EchoNext]_allVars PROVE ClientInv'
  OBVIOUS
<1>0. /\ InOrder /\ Counters /\ Rounds /\ nTotalCnt \in Nat
      /\ Len(wire) \in Nat /\ Len(wire') \in Nat /\ Len(wire) <= Len(wire')
      /\ doubled => doubled'
  BY SessionSteps, WireGrows, DoubledForGood, ClientAssumption DEF ClientInv, TypeOK
<1>1. ASSUME UNCHANGED accepted PROVE InOrder'
  BY <1>0, <1>1, Zenon DEF InOrder
<1>2. ASSUME UNCHANGED <<at, nCount, written, got>>, taken' \in Nat, taken' <= written
      PROVE  Counters' /\ Rounds'
  <2>1. Counters'
    BY <1>0, <1>2 DEF Counters
  <2>2. Rounds'
    BY <1>0, <1>2, Zenon DEF Rounds
  <2> QED
    BY <2>1, <2>2
<1>3. ASSUME UNCHANGED <<accepted, clientVars>> PROVE ClientInv'
  <2>1. UNCHANGED <<at, nCount, written, got>> /\ taken' = taken /\ UNCHANGED accepted
    BY <1>3, Zenon DEF clientVars
  <2>2. taken' \in Nat /\ taken' <= written
    BY <1>0, <2>1 DEF Counters
  <2> QED
    BY <1>1, <1>2, <2>1, <2>2, Zenon DEF ClientInv
<1>4. ASSUME UNCHANGED <<vars, taken>>, Counters', Rounds' PROVE ClientInv'
  BY <1>1, <1>4, Zenon DEF ClientInv, vars
<1>5. ASSUME NEW next \in Places, connect(next) PROVE ClientInv'
  <2>1. /\ at = "connect" /\ at' \in {"first_header", "not_connected"} /\ UNCHANGED <<vars, taken>>
        /\ nCount' = nCount /\ written' = written /\ got' = got
    BY <1>5, Zenon DEF connect
  <2>2. Counters'
    BY <1>0, <2>1 DEF Counters, Places, Loop, Ends
  <2>3. Rounds'
    BY <1>0, <2>1 DEF Rounds
  <2> QED
    BY <1>4, <2>1, <2>2, <2>3, Zenon
<1>6. ASSUME NEW here \in Places, NEW next \in Places, write_segment(here, next),
             nCount' \in Nat, Rounds'
      PROVE  ClientInv'
  <2>1. /\ UNCHANGED <<vars, taken>> /\ got' = got
        /\ (written' = written + 1 /\ at' = next) \/ (written' = written /\ at' = "exception")
    BY <1>6, Zenon DEF write_segment
  <2>2. "exception" \in Places
    BY DEF Places, Loop, Ends, Closed
  <2>3. at' \in Places
    BY <1>6, <2>1, <2>2, Zenon
  <2>4. taken' = taken
    BY <2>1, Zenon
  <2>5. Counters'
    BY <1>0, <1>6, <2>1, <2>3, <2>4 DEF Counters
  <2> QED
    BY <1>4, <1>6, <2>1, <2>5, Zenon
<1>7. ASSUME NEW here \in Places, NEW next \in Places, read_segment(here, next), Rounds'
      PROVE  ClientInv'
  <2>1. /\ UNCHANGED <<vars, taken>> /\ written' = written /\ nCount' = nCount /\ wire' = wire
        /\ (got < Len(wire) /\ got' = got + 1 /\ at' = next) \/ (got' = got /\ at' = "exception")
    BY <1>7, Zenon DEF read_segment, vars
  <2>2. "exception" \in Places
    BY DEF Places, Loop, Ends, Closed
  <2>3. at' \in Places
    BY <1>7, <2>1, <2>2, Zenon
  <2>4. taken' = taken
    BY <2>1, Zenon
  <2>5. Counters'
    BY <1>0, <2>1, <2>3, <2>4 DEF Counters
  <2> QED
    BY <1>4, <1>7, <2>1, <2>5, Zenon
<1>8. /\ {"first_header", "first_body", "read_header", "read_body", "write_header", "write_body",
          "exit", "exception"} \subseteq Places
      /\ nCount \in Nat /\ written \in Nat /\ got \in Nat
  BY <1>0 DEF Places, Loop, Ends, Closed, Counters
<1>9. CASE first_header
  <2>1. write_segment("first_header", "first_body") /\ nCount' = nCount
    BY <1>9, Zenon DEF first_header
  <2>2. Rounds'
    BY <1>0, <1>8, <2>1 DEF write_segment, Rounds
  <2> QED
    BY <1>6, <1>8, <2>1, <2>2
<1>10. CASE first_body
  <2>1. write_segment("first_body", "read_header") /\ nCount' = nCount
    BY <1>10, Zenon DEF first_body
  <2>2. Rounds'
    BY <1>0, <1>8, <2>1 DEF write_segment, Rounds
  <2> QED
    BY <1>6, <1>8, <2>1, <2>2
<1>11. CASE read_header
  <2>1. read_segment("read_header", "read_body")
    BY <1>11, Zenon DEF read_header
  <2>2. Rounds'
    BY <1>0, <1>8, <2>1 DEF read_segment, Rounds
  <2> QED
    BY <1>7, <1>8, <2>1, <2>2
<1>12. CASE read_body
  <2>1. read_segment("read_body", "write_header")
    BY <1>12, Zenon DEF read_body
  <2>2. Rounds'
    BY <1>0, <1>8, <2>1 DEF read_segment, Rounds
  <2> QED
    BY <1>7, <1>8, <2>1, <2>2
<1>13. CASE write_header
  <2>1. write_segment("write_header", "write_body") /\ nCount' = nCount
    BY <1>13, Zenon DEF write_header
  <2>2. Rounds'
    BY <1>0, <1>8, <2>1 DEF write_segment, Rounds
  <2> QED
    BY <1>6, <1>8, <2>1, <2>2
<1>14. CASE write_body
  <2> DEFINE next == IF nCount < nTotalCnt THEN "read_header" ELSE "exit"
  <2>1. /\ write_segment("write_body", next)
        /\ nCount' = IF at' = "exception" THEN nCount ELSE nCount + 1
    BY <1>14, Zenon DEF write_body
  <2>2. next \in Places /\ nCount' \in Nat
    BY <1>8, <2>1
  <2>3. next = IF nCount < nTotalCnt THEN "read_header" ELSE "exit"
    OBVIOUS
  <2>4. Rounds'
    BY <1>0, <1>8, <2>1 DEF write_segment, Rounds
  <2> HIDE DEF next
  <2> QED
    BY <1>6, <1>8, <2>1, <2>2, <2>4
<1>15. CASE Client
  BY <1>5, <1>9, <1>10, <1>11, <1>12, <1>13, <1>14, <1>15, Zenon DEF Client
<1>16. CASE segment_arrives
  <2>1. /\ taken < written /\ taken' = taken + 1 /\ UNCHANGED <<at, nCount, written, got>>
        /\ UNCHANGED accepted
    BY <1>16, Zenon DEF segment_arrives, read_arrives
  <2>2. taken' \in Nat /\ taken' <= written
    BY <1>0, <2>1 DEF Counters
  <2> QED
    BY <1>1, <1>2, <2>1, <2>2, Zenon DEF ClientInv
<1>17. CASE misled
  <2>1. /\ doubled /\ UNCHANGED <<vars, taken>> /\ at' \in {"misled"} \cup Closed
        /\ at \in Loop \cup {"misled"}
        /\ nCount' = nCount /\ written' = written /\ got' = got
    BY <1>17, Zenon DEF misled
  <2>2. at' \in Places /\ at' \in {"misled", "exit", "exception"} /\ taken' = taken
    BY <2>1 DEF Places, Loop, Ends, Closed
  <2>3. Counters'
    BY <1>0, <2>1, <2>2 DEF Counters
  <2>4. doubled' /\ at # "exit"
    BY <1>0, <2>1 DEF Loop
  <2>5. Rounds'
    BY <1>0, <1>8, <2>1, <2>2, <2>4 DEF Rounds
  <2> QED
    BY <1>4, <2>1, <2>3, <2>5, Zenon
<1>18. CASE misled_arrives
  BY <1>3, <1>18, Zenon DEF misled_arrives, read_arrives
<1>19. CASE Session
  <2>1. InOrder' /\ UNCHANGED <<at, nCount, written, got>> /\ taken' = taken
    BY <1>19, Zenon DEF Session, clientVars
  <2>2. taken' \in Nat /\ taken' <= written
    BY <1>0, <2>1 DEF Counters
  <2> QED
    BY <1>2, <2>1, <2>2, Zenon DEF ClientInv
<1>20. CASE client_closed \/ link_breaks
  BY <1>3, <1>20, Zenon DEF client_closed, link_breaks, peer_eof, peer_reset, mgr_stop
<1>21. CASE UNCHANGED allVars
  BY <1>3, <1>21, Zenon DEF allVars, vars
<1>22. CASE EchoNext
  BY <1>15, <1>16, <1>19, <1>20, <1>22, <1>17, <1>18, Zenon DEF EchoNext
<1> QED
  BY <1>21, <1>22

\* The invariant of the client holds for ever.
LEMMA ClientInvariant == EchoSpec => [](TypeOK /\ ClientInv)
<1> QED
  BY ClientInit, ClientStep, ServedBySession, TypeCorrect, PTL DEF EchoSpec

(***************************************************************************)
(* The counters of RunConnection keep their bounds, and neither side reads *)
(* more than the other has written.                                        *)
(***************************************************************************)
THEOREM ClientTypeCorrect == EchoSpec => []ClientTypeOK
<1>1. TypeOK /\ ClientInv => ClientTypeOK
  <2> SUFFICES ASSUME TypeOK, ClientInv PROVE ClientTypeOK
    OBVIOUS
  <2>1. Counters /\ Rounds /\ Len(wire) \in Nat /\ nTotalCnt \in Nat
    BY ClientAssumption DEF ClientInv, TypeOK
  <2>2. nCount \in 0..(nTotalCnt + 1) /\ written \in 0..(2 * nTotalCnt + 4)
    BY <2>1 DEF Counters, Rounds
  <2>3. taken \in 0..written /\ got \in 0..Len(wire) /\ at \in Places
    BY <2>1 DEF Counters
  <2> QED
    BY <2>2, <2>3 DEF ClientTypeOK
<1> QED
  BY <1>1, ClientInvariant, PTL

(***************************************************************************)
(* Until its session is doubled, with any number of io threads at the      *)
(* server: every reply that the client reads is the echo of its latest     *)
(* request, header first, whenever the link breaks; and a client that ends *)
(* by itself has written two segments, its last message, more than the     *)
(* replies it has read, for any nTotalCnt.                                 *)
(***************************************************************************)
THEOREM RepliesAreEchoes == EchoSpec => []EchoMatches
<1>1. TypeOK /\ SessionInv /\ ClientInv => EchoMatches
  <2> SUFFICES ASSUME TypeOK, SessionInv, ClientInv, ~doubled
               PROVE  /\ \A i \in 1..got :
                           wire[i] = [part |-> IF i % 2 = 1 THEN "header" ELSE "body",
                                      msg |-> (i + 1) \div 2]
                      /\ at = "write_header" => got = written
                      /\ at = "exit" => got = 2 * (nTotalCnt + 1) /\ written = got + 2
    BY Zenon DEF EchoMatches
  <2>1. InOrder /\ Counters /\ Rounds /\ Len(wire) \in Nat /\ nTotalCnt \in Nat
    BY ClientAssumption DEF ClientInv, TypeOK
  <2>2. ASSUME NEW i \in 1..got
        PROVE  wire[i] = [part |-> IF i % 2 = 1 THEN "header" ELSE "body", msg |-> (i + 1) \div 2]
    <3>1. i \in 1..Len(wire)
      BY <2>1 DEF Counters
    <3> QED
      BY <2>1, <3>1, WireIsEcho
  <2>3. /\ at = "write_header" => got = written
        /\ at = "exit" => got = 2 * (nTotalCnt + 1) /\ written = got + 2
    BY <2>1 DEF Rounds
  <2> QED
    BY <2>2, <2>3
<1> QED
  BY <1>1, ClientInvariant, ServedBySession, SessionInvariant, PTL
=============================================================================
